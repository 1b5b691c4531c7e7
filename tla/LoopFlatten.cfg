SPECIFICATION Spec
CONSTANT
    Programs <- SmallPrograms
INVARIANTS
    SameTrace
    CountsAgree
    NoIdlePass
CHECK_DEADLOCK FALSE
