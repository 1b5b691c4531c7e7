SPECIFICATION Spec
CONSTANTS
    Addrs = {0, 1}
    Values = {0, 1}
    MaxOps = 2
    MaxDepth = 1
INVARIANT
    OnlyTheProgram
CHECK_DEADLOCK FALSE
