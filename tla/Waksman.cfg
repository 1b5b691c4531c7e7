SPECIFICATION Spec
CONSTANT MaxWidth = 7
INVARIANTS NoAssertFails HalvesFilled AllAssigned RoutesNetwork
PROPERTY Terminates
CHECK_DEADLOCK FALSE
