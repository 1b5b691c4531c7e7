SPECIFICATION Spec
CONSTANTS
    Addrs = {0, 1}
    Values = {0, 1}
    MaxOps = 3
    MaxDepth = 1
INVARIANTS
    TypeOK
    RamAgrees
    ThenWitnessSatisfies
    LoadsDetermined
CHECK_DEADLOCK FALSE
