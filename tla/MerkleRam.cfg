SPECIFICATION Spec
CONSTANTS
    NumAddresses = 4
    Values = {0, 1}
INVARIANTS
    TypeOK
    CacheIsTree
    ChecksSatisfied
    RootThreaded
    StoreInRange
