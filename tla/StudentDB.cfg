SPECIFICATION Spec
CONSTANTS
    NULL_HASH = NULL_HASH
    MAX_TREE_DEPTH = 4
    MAX_TREE_RESULTS = 3
    MAX_TREE_NODE_VALUES = 1
    BUFSIZE = 2
    Configs <- SmallBuilds
    Keys = {0, 1, 2, 3, 4, 5, 6, 7, 8}
    WriteKeys = {0, 1, 2, 4, 5, 7, 8}
    EditKeys = {0, 2, 5, 7, 8}
    ProbeKeys = {1, 4}
    NewRows = {100, 101}
    MaxEdits = 1
    MaxReopens = 1
INVARIANTS
    SearchTrees
    KeptBalanced
    
    CachesCertified
    EndsEarly
    RightBlocks
    MergeInOrder
    NoEmptyChunk
    ImplementsTable
PROPERTIES
    PathLeadsBack
    RootIsBalanced
CHECK_DEADLOCK FALSE
