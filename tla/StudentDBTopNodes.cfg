SPECIFICATION Spec
CONSTANTS
    NULL_HASH = NULL_HASH
    MAX_TREE_DEPTH = 4
    MAX_TREE_RESULTS = 3
    MAX_TREE_NODE_VALUES = 1
    BUFSIZE = 2
    Configs <- DeepBuild
    Keys = {0, 1, 2, 3, 4, 5, 6}
    WriteKeys = {}
    EditKeys = {}
    ProbeKeys = {1, 4}
    NewRows = {100}
    MaxEdits = 0
    MaxReopens = 1
INVARIANT
    SelfCertifying
CHECK_DEADLOCK FALSE
