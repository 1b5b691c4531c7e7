SPECIFICATION Spec
CONSTANTS
    NULL_HASH = NULL_HASH
    MAX_TREE_DEPTH = 4
    MAX_TREE_RESULTS = 3
    MAX_TREE_NODE_VALUES = 1
    BUFSIZE = 2
    Configs = {}
    Keys = {0, 1, 2, 3}
    WriteKeys = {0, 1, 2, 3}
    EditKeys = {0, 1, 2, 3}
    ProbeKeys = {1}
    NewRows = {100, 101}
    MaxEdits = 1
    MaxReopens = 1
INVARIANT
    FindsMatching
CHECK_DEADLOCK FALSE
