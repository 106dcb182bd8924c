SPECIFICATION ToolSpec
CONSTANTS
    METATILE = 2
    MAX_ZOOM = 10
    MaxLines = 3
    Line <- MCLine
    Options <- MCOptions
    XMLCONFIGS_MAX = 3
    MAX_SLAVES = 2
    NPROCESSORS = 2
    Clean <- MCClean
    Tree <- MCTree
    Cut <- MCCut
INVARIANTS
    ExpiryComplete
    ListCovers
    OldExact
CHECK_DEADLOCK FALSE
