SPECIFICATION FairSpec
CONSTANTS
    Thread = {w1, w2}
    num_maps = 2
    ManyThreads = TRUE
    MayFail = {"store", "load", "fixup"}
    MaxOpenFailures = 1
    MaxRenameFailures = 2
    Free = Free
CHECK_DEADLOCK FALSE
INVARIANTS
    StartsReady
    OneLoader
    StatsFileWhole
PROPERTIES
    StartupEnds
