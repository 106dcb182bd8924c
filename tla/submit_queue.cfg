SPECIFICATION SubmitFairSpec
CONSTANTS
    Worker = {w1, w2}
    MaxJobs = 4
    Duration = {0, 1, 2}
CHECK_DEADLOCK FALSE
INVARIANTS
    ListExact
    NothingLeftBehind
PROPERTIES
    Finishes
