SPECIFICATION Spec
CONSTANTS
    t1 = t1
    t2 = t2
    Tile <- OneTile
    Zoom <- MCZoom
    ZoomOf <- MCZoomOf
    Fd = {f1, f2, f3}
    FD_INVALID = FD_INVALID
    ClientCmd = {"cmdRender", "cmdDirty"}
    Thread = {w1}
    RenderTime <- MCRenderTime
    MaxRequests = 2
    REQ_LIMIT = 1
    DIRTY_LIMIT = 1
    Conn = {c1, c2, c3}
    NoConn = NoConn
    BadMsg = {"cmdInvalid", "short"}
    Slave = {}
    MAX_CONNECTIONS = 2
    MaxInbox = 1
    MayExit = TRUE
INVARIANTS
    SlotsExact
    QueuedFdCurrent
    OneAnswerToItsClient
PROPERTIES
    ClosedForCause
SYMMETRY MCSymmetry
CHECK_DEADLOCK FALSE
