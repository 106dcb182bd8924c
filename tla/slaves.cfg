SPECIFICATION SlavesFairSpec
CONSTANTS
    t1 = t1
    t2 = t2
    Tile <- TwoTiles
    Zoom <- MCZoom
    ZoomOf <- MCZoomOf
    Fd = {f1}
    FD_INVALID = FD_INVALID
    ClientCmd = {"cmdRender", "cmdDirty"}
    Thread = {w1, s1}
    RenderTime <- MCRenderTime
    MaxRequests = 2
    REQ_LIMIT = 2
    DIRTY_LIMIT = 1
    Conn = {c1}
    NoConn = NoConn
    BadMsg = {"short"}
    Slave = {s1}
    MAX_CONNECTIONS = 1
    MaxInbox = 2
    MayExit = TRUE
    SendRetries = 2
PROPERTIES
    ImplementsRenderService
CHECK_DEADLOCK FALSE
