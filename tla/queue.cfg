SPECIFICATION QueueSpec
CONSTANTS
    t1 = t1
    t2 = t2
    t3 = t3
    Tile <- MCTile
    Zoom <- MCZoom
    ZoomOf <- MCZoomOf
    Fd = {f1}
    FD_INVALID = FD_INVALID
    ClientCmd = {"cmdRender", "cmdRenderPrio", "cmdRenderLow", "cmdRenderBulk", "cmdDirty"}
    Thread = {w1, w2}
    RenderTime <- MCRenderTime
    MaxRequests = 3
    REQ_LIMIT = 1
    DIRTY_LIMIT = 2
INVARIANTS
    OneListedPerTile
    OwnedOnce
    NoLostWakeup
    StatsBalance
    QueueInv
PROPERTIES
    ClearIsComplete
SYMMETRY MCSymmetry
CHECK_DEADLOCK FALSE
