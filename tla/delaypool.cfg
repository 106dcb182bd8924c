SPECIFICATION DelayFairSpec
CONSTANTS
    p1 = p1
    p2 = p2
    a = a
    b = b
    k1 = k1
    Proc = {p1, p2}
    Ip = {a, b}
    Key = {k1}
    hashkey <- Colliding
    nobody = nobody
    NoProc = NoProc
    tile_size = 2
    tile_rate = 1
    render_size = 1
    render_rate = 2
    CLIENT_PENALTY = 1
    MaxTime = 2
INVARIANT SkipsOnlyDuringFillup
INVARIANT RateBound
PROPERTY AlwaysReturns
