SPECIFICATION StorageSpec
CONSTANTS
    Writer = {w1, w2}
    Reader = {r1}
    Expirer = {e1, e2}
    FirstYear = 133
    LastYear = 134
    Shift = {1}
    MaxFiles = 3
    Meta = {m1, m2}
    Opt = {o0, o1}
    NoOpt = o0
    Client = {c1}
    Marker = {k1, k2}
    MaxWrites = 3
    Tile = {t1, t2}
    Thread = {h1}
    MaxVersion = 2
    ConnectionString = {"/directory", "/file", "rados://", "memcached://", "ro_http_proxy://", "composite:{", "null://"}
INVARIANTS
    LostUpdateIsMarked
    TileFitsHeader
    ReadIsWhole
    MarkedKeepsReference
    ProxiedTileIsAsked
CHECK_DEADLOCK FALSE
