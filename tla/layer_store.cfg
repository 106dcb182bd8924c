SPECIFICATION ConfigSpec
CONSTANTS
    MAX_ZOOM = 2
    XMLCONFIGS_MAX = 3
    MAX_SLAVES = 2
    NPROCESSORS = 2
    MAX_ZOOM_SERVER = 3
    Main = main
    Vhost = {v1, v2}
    ConfigFile <- MCConfigFile
    AddedLayer <- MCAddedLayer
    TileDir = {"d1"}
    Composite = {"pair"}
    Thread = {t1}
    Directory = {"", "RENDERD_TILE_DIR", "d1", "d2", "pair"}
    Element = {"a", "b"}
    Path <- MCPath
    MaxLayers = 3
INVARIANTS
    StoreIsOfLayer
CHECK_DEADLOCK FALSE
