--------------------------- MODULE ModTileConfig ---------------------------
(***************************************************************************)
(* mod_tile from the configuration of Apache to the stores of its layers:  *)
(* the directives fill the configuration of the main server and of every   *)
(* virtual host, Apache merges the former into the latter, the parent      *)
(* creates the shared counters, and the threads of the children find the   *)
(* layer of a request (tile_translate) and open its store                  *)
(* (get_storage_backend).                                                  *)
(***************************************************************************)
EXTENDS RenderdConfig, FiniteSets

CONSTANTS
    Main, Vhost,     \* the servers
    ConfigFile,      \* the renderd.conf files LoadTileConfigFile may name
    MAX_ZOOM_SERVER,
    AddedLayer,      \* the layers AddTileConfig may define
    TileDir,         \* arguments of ModTileTileDir
    Composite,       \* the connection strings that name two stores
    Thread,          \* threads of the children
    Directory,       \* directories and connection strings; "" is none given
    Element,         \* path elements of the URIs
    Path,            \* paths of requests; "tile" ends that of a tile
    MaxLayers        \* bound on the layers defined

NULL == "NULL"
TileNames == {"tile", "tile-layer.json"}
URI == Seq(Element)

MapSection == [kind : {"map"}, name : STRING, uri : URI, tile_dir : Directory, min_zoom : Int, max_zoom : Int,
               valid : BOOLEAN]

(* Paths end in the name of a tile or of the TileJSON page, and no URI     *)
(* contains such a name.  Special values are not directories.              *)
ASSUME ConfigAssumption ==
    /\ Main \notin Vhost
    /\ {"", "RENDERD_TILE_DIR"} \cup TileDir \subseteq Directory /\ NULL \notin Directory
    /\ \A ini \in ConfigFile : Len(ini) \in Nat /\ Sections(ini, "map") \in Seq(MapSection)
    /\ AddedLayer \subseteq [uri : URI, tile_dir : Directory, min_zoom : Int, max_zoom : Int]
    /\ Element \cap TileNames = {}
    /\ \A path \in Path : path \in Seq(Element \cup TileNames) /\ path # <<>> /\ Last(path) \in TileNames

VARIABLES
    phase,        \* "config", "run", or "exit" after an error
    scfg,         \* [tile_dir, configs] of every server; a layer of configs
                  \* is [uri, store, origin], origin being
                  \* history: the file it comes from, <<>> for AddTileConfig
    layerCount,
    stats_layers, \* layers the shared counters have room for
    backends,     \* the stores of every thread: [noBackends, stores, served],
                  \* served being history: the servers they were used for
    open,         \* history: the connections that are open: <<thread,
                  \* place in its array or Beyond, 1 or 2>>
    request       \* [at, server, path, layer, store] of the request of a thread

configVars == <<phase, scfg, layerCount, stats_layers>>
runVars == <<backends, open, request>>
modTileVars == <<configVars, runVars>>

Server == {Main} \cup Vhost
NoRequest == [at |-> "idle", server |-> Main, path |-> <<>>, layer |-> 0, store |-> NULL]

(* Not a place in the array of stores. *)
Beyond == 0

(* What a thread knows of its stores; none before its first request. *)
NoStores == [noBackends |-> 0, stores |-> <<>>, served |-> {}]

(* create_tile_config *)
NoLayers == [tile_dir |-> "RENDERD_TILE_DIR", configs |-> <<>>]

ConfigInit ==
    /\ phase = "config"
    /\ scfg = [s \in Server |-> NoLayers]
    /\ layerCount = 0 /\ stats_layers = 0
    /\ backends = [t \in Thread |-> NoStores]
    /\ open = {}
    /\ request = [t \in Thread |-> NoRequest]

-----------------------------------------------------------------------------
(* The directives, each in the section of a server *)

(* A directive that reports an error ends Apache, and so does a file that  *)
(* makes process_map_sections call exit.                                   *)
ConfigError == phase' = "exit" /\ UNCHANGED <<scfg, layerCount, stats_layers, runVars>>

(* mod_tile_tile_dir_config *)
ModTileTileDir(s, dir) ==
    /\ phase = "config"
    /\ scfg' = [scfg EXCEPT ![s].tile_dir = dir]
    /\ UNCHANGED <<phase, layerCount, stats_layers, runVars>>

(* Layers are appended to those of the server.  One without a directory of *)
(* its own gets the one of the server at that moment.                      *)
_add_tile_configs(s, layers, origin) ==
    LET Layer(l) == [uri |-> l.uri, origin |-> origin,
                     store |-> IF l.tile_dir = "" THEN scfg[s].tile_dir ELSE l.tile_dir]
    IN  /\ scfg' = [scfg EXCEPT ![s].configs = @ \o [i \in DOMAIN layers |-> Layer(layers[i])]]
        /\ layerCount' = layerCount + Len(layers)
        /\ UNCHANGED <<phase, stats_layers, runVars>>

AddTileConfig(s, l) ==
    /\ phase = "config" /\ layerCount < MaxLayers
    /\ IF l.min_zoom < 0 \/ l.max_zoom > MAX_ZOOM_SERVER THEN ConfigError
       ELSE _add_tile_configs(s, <<l>>, <<>>)

(* No zoom levels and no directory are given. *)
AddTileMimeConfig(s, l) ==
    /\ phase = "config" /\ layerCount < MaxLayers
    /\ _add_tile_configs(s, <<[l EXCEPT !.tile_dir = "", !.min_zoom = 0, !.max_zoom = MAX_ZOOM]>>, <<>>)

LoadTileConfigFile(s, ini) ==
    LET file == process_map_sections(ini, "")
    IN  /\ phase = "config" /\ layerCount + Len(ini) <= MaxLayers
        /\ IF file.exit THEN ConfigError
           ELSE _add_tile_configs(s, file.maps, ini)

(* merge_tile_config: the layers of the main server come first; all other  *)
(* settings are those of the virtual host.                                 *)
merge_tile_config(base, over) == [over EXCEPT !.configs = base.configs \o over.configs]

(* Mutation: as many as the main server has layers. *)
CountersOwn(servers) == Len(servers[Main].configs)

(* "would prefer to use scfg->configs->nelts here but that does not seem   *)
(* to be set at this stage, so rely on previously set layerCount"          *)
Counters(servers) == layerCount

(* The configuration is read and the servers are merged; then              *)
(* mod_tile_post_config.                                                   *)
PostConfig ==
    /\ phase = "config" /\ phase' = "run"
    /\ scfg' = [s \in Server |-> IF s = Main THEN scfg[s] ELSE merge_tile_config(scfg[Main], scfg[s])]
    /\ stats_layers' = Counters(scfg')
    /\ UNCHANGED <<layerCount, runVars>>

Directive ==
    \E s \in Server :
        \/ \E dir \in TileDir : ModTileTileDir(s, dir)
        \/ \E l \in AddedLayer : AddTileConfig(s, l) \/ AddTileMimeConfig(s, l)
        \/ \E ini \in ConfigFile : LoadTileConfigFile(s, ini)

-----------------------------------------------------------------------------
(* The requests *)

(* The store at place i of a thread and what is open afterwards.  A        *)
(* composite store is none unless both of its stores could be opened; when *)
(* the second could not, the first is closed again.                        *)
init_storage_ro_composite(t, i) ==
    {[opened |-> first /\ second,
      connections |-> IF first /\ second THEN {<<t, i, 1>>, <<t, i, 2>>} ELSE {}] :
        first, second \in BOOLEAN}

init_storage_backend(t, i, connection) ==
    IF connection \in Composite THEN init_storage_ro_composite(t, i)
    ELSE {[opened |-> FALSE, connections |-> {}], [opened |-> TRUE, connections |-> {<<t, i, 1>>}]}

(* The array is made for the server the thread first works for, and found  *)
(* again by every later request of the thread.                             *)
Backends(known, s) ==
    IF known.noBackends # 0 THEN [known EXCEPT !.served = @ \cup {s}]
    ELSE [noBackends |-> Len(scfg[s].configs), served |-> {s},
          stores |-> [i \in 1..Len(scfg[s].configs) |-> NULL]]

(* Mutation: the store of the first layer. *)
ConnectionFirst(s, i) == scfg[s].configs[1].store

Connection(s, i) == scfg[s].configs[i].store

(* The answers of get_storage_backend, with what the thread knows and has  *)
(* opened by then.  The number of the layer is not checked: what lies      *)
(* beyond the end of the array is not known.  If NULL is there, the store  *)
(* of the layer is opened, and written to that place.                      *)
get_storage_backend(t, s, i) ==
    LET known == Backends(backends[t], s)
        Found(store) == [store |-> store, backends |-> known, connections |-> {}]
        StoreOf(new) == IF new.opened THEN Connection(s, i) ELSE NULL
    IN  IF i > known.noBackends
        THEN {Found("UNDEFINED")} \cup
             {[store |-> StoreOf(new), backends |-> known, connections |-> new.connections] :
                new \in init_storage_backend(t, Beyond, Connection(s, i))}
        ELSE IF known.stores[i] # NULL THEN {Found(known.stores[i])}
        ELSE {[store |-> StoreOf(new), backends |-> [known EXCEPT !.stores[i] = StoreOf(new)],
               connections |-> new.connections] : new \in init_storage_backend(t, i, Connection(s, i))}

(* The first layer whose URI the path begins with decides. *)
tile_translate(t, s, path) ==
    LET layers == scfg[s].configs
        matching == {i \in DOMAIN layers : IsPrefix(layers[i].uri, path)}
        i == Min(matching)
        rest == IF matching = {} THEN <<>> ELSE SubSeq(path, Len(layers[i].uri) + 1, Len(path))
        Answer(at, layer, store) ==
            request' = [request EXCEPT ![t] =
                [at |-> at, server |-> s, path |-> path, layer |-> layer, store |-> store]]
    IN  /\ phase = "run" /\ request[t].at = "idle"
        /\ UNCHANGED configVars
        /\ \/ /\ rest \notin {<<"tile">>, <<"tile-layer.json">>}
              /\ Answer("DECLINED", 0, NULL)
              /\ UNCHANGED <<backends, open>>
           \/ /\ rest = <<"tile-layer.json">>
              /\ Answer("tile_json", i, NULL)
              /\ UNCHANGED <<backends, open>>
           \/ /\ rest = <<"tile">>
              /\ \E got \in get_storage_backend(t, s, i) :
                    /\ Answer(IF got.store = NULL THEN "500" ELSE "tile_serve", i, got.store)
                    /\ backends' = [backends EXCEPT ![t] = got.backends]
                    /\ open' = open \cup got.connections

(* The handler has answered the request. *)
Answered(t) ==
    /\ request[t].at # "idle"
    /\ request' = [request EXCEPT ![t] = NoRequest]
    /\ UNCHANGED <<configVars, backends, open>>

(* Mutation: the last store is forgotten. *)
cleanup_storage_backend_short(t) ==
    LET known == backends[t]
    IN  /\ phase = "run" /\ request[t].at = "idle" /\ known.noBackends # 0
        /\ open' = open \ {c \in open : \E i \in 1..known.noBackends - 1 : known.stores[i] # NULL /\ c[1] = t /\ c[2] = i}
        /\ backends' = [backends EXCEPT ![t] = NoStores]
        /\ UNCHANGED <<configVars, request>>

(* The thread ends and its pool is cleaned up; another takes its place. *)
cleanup_storage_backend(t) ==
    LET known == backends[t]
    IN  /\ phase = "run" /\ request[t].at = "idle" /\ known.noBackends # 0
        /\ open' = open \ {c \in open : \E i \in 1..known.noBackends : known.stores[i] # NULL /\ c[1] = t /\ c[2] = i}
        /\ backends' = [backends EXCEPT ![t] = NoStores]
        /\ UNCHANGED <<configVars, request>>

ConfigNext ==
    \/ Directive
    \/ PostConfig
    \/ \E t \in Thread :
        \/ \E s \in Server, path \in Path : tile_translate(t, s, path)
        \/ Answered(t)
        \/ cleanup_storage_backend(t)

ConfigSpec == ConfigInit /\ [][ConfigNext]_modTileVars

-----------------------------------------------------------------------------
(* The shared counters have room for every layer number a request can      *)
(* have: layerCount, which the directives raise and no merge does, bounds  *)
(* the layers of every server, those of virtual hosts that begin with the  *)
(* layers of the main server included (mod_tile_post_config,               *)
(* merge_tile_config).                                                     *)
LayersCounted == phase = "run" => \A s \in Server : Len(scfg[s].configs) <= stats_layers

(* A server whose layers all come from one renderd.conf serves every map of*)
(* that file: a request below the URI of a map is never taken, and never   *)
(* declined, by an earlier map (process_map_sections, tile_translate).     *)
OwnMapServed ==
    \A t \in Thread :
        LET r == request[t]
            layers == scfg[r.server].configs
        IN  r.at # "idle" /\ (\E i \in DOMAIN layers : layers[i].uri = Front(r.path))
                /\ (\A i, j \in DOMAIN layers : layers[i].origin = layers[j].origin /\ layers[i].origin # <<>>)
            => r.layer # 0 /\ layers[r.layer].uri = Front(r.path)

(* A thread that has served only servers with the same layers uses, for    *)
(* every request, the store of the request's layer, whichever of its       *)
(* earlier attempts to open one failed (get_storage_backend).              *)
StoreOfSameLayers ==
    \A t \in Thread :
        LET r == request[t]
            layers == scfg[r.server].configs
        IN  r.at = "tile_serve" /\ (\A s \in backends[t].served : scfg[s].configs = layers)
            => r.store = layers[r.layer].store

(* The connections that are open are those of the stores the threads know: *)
(* none is lost when a store cannot be opened, or only half, when it is    *)
(* tried again, nor when a thread ends and the next one takes its place    *)
(* (get_storage_backend, cleanup_storage_backend).  Only a store opened    *)
(* for a layer beyond the end of a thread's array is never closed, and     *)
(* there is such a layer only if the servers differ in the number of       *)
(* their layers.                                                           *)
NoConnectionLost ==
    \A c \in open :
        LET known == backends[c[1]]
        IN  \/ c[2] \in 1..known.noBackends /\ known.stores[c[2]] # NULL
            \/ c[2] = Beyond /\ \E s, u \in Server : Len(scfg[s].configs) < Len(scfg[u].configs)

(* The store a request works with is the one configured for its layer      *)
(* ("Custom storage directory path for this layer's tile cache").          *)
StoreIsOfLayer ==
    \A t \in Thread :
        LET r == request[t]
        IN  r.at = "tile_serve" => r.store = scfg[r.server].configs[r.layer].store
=============================================================================
