------------------------ MODULE ModTileConfigProofs ------------------------
(***************************************************************************)
(* The configuration of mod_tile and what its threads make of it, for any  *)
(* number of virtual hosts, threads, configuration files and layers.       *)
(*                                                                         *)
(* The invariant has two parts.  ConfigInv says of the directives that     *)
(* layerCount is never below what a server has after it is merged, and     *)
(* that the maps of a file stand together and in their order in the layers *)
(* of a server.  RunInv says of the requests which layer tile_translate    *)
(* took and that the stores a thread knows are those of the layers of the  *)
(* servers it has served, as long as these agree.                          *)
(***************************************************************************)
EXTENDS ModTileConfig, SequenceTheorems, WellFoundedInduction, TLAPS

-----------------------------------------------------------------------------
(* The invariant of the configuration *)

Layer == [uri : URI, origin : ConfigFile \cup {<<>>}, store : Directory]
MapsOf(ini) == Sections(ini, "map")

(* Layer number i of L is map number p of its file; all the maps of the    *)
(* file are there, in their order, behind layer number o.                  *)
PlaceInFile(L, i, o, p) ==
    LET maps == MapsOf(L[i].origin)
    IN  /\ p \in 1..Len(maps) /\ i = o + p
        /\ \A q \in 1..Len(maps) : o + q \in 1..Len(L) /\ L[o + q].uri = maps[q].uri

(* A file with a map that shadows a later one was not accepted. *)
FromFiles(L) ==
    \A i \in 1..Len(L) : L[i].origin # <<>> =>
        /\ L[i].origin \in ConfigFile /\ ~Shadowed(MapsOf(L[i].origin))
        /\ \E o \in Nat, p \in Nat : PlaceInFile(L, i, o, p)

ConfigTypes ==
    /\ phase \in {"config", "run", "exit"}
    /\ scfg \in [Server -> [tile_dir : Directory, configs : Seq(Layer)]]
    /\ layerCount \in Nat /\ stats_layers \in Nat

(* While the directives are read, layerCount is at least what a virtual    *)
(* host will have when it is merged.                                       *)
CountedFor(s) == IF s = Main THEN Len(scfg[Main].configs)
                 ELSE Len(scfg[Main].configs) + Len(scfg[s].configs)

ConfigInv ==
    /\ ConfigTypes
    /\ phase = "config" => \A s \in Server : CountedFor(s) <= layerCount
    /\ LayersCounted
    /\ \A s \in Server : FromFiles(scfg[s].configs)

-----------------------------------------------------------------------------
(* Lists of layers *)

(* Two lists put together. *)
LEMMA FromFilesConcat ==
    ASSUME NEW L \in Seq(Layer), NEW M \in Seq(Layer), FromFiles(L), FromFiles(M)
    PROVE  FromFiles(L \o M)
<1> DEFINE N == L \o M
<1>1. /\ Len(L) \in Nat /\ Len(M) \in Nat /\ Len(N) = Len(L) + Len(M)
      /\ \A i \in 1..Len(L) : N[i] = L[i]
      /\ \A i \in 1..Len(M) : N[Len(L) + i] = M[i]
  OBVIOUS
<1> HIDE DEF N
<1>2. SUFFICES ASSUME NEW i \in 1..Len(N), N[i].origin # <<>>
               PROVE  /\ N[i].origin \in ConfigFile /\ ~Shadowed(MapsOf(N[i].origin))
                      /\ \E o \in Nat, p \in Nat : PlaceInFile(N, i, o, p)
  BY <1>2, Zenon DEF FromFiles, N
<1>3. CASE i \in 1..Len(L)
  <2>1. N[i] = L[i]
    BY <1>1, <1>3, Zenon
  <2>2. L[i].origin \in ConfigFile /\ ~Shadowed(MapsOf(L[i].origin))
    BY <1>2, <1>3, <2>1, Zenon DEF FromFiles
  <2>3. PICK o \in Nat, p \in Nat : PlaceInFile(L, i, o, p)
    BY <1>2, <1>3, <2>1, Zenon DEF FromFiles
  <2>4. \A j \in 1..Len(L) : j \in 1..Len(N) /\ N[j] = L[j]
    BY <1>1
  <2>5. PlaceInFile(N, i, o, p)
    BY <2>1, <2>3, <2>4, Zenon DEF PlaceInFile
  <2> QED BY <2>1, <2>2, <2>5, Zenon
<1>4. CASE i \notin 1..Len(L)
  <2>1. PICK j \in 1..Len(M) : i = Len(L) + j
    <3>1. i - Len(L) \in 1..Len(M) /\ i = Len(L) + (i - Len(L))
      BY <1>1, <1>4
    <3> QED BY <3>1, Zenon
  <2>2. N[i] = M[j]
    BY <1>1, <2>1, Zenon
  <2>3. M[j].origin \in ConfigFile /\ ~Shadowed(MapsOf(M[j].origin))
    BY <1>2, <2>2, Zenon DEF FromFiles
  <2>4. PICK o \in Nat, p \in Nat : PlaceInFile(M, j, o, p)
    BY <1>2, <2>2, Zenon DEF FromFiles
  <2> DEFINE maps == MapsOf(M[j].origin)
  <2>5. /\ p \in 1..Len(maps) /\ j = o + p
        /\ \A q \in 1..Len(maps) : o + q \in 1..Len(M) /\ M[o + q].uri = maps[q].uri
    BY <2>4, Zenon DEF PlaceInFile
  <2>6. maps \in Seq(MapSection)
    BY <2>3, ConfigAssumption, Zenon DEF MapsOf
  <2> HIDE DEF maps
  <2>7. i = (Len(L) + o) + p /\ Len(L) + o \in Nat
    BY <1>1, <2>1, <2>5
  <2>8. ASSUME NEW q \in 1..Len(maps)
        PROVE  (Len(L) + o) + q \in 1..Len(N) /\ N[(Len(L) + o) + q].uri = maps[q].uri
    <3>1. o + q \in 1..Len(M) /\ M[o + q].uri = maps[q].uri
      BY <2>5, Zenon
    <3>2. Len(maps) \in Nat
      BY <2>6
    <3>3. (Len(L) + o) + q = Len(L) + (o + q) /\ Len(L) + (o + q) \in 1..Len(N)
      BY <1>1, <3>1, <3>2
    <3> QED BY <1>1, <3>1, <3>3, Zenon
  <2>9. PlaceInFile(N, i, Len(L) + o, p)
    BY <2>2, <2>5, <2>7, <2>8, Zenon DEF PlaceInFile, maps
  <2> QED BY <2>2, <2>3, <2>7, <2>9, Zenon
<1> QED BY <1>3, <1>4, Zenon

(* The layers a directive appends, of which those of a file are its maps,  *)
(* in order.                                                               *)
NewLayers(s, layers, origin) ==
    [i \in DOMAIN layers |-> [uri |-> layers[i].uri, origin |-> origin,
                              store |-> IF layers[i].tile_dir = "" THEN scfg[s].tile_dir ELSE layers[i].tile_dir]]

(* What a directive appends: layers without a file, or all maps of one. *)
Fits(layers, origin) ==
    /\ origin \in ConfigFile \cup {<<>>}
    /\ Len(layers) \in Nat /\ DOMAIN layers = 1..Len(layers)
    /\ \A i \in DOMAIN layers : layers[i].uri \in URI /\ layers[i].tile_dir \in Directory
    /\ origin # <<>> =>
          /\ ~Shadowed(MapsOf(origin)) /\ Len(layers) = Len(MapsOf(origin))
          /\ \A i \in 1..Len(layers) : layers[i].uri = MapsOf(origin)[i].uri

(* They are a list of layers. *)
LEMMA NewLayersFit ==
    ASSUME ConfigInv, NEW s \in Server, NEW layers, NEW origin, Fits(layers, origin)
    PROVE  /\ NewLayers(s, layers, origin) \in Seq(Layer)
           /\ Len(NewLayers(s, layers, origin)) = Len(layers)
           /\ FromFiles(NewLayers(s, layers, origin))
<1> DEFINE N == NewLayers(s, layers, origin)
<1>1. /\ Len(layers) \in Nat /\ DOMAIN layers = 1..Len(layers) /\ origin \in ConfigFile \cup {<<>>}
      /\ scfg[s].tile_dir \in Directory
  BY Zenon DEF Fits, ConfigInv, ConfigTypes
<1>2. \A i \in 1..Len(layers) : N[i].uri = layers[i].uri /\ N[i].origin = origin /\ N[i] \in Layer
  BY <1>1, Zenon DEF Fits, NewLayers, Layer
<1>3. N \in [1..Len(layers) -> Layer]
  BY <1>1, <1>2, Zenon DEF NewLayers
<1> HIDE DEF N
<1>4. N \in Seq(Layer) /\ Len(N) = Len(layers)
  BY <1>1, <1>3, IsASeq, LenProperties
<1>5. FromFiles(N)
  <2> SUFFICES ASSUME NEW i \in 1..Len(N), N[i].origin # <<>>
               PROVE  /\ N[i].origin \in ConfigFile /\ ~Shadowed(MapsOf(N[i].origin))
                      /\ \E o \in Nat, p \in Nat : PlaceInFile(N, i, o, p)
    BY Zenon DEF FromFiles
  <2>1. N[i].origin = origin /\ origin # <<>>
    BY <1>2, <1>4, Zenon
  <2>2. 0 \in Nat /\ i \in Nat /\ i = 0 + i /\ \A q \in 1..Len(N) : 0 + q = q
    BY <1>4
  <2>3. \A q \in 1..Len(N) : N[q].uri = MapsOf(origin)[q].uri
    BY <1>2, <1>4, <2>1, Zenon DEF Fits
  <2>4. Len(MapsOf(origin)) = Len(N)
    BY <1>4, <2>1, Zenon DEF Fits
  <2>5. PlaceInFile(N, i, 0, i)
    BY <2>1, <2>2, <2>3, <2>4, Zenon DEF PlaceInFile
  <2> QED BY <1>1, <2>1, <2>2, <2>5, Zenon DEF Fits
<1> QED BY <1>4, <1>5, Zenon DEF N

(* A directive that appends layers. *)
LEMMA AddLayersInv ==
    ASSUME ConfigInv, phase = "config", NEW s \in Server, NEW layers, NEW origin, Fits(layers, origin),
           _add_tile_configs(s, layers, origin)
    PROVE  ConfigInv' /\ phase' = "config"
<1> DEFINE N == NewLayers(s, layers, origin)  L == scfg[s].configs
<1>1. N \in Seq(Layer) /\ Len(N) = Len(layers) /\ FromFiles(N)
  BY NewLayersFit, Zenon
<1>2. /\ scfg' = [scfg EXCEPT ![s].configs = @ \o N]
      /\ layerCount' = layerCount + Len(layers)
      /\ phase' = phase /\ stats_layers' = stats_layers
  BY Zenon DEF _add_tile_configs, NewLayers
<1> HIDE DEF N
<1>3. /\ scfg \in [Server -> [tile_dir : Directory, configs : Seq(Layer)]] /\ layerCount \in Nat /\ stats_layers \in Nat
      /\ L \in Seq(Layer) /\ FromFiles(L)
  BY Zenon DEF ConfigInv, ConfigTypes
<1>4. L \o N \in Seq(Layer) /\ Len(L \o N) = Len(L) + Len(N) /\ Len(L) \in Nat /\ Len(N) \in Nat
  BY <1>1, <1>3, ConcatProperties, LenProperties, Zenon
<1>5. FromFiles(L \o N)
  BY <1>1, <1>3, FromFilesConcat, Zenon
<1>6. /\ scfg' \in [Server -> [tile_dir : Directory, configs : Seq(Layer)]]
      /\ scfg'[s].configs = L \o N
      /\ \A u \in Server : u # s => scfg'[u] = scfg[u]
  BY <1>2, <1>3, <1>4, Zenon
<1>7. ConfigTypes'
  <2>1. layerCount' \in Nat
    BY <1>1, <1>2, <1>3, <1>4
  <2> QED BY <1>2, <1>6, <2>1, Zenon DEF ConfigInv, ConfigTypes
<1>8. \A u \in Server : Len(scfg'[u].configs) = IF u = s THEN Len(scfg[u].configs) + Len(layers)
                                               ELSE Len(scfg[u].configs)
  BY <1>1, <1>4, <1>6, Zenon
<1>9. \A u \in Server : Len(scfg[u].configs) \in Nat
  BY <1>3, LenProperties, Zenon
<1>10. ASSUME NEW u \in Server PROVE CountedFor(u)' <= layerCount'
  <2>1. CountedFor(u) <= layerCount
    BY Zenon DEF ConfigInv
  <2>2. Main \in Server
    BY Zenon DEF Server
  <2>3. /\ Len(scfg[u].configs) \in Nat /\ Len(scfg[Main].configs) \in Nat /\ Len(layers) \in Nat
        /\ layerCount' = layerCount + Len(layers)
    BY <1>1, <1>2, <1>4, <1>9, <2>2, Zenon
  <2>4. /\ Len(scfg'[u].configs) = IF u = s THEN Len(scfg[u].configs) + Len(layers) ELSE Len(scfg[u].configs)
        /\ Len(scfg'[Main].configs) = IF Main = s THEN Len(scfg[Main].configs) + Len(layers)
                                      ELSE Len(scfg[Main].configs)
    BY <1>8, <2>2, Zenon
  <2>5. CASE u = Main
    BY <1>3, <2>1, <2>3, <2>4, <2>5 DEF CountedFor
  <2>6. CASE u # Main
    <3> DEFINE m == Len(scfg[Main].configs)  n == Len(scfg[u].configs)  k == Len(layers)
               m1 == Len(scfg'[Main].configs)  n1 == Len(scfg'[u].configs)
    <3>1. m + n <= layerCount /\ CountedFor(u)' = m1 + n1
      BY <2>1, <2>6, Zenon DEF CountedFor
    <3>2. (m1 = m /\ n1 = n) \/ (m1 = m + k /\ n1 = n) \/ (m1 = m /\ n1 = n + k)
      BY <2>4, <2>6, Zenon
    <3>3. m \in Nat /\ n \in Nat /\ k \in Nat /\ layerCount \in Nat /\ layerCount' = layerCount + k
      BY <1>3, <2>3, Zenon
    <3> HIDE DEF m, n, k, m1, n1
    <3>4. m1 + n1 <= layerCount'
      BY <3>1, <3>2, <3>3
    <3> QED BY <3>1, <3>4, Zenon
  <2> QED BY <2>5, <2>6, Zenon
<1>11. \A u \in Server : FromFiles(scfg'[u].configs)
  BY <1>5, <1>6, Zenon DEF ConfigInv
<1>12. LayersCounted'
  BY <1>2, Zenon DEF LayersCounted
<1> QED BY <1>2, <1>7, <1>10, <1>11, <1>12, Zenon DEF ConfigInv

(* A single layer can be appended. *)
LEMMA OneLayerFits == ASSUME NEW l, l.uri \in URI, l.tile_dir \in Directory PROVE Fits(<<l>>, <<>>)
<1>1. Len(<<l>>) = 1 /\ 1 \in Nat /\ DOMAIN <<l>> = 1..1 /\ <<l>>[1] = l /\ \A i \in 1..1 : i = 1
  OBVIOUS
<1> QED BY <1>1, Zenon DEF Fits

(* A function on 1..n is a list of length n. *)
LEMMA LenOfList ==
    \A n \in Nat : \A S : \A f \in [1..n -> S] : f \in Seq(S) /\ DOMAIN f = 1..n /\ Len(f) = n
  BY IsASeq, LenProperties

(* So can the maps of a file that process_map_sections accepts. *)
LEMMA FileFits ==
    ASSUME NEW ini \in ConfigFile, ~process_map_sections(ini, "").exit
    PROVE  Fits(process_map_sections(ini, "").maps, ini)
<1> DEFINE maps == MapsOf(ini)
           Set(m) == [m EXCEPT !.tile_dir = IF m.tile_dir = "" THEN "" ELSE m.tile_dir]
           bad == \/ Len(maps) = 0 \/ Len(maps) > XMLCONFIGS_MAX
                  \/ \E i \in DOMAIN maps : BadZooms(maps[i]) \/ ~maps[i].valid
                  \/ Shadowed(maps)
           layers == [i \in DOMAIN maps |-> Set(maps[i])]
<1>1. process_map_sections(ini, "") = IF bad THEN Exit ELSE [exit |-> FALSE, maps |-> layers]
  BY Zenon DEF process_map_sections, MapsOf
<1>2. Exit.exit = TRUE
  BY Zenon DEF Exit
<1>3. ~bad
  BY <1>1, <1>2, Zenon
<1>4. process_map_sections(ini, "").maps = layers /\ ~Shadowed(maps)
  <2>1. process_map_sections(ini, "") = [exit |-> FALSE, maps |-> layers]
    BY <1>1, <1>3, Zenon
  <2>2. ~Shadowed(maps)
    BY <1>3, Zenon
  <2>3. \A x : [exit |-> FALSE, maps |-> x].maps = x
    BY Zenon
  <2> QED BY <2>1, <2>2, <2>3, Zenon
<1>5. maps \in Seq(MapSection)
  BY ConfigAssumption, Zenon DEF MapsOf
<1>6. Len(maps) \in Nat /\ DOMAIN maps = 1..Len(maps) /\ \A i \in 1..Len(maps) : maps[i] \in MapSection
  BY <1>5, LenProperties, ElementOfSeq, Zenon
<1>7. \A m \in MapSection : Set(m).uri = m.uri /\ m.uri \in URI /\ Set(m).tile_dir \in Directory
  <2>1. "" \in Directory
    BY ConfigAssumption, Zenon
  <2> QED BY <2>1, Zenon DEF MapSection
<1> HIDE DEF Set, bad, maps
<1>8. layers \in [1..Len(maps) -> {Set(maps[i]) : i \in 1..Len(maps)}]
  BY <1>6, Zenon
<1>9. \A i \in 1..Len(maps) : layers[i] = Set(maps[i])
  BY <1>6, Zenon
<1> HIDE DEF layers
<1>10. DOMAIN layers = 1..Len(maps) /\ Len(layers) = Len(maps)
  BY <1>6, <1>8, LenOfList, Zenon
<1> QED BY <1>4, <1>6, <1>7, <1>9, <1>10, Zenon DEF Fits, maps

(* Every directive keeps the invariant, and mod_tile does not run yet. *)
LEMMA DirectiveInv ==
    ASSUME ConfigInv, Directive
    PROVE  ConfigInv' /\ phase = "config" /\ phase' # "run" /\ UNCHANGED runVars
<1>1. ASSUME NEW s \in Server, NEW dir \in TileDir, ModTileTileDir(s, dir)
      PROVE  ConfigInv' /\ phase = "config" /\ phase' # "run" /\ UNCHANGED runVars
  <2>1. /\ phase = "config" /\ phase' = "config" /\ layerCount' = layerCount /\ stats_layers' = stats_layers
        /\ UNCHANGED runVars /\ scfg' = [scfg EXCEPT ![s].tile_dir = dir]
    BY <1>1, Zenon DEF ModTileTileDir
  <2>2. dir \in Directory /\ Main \in Server
    BY ConfigAssumption, Zenon DEF Server
  <2>3. /\ scfg' \in [Server -> [tile_dir : Directory, configs : Seq(Layer)]]
        /\ \A u \in Server : scfg'[u].configs = scfg[u].configs
    BY <2>1, <2>2, Zenon DEF ConfigInv, ConfigTypes
  <2>4. \A u \in Server : CountedFor(u)' = CountedFor(u)
    BY <2>2, <2>3, Zenon DEF CountedFor
  <2>5. ConfigTypes' /\ LayersCounted'
    BY <2>1, <2>3, Zenon DEF ConfigInv, ConfigTypes, LayersCounted
  <2> QED BY <2>1, <2>3, <2>4, <2>5, Zenon DEF ConfigInv
<1>2. ASSUME phase = "config", ConfigError
      PROVE  ConfigInv' /\ phase = "config" /\ phase' # "run" /\ UNCHANGED runVars
  BY <1>2, Zenon DEF ConfigError, ConfigInv, ConfigTypes, LayersCounted
<1>3. ASSUME NEW s \in Server, NEW layers, NEW origin, phase = "config", Fits(layers, origin),
             _add_tile_configs(s, layers, origin)
      PROVE  ConfigInv' /\ phase = "config" /\ phase' # "run" /\ UNCHANGED runVars
  <2>1. ConfigInv' /\ phase' = "config"
    BY <1>3, AddLayersInv, Zenon
  <2> QED BY <1>3, <2>1, Zenon DEF _add_tile_configs
<1>4. ASSUME NEW s \in Server, NEW l \in AddedLayer, AddTileConfig(s, l)
      PROVE  ConfigInv' /\ phase = "config" /\ phase' # "run" /\ UNCHANGED runVars
  <2>1. Fits(<<l>>, <<>>)
    BY ConfigAssumption, OneLayerFits, Zenon
  <2> QED BY <1>2, <1>3, <1>4, <2>1, Zenon DEF AddTileConfig
<1>5. ASSUME NEW s \in Server, NEW l \in AddedLayer, AddTileMimeConfig(s, l)
      PROVE  ConfigInv' /\ phase = "config" /\ phase' # "run" /\ UNCHANGED runVars
  <2> DEFINE k == [l EXCEPT !.tile_dir = "", !.min_zoom = 0, !.max_zoom = MAX_ZOOM]
  <2>1. phase = "config" /\ _add_tile_configs(s, <<k>>, <<>>)
    BY <1>5, Zenon DEF AddTileMimeConfig
  <2>2. k.uri \in URI /\ k.tile_dir = ""
    BY ConfigAssumption, Zenon
  <2>3. "" \in Directory
    BY ConfigAssumption, Zenon
  <2> HIDE DEF k
  <2>4. Fits(<<k>>, <<>>)
    BY <2>2, <2>3, OneLayerFits, Zenon
  <2> QED BY <1>3, <2>1, <2>4, Zenon
<1>6. ASSUME NEW s \in Server, NEW ini \in ConfigFile, LoadTileConfigFile(s, ini)
      PROVE  ConfigInv' /\ phase = "config" /\ phase' # "run" /\ UNCHANGED runVars
  <2>1. /\ phase = "config"
        /\ IF process_map_sections(ini, "").exit THEN ConfigError
           ELSE _add_tile_configs(s, process_map_sections(ini, "").maps, ini)
    BY <1>6, Zenon DEF LoadTileConfigFile
  <2>2. CASE process_map_sections(ini, "").exit
    BY <1>2, <2>1, <2>2, Zenon
  <2>3. CASE ~process_map_sections(ini, "").exit
    <3>1. Fits(process_map_sections(ini, "").maps, ini)
      BY <2>3, FileFits, Zenon
    <3> QED BY <1>3, <2>1, <2>3, <3>1, Zenon
  <2> QED BY <2>2, <2>3, Zenon
<1> QED BY <1>1, <1>4, <1>5, <1>6, Zenon DEF Directive

(* mod_tile_post_config and the merging of the virtual hosts. *)
LEMMA PostConfigInv == ASSUME ConfigInv, PostConfig PROVE ConfigInv'
<1> DEFINE M == scfg[Main].configs
<1>1. /\ phase = "config" /\ phase' = "run" /\ layerCount' = layerCount /\ stats_layers' = layerCount
      /\ scfg' = [s \in Server |-> IF s = Main THEN scfg[s] ELSE merge_tile_config(scfg[Main], scfg[s])]
  BY Zenon DEF PostConfig, Counters
<1>2. Main \in Server /\ scfg \in [Server -> [tile_dir : Directory, configs : Seq(Layer)]] /\ layerCount \in Nat
  BY Zenon DEF Server, ConfigInv, ConfigTypes
<1>3. ASSUME NEW s \in Server
      PROVE  /\ scfg'[s] \in [tile_dir : Directory, configs : Seq(Layer)]
             /\ FromFiles(scfg'[s].configs) /\ Len(scfg'[s].configs) <= layerCount
  <2>1. CountedFor(s) <= layerCount /\ FromFiles(M) /\ FromFiles(scfg[s].configs)
    BY <1>1, <1>2, Zenon DEF ConfigInv
  <2>2. CASE s = Main
    <3>1. scfg'[s] = scfg[s]
      BY <1>1, <2>2, Zenon
    <3>2. CountedFor(s) = Len(scfg[s].configs)
      BY <2>2, Zenon DEF CountedFor
    <3> QED BY <1>2, <2>1, <3>1, <3>2, Zenon
  <2>3. CASE s # Main
    <3>1. scfg'[s] = [scfg[s] EXCEPT !.configs = M \o scfg[s].configs]
      BY <1>1, <2>3, Zenon DEF merge_tile_config
    <3>2. M \in Seq(Layer) /\ scfg[s].configs \in Seq(Layer)
      BY <1>2, Zenon
    <3>3. M \o scfg[s].configs \in Seq(Layer) /\ Len(M \o scfg[s].configs) = Len(M) + Len(scfg[s].configs)
      BY <3>2, ConcatProperties, Zenon
    <3>4. FromFiles(M \o scfg[s].configs)
      BY <2>1, <3>2, FromFilesConcat, Zenon
    <3>5. CountedFor(s) = Len(M) + Len(scfg[s].configs)
      BY <2>3, Zenon DEF CountedFor
    <3>6. scfg'[s].configs = M \o scfg[s].configs /\ scfg'[s] \in [tile_dir : Directory, configs : Seq(Layer)]
      BY <1>2, <3>1, <3>3, Zenon
    <3> QED BY <2>1, <3>3, <3>4, <3>5, <3>6, Zenon
  <2> QED BY <2>2, <2>3, Zenon
<1>4. ConfigTypes'
  BY <1>1, <1>2, <1>3, Zenon DEF ConfigTypes
<1>5. LayersCounted'
  BY <1>1, <1>3, Zenon DEF LayersCounted
<1> QED BY <1>1, <1>3, <1>4, <1>5, Zenon DEF ConfigInv

-----------------------------------------------------------------------------
(* The stores of a thread *)

Known == [noBackends : Nat, stores : Seq(Directory \cup {NULL}), served : SUBSET Server]

(* The servers of S all have the layers L. *)
Same(cfg, S, L) == \A s \in S : cfg[s].configs = L

(* The stores a thread knows are those of the layers L. *)
StoresOf(L, known) ==
    known.noBackends = Len(L) /\ \A i \in 1..Len(L) : known.stores[i] \in {NULL, L[i].store}

(* What a thread knows of its stores, as long as it has served only        *)
(* servers with the same layers.                                           *)
KnownInv(cfg, known) ==
    /\ known \in Known /\ Len(known.stores) = known.noBackends
    /\ known.noBackends = 0 <=> known.served = {}
    /\ known.noBackends # 0 => \E u \in Server : known.noBackends = Len(cfg[u].configs)
    /\ \A s \in known.served : Same(cfg, known.served, cfg[s].configs) => StoresOf(cfg[s].configs, known)

(* The layer tile_translate has found for a request. *)
Taken(cfg, s, path, layer) ==
    LET layers == cfg[s].configs
        matching == {i \in DOMAIN layers : IsPrefix(layers[i].uri, path)}
        i == Min(matching)
        rest == IF matching = {} THEN <<>> ELSE SubSeq(path, Len(layers[i].uri) + 1, Len(path))
    IN  layer = IF rest \in {<<"tile">>, <<"tile-layer.json">>} THEN i ELSE 0

(* The store is that of the layer, as long as the servers agree. *)
RequestInv(cfg, r, known) ==
    LET layers == cfg[r.server].configs
    IN  /\ r.at # "idle" => r.server \in Server /\ r.path \in Path /\ Taken(cfg, r.server, r.path, r.layer)
        /\ r.at = "tile_serve" => r.server \in known.served /\
              (Same(cfg, known.served, layers) => r.store = layers[r.layer].store)

(* A place where a connection may be: that of a store the thread knows, or *)
(* beyond its array if the servers differ in the number of their layers.   *)
Held(cfg, known, place) ==
    \/ place \in 1..known.noBackends /\ known.stores[place] # NULL
    \/ place = Beyond /\ \E s, u \in Server : Len(cfg[s].configs) < Len(cfg[u].configs)

(* Every connection is at such a place. *)
OpenInv == \A c \in open : c[1] \in Thread /\ Held(scfg, backends[c[1]], c[2])

(* No request is served before the configuration is read. *)
RunInv ==
    /\ phase # "run" => /\ backends = [t \in Thread |-> NoStores] /\ open = {}
                        /\ request = [t \in Thread |-> NoRequest]
    /\ DOMAIN backends = Thread /\ DOMAIN request = Thread
    /\ \A t \in Thread : KnownInv(scfg, backends[t]) /\ RequestInv(scfg, request[t], backends[t])
    /\ OpenInv

(* The array of stores, made or found: it is that of the layers of the     *)
(* server as long as all servers of the thread have them.                  *)
LEMMA BackendsKnown ==
    ASSUME ConfigInv, NEW known, KnownInv(scfg, known), NEW s \in Server, Len(scfg[s].configs) # 0
    PROVE  LET k == Backends(known, s) IN
           /\ k \in Known /\ Len(k.stores) = k.noBackends /\ k.noBackends # 0 /\ s \in k.served
           /\ \E u \in Server : k.noBackends = Len(scfg[u].configs)
           /\ Same(scfg, k.served, scfg[s].configs) => StoresOf(scfg[s].configs, k)
           /\ known.noBackends # 0 => k.noBackends = known.noBackends /\ k.stores = known.stores
<1> DEFINE L == scfg[s].configs  k == Backends(known, s)
<1>1. L \in Seq(Layer) /\ Len(L) \in Nat
  <2>1. L \in Seq(Layer)
    BY Zenon DEF ConfigInv, ConfigTypes
  <2> QED BY <2>1, LenProperties, Zenon
<1>2. known \in Known /\ Len(known.stores) = known.noBackends
  BY Zenon DEF KnownInv
<1>3. CASE known.noBackends # 0
  <2>1. k = [known EXCEPT !.served = known.served \cup {s}]
    BY <1>3, Zenon DEF Backends
  <2>2. /\ k \in Known /\ k.noBackends = known.noBackends /\ k.stores = known.stores
        /\ k.served = known.served \cup {s}
    BY <1>2, <2>1, Zenon DEF Known
  <2>3. PICK u \in known.served : TRUE
    BY <1>3, Zenon DEF KnownInv
  <2>4. ASSUME Same(scfg, k.served, L) PROVE StoresOf(L, k)
    <3>1. scfg[u].configs = L /\ Same(scfg, known.served, L)
      BY <2>2, <2>3, <2>4, Zenon DEF Same
    <3>2. StoresOf(L, known)
      BY <2>3, <3>1, Zenon DEF KnownInv
    <3> QED BY <2>2, <3>2, Zenon DEF StoresOf
  <2>5. \E v \in Server : k.noBackends = Len(scfg[v].configs)
    BY <1>3, <2>2, Zenon DEF KnownInv
  <2> QED BY <1>2, <1>3, <2>2, <2>4, <2>5, Zenon
<1>4. CASE known.noBackends = 0
  <2> DEFINE nothing == [i \in 1..Len(L) |-> NULL]
  <2>1. k = [noBackends |-> Len(L), served |-> {s}, stores |-> nothing]
    BY <1>4, Zenon DEF Backends
  <2>2. nothing \in [1..Len(L) -> Directory \cup {NULL}] /\ \A i \in 1..Len(L) : nothing[i] = NULL
    BY Zenon
  <2> HIDE DEF nothing
  <2>3. nothing \in Seq(Directory \cup {NULL}) /\ Len(nothing) = Len(L)
    BY <1>1, <2>2, LenOfList, Zenon
  <2>4. k.noBackends = Len(L) /\ k.served = {s} /\ k.stores = nothing /\ k \in Known
    <3>1. {s} \in SUBSET Server
      BY Zenon
    <3>2. \A a \in Nat, b \in SUBSET Server, c \in Seq(Directory \cup {NULL}) :
             LET r == [noBackends |-> a, served |-> b, stores |-> c]
             IN  r.noBackends = a /\ r.served = b /\ r.stores = c /\ r \in Known
      BY Zenon DEF Known
    <3> HIDE DEF L, k
    <3> QED BY <1>1, <2>1, <2>3, <3>1, <3>2, Zenon
  <2>5. StoresOf(L, k)
    BY <2>2, <2>4, Zenon DEF StoresOf
  <2> QED BY <1>4, <2>3, <2>4, <2>5, Zenon
<1> QED BY <1>3, <1>4, Zenon

(* A store that cannot be opened, or only half, leaves no connection, and  *)
(* those of one that can are the thread's, at its place.                   *)
LEMMA NewConnections ==
    ASSUME NEW t, NEW place, NEW connection, NEW new \in init_storage_backend(t, place, connection)
    PROVE  /\ ~new.opened => new.connections = {}
           /\ \A c \in new.connections : c[1] = t /\ c[2] = place
<1> DEFINE pair == {<<t, place, 1>>, <<t, place, 2>>}
<1>1. \/ \E first, second \in BOOLEAN :
            new = [opened |-> first /\ second, connections |-> IF first /\ second THEN pair ELSE {}]
      \/ new = [opened |-> FALSE, connections |-> {}]
      \/ new = [opened |-> TRUE, connections |-> {<<t, place, 1>>}]
  <2>1. CASE connection \in Composite
    <3>1. new \in init_storage_ro_composite(t, place)
      BY <2>1, Zenon DEF init_storage_backend
    <3> QED BY <3>1 DEF init_storage_ro_composite
  <2>2. CASE connection \notin Composite
    BY <2>2, Zenon DEF init_storage_backend
  <2> QED BY <2>1, <2>2, Zenon
<1>2. \A o, P : LET r == [opened |-> o, connections |-> P] IN r.opened = o /\ r.connections = P
  BY Zenon
<1>3. \/ ~new.opened /\ new.connections = {}
      \/ new.opened /\ new.connections \subseteq pair
  <2>1. CASE \E first, second \in BOOLEAN :
               new = [opened |-> first /\ second, connections |-> IF first /\ second THEN pair ELSE {}]
    <3>1. PICK first \in BOOLEAN, second \in BOOLEAN :
               new = [opened |-> first /\ second, connections |-> IF first /\ second THEN pair ELSE {}]
      BY <2>1, Zenon
    <3> HIDE DEF pair
    <3>2. new.opened = (first /\ second) /\ new.connections = IF first /\ second THEN pair ELSE {}
      BY <3>1, Zenon
    <3> QED BY <3>2, Zenon
  <2>2. CASE new = [opened |-> FALSE, connections |-> {}]
    BY <1>2, <2>2, Zenon
  <2>3. CASE new = [opened |-> TRUE, connections |-> {<<t, place, 1>>}]
    BY <1>2, <2>3, Zenon
  <2> QED BY <1>1, <2>1, <2>2, <2>3, Zenon
<1>4. \A c \in pair : c[1] = t /\ c[2] = place
  OBVIOUS
<1> QED BY <1>3, <1>4, Zenon

(* What get_storage_backend gives for layer number i of a server.          *)
LEMMA GotBackend ==
    ASSUME ConfigInv, NEW t \in Thread, KnownInv(scfg, backends[t]), NEW s \in Server,
           NEW i \in 1..Len(scfg[s].configs), NEW got \in get_storage_backend(t, s, i)
    PROVE  LET L == scfg[s].configs  k == got.backends IN
           /\ KnownInv(scfg, k) /\ s \in k.served
           /\ \A place : Held(scfg, backends[t], place) => Held(scfg, k, place)
           /\ \A c \in got.connections : c[1] = t /\ Held(scfg, k, c[2])
           /\ got.store # NULL /\ Same(scfg, k.served, L) => got.store = L[i].store
<1> DEFINE L == scfg[s].configs  known == Backends(backends[t], s)  k == got.backends
<1>1. L \in Seq(Layer) /\ Len(L) \in Nat /\ Len(L) # 0 /\ i \in Nat \ {0} /\ L[i].store \in Directory
  <2>1. L \in Seq(Layer)
    BY Zenon DEF ConfigInv, ConfigTypes
  <2>2. Len(L) \in Nat /\ L[i] \in Layer
    BY <2>1, LenProperties, ElementOfSeq, Zenon
  <2>3. Len(L) # 0 /\ i \in Nat \ {0}
    BY <2>2
  <2> QED BY <2>1, <2>2, <2>3, Zenon DEF Layer
<1>2. /\ known \in Known /\ Len(known.stores) = known.noBackends /\ known.noBackends # 0 /\ s \in known.served
      /\ \E u \in Server : known.noBackends = Len(scfg[u].configs)
      /\ Same(scfg, known.served, L) => StoresOf(L, known)
      /\ backends[t].noBackends # 0 => known.noBackends = backends[t].noBackends /\ known.stores = backends[t].stores
  BY <1>1, BackendsKnown, Zenon
<1>3. known.noBackends \in Nat /\ known.stores \in Seq(Directory \cup {NULL})
  BY <1>2, Zenon DEF Known
<1>4. NULL \notin Directory
  BY ConfigAssumption, Zenon
<1> DEFINE Found(store) == [store |-> store, backends |-> known, connections |-> {}]
           Strayed(new) == [store |-> IF new.opened THEN L[i].store ELSE NULL,
                            backends |-> known, connections |-> new.connections]
           Opened(new) == [store |-> IF new.opened THEN L[i].store ELSE NULL,
                           backends |-> [known EXCEPT !.stores[i] = IF new.opened THEN L[i].store ELSE NULL],
                           connections |-> new.connections]
<1>5. \/ i > known.noBackends /\ got = Found("UNDEFINED")
      \/ i > known.noBackends /\ \E new \in init_storage_backend(t, Beyond, L[i].store) : got = Strayed(new)
      \/ ~(i > known.noBackends) /\ known.stores[i] # NULL /\ got = Found(known.stores[i])
      \/ /\ ~(i > known.noBackends) /\ known.stores[i] = NULL
         /\ \E new \in init_storage_backend(t, i, L[i].store) : got = Opened(new)
  BY Zenon DEF get_storage_backend, Connection
<1> HIDE DEF known, L
(* The stores that were known still are, and the new one is that of the layer. *)
<1>6. SUFFICES /\ k \in Known /\ Len(k.stores) = k.noBackends /\ k.served = known.served
               /\ k.noBackends = known.noBackends
               /\ \A j \in 1..k.noBackends : known.stores[j] # NULL => k.stores[j] = known.stores[j]
               /\ \A j \in 1..k.noBackends : k.stores[j] = known.stores[j] \/ (j = i /\ k.stores[j] = L[i].store)
                                             \/ k.stores[j] = NULL
               /\ \A c \in got.connections : c[1] = t /\ Held(scfg, k, c[2])
               /\ got.store # NULL /\ Same(scfg, k.served, L) => got.store = L[i].store
  <2>1. Same(scfg, k.served, L) => StoresOf(L, k)
    BY <1>2, <1>6, Zenon DEF StoresOf
  <2>2. \A u \in k.served : Same(scfg, k.served, scfg[u].configs) => scfg[u].configs = L
    BY <1>2, <1>6, Zenon DEF Same, L
  <2>3. KnownInv(scfg, k)
    BY <1>2, <1>6, <2>1, <2>2, Zenon DEF KnownInv
  <2>4. ASSUME NEW place, Held(scfg, backends[t], place) PROVE Held(scfg, k, place)
    <3>1. ASSUME place \in 1..backends[t].noBackends, backends[t].stores[place] # NULL PROVE Held(scfg, k, place)
      <4>1. backends[t].noBackends # 0
        <5>1. \A n \in 1..0 : FALSE
          OBVIOUS
        <5> QED BY <3>1, <5>1, Zenon
      <4> QED BY <1>2, <1>6, <3>1, <4>1, Zenon DEF Held
    <3> QED BY <2>4, <3>1, Zenon DEF Held
  <2> QED BY <1>2, <1>6, <2>3, <2>4, Zenon DEF L
<1>7. ASSUME NEW store, got = Found(store),
             store # NULL /\ Same(scfg, known.served, L) => store = L[i].store
      PROVE  /\ k \in Known /\ Len(k.stores) = k.noBackends /\ k.served = known.served
             /\ k.noBackends = known.noBackends
             /\ \A j \in 1..k.noBackends : known.stores[j] # NULL => k.stores[j] = known.stores[j]
             /\ \A j \in 1..k.noBackends : k.stores[j] = known.stores[j] \/ (j = i /\ k.stores[j] = L[i].store)
                                           \/ k.stores[j] = NULL
             /\ \A c \in got.connections : c[1] = t /\ Held(scfg, k, c[2])
             /\ got.store # NULL /\ Same(scfg, k.served, L) => got.store = L[i].store
  <2>1. k = known /\ got.connections = {} /\ got.store = store
    BY <1>7, Zenon
  <2> QED BY <1>2, <1>7, <2>1, Zenon
(* A place beyond the array: the servers of the thread differ. *)
<1>b. ASSUME i > known.noBackends
      PROVE  ~Same(scfg, known.served, L) /\ Held(scfg, known, Beyond)
  <2>1. known.noBackends # Len(L) /\ known.noBackends < Len(L)
    BY <1>1, <1>3, <1>b DEF L
  <2>2. ~Same(scfg, known.served, L)
    BY <1>2, <2>1, Zenon DEF StoresOf
  <2>3. \E v, u \in Server : Len(scfg[v].configs) < Len(scfg[u].configs)
    BY <1>2, <2>1, Zenon DEF L
  <2> QED BY <2>2, <2>3, Zenon DEF Held
<1>8. CASE i > known.noBackends /\ got = Found("UNDEFINED")
  BY <1>7, <1>8, <1>b, Zenon
<1>9. CASE ~(i > known.noBackends) /\ known.stores[i] # NULL /\ got = Found(known.stores[i])
  <2>1. Same(scfg, known.served, L) => known.stores[i] = L[i].store
    BY <1>2, <1>9, Zenon DEF StoresOf, L
  <2> QED BY <1>7, <1>9, <2>1, Zenon
<1>10. ASSUME ~(i > known.noBackends), known.stores[i] = NULL,
              NEW new \in init_storage_backend(t, i, L[i].store), got = Opened(new)
       PROVE  /\ k \in Known /\ Len(k.stores) = k.noBackends /\ k.served = known.served
              /\ k.noBackends = known.noBackends
              /\ \A j \in 1..k.noBackends : known.stores[j] # NULL => k.stores[j] = known.stores[j]
              /\ \A j \in 1..k.noBackends : k.stores[j] = known.stores[j] \/ (j = i /\ k.stores[j] = L[i].store)
                                            \/ k.stores[j] = NULL
              /\ \A c \in got.connections : c[1] = t /\ Held(scfg, k, c[2])
              /\ got.store # NULL /\ Same(scfg, k.served, L) => got.store = L[i].store
  <2> DEFINE store == IF new.opened THEN L[i].store ELSE NULL
  <2>1. k = [known EXCEPT !.stores[i] = store] /\ got.store = store /\ got.connections = new.connections
    BY <1>10, Zenon
  <2>2. /\ ~new.opened => new.connections = {}
        /\ \A c \in new.connections : c[1] = t /\ c[2] = i
    BY <1>10, NewConnections, Zenon
  <2>3. i \in 1..known.noBackends
    BY <1>1, <1>3, <1>10
  <2>4. store \in Directory \cup {NULL} /\ (new.opened => store # NULL) /\ (store # NULL => store = L[i].store)
    BY <1>1, <1>4, Zenon DEF L
  <2> HIDE DEF store
  <2>5. [known.stores EXCEPT ![i] = store] \in Seq(Directory \cup {NULL})
        /\ Len([known.stores EXCEPT ![i] = store]) = known.noBackends
        /\ \A j \in 1..known.noBackends :
              [known.stores EXCEPT ![i] = store][j] = IF j = i THEN store ELSE known.stores[j]
    BY <1>2, <1>3, <2>3, <2>4, ExceptSeq
  <2>6. k = [known EXCEPT !.stores = [known.stores EXCEPT ![i] = store]]
    BY <2>1, Zenon
  <2>7. /\ k \in Known /\ k.noBackends = known.noBackends /\ k.served = known.served
        /\ k.stores = [known.stores EXCEPT ![i] = store]
    BY <1>2, <2>5, <2>6, Zenon DEF Known
  <2>8. Len(k.stores) = k.noBackends /\ \A j \in 1..k.noBackends : k.stores[j] = IF j = i THEN store ELSE known.stores[j]
    BY <2>5, <2>7, Zenon
  <2>9. \A c \in got.connections : c[1] = t /\ Held(scfg, k, c[2])
    <3> SUFFICES ASSUME NEW c \in got.connections PROVE c[1] = t /\ Held(scfg, k, c[2])
      BY Zenon
    <3>1. c[1] = t /\ c[2] = i /\ new.opened
      BY <2>1, <2>2, Zenon
    <3>2. i \in 1..k.noBackends /\ k.stores[i] = store /\ store # NULL
      BY <2>3, <2>4, <2>7, <2>8, <3>1, ZenonT(60)
    <3> QED BY <3>1, <3>2, Zenon DEF Held
  <2>10. \A j \in 1..k.noBackends : known.stores[j] # NULL => k.stores[j] = known.stores[j]
    BY <1>10, <2>8, Zenon
  <2>11. \A j \in 1..k.noBackends : k.stores[j] = known.stores[j] \/ (j = i /\ k.stores[j] = L[i].store)
                                    \/ k.stores[j] = NULL
    BY <2>4, <2>8, Zenon
  <2>12. got.store # NULL /\ Same(scfg, k.served, L) => got.store = L[i].store
    BY <2>1, <2>4, Zenon
  <2> HIDE DEF k
  <2> QED BY <2>7, <2>8, <2>9, <2>10, <2>11, <2>12, ZenonT(60)
<1>11. ASSUME i > known.noBackends, NEW new \in init_storage_backend(t, Beyond, L[i].store), got = Strayed(new)
       PROVE  /\ k \in Known /\ Len(k.stores) = k.noBackends /\ k.served = known.served
              /\ k.noBackends = known.noBackends
              /\ \A j \in 1..k.noBackends : known.stores[j] # NULL => k.stores[j] = known.stores[j]
              /\ \A j \in 1..k.noBackends : k.stores[j] = known.stores[j] \/ (j = i /\ k.stores[j] = L[i].store)
                                            \/ k.stores[j] = NULL
              /\ \A c \in got.connections : c[1] = t /\ Held(scfg, k, c[2])
              /\ got.store # NULL /\ Same(scfg, k.served, L) => got.store = L[i].store
  <2>1. k = known /\ got.connections = new.connections
    BY <1>11, Zenon
  <2>2. \A c \in new.connections : c[1] = t /\ c[2] = Beyond
    BY <1>11, NewConnections, Zenon
  <2> HIDE DEF k
  <2> QED BY <1>2, <1>11, <1>b, <2>1, <2>2, Zenon
<1> QED BY <1>5, <1>8, <1>9, <1>10, <1>11, Zenon

(* A set of natural numbers has a least element. *)
LEMMA LeastNumber ==
    ASSUME NEW I \in SUBSET Nat, I # {}
    PROVE  Min(I) \in I /\ \A j \in I : Min(I) <= j
<1>1. PICK x \in I : \A y \in I : ~(<<y, x>> \in OpToRel(<, Nat))
  BY WFMin, NatLessThanWellFounded, Zenon
<1>2. \A y \in I : <<y, x>> \in Nat \X Nat /\ <<y, x>>[1] = y /\ <<y, x>>[2] = x
  BY Zenon
<1>3. \A y \in I : ~(y < x)
  BY <1>1, <1>2, Zenon DEF OpToRel
<1>4. \A y \in I : x <= y
  BY <1>3
<1> QED BY <1>4, Zenon DEF Min

(* What a request sees of its thread and of the configuration is the same  *)
(* until it is answered.                                                   *)
LEMMA NewRequestInv ==
    ASSUME RunInv, phase = "run", NEW t \in Thread, NEW r, NEW k,
           phase' = phase, scfg' = scfg,
           DOMAIN request' = Thread, request'[t] = r, DOMAIN backends' = Thread, backends'[t] = k,
           \A u \in Thread : u # t => backends'[u] = backends[u] /\ request'[u] = request[u],
           KnownInv(scfg, k), RequestInv(scfg, r, k), OpenInv'
    PROVE  RunInv'
<1>3. ASSUME NEW u \in Thread PROVE KnownInv(scfg', backends'[u]) /\ RequestInv(scfg', request'[u], backends'[u])
  <2>1. CASE u = t
    BY <2>1, Zenon
  <2>2. CASE u # t
    <3>1. KnownInv(scfg, backends[u]) /\ RequestInv(scfg, request[u], backends[u])
      BY Zenon DEF RunInv
    <3> QED BY <2>2, <3>1, Zenon
  <2> QED BY <2>1, <2>2, Zenon
<1> QED BY <1>3, Zenon DEF RunInv

(* A request for a path, whatever layer it finds. *)
LEMMA TranslateInv ==
    ASSUME ConfigInv, RunInv, NEW t \in Thread, NEW s \in Server, NEW path \in Path, tile_translate(t, s, path)
    PROVE  RunInv'
<1> DEFINE L == scfg[s].configs
           matching == {j \in DOMAIN L : IsPrefix(L[j].uri, path)}
           i == Min(matching)
           rest == IF matching = {} THEN <<>> ELSE SubSeq(path, Len(L[i].uri) + 1, Len(path))
           R(at, layer, store) == [at |-> at, server |-> s, path |-> path, layer |-> layer, store |-> store]
<1>1. /\ phase = "run" /\ phase' = phase /\ scfg' = scfg
      /\ KnownInv(scfg, backends[t]) /\ DOMAIN backends = Thread /\ DOMAIN request = Thread /\ OpenInv
  BY Zenon DEF tile_translate, RunInv, configVars
<1>2. \A at, layer, store :
         /\ R(at, layer, store).at = at /\ R(at, layer, store).server = s /\ R(at, layer, store).path = path
         /\ R(at, layer, store).layer = layer /\ R(at, layer, store).store = store
  BY Zenon
<1>3. \/ /\ rest \notin {<<"tile">>, <<"tile-layer.json">>}
         /\ request' = [request EXCEPT ![t] = R("DECLINED", 0, NULL)] /\ backends' = backends /\ open' = open
      \/ /\ rest = <<"tile-layer.json">>
         /\ request' = [request EXCEPT ![t] = R("tile_json", i, NULL)] /\ backends' = backends /\ open' = open
      \/ /\ rest = <<"tile">>
         /\ \E got \in get_storage_backend(t, s, i) :
               /\ request' = [request EXCEPT ![t] = R(IF got.store = NULL THEN "500" ELSE "tile_serve", i, got.store)]
               /\ backends' = [backends EXCEPT ![t] = got.backends] /\ open' = open \cup got.connections
  BY Zenon DEF tile_translate
<1> HIDE DEF R
<1>4. ASSUME NEW layer, layer = IF rest \in {<<"tile">>, <<"tile-layer.json">>} THEN i ELSE 0
      PROVE  Taken(scfg, s, path, layer)
  BY <1>4, Zenon DEF Taken
<1> HIDE DEF rest, i, matching, L
<1>5. ASSUME NEW at \in {"DECLINED", "tile_json"}, NEW layer,
             layer = IF rest \in {<<"tile">>, <<"tile-layer.json">>} THEN i ELSE 0,
             request' = [request EXCEPT ![t] = R(at, layer, NULL)], backends' = backends, open' = open
      PROVE  RunInv'
  <2>1. Taken(scfg, s, path, layer)
    BY <1>4, <1>5, Zenon
  <2>2. RequestInv(scfg, R(at, layer, NULL), backends[t])
    <3>1. PICK r : r = R(at, layer, NULL)
      BY Zenon
    <3>2. r.at = at /\ r.server = s /\ r.path = path /\ r.layer = layer
      BY <1>2, <3>1
    <3>3. at # "tile_serve"
      BY <1>5, Zenon
    <3>4. RequestInv(scfg, r, backends[t])
      BY <2>1, <3>2, <3>3, Zenon DEF RequestInv
    <3> QED BY <3>1, <3>4, Zenon
  <2>3. OpenInv'
    BY <1>1, <1>5, Zenon DEF OpenInv
  <2>4. /\ DOMAIN backends' = Thread /\ \A u \in Thread : backends'[u] = backends[u]
        /\ DOMAIN request' = Thread /\ request'[t] = R(at, layer, NULL)
        /\ \A u \in Thread : u # t => request'[u] = request[u]
    BY <1>1, <1>5, Zenon
  <2> QED BY <1>1, <1>5, <2>2, <2>3, <2>4, NewRequestInv, ZenonT(60)
<1>6. ASSUME rest = <<"tile">>, NEW got \in get_storage_backend(t, s, i),
             request' = [request EXCEPT ![t] = R(IF got.store = NULL THEN "500" ELSE "tile_serve", i, got.store)],
             backends' = [backends EXCEPT ![t] = got.backends], open' = open \cup got.connections
      PROVE  RunInv'
  <2> DEFINE k == got.backends  at == IF got.store = NULL THEN "500" ELSE "tile_serve"
  <2>1. i \in 1..Len(L)
    <3>1. L \in Seq(Layer)
      BY Zenon DEF ConfigInv, ConfigTypes, L
    <3>2. DOMAIN L = 1..Len(L) /\ Len(L) \in Nat
      BY <3>1, LenProperties, Zenon
    <3>3. matching \in SUBSET Nat
      BY <3>2 DEF matching
    <3>4. <<>> # <<"tile">>
      BY Zenon
    <3>5. matching # {}
      BY <1>6, <3>4, Zenon DEF rest
    <3>6. i \in matching
      BY <3>3, <3>5, LeastNumber, Zenon DEF i
    <3> QED BY <3>2, <3>6, Zenon DEF matching
  <2>2. /\ KnownInv(scfg, k) /\ s \in k.served
        /\ \A place : Held(scfg, backends[t], place) => Held(scfg, k, place)
        /\ \A c \in got.connections : c[1] = t /\ Held(scfg, k, c[2])
        /\ got.store # NULL /\ Same(scfg, k.served, L) => got.store = L[i].store
    <3>1. i \in 1..Len(scfg[s].configs)
      BY <2>1, Zenon DEF L
    <3>2. LET M == scfg[s].configs  kn == got.backends IN
          /\ KnownInv(scfg, kn) /\ s \in kn.served
          /\ \A place : Held(scfg, backends[t], place) => Held(scfg, kn, place)
          /\ \A c \in got.connections : c[1] = t /\ Held(scfg, kn, c[2])
          /\ got.store # NULL /\ Same(scfg, kn.served, M) => got.store = M[i].store
      BY <1>1, <1>6, <3>1, GotBackend
    <3> QED BY <3>2, Zenon DEF L
  <2>3. RequestInv(scfg, R(at, i, got.store), k)
    <3>1. Taken(scfg, s, path, i)
      BY <1>4, <1>6, Zenon
    <3>0. PICK r : r = R(at, i, got.store)
      BY Zenon
    <3>2. r.at = at /\ r.server = s /\ r.path = path /\ r.layer = i /\ r.store = got.store
      BY <1>2, <3>0
    <3>3. at = "tile_serve" => got.store # NULL
      BY Zenon
    <3> HIDE DEF at, k
    <3>4. s \in k.served /\ (got.store # NULL /\ Same(scfg, k.served, scfg[s].configs) => got.store = scfg[s].configs[i].store)
      BY <2>2, Zenon DEF L
    <3>5. RequestInv(scfg, r, k)
      BY <3>1, <3>2, <3>3, <3>4, ZenonT(60) DEF RequestInv
    <3> QED BY <3>0, <3>5, Zenon
  <2>4. OpenInv'
    <3> SUFFICES ASSUME NEW c \in open' PROVE c[1] \in Thread /\ Held(scfg, backends'[c[1]], c[2])
      BY <1>1, Zenon DEF OpenInv
    <3>1. backends'[t] = k /\ \A u \in Thread : u # t => backends'[u] = backends[u]
      BY <1>1, <1>6, Zenon
    <3> HIDE DEF k
    <3>2. CASE c \in got.connections
      BY <2>2, <3>1, <3>2, Zenon
    <3>3. CASE c \in open
      <4>1. c[1] \in Thread /\ Held(scfg, backends[c[1]], c[2])
        BY <1>1, <3>3, Zenon DEF OpenInv
      <4>2. CASE c[1] = t
        BY <2>2, <3>1, <4>1, <4>2, Zenon
      <4>3. CASE c[1] # t
        BY <3>1, <4>1, <4>3, Zenon
      <4> QED BY <4>2, <4>3, Zenon
    <3> QED BY <1>6, <3>2, <3>3, Zenon
  <2> HIDE DEF k, at
  <2>5. /\ DOMAIN request' = Thread /\ request'[t] = R(at, i, got.store)
        /\ \A u \in Thread : u # t => request'[u] = request[u]
        /\ DOMAIN backends' = Thread /\ backends'[t] = k /\ \A u \in Thread : u # t => backends'[u] = backends[u]
    BY <1>1, <1>6, Zenon DEF k, at
  <2> QED BY <1>1, <2>2, <2>3, <2>4, <2>5, NewRequestInv, ZenonT(60)
<1>7. ASSUME rest = <<"tile-layer.json">> PROVE rest \in {<<"tile">>, <<"tile-layer.json">>}
  BY <1>7, Zenon
<1> QED BY <1>3, <1>5, <1>6, <1>7, Zenon

(* Nothing is known of a request that is not there. *)
LEMMA IdleRequestInv ==
    ASSUME NEW cfg, NEW r, NEW k, r.at = "idle"
    PROVE  RequestInv(cfg, r, k)
<1>1. "idle" # "tile_serve"
  BY Zenon
<1> QED BY <1>1, Zenon DEF RequestInv

(* The handler's answer. *)
LEMMA AnsweredInv ==
    ASSUME RunInv, NEW t \in Thread, Answered(t)
    PROVE  RunInv'
<1>1. /\ phase' = phase /\ scfg' = scfg /\ backends' = backends /\ open' = open
      /\ request[t].at # "idle" /\ request' = [request EXCEPT ![t] = NoRequest]
  BY Zenon DEF Answered, configVars
<1>2. /\ DOMAIN backends = Thread /\ DOMAIN request = Thread /\ OpenInv /\ KnownInv(scfg, backends[t])
      /\ phase # "run" => request = [u \in Thread |-> NoRequest]
  BY Zenon DEF RunInv
<1>3. NoRequest.at = "idle"
  BY Zenon DEF NoRequest
<1>4. phase = "run"
  <2>1. ASSUME phase # "run" PROVE request[t] = NoRequest
    BY <1>2, <2>1, Zenon
  <2> QED BY <1>1, <1>3, <2>1, Zenon
<1>5. OpenInv'
  BY <1>1, <1>2, Zenon DEF OpenInv
<1>6. RequestInv(scfg, NoRequest, backends[t])
  BY <1>3, IdleRequestInv, Zenon
<1>7. /\ DOMAIN request' = Thread /\ request'[t] = NoRequest /\ DOMAIN backends' = Thread
      /\ \A u \in Thread : u # t => backends'[u] = backends[u] /\ request'[u] = request[u]
      /\ backends'[t] = backends[t]
  BY <1>1, <1>2, Zenon
<1> QED BY <1>1, <1>2, <1>4, <1>5, <1>6, <1>7, NewRequestInv, ZenonT(60)

(* A thread without stores. *)
LEMMA NoStoresKnown == \A cfg : KnownInv(cfg, NoStores)
<1>1. NoStores.noBackends = 0 /\ NoStores.stores = <<>> /\ NoStores.served = {}
  BY Zenon DEF NoStores
<1>2. 0 \in Nat /\ <<>> \in Seq(Directory \cup {NULL}) /\ Len(<<>>) = 0
  OBVIOUS
<1>3. NoStores \in Known
  BY <1>2, Zenon DEF NoStores, Known
<1>4. Len(NoStores.stores) = NoStores.noBackends
  BY <1>1, <1>2, Zenon
<1> QED BY <1>1, <1>3, <1>4, Zenon DEF KnownInv

(* The end of a thread. *)
LEMMA CleanupInv ==
    ASSUME RunInv, NEW t \in Thread, cleanup_storage_backend(t)
    PROVE  RunInv'
<1>1. /\ phase = "run" /\ phase' = phase /\ scfg' = scfg /\ request' = request /\ request[t].at = "idle"
      /\ backends' = [backends EXCEPT ![t] = NoStores]
      /\ open' = open \ {c \in open : \E i \in 1..backends[t].noBackends :
                                        backends[t].stores[i] # NULL /\ c[1] = t /\ c[2] = i}
  BY Zenon DEF cleanup_storage_backend, configVars
<1>2. DOMAIN backends = Thread /\ DOMAIN request = Thread /\ OpenInv
  BY Zenon DEF RunInv
<1>3. /\ DOMAIN backends' = Thread /\ DOMAIN request' = Thread /\ backends'[t] = NoStores
      /\ \A u \in Thread : u # t => backends'[u] = backends[u] /\ request'[u] = request[u]
      /\ request'[t] = request[t]
  BY <1>1, <1>2, Zenon
<1>4. OpenInv'
  <2> SUFFICES ASSUME NEW c \in open' PROVE c[1] \in Thread /\ Held(scfg, backends'[c[1]], c[2])
    BY <1>1, Zenon DEF OpenInv
  <2>1. /\ c \in open
        /\ ~\E i \in 1..backends[t].noBackends : backends[t].stores[i] # NULL /\ c[1] = t /\ c[2] = i
    BY <1>1, Zenon
  <2>2. c[1] \in Thread /\ Held(scfg, backends[c[1]], c[2])
    BY <1>2, <2>1, Zenon DEF OpenInv
  <2>3. CASE c[1] # t
    BY <1>3, <2>2, <2>3, Zenon
  <2>4. CASE c[1] = t
    BY <2>1, <2>2, <2>4, Zenon DEF Held
  <2> QED BY <2>3, <2>4, Zenon
<1>5. RequestInv(scfg, request[t], NoStores)
  BY <1>1, IdleRequestInv, Zenon
<1> QED BY <1>1, <1>3, <1>4, <1>5, NoStoresKnown, NewRequestInv, ZenonT(60)

(* Nothing has run before the configuration is read. *)
NothingRuns ==
    backends = [t \in Thread |-> NoStores] /\ open = {} /\ request = [t \in Thread |-> NoRequest]

(* The invariant then says nothing. *)
LEMMA NothingRunsInv == NothingRuns => RunInv
<1> SUFFICES ASSUME NothingRuns PROVE RunInv
  BY Zenon
<1>0. backends = [t \in Thread |-> NoStores] /\ open = {} /\ request = [t \in Thread |-> NoRequest]
  BY Zenon DEF NothingRuns
<1>1. NoRequest.at = "idle"
  BY Zenon DEF NoRequest
<1>2. \A t \in Thread : backends[t] = NoStores /\ request[t] = NoRequest
  BY <1>0, Zenon
<1>3. RequestInv(scfg, NoRequest, NoStores)
  BY <1>1, IdleRequestInv, Zenon
<1>4. \A t \in Thread : KnownInv(scfg, backends[t]) /\ RequestInv(scfg, request[t], backends[t])
  BY <1>2, <1>3, NoStoresKnown, Zenon
<1>5. OpenInv
  BY <1>0, Zenon DEF OpenInv
<1> QED BY <1>0, <1>4, <1>5, Zenon DEF RunInv

(* Before the first directive. *)
LEMMA InitConfigInv == ConfigInit => ConfigInv /\ RunInv
<1> SUFFICES ASSUME ConfigInit PROVE ConfigInv /\ RunInv
  BY Zenon
<1>1. /\ phase = "config" /\ scfg = [s \in Server |-> NoLayers] /\ layerCount = 0 /\ stats_layers = 0
      /\ backends = [t \in Thread |-> NoStores] /\ open = {} /\ request = [t \in Thread |-> NoRequest]
  BY Zenon DEF ConfigInit
<1>2. RunInv
  BY <1>1, NothingRunsInv, Zenon DEF NothingRuns
<1>3. 0 \in Nat /\ <<>> \in Seq(Layer) /\ Len(<<>>) = 0 /\ 0 + 0 <= 0 /\ 0 <= 0 /\ \A i \in 1..0 : FALSE
  OBVIOUS
<1>4. NoLayers \in [tile_dir : Directory, configs : Seq(Layer)] /\ NoLayers.configs = <<>>
  <2>1. "RENDERD_TILE_DIR" \in Directory
    BY ConfigAssumption, Zenon
  <2> QED BY <1>3, <2>1, Zenon DEF NoLayers
<1>5. scfg \in [Server -> [tile_dir : Directory, configs : Seq(Layer)]] /\ \A s \in Server : scfg[s].configs = <<>>
  BY <1>1, <1>4, Zenon
<1>6. Main \in Server
  BY Zenon DEF Server
<1>7. ASSUME NEW s \in Server PROVE CountedFor(s) <= layerCount
  BY <1>1, <1>3, <1>5, <1>6, Zenon DEF CountedFor
<1>8. FromFiles(<<>>)
  BY <1>3, Zenon DEF FromFiles
<1>9. \A s \in Server : FromFiles(scfg[s].configs)
  BY <1>5, <1>8, Zenon
<1>10. ConfigTypes
  BY <1>1, <1>3, <1>5, Zenon DEF ConfigTypes
<1>11. LayersCounted
  <2>1. "config" # "run"
    BY Zenon
  <2> QED BY <1>1, <2>1, Zenon DEF LayersCounted
<1> QED BY <1>2, <1>7, <1>9, <1>10, <1>11, Zenon DEF ConfigInv

(* One step. *)
LEMMA NextConfigInv == ConfigInv /\ RunInv /\ [ConfigNext]_modTileVars => ConfigInv' /\ RunInv'
<1> SUFFICES ASSUME ConfigInv, RunInv, [ConfigNext]_modTileVars PROVE ConfigInv' /\ RunInv'
  BY Zenon
<1>1. ASSUME phase = "config", UNCHANGED runVars PROVE RunInv'
  <2>1. "config" # "run"
    BY Zenon
  <2>2. backends = [t \in Thread |-> NoStores] /\ open = {} /\ request = [t \in Thread |-> NoRequest]
    BY <1>1, <2>1, Zenon DEF RunInv
  <2>3. backends' = backends /\ open' = open /\ request' = request
    BY <1>1, Zenon DEF runVars
  <2>4. NothingRuns'
    BY <2>2, <2>3, Zenon DEF NothingRuns
  <2> QED BY <2>4, NothingRunsInv, PTL
<1>2. ASSUME UNCHANGED configVars PROVE ConfigInv'
  <2>1. phase' = phase /\ scfg' = scfg /\ layerCount' = layerCount /\ stats_layers' = stats_layers
    BY <1>2, Zenon DEF configVars
  <2> QED BY <2>1, Zenon DEF ConfigInv, ConfigTypes, LayersCounted, CountedFor
<1>3. CASE Directive
  BY <1>1, <1>3, DirectiveInv, Zenon
<1>4. CASE PostConfig
  <2>1. phase = "config" /\ UNCHANGED runVars
    BY <1>4, Zenon DEF PostConfig, runVars
  <2> QED BY <1>1, <1>4, <2>1, PostConfigInv, Zenon
<1>5. ASSUME NEW t \in Thread, NEW s \in Server, NEW path \in Path, tile_translate(t, s, path)
      PROVE  ConfigInv' /\ RunInv'
  <2>1. UNCHANGED configVars
    BY <1>5, Zenon DEF tile_translate
  <2> QED BY <1>2, <1>5, <2>1, TranslateInv, Zenon
<1>6. ASSUME NEW t \in Thread, Answered(t) PROVE ConfigInv' /\ RunInv'
  <2>1. UNCHANGED configVars
    BY <1>6, ZenonT(60) DEF Answered, configVars
  <2> QED BY <1>2, <1>6, <2>1, AnsweredInv, Zenon
<1>7. ASSUME NEW t \in Thread, cleanup_storage_backend(t) PROVE ConfigInv' /\ RunInv'
  <2>1. UNCHANGED configVars
    BY <1>7, Zenon DEF cleanup_storage_backend, configVars
  <2> QED BY <1>2, <1>7, <2>1, CleanupInv, Zenon
<1>8. CASE UNCHANGED modTileVars
  <2>1. UNCHANGED configVars /\ UNCHANGED runVars
    BY <1>8, Zenon DEF modTileVars
  <2>2. phase' = phase /\ scfg' = scfg /\ backends' = backends /\ open' = open /\ request' = request
    BY <2>1, Zenon DEF configVars, runVars
  <2>3. RunInv'
    BY <2>2, Zenon DEF RunInv, OpenInv
  <2> QED BY <1>2, <2>1, <2>3, Zenon
<1> QED BY <1>3, <1>4, <1>5, <1>6, <1>7, <1>8, ZenonT(60) DEF ConfigNext

(* The invariant that the properties of the configuration and of the       *)
(* requests need.                                                          *)
THEOREM ConfigurationInvariant == ConfigSpec => [](ConfigInv /\ RunInv)
<1> QED BY InitConfigInv, NextConfigInv, PTL DEF ConfigSpec

(* The shared counters have room for every layer number a request can      *)
(* have, whatever layers the main server and the virtual hosts have.       *)
THEOREM EveryLayerIsCounted == ConfigSpec => []LayersCounted
<1>1. ConfigInv => LayersCounted
  BY Zenon DEF ConfigInv
<1> QED BY <1>1, ConfigurationInvariant, PTL

(* A thread that has served only servers with the same layers uses the     *)
(* store of the request's layer.                                           *)
THEOREM ThreadsUseTheLayersStore == ConfigSpec => []StoreOfSameLayers
<1>1. RunInv => StoreOfSameLayers
  <2> SUFFICES ASSUME RunInv, NEW t \in Thread, request[t].at = "tile_serve",
                      \A s \in backends[t].served : scfg[s].configs = scfg[request[t].server].configs
               PROVE  request[t].store = scfg[request[t].server].configs[request[t].layer].store
    BY Zenon DEF StoreOfSameLayers
  <2>1. RequestInv(scfg, request[t], backends[t])
    BY Zenon DEF RunInv
  <2> QED BY <2>1, Zenon DEF RequestInv, Same
<1> QED BY <1>1, ConfigurationInvariant, PTL

(* Every connection that is open is that of a store its thread knows, and  *)
(* will close, unless it was opened for a layer beyond the thread's array, *)
(* which takes servers with different numbers of layers.                   *)
THEOREM ConnectionsStayKnown == ConfigSpec => []NoConnectionLost
<1>1. RunInv => NoConnectionLost
  BY Zenon DEF RunInv, OpenInv, Held, NoConnectionLost
<1> QED BY <1>1, ConfigurationInvariant, PTL

-----------------------------------------------------------------------------
(* A path below a map's URI *)

(* A list begins with another. *)
LEMMA PrefixOf ==
    ASSUME NEW S, NEW u \in Seq(S), NEW v \in Seq(S)
    PROVE  IsPrefix(u, v) <=> Len(u) <= Len(v) /\ \A k \in 1..Len(u) : u[k] = v[k]
<1>1. Len(u) \in Nat /\ Len(v) \in Nat
  OBVIOUS
<1>2. SubSeq(u, 1, Len(u)) = u
  BY SubSeqFull, Zenon
<1>3. ASSUME Len(u) <= Len(v) PROVE u = SubSeq(v, 1, Len(u)) <=> \A k \in 1..Len(u) : u[k] = v[k]
  <2> DEFINE w == SubSeq(v, 1, Len(u))
  <2>1. w \in Seq(S) /\ Len(w) = Len(u) /\ \A k \in 1..Len(u) : w[k] = v[k]
    BY <1>1, <1>3
  <2> HIDE DEF w
  <2>2. ASSUME \A k \in 1..Len(u) : u[k] = v[k] PROVE u = w
    <3>1. \A k \in 1..Len(u) : u[k] = w[k]
      BY <2>1, <2>2, Zenon
    <3> QED BY <2>1, <3>1, SeqEqual, Zenon
  <2>3. ASSUME u = w PROVE \A k \in 1..Len(u) : u[k] = v[k]
    BY <2>1, <2>3, Zenon
  <2> QED BY <2>2, <2>3, Zenon DEF w
<1> QED BY <1>2, <1>3, Zenon DEF IsPrefix

(* The layer of a path below the URI of one of the maps of the only file   *)
(* of a server: an earlier layer that begins the path would be an earlier  *)
(* map of the file that shadows this one.                                  *)
LEMMA OwnMapTaken ==
    ASSUME ConfigInv, NEW s \in Server, NEW path \in Path, NEW layer, Taken(scfg, s, path, layer),
           NEW j \in DOMAIN scfg[s].configs, scfg[s].configs[j].uri = Front(path),
           \A i, k \in DOMAIN scfg[s].configs :
              scfg[s].configs[i].origin = scfg[s].configs[k].origin /\ scfg[s].configs[i].origin # <<>>
    PROVE  layer # 0 /\ scfg[s].configs[layer].uri = Front(path)
<1> DEFINE L == scfg[s].configs
           n == Len(path)
           E == Element \cup TileNames
           matching == {k \in DOMAIN L : IsPrefix(L[k].uri, path)}
           i == Min(matching)
           u == L[i].uri
           rest == IF matching = {} THEN <<>> ELSE SubSeq(path, Len(L[i].uri) + 1, Len(path))
<1>1. layer = IF rest \in {<<"tile">>, <<"tile-layer.json">>} THEN i ELSE 0
  BY Zenon DEF Taken
<1>2. path \in Seq(E) /\ path # <<>> /\ Last(path) \in TileNames
  BY ConfigAssumption, Zenon
<1> HIDE DEF E
<1>3. n \in Nat /\ n # 0 /\ Last(path) = path[n] /\ n \in 1..n
  BY <1>2 DEF Last
<1>4. /\ Front(path) \in Seq(E) /\ Len(Front(path)) = n - 1
      /\ \A k \in 1..(n - 1) : Front(path)[k] = path[k]
  <2>1. \A k \in 1..n : path[k] \in E
    BY <1>2, ElementOfSeq, Zenon
  <2>2. 1 \in Int /\ n - 1 \in Int /\ \A k \in 1..(n - 1) : k \in 1..n
    BY <1>3
  <2> HIDE DEF n
  <2>3. \A k \in 1..(n - 1) : path[k] \in E
    BY <2>1, <2>2, Zenon
  <2>4. Front(path) = SubSeq(path, 1, n - 1)
    BY Zenon DEF Front, n
  <2>5. /\ Front(path) \in Seq(E)
        /\ Len(Front(path)) = IF 1 <= n - 1 THEN n - 1 - 1 + 1 ELSE 0
        /\ \A k \in 1..(n - 1 - 1 + 1) : Front(path)[k] = path[1 + k - 1]
    BY <2>2, <2>3, <2>4, SubSeqProperties
  <2>6. /\ (IF 1 <= n - 1 THEN n - 1 - 1 + 1 ELSE 0) = n - 1 /\ n - 1 - 1 + 1 = n - 1
        /\ \A k \in 1..(n - 1) : 1 + k - 1 = k
    BY <1>3
  <2>7. \A k \in 1..(n - 1) : Front(path)[k] = path[1 + k - 1]
    BY <2>5, <2>6, Zenon
  <2>8. \A k \in 1..(n - 1) : Front(path)[k] = path[k]
    BY <2>6, <2>7, Zenon
  <2> QED BY <2>5, <2>6, <2>8, Zenon
<1>5. L \in Seq(Layer) /\ FromFiles(L)
  BY Zenon DEF ConfigInv, ConfigTypes
<1>6. DOMAIN L = 1..Len(L) /\ Len(L) \in Nat
  BY <1>5, LenProperties, Zenon
<1>7. \A k \in 1..Len(L) : L[k].uri \in Seq(Element) /\ L[k].uri \in Seq(E)
  <2>1. \A k \in 1..Len(L) : L[k] \in Layer
    BY <1>5, ElementOfSeq, Zenon
  <2>2. \A k \in 1..Len(L) : L[k].uri \in Seq(Element)
    BY <2>1, Zenon DEF Layer, URI
  <2>3. \A x \in Seq(Element) : x \in Seq(E)
    BY DEF E
  <2> QED BY <2>2, <2>3, Zenon
<1> HIDE DEF L, n, rest, i, matching, u
<1>8. \A k \in 1..Len(L) : L[k].uri = Front(path) => k \in matching
  <2> SUFFICES ASSUME NEW k \in 1..Len(L), L[k].uri = Front(path) PROVE IsPrefix(L[k].uri, path)
    BY <1>6, Zenon DEF matching
  <2>1. Len(Front(path)) <= Len(path) /\ \A m \in 1..Len(Front(path)) : Front(path)[m] = path[m]
    BY <1>3, <1>4 DEF n
  <2>2. IsPrefix(Front(path), path)
    BY <1>2, <1>4, <2>1, PrefixOf, Zenon
  <2> QED BY <2>2, Zenon
<1>9. i \in matching /\ i \in 1..Len(L) /\ i \in Nat \ {0} /\ \A k \in matching : i <= k
  <2>1. matching \in SUBSET Nat /\ \A k \in matching : k \in 1..Len(L) /\ k \in Nat \ {0}
    BY <1>6 DEF matching
  <2>2. j \in matching
    BY <1>6, <1>8, Zenon DEF L
  <2> QED BY <2>1, <2>2, LeastNumber, Zenon DEF i
<1>10. u \in Seq(Element) /\ u \in Seq(E) /\ Len(u) \in Nat /\ Len(u) <= n /\ \A k \in 1..Len(u) : u[k] = path[k]
  <2>1. u \in Seq(Element) /\ u \in Seq(E) /\ IsPrefix(u, path)
    BY <1>7, <1>9, Zenon DEF u, matching
  <2>2. Len(u) \in Nat
    BY <2>1, LenProperties, Zenon
  <2>3. IsPrefix(u, path) <=> Len(u) <= Len(path) /\ \A k \in 1..Len(u) : u[k] = path[k]
    <3>1. u \in Seq(E) /\ path \in Seq(E)
      BY <1>2, <2>1, Zenon
    <3> QED BY <3>1, PrefixOf
  <2> QED BY <2>1, <2>2, <2>3, Zenon DEF n
<1>11. Len(u) <= n - 1
  <2>1. ASSUME Len(u) = n PROVE FALSE
    <3>1. path[n] = u[n] /\ u[n] \in Element
      BY <1>3, <1>10, <2>1, ElementOfSeq, Zenon
    <3> QED BY <1>2, <1>3, <3>1, ConfigAssumption, Zenon
  <2> QED BY <1>3, <1>10, <2>1
<1>12. IsPrefix(u, Front(path))
  <2>1. \A k \in 1..Len(u) : u[k] = Front(path)[k]
    BY <1>3, <1>4, <1>10, <1>11
  <2> QED BY <1>4, <1>10, <1>11, <2>1, PrefixOf, ZenonT(60)
<1>13. u = Front(path)
  <2>1. j \in 1..Len(L) /\ L[j].uri = Front(path) /\ L[j].origin = L[i].origin /\ L[i].origin # <<>>
    BY <1>6, <1>9, Zenon DEF L
  <2> DEFINE maps == MapsOf(L[i].origin)
  <2>2. L[i].origin \in ConfigFile /\ ~Shadowed(maps)
    BY <1>5, <1>9, <2>1, Zenon DEF FromFiles
  <2>3. PICK o \in Nat, p \in Nat : PlaceInFile(L, i, o, p)
    BY <1>5, <1>9, <2>1, Zenon DEF FromFiles
  <2>4. PICK o2 \in Nat, q \in Nat : PlaceInFile(L, j, o2, q)
    BY <1>5, <2>1, Zenon DEF FromFiles
  <2>5. DOMAIN maps = 1..Len(maps)
    <3>1. maps \in Seq(MapSection)
      BY <2>2, ConfigAssumption, Zenon DEF MapsOf
    <3> QED BY <3>1, LenProperties, Zenon
  <2>6. /\ p \in 1..Len(maps) /\ i = o + p
        /\ \A k \in 1..Len(maps) : o + k \in 1..Len(L) /\ L[o + k].uri = maps[k].uri
    BY <2>3, Zenon DEF PlaceInFile
  <2>7. q \in 1..Len(maps) /\ maps[q].uri = Front(path)
    <3>1. /\ q \in 1..Len(maps) /\ j = o2 + q
          /\ \A k \in 1..Len(maps) : o2 + k \in 1..Len(L) /\ L[o2 + k].uri = maps[k].uri
      BY <2>1, <2>4, Zenon DEF PlaceInFile
    <3> QED BY <2>1, <3>1, Zenon
  <2> HIDE DEF maps
  <2>8. maps[p].uri = u
    BY <2>6, Zenon DEF u
  <2>9. ~(p < q)
    BY <1>12, <2>2, <2>5, <2>6, <2>7, <2>8, ZenonT(60) DEF Shadowed
  <2>10. ~(q < p)
    <3>1. o + q \in matching
      BY <1>8, <2>6, <2>7, Zenon
    <3>2. o + p <= o + q
      BY <1>9, <2>6, <3>1, ZenonT(60)
    <3> QED BY <3>2
  <2>11. p = q
    BY <2>9, <2>10
  <2> QED BY <2>7, <2>8, <2>11, ZenonT(60)
<1>14. rest \in {<<"tile">>, <<"tile-layer.json">>}
  <2>1. matching # {} /\ Len(L[i].uri) + 1 = n
    <3>1. Len(L[i].uri) = n - 1
      BY <1>4, <1>13, Zenon DEF u
    <3> QED BY <1>3, <1>9, <3>1
  <2>2. rest = SubSeq(path, n, n)
    BY <2>1, Zenon DEF rest, n
  <2>3. SubSeq(path, n, n) = <<path[n]>>
    <3> DEFINE w == SubSeq(path, n, n)
    <3>1. path[n] \in E
      BY <1>2, <1>3, ElementOfSeq, ZenonT(60) DEF n
    <3>2. n \in Int /\ \A k \in n..n : k = n
      BY <1>3
    <3>3. \A k \in n..n : path[k] \in E
      BY <3>1, <3>2, Zenon
    <3>4. /\ w \in Seq(E) /\ Len(w) = IF n <= n THEN n - n + 1 ELSE 0
          /\ \A k \in 1..(n - n + 1) : w[k] = path[n + k - 1]
      BY <3>2, <3>3, SubSeqProperties
    <3> HIDE DEF w
    <3>5. Len(w) = 1 /\ w[1] = path[n]
      BY <1>3, <3>4
    <3>6. /\ <<path[n]>> \in Seq(E) /\ Len(<<path[n]>>) = 1 /\ <<path[n]>>[1] = path[n]
          /\ \A k \in 1..1 : k = 1
      BY <3>1
    <3>7. Len(w) = Len(<<path[n]>>) /\ \A k \in 1..Len(w) : w[k] = <<path[n]>>[k]
      BY <3>5, <3>6, Zenon
    <3> QED BY <3>4, <3>6, <3>7, SeqEqual, ZenonT(60) DEF w
  <2>4. path[n] = "tile" \/ path[n] = "tile-layer.json"
    BY <1>2, <1>3, Zenon DEF TileNames
  <2> QED BY <2>2, <2>3, <2>4, ZenonT(60)
<1>15. layer = i
  BY <1>1, <1>14, Zenon
<1>16. i # 0
  BY <1>9, Zenon
<1> QED BY <1>13, <1>15, <1>16, Zenon DEF u, L

(* A server whose layers all come from one renderd.conf serves every map   *)
(* of that file, for every configuration: no request below the URI of a    *)
(* map is taken or declined by an earlier one.                             *)
THEOREM EveryMapIsServed == ConfigSpec => []OwnMapServed
<1>1. ConfigInv /\ RunInv => OwnMapServed
  <2> SUFFICES ASSUME ConfigInv, RunInv, NEW t \in Thread, request[t].at # "idle",
                      NEW j \in DOMAIN scfg[request[t].server].configs,
                      scfg[request[t].server].configs[j].uri = Front(request[t].path),
                      \A i, k \in DOMAIN scfg[request[t].server].configs :
                         /\ scfg[request[t].server].configs[i].origin = scfg[request[t].server].configs[k].origin
                         /\ scfg[request[t].server].configs[i].origin # <<>>
               PROVE  /\ request[t].layer # 0
                      /\ scfg[request[t].server].configs[request[t].layer].uri = Front(request[t].path)
    BY Zenon DEF OwnMapServed
  <2>1. RequestInv(scfg, request[t], backends[t])
    BY Zenon DEF RunInv
  <2>2. /\ request[t].server \in Server /\ request[t].path \in Path
        /\ Taken(scfg, request[t].server, request[t].path, request[t].layer)
    BY <2>1, Zenon DEF RequestInv
  <2> QED BY <2>2, OwnMapTaken, Zenon
<1> QED BY <1>1, ConfigurationInvariant, PTL
=============================================================================
