--------------------------- MODULE RenderdConfig ---------------------------
(***************************************************************************)
(* renderd.conf as src/src/renderd_config.c reads it, for renderd, for the *)
(* tools and, its map sections only, for mod_tile.                         *)
(*                                                                         *)
(* A file is a sequence of sections: a map section is [kind, name, uri,    *)
(* tile_dir, min_zoom, max_zoom, valid], a renderd section [kind, num,     *)
(* num_threads, valid].  A URI is the sequence of its path elements: with  *)
(* the slash that the code adds, one string begins with another exactly if *)
(* the sequences do.  valid stands for the checks of single values: scale  *)
(* and type of a map, length of a socket's name.                           *)
(***************************************************************************)
EXTENDS Integers, Sequences, SequencesExt

CONSTANTS
    MAX_ZOOM,
    XMLCONFIGS_MAX,   \* map sections that fit
    MAX_SLAVES,       \* renderd sections that fit
    NPROCESSORS       \* what num_threads = -1 stands for

(* The program calls exit. *)
Exit == [exit |-> TRUE]

Sections(ini, kind) == SelectSeq(ini, LAMBDA s : s.kind = kind)

(* Mutation: only sections next to each other are compared. *)
ShadowedNext(maps) == \E i, j \in DOMAIN maps : j = i + 1 /\ IsPrefix(maps[i].uri, maps[j].uri)

(* "Specified URI path must not be the parent of any subsequent map config *)
(* section's URI path"                                                     *)
Shadowed(maps) == \E i, j \in DOMAIN maps : i < j /\ IsPrefix(maps[i].uri, maps[j].uri)

BadZooms(m) == m.max_zoom \notin 0..MAX_ZOOM \/ m.min_zoom \notin 0..m.max_zoom

(* default_tile_dir is what a map without a TILEDIR gets. *)
process_map_sections(ini, default_tile_dir) ==
    LET maps == Sections(ini, "map")
        Dir(m) == IF m.tile_dir = "" THEN default_tile_dir ELSE m.tile_dir
    IN  IF \/ Len(maps) = 0 \/ Len(maps) > XMLCONFIGS_MAX
           \/ \E i \in DOMAIN maps : BadZooms(maps[i]) \/ ~maps[i].valid
           \/ Shadowed(maps)
        THEN Exit
        ELSE [exit |-> FALSE, maps |-> [i \in DOMAIN maps |-> [maps[i] EXCEPT !.tile_dir = Dir(maps[i])]]]

(* The threads of every section; 0 where there is none. *)
process_renderd_sections(ini) ==
    LET secs == Sections(ini, "renderd")
        Threads(n) == IF n = -1 THEN NPROCESSORS ELSE n
    IN  IF \/ Len(secs) = 0
           \/ \E i \in DOMAIN secs : secs[i].num >= MAX_SLAVES \/ ~secs[i].valid
           \/ \E i, j \in DOMAIN secs : i < j /\ secs[i].num = secs[j].num
        THEN Exit
        ELSE [exit |-> FALSE,
              threads |-> [n \in 0..MAX_SLAVES - 1 |->
                  IF \E i \in DOMAIN secs : secs[i].num = n
                  THEN Threads(secs[CHOOSE i \in DOMAIN secs : secs[i].num = n].num_threads) ELSE 0]]

process_config_file(ini, active) ==
    LET renderds == process_renderd_sections(ini)
        maps == process_map_sections(ini, "tile_dir of renderd")
    IN  IF \/ active \notin 0..MAX_SLAVES - 1 \/ renderds.exit
        THEN Exit
        ELSE IF renderds.threads[active] = 0 \/ Sections(ini, "mapnik") = <<>> \/ maps.exit THEN Exit
        ELSE [exit |-> FALSE, maps |-> maps.maps, num_threads |-> renderds.threads[active],
              num_slave_threads |-> MapThenSumSet(LAMBDA n : renderds.threads[n], 0..MAX_SLAVES - 1 \ {active})]
=============================================================================
