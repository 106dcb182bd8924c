--------------------------- MODULE MCRenderTools ---------------------------
(***************************************************************************)
(* Small instances of the tools: metatiles of 2 x 2 tiles, lines of zoom   *)
(* levels 1 to 4, a store of up to three files.                            *)
(***************************************************************************)
EXTENDS RenderTools

(* Tiles with the same and with other ancestors, on both sides of the      *)
(* middle of the map.                                                      *)
MCLine == {<<1, 1, 0>>, <<3, 0, 0>>, <<3, 1, 0>>, <<3, 3, 0>>, <<3, 4, 7>>, <<3, 7, 7>>, <<4, 5, 0>>, <<4, 15, 15>>}

MapSection(name, uri, min, max) ==
    [kind |-> "map", name |-> name, uri |-> uri, tile_dir |-> "", min_zoom |-> min, max_zoom |-> max, valid |-> TRUE]
RenderdSection(num, threads) == [kind |-> "renderd", num |-> num, num_threads |-> threads, valid |-> TRUE]

(* renderd.conf, and files that process_config_file refuses: without the   *)
(* section of the active renderd, or with two of one number.               *)
Conf == <<RenderdSection(0, -1), [kind |-> "mapnik"], MapSection("osm", <<"osm">>, 0, 3), MapSection("hill", <<"hill">>, 2, 10),
          MapSection("alpine", <<"alpine">>, 0, 3)>>
Refused == {<<RenderdSection(1, 2)>> \o Tail(Conf), <<RenderdSection(0, 2)>> \o Conf}

ExpiredOptions ==
    [tool : {"render_expired"}, config : {<<>>, Conf}, name : {"hill"}, min : {NotPassed, 0}, max : {1, 3},
     delete_from : {NotPassed, 2, 3}, touch_from : {NotPassed, 2}]

MCBoxes == {{}} \cup {{[west |-> w, east |-> e, north |-> n, south |-> s]} :
                     w \in {0, 200, 300, 600}, e \in {511, 700, 1024}, n \in {0, 300}, s \in {320, 1024}}

ListOptions ==
    [tool : {"render_list"}, config : {Conf}, name : {"osm"}, all : {TRUE}, force : BOOLEAN,
     min : {2, 3}, max : {2, 3}, box : {{}}, x0 : {NotPassed, 2, 4}, y0 : {NotPassed, 4}, x1 : {NotPassed, 2, 5},
     y1 : {NotPassed, 5}]
    \cup
    [tool : {"render_list"}, config : {<<>>}, name : {"osm"}, all : {TRUE}, force : {FALSE},
     min : {1}, max : {2}, box : MCBoxes, x0 : {NotPassed, 1}, y0 : {NotPassed}, x1 : {NotPassed}, y1 : {NotPassed}]
    \cup
    [tool : {"render_list"}, config : {<<>>, Conf}, name : {"osm"}, all : {FALSE}, force : BOOLEAN,
     min : {NotPassed, 2}, max : {NotPassed, 3}, box : {{}}, x0 : {NotPassed}, y0 : {NotPassed},
     x1 : {NotPassed}, y1 : {NotPassed}]

OldOptions ==
    [tool : {"render_old"}, config : {Conf} \cup Refused, name : {"osm", "", "none"}, min : {NotPassed, 0, 3}, max : {NotPassed, 3},
     planet : {5}]

MCOptions == ExpiredOptions \cup ListOptions \cup OldOptions

(* The file of a metatile, and one that the store did not write. *)
File(name, options, z, x, y, suffix, mtime) ==
    [name |-> name, z |-> z, hash |-> xyzo_to_meta(name, options, z, x, y).hash, options |-> options,
     suffix |-> suffix, mtime |-> mtime, tile |-> <<x, y>>]
Stray(name, z, hash, mtime) ==
    [name |-> name, z |-> z, hash |-> hash, options |-> "", suffix |-> ".meta", mtime |-> mtime, tile |-> <<>>]

MCFiles == {File("osm", "", 2, 2, 0, ".meta", 4), File("osm", "", 3, 6, 4, ".meta", 4), File("osm", "", 4, 6, 4, ".meta", 4),
            File("hill", "", 10, 1022, 516, ".meta", 4), File("hill", "en", 3, 2, 4, ".meta", 4),
            File("hill", "", 3, 0, 6, ".meta", 5), File("hill", "", 3, 0, 6, ".140", 4),
            File("alpine", "", 2, 2, 0, ".meta", 4)}

(* Next to metatiles, alone, with a number that is no byte, of a tile that *)
(* is not on the map, too deep and not deep enough.                        *)
MCStray == {Stray("osm", 3, <<0, 0, 0, 0, NoNumber>>, 4), Stray("hill", 2, <<0, 0, 0, 1, NoNumber>>, 4),
            Stray("osm", 2, <<0, 0, 0, 0, 256>>, 4), Stray("osm", 3, <<0, 0, 0, 0, 255>>, 4),
            Stray("hill", 3, <<0, 0, 0, 0, 36, 7>>, 4), Stray("osm", 3, <<NoNumber>>, 4)}

(* A name of over 40 characters stands for one. *)
MCCut == [n \in {"alpine"} |-> "alp"]

MCMetas == {MetaOf(z, x, y) : z \in 0..3, x \in 0..7, y \in 0..7}
MCClean == {{}, MCMetas, {m \in MCMetas : m[2] < m[3]}}

MCTree == {t \in SUBSET (MCFiles \cup MCStray) : Cardinality(t) <= 3}
=============================================================================
