-------------------------- MODULE MCModTileConfig --------------------------
(***************************************************************************)
(* Instances of ModTileConfig: a main server and two virtual hosts, files  *)
(* with up to three maps, among them maps below one another, out of range  *)
(* or too many, and a layer whose store is a composite one.                *)
(***************************************************************************)
EXTENDS ModTileConfig, TLC

Map(uri, dir) == [kind |-> "map", name |-> "", uri |-> uri, tile_dir |-> dir, min_zoom |-> 0, max_zoom |-> MAX_ZOOM, valid |-> TRUE]

MCConfigFile == {
    <<Map(<<"a", "b">>, "d2"), Map(<<"a">>, "")>>,
    <<Map(<<"a">>, ""), Map(<<"b">>, ""), Map(<<"a", "b">>, "")>>,
    <<[Map(<<"a">>, "") EXCEPT !.min_zoom = MAX_ZOOM + 1]>> }

Added(uri, dir, max) == [uri |-> uri, tile_dir |-> dir, min_zoom |-> 0, max_zoom |-> max]

MCAddedLayer == {Added(<<"a">>, "", 2), Added(<<"b">>, "pair", 3), Added(<<"b">>, "", 4)}

MCPath == {uri \o <<last>> : uri \in {<<"a">>, <<"b">>, <<"a", "b">>}, last \in {"tile", "tile-layer.json"}}

(* The virtual hosts differ in nothing but what the directives give them. *)
VhostSymmetry == Permutations(Vhost)
=============================================================================
