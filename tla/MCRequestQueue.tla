--------------------------- MODULE MCRequestQueue ---------------------------
(* A small instance of RequestQueue: three metatiles of one zoom level. *)
EXTENDS RequestQueue, TLC

CONSTANTS t1, t2, t3

MCTile == {t1, t2, t3}
MCZoom == {0, 1}
MCZoomOf == [t \in MCTile |-> 0]
MCRenderTime == {-1, 2}
MCSymmetry == Permutations(Thread) \cup Permutations(MCTile)
=============================================================================
