-------------------------- MODULE MCRenderdSlaves --------------------------
(* A small instance of RenderdSlaves: a render thread and a slave thread. *)
EXTENDS RenderdSlaves, TLC

CONSTANTS t1, t2

OneTile == {t1}
TwoTiles == {t1, t2}
MCZoom == {0}
MCZoomOf == [t \in Tile |-> 0]
MCRenderTime == {-1, 0}
MCSymmetry == Permutations(Conn) \cup Permutations(Fd) \cup Permutations(Tile)
=============================================================================
