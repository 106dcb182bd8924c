---------------------------- MODULE MCHashIndex ----------------------------
(* Five items for four metatiles in two buckets; three heap cells. *)
EXTENDS HashIndex, TLC

CONSTANTS i1, i2, i3, i4, i5

MCItem == {i1, i2, i3, i4, i5}
MCTile == 1..4
MCTileOf == i1 :> 1 @@ i2 :> 2 @@ i3 :> 3 @@ i4 :> 4 @@ i5 :> 1
MCSymmetry == Permutations(Node) \cup Permutations(Bucket)
=============================================================================
