------------------------------ MODULE TileIndex ------------------------------
(***************************************************************************)
(* What the request queue needs of its index: a set of items, at most one  *)
(* per metatile, in which an item is found by its metatile.                *)
(***************************************************************************)
CONSTANTS Item, TileOf

VARIABLE index

Match(i) == {j \in index : TileOf[j] = TileOf[i]}

Init == index = {}
Insert(i) == Match(i) = {} /\ index' = index \cup {i}
Remove(i) == index' = index \ Match(i)
Next == \E i \in Item : Insert(i) \/ Remove(i)
Spec == Init /\ [][Next]_index
=============================================================================
