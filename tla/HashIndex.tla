------------------------------ MODULE HashIndex ------------------------------
(***************************************************************************)
(* The hash index of the request queue, pointers and all (lookup_item_idx, *)
(* insert_item_idx and remove_item_idx in src/src/request_queue.c).        *)
(*                                                                         *)
(* item_hashidx is an array of struct item_idx cells, so the first cell of *)
(* a bucket is never allocated nor freed; the others are heap cells.  The  *)
(* heap hands out any free cell, and a freed cell keeps its contents.      *)
(* calcHashKey is any function from metatiles to buckets, fixed in Init.   *)
(***************************************************************************)
EXTENDS Integers, Sequences, FiniteSets

CONSTANTS
    Item, Tile,
    TileOf,    \* the metatile (mx, my, z, xmlname) of an item
    Bucket,    \* the cells of the array item_hashidx
    Node,      \* heap cells
    NULL

ASSUME IndexAssumption ==
    /\ TileOf \in [Item -> Tile]
    /\ NULL \notin Item \cup Node \cup Bucket
    /\ Bucket \cap Node = {}
    /\ IsFiniteSet(Node)

Cell == Bucket \cup Node

VARIABLES
    key,     \* calcHashKey
    item,    \* cell->item
    next,    \* cell->next
    alive    \* the heap cells malloc has handed out and free has not taken back

indexVars == <<key, item, next, alive>>

Init ==
    /\ key \in [Tile -> Bucket]
    /\ item = [c \in Cell |-> NULL]
    /\ next = [c \in Cell |-> NULL]
    /\ alive = {}

-----------------------------------------------------------------------------
(* The cells of a bucket, head first, as a walk along next visits them; a  *)
(* walk that does not end within the cells there are is cut off.           *)
Walk(b) ==
    LET w[n \in 0..Cardinality(Node)] ==
            IF n = 0 THEN <<b>>
            ELSE LET s == w[n - 1]  last == s[Len(s)] IN
                 IF next[last] = NULL THEN s ELSE Append(s, next[last])
    IN  w[Cardinality(Node)]

Home(i) == key[TileOf[i]]
SameTile(i, j) == j # NULL /\ TileOf[i] = TileOf[j]

(* The places in a walk whose item is for the same metatile as i. *)
Hits(i) == {n \in 1..Len(Walk(Home(i))) : SameTile(i, item[Walk(Home(i))[n]])}
FirstHit(i) == CHOOSE n \in Hits(i) : \A m \in Hits(i) : n <= m

lookup_item_idx(i) == IF Hits(i) = {} THEN NULL ELSE item[Walk(Home(i))[FirstHit(i)]]

(* Called when pending has found no match. *)
insert_item_idx(i) ==
    /\ lookup_item_idx(i) = NULL
    /\ LET b == Home(i)  last == Walk(b)[Len(Walk(b))] IN
       \/ /\ item[b] = NULL
          /\ item' = [item EXCEPT ![b] = i]
          /\ UNCHANGED <<next, alive>>
       \/ /\ item[b] # NULL
          /\ \E c \in Node \ alive :
                /\ item' = [item EXCEPT ![c] = i]
                /\ next' = [next EXCEPT ![c] = NULL, ![last] = c]
                /\ alive' = alive \cup {c}
    /\ UNCHANGED key

(* Mutation: the head is emptied although it has a successor. *)
RemoveHeadEmpties(b) ==
    /\ item' = [item EXCEPT ![b] = NULL]
    /\ UNCHANGED <<next, alive>>

(* Mutation: the cell behind the removed one goes with it. *)
RemoveInnerTwo(prev, c) ==
    LET last == IF next[c] = NULL THEN c ELSE next[c] IN
    /\ item' = [item EXCEPT ![c] = NULL, ![last] = NULL]
    /\ next' = [next EXCEPT ![prev] = next[last]]
    /\ alive' = alive \ {c, last}

(* The head of the bucket takes over the contents of its successor, which  *)
(* is freed; any other cell is unlinked and freed.                         *)
RemoveHead(b) ==
    IF next[b] # NULL
    THEN /\ item' = [item EXCEPT ![b] = item[next[b]]]
         /\ next' = [next EXCEPT ![b] = next[next[b]]]
         /\ alive' = alive \ {next[b]}
    ELSE /\ item' = [item EXCEPT ![b] = NULL]
         /\ UNCHANGED <<next, alive>>

RemoveInner(prev, c) ==
    /\ item' = [item EXCEPT ![c] = NULL]
    /\ next' = [next EXCEPT ![prev] = next[c]]
    /\ alive' = alive \ {c}

remove_item_idx(i) ==
    /\ item[Home(i)] # NULL
    /\ Hits(i) # {}
    /\ LET w == Walk(Home(i))  n == FirstHit(i) IN
       IF n = 1 THEN RemoveHead(Home(i)) ELSE RemoveInner(w[n - 1], w[n])
    /\ UNCHANGED key

Next == \E i \in Item : insert_item_idx(i) \/ remove_item_idx(i)

Spec == Init /\ [][Next]_indexVars

-----------------------------------------------------------------------------
(* Properties *)

Reachable == UNION {{Walk(b)[n] : n \in 1..Len(Walk(b))} : b \in Bucket}

(* The cells are well formed: every pointer is to a heap cell or NULL,     *)
(* every walk ends, no cell is in two walks or twice in one, and only the  *)
(* head of an otherwise empty bucket holds no item.  The heap cells in use *)
(* are exactly those some bucket reaches: nothing is leaked, and no walk   *)
(* touches a freed cell.                                                   *)
Chains ==
    /\ item \in [Cell -> Item \cup {NULL}]
    /\ next \in [Cell -> Node \cup {NULL}]
    /\ Reachable = Bucket \cup alive
    /\ \A b \in Bucket :
          LET w == Walk(b) IN
          /\ next[w[Len(w)]] = NULL
          /\ \A m, n \in 1..Len(w) : w[m] = w[n] => m = n
          /\ \A n \in 1..Len(w) : item[w[n]] = NULL => Len(w) = 1
    /\ \A a, b \in Bucket : a # b =>
          \A m \in 1..Len(Walk(a)), n \in 1..Len(Walk(b)) : Walk(a)[m] # Walk(b)[n]

Stored == {item[c] : c \in Reachable} \ {NULL}

(* Whatever was inserted and removed, and in whichever order, the cells are*)
(* well formed and lookup_item_idx finds the item of a metatile if there   *)
(* is one.                                                                 *)
IndexExact ==
    Chains /\ \A i \in Item : lookup_item_idx(i) =
        IF \E j \in Stored : TileOf[j] = TileOf[i]
        THEN CHOOSE j \in Stored : TileOf[j] = TileOf[i] ELSE NULL

(* The buckets implement the set: an insertion adds its item, and a        *)
(* removal takes away the entry for the metatile, and nothing else.        *)
T == INSTANCE TileIndex WITH index <- Stored
ImplementsTileIndex == T!Spec
=============================================================================
