-------------------------- MODULE HashIndexProofs --------------------------
(***************************************************************************)
(* Proofs about the hash index of the request queue (HashIndex), for any   *)
(* items, metatiles, buckets and heap cells, and any calcHashKey: the      *)
(* buckets are lists with one place for every cell in use, lookup_item_idx *)
(* finds exactly what is stored, and the whole implements a set of items.  *)
(***************************************************************************)
EXTENDS HashIndex, FiniteSetTheorems, SequenceTheorems, TLAPS

-----------------------------------------------------------------------------
(* The inductive invariant: the cells of every bucket are a list; each     *)
(* cell in use has one place in one of them; an item is in the bucket of   *)
(* its metatile, and no other cell has one for the same metatile.          *)

MaxWalk == Cardinality(Node)

(* p is the list that begins at b: each cell points to the next, and the   *)
(* last one nowhere.                                                       *)
IsList(nx, p, b) ==
    /\ p \in Seq(Cell) /\ Len(p) \in 1..(MaxWalk + 1)
    /\ p[1] = b
    /\ \A n \in 1..Len(p) - 1 : nx[p[n]] = p[n + 1]
    /\ nx[p[Len(p)]] = NULL

(* W gives the lists, and the cells in use are the buckets and al. *)
Lists(W, nx, al) ==
    /\ \A b \in Bucket : IsList(nx, W[b], b)
    /\ \A a, b \in Bucket : \A m \in 1..Len(W[a]), n \in 1..Len(W[b]) :
          W[a][m] = W[b][n] => a = b /\ m = n
    /\ \A b \in Bucket : \A n \in 1..Len(W[b]) : W[b][n] \in Bucket \cup al
    /\ \A c \in Bucket \cup al : \E b \in Bucket : \E n \in 1..Len(W[b]) : W[b][n] = c

(* An item is in the list of its bucket, and alone for its metatile. *)
Items(k, W, it, al) ==
    /\ \A b \in Bucket : \A n \in 1..Len(W[b]) :
          LET i == it[W[b][n]] IN IF i = NULL THEN Len(W[b]) = 1 ELSE k[TileOf[i]] = b
    /\ \A c, d \in Bucket \cup al :
          it[c] # NULL /\ it[d] # NULL /\ TileOf[it[c]] = TileOf[it[d]] => c = d

(* The list of every bucket, as the code walks it. *)
AllWalks == [b \in Bucket |-> Walk(b)]

IndexInv ==
    /\ key \in [Tile -> Bucket]
    /\ item \in [Cell -> Item \cup {NULL}]
    /\ next \in [Cell -> Node \cup {NULL}]
    /\ alive \subseteq Node
    /\ Lists(AllWalks, next, alive) /\ Items(key, AllWalks, item, alive)

-----------------------------------------------------------------------------
(* Walks *)

(* A set of natural numbers has a least element. *)
LEMMA LeastNumber ==
    ASSUME NEW I \in SUBSET Nat, I # {}
    PROVE  \E i \in I : \A j \in I : i <= j
<1>1. PICK x \in I : \A y \in I : ~(<<y, x>> \in OpToRel(<, Nat))
  BY WFMin, NatLessThanWellFounded, Zenon
<1>2. \A y \in I : <<y, x>> \in Nat \X Nat /\ <<y, x>>[1] = y /\ <<y, x>>[2] = x
  BY Zenon
<1>3. \A y \in I : ~(y < x)
  BY <1>1, <1>2, Zenon DEF OpToRel
<1> QED BY <1>3

(* The walk from a bucket along the pointers nx. *)
WalkOf(nx, b) ==
    LET w[n \in 0..Cardinality(Node)] ==
            IF n = 0 THEN <<b>>
            ELSE LET s == w[n - 1]  last == s[Len(s)] IN
                 IF nx[last] = NULL THEN s ELSE Append(s, nx[last])
    IN  w[Cardinality(Node)]

(* There are finitely many heap cells, so a walk has a bound. *)
LEMMA MaxWalkNat == MaxWalk \in Nat
  BY IndexAssumption, FS_CardinalityType, Zenon DEF MaxWalk

(* Walk is this walk, now and in the next state. *)
LEMMA WalkIsWalkOf == \A b : Walk(b) = WalkOf(next, b) /\ Walk(b)' = WalkOf(next', b)
  BY Zenon DEF Walk, WalkOf

(* One turn of the loop on a walk s. *)
Turn(nx, s) == IF nx[s[Len(s)]] = NULL THEN s ELSE Append(s, nx[s[Len(s)]])

(* A walk visits the cells of the list that begins at its bucket, all of   *)
(* them and in their order: its recursion has one solution, which takes    *)
(* one more cell of the list in each turn.                                 *)
LEMMA WalkFollowsList ==
    ASSUME NEW nx, NEW b, NEW p, IsList(nx, p, b)
    PROVE  WalkOf(nx, b) = p
<1> DEFINE Loop(w) == w = [n \in 0..MaxWalk |-> IF n = 0 THEN <<b>> ELSE Turn(nx, w[n - 1])]
           first(k) == SubSeq(p, 1, k)
           v == [n \in 0..MaxWalk |-> IF n < Len(p) THEN first(n + 1) ELSE p]
<1>1. /\ p \in Seq(Cell) /\ Len(p) \in 1..(MaxWalk + 1) /\ p[1] = b /\ nx[p[Len(p)]] = NULL
      /\ \A n \in 1..Len(p) - 1 : nx[p[n]] = p[n + 1]
      /\ \A n \in 1..Len(p) : p[n] \in Cell
      /\ MaxWalk \in Nat
  BY MaxWalkNat, ElementOfSeq, Zenon DEF IsList
<1>2. \A k \in 1..Len(p) : first(k) \in Seq(Cell) /\ Len(first(k)) = k /\ \A i \in 1..k : first(k)[i] = p[i]
  BY <1>1
<1>3. first(1) = <<b>> /\ first(Len(p)) = p
  <2>1. first(1) = <<b>>
    <3>1. 1 \in 1..Len(p) /\ 1 \in 1..1 /\ \A i \in 1..1 : i = 1
      BY <1>1
    <3>2. <<b>> \in Seq(Cell) /\ Len(<<b>>) = 1 /\ <<b>>[1] = b
      BY <1>1
    <3>3. first(1) \in Seq(Cell) /\ Len(first(1)) = 1 /\ first(1)[1] = b
      BY <1>1, <1>2, <3>1, Zenon
    <3> HIDE DEF first
    <3> QED BY <3>1, <3>2, <3>3, SeqEqual, Zenon
  <2> QED BY <1>1, <2>1, SubSeqFull, Zenon
<1>4. \A k \in 1..Len(p) - 1 : Turn(nx, first(k)) = first(k + 1)
  <2> TAKE k \in 1..Len(p) - 1
  <2>1. first(k)[Len(first(k))] = p[k] /\ nx[p[k]] = p[k + 1] /\ p[k + 1] \in Cell
    BY <1>1, <1>2
  <2>2. p[k + 1] # NULL
    BY <2>1, IndexAssumption, Zenon DEF Cell
  <2>3. Append(first(k), p[k + 1]) = first(k + 1)
    BY <1>1, <1>2
  <2> QED BY <2>1, <2>2, <2>3, Zenon DEF Turn
<1>5. Turn(nx, p) = p
  BY <1>1, Zenon DEF Turn
<1>6. /\ \A n \in 0..MaxWalk : n < Len(p) => v[n] = first(n + 1)
      /\ \A n \in 0..MaxWalk : ~(n < Len(p)) => v[n] = p
  BY Zenon
<1> HIDE DEF first, v
<1>7. v[0] = <<b>> /\ \A n \in 1..MaxWalk : v[n] = Turn(nx, v[n - 1])
  <2>1. v[0] = <<b>>
    BY <1>1, <1>3, <1>6
  <2> SUFFICES ASSUME NEW n \in 1..MaxWalk PROVE v[n] = Turn(nx, v[n - 1])
    BY <2>1, Zenon
  <2>2. n \in 0..MaxWalk /\ n - 1 \in 0..MaxWalk /\ (n - 1) + 1 = n
    BY <1>1
  <2>3. CASE n < Len(p)
    <3>1. n - 1 < Len(p) /\ n \in 1..Len(p) - 1
      BY <2>3, <1>1
    <3> QED BY <2>2, <2>3, <3>1, <1>4, <1>6, Zenon
  <2>4. CASE n = Len(p)
    <3>1. n - 1 < Len(p) /\ ~(n < Len(p))
      BY <2>4, <1>1
    <3> QED BY <2>2, <2>4, <3>1, <1>3, <1>5, <1>6, Zenon
  <2>5. CASE n > Len(p)
    <3>1. ~(n - 1 < Len(p)) /\ ~(n < Len(p))
      BY <2>5, <1>1
    <3> QED BY <2>2, <3>1, <1>5, <1>6, Zenon
  <2> QED BY <2>3, <2>4, <2>5, <1>1
<1>8. Loop(v)
  <2>1. v = [n \in 0..MaxWalk |-> v[n]]
    BY Zenon DEF v
  <2>2. \A n \in 0..MaxWalk : n = 0 \/ n \in 1..MaxWalk
    BY <1>1
  <2>3. \A n \in 0..MaxWalk : v[n] = IF n = 0 THEN <<b>> ELSE Turn(nx, v[n - 1])
    BY <2>2, <1>7, Zenon
  <2> QED BY <2>1, <2>3, Zenon
<1>9. PICK w : Loop(w) /\ WalkOf(nx, b) = w[MaxWalk]
  <2>1. WalkOf(nx, b) = (CHOOSE w : Loop(w))[MaxWalk]
    BY Zenon DEF WalkOf, Turn, MaxWalk
  <2> HIDE DEF Loop
  <2> QED BY <2>1, <1>8, Zenon
<1>10. w[0] = <<b>> /\ \A n \in 1..MaxWalk : w[n] = Turn(nx, w[n - 1])
  BY <1>9, <1>1
<1>11. \A n \in 0..MaxWalk : w[n] = v[n]
  <2> DEFINE I == {n \in 0..MaxWalk : w[n] # v[n]}
  <2> SUFFICES ASSUME I # {} PROVE FALSE
    BY Zenon
  <2>0. I \in SUBSET Nat
    BY <1>1
  <2>1. PICK i \in I : \A j \in I : i <= j
    BY LeastNumber, <2>0, Zenon
  <2>2. i # 0
    BY <2>1, <1>7, <1>10, Zenon
  <2>3. i \in 1..MaxWalk /\ i - 1 \in 0..MaxWalk /\ ~(i <= i - 1)
    BY <2>1, <2>2, <1>1
  <2>4. w[i - 1] = v[i - 1]
    BY <2>1, <2>3, Zenon
  <2> QED BY <2>1, <2>3, <2>4, <1>7, <1>10, Zenon
<1>12. v[MaxWalk] = p
  <2>1. MaxWalk \in 0..MaxWalk /\ (MaxWalk < Len(p) => MaxWalk + 1 = Len(p))
    BY <1>1
  <2> QED BY <2>1, <1>3, <1>6, Zenon
<1>13. MaxWalk \in 0..MaxWalk
  BY <1>1
<1> QED BY <1>9, <1>11, <1>12, <1>13, Zenon
-----------------------------------------------------------------------------
(* Lists that grow and shrink *)

(* p without its cell number n. *)
Cut(p, n) == [m \in 1..Len(p) - 1 |-> IF m < n THEN p[m] ELSE p[m + 1]]

(* No cell is in the list twice. *)
NoRepeats(p) == \A m, n \in 1..Len(p) : p[m] = p[n] => m = n

(* The cells of a list without its cell number n. *)
LEMMA CutCells ==
    ASSUME NEW p \in Seq(Cell), NEW n \in 2..Len(p)
    PROVE  /\ Cut(p, n) \in Seq(Cell) /\ Len(Cut(p, n)) = Len(p) - 1
           /\ \A m \in 1..Len(p) - 1 : Cut(p, n)[m] = IF m < n THEN p[m] ELSE p[m + 1]
  BY DEF Cut

(* A pointer that is not in a list can change. *)
LEMMA ListElsewhere ==
    ASSUME NEW nx, NEW ny, NEW p, NEW b, IsList(nx, p, b), \A n \in 1..Len(p) : ny[p[n]] = nx[p[n]]
    PROVE  IsList(ny, p, b)
<1>1. p \in Seq(Cell) /\ Len(p) \in 1..(MaxWalk + 1) /\ p[1] = b /\ nx[p[Len(p)]] = NULL
      /\ \A n \in 1..Len(p) - 1 : nx[p[n]] = p[n + 1]
  BY Zenon DEF IsList
<1>2. Len(p) \in 1..Len(p) /\ \A n \in 1..Len(p) - 1 : n \in 1..Len(p)
  BY <1>1, MaxWalkNat
<1> QED BY <1>1, <1>2, Zenon DEF IsList

(* RemoveHead and RemoveInner: the pointer to cell n becomes the one of    *)
(* cell n.                                                                 *)
LEMMA ListCut ==
    ASSUME NEW nx \in [Cell -> Node \cup {NULL}], NEW p, NEW b, IsList(nx, p, b), NoRepeats(p),
           NEW n \in 2..Len(p)
    PROVE  IsList([nx EXCEPT ![p[n - 1]] = nx[p[n]]], Cut(p, n), b)
<1> DEFINE ny == [nx EXCEPT ![p[n - 1]] = nx[p[n]]]
           q == Cut(p, n)
<1>1. /\ p \in Seq(Cell) /\ Len(p) \in 1..(MaxWalk + 1) /\ p[1] = b /\ nx[p[Len(p)]] = NULL
      /\ \A m \in 1..Len(p) - 1 : nx[p[m]] = p[m + 1]
      /\ \A m \in 1..Len(p) : p[m] \in Cell
      /\ MaxWalk \in Nat
  BY MaxWalkNat, ElementOfSeq, Zenon DEF IsList
<1>2. /\ q \in Seq(Cell) /\ Len(q) = Len(p) - 1
      /\ \A m \in 1..Len(p) - 1 : q[m] = IF m < n THEN p[m] ELSE p[m + 1]
  BY <1>1, CutCells, Zenon
<1>3. /\ ny[p[n - 1]] = nx[p[n]]
      /\ \A m \in 1..Len(p) : m # n - 1 => ny[p[m]] = nx[p[m]]
  <2>1. n - 1 \in 1..Len(p)
    BY <1>1
  <2> QED BY <2>1, <1>1, Zenon DEF NoRepeats
<1> HIDE DEF ny, q
<1>4. q[1] = b /\ Len(q) \in 1..(MaxWalk + 1)
  BY <1>1, <1>2
<1>5. ny[q[Len(q)]] = NULL
  <2>1. CASE n = Len(p)
    <3>1. Len(q) \in 1..Len(p) - 1 /\ Len(q) = n - 1 /\ n - 1 < n
      BY <2>1, <1>1, <1>2
    <3>2. q[Len(q)] = p[n - 1]
      BY <3>1, <1>2, Zenon
    <3> QED BY <2>1, <3>2, <1>1, <1>3, Zenon
  <2>2. CASE n # Len(p)
    <3>1. /\ Len(q) \in 1..Len(p) - 1 /\ ~(Len(q) < n) /\ Len(q) + 1 = Len(p)
          /\ Len(p) \in 1..Len(p) /\ Len(p) # n - 1
      BY <2>2, <1>1, <1>2
    <3>2. q[Len(q)] = p[Len(p)]
      BY <3>1, <1>2, Zenon
    <3>3. ny[p[Len(p)]] = nx[p[Len(p)]]
      BY <3>1, <1>3, Zenon
    <3> QED BY <3>2, <3>3, <1>1, Zenon
  <2> QED BY <2>1, <2>2, Zenon
<1>6. \A m \in 1..Len(q) - 1 : ny[q[m]] = q[m + 1]
  <2> SUFFICES ASSUME NEW m \in 1..Len(q) - 1 PROVE ny[q[m]] = q[m + 1]
    BY Zenon
  <2>1. /\ m \in 1..Len(p) - 1 /\ m + 1 \in 1..Len(p) - 1
        /\ m \in 1..Len(p) /\ m + 1 \in 1..Len(p)
    BY <1>1, <1>2
  <2>2. CASE m < n - 1
    <3>1. m < n /\ m + 1 < n /\ m # n - 1
      BY <2>1, <2>2
    <3> QED BY <2>1, <3>1, <1>1, <1>2, <1>3, Zenon
  <2>3. CASE m = n - 1
    <3>1. m < n /\ ~(m + 1 < n) /\ m + 1 = n /\ n \in 1..Len(p) - 1
      BY <2>1, <2>3
    <3>2. q[m] = p[n - 1] /\ q[m + 1] = p[n + 1]
      BY <2>1, <2>3, <3>1, <1>2, Zenon
    <3> QED BY <3>1, <3>2, <1>1, <1>3, Zenon
  <2>4. CASE m > n - 1
    <3>1. ~(m < n) /\ ~(m + 1 < n) /\ m + 1 # n - 1
      BY <2>1, <2>4
    <3> QED BY <2>1, <3>1, <1>1, <1>2, <1>3
  <2> QED BY <2>1, <2>2, <2>3, <2>4
<1> QED BY <1>2, <1>4, <1>5, <1>6, Zenon DEF IsList, ny, q

(* insert_item_idx: the last cell points to a new one. *)
LEMMA ListAppend ==
    ASSUME NEW nx \in [Cell -> Node \cup {NULL}], NEW p, NEW b, IsList(nx, p, b), NoRepeats(p),
           Len(p) <= MaxWalk, NEW c \in Node, \A m \in 1..Len(p) : p[m] # c
    PROVE  IsList([nx EXCEPT ![c] = NULL, ![p[Len(p)]] = c], Append(p, c), b)
<1> DEFINE ny == [nx EXCEPT ![c] = NULL, ![p[Len(p)]] = c]
           q == Append(p, c)
<1>1. /\ p \in Seq(Cell) /\ Len(p) \in 1..(MaxWalk + 1) /\ p[1] = b /\ nx[p[Len(p)]] = NULL
      /\ \A m \in 1..Len(p) - 1 : nx[p[m]] = p[m + 1]
      /\ \A m \in 1..Len(p) : p[m] \in Cell
      /\ MaxWalk \in Nat /\ c \in Cell
  BY MaxWalkNat, ElementOfSeq, Zenon DEF IsList, Cell
<1>2. /\ q \in Seq(Cell) /\ Len(q) = Len(p) + 1 /\ q[Len(p) + 1] = c
      /\ \A m \in 1..Len(p) : q[m] = p[m]
  BY <1>1
<1>3. Len(p) \in 1..Len(p) /\ \A m \in 1..Len(p) - 1 : m \in 1..Len(p) /\ m + 1 \in 1..Len(p) /\ m # Len(p)
  BY <1>1
<1>4. ny[c] = NULL /\ ny[p[Len(p)]] = c
  BY <1>1, <1>3, Zenon
<1>5. \A m \in 1..Len(p) - 1 : ny[p[m]] = nx[p[m]]
  BY <1>1, <1>3, Zenon DEF NoRepeats
<1> HIDE DEF ny, q
<1>6. q[1] = b /\ Len(q) \in 1..(MaxWalk + 1)
  BY <1>1, <1>2
<1>7. \A m \in 1..Len(q) - 1 : ny[q[m]] = q[m + 1]
  <2> SUFFICES ASSUME NEW m \in 1..Len(q) - 1 PROVE ny[q[m]] = q[m + 1]
    BY Zenon
  <2>1. m \in 1..Len(p) - 1 \/ m = Len(p)
    BY <1>1, <1>2
  <2>2. CASE m \in 1..Len(p) - 1
    BY <2>2, <1>1, <1>2, <1>3, <1>5, Zenon
  <2>3. CASE m = Len(p)
    BY <2>3, <1>2, <1>3, <1>4, Zenon
  <2> QED BY <2>1, <2>2, <2>3, Zenon
<1>8. ny[q[Len(q)]] = NULL
  BY <1>2, <1>4, Zenon
<1>9. IsList(ny, q, b)
  BY <1>2, <1>6, <1>7, <1>8, Zenon DEF IsList
<1> QED BY <1>9, Zenon DEF ny, q

(* A list does not outgrow the heap. *)
LEMMA ShortList ==
    ASSUME NEW nx \in [Cell -> Node \cup {NULL}], NEW p, NEW b, IsList(nx, p, b), NoRepeats(p),
           NEW c \in Node, \A m \in 1..Len(p) : p[m] # c
    PROVE  Len(p) <= MaxWalk
<1> DEFINE f == [m \in 1..Len(p) |-> IF m = Len(p) THEN c ELSE p[m + 1]]
<1>1. /\ Len(p) \in Nat
      /\ \A m \in 1..Len(p) - 1 : nx[p[m]] = p[m + 1]
      /\ \A m \in 1..Len(p) : p[m] \in Cell
  BY MaxWalkNat, ElementOfSeq DEF IsList
<1>2. \A m \in 1..Len(p) : m # Len(p) => m \in 1..Len(p) - 1 /\ m + 1 \in 1..Len(p)
  BY <1>1
<1>3. \A m \in 1..Len(p) : m # Len(p) => p[m + 1] \in Node
  <2> SUFFICES ASSUME NEW m \in 1..Len(p), m # Len(p) PROVE p[m + 1] \in Node
    BY Zenon
  <2>1. p[m + 1] = nx[p[m]] /\ p[m] \in Cell /\ p[m + 1] \in Cell
    BY <1>1, <1>2, Zenon
  <2> QED BY <2>1, IndexAssumption, Zenon DEF Cell
<1>4. f \in [1..Len(p) -> Node]
  BY <1>3, Zenon
<1>5. \A k, m \in 1..Len(p) : f[k] = f[m] => k = m
  <2> SUFFICES ASSUME NEW k \in 1..Len(p), NEW m \in 1..Len(p), f[k] = f[m] PROVE k = m
    BY Zenon
  <2>1. CASE k = Len(p) \/ m = Len(p)
    BY <2>1, <1>2, Zenon
  <2>2. CASE k # Len(p) /\ m # Len(p)
    <3>1. k + 1 = m + 1
      BY <2>2, <1>2, Zenon DEF NoRepeats
    <3> QED BY <3>1, <1>1
  <2> QED BY <2>1, <2>2, Zenon
<1>6. f \in Injection(1..Len(p), Node)
  BY <1>4, <1>5, Zenon DEF Injection, IsInjective
<1>7. Cardinality(1..Len(p)) <= Cardinality(Node)
  <2> HIDE DEF f
  <2> QED BY <1>6, FS_Injection, IndexAssumption, Zenon
<1>8. Cardinality(1..Len(p)) = Len(p)
  <2>1. 1 \in Int /\ Len(p) \in Int
    BY <1>1
  <2>2. Cardinality(1..Len(p)) = IF 1 > Len(p) THEN 0 ELSE Len(p) - 1 + 1
    BY <2>1, FS_Interval, Zenon
  <2> QED BY <2>2, <1>1
<1> QED BY <1>7, <1>8, Zenon DEF MaxWalk

-----------------------------------------------------------------------------
(* The lists of all buckets *)

(* What Lists says of single places. *)
LEMMA ListsFacts ==
    ASSUME NEW W, NEW nx \in [Cell -> Node \cup {NULL}], NEW al \in SUBSET Node, Lists(W, nx, al)
    PROVE  /\ \A b \in Bucket : NoRepeats(W[b]) /\ W[b] \in Seq(Cell) /\ Len(W[b]) \in Nat \ {0} /\ W[b][1] = b
           /\ \A b \in Bucket : \A n \in 1..Len(W[b]) : W[b][n] \in Cell
           /\ \A b \in Bucket : \A n \in 2..Len(W[b]) : W[b][n] \in al /\ W[b][n] \notin Bucket
<1>1. \A b \in Bucket : NoRepeats(W[b])
  BY Zenon DEF Lists, NoRepeats
<1>2. \A b \in Bucket : W[b] \in Seq(Cell) /\ Len(W[b]) \in 1..(MaxWalk + 1) /\ W[b][1] = b
                        /\ \A n \in 1..Len(W[b]) - 1 : nx[W[b][n]] = W[b][n + 1]
  BY Zenon DEF Lists, IsList
<1>3. \A b \in Bucket : Len(W[b]) \in Nat \ {0}
  BY <1>2, MaxWalkNat
<1>4. \A b \in Bucket : \A n \in 1..Len(W[b]) : W[b][n] \in Cell
  BY <1>2, ElementOfSeq, Zenon
<1>5. \A b \in Bucket : \A n \in 2..Len(W[b]) : W[b][n] \in Node
  <2> SUFFICES ASSUME NEW b \in Bucket, NEW n \in 2..Len(W[b]) PROVE W[b][n] \in Node
    BY Zenon
  <2>1. n - 1 \in 1..Len(W[b]) - 1 /\ n - 1 \in 1..Len(W[b]) /\ (n - 1) + 1 = n /\ n \in 1..Len(W[b])
    BY <1>3
  <2>2. W[b][n] = nx[W[b][n - 1]] /\ W[b][n - 1] \in Cell /\ W[b][n] \in Cell
    BY <2>1, <1>2, <1>4
  <2> QED BY <2>2, IndexAssumption, Zenon DEF Cell
<1>6. \A b \in Bucket : \A n \in 2..Len(W[b]) : n \in 1..Len(W[b])
  BY <1>3
<1>7. \A b \in Bucket : \A n \in 2..Len(W[b]) : W[b][n] \in al /\ W[b][n] \notin Bucket
  BY <1>5, <1>6, IndexAssumption, Zenon DEF Lists
<1> QED BY <1>1, <1>2, <1>3, <1>4, <1>7, Zenon

(* One cell that is not a bucket is taken out of a list. *)
LEMMA ListsCut ==
    ASSUME NEW W, NEW nx \in [Cell -> Node \cup {NULL}], NEW al \in SUBSET Node, Lists(W, nx, al),
           NEW b \in Bucket, NEW n \in 2..Len(W[b]),
           NEW V, V[b] = Cut(W[b], n), \A a \in Bucket : a # b => V[a] = W[a]
    PROVE  Lists(V, [nx EXCEPT ![W[b][n - 1]] = nx[W[b][n]]], al \ {W[b][n]})
<1> DEFINE ny == [nx EXCEPT ![W[b][n - 1]] = nx[W[b][n]]]
           out == W[b][n]
           Place(a, m) == IF a = b /\ ~(m < n) THEN m + 1 ELSE m
<1>1. /\ \A a \in Bucket : NoRepeats(W[a]) /\ W[a] \in Seq(Cell) /\ Len(W[a]) \in Nat \ {0} /\ W[a][1] = a
      /\ \A a \in Bucket : \A m \in 1..Len(W[a]) : W[a][m] \in Cell
      /\ out \in al /\ out \notin Bucket
  BY ListsFacts, Zenon
<1>2. \A a \in Bucket : IsList(nx, W[a], a)
  BY Zenon DEF Lists
<1>3. \A a, d \in Bucket : \A m \in 1..Len(W[a]), k \in 1..Len(W[d]) : W[a][m] = W[d][k] => a = d /\ m = k
  BY Zenon DEF Lists
<1>4. n - 1 \in 1..Len(W[b]) /\ n \in 1..Len(W[b])
  BY <1>1
<1>5. Len(V[b]) = Len(W[b]) - 1 /\ \A m \in 1..Len(W[b]) - 1 : V[b][m] = IF m < n THEN W[b][m] ELSE W[b][m + 1]
  <2>1. W[b] \in Seq(Cell)
    BY <1>1, Zenon
  <2>2. /\ Len(Cut(W[b], n)) = Len(W[b]) - 1
        /\ \A m \in 1..Len(W[b]) - 1 : Cut(W[b], n)[m] = IF m < n THEN W[b][m] ELSE W[b][m + 1]
    BY <2>1, CutCells, Zenon
  <2> QED BY <2>2, Zenon
<1>6. \A a \in Bucket : IsList(ny, V[a], a)
  <2> SUFFICES ASSUME NEW a \in Bucket PROVE IsList(ny, V[a], a)
    BY Zenon
  <2>1. CASE a = b
    <3>1. IsList(nx, W[b], b) /\ NoRepeats(W[b])
      BY <1>1, <1>2, Zenon
    <3>2. IsList(ny, Cut(W[b], n), b)
      BY <3>1, ListCut, Zenon
    <3> HIDE DEF ny
    <3> QED BY <2>1, <3>2, Zenon
  <2>2. CASE a # b
    <3>1. \A m \in 1..Len(W[a]) : ny[W[a][m]] = nx[W[a][m]]
      BY <2>2, <1>1, <1>3, <1>4, ZenonT(60)
    <3> HIDE DEF ny
    <3> QED BY <2>2, <3>1, <1>2, ListElsewhere, Zenon
  <2> QED BY <2>1, <2>2, Zenon
<1>7. ASSUME NEW a \in Bucket, NEW m \in 1..Len(V[a])
      PROVE  Place(a, m) \in 1..Len(W[a]) /\ V[a][m] = W[a][Place(a, m)] /\ (a = b => Place(a, m) # n)
  <2>1. CASE a = b
    <3>1. m \in 1..Len(W[b]) - 1 /\ (m < n => m \in 1..Len(W[b]) /\ m # n)
          /\ (~(m < n) => m + 1 \in 1..Len(W[b]) /\ m + 1 # n)
      BY <2>1, <1>1, <1>5
    <3> QED BY <2>1, <3>1, <1>5, Zenon
  <2>2. CASE a # b
    BY <2>2, Zenon
  <2> QED BY <2>1, <2>2, Zenon
<1>8. ASSUME NEW a \in Bucket, NEW m \in 1..Len(V[a]), NEW k \in 1..Len(V[a]), Place(a, m) = Place(a, k)
      PROVE  m = k
  BY <1>8, <1>1
<1>9. \A a, d \in Bucket : \A m \in 1..Len(V[a]), k \in 1..Len(V[d]) : V[a][m] = V[d][k] => a = d /\ m = k
  <2> SUFFICES ASSUME NEW a \in Bucket, NEW d \in Bucket, NEW m \in 1..Len(V[a]), NEW k \in 1..Len(V[d]),
                      V[a][m] = V[d][k]
               PROVE  a = d /\ m = k
    BY Zenon
  <2> HIDE DEF Place
  <2>1. /\ Place(a, m) \in 1..Len(W[a]) /\ Place(d, k) \in 1..Len(W[d])
        /\ W[a][Place(a, m)] = W[d][Place(d, k)]
    BY <1>7, Zenon
  <2>2. a = d /\ Place(a, m) = Place(d, k)
    BY <2>1, <1>3
  <2> QED BY <2>2, <1>8, Zenon
<1>10. \A a \in Bucket : \A m \in 1..Len(V[a]) : V[a][m] \in Bucket \cup (al \ {out})
  <2> SUFFICES ASSUME NEW a \in Bucket, NEW m \in 1..Len(V[a]) PROVE V[a][m] \in Bucket \cup (al \ {out})
    BY Zenon
  <2> HIDE DEF Place
  <2>0. Place(a, m) \in 1..Len(W[a]) /\ V[a][m] = W[a][Place(a, m)] /\ (a = b => Place(a, m) # n)
    BY <1>7, Zenon
  <2>1. W[a][Place(a, m)] \in Bucket \cup al
    BY <2>0, Zenon DEF Lists
  <2>2. W[a][Place(a, m)] # out
    BY <2>0, <1>3, <1>4
  <2> QED BY <2>0, <2>1, <2>2, Zenon
<1>11. \A c \in Bucket \cup (al \ {out}) : \E a \in Bucket : \E m \in 1..Len(V[a]) : V[a][m] = c
  <2> SUFFICES ASSUME NEW c \in Bucket \cup (al \ {out})
               PROVE  \E a \in Bucket : \E m \in 1..Len(V[a]) : V[a][m] = c
    BY Zenon
  <2>1. PICK a \in Bucket : \E k \in 1..Len(W[a]) : W[a][k] = c
    BY Zenon DEF Lists
  <2>2. PICK k \in 1..Len(W[a]) : W[a][k] = c
    BY <2>1, Zenon
  <2>3. c # out
    BY <1>1, Zenon
  <2>4. CASE a # b
    BY <2>2, <2>4, Zenon
  <2>5. CASE a = b
    <3>1. k # n
      BY <2>2, <2>3, <2>5, Zenon
    <3>2. \/ k \in 1..Len(W[b]) - 1 /\ k < n
          \/ k - 1 \in 1..Len(W[b]) - 1 /\ ~(k - 1 < n) /\ (k - 1) + 1 = k
      BY <2>5, <3>1, <1>1
    <3> QED BY <2>2, <2>5, <3>2, <1>5, Zenon
  <2> QED BY <2>4, <2>5, Zenon
<1> HIDE DEF ny
<1> QED BY <1>6, <1>9, <1>10, <1>11, Zenon DEF Lists, ny

(* A new cell is put at the end of a list. *)
LEMMA ListsAppend ==
    ASSUME NEW W, NEW nx \in [Cell -> Node \cup {NULL}], NEW al \in SUBSET Node, Lists(W, nx, al),
           NEW b \in Bucket, NEW c \in Node \ al,
           NEW V, V[b] = Append(W[b], c), \A a \in Bucket : a # b => V[a] = W[a]
    PROVE  Lists(V, [nx EXCEPT ![c] = NULL, ![W[b][Len(W[b])]] = c], al \cup {c})
<1> DEFINE ny == [nx EXCEPT ![c] = NULL, ![W[b][Len(W[b])]] = c]
<1>1. /\ \A a \in Bucket : NoRepeats(W[a]) /\ W[a] \in Seq(Cell) /\ Len(W[a]) \in Nat \ {0} /\ W[a][1] = a
      /\ \A a \in Bucket : \A m \in 1..Len(W[a]) : W[a][m] \in Cell
  BY ListsFacts, Zenon
<1>2. \A a \in Bucket : IsList(nx, W[a], a)
  BY Zenon DEF Lists
<1>3. \A a, d \in Bucket : \A m \in 1..Len(W[a]), k \in 1..Len(W[d]) : W[a][m] = W[d][k] => a = d /\ m = k
  BY Zenon DEF Lists
<1>4. c \notin Bucket /\ c \in Cell
  BY IndexAssumption, Zenon DEF Cell
<1>5. \A a \in Bucket : \A m \in 1..Len(W[a]) : W[a][m] \in Bucket \cup al /\ W[a][m] # c
  <2>1. \A a \in Bucket : \A m \in 1..Len(W[a]) : W[a][m] \in Bucket \cup al
    BY Zenon DEF Lists
  <2> QED BY <2>1, <1>4, Zenon
<1>6. Len(V[b]) = Len(W[b]) + 1 /\ V[b][Len(W[b]) + 1] = c /\ \A m \in 1..Len(W[b]) : V[b][m] = W[b][m]
  BY <1>1, <1>4
<1>7. \A a \in Bucket : IsList(ny, V[a], a)
  <2> SUFFICES ASSUME NEW a \in Bucket PROVE IsList(ny, V[a], a)
    BY Zenon
  <2>1. CASE a = b
    <3>1. IsList(nx, W[b], b) /\ NoRepeats(W[b]) /\ \A m \in 1..Len(W[b]) : W[b][m] # c
      BY <1>1, <1>2, <1>5, Zenon
    <3>2. Len(W[b]) <= MaxWalk
      BY <3>1, ShortList, Zenon
    <3>3. IsList(ny, Append(W[b], c), b)
      BY <3>1, <3>2, ListAppend, Zenon
    <3> HIDE DEF ny
    <3> QED BY <2>1, <3>3, Zenon
  <2>2. CASE a # b
    <3>1. Len(W[b]) \in 1..Len(W[b])
      BY <1>1
    <3>2. \A m \in 1..Len(W[a]) : W[a][m] # c /\ W[a][m] # W[b][Len(W[b])] /\ W[a][m] \in Cell
      BY <2>2, <3>1, <1>1, <1>3, <1>5, Zenon
    <3>3. \A m \in 1..Len(W[a]) : ny[W[a][m]] = nx[W[a][m]]
      BY <3>2, Zenon
    <3> HIDE DEF ny
    <3> QED BY <2>2, <3>3, <1>2, ListElsewhere, Zenon
  <2> QED BY <2>1, <2>2, Zenon
<1>8. ASSUME NEW a \in Bucket, NEW m \in 1..Len(V[a])
      PROVE  \/ m \in 1..Len(W[a]) /\ V[a][m] = W[a][m]
             \/ a = b /\ m = Len(W[b]) + 1 /\ V[a][m] = c
  <2>1. CASE a = b
    <3>1. m \in 1..Len(W[b]) \/ m = Len(W[b]) + 1
      BY <2>1, <1>1, <1>6
    <3> QED BY <2>1, <3>1, <1>6, Zenon
  <2>2. CASE a # b
    BY <2>2, Zenon
  <2> QED BY <2>1, <2>2, Zenon
<1>9. \A a, d \in Bucket : \A m \in 1..Len(V[a]), k \in 1..Len(V[d]) : V[a][m] = V[d][k] => a = d /\ m = k
  <2> SUFFICES ASSUME NEW a \in Bucket, NEW d \in Bucket, NEW m \in 1..Len(V[a]), NEW k \in 1..Len(V[d]),
                      V[a][m] = V[d][k]
               PROVE  a = d /\ m = k
    BY Zenon
  <2>1. \/ m \in 1..Len(W[a]) /\ V[a][m] = W[a][m]
        \/ a = b /\ m = Len(W[b]) + 1 /\ V[a][m] = c
    BY <1>8, Zenon
  <2>2. \/ k \in 1..Len(W[d]) /\ V[d][k] = W[d][k]
        \/ d = b /\ k = Len(W[b]) + 1 /\ V[d][k] = c
    BY <1>8, Zenon
  <2> QED BY <2>1, <2>2, <1>3, <1>5
<1>10. \A a \in Bucket : \A m \in 1..Len(V[a]) : V[a][m] \in Bucket \cup (al \cup {c})
  BY <1>5, <1>8, Zenon
<1>11. \A e \in Bucket \cup (al \cup {c}) : \E a \in Bucket : \E m \in 1..Len(V[a]) : V[a][m] = e
  <2> SUFFICES ASSUME NEW e \in Bucket \cup (al \cup {c})
               PROVE  \E a \in Bucket : \E m \in 1..Len(V[a]) : V[a][m] = e
    BY Zenon
  <2>0. Len(W[b]) + 1 \in 1..Len(V[b]) /\ \A k \in 1..Len(W[b]) : k \in 1..Len(V[b])
    BY <1>1, <1>6
  <2>1. CASE e = c
    BY <2>0, <2>1, <1>6, Zenon
  <2>2. CASE e # c
    <3>1. PICK a \in Bucket : \E k \in 1..Len(W[a]) : W[a][k] = e
      BY <2>2, Zenon DEF Lists
    <3>2. PICK k \in 1..Len(W[a]) : W[a][k] = e
      BY <3>1, Zenon
    <3>3. CASE a = b
      BY <3>2, <3>3, <2>0, <1>6, Zenon
    <3>4. CASE a # b
      BY <3>2, <3>4, Zenon
    <3> QED BY <3>3, <3>4, Zenon
  <2> QED BY <2>1, <2>2, Zenon
<1> HIDE DEF ny
<1>12. Lists(V, ny, al \cup {c})
  BY <1>7, <1>9, <1>10, <1>11, Zenon DEF Lists
<1> QED BY <1>12, Zenon DEF ny
-----------------------------------------------------------------------------
(* The items in the lists *)

(* What Items says, conjunct by conjunct. *)
LEMMA ItemsFacts ==
    ASSUME NEW k, NEW W, NEW it, NEW al, Items(k, W, it, al)
    PROVE  /\ \A a \in Bucket : \A m \in 1..Len(W[a]) : it[W[a][m]] = NULL => Len(W[a]) = 1
           /\ \A a \in Bucket : \A m \in 1..Len(W[a]) : it[W[a][m]] # NULL => k[TileOf[it[W[a][m]]]] = a
           /\ \A c, d \in Bucket \cup al :
                 it[c] # NULL /\ it[d] # NULL /\ TileOf[it[c]] = TileOf[it[d]] => c = d
  BY Zenon DEF Items

(* The same three facts establish Items. *)
LEMMA ItemsIf ==
    ASSUME NEW k, NEW W, NEW it, NEW al,
           \A a \in Bucket : \A m \in 1..Len(W[a]) : it[W[a][m]] = NULL => Len(W[a]) = 1,
           \A a \in Bucket : \A m \in 1..Len(W[a]) : it[W[a][m]] # NULL => k[TileOf[it[W[a][m]]]] = a,
           \A c, d \in Bucket \cup al :
                 it[c] # NULL /\ it[d] # NULL /\ TileOf[it[c]] = TileOf[it[d]] => c = d
    PROVE  Items(k, W, it, al)
  BY Zenon DEF Items

-----------------------------------------------------------------------------
(* The operations *)

(* The types, which IndexInv contains. *)
IndexTypes ==
    /\ key \in [Tile -> Bucket]
    /\ item \in [Cell -> Item \cup {NULL}]
    /\ next \in [Cell -> Node \cup {NULL}]
    /\ alive \in SUBSET Node

(* What IndexInv says, in terms of the lists. *)
LEMMA InvFacts ==
    ASSUME IndexInv
    PROVE  /\ IndexTypes
           /\ Lists(AllWalks, next, alive) /\ Items(key, AllWalks, item, alive)
           /\ \A b \in Bucket : AllWalks[b] = Walk(b)
<1>1. IndexTypes
  BY Zenon DEF IndexInv, IndexTypes
<1>2. \A b \in Bucket : AllWalks[b] = Walk(b)
  BY Zenon DEF AllWalks
<1> QED BY <1>1, <1>2, Zenon DEF IndexInv

(* The lists after a step are the walks after it. *)
LEMMA InvIf ==
    ASSUME NEW V, V = [b \in Bucket |-> V[b]], IndexTypes',
           Lists(V, next', alive'), Items(key', V, item', alive')
    PROVE  IndexInv'
<1>1. \A b \in Bucket : IsList(next', V[b], b)
  BY Zenon DEF Lists
<1>2. \A b \in Bucket : Walk(b)' = V[b]
  <2> SUFFICES ASSUME NEW b \in Bucket PROVE Walk(b)' = V[b]
    BY Zenon
  <2>1. WalkOf(next', b) = V[b]
    BY <1>1, WalkFollowsList, Zenon
  <2> QED BY <2>1, WalkIsWalkOf, Zenon
<1>3. AllWalks' = [b \in Bucket |-> Walk(b)']
  BY Zenon DEF AllWalks
<1>4. AllWalks' = V
  BY <1>2, <1>3, Zenon
<1>5. IndexTypes' /\ Lists(AllWalks', next', alive') /\ Items(key', AllWalks', item', alive')
  BY <1>4, Zenon
<1> QED BY <1>5, Zenon DEF IndexInv, IndexTypes

(* calcHashKey gives a bucket. *)
LEMMA HomeIsBucket == ASSUME IndexTypes, NEW i \in Item PROVE Home(i) \in Bucket
  BY IndexAssumption, Zenon DEF IndexTypes, Home

(* Hits and FirstHit in terms of the lists. *)
LEMMA HitFacts ==
    ASSUME IndexInv, NEW i \in Item, Hits(i) # {}
    PROVE  LET b == Home(i)  n == FirstHit(i) IN
           /\ n \in 1..Len(AllWalks[b])
           /\ item[AllWalks[b][n]] # NULL /\ TileOf[item[AllWalks[b][n]]] = TileOf[i]
           /\ lookup_item_idx(i) = item[AllWalks[b][n]]
           /\ AllWalks[b] = Walk(b)
<1> DEFINE b == Home(i)
<1>1. b \in Bucket /\ AllWalks[b] = Walk(b)
  BY InvFacts, HomeIsBucket, Zenon
<1>2. AllWalks[b] \in Seq(Cell)
  <2>1. IndexTypes /\ Lists(AllWalks, next, alive)
    BY InvFacts, Zenon
  <2> QED BY <2>1, <1>1, ListsFacts, Zenon DEF IndexTypes
<1>3. Hits(i) \in SUBSET Nat
  <2>1. Hits(i) \subseteq 1..Len(Walk(b))
    BY Zenon DEF Hits
  <2>2. 1..Len(AllWalks[b]) \subseteq Nat
    BY <1>2
  <2> QED BY <2>1, <2>2, <1>1, Zenon
<1>4. FirstHit(i) \in Hits(i)
  <2>1. \E n \in Hits(i) : \A m \in Hits(i) : n <= m
    BY <1>3, LeastNumber, Zenon
  <2> QED BY <2>1, Zenon DEF FirstHit
<1>5. /\ FirstHit(i) \in 1..Len(Walk(b))
      /\ SameTile(i, item[Walk(b)[FirstHit(i)]])
  BY <1>4, Zenon DEF Hits
<1>6. lookup_item_idx(i) = item[Walk(b)[FirstHit(i)]]
  BY Zenon DEF lookup_item_idx
<1> QED BY <1>1, <1>5, <1>6, Zenon DEF SameTile

(* When lookup_item_idx finds nothing, no cell in use has an item for the  *)
(* metatile: it would be in this bucket.                                   *)
LEMMA LookupMisses ==
    ASSUME IndexInv, NEW i \in Item, Hits(i) = {}
    PROVE  \A c \in Bucket \cup alive : item[c] # NULL => TileOf[item[c]] # TileOf[i]
<1> SUFFICES ASSUME NEW c \in Bucket \cup alive, item[c] # NULL, TileOf[item[c]] = TileOf[i] PROVE FALSE
  BY Zenon
<1>0. /\ Lists(AllWalks, next, alive) /\ Items(key, AllWalks, item, alive)
      /\ \A b \in Bucket : AllWalks[b] = Walk(b)
  BY InvFacts, Zenon
<1>1. PICK b \in Bucket : \E m \in 1..Len(AllWalks[b]) : AllWalks[b][m] = c
  BY <1>0, Zenon DEF Lists
<1>2. PICK m \in 1..Len(AllWalks[b]) : AllWalks[b][m] = c
  BY <1>1, Zenon
<1>3. key[TileOf[item[AllWalks[b][m]]]] = b
  <2>1. item[AllWalks[b][m]] # NULL
    BY <1>2, Zenon
  <2>2. \A a \in Bucket : \A n \in 1..Len(AllWalks[a]) :
           item[AllWalks[a][n]] # NULL => key[TileOf[item[AllWalks[a][n]]]] = a
    BY <1>0, Zenon DEF Items
  <2> QED BY <2>1, <2>2, Zenon
<1>4. Home(i) = b
  BY <1>2, <1>3, Zenon DEF Home
<1>5. m \in Hits(i)
  <2>1. Walk(Home(i)) = AllWalks[b]
    BY <1>0, <1>4, Zenon
  <2>2. m \in 1..Len(Walk(Home(i))) /\ Walk(Home(i))[m] = c
    BY <1>2, <2>1, Zenon
  <2>3. SameTile(i, item[Walk(Home(i))[m]])
    BY <2>2, Zenon DEF SameTile
  <2> QED BY <2>2, <2>3, Zenon DEF Hits
<1> QED BY <1>5, Zenon

(* insert_item_idx into an empty bucket. *)
LEMMA InsertFirst ==
    ASSUME IndexInv, NEW i \in Item, Hits(i) = {}, item[Home(i)] = NULL,
           item' = [item EXCEPT ![Home(i)] = i], next' = next, alive' = alive, key' = key
    PROVE  IndexInv'
<1> DEFINE b == Home(i)  W == AllWalks
<1>1. IndexTypes /\ Lists(W, next, alive) /\ Items(key, W, item, alive)
  BY InvFacts, Zenon
<1>2. b \in Bucket /\ b \in Cell /\ i # NULL
  BY <1>1, HomeIsBucket, IndexAssumption, Zenon DEF Cell
<1>3. IndexTypes'
  BY <1>1, <1>2, Zenon DEF IndexTypes
<1>4. /\ \A a \in Bucket : \A m \in 1..Len(W[a]) : W[a][m] = b => a = b
      /\ \A a \in Bucket : \A m \in 1..Len(W[a]) : W[a][m] \in Bucket \cup alive
  <2>1. 1 \in 1..Len(W[b]) /\ W[b][1] = b
    <3>1. Len(W[b]) \in Nat \ {0} /\ W[b][1] = b
      BY <1>1, <1>2, ListsFacts, Zenon DEF IndexTypes
    <3> QED BY <3>1
  <2> QED BY <2>1, <1>1, <1>2 DEF Lists
<1>5. \A c \in Bucket \cup alive : item[c] # NULL => TileOf[item[c]] # TileOf[i]
  BY LookupMisses, Zenon
<1>6. item'[b] = i /\ \A c \in Bucket \cup alive : c # b => item'[c] = item[c]
  BY <1>1, <1>2, Zenon DEF IndexTypes, Cell
<1>7. key[TileOf[i]] = b /\ item[b] = NULL
  BY Zenon DEF Home
<1> HIDE DEF b, W
<1>8. Items(key, W, item', alive)
  <2>1. /\ \A a \in Bucket : \A m \in 1..Len(W[a]) : item[W[a][m]] = NULL => Len(W[a]) = 1
        /\ \A a \in Bucket : \A m \in 1..Len(W[a]) : item[W[a][m]] # NULL => key[TileOf[item[W[a][m]]]] = a
        /\ \A c, d \in Bucket \cup alive :
               item[c] # NULL /\ item[d] # NULL /\ TileOf[item[c]] = TileOf[item[d]] => c = d
    BY <1>1, ItemsFacts
  <2>2. ASSUME NEW a \in Bucket, NEW m \in 1..Len(W[a])
        PROVE  /\ item'[W[a][m]] = NULL => Len(W[a]) = 1
               /\ item'[W[a][m]] # NULL => key[TileOf[item'[W[a][m]]]] = a
    <3>1. CASE W[a][m] = b
      BY <3>1, <1>2, <1>4, <1>6, <1>7, Zenon
    <3>2. CASE W[a][m] # b
      <4>1. item'[W[a][m]] = item[W[a][m]]
        BY <3>2, <1>4, <1>6, Zenon
      <4> QED BY <4>1, <2>1, Zenon
    <3> QED BY <3>1, <3>2, Zenon
  <2>3. ASSUME NEW c \in Bucket \cup alive, NEW d \in Bucket \cup alive, item'[c] # NULL, item'[d] # NULL,
               TileOf[item'[c]] = TileOf[item'[d]]
        PROVE  c = d
    <3>1. CASE c = b /\ d # b
      BY <3>1, <2>3, <1>5, <1>6, Zenon
    <3>2. CASE c # b /\ d = b
      BY <3>2, <2>3, <1>5, <1>6, Zenon
    <3>3. CASE c # b /\ d # b
      BY <3>3, <2>1, <2>3, <1>6, ZenonT(60)
    <3> QED BY <3>1, <3>2, <3>3, Zenon
  <2> QED BY <2>2, <2>3, ItemsIf, Zenon
<1>9. W = [a \in Bucket |-> W[a]]
  BY Zenon DEF AllWalks, W
<1> QED BY <1>1, <1>3, <1>8, <1>9, InvIf, Zenon

(* insert_item_idx into a bucket that has items: a new cell at its end. *)
LEMMA InsertLast ==
    ASSUME IndexInv, NEW i \in Item, Hits(i) = {}, item[Home(i)] # NULL, NEW e \in Node \ alive,
           item' = [item EXCEPT ![e] = i],
           next' = [next EXCEPT ![e] = NULL, ![AllWalks[Home(i)][Len(AllWalks[Home(i)])]] = e],
           alive' = alive \cup {e}, key' = key
    PROVE  IndexInv'
<1> DEFINE b == Home(i)  W == AllWalks
           V == [a \in Bucket |-> IF a = b THEN Append(W[b], e) ELSE W[a]]
<1>1. IndexTypes /\ Lists(W, next, alive) /\ Items(key, W, item, alive)
  BY InvFacts, Zenon
<1>2. b \in Bucket /\ e \in Cell /\ e \notin Bucket \cup alive /\ i # NULL
  BY <1>1, HomeIsBucket, IndexAssumption, Zenon DEF Cell
<1>3. Len(W[b]) \in Nat \ {0} /\ W[b][1] = b /\ W[b] \in Seq(Cell)
  BY <1>1, <1>2, ListsFacts, Zenon DEF IndexTypes
<1>4. IndexTypes'
  <2>1. Len(W[b]) \in 1..Len(W[b])
    BY <1>3
  <2>2. W[b][Len(W[b])] \in Cell
    BY <2>1, <1>3, ElementOfSeq, Zenon
  <2> QED BY <2>2, <1>1, <1>2, Zenon DEF IndexTypes
<1>5. \A c \in Bucket \cup alive : item[c] # NULL => TileOf[item[c]] # TileOf[i]
  BY LookupMisses, Zenon
<1>6. item'[e] = i /\ \A c \in Bucket \cup alive : item'[c] = item[c]
  BY <1>1, <1>2, Zenon DEF IndexTypes, Cell
<1>7. key[TileOf[i]] = b /\ item[b] # NULL
  BY Zenon DEF Home
<1>8. V[b] = Append(W[b], e) /\ V = [a \in Bucket |-> V[a]] /\ \A a \in Bucket : a # b => V[a] = W[a]
  BY <1>2, Zenon
<1>9. next' = [next EXCEPT ![e] = NULL, ![W[b][Len(W[b])]] = e]
  BY Zenon
<1> HIDE DEF b, W, V
<1>10. Lists(V, next', alive')
  <2>1. next \in [Cell -> Node \cup {NULL}] /\ alive \in SUBSET Node /\ Lists(W, next, alive)
    BY <1>1, Zenon DEF IndexTypes
  <2>2. Lists(V, [next EXCEPT ![e] = NULL, ![W[b][Len(W[b])]] = e], alive \cup {e})
    BY <2>1, <1>2, <1>8, ListsAppend, Zenon
  <2> QED BY <2>2, <1>9, Zenon
<1>11. /\ \A a \in Bucket : \A m \in 1..Len(W[a]) : item[W[a][m]] = NULL => Len(W[a]) = 1
       /\ \A a \in Bucket : \A m \in 1..Len(W[a]) : item[W[a][m]] # NULL => key[TileOf[item[W[a][m]]]] = a
       /\ \A c, d \in Bucket \cup alive :
              item[c] # NULL /\ item[d] # NULL /\ TileOf[item[c]] = TileOf[item[d]] => c = d
  BY <1>1, ItemsFacts
<1>12. ASSUME NEW a \in Bucket, NEW m \in 1..Len(V[a])
       PROVE  /\ item'[V[a][m]] = NULL => Len(V[a]) = 1
              /\ item'[V[a][m]] # NULL => key[TileOf[item'[V[a][m]]]] = a
  <2>1. CASE a = b /\ m = Len(W[b]) + 1
    <3>1. V[a][m] = e
      BY <2>1, <1>2, <1>3, <1>8
    <3> QED BY <2>1, <3>1, <1>2, <1>6, <1>7, Zenon
  <2>2. CASE a = b /\ m # Len(W[b]) + 1
    <3>1. m \in 1..Len(W[b]) /\ V[a][m] = W[b][m]
      BY <2>2, <1>2, <1>3, <1>8
    <3>2. item'[V[a][m]] = item[W[b][m]]
      <4>1. W[b][m] \in Bucket \cup alive
        BY <3>1, <1>1, <1>2, Zenon DEF Lists
      <4> QED BY <3>1, <4>1, <1>6, Zenon
    <3>3. item[W[b][m]] # NULL
      <4>1. Len(W[b]) = 1 => m = 1
        BY <3>1
      <4> QED BY <3>1, <4>1, <1>2, <1>3, <1>7, <1>11, Zenon
    <3>4. key[TileOf[item[W[b][m]]]] = b
      BY <3>1, <3>3, <1>2, <1>11, Zenon
    <3> QED BY <2>2, <3>2, <3>3, <3>4, Zenon
  <2>3. CASE a # b
    <3>1. V[a] = W[a]
      BY <2>3, <1>8, Zenon
    <3>2. W[a][m] \in Bucket \cup alive /\ m \in 1..Len(W[a])
      BY <3>1, <1>1, Zenon DEF Lists
    <3> QED BY <3>1, <3>2, <1>6, <1>11
  <2> QED BY <2>1, <2>2, <2>3, Zenon
<1>13. ASSUME NEW c \in Bucket \cup alive', NEW d \in Bucket \cup alive', item'[c] # NULL, item'[d] # NULL,
              TileOf[item'[c]] = TileOf[item'[d]]
       PROVE  c = d
  <2>1. CASE c = e /\ d # e
    BY <2>1, <1>13, <1>5, <1>6, Zenon
  <2>2. CASE c # e /\ d = e
    BY <2>2, <1>13, <1>5, <1>6, Zenon
  <2>3. CASE c # e /\ d # e
    <3>1. c \in Bucket \cup alive /\ d \in Bucket \cup alive
      BY <2>3, Zenon
    <3>2. item'[c] = item[c] /\ item'[d] = item[d]
      BY <3>1, <1>6, Zenon
    <3>3. item[c] # NULL /\ item[d] # NULL /\ TileOf[item[c]] = TileOf[item[d]]
      BY <3>2, <1>13, Zenon
    <3> QED BY <3>1, <3>3, <1>11, Zenon
  <2> QED BY <2>1, <2>2, <2>3, Zenon
<1>14. Items(key, V, item', alive')
  BY <1>12, <1>13 DEF Items
<1> QED BY <1>4, <1>8, <1>10, <1>14, InvIf, Zenon

(* RemoveHead without a successor: the bucket is empty. *)
LEMMA RemoveOnly ==
    ASSUME IndexInv, NEW b \in Bucket, next[b] = NULL,
           item' = [item EXCEPT ![b] = NULL], next' = next, alive' = alive, key' = key
    PROVE  IndexInv'
<1> DEFINE W == AllWalks
<1>1. IndexTypes /\ Lists(W, next, alive) /\ Items(key, W, item, alive)
  BY InvFacts, Zenon
<1> HIDE DEF W
<1>2. Len(W[b]) \in Nat \ {0} /\ W[b][1] = b
  BY <1>1, ListsFacts, Zenon DEF IndexTypes
<1>3. Len(W[b]) = 1
  <2>1. IsList(next, W[b], b)
    BY <1>1, Zenon DEF Lists
  <2>2. Len(W[b]) # 1 => 1 \in 1..Len(W[b]) - 1 /\ 1 + 1 \in 1..Len(W[b])
    <3>1. \A l \in Nat \ {0} : l # 1 => 1 \in 1..l - 1 /\ 1 + 1 \in 1..l
      OBVIOUS
    <3> QED BY <3>1, <1>2, Zenon
  <2>3. Len(W[b]) # 1 => W[b][1 + 1] = NULL /\ W[b][1 + 1] \in Cell
    BY <2>1, <2>2, <1>2, ElementOfSeq, Zenon DEF IsList
  <2> QED BY <2>3, IndexAssumption, Zenon DEF Cell
<1>4. IndexTypes'
  BY <1>1, Zenon DEF IndexTypes
<1>5. /\ \A a \in Bucket : \A m \in 1..Len(W[a]) : W[a][m] = b => a = b
      /\ \A a \in Bucket : \A m \in 1..Len(W[a]) : W[a][m] \in Bucket \cup alive
  <2>1. 1 \in 1..Len(W[b])
    BY <1>2
  <2> QED BY <2>1, <1>1, <1>2 DEF Lists
<1>6. item'[b] = NULL /\ \A c \in Bucket \cup alive : c # b => item'[c] = item[c]
  BY <1>1, Zenon DEF IndexTypes, Cell
<1>7. W = [a \in Bucket |-> W[a]]
  BY Zenon DEF AllWalks, W
<1>8. /\ \A a \in Bucket : \A m \in 1..Len(W[a]) : item[W[a][m]] = NULL => Len(W[a]) = 1
      /\ \A a \in Bucket : \A m \in 1..Len(W[a]) : item[W[a][m]] # NULL => key[TileOf[item[W[a][m]]]] = a
      /\ \A c, d \in Bucket \cup alive :
             item[c] # NULL /\ item[d] # NULL /\ TileOf[item[c]] = TileOf[item[d]] => c = d
  BY <1>1, ItemsFacts
<1>9. ASSUME NEW a \in Bucket, NEW m \in 1..Len(W[a])
      PROVE  /\ item'[W[a][m]] = NULL => Len(W[a]) = 1
             /\ item'[W[a][m]] # NULL => key[TileOf[item'[W[a][m]]]] = a
  <2>1. CASE W[a][m] = b
    BY <2>1, <1>3, <1>5, <1>6, Zenon
  <2>2. CASE W[a][m] # b
    <3>1. item'[W[a][m]] = item[W[a][m]]
      BY <2>2, <1>5, <1>6, Zenon
    <3> QED BY <3>1, <1>8, Zenon
  <2> QED BY <2>1, <2>2, Zenon
<1>10. ASSUME NEW c \in Bucket \cup alive, NEW d \in Bucket \cup alive, item'[c] # NULL, item'[d] # NULL,
              TileOf[item'[c]] = TileOf[item'[d]]
       PROVE  c = d
  <2>1. c # b /\ d # b
    BY <1>6, <1>10, Zenon
  <2>2. item'[c] = item[c] /\ item'[d] = item[d]
    BY <2>1, <1>6, Zenon
  <2> QED BY <2>2, <1>8, <1>10, Zenon
<1>11. Items(key, W, item', alive)
  BY <1>9, <1>10, Zenon DEF Items
<1> QED BY <1>1, <1>4, <1>7, <1>11, InvIf, Zenon

(* RemoveHead with a successor, and RemoveInner: cell number n of the list *)
(* leaves it; the others keep their items, except that the head takes over *)
(* the one of its successor.                                               *)
LEMMA RemoveCell ==
    ASSUME IndexInv, NEW b \in Bucket, NEW n \in 2..Len(AllWalks[b]),
           next' = [next EXCEPT ![AllWalks[b][n - 1]] = next[AllWalks[b][n]]],
           alive' = alive \ {AllWalks[b][n]}, key' = key,
           item' \in [Cell -> Item \cup {NULL}],
           \A c \in Bucket \cup alive' : c # b => item'[c] = item[c],
           item'[b] = item[b] \/ item'[b] = item[AllWalks[b][n]]
    PROVE  IndexInv'
<1> DEFINE W == AllWalks  e == W[b][n]
           V == [a \in Bucket |-> IF a = b THEN Cut(W[b], n) ELSE W[a]]
<1>1. IndexTypes /\ Lists(W, next, alive) /\ Items(key, W, item, alive)
  BY InvFacts, Zenon
<1>2. /\ Len(W[b]) \in Nat \ {0} /\ W[b] \in Seq(Cell)
      /\ e \in alive /\ e \notin Bucket
  BY <1>1, ListsFacts, Zenon DEF IndexTypes
<1>3. n \in 1..Len(W[b]) /\ n - 1 \in 1..Len(W[b]) /\ Len(W[b]) # 1
  BY <1>2
<1>4. IndexTypes'
  <2>1. next' \in [Cell -> Node \cup {NULL}]
    <3>1. W[b][n] \in Cell
      BY <1>2, <1>3, ElementOfSeq, Zenon
    <3> QED BY <3>1, <1>1, Zenon DEF IndexTypes
  <2> QED BY <2>1, <1>1, Zenon DEF IndexTypes
<1>5. V[b] = Cut(W[b], n) /\ V = [a \in Bucket |-> V[a]] /\ \A a \in Bucket : a # b => V[a] = W[a]
  BY Zenon
<1>6. /\ \A c \in Bucket \cup alive' : c # b => item'[c] = item[c]
      /\ item'[b] = item[b] \/ item'[b] = item[e]
      /\ alive' = alive \ {e}
      /\ next' = [next EXCEPT ![W[b][n - 1]] = next[W[b][n]]]
  BY Zenon
<1> HIDE DEF W, V
<1>7. Lists(V, next', alive')
  <2>1. next \in [Cell -> Node \cup {NULL}] /\ alive \in SUBSET Node /\ Lists(W, next, alive)
    BY <1>1, Zenon DEF IndexTypes
  <2>2. n \in 2..Len(W[b])
    BY <1>2, Zenon DEF W
  <2>3. Lists(V, [next EXCEPT ![W[b][n - 1]] = next[W[b][n]]], alive \ {W[b][n]})
    BY <2>1, <2>2, <1>5, ListsCut, ZenonT(60)
  <2> QED BY <2>3, <1>6, Zenon
<1>8. /\ \A a \in Bucket : \A m \in 1..Len(W[a]) : item[W[a][m]] = NULL => Len(W[a]) = 1
      /\ \A a \in Bucket : \A m \in 1..Len(W[a]) : item[W[a][m]] # NULL => key[TileOf[item[W[a][m]]]] = a
      /\ \A c, d \in Bucket \cup alive :
             item[c] # NULL /\ item[d] # NULL /\ TileOf[item[c]] = TileOf[item[d]] => c = d
  BY <1>1, ItemsFacts
<1>9. ASSUME NEW a \in Bucket, NEW m \in 1..Len(V[a])
      PROVE  /\ item'[V[a][m]] = NULL => Len(V[a]) = 1
             /\ item'[V[a][m]] # NULL => key[TileOf[item'[V[a][m]]]] = a
  <2>1. V[a][m] \in Bucket \cup alive'
    BY <1>7, Zenon DEF Lists
  <2>2. CASE a # b
    <3>1. V[a] = W[a] /\ m \in 1..Len(W[a])
      BY <2>2, <1>5, Zenon
    <3>2. W[a][m] # b
      <4>1. W[b][1] = b
        BY <1>1, ListsFacts, Zenon DEF IndexTypes
      <4>2. 1 \in 1..Len(W[b])
        BY <1>2
      <4>3. \A k \in 1..Len(W[b]) : W[a][m] = W[b][k] => a = b
        <5>1. \A c, d \in Bucket : \A j \in 1..Len(W[c]), k \in 1..Len(W[d]) : W[c][j] = W[d][k] => c = d /\ j = k
          BY <1>1, Zenon DEF Lists
        <5> QED BY <3>1, <5>1, Zenon
      <4> QED BY <4>1, <4>2, <4>3, <2>2, Zenon
    <3>3. item'[W[a][m]] = item[W[a][m]]
      BY <3>1, <3>2, <2>1, <1>6, Zenon
    <3> QED BY <3>1, <3>3, <1>8
  <2>3. CASE a = b
    <3>1. PICK l \in 1..Len(W[b]) : V[b][m] = W[b][l]
      <4>1. n \in 2..Len(W[b])
        BY Zenon DEF W
      <4>2. Len(V[b]) = Len(W[b]) - 1 /\ V[b][m] = IF m < n THEN W[b][m] ELSE W[b][m + 1]
        <5>1. /\ Len(Cut(W[b], n)) = Len(W[b]) - 1
              /\ \A j \in 1..Len(W[b]) - 1 : Cut(W[b], n)[j] = IF j < n THEN W[b][j] ELSE W[b][j + 1]
          BY <4>1, <1>2, CutCells, Zenon
        <5> QED BY <2>3, <5>1, <1>5, Zenon
      <4>3. m \in 1..Len(W[b]) /\ m + 1 \in 1..Len(W[b])
        BY <2>3, <4>2, <1>2
      <4> QED BY <4>2, <4>3, Zenon
    <3>2. PICK k \in 1..Len(W[b]) : item'[V[b][m]] = item[W[b][k]]
      <4>1. CASE V[b][m] # b \/ item'[b] = item[b]
        <5>1. item'[V[b][m]] = item[V[b][m]]
          BY <4>1, <2>1, <2>3, <1>6, Zenon
        <5> QED BY <5>1, <3>1, Zenon
      <4>2. CASE V[b][m] = b /\ item'[b] = item[e]
        BY <4>2, <1>3, Zenon
      <4> QED BY <4>1, <4>2, <1>6, Zenon
    <3>3. item[W[b][k]] # NULL /\ key[TileOf[item[W[b][k]]]] = b
      BY <1>3, <1>8, Zenon
    <3> QED BY <2>3, <3>2, <3>3, Zenon
  <2> QED BY <2>2, <2>3, Zenon
<1>10. ASSUME NEW c \in Bucket \cup alive', NEW d \in Bucket \cup alive', item'[c] # NULL, item'[d] # NULL,
              TileOf[item'[c]] = TileOf[item'[d]]
       PROVE  c = d
  <2> DEFINE From(x) == IF x = b /\ item'[b] # item[b] THEN e ELSE x
  <2>1. /\ From(c) \in Bucket \cup alive /\ item'[c] = item[From(c)]
        /\ From(d) \in Bucket \cup alive /\ item'[d] = item[From(d)]
    BY <1>2, <1>6, Zenon
  <2>2. From(c) = From(d) => c = d
    BY <1>2, <1>6, Zenon
  <2> HIDE DEF From
  <2> QED BY <2>1, <2>2, <1>8, <1>10
<1>11. Items(key', V, item', alive')
  BY <1>9, <1>10, ItemsIf, ZenonT(60)
<1> QED BY <1>4, <1>5, <1>7, <1>11, InvIf, Zenon
-----------------------------------------------------------------------------
(* Every step keeps the invariant *)

(* insert_item_idx(i): what changes, in terms of the lists. *)
LEMMA InsertEffect ==
    ASSUME IndexInv, NEW i \in Item, insert_item_idx(i)
    PROVE  LET b == Home(i) IN
           /\ Hits(i) = {} /\ key' = key
           /\ \/ /\ item[b] = NULL
                 /\ item' = [item EXCEPT ![b] = i] /\ next' = next /\ alive' = alive
              \/ /\ item[b] # NULL
                 /\ \E e \in Node \ alive :
                       /\ item' = [item EXCEPT ![e] = i]
                       /\ next' = [next EXCEPT ![e] = NULL, ![AllWalks[b][Len(AllWalks[b])]] = e]
                       /\ alive' = alive \cup {e}
<1> DEFINE b == Home(i)
<1>1. Hits(i) = {}
  <2>1. lookup_item_idx(i) = NULL
    BY Zenon DEF insert_item_idx
  <2> QED BY <2>1, HitFacts, Zenon
<1>2. Walk(b) = AllWalks[b]
  BY InvFacts, HomeIsBucket, Zenon
<1>3. \/ item[b] = NULL /\ item' = [item EXCEPT ![b] = i] /\ next' = next /\ alive' = alive
      \/ /\ item[b] # NULL
         /\ \E e \in Node \ alive :
               /\ item' = [item EXCEPT ![e] = i]
               /\ next' = [next EXCEPT ![e] = NULL, ![Walk(b)[Len(Walk(b))]] = e]
               /\ alive' = alive \cup {e}
  BY Zenon DEF insert_item_idx
<1>4. key' = key
  BY Zenon DEF insert_item_idx
<1> QED BY <1>1, <1>2, <1>3, <1>4, Zenon

(* remove_item_idx(i): the cell that was found, and the one that leaves. *)
LEMMA RemoveEffect ==
    ASSUME IndexInv, NEW i \in Item, remove_item_idx(i)
    PROVE  LET b == Home(i)  W == AllWalks  f == FirstHit(i) IN
           /\ key' = key /\ Hits(i) # {}
           /\ \/ /\ f = 1 /\ next[b] = NULL
                 /\ item' = [item EXCEPT ![b] = NULL] /\ next' = next /\ alive' = alive
              \/ /\ f = 1 /\ 2 \in 2..Len(W[b])
                 /\ item' = [item EXCEPT ![b] = item[W[b][2]]]
                 /\ next' = [next EXCEPT ![W[b][2 - 1]] = next[W[b][2]]]
                 /\ alive' = alive \ {W[b][2]}
              \/ /\ f \in 2..Len(W[b])
                 /\ item' = [item EXCEPT ![W[b][f]] = NULL]
                 /\ next' = [next EXCEPT ![W[b][f - 1]] = next[W[b][f]]]
                 /\ alive' = alive \ {W[b][f]}
<1> DEFINE b == Home(i)  W == AllWalks  f == FirstHit(i)
<1>1. key' = key /\ Hits(i) # {}
      /\ IF f = 1 THEN RemoveHead(b) ELSE RemoveInner(Walk(b)[f - 1], Walk(b)[f])
  BY Zenon DEF remove_item_idx
<1>2. f \in 1..Len(W[b]) /\ W[b] = Walk(b)
  BY <1>1, HitFacts, Zenon
<1>3. b \in Bucket /\ IndexTypes /\ Lists(W, next, alive)
  BY InvFacts, HomeIsBucket, Zenon
<1>4. Len(W[b]) \in Nat \ {0} /\ W[b][1] = b
  BY <1>3, ListsFacts, Zenon DEF IndexTypes
<1>5. IsList(next, W[b], b)
  BY <1>3, Zenon DEF Lists
<1> HIDE DEF b, W, f
<1>6. CASE f = 1 /\ next[b] = NULL
  BY <1>1, <1>6, Zenon DEF RemoveHead, b, W, f
<1>7. CASE f = 1 /\ next[b] # NULL
  <2>1. Len(W[b]) # 1
    BY <1>4, <1>5, <1>7, Zenon DEF IsList
  <2>2. 2 \in 2..Len(W[b]) /\ 1 \in 1..Len(W[b]) - 1 /\ 2 - 1 = 1 /\ 1 + 1 = 2
    <3>1. \A l \in Nat \ {0} : l # 1 => 2 \in 2..l /\ 1 \in 1..l - 1 /\ 2 - 1 = 1 /\ 1 + 1 = 2
      OBVIOUS
    <3> QED BY <3>1, <2>1, <1>4, Zenon
  <2>3. W[b][2] = next[b]
    BY <2>2, <1>4, <1>5, Zenon DEF IsList
  <2>4. /\ item' = [item EXCEPT ![b] = item[next[b]]]
        /\ next' = [next EXCEPT ![b] = next[next[b]]]
        /\ alive' = alive \ {next[b]}
    BY <1>1, <1>7, Zenon DEF RemoveHead
  <2> QED BY <2>2, <2>3, <2>4, <1>1, <1>4, <1>7, Zenon DEF b, W, f
<1>8. CASE f # 1
  <2>1. f \in 2..Len(W[b])
    BY <1>2, <1>4, <1>8
  <2> QED BY <2>1, <1>1, <1>2, <1>8, Zenon DEF RemoveInner, b, W, f
<1> QED BY <1>6, <1>7, <1>8, Zenon

(* Every insertion and removal keeps the invariant. *)
LEMMA IndexNext ==
    ASSUME IndexInv, [Next]_indexVars
    PROVE  IndexInv'
<1>1. CASE UNCHANGED indexVars
  <2>1. AllWalks' = AllWalks
    <3>1. next' = next
      BY <1>1, Zenon DEF indexVars
    <3>2. \A b : Walk(b)' = Walk(b)
      BY <3>1, WalkIsWalkOf, Zenon
    <3> QED BY <3>2, Zenon DEF AllWalks
  <2> QED BY <1>1, <2>1, Zenon DEF IndexInv, indexVars
<1>2. ASSUME NEW i \in Item, insert_item_idx(i) PROVE IndexInv'
  BY <1>2, InsertEffect, InsertFirst, InsertLast, Zenon
<1>3. ASSUME NEW i \in Item, remove_item_idx(i) PROVE IndexInv'
  <2> DEFINE b == Home(i)  W == AllWalks  f == FirstHit(i)
  <2>1. b \in Bucket /\ b \in Cell /\ IndexTypes /\ Lists(W, next, alive)
    BY InvFacts, HomeIsBucket, Zenon DEF Cell
  <2>2. /\ \A a \in Bucket : \A n \in 1..Len(W[a]) : W[a][n] \in Cell
        /\ \A a \in Bucket : \A n \in 2..Len(W[a]) : W[a][n] \in alive /\ W[a][n] \notin Bucket
    BY <2>1, ListsFacts, Zenon DEF IndexTypes
  <2>3. item \in [Cell -> Item \cup {NULL}] /\ Bucket \cup alive \subseteq Cell
    BY <2>1, Zenon DEF IndexTypes, Cell
  <2>4. CASE /\ next[b] = NULL /\ key' = key
             /\ item' = [item EXCEPT ![b] = NULL] /\ next' = next /\ alive' = alive
    BY <2>1, <2>4, RemoveOnly, Zenon
  <2>5. CASE /\ 2 \in 2..Len(W[b]) /\ key' = key
             /\ item' = [item EXCEPT ![b] = item[W[b][2]]]
             /\ next' = [next EXCEPT ![W[b][2 - 1]] = next[W[b][2]]]
             /\ alive' = alive \ {W[b][2]}
    <3>1. W[b][2] \in Cell
      BY <2>1, <2>2, <2>3, <2>5, Zenon
    <3>2. item' \in [Cell -> Item \cup {NULL}]
      BY <3>1, <2>1, <2>3, <2>5, Zenon
    <3>3. /\ \A c \in Bucket \cup alive' : c # b => item'[c] = item[c]
          /\ item'[b] = item[W[b][2]]
      BY <2>1, <2>3, <2>5, Zenon
    <3> QED BY <3>2, <3>3, <2>1, <2>5, RemoveCell, Zenon
  <2>6. CASE /\ f \in 2..Len(W[b]) /\ key' = key
             /\ item' = [item EXCEPT ![W[b][f]] = NULL]
             /\ next' = [next EXCEPT ![W[b][f - 1]] = next[W[b][f]]]
             /\ alive' = alive \ {W[b][f]}
    <3>1. W[b][f] \in alive /\ W[b][f] \notin Bucket
      BY <2>1, <2>2, <2>6, Zenon
    <3>2. item' \in [Cell -> Item \cup {NULL}]
      BY <3>1, <2>3, <2>6, Zenon
    <3>3. \A c \in Bucket \cup alive' : item'[c] = item[c]
      BY <3>1, <2>3, <2>6, Zenon
    <3> QED BY <3>2, <3>3, <2>1, <2>6, RemoveCell, Zenon
  <2> QED BY <1>3, <2>4, <2>5, <2>6, RemoveEffect, Zenon
<1> QED BY <1>1, <1>2, <1>3, Zenon DEF Next

(* The empty index satisfies it: every list is its bucket alone. *)
LEMMA IndexInit == Init => IndexInv
<1> SUFFICES ASSUME Init PROVE IndexInv
  BY Zenon
<1> DEFINE V == [b \in Bucket |-> <<b>>]
<1>1. /\ key \in [Tile -> Bucket] /\ alive = {}
      /\ item = [c \in Cell |-> NULL] /\ next = [c \in Cell |-> NULL]
  BY Zenon DEF Init
<1>2. \A b \in Bucket : V[b] = <<b>> /\ b \in Cell /\ item[b] = NULL /\ next[b] = NULL
  BY <1>1, Zenon DEF Cell
<1>3. \A b \in Bucket : V[b] \in Seq(Cell) /\ Len(V[b]) = 1 /\ V[b][1] = b
  <2>1. \A S : \A c \in S : <<c>> \in Seq(S) /\ Len(<<c>>) = 1 /\ <<c>>[1] = c
    OBVIOUS
  <2> SUFFICES ASSUME NEW b \in Bucket PROVE V[b] \in Seq(Cell) /\ Len(V[b]) = 1 /\ V[b][1] = b
    BY Zenon
  <2>2. V[b] = <<b>> /\ b \in Cell
    BY <1>2, Zenon
  <2>3. <<b>> \in Seq(Cell) /\ Len(<<b>>) = 1 /\ <<b>>[1] = b
    BY <2>1, <2>2, Zenon
  <2> QED BY <2>2, <2>3, Zenon
<1> HIDE DEF V
<1>4. 1 \in 1..(MaxWalk + 1) /\ 1 \in 1..1 /\ (\A n \in 1..1 - 1 : FALSE) /\ \A m \in 1..1 : m = 1
  <2>1. 1 \in 1..(MaxWalk + 1)
    BY MaxWalkNat
  <2>2. 1 \in 1..1 /\ (\A n \in 1..1 - 1 : FALSE) /\ \A m \in 1..1 : m = 1
    OBVIOUS
  <2> QED BY <2>1, <2>2, Zenon
<1>5. \A b \in Bucket : IsList(next, V[b], b)
  BY <1>2, <1>3, <1>4, Zenon DEF IsList
<1>6. \A b \in Bucket : Walk(b) = V[b]
  <2> SUFFICES ASSUME NEW b \in Bucket PROVE Walk(b) = V[b]
    BY Zenon
  <2>1. WalkOf(next, b) = V[b]
    BY <1>5, WalkFollowsList, Zenon
  <2> QED BY <2>1, WalkIsWalkOf, Zenon
<1>7. AllWalks = V
  BY <1>6, Zenon DEF AllWalks, V
<1>8. Lists(V, next, alive)
  <2>1. \A a, b \in Bucket : \A m \in 1..Len(V[a]), n \in 1..Len(V[b]) : V[a][m] = V[b][n] => a = b /\ m = n
    BY <1>3, <1>4
  <2>2. \A b \in Bucket : \A n \in 1..Len(V[b]) : V[b][n] \in Bucket \cup alive
    BY <1>3, <1>4, Zenon
  <2>3. \A c \in Bucket \cup alive : \E b \in Bucket : \E n \in 1..Len(V[b]) : V[b][n] = c
    BY <1>1, <1>3, <1>4
  <2> QED BY <1>5, <2>1, <2>2, <2>3, Zenon DEF Lists
<1>9. Items(key, V, item, alive)
  <2>1. \A b \in Bucket : \A n \in 1..Len(V[b]) : item[V[b][n]] = NULL /\ Len(V[b]) = 1
    BY <1>2, <1>3, <1>4
  <2>2. \A c \in Bucket \cup alive : item[c] = NULL
    BY <1>1, <1>2, Zenon
  <2> QED BY <2>1, <2>2, Zenon DEF Items
<1>10. item \in [Cell -> Item \cup {NULL}] /\ next \in [Cell -> Node \cup {NULL}] /\ alive \subseteq Node
  BY <1>1, Zenon
<1> QED BY <1>1, <1>7, <1>8, <1>9, <1>10, Zenon DEF IndexInv

(* Whatever was inserted and removed, the lists and their items are as     *)
(* IndexInv says.                                                          *)
THEOREM IndexInvariant == Spec => []IndexInv
<1>1. IndexInv /\ [Next]_indexVars => IndexInv'
  BY IndexNext, Zenon
<1> QED BY IndexInit, <1>1, PTL DEF Spec

-----------------------------------------------------------------------------
(* What the invariant gives *)

(* The cells the buckets reach are the cells in use. *)
LEMMA ReachableInUse == ASSUME IndexInv PROVE Reachable = Bucket \cup alive
<1>1. Lists(AllWalks, next, alive) /\ \A b \in Bucket : AllWalks[b] = Walk(b)
  BY InvFacts, Zenon
<1>2. ASSUME NEW c \in Reachable PROVE c \in Bucket \cup alive
  <2>1. PICK b \in Bucket : c \in {Walk(b)[n] : n \in 1..Len(Walk(b))}
    BY <1>2, Zenon DEF Reachable
  <2>2. PICK n \in 1..Len(AllWalks[b]) : c = AllWalks[b][n]
    BY <2>1, <1>1, Zenon
  <2> QED BY <2>2, <1>1, Zenon DEF Lists
<1>3. ASSUME NEW c \in Bucket \cup alive PROVE c \in Reachable
  <2>1. PICK b \in Bucket : \E n \in 1..Len(AllWalks[b]) : AllWalks[b][n] = c
    BY <1>1, Zenon DEF Lists
  <2>2. c \in {Walk(b)[n] : n \in 1..Len(Walk(b))}
    BY <2>1, <1>1, Zenon
  <2> QED BY <2>2, Zenon DEF Reachable
<1> QED BY <1>2, <1>3, Zenon

(* The items in the cells in use. *)
Held == {item[c] : c \in Bucket \cup alive} \ {NULL}

(* The index stores what the cells in use hold. *)
LEMMA StoredIsHeld == IndexInv => Stored = Held
  BY ReachableInUse, Zenon DEF Stored, Held

(* lookup_item_idx finds the item of a metatile if there is one.           *)
LEMMA LookupExact ==
    ASSUME IndexInv, NEW i \in Item
    PROVE  lookup_item_idx(i) = IF \E j \in Stored : TileOf[j] = TileOf[i]
                                THEN CHOOSE j \in Stored : TileOf[j] = TileOf[i] ELSE NULL
<1>1. Stored = Held
  BY StoredIsHeld, Zenon
<1>2. CASE Hits(i) = {}
  <2>1. \A j \in Held : TileOf[j] # TileOf[i]
    BY <1>2, LookupMisses, Zenon DEF Held
  <2>2. lookup_item_idx(i) = NULL
    BY <1>2, Zenon DEF lookup_item_idx
  <2> QED BY <2>1, <2>2, <1>1, Zenon
<1>3. CASE Hits(i) # {}
  <2> DEFINE c == AllWalks[Home(i)][FirstHit(i)]
  <2>1. FirstHit(i) \in 1..Len(AllWalks[Home(i)]) /\ item[c] # NULL /\ TileOf[item[c]] = TileOf[i]
        /\ lookup_item_idx(i) = item[c]
    BY <1>3, HitFacts, Zenon
  <2>2. Home(i) \in Bucket /\ Lists(AllWalks, next, alive) /\ Items(key, AllWalks, item, alive)
    BY InvFacts, HomeIsBucket, Zenon
  <2>3. c \in Bucket \cup alive
    BY <2>1, <2>2, Zenon DEF Lists
  <2> HIDE DEF c
  <2>4. item[c] \in Held
    BY <2>1, <2>3, Zenon DEF Held
  <2>5. \A j \in Held : TileOf[j] = TileOf[i] => j = item[c]
    <3> SUFFICES ASSUME NEW j \in Held, TileOf[j] = TileOf[i] PROVE j = item[c]
      BY Zenon
    <3>1. PICK d \in Bucket \cup alive : j = item[d] /\ item[d] # NULL
      BY Zenon DEF Held
    <3>2. \A x, y \in Bucket \cup alive :
             item[x] # NULL /\ item[y] # NULL /\ TileOf[item[x]] = TileOf[item[y]] => x = y
      BY <2>2, ItemsFacts
    <3>3. d = c
      BY <3>1, <3>2, <2>1, <2>3, Zenon
    <3> QED BY <3>1, <3>3, Zenon
  <2>6. (CHOOSE j \in Held : TileOf[j] = TileOf[i]) = item[c]
    BY <2>1, <2>4, <2>5, Zenon
  <2> QED BY <2>1, <2>4, <2>6, <1>1, Zenon
<1> QED BY <1>2, <1>3, Zenon

(* The cells are well formed. *)
LEMMA ChainsHold == ASSUME IndexInv PROVE Chains
<1> DEFINE W == AllWalks
<1>1. IndexTypes /\ Lists(W, next, alive) /\ Items(key, W, item, alive) /\ \A b \in Bucket : W[b] = Walk(b)
  BY InvFacts, Zenon
<1>2. item \in [Cell -> Item \cup {NULL}] /\ next \in [Cell -> Node \cup {NULL}]
  BY <1>1, Zenon DEF IndexTypes
<1>3. Reachable = Bucket \cup alive
  BY ReachableInUse, Zenon
<1> HIDE DEF W
<1>4. ASSUME NEW b \in Bucket
      PROVE  /\ next[W[b][Len(W[b])]] = NULL
             /\ \A m, n \in 1..Len(W[b]) : W[b][m] = W[b][n] => m = n
             /\ \A n \in 1..Len(W[b]) : item[W[b][n]] = NULL => Len(W[b]) = 1
  <2>1. next[W[b][Len(W[b])]] = NULL
    BY <1>1, Zenon DEF Lists, IsList
  <2>2. \A m, n \in 1..Len(W[b]) : W[b][m] = W[b][n] => m = n
    <3>1. NoRepeats(W[b])
      BY <1>1, ListsFacts, Zenon DEF IndexTypes
    <3> QED BY <3>1, Zenon DEF NoRepeats
  <2>3. \A n \in 1..Len(W[b]) : item[W[b][n]] = NULL => Len(W[b]) = 1
    BY <1>1, Zenon DEF Items
  <2> QED BY <2>1, <2>2, <2>3, Zenon
<1>5. \A a, b \in Bucket : a # b => \A m \in 1..Len(W[a]), n \in 1..Len(W[b]) : W[a][m] # W[b][n]
  BY <1>1, Zenon DEF Lists
<1> QED BY <1>1, <1>2, <1>3, <1>4, <1>5 DEF Chains

(* However many items, metatiles, buckets and cells there are, and         *)
(* whichever bucket calcHashKey gives to a metatile: the cells stay well   *)
(* formed, none is leaked, no walk touches a freed one, and lookup_item_idx*)
(* finds the item of a metatile if there is one.                           *)
THEOREM TheIndexIsExact == Spec => []IndexExact
<1>1. IndexInv => IndexExact
  BY ChainsHold, LookupExact, Zenon DEF IndexExact
<1> QED BY <1>1, IndexInvariant, PTL

-----------------------------------------------------------------------------
(* The refinement of the set of items *)

(* insert_item_idx adds the item to those held, and none of them was for   *)
(* its metatile.                                                           *)
LEMMA InsertHolds ==
    ASSUME IndexInv, NEW i \in Item, insert_item_idx(i)
    PROVE  Held' = Held \cup {i} /\ \A j \in Held : TileOf[j] # TileOf[i]
<1> DEFINE b == Home(i)
<1>1. /\ item \in [Cell -> Item \cup {NULL}] /\ alive \subseteq Node
      /\ b \in Bucket /\ Bucket \subseteq Cell /\ Node \subseteq Cell /\ i # NULL /\ Bucket \cap Node = {}
  BY InvFacts, HomeIsBucket, IndexAssumption, Zenon DEF IndexTypes, Cell
<1>2. \A j \in Held : TileOf[j] # TileOf[i]
  <2>1. Hits(i) = {}
    BY InsertEffect, Zenon
  <2> QED BY <2>1, LookupMisses, Zenon DEF Held
<1>3. CASE item[b] = NULL /\ item' = [item EXCEPT ![b] = i] /\ alive' = alive
  <2>1. item'[b] = i /\ \A c \in Cell : c # b => item'[c] = item[c]
    BY <1>1, <1>3, Zenon
  <2>2. ASSUME NEW j \in Held' PROVE j \in Held \cup {i}
    BY <1>1, <1>3, <2>1, <2>2, Zenon DEF Held
  <2>3. ASSUME NEW j \in Held \cup {i} PROVE j \in Held'
    BY <1>1, <1>3, <2>1, <2>3, Zenon DEF Held
  <2> QED BY <1>2, <2>2, <2>3, Zenon
<1>4. ASSUME NEW e \in Node \ alive, item' = [item EXCEPT ![e] = i], alive' = alive \cup {e}
      PROVE  Held' = Held \cup {i}
  <2>1. item'[e] = i /\ \A c \in Cell : c # e => item'[c] = item[c]
    BY <1>1, <1>4, Zenon
  <2>2. e \notin Bucket \cup alive /\ e \in Bucket \cup alive'
    BY <1>1, <1>4, Zenon
  <2>3. ASSUME NEW j \in Held' PROVE j \in Held \cup {i}
    BY <1>1, <1>4, <2>1, <2>3, Zenon DEF Held
  <2>4. ASSUME NEW j \in Held \cup {i} PROVE j \in Held'
    BY <1>1, <1>4, <2>1, <2>2, <2>4, Zenon DEF Held
  <2> QED BY <2>3, <2>4, Zenon
<1> QED BY <1>2, <1>3, <1>4, InsertEffect, Zenon

(* remove_item_idx takes away the items for the metatile, of which there   *)
(* is one.                                                                 *)
LEMMA RemoveHolds ==
    ASSUME IndexInv, NEW i \in Item, remove_item_idx(i)
    PROVE  Held' = Held \ {j \in Held : TileOf[j] = TileOf[i]}
<1> DEFINE b == Home(i)  W == AllWalks  f == FirstHit(i)  d == W[b][f]
<1>1. /\ item \in [Cell -> Item \cup {NULL}] /\ alive \subseteq Node
      /\ next \in [Cell -> Node \cup {NULL}]
      /\ b \in Bucket /\ Bucket \subseteq Cell /\ Node \subseteq Cell /\ Bucket \cap Node = {}
      /\ Lists(W, next, alive) /\ Items(key, W, item, alive)
  BY InvFacts, HomeIsBucket, IndexAssumption, Zenon DEF IndexTypes, Cell
<1>2. f \in 1..Len(W[b]) /\ item[d] # NULL /\ TileOf[item[d]] = TileOf[i]
  BY RemoveEffect, HitFacts, Zenon
<1>3. d \in Bucket \cup alive
  BY <1>1, <1>2, Zenon DEF Lists
<1>4. \A c \in Bucket \cup alive : item[c] # NULL /\ TileOf[item[c]] = TileOf[i] => c = d
  BY <1>1, <1>2, <1>3, Zenon DEF Items
<1>5. /\ W[b][1] = b
      /\ \A n \in 2..Len(W[b]) : W[b][n] \in alive /\ W[b][n] \notin Bucket
  BY <1>1, ListsFacts, Zenon
<1>6. \/ d = b /\ item' = [item EXCEPT ![b] = NULL] /\ alive' = alive
      \/ \E e \in alive :
            d = b /\ item' = [item EXCEPT ![b] = item[e]] /\ alive' = alive \ {e}
      \/ d \in alive /\ item' = [item EXCEPT ![d] = NULL] /\ alive' = alive \ {d}
  BY <1>5, RemoveEffect, Zenon
<1> HIDE DEF d, W, b
<1>7. SUFFICES \A j : j \in Held' <=> j \in Held /\ j # item[d]
  <2>1. ASSUME NEW j \in Held PROVE TileOf[j] = TileOf[i] <=> j = item[d]
    BY <1>2, <1>4, <2>1, Zenon DEF Held
  <2> QED BY <1>7, <2>1, Zenon
<1>8. \A c \in Bucket \cup alive : c # d => item[c] # item[d]
  BY <1>2, <1>4, Zenon
<1>9. CASE d = b /\ item' = [item EXCEPT ![b] = NULL] /\ alive' = alive
  <2>1. item'[d] = NULL /\ \A c \in Cell : c # d => item'[c] = item[c]
    BY <1>1, <1>9, Zenon
  <2>2. ASSUME NEW j \in Held' PROVE j \in Held /\ j # item[d]
    BY <1>1, <1>8, <1>9, <2>1, <2>2, Zenon DEF Held
  <2>3. ASSUME NEW j \in Held, j # item[d] PROVE j \in Held'
    BY <1>1, <1>9, <2>1, <2>3, Zenon DEF Held
  <2> QED BY <2>2, <2>3, Zenon
<1>10. ASSUME NEW e \in alive, d = b, item' = [item EXCEPT ![b] = item[e]], alive' = alive \ {e}
       PROVE  \A j : j \in Held' <=> j \in Held /\ j # item[d]
  <2>1. item'[d] = item[e] /\ (\A c \in Cell : c # d => item'[c] = item[c]) /\ e # d
    BY <1>1, <1>10, Zenon
  <2>2. ASSUME NEW j \in Held' PROVE j \in Held /\ j # item[d]
    <3>1. PICK c \in Bucket \cup alive' : j = item'[c] /\ j # NULL
      BY <2>2, Zenon DEF Held
    <3>2. CASE c = d
      BY <1>8, <1>10, <2>1, <3>1, <3>2, Zenon DEF Held
    <3>3. CASE c # d
      BY <1>1, <1>8, <1>10, <2>1, <3>1, <3>3, Zenon DEF Held
    <3> QED BY <3>2, <3>3, Zenon
  <2>3. ASSUME NEW j \in Held, j # item[d] PROVE j \in Held'
    <3>1. PICK c \in Bucket \cup alive : j = item[c] /\ j # NULL
      BY <2>3, Zenon DEF Held
    <3>2. CASE c = e
      BY <1>1, <1>10, <2>1, <3>1, <3>2, Zenon DEF Held
    <3>3. CASE c # e
      BY <1>1, <1>10, <2>1, <2>3, <3>1, <3>3, ZenonT(60) DEF Held
    <3> QED BY <3>2, <3>3, Zenon
  <2> QED BY <2>2, <2>3, Zenon
<1>11. CASE d \in alive /\ item' = [item EXCEPT ![d] = NULL] /\ alive' = alive \ {d}
  <2>1. \A c \in Cell : c # d => item'[c] = item[c]
    BY <1>1, <1>11, Zenon
  <2>2. d \notin Bucket \cup alive'
    BY <1>1, <1>11, Zenon
  <2>3. ASSUME NEW j \in Held' PROVE j \in Held /\ j # item[d]
    BY <1>1, <1>8, <1>11, <2>1, <2>2, <2>3, ZenonT(60) DEF Held
  <2>4. ASSUME NEW j \in Held, j # item[d] PROVE j \in Held'
    BY <1>1, <1>11, <2>1, <2>4, Zenon DEF Held
  <2> QED BY <2>3, <2>4, Zenon
<1> QED BY <1>6, <1>9, <1>10, <1>11, Zenon

(* However many items, metatiles, buckets and cells there are, the buckets *)
(* implement the set of items: insert_item_idx adds its item to a set that *)
(* had none for the metatile, and remove_item_idx takes away the entry for *)
(* the metatile, and nothing else.                                         *)
THEOREM TheIndexIsASet == Spec => ImplementsTileIndex
<1>1. Init => T!Init
  <2> SUFFICES ASSUME Init PROVE Stored = {}
    BY Zenon DEF T!Init
  <2>1. IndexInv
    BY IndexInit, Zenon
  <2>2. \A c \in Bucket \cup alive : item[c] = NULL
    BY Zenon DEF Init, Cell
  <2> QED BY <2>1, <2>2, StoredIsHeld, Zenon DEF Held
<1>2. IndexInv' => (Stored = Held)'
  BY StoredIsHeld, PTL
<1>3. IndexInv /\ [Next]_indexVars => [T!Next]_Stored
  <2> SUFFICES ASSUME IndexInv, [Next]_indexVars PROVE [T!Next]_Stored
    BY Zenon
  <2>1. Stored = Held /\ Stored' = Held'
    BY <1>2, IndexNext, StoredIsHeld, Zenon
  <2>2. CASE UNCHANGED indexVars
    <3>1. Held' = Held
      BY <2>2, Zenon DEF Held, indexVars
    <3> QED BY <2>1, <3>1, Zenon
  <2>3. ASSUME NEW i \in Item, insert_item_idx(i) PROVE T!Next
    <3>1. Stored' = Stored \cup {i} /\ \A j \in Stored : TileOf[j] # TileOf[i]
      BY <2>1, <2>3, InsertHolds, Zenon
    <3>2. T!Insert(i)
      BY <3>1, Zenon DEF T!Insert, T!Match
    <3> QED BY <3>2, Zenon DEF T!Next
  <2>4. ASSUME NEW i \in Item, remove_item_idx(i) PROVE T!Next
    <3>1. Stored' = Stored \ {j \in Stored : TileOf[j] = TileOf[i]}
      BY <2>1, <2>4, RemoveHolds, Zenon
    <3>2. T!Remove(i)
      BY <3>1, Zenon DEF T!Remove, T!Match
    <3> QED BY <3>2, Zenon DEF T!Next
  <2> QED BY <2>2, <2>3, <2>4, Zenon DEF Next
<1> QED BY <1>1, <1>3, IndexInvariant, PTL DEF Spec, ImplementsTileIndex, T!Spec

=============================================================================
