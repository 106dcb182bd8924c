-------------------------- MODULE RequestQueueProofs --------------------------
(***************************************************************************)
(* Proofs about the request queue, for any number of requests, metatiles,  *)
(* descriptors and threads and any limits.                                 *)
(***************************************************************************)
EXTENDS RequestQueue, TLAPS

-----------------------------------------------------------------------------
(* Lists of requests *)

(* Appending to a list (the tail insertion of add_request) adds one request *)
(* to the set on the list, and keeps the list in order when the request is  *)
(* the newest.                                                              *)
LEMMA AppendToList ==
    ASSUME NEW s \in Seq(Request), NEW x \in Request
    PROVE  /\ Append(s, x) \in Seq(Request)
           /\ Len(Append(s, x)) = Len(s) + 1
           /\ Range(Append(s, x)) = Range(s) \cup {x}
           /\ (Increasing(s) /\ \A y \in Range(s) : y < x) => Increasing(Append(s, x))
<1>1. /\ Append(s, x) \in Seq(Request)
      /\ Len(Append(s, x)) = Len(s) + 1
      /\ \A k \in 1..Len(s) : Append(s, x)[k] = s[k]
      /\ Append(s, x)[Len(s) + 1] = x
  OBVIOUS
<1>2. Len(s) \in Nat /\ DOMAIN s = 1..Len(s) /\ DOMAIN Append(s, x) = 1..(Len(s) + 1)
  BY <1>1
<1>3. Range(Append(s, x)) = Range(s) \cup {x}
  <2>1. ASSUME NEW y \in Range(Append(s, x)) PROVE y \in Range(s) \cup {x}
    <3>1. PICK k \in 1..(Len(s) + 1) : y = Append(s, x)[k]
      BY <1>2, <2>1, Zenon DEF Range
    <3>2. CASE k \in 1..Len(s)
      BY <1>1, <1>2, <3>1, <3>2, Zenon DEF Range
    <3>3. CASE k = Len(s) + 1
      BY <1>1, <3>1, <3>3, Zenon
    <3> QED BY <1>2, <3>2, <3>3
  <2>2. ASSUME NEW y \in Range(s) PROVE y \in Range(Append(s, x))
    <3>1. PICK k \in 1..Len(s) : y = s[k]
      BY <1>2, <2>2, Zenon DEF Range
    <3>2. k \in 1..(Len(s) + 1) /\ y = Append(s, x)[k]
      BY <1>1, <1>2, <3>1
    <3> QED BY <1>2, <3>2, Zenon DEF Range
  <2>3. x \in Range(Append(s, x))
    BY <1>1, <1>2 DEF Range
  <2> QED BY <2>1, <2>2, <2>3, Zenon
<1>4. ASSUME Increasing(s), \A y \in Range(s) : y < x
      PROVE  Increasing(Append(s, x))
  <2> SUFFICES ASSUME NEW j \in 1..(Len(s) + 1), NEW k \in 1..(Len(s) + 1), j < k
               PROVE  Append(s, x)[j] < Append(s, x)[k]
    BY <1>1, Zenon DEF Increasing
  <2>1. j \in 1..Len(s)
    BY <1>2
  <2>2. s[j] \in Range(s)
    BY <1>2, <2>1, Zenon DEF Range
  <2>3. CASE k \in 1..Len(s)
    BY <1>1, <1>4, <2>1, <2>3, Zenon DEF Increasing
  <2>4. CASE k = Len(s) + 1
    BY <1>1, <1>4, <2>1, <2>2, <2>4, Zenon
  <2> QED BY <1>2, <2>3, <2>4
<1> QED BY <1>1, <1>3, <1>4, Zenon

(* Taking the head of a list in order (fetch_request) removes that request, *)
(* the oldest, from the set on the list, and leaves the rest in order.      *)
LEMMA TailOfList ==
    ASSUME NEW s \in Seq(Request), Len(s) > 0, Increasing(s)
    PROVE  /\ Head(s) \in Range(s)
           /\ Tail(s) \in Seq(Request)
           /\ Len(Tail(s)) = Len(s) - 1
           /\ Range(Tail(s)) = Range(s) \ {Head(s)}
           /\ Increasing(Tail(s))
           /\ \A y \in Range(Tail(s)) : Head(s) < y
<1>1. /\ s # << >>
      /\ Len(s) \in Nat
      /\ DOMAIN s = 1..Len(s)
      /\ \A k \in 1..Len(s) : s[k] \in Request
  OBVIOUS
<1>2. /\ Head(s) = s[1]
      /\ Tail(s) \in Seq(Request)
      /\ Len(Tail(s)) = Len(s) - 1
      /\ \A k \in 1..Len(Tail(s)) : Tail(s)[k] = s[k + 1]
  BY <1>1
<1>3. DOMAIN Tail(s) = 1..(Len(s) - 1)
  BY <1>2
<1>4. Head(s) \in Range(s)
  BY <1>1, <1>2 DEF Range
<1>5. ASSUME NEW y \in Range(Tail(s)) PROVE y \in Range(s) /\ Head(s) < y
  <2>1. PICK k \in 1..(Len(s) - 1) : y = s[k + 1]
    BY <1>2, <1>3, <1>5, Zenon DEF Range
  <2>2. k + 1 \in 1..Len(s) /\ 1 \in 1..Len(s) /\ 1 < k + 1
    BY <1>1
  <2> QED BY <1>1, <1>2, <2>1, <2>2, Zenon DEF Range, Increasing
<1>6. ASSUME NEW y \in Range(s), y # Head(s) PROVE y \in Range(Tail(s))
  <2>1. PICK k \in 1..Len(s) : y = s[k]
    BY <1>1, <1>6, Zenon DEF Range
  <2>2. k - 1 \in 1..(Len(s) - 1)
    BY <1>1, <1>2, <1>6, <2>1
  <2>3. Tail(s)[k - 1] = y
    BY <1>1, <1>2, <2>1, <2>2
  <2> QED BY <1>3, <2>2, <2>3, Zenon DEF Range
<1>7. ASSUME NEW y \in Range(Tail(s)) PROVE y # Head(s)
  <2>1. Head(s) \in Request
    BY <1>1, <1>2
  <2> QED BY <1>5, <1>7, <2>1 DEF Request
<1>8. Increasing(Tail(s))
  <2> SUFFICES ASSUME NEW j \in 1..(Len(s) - 1), NEW k \in 1..(Len(s) - 1), j < k
               PROVE  s[j + 1] < s[k + 1]
    BY <1>2, Zenon DEF Increasing
  <2>1. j + 1 \in 1..Len(s) /\ k + 1 \in 1..Len(s) /\ j + 1 < k + 1
    BY <1>1
  <2> QED BY <2>1, Zenon DEF Increasing
<1> QED BY <1>2, <1>4, <1>5, <1>6, <1>7, <1>8, Zenon

(* A chain holds requests only. *)
LEMMA RangeOfChain ==
    ASSUME NEW s \in Seq(Request)
    PROVE  Range(s) \subseteq Request
<1>1. DOMAIN s = 1..Len(s) /\ \A k \in 1..Len(s) : s[k] \in Request
  OBVIOUS
<1> QED BY <1>1, Zenon DEF Range

(* Pushing onto a chain (pending) adds one request to it. *)
LEMMA PushOnChain ==
    ASSUME NEW s \in Seq(Request), NEW x \in Request
    PROVE  /\ <<x>> \o s \in Seq(Request)
           /\ Range(<<x>> \o s) = {x} \cup Range(s)
           /\ (NoRepeats(s) /\ x \notin Range(s)) => NoRepeats(<<x>> \o s)
<1>1. <<x>> \in Seq(Request) /\ Len(<<x>>) = 1 /\ <<x>>[1] = x
  OBVIOUS
<1> DEFINE c == <<x>> \o s
<1>2. /\ c \in Seq(Request)
      /\ Len(c) = Len(s) + 1
      /\ c[1] = x
      /\ \A k \in 1..Len(s) : c[k + 1] = s[k]
  <2>1. /\ c \in Seq(Request)
        /\ Len(c) = 1 + Len(s)
        /\ \A i \in 1..(1 + Len(s)) : c[i] = IF i <= 1 THEN <<x>>[i] ELSE s[i - 1]
    BY <1>1
  <2> QED BY <1>1, <2>1
<1>3. Len(s) \in Nat /\ DOMAIN s = 1..Len(s) /\ DOMAIN c = 1..(Len(s) + 1)
  BY <1>2
<1> HIDE DEF c
<1>4. ASSUME NEW k \in 1..(Len(s) + 1), k # 1
      PROVE  k - 1 \in 1..Len(s) /\ c[k] = s[k - 1]
  BY <1>2, <1>3, <1>4
<1>5. Range(c) = {x} \cup Range(s)
  <2>1. ASSUME NEW y \in Range(c) PROVE y \in {x} \cup Range(s)
    <3>1. PICK k \in 1..(Len(s) + 1) : y = c[k]
      BY <1>3, <2>1, Zenon DEF Range
    <3> QED BY <1>2, <1>3, <1>4, <3>1, Zenon DEF Range
  <2>2. ASSUME NEW y \in Range(s) PROVE y \in Range(c)
    <3>1. PICK k \in 1..Len(s) : y = s[k]
      BY <1>3, <2>2, Zenon DEF Range
    <3>2. k + 1 \in 1..(Len(s) + 1) /\ y = c[k + 1]
      BY <1>2, <1>3, <3>1
    <3> QED BY <1>3, <3>2, Zenon DEF Range
  <2>3. x \in Range(c)
    BY <1>2, <1>3 DEF Range
  <2> QED BY <2>1, <2>2, <2>3, Zenon
<1>6. ASSUME NoRepeats(s), x \notin Range(s) PROVE NoRepeats(c)
  <2> SUFFICES ASSUME NEW j \in 1..(Len(s) + 1), NEW k \in 1..(Len(s) + 1), c[j] = c[k]
               PROVE  j = k
    BY <1>2, <1>3, Zenon DEF NoRepeats
  <2>1. ASSUME NEW i \in 1..(Len(s) + 1), i # 1 PROVE c[i] # x
    BY <1>3, <1>4, <1>6, <2>1, Zenon DEF Range
  <2>2. CASE j = 1 \/ k = 1
    BY <1>2, <2>1, <2>2, Zenon
  <2>3. CASE j # 1 /\ k # 1
    BY <1>3, <1>4, <1>6, <2>3 DEF NoRepeats
  <2> QED BY <2>2, <2>3, Zenon
<1> QED BY <1>2, <1>5, <1>6, Zenon DEF c
(* A family of counters stays one when one of them is increased. *)
LEMMA AddToCounter ==
    ASSUME NEW D, NEW g \in [D -> Nat], NEW k \in Nat, NEW i \in D
    PROVE  [g EXCEPT ![i] = @ + k] \in [D -> Nat]
OBVIOUS

-----------------------------------------------------------------------------
(* The inductive invariant *)

USE DEF Cmd, WaitQueue, QueueEnum

(* The empty queue of request_queue_init satisfies the invariant. *)
LEMMA InitInv == request_queue_init => QueueInv
<1> SUFFICES ASSUME request_queue_init PROVE QueueInv
  BY Zenon
<1> USE DEF request_queue_init
<1>1. Range(<<>>) = {} /\ Len(<<>>) = 0
  BY DEF Range
<1>2. QueueTypeOK
  <2>1. (CHOOSE t \in Tile : TRUE) \in Tile
    BY ConstantsAssumption, Zenon
  <2>2. stats \in [render: [WaitQueue -> Nat], dropped: Nat, time: [WaitQueue -> Nat],
                   zoomRender: [Zoom -> Nat], zoomTime: [Zoom -> Nat]]
    BY Zenon DEF NoStats
  <2> QED BY <2>1, <2>2, ConstantsAssumption, SMTT(30) DEF QueueTypeOK, Request
<1>3. BirthInv
  BY DEF BirthInv, Request
<1>4. ListInv
  BY <1>1, ConstantsAssumption DEF ListInv, In, Increasing, Limit
<1>5. IndexInv
  BY Zenon DEF IndexInv, In
<1>6. OriginInv /\ ChainInv
  BY Zenon DEF OriginInv, ChainInv, In
<1>7. NoOvertaking
  BY <1>1, Zenon DEF NoOvertaking
<1> QED BY <1>2, <1>3, <1>4, <1>5, <1>6, <1>7, Zenon DEF QueueInv

(* What pending finds: the one indexed request for the metatile, if any. *)
LEMMA PendingMeaning ==
    ASSUME QueueInv, NEW t \in Tile
    PROVE  /\ pending(t) = "cmdRender" => Match(t) = {}
           /\ pending(t) = "cmdIgnore" =>
                 \E i \in index : /\ Match(t) = {i}
                                  /\ tile[i] = t
                                  /\ inQueue[i] \notin {"queueDirty", "queueRequestBulk"}
<1>1. \A i \in index : inQueue[i] \in WaitQueue \cup {"queueRender"}
  BY Zenon DEF QueueInv, IndexInv, QueueTypeOK
<1>2. ASSUME pending(t) = "cmdRender" PROVE Match(t) = {}
  BY <1>1, <1>2, Zenon DEF pending, Match
<1>3. ASSUME pending(t) = "cmdIgnore"
      PROVE  \E i \in index : /\ Match(t) = {i}
                              /\ tile[i] = t
                              /\ inQueue[i] \notin {"queueDirty", "queueRequestBulk"}
  <2>1. PICK i \in Match(t) : inQueue[i] \in {"queueRender", "queueRequest",
                                           "queueRequestPrio", "queueRequestLow"}
    BY <1>3, Zenon DEF pending
  <2>2. \A j \in Match(t) : j = i
    BY Zenon DEF Match, QueueInv, IndexInv
  <2> QED BY <2>1, <2>2, Zenon DEF Match
<1> QED BY <1>2, <1>3, Zenon

(* The next request is new: it is on no list, in no chain and newer than   *)
(* every request that is.                                                  *)
LEMMA NewRequest ==
    ASSUME QueueInv, arrived < MaxRequests
    PROVE  /\ arrived + 1 \in Request
           /\ life[arrived + 1] = "unborn"
           /\ arrived + 1 \notin index
           /\ \A r \in Request : life[r] # "unborn" => r < arrived + 1
<1>1. arrived \in 0..MaxRequests /\ MaxRequests \in Nat
  BY ConstantsAssumption, Zenon DEF QueueInv, QueueTypeOK
<1>2. arrived + 1 \in Request
  BY <1>1 DEF Request
<1>3. \A r \in Request : life[r] # "unborn" => r < arrived + 1
  BY <1>1 DEF QueueInv, BirthInv, Request
<1>4. life[arrived + 1] = "unborn"
  BY <1>1, <1>2 DEF QueueInv, BirthInv
<1> QED BY <1>2, <1>3, <1>4, Zenon DEF QueueInv, IndexInv

(* A request that is freed on arrival leaves the lists as they are. *)
LEMMA FreedOnArrival ==
    ASSUME QueueInv, NEW t \in Tile, Arrive(t),
           life' = [life EXCEPT ![arrived + 1] = "gone"],
           UNCHANGED <<fd, inQueue, originatedQueue, duplicates, queue, num,
                       rendering, index, thread>>,
           stats' = stats \/ stats' = [stats EXCEPT !.dropped = @ + 1]
    PROVE  QueueInv'
<1> DEFINE n == arrived + 1
<1>1. n \in Request /\ life[n] = "unborn" /\ n \notin index
  BY NewRequest, Zenon DEF Arrive
<1>2. QueueTypeOK'
  <2>1. arrived' \in 0..MaxRequests
    <3>1. arrived \in 0..MaxRequests
      BY Zenon DEF QueueInv, QueueTypeOK
    <3>2. arrived < MaxRequests /\ arrived' = arrived + 1
      BY Zenon DEF Arrive
    <3> QED BY <3>1, <3>2, ConstantsAssumption
  <2>2. stats' \in [render: [WaitQueue -> Nat], dropped: Nat, time: [WaitQueue -> Nat],
                    zoomRender: [Zoom -> Nat], zoomTime: [Zoom -> Nat]]
    <3>1. stats \in [render: [WaitQueue -> Nat], dropped: Nat, time: [WaitQueue -> Nat],
                     zoomRender: [Zoom -> Nat], zoomTime: [Zoom -> Nat]]
      BY Zenon DEF QueueInv, QueueTypeOK
    <3>2. CASE stats' = stats
      BY <3>1, <3>2, Zenon
    <3>3. CASE stats' = [stats EXCEPT !.dropped = @ + 1]
      BY <3>1, <3>3
    <3> QED BY <3>2, <3>3, Zenon
  <2>3. life' \in [Request -> {"unborn", "queued", "gone"}] /\ tile' \in [Request -> Tile]
    BY <1>1, Zenon DEF Arrive, QueueInv, QueueTypeOK
  <2> QED BY <2>1, <2>2, <2>3, Zenon DEF QueueInv, QueueTypeOK
<1>3. \A r \in Request : r # n => life'[r] = life[r] /\ tile'[r] = tile[r]
  BY Zenon DEF Arrive, QueueInv, QueueTypeOK
<1>4. life'[n] = "gone"
  BY <1>1, Zenon DEF QueueInv, QueueTypeOK
<1>5. \A q : In(q)' = In(q)
  BY <1>1, <1>3, <1>4, Zenon DEF In
<1>6. BirthInv'
  <2>1. arrived \in 0..MaxRequests /\ BirthInv
    BY Zenon DEF QueueInv, QueueTypeOK
  <2>2. arrived' = n
    BY Zenon DEF Arrive
  <2> SUFFICES ASSUME NEW r \in Request
               PROVE  /\ life'[r] = "unborn" <=> r > n
                      /\ life'[r] = "unborn" => duplicates[r] = <<>> /\ originatedQueue[r] = "none"
    BY <2>2, Zenon DEF BirthInv
  <2>3. CASE r = n
    BY <1>4, <2>1, <2>3
  <2>4. CASE r # n
    BY <1>3, <2>1, <2>4, ConstantsAssumption DEF BirthInv, Request
  <2> QED BY <2>3, <2>4, Zenon
<1>7. ListInv'
  BY <1>5, Zenon DEF QueueInv, ListInv, Limit, Increasing
<1>8. IndexInv'
  <2>1. rendering' = In("queueRender")'
    BY <1>5, Zenon DEF QueueInv, IndexInv
  <2>2. index \subseteq Request
    BY Zenon DEF QueueInv, QueueTypeOK
  <2>3. index' = {r \in Request : life'[r] = "queued" /\ inQueue'[r] # "queueDuplicate"}
    BY <1>1, <1>3, <1>4, <2>2, Zenon DEF QueueInv, IndexInv
  <2>4. \A r, s \in index' : tile'[r] = tile'[s] => r = s
    BY <1>1, <1>3, <2>2 DEF QueueInv, IndexInv
  <2> QED BY <2>1, <2>3, <2>4, Zenon DEF IndexInv
<1>9. OriginInv'
  BY Zenon DEF QueueInv, OriginInv
<1>10. ChainInv'
  <2>1. index \subseteq Request /\ duplicates \in [Request -> Seq(Request)] /\ ChainInv
    BY Zenon DEF QueueInv, QueueTypeOK
  <2>2. \A h \in index : \A r \in Range(duplicates[h]) : r \in Request
    BY <2>1, RangeOfChain, Zenon
  <2>3. \A h \in index : h # n /\ \A r \in Range(duplicates[h]) : r # n
    BY <1>1, <2>1, Zenon DEF ChainInv
  <2>4. \A h \in index : tile'[h] = tile[h]
    BY <1>3, <2>1, <2>3, Zenon
  <2>5. \A h \in index : \A r \in Range(duplicates[h]) : life'[r] = life[r] /\ tile'[r] = tile[r]
    BY <1>3, <2>2, <2>3, Zenon
  <2> QED BY <1>5, <2>1, <2>4, <2>5 DEF ChainInv, NoRepeats
<1>11. NoOvertaking'
  BY Zenon DEF QueueInv, NoOvertaking
<1> QED BY <1>2, <1>6, <1>7, <1>8, <1>9, <1>10, <1>11, Zenon DEF QueueInv

(* add_request puts a new request at the tail of a list with room, when    *)
(* pending has found no match.                                             *)
LEMMA EnqueueInv ==
    ASSUME QueueInv, NEW t \in Tile, NEW q \in WaitQueue, NEW f \in Fd \cup {FD_INVALID},
           Arrive(t), Match(t) = {}, num[q] < Limit(q),
           q = "queueDirty" => f = FD_INVALID,
           Enqueue(q, f)
    PROVE  QueueInv'
<1> DEFINE n == arrived + 1
<1>1. /\ n \in Request /\ life[n] = "unborn" /\ n \notin index
      /\ \A r \in Request : life[r] # "unborn" => r < n
  BY NewRequest, Zenon DEF Arrive
<1>2. QueueTypeOK /\ BirthInv /\ ListInv /\ IndexInv /\ OriginInv /\ ChainInv /\ NoOvertaking
  BY Zenon DEF QueueInv
<1>3. /\ life' = [life EXCEPT ![n] = "queued"]
      /\ fd' = [fd EXCEPT ![n] = f]
      /\ inQueue' = [inQueue EXCEPT ![n] = q]
      /\ originatedQueue' = [originatedQueue EXCEPT ![n] = q]
      /\ queue' = [queue EXCEPT ![q] = Append(@, n)]
      /\ num' = [num EXCEPT ![q] = @ + 1]
      /\ index' = index \cup {n}
      /\ duplicates' = duplicates /\ rendering' = rendering /\ stats' = stats
      /\ tile' = [tile EXCEPT ![n] = t]
      /\ arrived' = n
  BY Zenon DEF Enqueue, Link, Arrive
<1>4. thread' \in [Thread -> {"out", "blocked", "woken"}]
  <2>1. thread \in [Thread -> {"out", "blocked", "woken"}]
    BY <1>2, Zenon DEF QueueTypeOK
  <2> QED BY <2>1, Zenon DEF Enqueue, Signal
<1>5. QueueTypeOK'
  <2>1. arrived' \in 0..MaxRequests
    BY <1>1, <1>3 DEF Request
  <2>2. queue[q] \in Seq(Request)
    BY <1>2, Zenon DEF QueueTypeOK
  <2>3. Append(queue[q], n) \in Seq(Request)
    BY <1>1, <2>2, AppendToList, Zenon
  <2>4. /\ life' \in [Request -> {"unborn", "queued", "gone"}]
        /\ tile' \in [Request -> Tile]
        /\ fd' \in [Request -> Fd \cup {FD_INVALID}]
        /\ inQueue' \in [Request -> QueueEnum]
        /\ originatedQueue' \in [Request -> WaitQueue \cup {"none"}]
        /\ index' \in SUBSET Request
    BY <1>1, <1>2, <1>3, ZenonT(40) DEF QueueTypeOK
  <2>5. queue' \in [WaitQueue -> Seq(Request)]
    <3>1. queue \in [WaitQueue -> Seq(Request)]
      BY <1>2, Zenon DEF QueueTypeOK
    <3> QED BY <1>3, <2>3, <3>1, Zenon
  <2>6. num' \in [WaitQueue -> Nat]
    <3>1. num \in [WaitQueue -> Nat]
      BY <1>2, Zenon DEF QueueTypeOK
    <3> QED BY <1>3, <3>1
  <2> QED BY <1>2, <1>3, <1>4, <2>1, <2>4, <2>5, <2>6, Zenon DEF QueueTypeOK
<1>6. /\ \A r \in Request : r # n => /\ life'[r] = life[r] /\ tile'[r] = tile[r]
                                     /\ fd'[r] = fd[r] /\ inQueue'[r] = inQueue[r]
                                     /\ originatedQueue'[r] = originatedQueue[r]
      /\ life'[n] = "queued" /\ tile'[n] = t /\ fd'[n] = f
      /\ inQueue'[n] = q /\ originatedQueue'[n] = q
  BY <1>1, <1>2, <1>3 DEF QueueTypeOK
<1>7. \A p : In(p)' = IF p = q THEN In(p) \cup {n} ELSE In(p)
  BY <1>1, <1>6, Zenon DEF In
<1>8. /\ \A p \in WaitQueue : p # q => queue'[p] = queue[p] /\ num'[p] = num[p]
      /\ queue'[q] = Append(queue[q], n) /\ num'[q] = num[q] + 1
      /\ \A p \in WaitQueue : queue[p] \in Seq(Request) /\ num[p] \in Nat
  BY <1>2, <1>3, ZenonT(40) DEF QueueTypeOK
<1>9. /\ Range(queue'[q]) = Range(queue[q]) \cup {n}
      /\ Len(queue'[q]) = Len(queue[q]) + 1
      /\ Increasing(queue'[q])
  <2>1. Increasing(queue[q]) /\ \A y \in Range(queue[q]) : y < n
    BY <1>1, <1>2, Zenon DEF ListInv, In
  <2> QED BY <1>1, <1>8, <2>1, AppendToList, SMTT(30)
<1>10. BirthInv'
  <2> SUFFICES ASSUME NEW r \in Request
               PROVE  /\ life'[r] = "unborn" <=> r > n
                      /\ life'[r] = "unborn" => duplicates[r] = <<>> /\ originatedQueue'[r] = "none"
    BY <1>3, Zenon DEF BirthInv
  <2>1. CASE r = n
    BY <1>6, <2>1, <1>1, SMTT(30) DEF Request
  <2>2. CASE r # n
    <3>1. arrived \in 0..MaxRequests /\ MaxRequests \in Nat
      BY <1>2, ConstantsAssumption, Zenon DEF QueueTypeOK
    <3> QED BY <1>2, <1>6, <2>2, <3>1 DEF BirthInv, Request
  <2> QED BY <2>1, <2>2, Zenon
<1>11. ListInv'
  <2> SUFFICES ASSUME NEW p \in WaitQueue
               PROVE  /\ Range(queue'[p]) = In(p)'
                      /\ Increasing(queue'[p])
                      /\ num'[p] = Len(queue'[p])
                      /\ num'[p] <= Limit(p)
    BY Zenon DEF ListInv, Increasing, Limit
  <2>1. CASE p = q
    <3>1. Limit(q) \in Nat
      BY ConstantsAssumption, Zenon DEF Limit
    <3>2. num'[q] <= Limit(q)
      <4>1. num[q] \in Nat /\ num'[q] = num[q] + 1 /\ num[q] < Limit(q)
        BY <1>8, Zenon
      <4> QED BY <3>1, <4>1
    <3> QED BY <1>2, <1>7, <1>8, <1>9, <2>1, <3>2, Zenon DEF ListInv
  <2>2. CASE p # q
    BY <1>2, <1>7, <1>8, <2>2, Zenon DEF ListInv
  <2> QED BY <2>1, <2>2, Zenon
<1>12. IndexInv'
  <2>1. rendering' = In("queueRender")'
    BY <1>2, <1>3, <1>7, Zenon DEF IndexInv
  <2>2. index' = {r \in Request : life'[r] = "queued" /\ inQueue'[r] # "queueDuplicate"}
    BY <1>1, <1>2, <1>3, <1>6 DEF IndexInv
  <2>3. \A r \in index : r \in Request /\ r # n /\ tile[r] # t
    BY <1>1, <1>2, Zenon DEF Match, QueueTypeOK
  <2>4. \A r, s \in index' : tile'[r] = tile'[s] => r = s
    BY <1>2, <1>3, <1>6, <2>3 DEF IndexInv
  <2> QED BY <2>1, <2>2, <2>4, Zenon DEF IndexInv
<1>13. OriginInv'
  <2>1. \A r \in index : r \in Request /\ r # n
    BY <1>1, <1>2, Zenon DEF QueueTypeOK
  <2> QED BY <1>2, <1>3, <1>6, <2>1 DEF OriginInv
<1>14. ChainInv'
  <2>1. index \subseteq Request /\ duplicates \in [Request -> Seq(Request)]
    BY <1>2, Zenon DEF QueueTypeOK
  <2>2. duplicates[n] = <<>> /\ Range(<<>>) = {} /\ NoRepeats(<<>>)
    BY <1>1, <1>2 DEF BirthInv, Range, NoRepeats
  <2>3. \A h \in index : \A r \in Range(duplicates[h]) : r \in Request /\ r # n
    BY <1>1, <1>2, <2>1, RangeOfChain, Zenon DEF ChainInv
  <2>4. ASSUME NEW h \in index
        PROVE  /\ NoRepeats(duplicates[h])
               /\ inQueue'[h] \in {"queueDirty", "queueRequestBulk"} => duplicates[h] = <<>>
               /\ \A r \in Range(duplicates[h]) :
                     life'[r] = "queued" /\ inQueue'[r] = "queueDuplicate" /\ tile'[r] = tile'[h]
    <3>1. h \in Request /\ h # n
      BY <1>1, <2>1, Zenon
    <3> QED BY <1>2, <1>6, <2>3, <3>1 DEF ChainInv
  <2>5. In("queueDuplicate")' = In("queueDuplicate")
    BY <1>7, Zenon
  <2> QED BY <1>2, <1>3, <2>2, <2>4, <2>5 DEF ChainInv, NoRepeats
<1>15. NoOvertaking'
  <2> SUFFICES ASSUME NEW p \in WaitQueue, NEW s \in Range(queue'[p]), NEW r \in Request,
                      r > s, originatedQueue'[r] = p
               PROVE  r \in Range(queue'[p])
    BY Zenon DEF NoOvertaking
  <2>1. CASE r = n
    BY <1>6, <1>9, <2>1, Zenon
  <2>2. CASE r # n
    <3>1. s # n
      <4>1. originatedQueue[r] # "none"
        BY <1>6, <2>2, Zenon
      <4>2. r < n
        BY <1>1, <1>2, <4>1, Zenon DEF BirthInv
      <4> QED BY <1>1, <4>2, SMTT(30) DEF Request
    <3>2. s \in Range(queue[p])
      BY <1>8, <1>9, <3>1, ZenonT(60)
    <3>3. r \in Range(queue[p])
      BY <1>2, <1>6, <2>2, <3>2, Zenon DEF NoOvertaking
    <3> QED BY <1>8, <1>9, <3>3, ZenonT(40)
  <2> QED BY <2>1, <2>2, Zenon
<1> QED BY <1>5, <1>10, <1>11, <1>12, <1>13, <1>14, <1>15, Zenon DEF QueueInv

(* add_request chains a new request to the match pending has found. *)
LEMMA AddDuplicateInv ==
    ASSUME QueueInv, NEW t \in Tile, NEW c \in Cmd, NEW f \in Fd \cup {FD_INVALID},
           AddDuplicate(t, c, f)
    PROVE  QueueInv'
<1> DEFINE n == arrived + 1
<1>1. /\ n \in Request /\ life[n] = "unborn" /\ n \notin index
      /\ \A r \in Request : life[r] # "unborn" => r < n
  BY NewRequest, Zenon DEF AddDuplicate, Arrive
<1>2. QueueTypeOK /\ BirthInv /\ ListInv /\ IndexInv /\ OriginInv /\ ChainInv /\ NoOvertaking
  BY Zenon DEF QueueInv
<1>3. PICK m \in index : /\ Match(t) = {m}
                         /\ tile[m] = t
                         /\ inQueue[m] \notin {"queueDirty", "queueRequestBulk"}
  BY PendingMeaning, Zenon DEF AddDuplicate
<1>4. /\ life' = [life EXCEPT ![n] = "queued"]
      /\ fd' = [fd EXCEPT ![n] = f]
      /\ inQueue' = [inQueue EXCEPT ![n] = "queueDuplicate"]
      /\ duplicates' = [duplicates EXCEPT ![m] = <<n>> \o @]
      /\ tile' = [tile EXCEPT ![n] = t]
      /\ arrived' = n
      /\ UNCHANGED <<originatedQueue, queue, num, rendering, index, thread, stats>>
  BY <1>3, Zenon DEF AddDuplicate, Arrive
<1>5. m \in Request /\ m # n /\ duplicates[m] \in Seq(Request) /\ index \subseteq Request
  BY <1>1, <1>2, Zenon DEF QueueTypeOK
<1>6. n \notin Range(duplicates[m])
  BY <1>1, <1>2, Zenon DEF ChainInv
<1>7. /\ <<n>> \o duplicates[m] \in Seq(Request)
      /\ Range(<<n>> \o duplicates[m]) = {n} \cup Range(duplicates[m])
      /\ NoRepeats(<<n>> \o duplicates[m])
  BY <1>1, <1>2, <1>5, <1>6, PushOnChain, Zenon DEF ChainInv
<1>8. /\ \A r \in Request : r # n => /\ life'[r] = life[r] /\ tile'[r] = tile[r]
                                     /\ fd'[r] = fd[r] /\ inQueue'[r] = inQueue[r]
      /\ \A r \in Request : r # m => duplicates'[r] = duplicates[r]
      /\ duplicates'[m] = <<n>> \o duplicates[m]
      /\ life'[n] = "queued" /\ tile'[n] = t /\ fd'[n] = f /\ inQueue'[n] = "queueDuplicate"
  BY <1>1, <1>2, <1>4, <1>5, ZenonT(40) DEF QueueTypeOK
<1>9. \A p : In(p)' = IF p = "queueDuplicate" THEN In(p) \cup {n} ELSE In(p)
  BY <1>1, <1>8, Zenon DEF In
<1>10. QueueTypeOK'
  <2>1. arrived' \in 0..MaxRequests
    BY <1>1, <1>4 DEF Request
  <2>2. /\ life' \in [Request -> {"unborn", "queued", "gone"}]
        /\ tile' \in [Request -> Tile]
        /\ fd' \in [Request -> Fd \cup {FD_INVALID}]
        /\ inQueue' \in [Request -> QueueEnum]
        /\ duplicates' \in [Request -> Seq(Request)]
    BY <1>1, <1>2, <1>4, <1>7, Zenon DEF QueueTypeOK
  <2> QED BY <1>2, <1>4, <2>1, <2>2, Zenon DEF QueueTypeOK
<1>11. BirthInv'
  <2> SUFFICES ASSUME NEW r \in Request
               PROVE  /\ life'[r] = "unborn" <=> r > n
                      /\ life'[r] = "unborn" => duplicates'[r] = <<>> /\ originatedQueue[r] = "none"
    BY <1>4, Zenon DEF BirthInv
  <2>1. CASE r = n
    <3>1. life'[r] = "queued"
      BY <1>8, <2>1, Zenon
    <3>2. ~(r > n)
      BY <1>1, <2>1 DEF Request
    <3> QED BY <3>1, <3>2, Zenon
  <2>2. CASE r # n
    <3>1. arrived \in 0..MaxRequests /\ MaxRequests \in Nat
      BY <1>2, ConstantsAssumption, Zenon DEF QueueTypeOK
    <3>2. life[m] = "queued"
      BY <1>2, <1>3, Zenon DEF IndexInv
    <3>3. life'[r] = "unborn" => r # m /\ life[r] = "unborn"
      BY <1>8, <2>2, <3>2, Zenon
    <3> QED BY <1>2, <1>8, <2>2, <3>1, <3>3 DEF BirthInv, Request
  <2> QED BY <2>1, <2>2, Zenon
<1>12. ListInv'
  BY <1>2, <1>4, <1>9, Zenon DEF ListInv, Limit, Increasing
<1>13. IndexInv'
  <2>1. rendering' = In("queueRender")'
    BY <1>2, <1>4, <1>9, Zenon DEF IndexInv
  <2>2. index' = {r \in Request : life'[r] = "queued" /\ inQueue'[r] # "queueDuplicate"}
    BY <1>1, <1>2, <1>4, <1>8 DEF IndexInv
  <2>3. \A r, s \in index' : tile'[r] = tile'[s] => r = s
    BY <1>1, <1>2, <1>4, <1>5, <1>8 DEF IndexInv
  <2> QED BY <2>1, <2>2, <2>3, Zenon DEF IndexInv
<1>14. OriginInv'
  BY <1>1, <1>2, <1>4, <1>5, <1>8, SMTT(30) DEF OriginInv
<1>15. ChainInv'
  <2>1. duplicates \in [Request -> Seq(Request)]
    BY <1>2, Zenon DEF QueueTypeOK
  <2>2. \A h \in index : \A r \in Range(duplicates[h]) : r \in Request /\ r # n
    BY <1>1, <1>2, <1>5, <2>1, RangeOfChain, Zenon DEF ChainInv
  <2>3. ASSUME NEW h \in index
        PROVE  /\ NoRepeats(duplicates'[h])
               /\ inQueue'[h] \in {"queueDirty", "queueRequestBulk"} => duplicates'[h] = <<>>
               /\ \A r \in Range(duplicates'[h]) :
                     life'[r] = "queued" /\ inQueue'[r] = "queueDuplicate" /\ tile'[r] = tile'[h]
    <3>1. h \in Request /\ h # n
      BY <1>1, <1>5, Zenon
    <3>2. CASE h = m
      <4>1. duplicates'[h] = <<n>> \o duplicates[m]
        BY <1>8, <3>2, Zenon
      <4>2. inQueue'[h] \notin {"queueDirty", "queueRequestBulk"}
        BY <1>3, <1>8, <3>1, <3>2, Zenon
      <4>3. tile'[h] = t
        BY <1>3, <1>8, <3>1, <3>2, Zenon
      <4>4. ASSUME NEW r \in Range(duplicates[m])
            PROVE  life'[r] = "queued" /\ inQueue'[r] = "queueDuplicate" /\ tile'[r] = t
        BY <1>2, <1>3, <1>8, <2>2, SMTT(30) DEF ChainInv
      <4>5. life'[n] = "queued" /\ inQueue'[n] = "queueDuplicate" /\ tile'[n] = t
        BY <1>8, Zenon
      <4>6. NoRepeats(duplicates'[h]) /\ Range(duplicates'[h]) = {n} \cup Range(duplicates[m])
        BY <1>7, <4>1, Zenon
      <4>7. \A r \in Range(duplicates'[h]) :
               life'[r] = "queued" /\ inQueue'[r] = "queueDuplicate" /\ tile'[r] = tile'[h]
        BY <4>3, <4>4, <4>5, <4>6, Zenon
      <4> QED BY <4>2, <4>6, <4>7, Zenon
    <3>3. CASE h # m
      <4>1. /\ NoRepeats(duplicates[h])
            /\ inQueue[h] \in {"queueDirty", "queueRequestBulk"} => duplicates[h] = <<>>
            /\ \A r \in Range(duplicates[h]) :
                  life[r] = "queued" /\ inQueue[r] = "queueDuplicate" /\ tile[r] = tile[h]
        BY <1>2, Zenon DEF ChainInv
      <4>2. duplicates'[h] = duplicates[h] /\ inQueue'[h] = inQueue[h] /\ tile'[h] = tile[h]
        BY <1>8, <3>1, <3>3, Zenon
      <4>3. \A r \in Range(duplicates[h]) :
               life'[r] = life[r] /\ inQueue'[r] = inQueue[r] /\ tile'[r] = tile[r]
        BY <1>8, <2>2, Zenon
      <4> QED BY <4>1, <4>2, <4>3, Zenon
    <3> QED BY <3>2, <3>3, Zenon
  <2>4. ASSUME NEW r \in In("queueDuplicate")' PROVE \E h \in index : r \in Range(duplicates'[h])
    <3>1. CASE r = n
      BY <1>3, <1>7, <1>8, <3>1, ZenonT(40)
    <3>2. CASE r # n
      <4>1. PICK h \in index : r \in Range(duplicates[h])
        BY <1>2, <1>9, <2>4, <3>2, Zenon DEF ChainInv
      <4> QED BY <1>5, <1>7, <1>8, <4>1, ZenonT(60)
    <3> QED BY <3>1, <3>2, Zenon
  <2> QED BY <1>4, <2>3, <2>4, Zenon DEF ChainInv, NoRepeats
<1>16. NoOvertaking'
  BY <1>2, <1>4, Zenon DEF NoOvertaking
<1> QED BY <1>10, <1>11, <1>12, <1>13, <1>14, <1>15, <1>16, Zenon DEF QueueInv

(* fetch_request moves the oldest request of a list to the render list. *)
LEMMA FetchInv ==
    ASSUME QueueInv, NEW t \in Thread, NEW q \in WaitQueue, FetchFrom(t, q)
    PROVE  QueueInv'
<1> DEFINE h == Head(queue[q])
<1>1. QueueTypeOK /\ BirthInv /\ ListInv /\ IndexInv /\ OriginInv /\ ChainInv /\ NoOvertaking
  BY Zenon DEF QueueInv
<1>2. queue[q] \in Seq(Request) /\ Len(queue[q]) > 0 /\ Increasing(queue[q]) /\ num[q] \in Nat
      /\ num[q] = Len(queue[q]) /\ num[q] > 0 /\ num[q] <= Limit(q)
  BY <1>1, ZenonT(40) DEF FetchFrom, Served, QueueTypeOK, ListInv
<1>3. /\ h \in Range(queue[q])
      /\ Tail(queue[q]) \in Seq(Request)
      /\ Len(Tail(queue[q])) = Len(queue[q]) - 1
      /\ Range(Tail(queue[q])) = Range(queue[q]) \ {h}
      /\ Increasing(Tail(queue[q]))
      /\ \A y \in Range(Tail(queue[q])) : h < y
  BY <1>2, TailOfList, Zenon
<1>4. h \in Request /\ life[h] = "queued" /\ inQueue[h] = q /\ h \in index
  BY <1>1, <1>3 DEF ListInv, In, IndexInv
<1>5. /\ queue' = [queue EXCEPT ![q] = Tail(@)]
      /\ num' = [num EXCEPT ![q] = @ - 1]
      /\ rendering' = rendering \cup {h}
      /\ inQueue' = [inQueue EXCEPT ![h] = "queueRender"]
      /\ stats' = [stats EXCEPT !.render[q] = @ + 1]
      /\ thread' = [thread EXCEPT ![t] = "out"]
      /\ UNCHANGED <<arrived, life, tile, fd, originatedQueue, duplicates, index>>
  BY Zenon DEF FetchFrom
<1> HIDE DEF h
<1>6. QueueTypeOK'
  <2>1. queue' \in [WaitQueue -> Seq(Request)]
    <3>1. queue \in [WaitQueue -> Seq(Request)]
      BY <1>1, Zenon DEF QueueTypeOK
    <3> QED BY <1>3, <1>5, <3>1, Zenon
  <2>2. num' \in [WaitQueue -> Nat]
    <3>1. num \in [WaitQueue -> Nat] /\ num[q] - 1 \in Nat
      BY <1>1, <1>2 DEF QueueTypeOK
    <3> QED BY <1>5, <3>1, Zenon
  <2>3. stats' \in [render: [WaitQueue -> Nat], dropped: Nat, time: [WaitQueue -> Nat],
                    zoomRender: [Zoom -> Nat], zoomTime: [Zoom -> Nat]]
    <3>1. stats \in [render: [WaitQueue -> Nat], dropped: Nat, time: [WaitQueue -> Nat],
                     zoomRender: [Zoom -> Nat], zoomTime: [Zoom -> Nat]]
      BY <1>1, Zenon DEF QueueTypeOK
    <3>2. [stats.render EXCEPT ![q] = @ + 1] \in [WaitQueue -> Nat]
      BY <3>1
    <3>3. stats' = [stats EXCEPT !.render = [stats.render EXCEPT ![q] = @ + 1]]
      BY <1>5, <3>1, Zenon
    <3> QED BY <3>1, <3>2, <3>3, Zenon
  <2>4. inQueue' \in [Request -> QueueEnum] /\ rendering' \in SUBSET Request
    BY <1>1, <1>4, <1>5, Zenon DEF QueueTypeOK
  <2>5. thread' \in [Thread -> {"out", "blocked", "woken"}]
    BY <1>1, <1>5, Zenon DEF QueueTypeOK
  <2> QED BY <1>1, <1>5, <2>1, <2>2, <2>3, <2>4, <2>5, Zenon DEF QueueTypeOK
<1>7. /\ \A r \in Request : r # h => inQueue'[r] = inQueue[r]
      /\ inQueue'[h] = "queueRender"
  BY <1>1, <1>4, <1>5, Zenon DEF QueueTypeOK
<1>8. \A p \in QueueEnum :
         In(p)' = IF p = q THEN In(p) \ {h}
                  ELSE IF p = "queueRender" THEN In(p) \cup {h} ELSE In(p)
  BY <1>4, <1>5, <1>7, Zenon DEF In
<1>9. /\ \A p \in WaitQueue : p # q => queue'[p] = queue[p] /\ num'[p] = num[p]
      /\ queue'[q] = Tail(queue[q]) /\ num'[q] = num[q] - 1
  BY <1>1, <1>5, Zenon DEF QueueTypeOK
<1>10. BirthInv'
  BY <1>1, <1>5, Zenon DEF BirthInv
<1>11. ListInv'
  <2> SUFFICES ASSUME NEW p \in WaitQueue
               PROVE  /\ Range(queue'[p]) = In(p)'
                      /\ Increasing(queue'[p])
                      /\ num'[p] = Len(queue'[p])
                      /\ num'[p] <= Limit(p)
    BY Zenon DEF ListInv, Increasing, Limit
  <2>1. CASE p = q
    <3>1. num'[q] <= Limit(q)
      <4>1. Limit(q) \in Nat
        BY ConstantsAssumption, Zenon DEF Limit
      <4> QED BY <1>2, <1>9, <4>1
    <3>2. Range(queue'[q]) = In(q)'
      BY <1>1, <1>3, <1>8, <1>9, Zenon DEF ListInv
    <3> QED BY <1>2, <1>3, <1>9, <2>1, <3>1, <3>2, Zenon
  <2>2. CASE p # q
    BY <1>1, <1>8, <1>9, <2>2, Zenon DEF ListInv
  <2> QED BY <2>1, <2>2, Zenon
<1>12. IndexInv'
  <2>1. rendering' = In("queueRender")'
    BY <1>1, <1>5, <1>8, Zenon DEF IndexInv
  <2>2. index' = {r \in Request : life'[r] = "queued" /\ inQueue'[r] # "queueDuplicate"}
    BY <1>1, <1>4, <1>5, <1>7, Zenon DEF IndexInv
  <2> QED BY <1>1, <1>5, <2>1, <2>2, Zenon DEF IndexInv
<1>13. OriginInv'
  <2>1. index \subseteq Request
    BY <1>1, Zenon DEF QueueTypeOK
  <2> QED BY <1>1, <1>5, <1>7, <2>1, Zenon DEF OriginInv
<1>14. ChainInv'
  <2>1. index \subseteq Request /\ duplicates \in [Request -> Seq(Request)]
    BY <1>1, Zenon DEF QueueTypeOK
  <2>2. \A g \in index : \A r \in Range(duplicates[g]) : r \in Request /\ r # h
    BY <1>1, <1>4, <2>1, RangeOfChain, Zenon DEF ChainInv
  <2>3. In("queueDuplicate")' = In("queueDuplicate")
    BY <1>8, Zenon
  <2>4. ASSUME NEW g \in index
        PROVE  /\ NoRepeats(duplicates[g])
               /\ inQueue'[g] \in {"queueDirty", "queueRequestBulk"} => duplicates[g] = <<>>
               /\ \A r \in Range(duplicates[g]) :
                     life[r] = "queued" /\ inQueue'[r] = "queueDuplicate" /\ tile[r] = tile[g]
    BY <1>1, <1>7, <2>1, <2>2, ZenonT(40) DEF ChainInv
  <2> QED BY <1>1, <1>5, <2>3, <2>4 DEF ChainInv, NoRepeats
<1>15. NoOvertaking'
  <2> SUFFICES ASSUME NEW p \in WaitQueue, NEW s \in Range(queue'[p]), NEW r \in Request,
                      r > s, originatedQueue[r] = p
               PROVE  r \in Range(queue'[p])
    BY <1>5, ZenonT(40) DEF NoOvertaking
  <2>1. CASE p # q
    BY <1>1, <1>9, <2>1, Zenon DEF NoOvertaking
  <2>2. CASE p = q
    <3>1. s \in Range(queue[q]) /\ h < s
      BY <1>3, <1>9, <2>2, Zenon
    <3>2. r \in Range(queue[q])
      BY <1>1, <2>2, <3>1, Zenon DEF NoOvertaking
    <3>3. s \in Request
      BY <1>2, <3>1, RangeOfChain, Zenon
    <3>4. r # h
      BY <1>4, <3>1, <3>3 DEF Request
    <3> QED BY <1>3, <1>9, <2>2, <3>2, <3>4, Zenon
  <2> QED BY <2>1, <2>2, Zenon
<1> QED BY <1>6, <1>10, <1>11, <1>12, <1>13, <1>14, <1>15, Zenon DEF QueueInv

(* remove_request takes a request and its whole chain out of the queue, and *)
(* out of the index only that request.                                      *)
LEMMA RemoveInv ==
    ASSUME QueueInv, NEW r \in Request, NEW time \in RenderTime,
           request_queue_remove_request(r, time)
    PROVE  QueueInv'
<1>1. QueueTypeOK /\ BirthInv /\ ListInv /\ IndexInv /\ OriginInv /\ ChainInv /\ NoOvertaking
  BY Zenon DEF QueueInv
<1>2. /\ r \in index /\ life[r] = "queued" /\ inQueue[r] = "queueRender"
      /\ duplicates[r] \in Seq(Request) /\ index \subseteq Request
  BY <1>1, Zenon DEF request_queue_remove_request, QueueTypeOK, IndexInv, In
<1>3. Match(tile[r]) = {r}
  BY <1>1, <1>2, Zenon DEF Match, IndexInv
<1>4. Range(Chain(r)) = {r} \cup Range(duplicates[r])
  BY <1>2, PushOnChain, Zenon DEF Chain
<1>5. \A d \in Range(duplicates[r]) :
         d \in Request /\ life[d] = "queued" /\ inQueue[d] = "queueDuplicate" /\ tile[d] = tile[r]
  BY <1>1, <1>2, RangeOfChain, Zenon DEF ChainInv
<1>6. /\ rendering' = rendering \ {r}
      /\ index' = index \ {r}
      /\ UNCHANGED <<arrived, tile, fd, inQueue, originatedQueue, duplicates, queue, num, thread>>
      /\ life' \in [Request -> {"unborn", "queued", "gone"}]
      /\ \A i \in Request : life'[i] = IF i = r \/ i \in Range(duplicates[r])
                                       THEN "gone" ELSE life[i]
  BY <1>1, <1>3, <1>4, Zenon DEF request_queue_remove_request, remove_item_idx, QueueTypeOK
<1>7. stats' \in [render: [WaitQueue -> Nat], dropped: Nat, time: [WaitQueue -> Nat],
                  zoomRender: [Zoom -> Nat], zoomTime: [Zoom -> Nat]]
  <2>1. stats \in [render: [WaitQueue -> Nat], dropped: Nat, time: [WaitQueue -> Nat],
                   zoomRender: [Zoom -> Nat], zoomTime: [Zoom -> Nat]]
    BY <1>1, Zenon DEF QueueTypeOK
  <2>2. CASE ~(time > 0)
    BY <2>1, <2>2, Zenon DEF request_queue_remove_request, Credit
  <2>3. CASE time > 0
    <3> DEFINE o == originatedQueue[r]  z == ZoomOf[tile[r]]
    <3>1. time \in Nat
      BY <2>3, ConstantsAssumption
    <3>2. /\ [stats.time EXCEPT ![o] = @ + time] \in [WaitQueue -> Nat]
          /\ [stats.zoomRender EXCEPT ![z] = @ + 1] \in [Zoom -> Nat]
          /\ [stats.zoomTime EXCEPT ![z] = @ + time] \in [Zoom -> Nat]
      <4>0. o \in WaitQueue /\ z \in Zoom
        BY <1>1, <1>2, ConstantsAssumption, Zenon DEF OriginInv, QueueTypeOK
      <4> HIDE DEF o, z
      <4>1. stats.time \in [WaitQueue -> Nat] /\ stats.zoomRender \in [Zoom -> Nat]
            /\ stats.zoomTime \in [Zoom -> Nat]
        BY <2>1, Zenon
      <4> QED BY <3>1, <4>0, <4>1, AddToCounter, Zenon
    <3>3. stats' = [stats EXCEPT !.time = [stats.time EXCEPT ![o] = @ + time],
                                 !.zoomRender = [stats.zoomRender EXCEPT ![z] = @ + 1],
                                 !.zoomTime = [stats.zoomTime EXCEPT ![z] = @ + time]]
      BY <2>1, <2>3, Zenon DEF request_queue_remove_request, Credit
    <3> QED BY <2>1, <3>2, <3>3, Zenon
  <2> QED BY <2>2, <2>3, Zenon
<1>8. QueueTypeOK'
  BY <1>1, <1>6, <1>7, ZenonT(60) DEF QueueTypeOK
<1>9. \A p \in WaitQueue : In(p)' = In(p)
  BY <1>2, <1>5, <1>6, Zenon DEF In
<1>10. BirthInv'
  BY <1>1, <1>2, <1>5, <1>6, Zenon DEF BirthInv
<1>11. ListInv'
  BY <1>1, <1>6, <1>9, Zenon DEF ListInv, Limit, Increasing
<1>12. IndexInv'
  <2>1. rendering' = In("queueRender")'
    BY <1>1, <1>5, <1>6, Zenon DEF IndexInv, In
  <2>2. index' = {i \in Request : life'[i] = "queued" /\ inQueue'[i] # "queueDuplicate"}
    BY <1>1, <1>5, <1>6, Zenon DEF IndexInv
  <2> QED BY <1>1, <1>6, <2>1, <2>2, Zenon DEF IndexInv
<1>13. OriginInv'
  BY <1>1, <1>6, Zenon DEF OriginInv
<1>14. ChainInv'
  <2>1. ASSUME NEW g \in index, g # r, NEW d \in Range(duplicates[g])
        PROVE  d \in Request /\ life'[d] = "queued"
    <3>1. duplicates[g] \in Seq(Request) /\ g \in Request
      BY <1>1, <1>2, Zenon DEF QueueTypeOK
    <3>2. d \in Request /\ life[d] = "queued" /\ inQueue[d] = "queueDuplicate" /\ tile[d] = tile[g]
      BY <1>1, <2>1, <3>1, RangeOfChain, Zenon DEF ChainInv
    <3>3. tile[g] # tile[r]
      BY <1>1, <1>2, <2>1, Zenon DEF IndexInv
    <3>4. d # r /\ d \notin Range(duplicates[r])
      BY <1>2, <1>5, <3>2, <3>3, Zenon
    <3> QED BY <1>6, <3>2, <3>4, Zenon
  <2>2. ASSUME NEW d \in In("queueDuplicate")' PROVE \E g \in index' : d \in Range(duplicates'[g])
    <3>1. d \in Request /\ d \notin Range(duplicates[r]) /\ d \in In("queueDuplicate")
      BY <1>6, <2>2, Zenon DEF In
    <3>2. PICK g \in index : d \in Range(duplicates[g])
      BY <1>1, <3>1, Zenon DEF ChainInv
    <3> QED BY <1>6, <3>1, <3>2, Zenon
  <2>3. ASSUME NEW g \in index'
        PROVE  /\ NoRepeats(duplicates'[g])
               /\ inQueue'[g] \in {"queueDirty", "queueRequestBulk"} => duplicates'[g] = <<>>
               /\ \A d \in Range(duplicates'[g]) :
                     life'[d] = "queued" /\ inQueue'[d] = "queueDuplicate" /\ tile'[d] = tile'[g]
    BY <1>1, <1>6, <2>1 DEF ChainInv
  <2> QED BY <2>2, <2>3, Zenon DEF ChainInv, NoRepeats
<1>15. NoOvertaking'
  BY <1>1, <1>6, ZenonT(40) DEF NoOvertaking
<1> QED BY <1>8, <1>10, <1>11, <1>12, <1>13, <1>14, <1>15, Zenon DEF QueueInv

(* A step that changes only where threads wait, or descriptors to          *)
(* FD_INVALID, keeps the invariant.                                        *)
LEMMA OtherInv ==
    ASSUME QueueInv,
           UNCHANGED <<arrived, life, tile, inQueue, originatedQueue, duplicates,
                       queue, num, rendering, index, stats>>,
           thread' \in [Thread -> {"out", "blocked", "woken"}],
           fd' \in [Request -> Fd \cup {FD_INVALID}],
           \A r \in Request : fd'[r] \in {fd[r], FD_INVALID}
    PROVE  QueueInv'
<1>1. QueueTypeOK'
  BY ZenonT(60) DEF QueueInv, QueueTypeOK
<1>2. BirthInv' /\ ListInv' /\ IndexInv'
  BY DEF QueueInv, BirthInv, ListInv, IndexInv, In, Limit, Increasing
<1>3. OriginInv'
  BY ZenonT(40) DEF QueueInv, OriginInv, QueueTypeOK
<1>4. ChainInv' /\ NoOvertaking'
  BY DEF QueueInv, ChainInv, NoOvertaking, In, NoRepeats
<1> QED BY <1>1, <1>2, <1>3, <1>4, Zenon DEF QueueInv

(* Every step of the queue keeps the invariant. *)
LEMMA NextInv == QueueInv /\ [QueueNext]_queueVars => QueueInv'
<1> SUFFICES ASSUME QueueInv, [QueueNext]_queueVars PROVE QueueInv'
  BY Zenon
<1>0. /\ thread \in [Thread -> {"out", "blocked", "woken"}]
      /\ fd \in [Request -> Fd \cup {FD_INVALID}]
  BY Zenon DEF QueueInv, QueueTypeOK
<1>1. ASSUME NEW t \in Tile, NEW c \in ClientCmd, NEW f \in Fd,
             request_queue_add_request(t, c, ItemFd(c, f))
      PROVE  QueueInv'
  <2> DEFINE g == ItemFd(c, f)
  <2>1. c \in Cmd /\ g \in Fd \cup {FD_INVALID}
    BY ConstantsAssumption, Zenon DEF ItemFd
  <2>2. CASE AddMatchesDirty(t, c, g)
    BY <2>2, FreedOnArrival, Zenon DEF AddMatchesDirty
  <2>3. CASE AddDuplicate(t, c, g)
    BY <2>1, <2>3, AddDuplicateInv, Zenon
  <2>4. CASE AddToList(t, c, g)
    <3>1. Match(t) = {} /\ Arrive(t) /\ Enqueue(ListFor(c), g) /\ HasRoom(c)
      BY <2>4, PendingMeaning, Zenon DEF AddToList
    <3>2. /\ ListFor(c) \in WaitQueue /\ ListFor(c) # "queueDirty"
          /\ num[ListFor(c)] < REQ_LIMIT
      BY <2>1, <3>1, Zenon DEF HasRoom, ListFor
    <3>3. num[ListFor(c)] < Limit(ListFor(c))
      BY <3>2, Zenon DEF Limit
    <3> QED BY <2>1, <3>1, <3>2, <3>3, EnqueueInv, Zenon
  <2>5. CASE AddToDirty(t, c, g)
    <3>1. Match(t) = {} /\ Arrive(t) /\ Enqueue("queueDirty", FD_INVALID)
          /\ num["queueDirty"] < Limit("queueDirty")
      BY <2>5, PendingMeaning, Zenon DEF AddToDirty, DirtyHasRoom, Limit
    <3> QED BY <3>1, EnqueueInv, Zenon
  <2>6. CASE AddDropped(t, c, g)
    BY <2>6, FreedOnArrival, Zenon DEF AddDropped
  <2> QED BY <1>1, <2>2, <2>3, <2>4, <2>5, <2>6, Zenon DEF request_queue_add_request
<1>2. ASSUME NEW t \in Thread, FetchBlocks(t) PROVE QueueInv'
  BY <1>0, <1>2, OtherInv, Zenon DEF FetchBlocks, itemVars
<1>3. ASSUME NEW t \in Thread, NEW q \in WaitQueue, FetchFrom(t, q) PROVE QueueInv'
  BY <1>3, FetchInv, Zenon
<1>4. ASSUME NEW t \in Thread, SpuriousWakeup(t) PROVE QueueInv'
  BY <1>0, <1>4, OtherInv, Zenon DEF SpuriousWakeup, itemVars
<1>5. ASSUME NEW r \in Request, NEW time \in RenderTime, request_queue_remove_request(r, time)
      PROVE  QueueInv'
  BY <1>5, RemoveInv, Zenon
<1>6. ASSUME NEW f \in Fd, request_queue_clear_requests_by_fd(f) PROVE QueueInv'
  BY <1>0, <1>6, OtherInv, Zenon DEF request_queue_clear_requests_by_fd
<1>7. CASE UNCHANGED queueVars
  BY <1>0, <1>7, OtherInv, Zenon DEF queueVars, itemVars
<1> QED BY <1>1, <1>2, <1>3, <1>4, <1>5, <1>6, <1>7, Zenon DEF QueueNext

(* The invariant holds in every state of the queue. *)
THEOREM QueueInvariant == QueueSpec => []QueueInv
BY InitInv, NextInv, PTL DEF QueueSpec

-----------------------------------------------------------------------------
(* What follows from it *)

(* The requests on the lists are those the index is made of. *)
LEMMA ListedIsIndex == QueueInv => Listed = index
<1> SUFFICES ASSUME QueueInv PROVE Listed = index
  BY Zenon
<1>1. \A r \in Request : inQueue[r] \in QueueEnum
  BY Zenon DEF QueueInv, QueueTypeOK
<1>2. \A q \in WaitQueue : Range(queue[q]) = In(q)
  BY Zenon DEF QueueInv, ListInv
<1> QED BY <1>1, <1>2 DEF Listed, QueueInv, IndexInv, In

(* No metatile is queued or rendered twice, and lookup_item_idx sees       *)
(* exactly the requests on the lists.                                      *)
THEOREM NoTileTwice == QueueSpec => [](OneListedPerTile /\ IndexExact)
<1>1. QueueInv => OneListedPerTile /\ IndexExact
  BY ListedIsIndex, Zenon DEF QueueInv, IndexInv, OneListedPerTile, IndexExact
<1> QED BY <1>1, QueueInvariant, PTL

(* The counters of the lists are right and the limits are kept. *)
THEOREM CountsAreExact == QueueSpec => []CountsExact
<1>1. QueueInv => CountsExact
  BY Zenon DEF QueueInv, ListInv, CountsExact, Limit
<1> QED BY <1>1, QueueInvariant, PTL

(* Every request the queue owns is in one place and will be answered from  *)
(* there, once.                                                            *)
THEOREM EveryRequestOwnedOnce == QueueSpec => []OwnedOnce
<1>1. QueueInv => OwnedOnce
  <2> SUFFICES ASSUME QueueInv, NEW r \in Request
               PROVE  /\ life[r] = "queued" =>
                            \/ r \in Listed /\ \A h \in Listed : r \notin Range(duplicates[h])
                            \/ r \notin Listed /\ \E h \in Listed :
                                   /\ r \in Range(duplicates[h])
                                   /\ tile[h] = tile[r]
                                   /\ \A g \in Listed \ {h} : r \notin Range(duplicates[g])
                      /\ life[r] # "queued" =>
                            r \notin Listed /\ \A h \in Listed : r \notin Range(duplicates[h])
    BY Zenon DEF OwnedOnce
  <2>1. Listed = index /\ IndexInv /\ ChainInv
    BY ListedIsIndex, Zenon DEF QueueInv
  <2>2. \A h \in Listed : r \in Range(duplicates[h]) =>
           life[r] = "queued" /\ inQueue[r] = "queueDuplicate" /\ tile[r] = tile[h]
    BY <2>1, Zenon DEF ChainInv
  <2>3. r \in Listed <=> life[r] = "queued" /\ inQueue[r] # "queueDuplicate"
    BY <2>1, Zenon DEF IndexInv
  <2>4. CASE life[r] = "queued" /\ inQueue[r] = "queueDuplicate"
    <3>1. PICK h \in Listed : r \in Range(duplicates[h])
      BY <2>1, <2>4, Zenon DEF ChainInv, In
    <3>2. \A g \in Listed \ {h} : r \notin Range(duplicates[g])
      BY <2>1, <2>2, <3>1, Zenon DEF IndexInv
    <3> QED BY <2>2, <2>3, <2>4, <3>1, <3>2, Zenon
  <2> QED BY <2>2, <2>3, <2>4, Zenon
<1> QED BY <1>1, QueueInvariant, PTL

(* The dirty list needs no clearing: nothing on it has a descriptor. *)
LEMMA DirtyNoFd == QueueInv => DirtyHasNoFd
<1> SUFFICES ASSUME QueueInv, NEW h \in Range(queue["queueDirty"]), NEW r \in Range(Chain(h))
             PROVE  fd[r] = FD_INVALID
  BY Zenon DEF DirtyHasNoFd
<1>1. h \in Request /\ life[h] = "queued" /\ inQueue[h] = "queueDirty"
  BY Zenon DEF QueueInv, ListInv, In
<1>2. h \in index
  BY <1>1, Zenon DEF QueueInv, IndexInv
<1>3. duplicates[h] = <<>> /\ fd[h] = FD_INVALID
  BY <1>1, <1>2, Zenon DEF QueueInv, ChainInv, OriginInv
<1>4. Range(Chain(h)) = {h}
  <2>1. duplicates[h] \in Seq(Request) /\ Range(duplicates[h]) = {}
    BY <1>3 DEF Range
  <2> QED BY <1>1, <2>1, PushOnChain DEF Chain
<1> QED BY <1>3, <1>4, Zenon

(* In every state of the queue no request on the dirty list has a          *)
(* descriptor, which is why clear_requests_by_fd may leave that list out.  *)
THEOREM DirtyListNeedsNoClearing == QueueSpec => []DirtyHasNoFd
BY DirtyNoFd, QueueInvariant, PTL

(* Requests leave a list in the order in which they came. *)
THEOREM FirstComeFirstServed == QueueSpec => []NoOvertaking
<1>1. QueueInv => NoOvertaking
  BY Zenon DEF QueueInv
<1> QED BY <1>1, QueueInvariant, PTL

(* clear_requests_by_fd(f) leaves no request of the queue with f: it walks *)
(* the lists with their chains, and what it skips has no descriptor.       *)
LEMMA ClearedByFd ==
    ASSUME QueueInv, NEW f \in Fd, request_queue_clear_requests_by_fd(f),
           NEW r \in Request, life'[r] = "queued"
    PROVE  fd'[r] # f
<1>1. /\ fd'[r] = IF r \in Visited /\ fd[r] = f THEN FD_INVALID ELSE fd[r]
      /\ life[r] = "queued"
  BY Zenon DEF request_queue_clear_requests_by_fd
<1>2. FD_INVALID # f
  BY ConstantsAssumption, Zenon
<1>3. ASSUME NEW h \in index
      PROVE  /\ Range(Chain(h)) = {h} \cup Range(duplicates[h])
             /\ h \in ClearedHeads \/ h \in Range(queue["queueDirty"])
  <2>1. h \in Request /\ duplicates[h] \in Seq(Request)
    BY Zenon DEF QueueInv, QueueTypeOK
  <2>2. h \in Listed
    BY ListedIsIndex, Zenon
  <2> QED BY <2>1, <2>2, PushOnChain DEF Chain, Listed, ClearedHeads
<1>4. PICK h \in index : r \in Range(Chain(h))
  <2>1. CASE inQueue[r] = "queueDuplicate"
    <3>1. PICK h \in index : r \in Range(duplicates[h])
      BY <1>1, <2>1, Zenon DEF QueueInv, ChainInv, In
    <3> QED BY <1>3, <3>1, Zenon
  <2>2. CASE inQueue[r] # "queueDuplicate"
    BY <1>1, <1>3, <2>2, Zenon DEF QueueInv, IndexInv
  <2> QED BY <2>1, <2>2, Zenon
<1>5. CASE h \in ClearedHeads
  BY <1>1, <1>2, <1>4, <1>5, Zenon DEF Visited
<1>6. CASE h \in Range(queue["queueDirty"])
  BY <1>1, <1>2, <1>4, <1>6, DirtyNoFd, Zenon DEF DirtyHasNoFd
<1> QED BY <1>3, <1>5, <1>6, Zenon

(* After clear_requests_by_fd(f) no request of the queue refers to f, the  *)
(* ones in chains and the ones on the dirty list included.                 *)
THEOREM ClearingIsComplete == QueueSpec => ClearIsComplete
<1> DEFINE A == \A f \in Fd : request_queue_clear_requests_by_fd(f) =>
                   \A r \in Request : life'[r] = "queued" => fd'[r] # f
<1>1. QueueInv => A
  BY ClearedByFd, Zenon
<1> QED BY <1>1, QueueInvariant, PTL DEF ClearIsComplete

(* No request is ever chained to one that has been removed. *)
THEOREM NoDuplicateAfterRemoval == QueueSpec => NoLateDuplicate
<1> DEFINE A == \A r \in Request : life[r] = "gone" => duplicates'[r] = duplicates[r]
<1>1. QueueInv /\ [QueueNext]_queueVars => A
  <2> SUFFICES ASSUME QueueInv, [QueueNext]_queueVars, NEW r \in Request, life[r] = "gone"
               PROVE  duplicates'[r] = duplicates[r]
    BY Zenon
  <2>1. duplicates \in [Request -> Seq(Request)] /\ r \notin index
    BY Zenon DEF QueueInv, QueueTypeOK, IndexInv
  <2>2. ASSUME NEW t \in Tile, NEW c \in ClientCmd, NEW f, request_queue_add_request(t, c, f)
        PROVE  duplicates'[r] = duplicates[r]
    BY <2>1, <2>2, Zenon DEF request_queue_add_request, AddMatchesDirty, AddDuplicate, AddToList,
                      AddToDirty, AddDropped, Enqueue, Match
  <2>3. CASE UNCHANGED duplicates
    BY <2>3, Zenon
  <2> QED BY <2>2, <2>3, Zenon DEF QueueNext, FetchBlocks, FetchFrom, SpuriousWakeup, itemVars, queueVars,
                            request_queue_remove_request, request_queue_clear_requests_by_fd
<1> QED BY <1>1, QueueInvariant, PTL DEF NoLateDuplicate, QueueSpec

-----------------------------------------------------------------------------
(* Wakeups *)

(* What is used of Cardinality. *)
ThreadsCounted ==
    \A X \in SUBSET Thread :
        /\ Cardinality(X) \in Nat
        /\ \A t \in Thread \ X : Cardinality(X \cup {t}) = Cardinality(X) + 1
        /\ \A t \in X : Cardinality(X \ {t}) = Cardinality(X) - 1

(* Moving a thread into or out of the set of woken threads changes its     *)
(* size by one.                                                            *)
LEMMA WokenCount ==
    ASSUME ThreadsCounted, thread \in [Thread -> {"out", "blocked", "woken"}], NEW t \in Thread
    PROVE  /\ Cardinality(Woken) \in Nat
           /\ thread[t] # "woken" /\ thread' = [thread EXCEPT ![t] = "woken"] =>
                 Cardinality(Woken') = Cardinality(Woken) + 1
           /\ thread' = [thread EXCEPT ![t] = "out"] \/ thread' = [thread EXCEPT ![t] = "blocked"] =>
                 Cardinality(Woken') = IF thread[t] = "woken" THEN Cardinality(Woken) - 1
                                       ELSE Cardinality(Woken)
<1>1. Woken \in SUBSET Thread
  BY Zenon DEF Woken
<1>2. ASSUME thread[t] # "woken", thread' = [thread EXCEPT ![t] = "woken"]
      PROVE  Cardinality(Woken') = Cardinality(Woken) + 1
  <2>1. t \notin Woken /\ Woken' = Woken \cup {t}
    BY <1>2, Zenon DEF Woken
  <2> QED BY <1>1, <2>1, Zenon DEF ThreadsCounted
<1>3. ASSUME thread' = [thread EXCEPT ![t] = "out"] \/ thread' = [thread EXCEPT ![t] = "blocked"]
      PROVE  Cardinality(Woken') = IF thread[t] = "woken" THEN Cardinality(Woken) - 1
                                   ELSE Cardinality(Woken)
  <2>1. Woken' = Woken \ {t}
    BY <1>3, Zenon DEF Woken
  <2>2. CASE thread[t] = "woken"
    <3>1. t \in Woken
      BY <2>2, Zenon DEF Woken
    <3> QED BY <1>1, <2>1, <2>2, <3>1, Zenon DEF ThreadsCounted
  <2>3. CASE thread[t] # "woken"
    <3>1. Woken' = Woken
      BY <2>1, <2>3, Zenon DEF Woken
    <3> QED BY <2>3, <3>1, Zenon
  <2> QED BY <2>2, <2>3, Zenon
<1>4. Cardinality(Woken) \in Nat
  BY <1>1, Zenon DEF ThreadsCounted
<1> QED BY <1>2, <1>3, <1>4, Zenon

(* A thread blocked on qCond never misses work: the cond_signal of every   *)
(* add_request, together with the loop around cond_wait, keeps as many     *)
(* threads awake as there are requests waiting.                            *)
LEMMA WakeupNext ==
    ASSUME ThreadsCounted, QueueInv, NoLostWakeup, [QueueNext]_queueVars
    PROVE  NoLostWakeup'
<1> SUFFICES ASSUME Blocked' # {} PROVE Queued' <= Cardinality(Woken')
  BY Zenon DEF NoLostWakeup
<1>1. /\ thread \in [Thread -> {"out", "blocked", "woken"}]
      /\ num \in [WaitQueue -> Nat]
  BY Zenon DEF QueueInv, QueueTypeOK
<1>2. Queued \in Nat
  BY <1>1 DEF Queued
<1>3. ASSUME NEW q \in WaitQueue, NEW f, Enqueue(q, f) PROVE Queued' <= Cardinality(Woken')
  <2>1. Queued' = Queued + 1
    <3>1. num' = [num EXCEPT ![q] = @ + 1]
      BY <1>3, Zenon DEF Enqueue
    <3> QED BY <1>1, <3>1 DEF Queued
  <2>2. CASE (\A t \in Thread : thread[t] # "blocked") /\ UNCHANGED thread
    BY <2>2, Zenon DEF Blocked
  <2>3. ASSUME NEW t \in Thread, thread[t] = "blocked", thread' = [thread EXCEPT ![t] = "woken"]
        PROVE  Queued' <= Cardinality(Woken')
    <3>1. Cardinality(Woken') = Cardinality(Woken) + 1 /\ Cardinality(Woken) \in Nat
      BY <1>1, <2>3, WokenCount, ZenonT(40)
    <3>2. Blocked # {}
      BY <2>3, Zenon DEF Blocked
    <3> QED BY <1>2, <2>1, <3>1, <3>2 DEF NoLostWakeup
  <2> QED BY <1>3, <2>2, <2>3, Zenon DEF Enqueue, Signal
<1>4. ASSUME NEW t \in Thread, FetchBlocks(t) PROVE Queued' <= Cardinality(Woken')
  <2>1. Queued' = 0
    BY <1>4 DEF FetchBlocks, AllEmpty, Queued
  <2>2. Cardinality(Woken') \in Nat
    <3>1. thread' \in [Thread -> {"out", "blocked", "woken"}] /\ Woken' \in SUBSET Thread
      BY <1>1, <1>4, Zenon DEF FetchBlocks, Woken
    <3> QED BY <3>1, Zenon DEF ThreadsCounted
  <2> QED BY <2>1, <2>2
<1>5. ASSUME NEW t \in Thread, NEW q \in WaitQueue, FetchFrom(t, q)
      PROVE  Queued' <= Cardinality(Woken')
  <2>1. Queued' = Queued - 1
    <3>1. num' = [num EXCEPT ![q] = @ - 1]
      BY <1>5, Zenon DEF FetchFrom
    <3> QED BY <1>1, <3>1 DEF Queued
  <2>2. Blocked # {}
    BY <1>1, <1>5, Zenon DEF FetchFrom, Blocked
  <2>3. /\ Cardinality(Woken) \in Nat
        /\ Cardinality(Woken') >= Cardinality(Woken) - 1
    <3>1. thread' = [thread EXCEPT ![t] = "out"]
      BY <1>5, Zenon DEF FetchFrom
    <3>2. /\ Cardinality(Woken) \in Nat
          /\ Cardinality(Woken') = IF thread[t] = "woken" THEN Cardinality(Woken) - 1
                                   ELSE Cardinality(Woken)
      BY <1>1, <3>1, WokenCount, Zenon
    <3> QED BY <3>2
  <2>4. Cardinality(Woken') \in Nat
    <3>1. Woken' \in SUBSET Thread
      BY Zenon DEF Woken
    <3> QED BY <3>1, Zenon DEF ThreadsCounted
  <2> QED BY <1>2, <2>1, <2>2, <2>3, <2>4, SMTT(30) DEF NoLostWakeup
<1>6. ASSUME NEW t \in Thread, SpuriousWakeup(t) PROVE Queued' <= Cardinality(Woken')
  <2>1. Cardinality(Woken') = Cardinality(Woken) + 1 /\ Cardinality(Woken) \in Nat
    BY <1>1, <1>6, WokenCount, Zenon DEF SpuriousWakeup
  <2>2. Blocked # {} /\ Queued' = Queued
    BY <1>6, Zenon DEF SpuriousWakeup, Blocked, Queued
  <2> QED BY <1>2, <2>1, <2>2 DEF NoLostWakeup
<1>7. CASE UNCHANGED <<num, thread>>
  BY <1>7, Zenon DEF NoLostWakeup, Queued, Blocked, Woken
<1>8. ASSUME NEW t \in Tile, NEW c \in ClientCmd, NEW f, request_queue_add_request(t, c, f)
      PROVE  Queued' <= Cardinality(Woken')
  <2>1. ListFor(c) \in WaitQueue
    BY ConstantsAssumption, Zenon DEF ListFor
  <2> QED BY <1>3, <1>7, <1>8, <2>1, Zenon DEF request_queue_add_request, AddMatchesDirty, AddDuplicate,
                                        AddToList, AddToDirty, AddDropped
<1> QED BY <1>4, <1>5, <1>6, <1>7, <1>8, Zenon DEF QueueNext, queueVars, request_queue_remove_request,
                                            request_queue_clear_requests_by_fd
=============================================================================
