------------------------- MODULE ProcessLoopProofs -------------------------
(***************************************************************************)
(* Proofs about process_loop of the daemon (Renderd, RenderdSlaves): its   *)
(* poll array and the descriptors agree, what poll found is still there    *)
(* when it is looked at, and the queue is used by its operations only;     *)
(* then about the requests in the hands of threads, and what a request in  *)
(* flight still waits for.  The invariants are those of RenderdProofs,     *)
(* which has the theorems.                                                 *)
(***************************************************************************)
EXTENDS RenderdSlaves, RequestQueueProofs

-----------------------------------------------------------------------------
(* The inductive invariant *)

DaemonTypes ==
    /\ conn \in [Conn -> {"new", "backlog", "accepted", "closed"}]
    /\ inbox \in [Conn -> Seq(Message)]
    /\ fdConn \in [Fd -> Conn \cup {NoConn}]
    /\ pfd \in [Slot -> Fd \cup {FD_INVALID}]
    /\ revents \subseteq Slot
    /\ num_cslots \in 0..MAX_CONNECTIONS
    /\ slot \in Nat
    /\ job \in [Thread -> 0..MaxRequests]
    /\ rest \in [Thread -> Seq(Request)]
    /\ sender \in [Request -> Conn \cup {NoConn}]
    /\ answers \in [Request -> Seq(Conn)]

(* The descriptors in the slots are the open ones, each once, and an       *)
(* accepted connection has one descriptor.                                 *)
SlotInv ==
    /\ \A i \in Slot : pfd[i] # FD_INVALID =>
          i <= num_cslots /\ fdConn[pfd[i]] # NoConn /\ conn[fdConn[pfd[i]]] = "accepted"
    /\ \A i, j \in Slot : pfd[i] # FD_INVALID /\ pfd[i] = pfd[j] => i = j
    /\ \A f \in Fd : fdConn[f] # NoConn => \E i \in Slot : pfd[i] = f
    /\ \A f, g \in Fd : fdConn[f] # NoConn /\ fdConn[f] = fdConn[g] => f = g

ConnsCounted == num_conns = Cardinality({i \in Slot : pfd[i] # FD_INVALID})

(* What poll found readable stays so until process_loop comes to it. *)
EventsInv ==
    /\ loop = "accept" => revents \subseteq SlotsReady
    /\ loop = "slots" => \A i \in revents :
          i >= slot /\ pfd[i] # FD_INVALID => Readable(fdConn[pfd[i]])

(* A request that has arrived has a sender, and only such a request has an *)
(* answer.                                                                 *)
SenderInv ==
    \A r \in Request :
        /\ life[r] # "unborn" => sender[r] \in Conn
        /\ life[r] = "unborn" => answers[r] = <<>>

(* Of the requests taken off the queue each thread has its own, each once. *)
RestInv ==
    \A t \in Thread :
        /\ NoRepeats(rest[t])
        /\ \A r \in Range(rest[t]) :
              /\ life[r] = "gone"
              /\ \A u \in Thread \ {t} : r \notin Range(rest[u])

(* The descriptor of a request in flight leads to its client, unless the   *)
(* client has gone; and a request that has its answer has no descriptor.   *)
AnswerInv ==
    \A r \in Request : InFlight(r) /\ fd[r] # FD_INVALID =>
        /\ answers[r] = <<>>
        /\ fdConn[fd[r]] = sender[r] \/ conn[sender[r]] = "closed"

RequestsInv ==
    /\ SenderInv
    /\ RestInv
    /\ QueuedFdCurrent
    /\ AnswerInv
    /\ OneAnswerToItsClient

DaemonInv ==
    /\ DaemonTypes
    /\ SlotInv
    /\ ConnsCounted
    /\ EventsInv
    /\ RequestsInv

(* The for loop that looks for a free slot stops at one if there is one. *)
FindsFreeSlot == FreeSlots # {} => SlotFor \in FreeSlots

(* A step of the daemon: a thread, rendering itself or dispatching, takes  *)
(* requests, releases them, answers, or gives a request up.                *)
ThreadStep(t) ==
    \/ WorkerWaits(t)
    \/ WorkerFetches(t)
    \/ \E time \in RenderTime : Release(t, time)
    \/ SendNext(t)
    \/ GivesUp(t)

DaemonStep ==
    \/ Clients \/ request_exit \/ process_loop
    \/ \E t \in Thread : ThreadStep(t)
    \/ UNCHANGED vars

-----------------------------------------------------------------------------
(* What the operations of the queue do to the requests *)

(* add_request gives the next request a life of its own, in the queue with *)
(* the descriptor it was passed or with none; one that is answered with    *)
(* NotDone is freed or has none.                                           *)
LEMMA AddFacts ==
    ASSUME QueueInv, NEW t \in Tile, NEW c \in Cmd, NEW f \in Fd \cup {FD_INVALID},
           request_queue_add_request(t, c, f)
    PROVE  /\ arrived + 1 \in Request
           /\ life[arrived + 1] = "unborn"
           /\ \E l \in {"queued", "gone"}, g \in Fd \cup {FD_INVALID} :
                 /\ life' = [life EXCEPT ![arrived + 1] = l]
                 /\ fd' = [fd EXCEPT ![arrived + 1] = g]
                 /\ l = "queued" => g \in {f, FD_INVALID}
                 /\ l = "queued" /\ AddStatus(t, c) = "cmdNotDone" => g = FD_INVALID
<1> DEFINE n == arrived + 1
<1>1. Arrive(t)
  BY Zenon DEF request_queue_add_request, AddMatchesDirty, AddDuplicate, AddToList, AddToDirty, AddDropped
<1>2. n \in Request /\ life[n] = "unborn"
  BY <1>1, NewRequest, Zenon DEF Arrive
<1>3. fd \in [Request -> Fd \cup {FD_INVALID}]
  BY Zenon DEF QueueInv, QueueTypeOK
<1>4. fd[n] \in Fd \cup {FD_INVALID} /\ fd = [fd EXCEPT ![n] = fd[n]]
  BY <1>2, <1>3, Zenon
<1> HIDE DEF n
<1>5. CASE life' = [life EXCEPT ![n] = "gone"] /\ fd' = fd
  BY <1>2, <1>4, <1>5, Zenon DEF n
<1>6. CASE AddDuplicate(t, c, f)
  <2>1. AddStatus(t, c) # "cmdNotDone"
    BY <1>6, Zenon DEF AddDuplicate, AddStatus
  <2>2. life' = [life EXCEPT ![n] = "queued"] /\ fd' = [fd EXCEPT ![n] = f]
    BY <1>6, Zenon DEF AddDuplicate, n
  <2> QED BY <1>2, <2>1, <2>2, Zenon DEF n
<1>7. CASE AddToList(t, c, f)
  <2>1. AddStatus(t, c) # "cmdNotDone"
    BY <1>7, Zenon DEF AddToList, AddStatus
  <2>2. life' = [life EXCEPT ![n] = "queued"] /\ fd' = [fd EXCEPT ![n] = f]
    BY <1>7, Zenon DEF AddToList, Enqueue, n
  <2> QED BY <1>2, <2>1, <2>2, Zenon DEF n
<1>8. CASE AddToDirty(t, c, f)
  <2>1. life' = [life EXCEPT ![n] = "queued"] /\ fd' = [fd EXCEPT ![n] = FD_INVALID]
    BY <1>8, Zenon DEF AddToDirty, Enqueue, n
  <2> QED BY <1>2, <2>1, ZenonT(40) DEF n
<1> QED BY <1>5, <1>6, <1>7, <1>8, Zenon DEF request_queue_add_request, AddMatchesDirty, AddDropped, n

(* remove_request frees the request and its chain, each once, and they     *)
(* were in the queue until then.                                           *)
LEMMA RemoveFacts ==
    ASSUME QueueInv, NEW r \in Request, NEW time \in RenderTime,
           request_queue_remove_request(r, time)
    PROVE  /\ Chain(r) \in Seq(Request)
           /\ NoRepeats(Chain(r))
           /\ \A d \in Range(Chain(r)) : d \in Request /\ life[d] = "queued" /\ life'[d] = "gone"
           /\ \A d \in Request : d \notin Range(Chain(r)) => life'[d] = life[d]
           /\ fd' = fd
<1>1. /\ r \in index /\ life[r] = "queued" /\ inQueue[r] = "queueRender"
      /\ duplicates[r] \in Seq(Request)
  BY Zenon DEF request_queue_remove_request, QueueInv, QueueTypeOK, IndexInv, In
<1>2. \A d \in Range(duplicates[r]) :
         d \in Request /\ life[d] = "queued" /\ inQueue[d] = "queueDuplicate"
  BY <1>1, RangeOfChain, Zenon DEF QueueInv, ChainInv
<1>3. NoRepeats(duplicates[r]) /\ r \notin Range(duplicates[r])
  BY <1>1, <1>2, Zenon DEF QueueInv, ChainInv
<1>4. /\ Chain(r) \in Seq(Request)
      /\ NoRepeats(Chain(r))
      /\ Range(Chain(r)) = {r} \cup Range(duplicates[r])
  BY <1>1, <1>3, PushOnChain, Zenon DEF Chain
<1> QED BY <1>1, <1>2, <1>4, Zenon DEF request_queue_remove_request

(* clear_requests_by_fd(f) only takes descriptors away, and f from every   *)
(* request of the queue.                                                   *)
LEMMA ClearFacts ==
    ASSUME QueueInv, NEW f \in Fd, request_queue_clear_requests_by_fd(f)
    PROVE  /\ life' = life
           /\ \A r \in Request : fd'[r] \in {fd[r], FD_INVALID}
           /\ \A r \in Request : life'[r] = "queued" => fd'[r] # f
BY ClearedByFd, Zenon DEF request_queue_clear_requests_by_fd

-----------------------------------------------------------------------------
(* process_loop at a slot *)

(* The slot at hand holds the descriptor of an accepted connection. *)
LEMMA AtSlotFacts ==
    ASSUME DaemonTypes, SlotInv, NEW i \in Slot, AtSlot(i)
    PROVE  /\ loop = "slots" /\ i \in revents /\ i >= slot /\ i <= num_cslots
           /\ pfd[i] \in Fd /\ pfd[i] # FD_INVALID
           /\ fdConn[pfd[i]] \in Conn
           /\ conn[fdConn[pfd[i]]] = "accepted"
<1>1. /\ loop = "slots" /\ i \in slot..num_cslots /\ pfd[i] # FD_INVALID /\ i \in revents
      /\ slot \in Nat /\ num_cslots \in Int
  BY RenderdAssumption DEF AtSlot, LiveSlots, DaemonTypes
<1>2. pfd[i] \in Fd /\ fdConn[pfd[i]] \in Conn \cup {NoConn}
  BY <1>1, Zenon DEF DaemonTypes
<1> QED BY <1>1, <1>2 DEF SlotInv, Slot

(* The first message of a connection, and the others. *)
LEMMA MessageFacts ==
    ASSUME DaemonTypes, NEW c \in Conn, inbox[c] # <<>>
    PROVE  /\ Head(inbox[c]).tile \in Tile
           /\ Head(inbox[c]).cmd \in ClientCmd \cup BadMsg
           /\ Tail(inbox[c]) \in Seq(Message)
<1>1. inbox[c] \in Seq(Message)
  BY Zenon DEF DaemonTypes
<1>2. Head(inbox[c]) \in Message /\ Tail(inbox[c]) \in Seq(Message)
  BY <1>1
<1> QED BY <1>2, Zenon DEF Message

-----------------------------------------------------------------------------
(* The slots *)

(* The slots stay right while no accepted connection is closed. *)
LEMMA SlotsKept ==
    ASSUME DaemonTypes, SlotInv, UNCHANGED <<fdConn, pfd, num_cslots>>,
           \A c \in Conn : conn[c] = "accepted" => conn'[c] = "accepted"
    PROVE  SlotInv'
<1>1. ASSUME NEW i \in Slot, pfd[i] # FD_INVALID
      PROVE  i <= num_cslots /\ fdConn[pfd[i]] # NoConn /\ conn'[fdConn[pfd[i]]] = "accepted"
  <2>1. i <= num_cslots /\ fdConn[pfd[i]] # NoConn /\ conn[fdConn[pfd[i]]] = "accepted"
    BY <1>1, Zenon DEF SlotInv
  <2>2. fdConn[pfd[i]] \in Conn
    BY <1>1, <2>1, Zenon DEF DaemonTypes
  <2> QED BY <2>1, <2>2, Zenon
<1> QED BY <1>1, Zenon DEF SlotInv

(* What poll found stays right while what was readable stays readable. *)
LEMMA EventsKept ==
    ASSUME DaemonTypes, SlotInv, EventsInv,
           UNCHANGED <<fdConn, pfd, num_cslots, revents, slot>>,
           loop' = loop \/ (loop = "accept" /\ loop' = "slots"),
           \A c \in Conn : conn[c] = "accepted" /\ Readable(c) => Readable(c)'
    PROVE  EventsInv'
<1>1. ASSUME NEW i \in Slot, pfd[i] # FD_INVALID, Readable(fdConn[pfd[i]])
      PROVE  Readable(fdConn[pfd[i]])'
  <2>1. fdConn[pfd[i]] # NoConn /\ conn[fdConn[pfd[i]]] = "accepted"
    BY <1>1, Zenon DEF SlotInv
  <2>2. PICK c \in Conn : c = fdConn[pfd[i]]
    BY <1>1, <2>1, Zenon DEF DaemonTypes
  <2>3. Readable(c)'
    BY <1>1, <2>1, <2>2, Zenon
  <2> QED BY <2>2, <2>3, Zenon DEF Readable
<1>2. revents \subseteq Slot
  BY Zenon DEF DaemonTypes
<1>3. ASSUME loop' = "accept", NEW i \in revents PROVE i \in SlotsReady'
  <2>1. i \in SlotsReady
    BY <1>3, Zenon DEF EventsInv
  <2> QED BY <1>1, <1>2, <2>1, Zenon DEF SlotsReady
<1>4. ASSUME loop' = "slots", NEW i \in revents, i >= slot, pfd[i] # FD_INVALID
      PROVE  Readable(fdConn[pfd[i]])'
  <2>1. Readable(fdConn[pfd[i]])
    BY <1>4, Zenon DEF EventsInv, SlotsReady
  <2> QED BY <1>1, <1>2, <1>4, <2>1, Zenon
<1> QED BY <1>3, <1>4, Zenon DEF EventsInv, Readable

(* Reading from a connection, or closing it, leaves the others as they are. *)
LEMMA OtherSlots ==
    ASSUME DaemonTypes, SlotInv, NEW i \in Slot, NEW j \in Slot, i # j,
           pfd[i] # FD_INVALID, pfd[j] # FD_INVALID
    PROVE  /\ pfd[i] \in Fd /\ pfd[j] \in Fd /\ pfd[i] # pfd[j]
           /\ fdConn[pfd[i]] \in Conn /\ fdConn[pfd[j]] \in Conn
           /\ fdConn[pfd[i]] # fdConn[pfd[j]]
<1>1. pfd[i] \in Fd /\ pfd[j] \in Fd
  BY Zenon DEF DaemonTypes
<1>2. pfd[i] # pfd[j]
  BY Zenon DEF SlotInv
<1>3. fdConn[pfd[i]] # NoConn /\ fdConn[pfd[j]] # NoConn
  BY Zenon DEF SlotInv
<1>4. fdConn[pfd[i]] # fdConn[pfd[j]]
  BY <1>1, <1>2, <1>3, Zenon DEF SlotInv
<1> QED BY <1>1, <1>2, <1>3, <1>4, Zenon DEF DaemonTypes

(* process_loop has read a message from slot i. *)
LEMMA SlotRead ==
    ASSUME DaemonTypes, SlotInv, EventsInv, NEW i \in Slot, AtSlot(i),
           inbox' = [inbox EXCEPT ![fdConn[pfd[i]]] = Tail(@)],
           slot' = i + 1,
           UNCHANGED <<conn, hup, fdConn, pfd, revents, num_cslots, loop>>
    PROVE  SlotInv' /\ EventsInv'
<1>1. /\ loop = "slots" /\ i \in revents /\ i >= slot
      /\ pfd[i] \in Fd /\ pfd[i] # FD_INVALID
      /\ fdConn[pfd[i]] \in Conn
  BY AtSlotFacts, Zenon
<1>2. SlotInv'
  BY SlotsKept, Zenon
<1>3. ASSUME NEW j \in revents, j >= i + 1, pfd[j] # FD_INVALID
      PROVE  Readable(fdConn[pfd[j]])'
  <2>1. i \in Nat /\ j \in Nat /\ slot \in Nat /\ j \in Slot
    BY RenderdAssumption DEF DaemonTypes, Slot
  <2>2. j # i /\ j >= slot
    BY <1>1, <1>3, <2>1
  <2>3. Readable(fdConn[pfd[j]])
    BY <1>1, <1>3, <2>2, Zenon DEF EventsInv
  <2>4. fdConn[pfd[j]] # fdConn[pfd[i]] /\ fdConn[pfd[j]] \in Conn
    BY <1>1, <1>3, <2>1, <2>2, OtherSlots, Zenon
  <2>5. inbox'[fdConn[pfd[j]]] = inbox[fdConn[pfd[j]]]
    BY <2>4, Zenon DEF DaemonTypes
  <2> QED BY <2>3, <2>5, ZenonT(40) DEF Readable
<1> QED BY <1>1, <1>2, <1>3, Zenon DEF EventsInv, Readable

(* The slot for a new connection is free, and inside the poll array. *)
LEMMA SlotForFacts ==
    ASSUME DaemonTypes, SlotInv, FindsFreeSlot, ~SlotsFull,
           NEW n, n = IF FreeSlots = {} THEN num_cslots + 1 ELSE num_cslots
    PROVE  /\ SlotFor \in Slot /\ SlotFor <= n
           /\ pfd[SlotFor] = FD_INVALID
           /\ n \in 0..MAX_CONNECTIONS /\ num_cslots <= n
<1>1. num_cslots \in 0..MAX_CONNECTIONS /\ MAX_CONNECTIONS \in Nat
  BY RenderdAssumption, Zenon DEF DaemonTypes
<1>2. CASE FreeSlots = {}
  <2>1. SlotFor = num_cslots + 1 /\ n = num_cslots + 1 /\ num_cslots # MAX_CONNECTIONS
    BY <1>2, Zenon DEF SlotFor, SlotsFull
  <2>2. SlotFor \in Slot
    BY <1>1, <2>1 DEF Slot
  <2>3. pfd[SlotFor] = FD_INVALID
    BY <1>1, <2>1, <2>2 DEF SlotInv
  <2> QED BY <1>1, <2>1, <2>2, <2>3
<1>3. CASE FreeSlots # {}
  <2>1. SlotFor \in FreeSlots
    BY <1>3, Zenon DEF FindsFreeSlot
  <2> QED BY <1>1, <1>3, <2>1 DEF FreeSlots, Slot
<1> QED BY <1>2, <1>3, Zenon

(* accept puts the connection into a slot of its own. *)
LEMMA AcceptSlots ==
    ASSUME DaemonTypes, SlotInv, FindsFreeSlot, NEW c \in Conn, NEW f \in Fd, Accept(c, f)
    PROVE  SlotInv'
<1> DEFINE s == SlotFor
<1>1. /\ conn[c] = "backlog" /\ fdConn[f] = NoConn
      /\ conn' = [conn EXCEPT ![c] = "accepted"]
      /\ fdConn' = [fdConn EXCEPT ![f] = c]
      /\ pfd' = [pfd EXCEPT ![s] = f]
      /\ c # NoConn /\ f # FD_INVALID
  BY RenderdAssumption, ConstantsAssumption, Zenon DEF Accept, Backlog, FreeFds
<1>2. /\ s \in Slot /\ s <= num_cslots' /\ pfd[s] = FD_INVALID
      /\ num_cslots' \in Int /\ num_cslots <= num_cslots'
  BY SlotForFacts DEF Accept
<1> HIDE DEF s
<1>3. /\ conn \in [Conn -> {"new", "backlog", "accepted", "closed"}]
      /\ fdConn \in [Fd -> Conn \cup {NoConn}]
      /\ pfd \in [Slot -> Fd \cup {FD_INVALID}]
  BY Zenon DEF DaemonTypes
<1>4. /\ pfd'[s] = f /\ fdConn'[f] = c /\ conn'[c] = "accepted"
      /\ \A i \in Slot : i # s => pfd'[i] = pfd[i]
      /\ \A g \in Fd : g # f => fdConn'[g] = fdConn[g]
      /\ \A d \in Conn : d # c => conn'[d] = conn[d]
  BY <1>1, <1>2, <1>3, Zenon
<1>5. \A i \in Slot : pfd[i] # f
  BY <1>1, Zenon DEF SlotInv
<1>6. ASSUME NEW i \in Slot, pfd[i] # FD_INVALID
      PROVE  /\ pfd[i] \in Fd /\ pfd[i] # f
             /\ fdConn[pfd[i]] \in Conn /\ fdConn[pfd[i]] # c
             /\ conn[fdConn[pfd[i]]] = "accepted"
  <2>1. pfd[i] \in Fd /\ pfd[i] # f
    BY <1>3, <1>5, <1>6, Zenon
  <2>2. fdConn[pfd[i]] # NoConn /\ conn[fdConn[pfd[i]]] = "accepted"
    BY <1>6, Zenon DEF SlotInv
  <2> QED BY <1>1, <1>3, <2>1, <2>2, Zenon
<1>7. ASSUME NEW i \in Slot, pfd'[i] # FD_INVALID
      PROVE  /\ i <= num_cslots' /\ fdConn'[pfd'[i]] # NoConn
             /\ conn'[fdConn'[pfd'[i]]] = "accepted"
  <2>1. CASE i = s
    BY <1>1, <1>2, <1>4, <2>1
  <2>2. CASE i # s
    <3>1. pfd'[i] = pfd[i] /\ pfd[i] # FD_INVALID
      BY <1>4, <1>7, <2>2, Zenon
    <3>2. fdConn'[pfd[i]] = fdConn[pfd[i]] /\ conn'[fdConn[pfd[i]]] = "accepted"
      BY <1>4, <1>6, <3>1, Zenon
    <3>3. i <= num_cslots /\ fdConn[pfd[i]] # NoConn
      BY <3>1, Zenon DEF SlotInv
    <3>4. i \in Int /\ num_cslots \in Int
      BY DEF Slot, DaemonTypes
    <3> QED BY <1>2, <3>1, <3>2, <3>3, <3>4
  <2> QED BY <2>1, <2>2, Zenon
<1>8. ASSUME NEW i \in Slot, NEW j \in Slot, pfd'[i] # FD_INVALID, pfd'[i] = pfd'[j]
      PROVE  i = j
  BY <1>4, <1>5, <1>8 DEF SlotInv
<1>9. ASSUME NEW g \in Fd, fdConn'[g] # NoConn PROVE \E i \in Slot : pfd'[i] = g
  <2>1. CASE g = f
    BY <1>2, <1>4, <2>1, Zenon
  <2>2. CASE g # f
    <3>1. PICK i \in Slot : pfd[i] = g
      BY <1>4, <1>9, <2>2, Zenon DEF SlotInv
    <3>2. i # s
      BY <1>2, <3>1, ConstantsAssumption, ZenonT(60)
    <3> QED BY <1>4, <3>1, <3>2, Zenon
  <2> QED BY <2>1, <2>2, Zenon
<1>10. \A g \in Fd : fdConn[g] # c
  <2> SUFFICES ASSUME NEW g \in Fd, fdConn[g] = c PROVE FALSE
    BY Zenon
  <2>1. PICK i \in Slot : pfd[i] = g
    BY <1>1, Zenon DEF SlotInv
  <2> QED BY <1>6, <2>1, ConstantsAssumption, Zenon
<1>11. ASSUME NEW g \in Fd, NEW h \in Fd, fdConn'[g] # NoConn, fdConn'[g] = fdConn'[h]
       PROVE  g = h
  BY <1>4, <1>10, <1>11 DEF SlotInv
<1> QED BY <1>7, <1>8, <1>9, <1>11, Zenon DEF SlotInv

(* The connection just accepted is not taken for one poll found readable. *)
LEMMA AcceptEvents ==
    ASSUME DaemonTypes, SlotInv, EventsInv, FindsFreeSlot,
           NEW c \in Conn, NEW f \in Fd, Accept(c, f)
    PROVE  EventsInv'
<1> DEFINE s == SlotFor
<1>1. s \in Slot /\ pfd[s] = FD_INVALID
  BY SlotForFacts, Zenon DEF Accept
<1>2. /\ loop = "accept" /\ loop' = "slots" /\ fdConn[f] = NoConn
      /\ pfd' = [pfd EXCEPT ![s] = f]
      /\ fdConn' = [fdConn EXCEPT ![f] = c]
      /\ UNCHANGED <<revents, inbox, hup>>
  BY Zenon DEF Accept, FreeFds
<1> HIDE DEF s
<1>3. ASSUME NEW i \in revents, pfd'[i] # FD_INVALID PROVE Readable(fdConn'[pfd'[i]])
  <2>1. i \in Slot /\ pfd[i] # FD_INVALID /\ Readable(fdConn[pfd[i]])
    BY <1>2, Zenon DEF EventsInv, SlotsReady, DaemonTypes
  <2>2. pfd'[i] = pfd[i] /\ pfd[i] \in Fd
    BY <1>1, <1>2, <2>1, Zenon DEF DaemonTypes
  <2>3. fdConn'[pfd[i]] = fdConn[pfd[i]]
    BY <1>2, <2>1, <2>2, Zenon DEF DaemonTypes, SlotInv
  <2> QED BY <2>1, <2>2, <2>3, Zenon
<1> QED BY <1>2, <1>3, Zenon DEF EventsInv, Readable

(* The slot and the descriptor of a closed connection are free. *)
LEMMA CloseSlots ==
    ASSUME DaemonTypes, SlotInv, EventsInv, NEW i \in Slot, CloseSlot(i)
    PROVE  SlotInv' /\ EventsInv'
<1> DEFINE f == pfd[i]  c == fdConn[f]
<1>1. /\ loop = "slots" /\ i \in revents /\ i >= slot
      /\ f \in Fd /\ f # FD_INVALID /\ c \in Conn /\ c # NoConn
  BY AtSlotFacts, RenderdAssumption, Zenon DEF CloseSlot
<1>2. /\ conn' = [conn EXCEPT ![c] = "closed"]
      /\ inbox' = [inbox EXCEPT ![c] = <<>>]
      /\ fdConn' = [fdConn EXCEPT ![f] = NoConn]
      /\ pfd' = [pfd EXCEPT ![i] = FD_INVALID]
      /\ slot' = i + 1
      /\ UNCHANGED <<hup, revents, num_cslots, loop>>
  BY Zenon DEF CloseSlot
<1>3. ASSUME NEW j \in Slot, j # i, pfd[j] # FD_INVALID
      PROVE  pfd[j] \in Fd /\ pfd[j] # f /\ fdConn[pfd[j]] \in Conn /\ fdConn[pfd[j]] # c
  BY <1>1, <1>3, OtherSlots, Zenon
<1> HIDE DEF f, c
<1>4. /\ pfd'[i] = FD_INVALID /\ fdConn'[f] = NoConn
      /\ \A j \in Slot : j # i => pfd'[j] = pfd[j]
      /\ \A g \in Fd : g # f => fdConn'[g] = fdConn[g]
      /\ \A d \in Conn : d # c => conn'[d] = conn[d] /\ inbox'[d] = inbox[d]
  BY <1>1, <1>2, Zenon DEF DaemonTypes
<1>5. ASSUME NEW j \in Slot, pfd'[j] # FD_INVALID
      PROVE  /\ j <= num_cslots' /\ fdConn'[pfd'[j]] # NoConn
             /\ conn'[fdConn'[pfd'[j]]] = "accepted"
  <2>1. j # i /\ pfd'[j] = pfd[j] /\ pfd[j] # FD_INVALID
    BY <1>4, <1>5, Zenon
  <2>2. fdConn'[pfd[j]] = fdConn[pfd[j]] /\ conn'[fdConn[pfd[j]]] = conn[fdConn[pfd[j]]]
    BY <1>3, <1>4, <2>1, Zenon
  <2> QED BY <1>2, <2>1, <2>2, SMTT(30) DEF SlotInv
<1>6. ASSUME NEW j \in Slot, NEW k \in Slot, pfd'[j] # FD_INVALID, pfd'[j] = pfd'[k]
      PROVE  j = k
  BY <1>4, <1>6 DEF SlotInv
<1>7. ASSUME NEW g \in Fd, fdConn'[g] # NoConn PROVE \E j \in Slot : pfd'[j] = g
  <2>1. g # f /\ fdConn[g] # NoConn
    BY <1>4, <1>7, Zenon
  <2>2. PICK j \in Slot : pfd[j] = g
    BY <2>1, Zenon DEF SlotInv
  <2> QED BY <1>4, <2>1, <2>2, Zenon DEF f
<1>8. ASSUME NEW g \in Fd, NEW h \in Fd, fdConn'[g] # NoConn, fdConn'[g] = fdConn'[h]
      PROVE  g = h
  BY <1>4, <1>8, SMTT(30) DEF SlotInv
<1>9. SlotInv'
  BY <1>5, <1>6, <1>7, <1>8, Zenon DEF SlotInv
<1>10. ASSUME NEW j \in revents, j >= i + 1, pfd'[j] # FD_INVALID
       PROVE  inbox'[fdConn'[pfd'[j]]] # <<>> \/ fdConn'[pfd'[j]] \in hup'
  <2>1. i \in Nat /\ j \in Nat /\ slot \in Nat /\ j \in Slot
    BY RenderdAssumption DEF DaemonTypes, Slot
  <2>2. j # i /\ j >= slot /\ pfd'[j] = pfd[j] /\ pfd[j] # FD_INVALID
    BY <1>1, <1>4, <1>10, <2>1
  <2>3. Readable(fdConn[pfd[j]])
    BY <1>1, <2>2, Zenon DEF EventsInv
  <2>4. pfd[j] \in Fd /\ pfd[j] # f /\ fdConn[pfd[j]] \in Conn /\ fdConn[pfd[j]] # c
    BY <1>3, <2>1, <2>2, Zenon
  <2>5. fdConn'[pfd[j]] = fdConn[pfd[j]] /\ inbox'[fdConn[pfd[j]]] = inbox[fdConn[pfd[j]]]
    BY <1>4, <2>4, Zenon
  <2> QED BY <1>2, <2>2, <2>3, <2>5 DEF Readable
<1> QED BY <1>1, <1>2, <1>9, <1>10, Zenon DEF EventsInv, Readable

(* Every step keeps the slots, and what poll found. *)
LEMMA SlotsNext ==
    ASSUME DaemonTypes, SlotInv, EventsInv, FindsFreeSlot, DaemonStep
    PROVE  SlotInv' /\ EventsInv'
<1>1. CASE UNCHANGED <<clientVars, loopVars>>
  <2>1. UNCHANGED <<conn, hup, inbox, fdConn, pfd, revents, num_cslots, loop, slot>>
    BY <1>1, Zenon DEF clientVars, loopVars
  <2> QED BY <2>1, SlotsKept, EventsKept, Zenon DEF Readable
<1>2. ASSUME NEW c \in Conn, Connect(c) PROVE SlotInv' /\ EventsInv'
  <2>1. /\ conn[c] = "new" /\ conn' = [conn EXCEPT ![c] = "backlog"]
        /\ UNCHANGED <<hup, inbox, fdConn, pfd, revents, num_cslots, loop, slot>>
    BY <1>2, Zenon DEF Connect, loopVars
  <2>2. \A d \in Conn : conn[d] = "accepted" => conn'[d] = "accepted"
    BY <2>1, Zenon DEF DaemonTypes
  <2> QED BY <2>1, <2>2, SlotsKept, EventsKept, Zenon DEF Readable
<1>3. ASSUME NEW c \in Conn, HangUp(c) PROVE SlotInv' /\ EventsInv'
  <2>1. /\ hup' = hup \cup {c}
        /\ UNCHANGED <<conn, inbox, fdConn, pfd, revents, num_cslots, loop, slot>>
    BY <1>3, Zenon DEF HangUp, loopVars
  <2> QED BY <2>1, SlotsKept, EventsKept, Zenon DEF Readable
<1>4. ASSUME NEW c \in Conn, NEW m \in Message, ClientSend(c, m) PROVE SlotInv' /\ EventsInv'
  <2>1. /\ inbox' = [inbox EXCEPT ![c] = Append(@, m)]
        /\ UNCHANGED <<conn, hup, fdConn, pfd, revents, num_cslots, loop, slot>>
    BY <1>4, Zenon DEF ClientSend, loopVars
  <2>2. Append(inbox[c], m) # <<>>
    <3>1. PICK b \in Seq(Message) : b = inbox[c]
      BY Zenon DEF DaemonTypes
    <3>2. Len(Append(b, m)) = Len(b) + 1 /\ Len(b) \in Nat
      OBVIOUS
    <3>3. Len(<<>>) = 0
      BY Zenon
    <3> QED BY <3>1, <3>2, <3>3
  <2>3. \A d \in Conn : inbox[d] # <<>> => inbox'[d] # <<>>
    BY <2>1, <2>2, Zenon DEF DaemonTypes
  <2> QED BY <2>1, <2>3, SlotsKept, EventsKept, Zenon DEF Readable
<1>5. CASE Poll
  <2>1. /\ loop' = "accept" /\ revents' = SlotsReady
        /\ UNCHANGED <<conn, hup, inbox, fdConn, pfd, num_cslots>>
    BY <1>5, Zenon DEF Poll, clientVars
  <2>2. SlotsReady' = SlotsReady
    BY <2>1, Zenon DEF SlotsReady, Readable
  <2> QED BY <2>1, <2>2, SlotsKept, Zenon DEF EventsInv
<1>6. CASE PollExit \/ EndOfSlots
  <2>1. /\ loop' \in {"exited", "poll"}
        /\ UNCHANGED <<conn, fdConn, pfd, num_cslots>>
    BY <1>6, Zenon DEF PollExit, EndOfSlots, clientVars
  <2> QED BY <2>1, SlotsKept, Zenon DEF EventsInv
<1>7. ASSUME NEW c \in Conn, NEW f \in Fd, Accept(c, f) PROVE SlotInv' /\ EventsInv'
  BY <1>7, AcceptSlots, AcceptEvents, Zenon
<1>8. ASSUME NEW c \in Conn, AcceptDrops(c) PROVE SlotInv' /\ EventsInv'
  <2>1. /\ conn[c] = "backlog" /\ conn' = [conn EXCEPT ![c] = "closed"]
        /\ inbox' = [inbox EXCEPT ![c] = <<>>]
        /\ loop = "accept" /\ loop' = "slots"
        /\ UNCHANGED <<hup, fdConn, pfd, revents, num_cslots, slot>>
    BY <1>8, Zenon DEF AcceptDrops, Backlog
  <2>2. \A d \in Conn : conn[d] = "accepted" => conn'[d] = "accepted" /\ inbox'[d] = inbox[d]
    BY <2>1, Zenon DEF DaemonTypes
  <2> QED BY <2>1, <2>2, SlotsKept, EventsKept, Zenon DEF Readable
<1>9. CASE NoAccept
  <2>1. /\ loop = "accept" /\ loop' = "slots"
        /\ UNCHANGED <<conn, hup, inbox, fdConn, pfd, revents, num_cslots, slot>>
    BY <1>9, Zenon DEF NoAccept, clientVars
  <2> QED BY <2>1, SlotsKept, EventsKept, Zenon DEF Readable
<1>10. ASSUME NEW i \in Slot, CloseSlot(i) PROVE SlotInv' /\ EventsInv'
  BY <1>10, CloseSlots, Zenon
<1>11. ASSUME NEW i \in Slot, ReceiveInvalid(i) PROVE SlotInv' /\ EventsInv'
  BY <1>11, SlotRead, ZenonT(40) DEF ReceiveInvalid
<1>12. ASSUME NEW i \in Slot, Receive(i) PROVE SlotInv' /\ EventsInv'
  BY <1>12, SlotRead, ZenonT(60) DEF Receive
<1> QED
  BY <1>1, <1>2, <1>3, <1>4, <1>5, <1>6, <1>7, <1>8, <1>9, <1>10, <1>11, <1>12, ZenonT(60)
  DEF DaemonStep, ThreadStep, Clients, request_exit, process_loop, WorkerWaits, WorkerFetches,
      Release, SendNext, GivesUp, vars

-----------------------------------------------------------------------------
(* The types *)

(* What process_loop receives goes to a request that is new, and comes     *)
(* from the connection at hand.                                            *)
LEMMA ReceiveFacts ==
    ASSUME QueueInv, DaemonTypes, SlotInv, NEW i \in Slot, Receive(i)
    PROVE  \E t \in Tile, k \in ClientCmd, f \in Fd, c \in Conn, n \in Request :
              /\ n = arrived + 1 /\ life[n] = "unborn"
              /\ fdConn[f] = c /\ conn[c] = "accepted"
              /\ request_queue_add_request(t, k, ItemFd(k, f))
              /\ inbox' = [inbox EXCEPT ![c] = Tail(@)]
              /\ Tail(inbox[c]) \in Seq(Message)
              /\ sender' = [sender EXCEPT ![n] = c]
              /\ reqCmd' = [reqCmd EXCEPT ![n] = k]
              /\ answers' = [answers EXCEPT ![n] =
                    IF AddStatus(t, k) = "cmdNotDone" THEN Append(@, c) ELSE @]
<1> DEFINE f == pfd[i]  c == fdConn[f]  m == Head(inbox[c])  n == arrived + 1
<1>1. /\ ~RecvFails(c)
      /\ m.cmd \in Cmd
      /\ request_queue_add_request(m.tile, m.cmd, ItemFd(m.cmd, f))
      /\ inbox' = [inbox EXCEPT ![c] = Tail(@)]
      /\ sender' = [sender EXCEPT ![n] = c]
      /\ reqCmd' = [reqCmd EXCEPT ![n] = m.cmd]
      /\ answers' = [answers EXCEPT ![n] =
            IF AddStatus(m.tile, m.cmd) = "cmdNotDone" THEN Append(@, c) ELSE @]
      /\ AtSlot(i)
  BY ZenonT(40) DEF Receive
<1>2. f \in Fd /\ c \in Conn /\ conn[c] = "accepted"
  BY <1>1, AtSlotFacts, ZenonT(40)
<1> HIDE DEF f, c
<1>3. inbox[c] # <<>>
  BY <1>1, Zenon DEF RecvFails
<1>4. m.tile \in Tile /\ m.cmd \in ClientCmd \cup BadMsg /\ Tail(inbox[c]) \in Seq(Message)
  BY <1>2, <1>3, MessageFacts, Zenon
<1>5. m.cmd \in ClientCmd
  BY <1>1, <1>4, RenderdAssumption, Zenon DEF Cmd
<1> HIDE DEF m
<1>6. ItemFd(m.cmd, f) \in Fd \cup {FD_INVALID}
  BY <1>2, Zenon DEF ItemFd
<1>7. n \in Request /\ life[n] = "unborn"
  BY <1>1, <1>4, <1>6, AddFacts, Zenon
<1> HIDE DEF n
<1>8. fdConn[f] = c
  BY Zenon DEF c
<1> QED BY <1>1, <1>2, <1>4, <1>5, <1>7, <1>8, ZenonT(60) DEF n

(* fetch_request hands out one of the requests of the queue. *)
LEMMA FetchedRequest ==
    ASSUME QueueInv, NEW t \in Thread, NEW q \in WaitQueue, FetchFrom(t, q)
    PROVE  Head(queue[q]) \in Request
<1>1. queue[q] \in Seq(Request) /\ num[q] = Len(queue[q]) /\ num[q] > 0
  BY Zenon DEF QueueInv, QueueTypeOK, ListInv, FetchFrom, Served
<1>2. Len(queue[q]) # 0
  BY <1>1
<1>3. PICK s \in Seq(Request) : s = queue[q]
  BY <1>1, Zenon
<1>4. s # <<>>
  BY <1>2, <1>3
<1> QED BY <1>3, <1>4, SMTT(30)

(* A step of the daemon is a step of the queue, or leaves the queue alone. *)
LEMMA QueueStep ==
    ASSUME QueueInv, DaemonTypes, SlotInv, DaemonStep
    PROVE  [QueueNext]_queueVars
<1>1. ASSUME NEW i \in Slot, CloseSlot(i) PROVE QueueNext
  <2>1. PICK f \in Fd : request_queue_clear_requests_by_fd(f)
    BY <1>1, AtSlotFacts, ZenonT(60) DEF CloseSlot
  <2> QED BY <2>1, Zenon DEF QueueNext
<1>2. ASSUME NEW i \in Slot, Receive(i) PROVE QueueNext
  <2>1. PICK t \in Tile, k \in ClientCmd, f \in Fd :
           request_queue_add_request(t, k, ItemFd(k, f))
    BY <1>2, ReceiveFacts, ZenonT(60)
  <2> QED BY <2>1, ZenonT(60) DEF QueueNext
<1>3. ASSUME NEW t \in Thread, ThreadStep(t) PROVE QueueNext \/ UNCHANGED queueVars
  <2>1. CASE WorkerWaits(t)
    BY <2>1, ZenonT(60) DEF WorkerWaits, QueueNext
  <2>2. CASE WorkerFetches(t)
    BY <2>2, ZenonT(60) DEF WorkerFetches, QueueNext
  <2>3. CASE \E time \in RenderTime : Release(t, time)
    <3>1. PICK time \in RenderTime : request_queue_remove_request(job[t], time)
      BY <2>3, Zenon DEF Release
    <3>2. rendering \subseteq Request
      BY ZenonT(60) DEF QueueInv, QueueTypeOK
    <3>3. job[t] \in Request
      BY <3>1, <3>2, Zenon DEF request_queue_remove_request
    <3> QED BY <3>1, <3>3, ZenonT(60) DEF QueueNext
  <2>4. CASE SendNext(t) \/ GivesUp(t)
    BY <2>4, Zenon DEF SendNext, GivesUp
  <2> QED BY <1>3, <2>1, <2>2, <2>3, <2>4, Zenon DEF ThreadStep
<1>4. CASE UNCHANGED queueVars
  BY <1>4, Zenon
<1> QED
  BY <1>1, <1>2, <1>3, <1>4, ZenonT(60)
  DEF DaemonStep, Clients, Connect, HangUp, ClientSend, request_exit, process_loop, Poll, PollExit,
      Accept, AcceptDrops, NoAccept, ReceiveInvalid, EndOfSlots, vars

(* The clients and process_loop keep the types. *)
LEMMA LoopTypes ==
    ASSUME DaemonTypes, SlotInv, FindsFreeSlot, Clients \/ request_exit \/ process_loop
    PROVE  /\ conn' \in [Conn -> {"new", "backlog", "accepted", "closed"}]
           /\ inbox' \in [Conn -> Seq(Message)]
           /\ fdConn' \in [Fd -> Conn \cup {NoConn}]
           /\ pfd' \in [Slot -> Fd \cup {FD_INVALID}]
           /\ revents' \subseteq Slot
           /\ num_cslots' \in 0..MAX_CONNECTIONS
           /\ slot' \in Nat
<1> DEFINE Rest == /\ conn' \in [Conn -> {"new", "backlog", "accepted", "closed"}]
                   /\ inbox' \in [Conn -> Seq(Message)]
                   /\ fdConn' \in [Fd -> Conn \cup {NoConn}]
                   /\ pfd' \in [Slot -> Fd \cup {FD_INVALID}]
                   /\ revents' \subseteq Slot
                   /\ num_cslots' \in 0..MAX_CONNECTIONS
                   /\ slot' \in Nat
<1>0. /\ conn \in [Conn -> {"new", "backlog", "accepted", "closed"}]
      /\ inbox \in [Conn -> Seq(Message)]
      /\ fdConn \in [Fd -> Conn \cup {NoConn}]
      /\ pfd \in [Slot -> Fd \cup {FD_INVALID}]
      /\ revents \subseteq Slot
      /\ num_cslots \in 0..MAX_CONNECTIONS
      /\ slot \in Nat
  BY Zenon DEF DaemonTypes
<1>1. \A c \in Conn, b \in Seq(Message) : [inbox EXCEPT ![c] = b] \in [Conn -> Seq(Message)]
  BY <1>0, Zenon
<1>2. ASSUME NEW c \in Conn, Connect(c) \/ HangUp(c) PROVE Rest
  BY <1>0, <1>2, ZenonT(40) DEF Connect, HangUp, loopVars
<1>3. ASSUME NEW c \in Conn, NEW m \in Message, ClientSend(c, m) PROVE Rest
  <2>1. Append(inbox[c], m) \in Seq(Message)
    <3>1. PICK b \in Seq(Message) : b = inbox[c]
      BY <1>0, Zenon
    <3>2. Append(b, m) \in Seq(Message)
      OBVIOUS
    <3> QED BY <3>1, <3>2, Zenon
  <2>2. inbox' \in [Conn -> Seq(Message)]
    BY <1>1, <1>3, <2>1, Zenon DEF ClientSend
  <2> QED BY <1>0, <1>3, <2>2, Zenon DEF ClientSend, loopVars
<1>4. CASE request_exit \/ PollExit \/ NoAccept \/ EndOfSlots
  BY <1>0, <1>4 DEF request_exit, PollExit, NoAccept, EndOfSlots, clientVars, loopVars
<1>5. CASE Poll
  <2>1. SlotsReady \subseteq Slot
    BY <1>0, RenderdAssumption DEF SlotsReady, Slot
  <2> QED BY <1>0, <1>5, <2>1, Zenon DEF Poll, clientVars
<1>6. ASSUME NEW c \in Conn, NEW f \in Fd, Accept(c, f) PROVE Rest
  <2>1. SlotFor \in Slot /\ num_cslots' \in 0..MAX_CONNECTIONS
    BY <1>6, SlotForFacts, Zenon DEF Accept
  <2>2. /\ conn' = [conn EXCEPT ![c] = "accepted"]
        /\ fdConn' = [fdConn EXCEPT ![f] = c]
        /\ pfd' = [pfd EXCEPT ![SlotFor] = f]
        /\ UNCHANGED <<inbox, revents, slot>>
    BY <1>6, Zenon DEF Accept
  <2> QED BY <1>0, <2>1, <2>2, Zenon
<1>7. \A c \in Conn : [inbox EXCEPT ![c] = <<>>] \in [Conn -> Seq(Message)]
  <2>1. <<>> \in Seq(Message)
    OBVIOUS
  <2> QED BY <1>1, <2>1, Zenon
<1>8. ASSUME NEW c \in Conn, AcceptDrops(c) PROVE Rest
  <2>1. inbox' \in [Conn -> Seq(Message)]
    BY <1>7, <1>8, Zenon DEF AcceptDrops
  <2> QED BY <1>0, <1>8, <2>1, Zenon DEF AcceptDrops
<1>9. \A i \in Slot : i + 1 \in Nat
  BY RenderdAssumption DEF Slot
<1>10. ASSUME NEW i \in Slot, CloseSlot(i) PROVE Rest
  <2>1. PICK f \in Fd, c \in Conn : f = pfd[i] /\ c = fdConn[f]
    BY <1>10, AtSlotFacts, Zenon DEF CloseSlot
  <2>2. /\ conn' = [conn EXCEPT ![c] = "closed"]
        /\ inbox' = [inbox EXCEPT ![c] = <<>>]
        /\ fdConn' = [fdConn EXCEPT ![f] = NoConn]
        /\ pfd' = [pfd EXCEPT ![i] = FD_INVALID]
        /\ slot' = i + 1
        /\ UNCHANGED <<revents, num_cslots>>
    BY <1>10, <2>1, Zenon DEF CloseSlot
  <2>3. inbox' \in [Conn -> Seq(Message)]
    BY <1>7, <2>2, Zenon
  <2> QED BY <1>0, <1>9, <2>2, <2>3, Zenon
<1>11. ASSUME NEW i \in Slot, ReceiveInvalid(i) \/ Receive(i) PROVE Rest
  <2>1. PICK c \in Conn : c = fdConn[pfd[i]]
    BY <1>11, AtSlotFacts, ZenonT(40) DEF ReceiveInvalid, Receive
  <2>2. /\ inbox[c] # <<>>
        /\ inbox' = [inbox EXCEPT ![c] = Tail(@)]
        /\ slot' = i + 1
        /\ UNCHANGED <<conn, fdConn, pfd, revents, num_cslots>>
    BY <1>11, <2>1, ZenonT(40) DEF ReceiveInvalid, Receive, RecvFails
  <2>3. inbox' \in [Conn -> Seq(Message)]
    BY <1>1, <2>2, MessageFacts, Zenon
  <2> QED BY <1>0, <1>9, <2>2, <2>3, Zenon
<1> QED BY <1>2, <1>3, <1>4, <1>5, <1>6, <1>8, <1>10, <1>11, ZenonT(60) DEF Clients, process_loop

(* Every step keeps the types. *)
LEMMA TypesNext ==
    ASSUME QueueInv, DaemonTypes, SlotInv, FindsFreeSlot, DaemonStep
    PROVE  DaemonTypes'
<1>0. /\ job \in [Thread -> 0..MaxRequests]
      /\ rest \in [Thread -> Seq(Request)]
      /\ sender \in [Request -> Conn \cup {NoConn}]
      /\ answers \in [Request -> Seq(Conn)]
  BY Zenon DEF DaemonTypes
<1>1. \A r \in Request, a \in Seq(Conn) : [answers EXCEPT ![r] = a] \in [Request -> Seq(Conn)]
  BY <1>0, Zenon
<1>2. \A r \in Request, c \in Conn : Append(answers[r], c) \in Seq(Conn)
  <2> SUFFICES ASSUME NEW r \in Request, NEW c \in Conn PROVE Append(answers[r], c) \in Seq(Conn)
    BY Zenon
  <2>1. PICK a \in Seq(Conn) : a = answers[r]
    BY <1>0, Zenon
  <2> QED BY <2>1
<1>3. ASSUME NEW i \in Slot, Receive(i)
      PROVE  /\ sender' \in [Request -> Conn \cup {NoConn}]
             /\ answers' \in [Request -> Seq(Conn)]
             /\ UNCHANGED <<job, rest>>
  <2>1. PICK c \in Conn, n \in Request, a \in BOOLEAN :
           /\ sender' = [sender EXCEPT ![n] = c]
           /\ answers' = [answers EXCEPT ![n] = IF a THEN Append(@, c) ELSE @]
    BY <1>3, ReceiveFacts, ZenonT(60)
  <2>2. sender' \in [Request -> Conn \cup {NoConn}]
    BY <1>0, <2>1, Zenon
  <2>3. answers[n] \in Seq(Conn) /\ Append(answers[n], c) \in Seq(Conn)
    BY <1>0, <1>2, Zenon
  <2>4. answers' \in [Request -> Seq(Conn)]
    BY <1>1, <2>1, <2>3, Zenon
  <2> QED BY <1>3, <2>2, <2>4, ZenonT(60) DEF Receive, workVars
<1>4. ASSUME Clients \/ request_exit \/ process_loop
      PROVE  /\ job' \in [Thread -> 0..MaxRequests]
             /\ rest' \in [Thread -> Seq(Request)]
             /\ sender' \in [Request -> Conn \cup {NoConn}]
             /\ answers' \in [Request -> Seq(Conn)]
  <2>1. CASE UNCHANGED <<workVars, history>>
    BY <1>0, <2>1, Zenon DEF workVars, history
  <2>2. ASSUME NEW i \in Slot, Receive(i)
        PROVE  /\ job' \in [Thread -> 0..MaxRequests]
               /\ rest' \in [Thread -> Seq(Request)]
               /\ sender' \in [Request -> Conn \cup {NoConn}]
               /\ answers' \in [Request -> Seq(Conn)]
    BY <1>0, <1>3, <2>2, ZenonT(60)
  <2> QED BY <1>4, <2>1, <2>2, Zenon
      DEF Clients, Connect, HangUp, ClientSend, request_exit, process_loop, Poll, PollExit,
          Accept, AcceptDrops, NoAccept, CloseSlot, ReceiveInvalid, EndOfSlots
<1>5. CASE Clients \/ request_exit \/ process_loop
  BY <1>4, <1>5, LoopTypes, ZenonT(60) DEF DaemonTypes
<1>6. ASSUME UNCHANGED <<clientVars, loopVars>>,
             job' \in [Thread -> 0..MaxRequests],
             rest' \in [Thread -> Seq(Request)],
             sender' = sender,
             answers' \in [Request -> Seq(Conn)]
      PROVE  DaemonTypes'
  BY <1>6, ZenonT(60) DEF DaemonTypes, clientVars, loopVars
<1>7. 0 \in 0..MaxRequests /\ Request \subseteq 0..MaxRequests
  BY ConstantsAssumption DEF Request
<1>8. ASSUME NEW t \in Thread, ThreadStep(t) PROVE DaemonTypes'
  <2>1. CASE WorkerWaits(t)
    BY <1>0, <1>6, <2>1, ZenonT(60) DEF WorkerWaits, workVars, history
  <2>2. CASE WorkerFetches(t)
    <3>1. PICK q \in WaitQueue : FetchFrom(t, q) /\ job' = [job EXCEPT ![t] = Head(queue[q])]
      BY <2>2, ZenonT(60) DEF WorkerFetches
    <3>2. PICK h \in 0..MaxRequests : h = Head(queue[q])
      BY <1>7, <3>1, FetchedRequest, ZenonT(40)
    <3>3. job' \in [Thread -> 0..MaxRequests]
      BY <1>0, <3>1, <3>2, Zenon
    <3> QED BY <1>0, <1>6, <2>2, <3>3, ZenonT(60) DEF WorkerFetches, history
  <2>3. ASSUME NEW time \in RenderTime, Release(t, time) PROVE DaemonTypes'
    <3>1. Release(t, time)
      BY <2>3, ZenonT(60)
    <3>2. job[t] \in Request
      BY <3>1, Zenon DEF Release, request_queue_remove_request, QueueInv, QueueTypeOK
    <3>3. Chain(job[t]) \in Seq(Request)
      BY <3>1, <3>2, RemoveFacts, Zenon DEF Release
    <3>4. job' \in [Thread -> 0..MaxRequests] /\ rest' \in [Thread -> Seq(Request)]
      BY <1>0, <1>7, <3>1, <3>3, Zenon DEF Release
    <3> QED BY <1>0, <1>6, <3>1, <3>4, Zenon DEF Release, history
  <2>4. CASE SendNext(t)
    <3>1. PICK s \in Seq(Request) : s = rest[t] /\ s # <<>>
      BY <1>0, <2>4, Zenon DEF SendNext
    <3>2. Head(s) \in Request /\ Tail(s) \in Seq(Request)
      BY <3>1
    <3>3. rest' = [rest EXCEPT ![t] = Tail(s)]
      BY <2>4, <3>1, Zenon DEF SendNext
    <3>4. rest' \in [Thread -> Seq(Request)]
      BY <1>0, <3>2, <3>3, Zenon
    <3>5. PICK r \in Request : r = Head(s)
      BY <3>2, Zenon
    <3>6. AnswerFd(t) \in Fd \cup {FD_INVALID}
      BY <3>1, <3>5, Zenon DEF AnswerFd, QueueInv, QueueTypeOK
    <3>7. answers' = answers \/ \E c \in Conn : answers' = [answers EXCEPT ![r] = Append(@, c)]
      <4>1. CASE AnswerFd(t) # FD_INVALID /\ reqCmd[r] # "cmdDirty" /\ fdConn[AnswerFd(t)] # NoConn
        <5>1. fdConn[AnswerFd(t)] \in Conn
          BY <3>6, <4>1, Zenon DEF DaemonTypes
        <5> QED BY <2>4, <3>1, <3>5, <4>1, <5>1, ZenonT(60) DEF SendNext
      <4>2. CASE ~(AnswerFd(t) # FD_INVALID /\ reqCmd[r] # "cmdDirty" /\ fdConn[AnswerFd(t)] # NoConn)
        <5>1. answers' = [answers EXCEPT ![r] = answers[r]]
          BY <2>4, <3>1, <3>5, <4>2, ZenonT(60) DEF SendNext
        <5> QED BY <1>0, <5>1, Zenon
      <4> QED BY <4>1, <4>2, Zenon
    <3>8. answers' \in [Request -> Seq(Conn)]
      <4>1. CASE answers' = answers
        BY <1>0, <4>1, Zenon
      <4>2. ASSUME NEW c \in Conn, answers' = [answers EXCEPT ![r] = Append(@, c)]
            PROVE  answers' \in [Request -> Seq(Conn)]
        BY <1>1, <1>2, <4>2, Zenon
      <4> QED BY <3>7, <4>1, <4>2, Zenon
    <3> QED BY <1>0, <1>6, <2>4, <3>4, <3>8, ZenonT(60) DEF SendNext
  <2>5. CASE GivesUp(t)
    <3>1. job' \in [Thread -> 0..MaxRequests]
      BY <1>0, <1>7, <2>5, Zenon DEF GivesUp
    <3> QED BY <1>0, <1>6, <2>5, <3>1, ZenonT(60) DEF GivesUp, history
  <2> QED BY <1>8, <2>1, <2>2, <2>3, <2>4, <2>5, Zenon DEF ThreadStep
<1>9. CASE UNCHANGED vars
  BY <1>0, <1>6, <1>9, Zenon DEF vars, workVars, history
<1> QED BY <1>5, <1>8, <1>9, ZenonT(60) DEF DaemonStep

-----------------------------------------------------------------------------
(* The service.  The requests in the hands of threads, and what a request  *)
(* that has not been answered waits for.                                   *)

(* Taking the first off a list without repetitions. *)
LEMMA TakeHead ==
    ASSUME NEW s \in Seq(Request), s # <<>>, NoRepeats(s)
    PROVE  /\ Tail(s) \in Seq(Request) /\ NoRepeats(Tail(s))
           /\ Head(s) \in Range(s) /\ Range(Tail(s)) = Range(s) \ {Head(s)}
<1>1. /\ Tail(s) \in Seq(Request) /\ Len(Tail(s)) = Len(s) - 1 /\ Len(s) \in Nat /\ Len(s) > 0
      /\ \A j \in 1..Len(Tail(s)) : Tail(s)[j] = s[j + 1]
      /\ Head(s) = s[1]
  OBVIOUS
<1>2. NoRepeats(Tail(s))
  BY <1>1 DEF NoRepeats
<1>3. DOMAIN s = 1..Len(s) /\ DOMAIN Tail(s) = 1..Len(Tail(s))
  BY <1>1
<1>4. Range(s) = {s[j] : j \in 1..Len(s)} /\ Range(Tail(s)) = {Tail(s)[j] : j \in 1..Len(Tail(s))}
  BY <1>3, Zenon DEF Range
<1>5. ASSUME NEW x \in Range(Tail(s)) PROVE x \in Range(s) /\ x # Head(s)
  <2>1. PICK j \in 1..Len(Tail(s)) : x = Tail(s)[j]
    BY <1>4, Zenon
  <2>2. j + 1 \in 1..Len(s) /\ 1 \in 1..Len(s) /\ j + 1 # 1 /\ x = s[j + 1]
    BY <1>1, <2>1
  <2> QED BY <1>1, <1>4, <2>2, Zenon DEF NoRepeats
<1>6. Head(s) \in Range(s)
  BY <1>1, <1>4
<1>7. ASSUME NEW x \in Range(s), x # Head(s) PROVE x \in Range(Tail(s))
  <2>1. PICK j \in 1..Len(s) : x = s[j]
    BY <1>4, Zenon
  <2>2. j - 1 \in 1..Len(Tail(s)) /\ x = Tail(s)[j - 1]
    BY <1>1, <1>7, <2>1
  <2> QED BY <1>4, <2>2, Zenon
<1> QED BY <1>1, <1>2, <1>5, <1>6, <1>7, Zenon

(* A thread that renders has a request that is being rendered, its own;    *)
(* and what slave threads dropped stays among those being rendered.        *)
JobInv ==
    /\ step \in [Slave -> {"idle", "dispatch", "await", "dead"}]
    /\ \A t \in Thread : job[t] # 0 => job[t] \in rendering \ gaveUp /\ rest[t] = <<>>
    /\ \A t, u \in Thread : job[t] # 0 /\ job[t] = job[u] => t = u
    /\ \A t \in Slave : step[t] \in {"dispatch", "await"} => job[t] # 0
    /\ gaveUp \subseteq rendering

(* A request in flight that was answered was answered to its client; one   *)
(* without answer and without descriptor has nobody waiting for it.        *)
OwedInv ==
    /\ reqCmd \in [Request -> Cmd \cup {"none"}]
    /\ \A r \in Request : InFlight(r) =>
          /\ answers[r] # <<>> => sender[r] \in Range(answers[r])
          /\ answers[r] = <<>> /\ fd[r] = FD_INVALID =>
                reqCmd[r] = "cmdDirty" \/ conn[sender[r]] = "closed"

(* What hangs off a request being rendered is in the queue. *)
LEMMA RenderedChain ==
    ASSUME QueueInv, NEW h \in rendering
    PROVE  /\ h \in Request /\ duplicates[h] \in Seq(Request)
           /\ Range(Chain(h)) = {h} \cup Range(duplicates[h])
           /\ \A r \in Range(Chain(h)) : r \in Request /\ life[r] = "queued"
<1>1. /\ h \in index /\ h \in Request /\ life[h] = "queued"
      /\ duplicates[h] \in Seq(Request)
  BY ZenonT(60) DEF QueueInv, QueueTypeOK, IndexInv, In
<1>2. \A r \in Range(duplicates[h]) : r \in Request /\ life[r] = "queued"
  BY <1>1, RangeOfChain, ZenonT(60) DEF QueueInv, ChainInv
<1>3. Range(Chain(h)) = {h} \cup Range(duplicates[h])
  BY <1>1, PushOnChain, Zenon DEF Chain
<1> QED BY <1>1, <1>2, <1>3, Zenon

(* The request that fetch_request hands out was on no thread's hands. *)
LEMMA FetchedIsNew ==
    ASSUME QueueInv, NEW t \in Thread, NEW q \in WaitQueue, FetchFrom(t, q)
    PROVE  Head(queue[q]) \in Request /\ Head(queue[q]) \notin rendering
<1>1. queue[q] \in Seq(Request) /\ num[q] = Len(queue[q]) /\ num[q] > 0 /\ Increasing(queue[q])
  BY Zenon DEF QueueInv, QueueTypeOK, ListInv, FetchFrom, Served
<1>2. Head(queue[q]) \in Range(queue[q])
  BY <1>1, TailOfList, ZenonT(60)
<1>3. Range(queue[q]) = In(q) /\ rendering = In("queueRender")
  BY Zenon DEF QueueInv, ListInv, IndexInv
<1> QED BY <1>2, <1>3, Zenon DEF In, WaitQueue

(* A thread that fetches, releases or drops a request. *)
LEMMA FetchJobs ==
    ASSUME QueueInv, DaemonTypes, JobInv, NEW t \in Thread, WorkerFetches(t),
           gaveUp' = gaveUp, step' \in [Slave -> {"idle", "dispatch", "await", "dead"}],
           \A u \in Slave : u # t => step'[u] = step[u]
    PROVE  JobInv'
<1>1. PICK q \in WaitQueue : FetchFrom(t, q) /\ job' = [job EXCEPT ![t] = Head(queue[q])]
  BY Zenon DEF WorkerFetches
<1>2. PICK h \in Request : h = Head(queue[q]) /\ h \notin rendering
  BY <1>1, FetchedIsNew, Zenon
<1>3. rendering' = rendering \cup {h} /\ job' = [job EXCEPT ![t] = h] /\ rest' = rest
  BY <1>1, <1>2, ZenonT(40) DEF FetchFrom, WorkerFetches
<1>4. job'[t] = h /\ h # 0 /\ \A u \in Thread : u # t => job'[u] = job[u]
  <2>1. h # 0
    BY ConstantsAssumption DEF Request
  <2> QED BY <1>3, <2>1, ZenonT(40) DEF DaemonTypes
<1>5. rest[t] = <<>>
  BY ZenonT(40) DEF WorkerFetches, Idle
<1>6. ASSUME NEW u \in Thread, job'[u] # 0 PROVE job'[u] \in rendering' \ gaveUp' /\ rest'[u] = <<>>
  <2>1. CASE u = t
    <3>1. h \notin gaveUp
      BY <1>2, Zenon DEF JobInv
    <3> QED BY <1>3, <1>4, <1>5, <2>1, <3>1
  <2>2. CASE u # t
    <3>1. job'[u] = job[u] /\ job[u] \in rendering \ gaveUp /\ rest[u] = <<>>
      BY <1>4, <1>6, <2>2, Zenon DEF JobInv
    <3> QED BY <1>3, <3>1
  <2> QED BY <2>1, <2>2, Zenon
<1>7. \A u, v \in Thread : job'[u] # 0 /\ job'[u] = job'[v] => u = v
  BY <1>2, <1>4 DEF JobInv
<1>8. ASSUME NEW u \in Slave, step'[u] \in {"dispatch", "await"} PROVE job'[u] # 0
  <2>1. u \in Thread
    BY RenderdAssumption, Zenon
  <2>2. CASE u = t
    BY <1>4, <2>2, Zenon
  <2>3. CASE u # t
    BY <1>4, <1>8, <2>1, <2>3, Zenon DEF JobInv
  <2> QED BY <2>2, <2>3, Zenon
<1>9. gaveUp' \subseteq rendering'
  BY <1>3, Zenon DEF JobInv
<1> QED BY <1>6, <1>7, <1>8, <1>9, ZenonT(40) DEF JobInv

(* A thread that releases its request has it no more.                      *)
LEMMA ReleaseJobs ==
    ASSUME QueueInv, DaemonTypes, JobInv, NEW t \in Thread, NEW time \in RenderTime,
           Release(t, time), job[t] # 0,
           gaveUp' = gaveUp, step' \in [Slave -> {"idle", "dispatch", "await", "dead"}],
           \A u \in Slave : u # t => step'[u] = step[u],
           t \in Slave => step'[t] = "idle"
    PROVE  JobInv'
<1>1. /\ rendering' = rendering \ {job[t]} /\ job' = [job EXCEPT ![t] = 0]
      /\ rest' = [rest EXCEPT ![t] = Chain(job[t])]
  BY ZenonT(40) DEF Release, request_queue_remove_request
<1>2. job'[t] = 0 /\ \A u \in Thread : u # t => job'[u] = job[u] /\ rest'[u] = rest[u]
  BY <1>1, ZenonT(40) DEF DaemonTypes
<1>3. job[t] \notin gaveUp /\ \A u \in Thread : u # t /\ job[u] # 0 => job[u] # job[t]
  BY Zenon DEF JobInv
<1>4. ASSUME NEW u \in Thread, job'[u] # 0 PROVE job'[u] \in rendering' \ gaveUp' /\ rest'[u] = <<>>
  <2>1. u # t
    BY <1>2, <1>4, Zenon
  <2>2. job'[u] = job[u] /\ job[u] \in rendering \ gaveUp /\ rest'[u] = <<>>
    BY <1>2, <1>4, <2>1, Zenon DEF JobInv
  <2>3. job[u] # job[t]
    BY <1>3, <1>4, <2>1, <2>2, Zenon
  <2> QED BY <1>1, <2>2, <2>3
<1>5. ASSUME NEW u \in Thread, NEW v \in Thread, job'[u] # 0, job'[u] = job'[v] PROVE u = v
  <2>1. u # t /\ v # t
    BY <1>2, <1>5, Zenon
  <2> QED BY <1>2, <1>5, <2>1, Zenon DEF JobInv
<1>6. ASSUME NEW u \in Slave, step'[u] \in {"dispatch", "await"} PROVE job'[u] # 0
  <2>1. u \in Thread
    BY RenderdAssumption, Zenon
  <2>2. u # t
    BY <1>6, ZenonT(40)
  <2> QED BY <1>2, <1>6, <2>1, <2>2, Zenon DEF JobInv
<1>7. gaveUp' \subseteq rendering'
  BY <1>1, <1>3, Zenon DEF JobInv
<1> QED BY <1>4, <1>5, <1>6, <1>7, ZenonT(40) DEF JobInv

(* A slave thread that drops its request leaves it among those being       *)
(* rendered.                                                               *)
LEMMA GiveUpJobs ==
    ASSUME QueueInv, DaemonTypes, JobInv, NEW t \in Slave, GivesUp(t), job[t] # 0,
           step' \in [Slave -> {"idle", "dispatch", "await", "dead"}],
           \A u \in Slave : u # t => step'[u] = step[u],
           step'[t] \in {"idle", "dead"}
    PROVE  JobInv'
<1>1. /\ job' = [job EXCEPT ![t] = 0] /\ gaveUp' = gaveUp \cup {job[t]}
      /\ UNCHANGED <<rendering, rest>>
  BY ZenonT(40) DEF GivesUp, queueVars
<1>2. t \in Thread
  BY RenderdAssumption, Zenon
<1>3. job'[t] = 0 /\ \A u \in Thread : u # t => job'[u] = job[u]
  BY <1>1, <1>2, ZenonT(40) DEF DaemonTypes
<1>4. ASSUME NEW u \in Thread, job'[u] # 0 PROVE job'[u] \in rendering' \ gaveUp' /\ rest'[u] = <<>>
  <2>1. u # t
    BY <1>3, <1>4, Zenon
  <2>2. job'[u] = job[u] /\ job[u] \in rendering \ gaveUp /\ rest[u] = <<>> /\ job[u] # job[t]
    BY <1>2, <1>3, <1>4, <2>1, Zenon DEF JobInv
  <2> QED BY <1>1, <2>2
<1>5. ASSUME NEW u \in Thread, NEW v \in Thread, job'[u] # 0, job'[u] = job'[v] PROVE u = v
  <2>1. u # t /\ v # t
    BY <1>3, <1>5, Zenon
  <2> QED BY <1>2, <1>3, <1>5, <2>1, ZenonT(60) DEF JobInv
<1>6. ASSUME NEW u \in Slave, step'[u] \in {"dispatch", "await"} PROVE job'[u] # 0
  <2>1. u \in Thread
    BY RenderdAssumption, Zenon
  <2>2. u # t
    BY <1>6, Zenon
  <2> QED BY <1>3, <1>6, <2>1, <2>2, Zenon DEF JobInv
<1>7. gaveUp' \subseteq rendering'
  BY <1>1, <1>2, Zenon DEF JobInv
<1> QED BY <1>4, <1>5, <1>6, <1>7, ZenonT(40) DEF JobInv

(* send_response goes through what a thread without a request still has. *)
LEMMA SendJobs ==
    ASSUME DaemonTypes, JobInv, NEW t \in Thread, SendNext(t), UNCHANGED slaveVars
    PROVE  JobInv'
<1>1. rest[t] # <<>> /\ rest' = [rest EXCEPT ![t] = Tail(@)] /\ UNCHANGED <<rendering, job, step, gaveUp>>
  BY ZenonT(40) DEF SendNext, queueVars, slaveVars
<1>2. \A u \in Thread : u # t => rest'[u] = rest[u]
  BY <1>1, Zenon DEF DaemonTypes
<1>3. \A u \in Thread : job[u] # 0 => rest'[u] = <<>>
  BY <1>1, <1>2, Zenon DEF JobInv
<1> QED BY <1>1, <1>3, ZenonT(40) DEF JobInv

(* Every step of the daemon keeps it. *)
LEMMA JobsNext ==
    ASSUME QueueInv, DaemonTypes, SlotInv, JobInv, [SlavesNext]_allVars
    PROVE  JobInv'
<1>1. CASE UNCHANGED <<job, rest, rendering, gaveUp, step>>
  BY <1>1, ZenonT(40) DEF JobInv
<1>2. CASE (Clients \/ request_exit \/ process_loop) /\ UNCHANGED slaveVars
  <2>1. ASSUME NEW i \in Slot, Receive(i) PROVE rendering' = rendering
    <3>1. PICK s \in Tile, k \in ClientCmd, f \in Fd : request_queue_add_request(s, k, ItemFd(k, f))
      BY <2>1, ReceiveFacts, ZenonT(60)
    <3> QED BY <3>1, ZenonT(40) DEF request_queue_add_request, AddMatchesDirty, AddDuplicate, AddToList, AddToDirty,
              AddDropped, Enqueue
  <2>2. rendering' = rendering
    BY <1>2, <2>1, ZenonT(60) DEF Clients, Connect, HangUp, ClientSend, request_exit, process_loop, Poll,
        PollExit, Accept, AcceptDrops, NoAccept, CloseSlot, request_queue_clear_requests_by_fd,
        ReceiveInvalid, EndOfSlots, queueVars
  <2>3. UNCHANGED workVars
    BY <1>2, ZenonT(60) DEF Clients, Connect, HangUp, ClientSend, request_exit, process_loop, Poll,
        PollExit, Accept, AcceptDrops, NoAccept, CloseSlot, ReceiveInvalid, Receive, EndOfSlots
  <2> QED BY <1>1, <1>2, <2>2, <2>3, ZenonT(40) DEF workVars, slaveVars
<1>3. ASSUME NEW t \in Worker, render_thread(t), UNCHANGED slaveVars PROVE JobInv'
  <2>1. /\ t \in Thread /\ t \notin Slave /\ gaveUp' = gaveUp
        /\ step' \in [Slave -> {"idle", "dispatch", "await", "dead"}]
        /\ step' = step
    BY <1>3, ZenonT(40) DEF Worker, slaveVars, JobInv
  <2>2. CASE WorkerWaits(t)
    BY <1>1, <2>1, <2>2, ZenonT(40) DEF WorkerWaits, FetchBlocks, SpuriousWakeup, workVars
  <2>3. CASE WorkerFetches(t)
    BY <2>1, <2>3, FetchJobs, ZenonT(40)
  <2>4. CASE WorkerRenders(t)
    <3>1. PICK time \in RenderTime : Release(t, time)
      BY <2>4, Zenon DEF WorkerRenders
    <3>2. job[t] # 0
      BY <2>4, Zenon DEF WorkerRenders
    <3> QED BY <2>1, <3>1, <3>2, ReleaseJobs, ZenonT(40)
  <2>5. CASE SendNext(t)
    BY <1>3, <2>1, <2>5, SendJobs, ZenonT(40)
  <2> QED BY <1>3, <2>2, <2>3, <2>4, <2>5, Zenon DEF render_thread
<1>4. ASSUME NEW t \in Slave, slave_thread(t) PROVE JobInv'
  <2>1. t \in Thread /\ -1 \in RenderTime /\ step \in [Slave -> {"idle", "dispatch", "await", "dead"}]
    BY RenderdAssumption, SlavesAssumption, Zenon DEF JobInv
  <2>2. ASSUME NEW s \in {"idle", "dispatch", "await", "dead"}, GoTo(t, s)
        PROVE  /\ step' \in [Slave -> {"idle", "dispatch", "await", "dead"}]
               /\ step'[t] = s
               /\ \A u \in Slave : u # t => step'[u] = step[u]
    BY <2>1, <2>2, ZenonT(40) DEF GoTo
  <2>3. ASSUME NEW s \in {"dispatch", "await"}, At(t, s) PROVE job[t] # 0
    BY <2>3, Zenon DEF At, JobInv
  <2>4. CASE SlaveConnects(t) \/ SlaveWaits(t)
    BY <1>1, <2>4, ZenonT(40) DEF SlaveConnects, SlaveWaits, WorkerWaits, FetchBlocks, SpuriousWakeup,
        workVars, slaveVars, vars, queueVars
  <2>5. CASE SlaveFetches(t)
    <3>1. WorkerFetches(t) /\ GoTo(t, "dispatch") /\ gaveUp' = gaveUp
      BY <2>5, Zenon DEF SlaveFetches
    <3> QED BY <2>1, <2>2, <3>1, FetchJobs, ZenonT(40)
  <2>6. CASE SlaveSends(t)
    <3>1. At(t, "dispatch") /\ GoTo(t, "await") /\ UNCHANGED <<job, rest, rendering, gaveUp>>
      BY <2>6, ZenonT(40) DEF SlaveSends, vars, queueVars, workVars
    <3> QED BY <2>2, <2>3, <3>1, ZenonT(60) DEF JobInv
  <2>7. CASE SlaveLosesLink(t) \/ SlaveAnswers(t) \/ SlaveHangsUp(t)
    <3>1. Release(t, -1) /\ GoTo(t, "idle") /\ gaveUp' = gaveUp /\ job[t] # 0
      BY <2>3, <2>7, ZenonT(40) DEF SlaveLosesLink, SlaveAnswers, SlaveHangsUp, SlaveReleases
    <3> QED BY <2>1, <2>2, <3>1, ReleaseJobs, ZenonT(40)
  <2>8. CASE SlaveResends(t)
    <3>1. CASE MayRetry(t)
      BY <1>1, <2>8, <3>1, ZenonT(40) DEF SlaveResends, vars, queueVars, workVars
    <3>2. CASE ~MayRetry(t)
      <4>1. GoTo(t, "idle") /\ GivesUp(t) /\ job[t] # 0
        BY <2>3, <2>8, <3>2, ZenonT(40) DEF SlaveResends
      <4> QED BY <2>2, <4>1, GiveUpJobs, ZenonT(40)
    <3> QED BY <3>1, <3>2, Zenon
  <2>9. CASE SlaveDies(t)
    <3>1. GoTo(t, "dead") /\ GivesUp(t) /\ job[t] # 0
      BY <2>3, <2>9, ZenonT(40) DEF SlaveDies
    <3> QED BY <2>2, <3>1, GiveUpJobs, ZenonT(40)
  <2>10. CASE SlaveSendNext(t)
    BY <2>1, <2>10, SendJobs, ZenonT(40) DEF SlaveSendNext
  <2> QED BY <1>4, <2>4, <2>5, <2>6, <2>7, <2>8, <2>9, <2>10, Zenon DEF slave_thread
<1>5. CASE UNCHANGED allVars
  BY <1>1, <1>5, ZenonT(40) DEF allVars, vars, queueVars, workVars, slaveVars
<1> QED BY <1>2, <1>3, <1>4, <1>5, ZenonT(40) DEF SlavesNext, Next

(* What a request waits for stays so while it keeps its place: a step that *)
(* takes its descriptor away has closed its connection.                    *)
LEMMA OwedKept ==
    ASSUME DaemonTypes, RequestsInv, OwedInv, UNCHANGED <<sender, answers, reqCmd>>,
           \A r \in Request : InFlight(r)' => InFlight(r),
           \A c \in Conn : conn[c] = "closed" => conn'[c] = "closed",
           \A r \in Request : InFlight(r) /\ fd'[r] = FD_INVALID =>
              fd[r] = FD_INVALID \/ conn'[sender[r]] = "closed"
    PROVE  OwedInv'
<1>1. \A r \in Request : InFlight(r) => sender[r] \in Conn
  BY Zenon DEF RequestsInv, RestInv, SenderInv, InFlight
<1>2. ASSUME NEW r \in Request, InFlight(r)'
      PROVE  /\ answers'[r] # <<>> => sender'[r] \in Range(answers'[r])
             /\ answers'[r] = <<>> /\ fd'[r] = FD_INVALID =>
                   reqCmd'[r] = "cmdDirty" \/ conn'[sender'[r]] = "closed"
  BY <1>1, <1>2, ZenonT(40) DEF OwedInv
<1> QED BY <1>2, Zenon DEF OwedInv

(* A request that is received has its descriptor, or is a cmdDirty, or has *)
(* been answered.                                                          *)
LEMMA AddedFacts ==
    ASSUME QueueInv, NEW s \in Tile, NEW k \in ClientCmd, NEW f \in Fd \cup {FD_INVALID},
           request_queue_add_request(s, k, f), AddStatus(s, k) # "cmdNotDone"
    PROVE  /\ life' = [life EXCEPT ![arrived + 1] = "queued"]
           /\ fd' = [fd EXCEPT ![arrived + 1] = f]
<1>1. AddDuplicate(s, k, f) \/ AddToList(s, k, f)
  BY Zenon DEF request_queue_add_request, AddMatchesDirty, AddToDirty, AddDropped, AddStatus
<1> QED BY <1>1, Zenon DEF AddDuplicate, AddToList, Enqueue

(* A list of one. *)
LEMMA Single ==
    ASSUME NEW c
    PROVE  <<c>> # <<>> /\ Range(<<c>>) = {c} /\ Append(<<>>, c) = <<c>>
BY DEF Range

(* What process_loop does with request n, which client c sent through f,   *)
(* and that the other requests stay as they are.                           *)
Received(s, k, f, c, n) ==
    /\ n = arrived + 1 /\ arrived' = n /\ life[n] = "unborn"
    /\ request_queue_add_request(s, k, ItemFd(k, f))
    /\ sender'[n] = c /\ reqCmd' = [reqCmd EXCEPT ![n] = k]
    /\ \/ answers'[n] = <<c>>
       \/ answers'[n] = <<>> /\ life'[n] = "queued" /\ fd'[n] = ItemFd(k, f)
    /\ \A r \in Request : r # n =>
          /\ life'[r] = life[r] /\ fd'[r] = fd[r] /\ sender'[r] = sender[r]
          /\ answers'[r] = answers[r] /\ reqCmd'[r] = reqCmd[r]
    /\ UNCHANGED <<conn, hup, rest, exitPipe>>

(* process_loop receives one request. *)
LEMMA ReceivedFacts ==
    ASSUME QueueInv, DaemonTypes, SlotInv, RequestsInv, OwedInv, NEW i \in Slot, Receive(i)
    PROVE  \E s \in Tile, k \in ClientCmd, f \in Fd, c \in Conn, n \in Request : Received(s, k, f, c, n)
<1>1. PICK s \in Tile, k \in ClientCmd, f \in Fd, c \in Conn, n \in Request :
         /\ n = arrived + 1 /\ life[n] = "unborn"
         /\ fdConn[f] = c /\ conn[c] = "accepted"
         /\ request_queue_add_request(s, k, ItemFd(k, f))
         /\ inbox' = [inbox EXCEPT ![c] = Tail(@)]
         /\ Tail(inbox[c]) \in Seq(Message)
         /\ sender' = [sender EXCEPT ![n] = c]
         /\ reqCmd' = [reqCmd EXCEPT ![n] = k]
         /\ answers' = [answers EXCEPT ![n] =
               IF AddStatus(s, k) = "cmdNotDone" THEN Append(@, c) ELSE @]
  BY ReceiveFacts, Zenon
<1>2. k \in Cmd /\ ItemFd(k, f) \in Fd \cup {FD_INVALID}
  BY ConstantsAssumption, Zenon DEF ItemFd
<1>3. \A r \in Request : r # n => life'[r] = life[r] /\ fd'[r] = fd[r]
  BY <1>1, <1>2, AddFacts, ZenonT(40) DEF QueueInv, QueueTypeOK
<1>4. \A r \in Request : r # n => sender'[r] = sender[r] /\ answers'[r] = answers[r] /\ reqCmd'[r] = reqCmd[r]
  BY <1>1, Zenon DEF DaemonTypes, OwedInv
<1>5. UNCHANGED <<conn, hup, rest, exitPipe>>
  BY ZenonT(40) DEF Receive, workVars
<1>6. arrived' = n
  BY <1>1, Zenon DEF request_queue_add_request, AddMatchesDirty, AddDuplicate, AddToList, AddToDirty,
     AddDropped, Arrive
<1>7. answers[n] = <<>> /\ sender'[n] = c
  BY <1>1, Zenon DEF RequestsInv, SenderInv, DaemonTypes
<1>8. \/ answers'[n] = <<c>>
      \/ answers'[n] = <<>> /\ life'[n] = "queued" /\ fd'[n] = ItemFd(k, f)
  <2>1. CASE AddStatus(s, k) = "cmdNotDone"
    <3>1. answers'[n] = Append(<<>>, c)
      BY <1>1, <1>7, <2>1, Zenon DEF DaemonTypes
    <3> QED BY <3>1, Single, Zenon
  <2>2. CASE AddStatus(s, k) # "cmdNotDone"
    <3>1. answers'[n] = <<>>
      BY <1>1, <1>7, <2>2, Zenon DEF DaemonTypes
    <3>2. life' = [life EXCEPT ![n] = "queued"] /\ fd' = [fd EXCEPT ![n] = ItemFd(k, f)]
      BY <1>1, <1>2, <2>2, AddedFacts, ZenonT(60)
    <3>3. life'[n] = "queued" /\ fd'[n] = ItemFd(k, f)
      BY <3>2, Zenon DEF QueueInv, QueueTypeOK
    <3> QED BY <3>1, <3>3, Zenon
  <2> QED BY <2>1, <2>2, Zenon
<1>9. Received(s, k, f, c, n)
  BY <1>1, <1>3, <1>4, <1>5, <1>6, <1>7, <1>8, ZenonT(40) DEF Received
<1> QED BY <1>9, Zenon

(* What requests wait for, when process_loop has received one more.        *)
LEMMA ReceiveOwed ==
    ASSUME QueueInv, DaemonTypes, SlotInv, RequestsInv, OwedInv, NEW i \in Slot, Receive(i)
    PROVE  OwedInv'
<1>0. PICK s \in Tile, k \in ClientCmd, f \in Fd, c \in Conn, n \in Request : Received(s, k, f, c, n)
  BY ReceivedFacts, Zenon
<1>1. /\ sender'[n] = c /\ reqCmd' = [reqCmd EXCEPT ![n] = k]
      /\ \/ answers'[n] = <<c>>
         \/ answers'[n] = <<>> /\ fd'[n] = ItemFd(k, f)
      /\ \A r \in Request : r # n =>
            /\ life'[r] = life[r] /\ fd'[r] = fd[r] /\ sender'[r] = sender[r]
            /\ answers'[r] = answers[r] /\ reqCmd'[r] = reqCmd[r]
      /\ UNCHANGED <<conn, rest>>
  BY <1>0, Zenon DEF Received
<1>2. reqCmd' \in [Request -> Cmd \cup {"none"}] /\ reqCmd'[n] = k
  BY <1>1, ConstantsAssumption, Zenon DEF OwedInv
<1>3. ASSUME NEW r \in Request, InFlight(r)'
      PROVE  /\ answers'[r] # <<>> => sender'[r] \in Range(answers'[r])
             /\ answers'[r] = <<>> /\ fd'[r] = FD_INVALID =>
                   reqCmd'[r] = "cmdDirty" \/ conn'[sender'[r]] = "closed"
  <2>1. CASE r # n
    <3>1. InFlight(r)
      BY <1>1, <1>3, <2>1, Zenon DEF InFlight
    <3> QED BY <1>1, <2>1, <3>1, ZenonT(40) DEF OwedInv
  <2>2. CASE r = n /\ answers'[n] = <<c>>
    <3>1. c \in Range(<<c>>) /\ <<c>> # <<>>
      BY Single, Zenon
    <3> QED BY <1>1, <2>2, <3>1, Zenon
  <2>3. CASE r = n /\ answers'[n] = <<>> /\ fd'[n] = ItemFd(k, f)
    BY <1>2, <2>3, ConstantsAssumption, ZenonT(40) DEF ItemFd
  <2> QED BY <1>1, <2>1, <2>2, <2>3, Zenon
<1> QED BY <1>2, <1>3, Zenon DEF OwedInv

(* A step that receives, releases and answers no request: clients may go,  *)
(* and a request loses its descriptor only with its client.                *)
Quiet ==
    /\ UNCHANGED <<arrived, life, duplicates, sender, reqCmd, answers, rest>>
    /\ \A c \in Conn : conn[c] = "closed" => conn'[c] = "closed"
    /\ \A r \in Request : InFlight(r) /\ fd'[r] = FD_INVALID =>
          fd[r] = FD_INVALID \/ conn'[sender[r]] = "closed"
    /\ \/ hup \subseteq hup' /\ exitPipe' = exitPipe
       \/ UNCHANGED <<hup, conn>> /\ exitPipe' = TRUE

(* Every step of the daemon is quiet, receives a request, releases one or  *)
(* answers one.                                                            *)
LEMMA QuietSteps ==
    ASSUME QueueInv, DaemonTypes, SlotInv, RequestsInv, DaemonStep
    PROVE  \/ Quiet
           \/ \E i \in Slot : Receive(i)
           \/ \E t \in Thread : SendNext(t) \/ \E time \in RenderTime : Release(t, time)
<1>1. ASSUME NEW i \in Slot, CloseSlot(i) PROVE Quiet
  <2>1. PICK f \in Fd, c \in Conn :
           /\ fdConn[f] = c
           /\ request_queue_clear_requests_by_fd(f)
           /\ conn' = [conn EXCEPT ![c] = "closed"]
    BY <1>1, AtSlotFacts, ZenonT(60) DEF CloseSlot
  <2>2. \A d \in Conn : conn[d] = "closed" => conn'[d] = "closed"
    BY <2>1, Zenon DEF DaemonTypes
  <2>3. UNCHANGED <<arrived, life, duplicates, sender, reqCmd, answers, rest, hup, exitPipe>>
    BY <1>1, <2>1, ZenonT(60) DEF CloseSlot, workVars, history, request_queue_clear_requests_by_fd
  <2>4. ASSUME NEW r \in Request, InFlight(r), fd'[r] = FD_INVALID, fd[r] # FD_INVALID
        PROVE  conn'[sender[r]] = "closed"
    <3>1. fd[r] = f
      BY <2>1, <2>4, ZenonT(40) DEF request_queue_clear_requests_by_fd
    <3>2. c = sender[r] \/ conn[sender[r]] = "closed"
      BY <2>1, <2>4, <3>1, ZenonT(40) DEF RequestsInv, AnswerInv
    <3>3. sender[r] \in Conn
      BY <2>4, Zenon DEF RequestsInv, RestInv, SenderInv, InFlight
    <3> QED BY <2>1, <2>2, <3>2, <3>3, ZenonT(40) DEF DaemonTypes
  <2> QED BY <2>2, <2>3, <2>4, ZenonT(40) DEF Quiet
<1>2. ASSUME UNCHANGED <<arrived, life, fd, duplicates, sender, reqCmd, answers, rest, hup, conn>>,
             exitPipe' = exitPipe \/ exitPipe' = TRUE
      PROVE  Quiet
  BY <1>2, ZenonT(40) DEF Quiet
<1>3. ASSUME NEW t \in Thread, WorkerWaits(t) \/ WorkerFetches(t) \/ GivesUp(t) PROVE Quiet
  BY <1>2, <1>3, ZenonT(60) DEF WorkerWaits, WorkerFetches, FetchBlocks, SpuriousWakeup,
     FetchFrom, GivesUp, queueVars, itemVars, clientVars, loopVars, workVars, history
<1>4. CASE \/ \E c \in Conn, m \in Message : ClientSend(c, m)
           \/ request_exit \/ Poll \/ PollExit \/ NoAccept \/ EndOfSlots
           \/ \E i \in Slot : ReceiveInvalid(i)
           \/ UNCHANGED vars
  <2>1. UNCHANGED <<queueVars, hup, conn, workVars, history>> /\ (exitPipe' = exitPipe \/ exitPipe' = TRUE)
    BY <1>4, ZenonT(60) DEF ClientSend, request_exit, Poll, PollExit, NoAccept, EndOfSlots,
        ReceiveInvalid, clientVars, vars
  <2> QED BY <1>2, <2>1, ZenonT(60) DEF queueVars, itemVars, workVars, history
<1>5. ASSUME NEW c \in Conn, Connect(c) \/ HangUp(c) \/ AcceptDrops(c) \/ \E f \in Fd : Accept(c, f)
      PROVE  Quiet
  <2>1. UNCHANGED <<queueVars, exitPipe, workVars, history>> /\ hup \subseteq hup'
    BY <1>5, ZenonT(60) DEF Connect, HangUp, AcceptDrops, Accept
  <2>2. \/ conn' = conn
        \/ conn[c] # "closed" /\ conn' = [conn EXCEPT ![c] = "backlog"]
        \/ conn[c] # "closed" /\ conn' = [conn EXCEPT ![c] = "accepted"]
        \/ conn' = [conn EXCEPT ![c] = "closed"]
    BY <1>5, Zenon DEF Connect, HangUp, AcceptDrops, Accept, Backlog
  <2>3. \A d \in Conn : conn[d] = "closed" => conn'[d] = "closed"
    BY <2>2, Zenon DEF DaemonTypes
  <2> QED BY <2>1, <2>3, ZenonT(60) DEF Quiet, queueVars, itemVars, workVars, history
<1> QED BY <1>1, <1>3, <1>4, <1>5, ZenonT(60) DEF DaemonStep, ThreadStep, Clients, process_loop

(* A thread that takes requests off the queue has them to answer. *)
LEMMA ReleaseInFlight ==
    ASSUME QueueInv, DaemonTypes, JobInv, NEW t \in Thread, NEW time \in RenderTime, Release(t, time)
    PROVE  \A r \in Request : InFlight(r)' <=> InFlight(r)
<1>1. request_queue_remove_request(job[t], time)
  BY Zenon DEF Release
<1>2. job[t] \in Request
  BY <1>1, Zenon DEF request_queue_remove_request, QueueInv, QueueTypeOK
<1>3. PICK s \in Seq(Request) :
         /\ s = Chain(job[t])
         /\ \A d \in Range(s) : d \in Request /\ life[d] = "queued" /\ life'[d] = "gone"
         /\ \A d \in Request : d \notin Range(s) => life'[d] = life[d]
  BY <1>1, <1>2, RemoveFacts, ZenonT(60)
<1>4. rest' = [rest EXCEPT ![t] = s]
  BY <1>3, ZenonT(60) DEF Release
<1>5. rest'[t] = s /\ \A u \in Thread : u # t => rest'[u] = rest[u]
  BY <1>4, ZenonT(60) DEF DaemonTypes
<1>6. Range(rest[t]) = {}
  <2>1. job[t] # 0
    BY <1>2, ConstantsAssumption DEF Request
  <2> QED BY <2>1 DEF JobInv, Range
<1>7. ASSUME NEW r \in Request, r \in Range(s) PROVE InFlight(r)' /\ InFlight(r)
  BY <1>3, <1>5, <1>7, Zenon DEF InFlight
<1>8. ASSUME NEW r \in Request, r \notin Range(s) PROVE InFlight(r)' <=> InFlight(r)
  <2>1. life'[r] = life[r]
    BY <1>3, <1>8, Zenon
  <2>2. \A u \in Thread : r \in Range(rest'[u]) <=> r \in Range(rest[u])
    BY <1>5, <1>6, <1>8, Zenon
  <2> QED BY <2>1, <2>2, Zenon DEF InFlight
<1> QED BY <1>7, <1>8, Zenon

(* A thread that answers a request is done with it. *)
LEMMA SendFacts ==
    ASSUME QueueInv, DaemonTypes, RequestsInv, NEW t \in Thread, SendNext(t)
    PROVE  \E r \in Request :
              /\ life[r] = "gone" /\ InFlight(r) /\ ~InFlight(r)'
              /\ \A q \in Request : q # r => (InFlight(q)' <=> InFlight(q))
              /\ answers' = [answers EXCEPT ![r] =
                    IF fd[r] # FD_INVALID /\ reqCmd[r] # "cmdDirty" /\ fdConn[fd[r]] # NoConn
                    THEN Append(@, fdConn[fd[r]]) ELSE @]
              /\ UNCHANGED <<arrived, life, fd, duplicates, conn, hup, exitPipe, sender, reqCmd>>
<1>1. PICK s \in Seq(Request) : s = rest[t] /\ s # <<>>
  BY Zenon DEF SendNext, DaemonTypes
<1>2. PICK r \in Request : r = Head(s)
  BY <1>1
<1>3. /\ rest' = [rest EXCEPT ![t] = Tail(s)]
      /\ answers' = [answers EXCEPT ![r] =
            IF fd[r] # FD_INVALID /\ reqCmd[r] # "cmdDirty" /\ fdConn[fd[r]] # NoConn
            THEN Append(@, fdConn[fd[r]]) ELSE @]
      /\ UNCHANGED <<arrived, life, fd, duplicates, conn, hup, exitPipe, sender, reqCmd>>
  BY <1>1, <1>2, ZenonT(60) DEF SendNext, AnswerFd, queueVars, itemVars, clientVars
<1>4. /\ NoRepeats(s)
      /\ \A q \in Range(s) : life[q] = "gone" /\ \A u \in Thread \ {t} : q \notin Range(rest[u])
  BY <1>1, ZenonT(60) DEF RequestsInv, RestInv
<1>5. r \in Range(s) /\ Range(Tail(s)) = Range(s) \ {r}
  BY <1>1, <1>2, <1>4, TakeHead, ZenonT(60)
<1>6. r \notin Range(Tail(s))
  BY <1>5, Zenon
<1>7. rest'[t] = Tail(s) /\ \A u \in Thread : u # t => rest'[u] = rest[u]
  BY <1>3, ZenonT(40) DEF DaemonTypes
<1>8. life[r] = "gone" /\ InFlight(r) /\ ~InFlight(r)'
  BY <1>1, <1>3, <1>4, <1>5, <1>6, <1>7, ZenonT(60) DEF InFlight
<1>9. ASSUME NEW q \in Request, q # r PROVE InFlight(q)' <=> InFlight(q)
  <2>1. \A u \in Thread : q \in Range(rest'[u]) <=> q \in Range(rest[u])
    BY <1>1, <1>5, <1>7, <1>9, ZenonT(40)
  <2> QED BY <1>3, <2>1, Zenon DEF InFlight
<1> QED BY <1>3, <1>8, <1>9, ZenonT(60)

(* Every step of the daemon keeps what requests wait for. *)
LEMMA OwedNext ==
    ASSUME QueueInv, DaemonTypes, SlotInv, RequestsInv, JobInv, OwedInv, DaemonStep
    PROVE  OwedInv'
<1>1. CASE Quiet
  <2>1. \A r \in Request : InFlight(r)' => InFlight(r)
    BY <1>1, Zenon DEF Quiet, InFlight
  <2> QED BY <1>1, <2>1, OwedKept, ZenonT(60) DEF Quiet
<1>2. ASSUME NEW t \in Thread, NEW time \in RenderTime, Release(t, time) PROVE OwedInv'
  <2>1. UNCHANGED <<fd, sender, answers, reqCmd, conn>>
    BY <1>2, ZenonT(40) DEF Release, request_queue_remove_request, clientVars, history
  <2>2. \A r \in Request : InFlight(r)' => InFlight(r)
    BY <1>2, ReleaseInFlight, Zenon
  <2> QED BY <2>1, <2>2, OwedKept, ZenonT(60)
<1>3. ASSUME NEW t \in Thread, SendNext(t) PROVE OwedInv'
  <2>1. PICK r \in Request :
           /\ ~InFlight(r)'
           /\ \A q \in Request : q # r => (InFlight(q)' <=> InFlight(q))
           /\ answers' = [answers EXCEPT ![r] =
                 IF fd[r] # FD_INVALID /\ reqCmd[r] # "cmdDirty" /\ fdConn[fd[r]] # NoConn
                 THEN Append(@, fdConn[fd[r]]) ELSE @]
           /\ UNCHANGED <<fd, conn, sender, reqCmd>>
    BY <1>3, SendFacts, ZenonT(60)
  <2>2. \A q \in Request : q # r => answers'[q] = answers[q]
    BY <2>1, Zenon DEF DaemonTypes
  <2> QED BY <2>1, <2>2, ZenonT(60) DEF OwedInv
<1> QED BY <1>1, <1>2, <1>3, QuietSteps, ReceiveOwed, ZenonT(60)
=============================================================================
