---------------------------- MODULE RequestQueue ----------------------------
(***************************************************************************)
(* renderd's central request queue (src/src/request_queue.c).              *)
(*                                                                         *)
(* Every operation of the queue runs with qLock held, so each one is an    *)
(* atomic action here.  The five waiting lists are sequences; the list of  *)
(* requests being rendered is only ever searched, so it is a set.  The     *)
(* chain that hangs off item->duplicates is the sequence duplicates[i].    *)
(* The hash index is the set of the requests it holds; module HashIndex    *)
(* shows that the buckets of the code implement that set.                  *)
(*                                                                         *)
(* A request is a number, given in the order of the calls to               *)
(* request_queue_add_request; a struct item is never used for two          *)
(* requests, so the number stands for the item too.                        *)
(***************************************************************************)
EXTENDS Integers, Sequences, FiniteSets, Functions

CONSTANTS
    MaxRequests,   \* bound: how many requests arrive in a behaviour
    Tile,          \* metatiles: what (mx, my, z, xmlname) identify
    Zoom,          \* zoom levels that have statistics of their own
    ZoomOf,        \* the zoom level of a metatile
    Fd,            \* file descriptors of client connections
    FD_INVALID,    \* "no descriptor"
    ClientCmd,     \* the commands the clients send
    Thread,        \* the threads that call request_queue_fetch_request
    RenderTime,    \* the values render_time can have; -1 is "not rendered"
    REQ_LIMIT,     \* capacity of each of the four request lists
    DIRTY_LIMIT    \* capacity of the dirty list

(* The commands rx_request accepts. *)
Cmd == {"cmdRender", "cmdRenderPrio", "cmdRenderLow", "cmdRenderBulk", "cmdDirty"}

ASSUME ConstantsAssumption ==
    /\ MaxRequests \in Nat
    /\ Tile # {}
    /\ ZoomOf \in [Tile -> Zoom]
    /\ FD_INVALID \notin Fd
    /\ ClientCmd \subseteq Cmd
    /\ IsFiniteSet(Thread)
    /\ RenderTime \subseteq Int
    /\ REQ_LIMIT \in Nat
    /\ DIRTY_LIMIT \in Nat

Request == 1..MaxRequests

(* The lists that wait for a thread, and every value of queueEnum. *)
WaitQueue == {"queueRequestPrio", "queueRequest", "queueRequestLow",
              "queueDirty", "queueRequestBulk"}
QueueEnum == WaitQueue \cup {"queueRender", "queueDuplicate"}

(* request_queue_fetch_request serves the lists in this order. *)
Rank(q) == CASE q = "queueRequestPrio" -> 1
             [] q = "queueRequest"     -> 2
             [] q = "queueRequestLow"  -> 3
             [] q = "queueDirty"       -> 4
             [] q = "queueRequestBulk" -> 5

(* The list a command asks for; cmdDirty asks for none of the limited ones. *)
ListFor(c) == CASE c = "cmdRender"     -> "queueRequest"
                [] c = "cmdRenderPrio" -> "queueRequestPrio"
                [] c = "cmdRenderLow"  -> "queueRequestLow"
                [] c = "cmdRenderBulk" -> "queueRequestBulk"
                [] c = "cmdDirty"      -> "queueDirty"

VARIABLES
    arrived,          \* how many requests have been passed to add_request
    life,             \* "unborn", "queued" (owned by the queue) or "gone"
    tile, fd,         \* (mx, my, z, xmlname) and fd of the item
    inQueue, originatedQueue,
    duplicates,       \* the chain that starts at item->duplicates
    queue,            \* the five waiting lists
    num,              \* reqNum, reqPrioNum, reqLowNum, reqBulkNum, dirtyNum
    rendering,        \* the list renderHead
    index,            \* the requests in item_hashidx
    thread,           \* where a fetching thread stands with qCond
    stats             \* stats_struct

itemVars == <<arrived, life, tile, fd, inQueue, originatedQueue, duplicates>>
queueVars == <<itemVars, queue, num, rendering, index, thread, stats>>

NoStats == [render     |-> [q \in WaitQueue |-> 0],
            dropped    |-> 0,
            time       |-> [q \in WaitQueue |-> 0],
            zoomRender |-> [z \in Zoom |-> 0],
            zoomTime   |-> [z \in Zoom |-> 0]]

request_queue_init ==
    /\ arrived = 0
    /\ life = [r \in Request |-> "unborn"]
    /\ tile = [r \in Request |-> CHOOSE t \in Tile : TRUE]
    /\ fd = [r \in Request |-> FD_INVALID]
    /\ inQueue = [r \in Request |-> "queueDuplicate"]
    /\ originatedQueue = [r \in Request |-> "none"]
    /\ duplicates = [r \in Request |-> <<>>]
    /\ queue = [q \in WaitQueue |-> <<>>]
    /\ num = [q \in WaitQueue |-> 0]
    /\ rendering = {}
    /\ index = {}
    /\ thread = [t \in Thread |-> "out"]
    /\ stats = NoStats

-----------------------------------------------------------------------------
(* request_queue_add_request *)

(* lookup_item_idx: the indexed requests for the same metatile. *)
Match(t) == {i \in index : tile[i] = t}

(* Mutation: pending forgets the requests being rendered. *)
pendingMissesRender(t) ==
    IF \E i \in Match(t) : inQueue[i] \in {"queueRequest", "queueRequestPrio", "queueRequestLow"}
    THEN "cmdIgnore"
    ELSE IF \E i \in Match(t) : inQueue[i] \in {"queueDirty", "queueRequestBulk"}
    THEN "cmdNotDone"
    ELSE "cmdRender"

(* What pending answers for a request for metatile t. *)
pending(t) ==
    IF \E i \in Match(t) : inQueue[i] \in {"queueRender", "queueRequest",
                                           "queueRequestPrio", "queueRequestLow"}
    THEN "cmdIgnore"
    ELSE IF \E i \in Match(t) : inQueue[i] \in {"queueDirty", "queueRequestBulk"}
    THEN "cmdNotDone"
    ELSE "cmdRender"

HasRoom(c) == c # "cmdDirty" /\ num[ListFor(c)] < REQ_LIMIT
DirtyHasRoom == num["queueDirty"] < DIRTY_LIMIT

(* Mutation: a duplicate is reported as not done. *)
AddStatusDuplicate(t, c) ==
    IF pending(t) # "cmdRender" THEN "cmdNotDone"
    ELSE IF HasRoom(c) THEN "cmdIgnore" ELSE "cmdNotDone"

(* The value request_queue_add_request returns. *)
AddStatus(t, c) ==
    IF pending(t) # "cmdRender" THEN pending(t)
    ELSE IF HasRoom(c) THEN "cmdIgnore" ELSE "cmdNotDone"

(* The next request enters with the coordinates rx_request filled in.  Its *)
(* command is not kept: it chooses the list and, in rx_request, whether    *)
(* there is a descriptor to answer; nothing reads it later.                *)
Arrive(t) ==
    /\ arrived < MaxRequests
    /\ arrived' = arrived + 1
    /\ tile' = [tile EXCEPT ![arrived + 1] = t]

(* Mutation: signal only when the queue was empty, since a thread that     *)
(* finds work does not wait.                                               *)
SignalWhenEmpty ==
    IF \A q \in WaitQueue : num[q] = 0
    THEN \/ \E t \in Thread : thread[t] = "blocked" /\ thread' = [thread EXCEPT ![t] = "woken"]
         \/ (\A t \in Thread : thread[t] # "blocked") /\ UNCHANGED thread
    ELSE UNCHANGED thread

(* pthread_cond_signal: wakes one of the threads blocked in cond_wait, if any. *)
Signal ==
    \/ \E t \in Thread : thread[t] = "blocked" /\ thread' = [thread EXCEPT ![t] = "woken"]
    \/ (\A t \in Thread : thread[t] # "blocked") /\ UNCHANGED thread

(* A match waits on the dirty or bulk list: the new request is freed. *)
AddMatchesDirty(t, c, f) ==
    /\ Arrive(t)
    /\ pending(t) = "cmdNotDone"
    /\ life' = [life EXCEPT ![arrived + 1] = "gone"]
    /\ UNCHANGED <<fd, inQueue, originatedQueue, duplicates, queue, num,
                   rendering, index, thread, stats>>

(* Mutation: the new duplicate replaces the older ones. *)
AddDuplicateReplaces(t, c, f) ==
    /\ Arrive(t)
    /\ pending(t) = "cmdIgnore"
    /\ life' = [life EXCEPT ![arrived + 1] = "queued"]
    /\ fd' = [fd EXCEPT ![arrived + 1] = f]
    /\ inQueue' = [inQueue EXCEPT ![arrived + 1] = "queueDuplicate"]
    /\ \E i \in Match(t) : duplicates' = [duplicates EXCEPT ![i] = <<arrived + 1>>]
    /\ UNCHANGED <<originatedQueue, queue, num, rendering, index, thread, stats>>

(* A match is waiting or being rendered: the new request joins its chain. *)
AddDuplicate(t, c, f) ==
    /\ Arrive(t)
    /\ pending(t) = "cmdIgnore"
    /\ life' = [life EXCEPT ![arrived + 1] = "queued"]
    /\ fd' = [fd EXCEPT ![arrived + 1] = f]
    /\ inQueue' = [inQueue EXCEPT ![arrived + 1] = "queueDuplicate"]
    /\ \E i \in Match(t) :
          duplicates' = [duplicates EXCEPT ![i] = <<arrived + 1>> \o @]
    /\ UNCHANGED <<originatedQueue, queue, num, rendering, index, thread, stats>>

(* The item goes between the last item of the list and its head. *)
Link(s, r) == Append(s, r)

(* Mutation: where the request was first queued is not recorded. *)
EnqueueNoOrigin(q, f) ==
    /\ life' = [life EXCEPT ![arrived + 1] = "queued"]
    /\ fd' = [fd EXCEPT ![arrived + 1] = f]
    /\ inQueue' = [inQueue EXCEPT ![arrived + 1] = q]
    /\ queue' = [queue EXCEPT ![q] = Link(@, arrived + 1)]
    /\ num' = [num EXCEPT ![q] = @ + 1]
    /\ index' = index \cup {arrived + 1}
    /\ Signal
    /\ UNCHANGED <<originatedQueue, duplicates, rendering, stats>>

(* The tail of a list, the index and the waiting thread learn of it. *)
Enqueue(q, f) ==
    /\ life' = [life EXCEPT ![arrived + 1] = "queued"]
    /\ fd' = [fd EXCEPT ![arrived + 1] = f]
    /\ inQueue' = [inQueue EXCEPT ![arrived + 1] = q]
    /\ originatedQueue' = [originatedQueue EXCEPT ![arrived + 1] = q]
    /\ queue' = [queue EXCEPT ![q] = Link(@, arrived + 1)]
    /\ num' = [num EXCEPT ![q] = @ + 1]
    /\ index' = index \cup {arrived + 1}
    /\ Signal
    /\ UNCHANGED <<duplicates, rendering, stats>>

AddToList(t, c, f) ==
    /\ Arrive(t)
    /\ pending(t) = "cmdRender"
    /\ HasRoom(c)
    /\ Enqueue(ListFor(c), f)

(* cmdDirty, or the overflow of a full list: nobody waits for the answer. *)
AddToDirty(t, c, f) ==
    /\ Arrive(t)
    /\ pending(t) = "cmdRender"
    /\ ~HasRoom(c)
    /\ DirtyHasRoom
    /\ Enqueue("queueDirty", FD_INVALID)

AddDropped(t, c, f) ==
    /\ Arrive(t)
    /\ pending(t) = "cmdRender"
    /\ ~HasRoom(c)
    /\ ~DirtyHasRoom
    /\ life' = [life EXCEPT ![arrived + 1] = "gone"]
    /\ stats' = [stats EXCEPT !.dropped = @ + 1]
    /\ UNCHANGED <<fd, inQueue, originatedQueue, duplicates, queue, num,
                   rendering, index, thread>>

request_queue_add_request(t, c, f) ==
    \/ AddMatchesDirty(t, c, f)
    \/ AddDuplicate(t, c, f)
    \/ AddToList(t, c, f)
    \/ AddToDirty(t, c, f)
    \/ AddDropped(t, c, f)

-----------------------------------------------------------------------------
(* request_queue_fetch_request *)

AllEmpty == \A q \in WaitQueue : num[q] = 0

(* The list fetch takes from, and the request it takes. *)
Served(q) == /\ q \in WaitQueue
             /\ num[q] > 0
             /\ \A p \in WaitQueue : Rank(p) < Rank(q) => num[p] = 0

(* All counts are zero: the thread waits on qCond. *)
FetchBlocks(t) ==
    /\ thread[t] \in {"out", "woken"}
    /\ AllEmpty
    /\ thread' = [thread EXCEPT ![t] = "blocked"]
    /\ UNCHANGED <<itemVars, queue, num, rendering, index, stats>>

(* The head of the first non-empty list moves to the render list. *)
FetchFrom(t, q) ==
    /\ thread[t] \in {"out", "woken"}
    /\ Served(q)
    /\ queue' = [queue EXCEPT ![q] = Tail(@)]
    /\ num' = [num EXCEPT ![q] = @ - 1]
    /\ rendering' = rendering \cup {Head(queue[q])}
    /\ inQueue' = [inQueue EXCEPT ![Head(queue[q])] = "queueRender"]
    /\ stats' = [stats EXCEPT !.render[q] = @ + 1]
    /\ thread' = [thread EXCEPT ![t] = "out"]
    /\ UNCHANGED <<arrived, life, tile, fd, originatedQueue, duplicates, index>>

(* pthread_cond_wait may return without a signal. *)
SpuriousWakeup(t) ==
    /\ thread[t] = "blocked"
    /\ thread' = [thread EXCEPT ![t] = "woken"]
    /\ UNCHANGED <<itemVars, queue, num, rendering, index, stats>>

-----------------------------------------------------------------------------
(* request_queue_remove_request and request_queue_clear_requests_by_fd *)

(* Mutation: the duplicates are forgotten. *)
ChainHeadOnly(r) == <<r>>

(* A request and what hangs off it. *)
Chain(r) == <<r>> \o duplicates[r]

(* Mutation: credit the list the request is on, not the one it came from. *)
CreditCurrentList(r, time) ==
    IF time > 0
    THEN [stats EXCEPT !.time[inQueue[r]] = @ + time,
                       !.zoomRender[ZoomOf[tile[r]]] = @ + 1,
                       !.zoomTime[ZoomOf[tile[r]]] = @ + time]
    ELSE stats

(* Time is credited only when the request was rendered. *)
Credit(r, time) ==
    IF time > 0
    THEN [stats EXCEPT !.time[originatedQueue[r]] = @ + time,
                       !.zoomRender[ZoomOf[tile[r]]] = @ + 1,
                       !.zoomTime[ZoomOf[tile[r]]] = @ + time]
    ELSE stats

(* The entry with r's coordinates leaves the index. *)
remove_item_idx(r) == index \ Match(tile[r])

(* The whole chain leaves the queue: it is reachable only from r. *)
request_queue_remove_request(r, time) ==
    /\ r \in rendering
    /\ stats' = Credit(r, time)
    /\ rendering' = rendering \ {r}
    /\ index' = remove_item_idx(r)
    /\ life' = [i \in Request |-> IF i \in Range(Chain(r)) THEN "gone" ELSE life[i]]
    /\ UNCHANGED <<arrived, tile, fd, inQueue, originatedQueue, duplicates,
                   queue, num, thread>>

(* Mutation: the requests being rendered are not walked. *)
WaitingHeads == UNION {Range(queue[q]) : q \in WaitQueue \ {"queueDirty"}}

(* The lists clear_requests_by_fd walks: every one but the dirty list. *)
ClearedHeads == rendering \cup UNION {Range(queue[q]) : q \in WaitQueue \ {"queueDirty"}}

(* Mutation: the chains are not walked. *)
VisitedHeads == ClearedHeads

Visited == UNION {Range(Chain(h)) : h \in ClearedHeads}

request_queue_clear_requests_by_fd(f) ==
    /\ fd' = [r \in Request |-> IF r \in Visited /\ fd[r] = f THEN FD_INVALID ELSE fd[r]]
    /\ UNCHANGED <<arrived, life, tile, inQueue, originatedQueue, duplicates,
                   queue, num, rendering, index, thread, stats>>

-----------------------------------------------------------------------------
(* rx_request passes FD_INVALID for cmdDirty and the connection otherwise. *)
ItemFd(c, f) == IF c = "cmdDirty" THEN FD_INVALID ELSE f

QueueNext ==
    \/ \E t \in Tile, c \in ClientCmd, f \in Fd : request_queue_add_request(t, c, ItemFd(c, f))
    \/ \E t \in Thread : FetchBlocks(t)
    \/ \E t \in Thread, q \in WaitQueue : FetchFrom(t, q)
    \/ \E t \in Thread : SpuriousWakeup(t)
    \/ \E r \in Request, time \in RenderTime : request_queue_remove_request(r, time)
    \/ \E f \in Fd : request_queue_clear_requests_by_fd(f)

QueueSpec == request_queue_init /\ [][QueueNext]_queueVars

-----------------------------------------------------------------------------
(* Properties *)

(* Every variable keeps its type. *)
QueueTypeOK ==
    /\ arrived \in 0..MaxRequests
    /\ life \in [Request -> {"unborn", "queued", "gone"}]
    /\ tile \in [Request -> Tile]
    /\ fd \in [Request -> Fd \cup {FD_INVALID}]
    /\ inQueue \in [Request -> QueueEnum]
    /\ originatedQueue \in [Request -> WaitQueue \cup {"none"}]
    /\ duplicates \in [Request -> Seq(Request)]
    /\ queue \in [WaitQueue -> Seq(Request)]
    /\ num \in [WaitQueue -> Nat]
    /\ rendering \in SUBSET Request
    /\ index \in SUBSET Request
    /\ thread \in [Thread -> {"out", "blocked", "woken"}]
    /\ stats \in [render: [WaitQueue -> Nat], dropped: Nat, time: [WaitQueue -> Nat],
                  zoomRender: [Zoom -> Nat], zoomTime: [Zoom -> Nat]]

Listed == rendering \cup UNION {Range(queue[q]) : q \in WaitQueue}

(* No metatile is queued or rendered twice: a second request for it is     *)
(* chained or turned away by pending, whatever the order of adds, fetches  *)
(* and removals.                                                           *)
OneListedPerTile == \A r, s \in Listed : tile[r] = tile[s] => r = s

(* The index holds exactly the requests on the lists: pending never misses *)
(* one that is there, and never finds one that has been removed.           *)
IndexExact == index = Listed

(* The counters that guard fetch and the limits are the lengths of the     *)
(* lists, and no list outgrows its limit.                                  *)
CountsExact ==
    \A q \in WaitQueue :
        /\ num[q] = Len(queue[q])
        /\ num[q] <= IF q = "queueDirty" THEN DIRTY_LIMIT ELSE REQ_LIMIT

(* Whatever the queue owns is in one place: on one list, or on the chain   *)
(* of one listed request for the same metatile; so send_response reaches   *)
(* and frees every request exactly once.                                   *)
OwnedOnce ==
    \A r \in Request :
        /\ life[r] = "queued" =>
              \/ r \in Listed /\ \A h \in Listed : r \notin Range(duplicates[h])
              \/ r \notin Listed /\ \E h \in Listed :
                     /\ r \in Range(duplicates[h])
                     /\ tile[h] = tile[r]
                     /\ \A g \in Listed \ {h} : r \notin Range(duplicates[g])
        /\ life[r] # "queued" =>
              r \notin Listed /\ \A h \in Listed : r \notin Range(duplicates[h])

(* The assumption in clear_requests_by_fd: nothing on the dirty list, nor  *)
(* on the chain of such a request, has a descriptor.                       *)
DirtyHasNoFd ==
    \A h \in Range(queue["queueDirty"]) : \A r \in Range(Chain(h)) : fd[r] = FD_INVALID

(* Within one list no request overtakes an earlier one.                    *)
NoOvertaking ==
    \A q \in WaitQueue : \A s \in Range(queue[q]) :
        \A r \in Request :
            (r > s /\ originatedQueue[r] = q) => r \in Range(queue[q])

Queued == num["queueRequestPrio"] + num["queueRequest"] + num["queueRequestLow"]
          + num["queueDirty"] + num["queueRequestBulk"]
Blocked == {t \in Thread : thread[t] = "blocked"}
Woken == {t \in Thread : thread[t] = "woken"}

(* No wakeup is lost: while a thread is blocked on qCond, every waiting    *)
(* request has a signalled thread on its way to fetch it, although one     *)
(* cond_signal wakes one thread and another may get to the lock first.     *)
NoLostWakeup == Blocked # {} => Queued <= Cardinality(Woken)

SumOver(f) == FoldFunction(+, 0, f)

(* The time credited to the lists and the time credited to the zoom levels *)
(* are the same total: every removed request's list of origin is one of    *)
(* the five, and every fetched request is counted on it once.              *)
StatsBalance ==
    /\ SumOver(stats.time) = SumOver(stats.zoomTime)
    /\ SumOver(stats.zoomRender) <= SumOver(stats.render)
    /\ \A q \in WaitQueue :
          stats.render[q] = Cardinality({r \in Request \ Range(queue[q]) : originatedQueue[r] = q})

(* After clear_requests_by_fd(f) nothing in the queue, chains included,    *)
(* refers to f any more.                                                   *)
ClearIsComplete ==
    [][\A f \in Fd : request_queue_clear_requests_by_fd(f) =>
           \A r \in Request : life'[r] = "queued" => fd'[r] # f]_queueVars

(* A request that was removed gains no duplicates: no later request can be *)
(* chained to one whose answer is already being sent.                      *)
NoLateDuplicate ==
    [][\A r \in Request : life[r] = "gone" => duplicates'[r] = duplicates[r]]_queueVars
-----------------------------------------------------------------------------
(* The inductive invariant: what each list, the index and the chains hold, *)
(* in terms of the fields of the requests.                                 *)

In(q) == {r \in Request : life[r] = "queued" /\ inQueue[r] = q}
Limit(q) == IF q = "queueDirty" THEN DIRTY_LIMIT ELSE REQ_LIMIT
Increasing(s) == \A j, k \in 1..Len(s) : j < k => s[j] < s[k]
NoRepeats(s) == \A j, k \in 1..Len(s) : s[j] = s[k] => j = k

BirthInv ==
    \A r \in Request :
        /\ life[r] = "unborn" <=> r > arrived
        /\ life[r] = "unborn" => duplicates[r] = <<>> /\ originatedQueue[r] = "none"

ListInv ==
    \A q \in WaitQueue :
        /\ Range(queue[q]) = In(q)
        /\ Increasing(queue[q])
        /\ num[q] = Len(queue[q])
        /\ num[q] <= Limit(q)

IndexInv ==
    /\ rendering = In("queueRender")
    /\ index = {r \in Request : life[r] = "queued" /\ inQueue[r] # "queueDuplicate"}
    /\ \A r, s \in index : tile[r] = tile[s] => r = s

OriginInv ==
    \A r \in index :
        /\ originatedQueue[r] \in WaitQueue
        /\ inQueue[r] \in WaitQueue => originatedQueue[r] = inQueue[r]
        /\ inQueue[r] = "queueDirty" => fd[r] = FD_INVALID

ChainInv ==
    /\ \A h \in index :
          /\ NoRepeats(duplicates[h])
          /\ inQueue[h] \in {"queueDirty", "queueRequestBulk"} => duplicates[h] = <<>>
          /\ \A r \in Range(duplicates[h]) :
                life[r] = "queued" /\ inQueue[r] = "queueDuplicate" /\ tile[r] = tile[h]
    /\ \A r \in In("queueDuplicate") : \E h \in index : r \in Range(duplicates[h])

(* The conjunction that every operation preserves; each safety invariant   *)
(* above follows from it.                                                  *)
QueueInv ==
    /\ QueueTypeOK
    /\ BirthInv
    /\ ListInv
    /\ IndexInv
    /\ OriginInv
    /\ ChainInv
    /\ NoOvertaking
=============================================================================
