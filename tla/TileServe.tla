----------------------------- MODULE TileServe -----------------------------
(***************************************************************************)
(* The life of a request for a tile in mod_tile (src/src/mod_tile.c):      *)
(* tile_translate, tile_storage_hook, request_tile, tile_handler_serve and *)
(* tile_handler_dirty, and the statistics in shared memory that they       *)
(* update and the statistics pages read.                                   *)
(*                                                                         *)
(* All requests are for one tile.  The store is external: the tile is      *)
(* rendered, expires, ages and is deleted at any moment.  So is renderd:   *)
(* it answers what it likes, when it likes, or closes the connection.      *)
(* delay_allowed is the subject of DelayPool and is a free choice here.    *)
(***************************************************************************)
EXTENDS Integers, Sequences, FiniteSets

CONSTANTS
    Req,          \* the requests
    Mix,          \* which of them may be where when a behaviour starts
    Page,         \* the requests for /mod_tile or /metrics
    Free,         \* "nobody holds stats_mutex"
    MaxVersion    \* bound: how often the tile is rendered

ASSUME TileServeAssumption ==
    /\ IsFiniteSet(Req)
    /\ Mix \subseteq [late: SUBSET Req, over: SUBSET (Req \cup Page), bulk: SUBSET BOOLEAN]
    /\ Req \cap Page = {}
    /\ Free \notin Req \cup Page
    /\ MaxVersion \in Nat

TileState == {"missing", "old", "veryold", "current"}
RespCounter == {"200", "304", "404", "503", "5XX", "other"}
FreshCounter == {"FRESH", "OLD", "VERYOLD", "FRESH_RENDER", "OLD_RENDER", "VERYOLD_RENDER"}
Counter == RespCounter \cup FreshCounter \cup {"read"}
NoVersion == -1
Detail == {"zoom", "layer200", "layer404", "zoomRead"}
NoTally == [c \in Counter |-> 0]

VARIABLES
    enable_bulk_mode,
    tile,         \* what the store holds: a version and its state
    pc,           \* where a request stands
    handler,      \* r->handler
    tileState,    \* rdata->tileState
    prio, retry,  \* of request_tile
    fd,           \* the request has a socket to renderd open
    wire,         \* what renderd made of the request on that socket
    todo, then,   \* the counters still to be increased, and what follows
    resp, got,    \* the response and the version in it
    cache,        \* how add_expiry chose its max-age
    mutex, stats, \* stats_mutex and the statistics it protects
    copy,         \* what a statistics page copied
    seen, gone,   \* history: the versions that were current during the
                  \* request, and whether the tile was missing
    fault,        \* history: the tile_stat that tileState is from, or
                  \* tile_read, failed although there is a tile
    tally         \* history: how often the request meant to increase a counter

rendVars == <<prio, retry, fd, wire>>
countVars == <<todo, then, tally>>
answerVars == <<resp, got, cache>>
statVars == <<mutex, stats, copy>>
serveVars == <<enable_bulk_mode, tile, pc, handler, tileState, rendVars, countVars,
               answerVars, statVars, seen, gone, fault>>

(* At first the requests are new, but for those in late, which are past    *)
(* tile_storage_hook (they found the tile current and could not count it), *)
(* and those in over, which have been refused.                             *)
At(m, late, over, new) ==
    [p \in Req |-> IF p \in m.late THEN late ELSE IF p \in m.over THEN over ELSE new]

ServeInit == \E m \in Mix :
    /\ enable_bulk_mode \in m.bulk
    /\ tile \in [ver: {0}, state: TileState]
    /\ pc = At(m, "serve", "done", "translate")
    /\ handler = At(m, "tile_serve", "none", "none")
    /\ tileState = At(m, "current", "unknown", "unknown")
    /\ prio = [p \in Req |-> 0] /\ retry = [p \in Req |-> 0]
    /\ fd = [p \in Req |-> FALSE]
    /\ wire = [p \in Req |-> "nothing"]
    /\ todo = [p \in Req |-> <<>>] /\ then = [p \in Req |-> "done"]
    /\ resp = At(m, "none", "refused", "none") /\ got = [p \in Req |-> NoVersion]
    /\ cache = [p \in Req |-> "none"]
    /\ mutex = Free
    /\ stats = [c \in Counter \cup Detail |-> 0]
    /\ copy = [q \in Page |-> [at |-> IF q \in m.over THEN "undefined" ELSE "none",
                             of |-> <<>>]]
    /\ seen = At(m, {tile.ver}, {}, {}) /\ gone = At(m, tile.state = "missing", FALSE, FALSE)
    /\ fault = [p \in Req |-> FALSE]
    /\ tally = At(m, [NoTally EXCEPT !["FRESH"] = 1], NoTally, NoTally)

-----------------------------------------------------------------------------
(* The store and renderd *)

Underway(p) == pc[p] \notin {"translate", "done"}

(* What happens to the tile while no request is underway makes no          *)
(* difference: the tile may be in any state at first.                      *)
Change(new) ==
    /\ \E p \in Req : Underway(p)
    /\ tile' = new
    /\ seen' = [p \in Req |-> IF Underway(p) /\ new.state = "current"
                              THEN seen[p] \cup {new.ver} ELSE seen[p]]
    /\ gone' = [p \in Req |-> gone[p] \/ (Underway(p) /\ new.state = "missing")]
    /\ UNCHANGED <<enable_bulk_mode, pc, handler, tileState, rendVars, countVars,
                   answerVars, statVars, fault>>

Rendered == tile.ver < MaxVersion /\ Change([ver |-> tile.ver + 1, state |-> "current"])
Expired == tile.state = "current" /\ Change([tile EXCEPT !.state = "old"])
Aged == tile.state = "old" /\ Change([tile EXCEPT !.state = "veryold"])
Deleted == tile.state # "missing" /\ Change([tile EXCEPT !.state = "missing"])

(* renderd sends an answer, whole or in two parts, or hangs up. *)
RenderdAnswers(p) ==
    /\ fd[p]
    /\ \/ wire[p] = "asked" /\ \E w \in {"part", "cmdDone", "cmdNotDone", "foreign", "eof"} :
              wire' = [wire EXCEPT ![p] = w]
       \/ wire[p] = "partRead" /\ \E w \in {"cmdDone", "cmdNotDone", "foreign", "eof"} :
              wire' = [wire EXCEPT ![p] = w]
    /\ UNCHANGED <<enable_bulk_mode, tile, pc, handler, tileState, prio, retry, fd,
                   countVars, answerVars, statVars, seen, gone, fault>>

Environment == Rendered \/ Expired \/ Aged \/ Deleted \/ \E p \in Req : RenderdAnswers(p)

-----------------------------------------------------------------------------
(* Steps of a request *)

Goto(p, l) == pc' = [pc EXCEPT ![p] = l]

Among(cs) == {cs[i] : i \in DOMAIN cs}

(* The counters cs are increased one after the other, then the request     *)
(* goes on at l.                                                           *)
CountThen(p, cs, l) ==
    /\ Goto(p, "count")
    /\ todo' = [todo EXCEPT ![p] = cs]
    /\ then' = [then EXCEPT ![p] = l]
    /\ tally' = [tally EXCEPT ![p] =
                   [c \in Counter |-> IF c \in Among(cs) THEN @[c] + 1 ELSE @[c]]]

(* The response a with its counter, or without. *)
Answer(p, a) ==
    /\ resp' = [resp EXCEPT ![p] = a]
    /\ CountThen(p, <<a>>, "done")
    /\ UNCHANGED <<got, cache>>

AnswerUncounted(p, a) ==
    /\ resp' = [resp EXCEPT ![p] = a]
    /\ Goto(p, "done")
    /\ UNCHANGED <<countVars, got, cache>>

(* tile_translate *)
Begin(p) ==
    /\ pc[p] = "translate"
    /\ seen' = [seen EXCEPT ![p] = IF tile.state = "current" THEN {tile.ver} ELSE {}]
    /\ gone' = [gone EXCEPT ![p] = (tile.state = "missing")]
    /\ UNCHANGED <<enable_bulk_mode, tile, tileState, rendVars, statVars, fault>>

(* Coordinates out of bounds: a 404 that is not counted. *)
OutOfBounds(p) ==
    /\ Begin(p)
    /\ AnswerUncounted(p, "refused")
    /\ UNCHANGED handler

NoStore(p) ==
    /\ Begin(p)
    /\ Answer(p, "5XX")
    /\ UNCHANGED handler

tile_translate(p) ==
    /\ Begin(p)
    /\ \E h \in {"tile_serve", "tile_status", "tile_dirty"} :
          /\ handler' = [handler EXCEPT ![p] = h]
          /\ Goto(p, IF h = "tile_dirty" THEN "dirty" ELSE "stat")
    /\ UNCHANGED <<countVars, answerVars>>

(* A tile_stat that fails, for whatever reason, has the size of a tile     *)
(* that is missing.                                                        *)
tile_state(p, fails) ==
    /\ fails => tile.state # "missing"
    /\ tileState' = [tileState EXCEPT ![p] = IF fails THEN "missing" ELSE tile.state]
    /\ fault' = [fault EXCEPT ![p] = fails]

(* tile_storage_hook begins, or tile_handler_status.                       *)
Stat(p, fails) ==
    /\ pc[p] = "stat"
    /\ tile_state(p, fails)
    /\ IF handler[p] = "tile_serve"
       THEN Goto(p, "hook") /\ UNCHANGED <<countVars, answerVars>>
       ELSE AnswerUncounted(p, "page")
    /\ UNCHANGED <<enable_bulk_mode, tile, handler, rendVars, statVars, seen, gone>>

local == <<enable_bulk_mode, tile, handler, tileState, statVars, seen, gone, fault>>

(* tile_storage_hook, after delay_allowed has let the request through or   *)
(* not.                                                                    *)
Throttled(p) ==
    /\ pc[p] = "hook"
    /\ Answer(p, "503")
    /\ UNCHANGED <<local, rendVars>>

HookCurrent(p) ==
    /\ pc[p] = "hook"
    /\ tileState[p] = "current"
    /\ CountThen(p, <<"FRESH">>, "serve")
    /\ UNCHANGED <<local, rendVars, answerVars>>

Outdated(p) == tileState[p] \in {"old", "veryold"}

HookBulk(p) ==
    /\ pc[p] = "hook"
    /\ Outdated(p) /\ enable_bulk_mode
    /\ Goto(p, "serve")
    /\ UNCHANGED <<local, rendVars, countVars, answerVars>>

(* renderPrio, or 0 when the load is too high. *)
renderPrio(p) == CASE tileState[p] = "missing" -> 3
                   [] tileState[p] = "veryold" -> 2
                   [] OTHER                    -> 1

HookRenders(p, busy) ==
    /\ pc[p] = "hook"
    /\ tileState[p] = "missing" \/ (Outdated(p) /\ ~enable_bulk_mode)
    /\ prio' = [prio EXCEPT ![p] = IF busy THEN 0 ELSE renderPrio(p)]
    /\ Goto(p, "connect")
    /\ UNCHANGED <<local, retry, fd, wire, countVars, answerVars>>

(* tile_handler_dirty: the URL is not enabled, or bulk mode.               *)
DirtyEnds(p) ==
    /\ pc[p] = "dirty"
    /\ AnswerUncounted(p, "refused")
    /\ UNCHANGED <<local, rendVars>>

DirtySubmits(p) ==
    /\ pc[p] = "dirty"
    /\ ~enable_bulk_mode
    /\ prio' = [prio EXCEPT ![p] = 0]
    /\ Goto(p, "connect")
    /\ UNCHANGED <<local, retry, fd, wire, countVars, answerVars>>

-----------------------------------------------------------------------------
(* request_tile.  It returns 1 if renderd says the tile is done. *)

(* What tile_storage_hook and tile_handler_dirty do with the result. *)
Returns(p, done) ==
    \/ /\ handler[p] = "tile_dirty"
       /\ AnswerUncounted(p, "page")
    \/ /\ handler[p] = "tile_serve" /\ done
       /\ Goto(p, "restat")
       /\ UNCHANGED <<countVars, answerVars>>
    \/ /\ handler[p] = "tile_serve" /\ ~done /\ Outdated(p)
       /\ CountThen(p, <<CASE prio[p] = 0 /\ tileState[p] = "old"     -> "OLD"
                          [] prio[p] = 0 /\ tileState[p] = "veryold" -> "VERYOLD"
                          [] tileState[p] = "old"                    -> "OLD_RENDER"
                          [] OTHER                                   -> "VERYOLD_RENDER">>,
                    "serve")
       /\ UNCHANGED answerVars
    \/ /\ handler[p] = "tile_serve" /\ ~done /\ tileState[p] = "missing"
       /\ Answer(p, "404")

CloseAndReturn(p, done) ==
    /\ fd' = [fd EXCEPT ![p] = FALSE]
    /\ wire' = [wire EXCEPT ![p] = "nothing"]
    /\ prio' = [prio EXCEPT ![p] = 0] /\ retry' = [retry EXCEPT ![p] = 0]
    /\ Returns(p, done)
    /\ UNCHANGED local

(* socket_init *)
Connect(p) ==
    /\ fd' = [fd EXCEPT ![p] = TRUE]
    /\ UNCHANGED <<local, prio, wire, countVars, answerVars>>

Connects(p) ==
    /\ pc[p] = "connect"
    /\ retry' = [retry EXCEPT ![p] = 1]
    /\ Connect(p) /\ Goto(p, "send")

ConnectFails(p) == pc[p] \in {"connect", "reconnect"} /\ CloseAndReturn(p, FALSE)

Sends(p) ==
    /\ pc[p] = "send"
    /\ \/ /\ prio[p] > 0
          /\ wire' = [wire EXCEPT ![p] = "asked"]
          /\ Goto(p, "wait")
          /\ UNCHANGED <<local, prio, retry, fd, countVars, answerVars>>
       \/ prio[p] = 0 /\ CloseAndReturn(p, FALSE)

(* Mutation: the return that does not close. *)
SendFailsOpen(p) ==
    /\ pc[p] = "send"
    /\ prio' = [prio EXCEPT ![p] = 0] /\ retry' = [retry EXCEPT ![p] = 0]
    /\ Returns(p, FALSE)
    /\ UNCHANGED <<local, fd, wire>>

SendFails(p) == pc[p] = "send" /\ CloseAndReturn(p, FALSE)

(* EPIPE *)
SendBreaks(p) ==
    /\ pc[p] = "send"
    /\ fd' = [fd EXCEPT ![p] = FALSE]
    /\ Goto(p, "reconnect")
    /\ UNCHANGED <<local, prio, retry, wire, countVars, answerVars>>

(* Mutation: retry is never decreased. *)
ReconnectsForever(p) ==
    /\ pc[p] = "reconnect"
    /\ Connect(p) /\ Goto(p, "send")
    /\ UNCHANGED retry

(* while (retry--): the second time the request has not been sent and the  *)
(* code goes on as if it had.                                              *)
Reconnects(p) ==
    /\ pc[p] = "reconnect"
    /\ \/ /\ retry[p] > 0
          /\ retry' = [retry EXCEPT ![p] = @ - 1]
          /\ Connect(p) /\ Goto(p, "send")
       \/ /\ retry[p] = 0 /\ prio[p] > 0
          /\ Connect(p) /\ Goto(p, "wait")
          /\ UNCHANGED retry
       \/ /\ retry[p] = 0 /\ prio[p] = 0
          /\ CloseAndReturn(p, FALSE)

(* poll has something to read. *)
ReceivesPart(p) ==
    /\ pc[p] = "wait"
    /\ wire[p] = "part"
    /\ wire' = [wire EXCEPT ![p] = "partRead"]
    /\ UNCHANGED <<local, pc, prio, retry, fd, countVars, answerVars>>

Receives(p) ==
    /\ pc[p] = "wait"
    /\ wire[p] \in {"cmdDone", "cmdNotDone", "foreign", "eof"}
    /\ CloseAndReturn(p, wire[p] = "cmdDone")

(* poll times out or fails. *)
WaitEnds(p) == pc[p] = "wait" /\ CloseAndReturn(p, FALSE)

request_tile(p) ==
    \/ Connects(p) \/ ConnectFails(p) \/ Reconnects(p)
    \/ Sends(p) \/ SendFails(p) \/ SendBreaks(p)
    \/ ReceivesPart(p) \/ Receives(p) \/ WaitEnds(p)

(* Mutation: what renderd says it rendered is taken to be current. *)
RestatAssumes(p, fails) ==
    /\ pc[p] = "restat"
    /\ tileState' = [tileState EXCEPT ![p] = "current"]
    /\ fault' = [fault EXCEPT ![p] = FALSE]
    /\ CountThen(p, <<"FRESH_RENDER">>, "serve")
    /\ UNCHANGED <<enable_bulk_mode, tile, handler, rendVars, answerVars, statVars,
                   seen, gone>>

(* The tile was rendered: its state is read again. *)
Restat(p, fails) ==
    /\ pc[p] = "restat"
    /\ tile_state(p, fails)
    /\ CountThen(p, <<"FRESH_RENDER">>, "serve")
    /\ UNCHANGED <<enable_bulk_mode, tile, handler, rendVars, answerVars, statVars,
                   seen, gone>>

-----------------------------------------------------------------------------
(* tile_handler_serve *)

(* add_cors answers, or refuses, the request: neither is counted. *)
CorsAnswers(p) ==
    /\ pc[p] = "serve"
    /\ AnswerUncounted(p, "cors")
    /\ UNCHANGED <<local, rendVars>>

NoBuffer(p) ==
    /\ pc[p] = "serve"
    /\ Answer(p, "5XX")
    /\ UNCHANGED <<local, rendVars>>

add_expiry(p) ==
    \/ cache' = [cache EXCEPT ![p] = "extended"]
    \/ cache' = [cache EXCEPT ![p] = IF Outdated(p) THEN "dirty" ELSE "heuristic"]

ServesTile(p) ==
    /\ pc[p] = "serve"
    /\ tile.state # "missing"
    /\ got' = [got EXCEPT ![p] = tile.ver]
    /\ add_expiry(p)
    /\ \E a \in {"200", "304", "other"} :
          /\ resp' = [resp EXCEPT ![p] = a]
          /\ CountThen(p, <<"read", a>>, "done")
    /\ UNCHANGED <<local, rendVars>>

(* Mutation: the return that does not count. *)
ReadFailsUncounted(p) ==
    /\ pc[p] = "serve"
    /\ fault' = [fault EXCEPT ![p] = @ \/ tile.state # "missing"]
    /\ AnswerUncounted(p, "404")
    /\ UNCHANGED <<enable_bulk_mode, tile, handler, tileState, rendVars, statVars, seen, gone>>

(* There is no tile, or it cannot be read: a file that cannot be opened or *)
(* is too short, a bad header, an error of the service.                    *)
ReadFails(p) ==
    /\ pc[p] = "serve"
    /\ fault' = [fault EXCEPT ![p] = @ \/ tile.state # "missing"]
    /\ Answer(p, "404")
    /\ UNCHANGED <<enable_bulk_mode, tile, handler, tileState, rendVars, statVars, seen, gone>>

-----------------------------------------------------------------------------
(* The statistics *)

apart == <<enable_bulk_mode, tile, handler, tileState, rendVars, answerVars, then, tally,
           seen, gone, fault>>

(* get_global_lock *)
LockStats(p) ==
    /\ pc[p] = "count"
    /\ mutex = Free /\ mutex' = p
    /\ Goto(p, "bump")
    /\ UNCHANGED <<apart, todo, stats, copy>>

NextCounter(p) ==
    /\ todo' = [todo EXCEPT ![p] = Tail(@)]
    /\ Goto(p, IF Len(todo[p]) = 1 THEN then[p] ELSE "count")

(* The lock could not be had: the counter is not increased. *)
NotCounted(p) ==
    /\ pc[p] = "count"
    /\ NextCounter(p)
    /\ UNCHANGED <<apart, statVars>>

(* incRespCounter, incFreshCounter, incTimingCounter: the total, then what *)
(* is kept for each zoom level and layer.                                  *)
Bump(p) ==
    /\ pc[p] = "bump"
    /\ stats' = [stats EXCEPT ![Head(todo[p])] = @ + 1]
    /\ Goto(p, "detail")
    /\ UNCHANGED <<apart, todo, mutex, copy>>

(* Mutation: 304 only counts in the total. *)
DetailOfOk(c) == CASE c = "200"  -> {"zoom", "layer200"}
                   [] c = "404"  -> {"layer404"}
                   [] c = "read" -> {"zoomRead"}
                   [] OTHER      -> {}

DetailOf(c) == CASE c \in {"200", "304"} -> {"zoom", "layer200"}
                 [] c = "404"            -> {"layer404"}
                 [] c = "read"           -> {"zoomRead"}
                 [] OTHER                -> {}

BumpDetail(p) ==
    /\ pc[p] = "detail"
    /\ stats' = [c \in DOMAIN stats |->
                    IF c \in DetailOf(Head(todo[p])) THEN stats[c] + 1 ELSE stats[c]]
    /\ mutex' = Free
    /\ NextCounter(p)
    /\ UNCHANGED <<apart, copy>>

pageVars == <<apart, pc, todo, stats>>

(* get_stats_copy, for tile_handler_mod_stats and tile_handler_metrics: the *)
(* struct, then the arrays of the layers it points to.                      *)
LockCopy(q) ==
    /\ copy[q].at = "none"
    /\ mutex = Free /\ mutex' = q
    /\ copy' = [copy EXCEPT ![q].at = "locked"]
    /\ UNCHANGED pageVars

LayerArray == {"layer200", "layer404"}

CopyStruct(q) ==
    /\ copy[q].at = "locked"
    /\ copy' = [copy EXCEPT ![q] = [at |-> "struct",
                                   of |-> [c \in DOMAIN stats \ LayerArray |-> stats[c]]]]
    /\ UNCHANGED <<pageVars, mutex>>

CopyLayers(q) ==
    /\ copy[q].at = "struct"
    /\ copy' = [copy EXCEPT ![q] = [at |-> "copied",
                                   of |-> [c \in DOMAIN stats |->
                                              IF c \in LayerArray THEN stats[c] ELSE @.of[c]]]]
    /\ mutex' = Free
    /\ UNCHANGED pageVars

(* No lock: local_stats is left as it was, which is uninitialised. *)
NoCopy(q) ==
    /\ copy[q].at = "none"
    /\ copy' = [copy EXCEPT ![q].at = "undefined"]
    /\ UNCHANGED <<pageVars, mutex>>

-----------------------------------------------------------------------------
Count(p) == LockStats(p) \/ NotCounted(p) \/ Bump(p) \/ BumpDetail(p)

Request(p) ==
    \/ OutOfBounds(p) \/ NoStore(p) \/ tile_translate(p)
    \/ \E fails \in BOOLEAN : Stat(p, fails) \/ Restat(p, fails)
    \/ Throttled(p) \/ HookCurrent(p) \/ HookBulk(p)
    \/ \E busy \in BOOLEAN : HookRenders(p, busy)
    \/ DirtyEnds(p) \/ DirtySubmits(p)
    \/ request_tile(p)
    \/ CorsAnswers(p) \/ NoBuffer(p) \/ ServesTile(p) \/ ReadFails(p)
    \/ Count(p)

StatsPage(q) == LockCopy(q) \/ CopyStruct(q) \/ CopyLayers(q) \/ NoCopy(q)

Answered == /\ \A p \in Req : pc[p] = "done"
            /\ \A q \in Page : copy[q].at \in {"copied", "undefined"}
            /\ UNCHANGED serveVars

ServeNext == Environment \/ (\E p \in Req : Request(p)) \/ (\E q \in Page : StatsPage(q))
             \/ Answered

ServeFairSpec == /\ ServeInit /\ [][ServeNext]_serveVars
                 /\ \A p \in Req : WF_serveVars(Request(p))

-----------------------------------------------------------------------------
(* What the client is told was true at some moment of the request: a tile  *)
(* given the long cache life of a current tile was current, and a tile     *)
(* answered with 404 was missing, although the store changes between       *)
(* tile_state, request_tile and tile_read.  The one exception is a store   *)
(* that fails: in the tile_read of the request, or in the tile_stat that   *)
(* its answer rests on, which is the later one if there were two.          *)
AnswerIsTrue ==
    \A p \in Req :
        /\ resp[p] \in {"200", "304"} /\ cache[p] = "heuristic" => got[p] \in seen[p] \/ fault[p]
        /\ resp[p] = "404" => gone[p] \/ fault[p]

OldCounter == {"OLD", "VERYOLD", "OLD_RENDER", "VERYOLD_RENDER"}

(* A request is counted for the response it gets and no other, a served    *)
(* tile once for its freshness (never in bulk mode when it is outdated), a *)
(* tile counted as old is not cached like a current one, and no counter    *)
(* exceeds the requests that meant to increase it.                         *)
CountedOnce ==
    /\ \A p \in Req : pc[p] = "done" =>
          LET fresh == {c \in FreshCounter : tally[p][c] > 0}
          IN  /\ \A c \in RespCounter : tally[p][c] = IF c = resp[p] THEN 1 ELSE 0
              /\ \A c, d \in fresh : c = d /\ tally[p][c] = 1
              /\ resp[p] = "503" => fresh = {}
              /\ got[p] # NoVersion /\ fresh = {} => enable_bulk_mode /\ cache[p] # "heuristic"
              /\ cache[p] = "heuristic" => fresh \cap OldCounter = {}
    /\ \A c \in Counter : stats[c] <= Cardinality({p \in Req : tally[p][c] > 0})

(* The statistics a page shows agree with each other: the responses by     *)
(* zoom level and by layer add up to those by status, the tiles read by    *)
(* zoom level to all that were read.                                       *)
StatsConsistent ==
    \A q \in Page : copy[q].at = "copied" =>
        LET s == copy[q].of
        IN  /\ s["zoom"] = s["200"] + s["304"]
            /\ s["layer200"] = s["zoom"]
            /\ s["layer404"] = s["404"]
            /\ s["zoomRead"] = s["read"]

(* On no path out of request_tile is the socket left open, and on no path  *)
(* out of a counter is the lock kept.                                      *)
NothingHeld ==
    \A p \in Req :
        /\ fd[p] <=> pc[p] \in {"send", "wait"}
        /\ mutex = p <=> pc[p] \in {"bump", "detail"}

(* Every request is answered, whatever renderd, the store and the holders  *)
(* of the lock do: the wait for renderd and for the lock are bounded.      *)
EveryRequestAnswered == \A p \in Req : <>(pc[p] = "done")

=============================================================================
