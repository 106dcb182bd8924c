-------------------------- MODULE TileServeProofs --------------------------
(***************************************************************************)
(* What mod_tile tells the client of a tile and counts in its statistics   *)
(* is true, and nothing stays open or locked behind a request, for any     *)
(* number of requests and statistics pages.                                *)
(*                                                                         *)
(* The argument: what a request has done follows from the stage it is in   *)
(* (nothing counted, about to serve, answered).  What it knows of the tile *)
(* may be stale, but a tile only becomes readable again by being rendered, *)
(* which makes it current.  A counter in the struct and its detail in the  *)
(* arrays differ only while a request holds stats_mutex.                   *)
(***************************************************************************)
EXTENDS TileServe, TLAPS

Asking == {"connect", "reconnect", "send", "wait"}
Early == {"translate", "stat", "hook", "dirty", "restat"} \cup Asking
Counting == {"count", "bump", "detail"}
Handler == {"none", "tile_serve", "tile_status", "tile_dirty"}
Response == RespCounter \cup {"none", "refused", "page", "cors"}
PageState == {"none", "undefined", "locked", "struct", "copied"}
Struct == (Counter \cup Detail) \ LayerArray

(* The types of what the arguments use. *)
Types ==
    /\ enable_bulk_mode \in BOOLEAN
    /\ tile \in [ver: Nat, state: TileState]
    /\ pc \in [Req -> Early \cup Counting \cup {"serve", "done"}]
    /\ tileState \in [Req -> TileState \cup {"unknown"}]
    /\ fd \in [Req -> BOOLEAN]
    /\ todo \in [Req -> Seq(Counter)]
    /\ then \in [Req -> {"serve", "done"}]
    /\ resp \in [Req -> Response]
    /\ got \in [Req -> Int]
    /\ cache \in [Req -> {"none", "extended", "dirty", "heuristic"}]
    /\ mutex \in Req \cup Page \cup {Free}
    /\ stats \in [Counter \cup Detail -> Nat]
    /\ copy \in [Page -> [at: PageState, of: {<<>>} \cup [Struct -> Nat] \cup [Counter \cup Detail -> Nat]]]
    /\ seen \in [Req -> SUBSET Nat]
    /\ gone \in [Req -> BOOLEAN] /\ fault \in [Req -> BOOLEAN]
    /\ tally \in [Req -> [Counter -> Nat]]

(* The stages of a request after the tile has been looked for. *)
Serving(p) == pc[p] = "serve" \/ (pc[p] \in Counting /\ then[p] = "serve")
Final(p) == pc[p] = "done" \/ (pc[p] \in Counting /\ then[p] = "done")

(* A request has counters to increase where it counts, and no answer       *)
(* before its last stage.                                                  *)
Staged(p) ==
    /\ pc[p] \notin Counting => todo[p] = <<>>
    /\ pc[p] \in Counting => \/ \E c \in Counter : todo[p] = <<c>>
                             \/ \E a \in RespCounter : todo[p] = <<"read", a>>
    /\ ~Final(p) => resp[p] = "none" /\ got[p] = NoVersion /\ cache[p] = "none"
    /\ pc[p] = "translate" => tileState[p] = "unknown"
    /\ Serving(p) => tileState[p] # "unknown"

(* What the request has seen of the tile, against what it is.              *)
Known(p) ==
    /\ Underway(p) =>
          /\ tile.state = "missing" => gone[p]
          /\ tile.state = "current" => tile.ver \in seen[p]
          /\ tileState[p] = "missing" => \/ fault[p]
                                         \/ gone[p] /\ (tile.state = "missing" \/ tile.ver \in seen[p])
          /\ tileState[p] = "current" => tile.ver \in seen[p]
    /\ resp[p] \in {"200", "304"} /\ cache[p] = "heuristic" => got[p] \in seen[p] \/ fault[p]
    /\ resp[p] = "404" => gone[p] \/ fault[p]

(* What it meant to count. *)
Fresh(p) == {c \in FreshCounter : tally[p][c] > 0}

Tallied(p) ==
    /\ \A c, d \in Fresh(p) : c = d /\ tally[p][c] = 1
    /\ pc[p] \in Early => \A c \in Counter : tally[p][c] = 0
    /\ Serving(p) => /\ \A c \in RespCounter \cup {"read"} : tally[p][c] = 0
                     /\ Fresh(p) = {} => enable_bulk_mode /\ Outdated(p)
                     /\ Fresh(p) \cap OldCounter # {} => Outdated(p)
    /\ Final(p) => /\ \A c \in RespCounter : tally[p][c] = IF c = resp[p] THEN 1 ELSE 0
                   /\ resp[p] = "503" => Fresh(p) = {}
                   /\ got[p] # NoVersion /\ Fresh(p) = {} => enable_bulk_mode /\ cache[p] # "heuristic"
                   /\ cache[p] = "heuristic" => Fresh(p) \cap OldCounter = {}
    /\ \A i \in DOMAIN todo[p] : tally[p][todo[p][i]] > 0

(* The requests that have increased the counter c or given up.             *)
Pending(p, c) == \E i \in DOMAIN todo[p] : todo[p][i] = c /\ ~(pc[p] = "detail" /\ i = 1)
DoneWith(c) == {p \in Req : tally[p][c] > 0 /\ ~Pending(p, c)}
CountersBounded == \A c \in Counter : stats[c] <= Cardinality(DoneWith(c))

(* The lock, with the pages that hold it. *)
PagesLock == \A q \in Page : mutex = q <=> copy[q].at \in {"locked", "struct"}

(* The details are one behind the totals where a request is between the    *)
(* two.                                                                    *)
Owed(d) == IF \E p \in Req : pc[p] = "detail" /\ d \in DetailOf(Head(todo[p])) THEN 1 ELSE 0
Balanced ==
    /\ stats["zoom"] + Owed("zoom") = stats["200"] + stats["304"]
    /\ stats["layer200"] + Owed("layer200") = stats["200"] + stats["304"]
    /\ stats["layer404"] + Owed("layer404") = stats["404"]
    /\ stats["zoomRead"] + Owed("zoomRead") = stats["read"]
Copied == \A q \in Page : copy[q].at = "struct" =>
                copy[q].of = [c \in Struct |-> stats[c]]

(* The inductive invariant. *)
ServeInv ==
    /\ Types
    /\ NothingHeld /\ PagesLock
    /\ \A p \in Req : Staged(p) /\ Known(p) /\ Tallied(p)
    /\ CountersBounded
    /\ Balanced /\ Copied /\ StatsConsistent

-----------------------------------------------------------------------------
(* The beginning *)

(* The types hold at first. *)
LEMMA InitTypes == ServeInit => Types
PROOF
<1> SUFFICES ASSUME ServeInit PROVE Types
  BY Zenon
<1>1. PICK m \in Mix :
        /\ enable_bulk_mode \in m.bulk
        /\ tile \in [ver: {0}, state: TileState]
        /\ pc = At(m, "serve", "done", "translate")
        /\ tileState = At(m, "current", "unknown", "unknown")
        /\ fd = [p \in Req |-> FALSE]
        /\ todo = [p \in Req |-> <<>>] /\ then = [p \in Req |-> "done"]
        /\ resp = At(m, "none", "refused", "none") /\ got = [p \in Req |-> NoVersion]
        /\ cache = [p \in Req |-> "none"]
        /\ mutex = Free
        /\ stats = [c \in Counter \cup Detail |-> 0]
        /\ copy = [q \in Page |-> [at |-> IF q \in m.over THEN "undefined" ELSE "none",
                                 of |-> <<>>]]
        /\ seen = At(m, {tile.ver}, {}, {}) /\ gone = At(m, tile.state = "missing", FALSE, FALSE)
        /\ fault = [p \in Req |-> FALSE]
        /\ tally = At(m, [NoTally EXCEPT !["FRESH"] = 1], NoTally, NoTally)
  BY Zenon DEF ServeInit
<1>2. enable_bulk_mode \in BOOLEAN
  BY <1>1, TileServeAssumption, Zenon
<1>3. tile \in [ver: Nat, state: TileState]
  BY <1>1
<1>4. /\ pc \in [Req -> Early \cup Counting \cup {"serve", "done"}]
      /\ tileState \in [Req -> TileState \cup {"unknown"}]
      /\ resp \in [Req -> Response]
  BY <1>1, Zenon DEF At, Early, TileState, Response
<1>5. fd \in [Req -> BOOLEAN] /\ then \in [Req -> {"serve", "done"}]
  BY <1>1, Zenon
<1>6. todo \in [Req -> Seq(Counter)]
  BY <1>1
<1>7. /\ got \in [Req -> Int]
      /\ cache \in [Req -> {"none", "extended", "dirty", "heuristic"}]
      /\ mutex \in Req \cup Page \cup {Free}
      /\ stats \in [Counter \cup Detail -> Nat]
  BY <1>1 DEF NoVersion
<1>8. copy \in [Page -> [at: PageState, of: {<<>>} \cup [Struct -> Nat] \cup [Counter \cup Detail -> Nat]]]
  BY <1>1, Zenon DEF PageState
<1>9. seen \in [Req -> SUBSET Nat]
  BY <1>1, <1>3, Zenon DEF At
<1>10. gone \in [Req -> BOOLEAN] /\ fault \in [Req -> BOOLEAN]
  BY <1>1, Zenon DEF At
<1>11. tally \in [Req -> [Counter -> Nat]]
  BY <1>1, Zenon DEF At, NoTally, Counter, FreshCounter
<1> QED
  BY <1>2, <1>3, <1>4, <1>5, <1>6, <1>7, <1>8, <1>9, <1>10, <1>11, Zenon DEF Types

(* Where a request may be at first. *)
LEMMA InitRequest ==
    ASSUME ServeInit, NEW p \in Req
    PROVE  /\ fd[p] = FALSE /\ todo[p] = <<>> /\ then[p] = "done"
           /\ got[p] = NoVersion /\ cache[p] = "none"
           /\ \/ /\ pc[p] = "serve" /\ tileState[p] = "current" /\ resp[p] = "none"
                 /\ seen[p] = {tile.ver} /\ (tile.state = "missing" => gone[p])
                 /\ tally[p] = [NoTally EXCEPT !["FRESH"] = 1]
              \/ /\ pc[p] = "done" /\ tileState[p] = "unknown" /\ resp[p] = "refused"
                 /\ tally[p] = NoTally
              \/ /\ pc[p] = "translate" /\ tileState[p] = "unknown" /\ resp[p] = "none"
                 /\ tally[p] = NoTally
PROOF
<1>1. PICK m \in Mix :
        /\ pc = At(m, "serve", "done", "translate")
        /\ tileState = At(m, "current", "unknown", "unknown")
        /\ fd = [r \in Req |-> FALSE]
        /\ todo = [r \in Req |-> <<>>] /\ then = [r \in Req |-> "done"]
        /\ resp = At(m, "none", "refused", "none") /\ got = [r \in Req |-> NoVersion]
        /\ cache = [r \in Req |-> "none"]
        /\ seen = At(m, {tile.ver}, {}, {}) /\ gone = At(m, tile.state = "missing", FALSE, FALSE)
        /\ tally = At(m, [NoTally EXCEPT !["FRESH"] = 1], NoTally, NoTally)
  BY Zenon DEF ServeInit
<1>2. \A late, over, new : At(m, late, over, new)[p] = IF p \in m.late THEN late ELSE IF p \in m.over THEN over ELSE new
  BY Zenon DEF At
<1>3. CASE p \in m.late
  BY <1>1, <1>2, <1>3, Zenon
<1>4. CASE p \notin m.late /\ p \in m.over
  <2>1. /\ fd[p] = FALSE /\ todo[p] = <<>> /\ then[p] = "done"
        /\ got[p] = NoVersion /\ cache[p] = "none"
    BY <1>1, Zenon
  <2>2. /\ pc[p] = "done" /\ tileState[p] = "unknown"
        /\ resp[p] = "refused" /\ tally[p] = NoTally
    BY <1>1, <1>2, <1>4, Zenon
  <2> QED
    BY <2>1, <2>2, Zenon
<1>5. CASE p \notin m.late /\ p \notin m.over
  <2>1. /\ fd[p] = FALSE /\ todo[p] = <<>> /\ then[p] = "done"
        /\ got[p] = NoVersion /\ cache[p] = "none"
    BY <1>1, Zenon
  <2>2. /\ pc[p] = "translate" /\ tileState[p] = "unknown"
        /\ resp[p] = "none" /\ tally[p] = NoTally
    BY <1>1, <1>2, <1>5, Zenon
  <2> QED
    BY <2>1, <2>2, Zenon
<1> QED
  BY <1>3, <1>4, <1>5, Zenon

(* A request that is about to serve the tile found it current. *)
LEMMA InitRequestInv == ASSUME ServeInit, NEW p \in Req PROVE Staged(p) /\ Known(p) /\ Tallied(p)
PROOF
<1>1. Types
  BY InitTypes, Zenon
<1>2. Staged(p)
  BY InitRequest, Zenon DEF Staged, Serving, Final, Counting
<1>3. Known(p)
  BY InitRequest, Zenon DEF Known, Underway
<1>4. DOMAIN todo[p] = {}
  <2>1. todo[p] = <<>>
    BY InitRequest, Zenon
  <2> QED
    BY <2>1
<1>5. Tallied(p)
  <2>1. /\ pc[p] \in {"serve", "done", "translate"} /\ got[p] = NoVersion /\ cache[p] = "none"
        /\ pc[p] # "serve" => tally[p] = NoTally
        /\ pc[p] = "serve" => tally[p] = [NoTally EXCEPT !["FRESH"] = 1]
        /\ pc[p] = "done" => resp[p] = "refused"
    BY InitRequest, Zenon
  <2> QED
    BY <1>1, <1>4, <2>1 DEF Tallied, Serving, Final, Counting, Fresh, NoTally, Counter,
       RespCounter, FreshCounter, OldCounter, Early, Asking, NoVersion
<1> QED
  BY <1>2, <1>3, <1>5, Zenon

(* Nothing is locked or counted at first. *)
LEMMA InitStats == ServeInit => NothingHeld /\ PagesLock /\ Balanced /\ Copied /\ StatsConsistent
PROOF
<1> SUFFICES ASSUME ServeInit PROVE NothingHeld /\ PagesLock /\ Balanced /\ Copied /\ StatsConsistent
  BY Zenon
<1>1. mutex = Free /\ stats = [c \in Counter \cup Detail |-> 0]
  BY Zenon DEF ServeInit
<1>2. \A q \in Page : copy[q].at \in {"none", "undefined"}
  BY DEF ServeInit
<1>3. NothingHeld
  BY <1>1, InitRequest, TileServeAssumption, Zenon DEF NothingHeld
<1>4. PagesLock
  BY <1>1, <1>2, TileServeAssumption, Zenon DEF PagesLock
<1>5. \A p \in Req : pc[p] # "detail"
  BY InitRequest, Zenon
<1>6. Balanced
  BY <1>1, <1>5 DEF Balanced, Owed, Counter, RespCounter, Detail
<1> QED
  BY <1>2, <1>3, <1>4, <1>6, Zenon DEF Copied, StatsConsistent

-----------------------------------------------------------------------------
(* The steps of a request until it has its answer, by their outcome *)

Same(f, g, p) == \A r \in Req : r # p => g[r] = f[r]

(* It goes on; in bulk mode it may serve what it found.                    *)
Walks(p) ==
    /\ pc[p] \in Early
    /\ pc'[p] \in (Early \ {"translate"}) \cup {"serve"}
    /\ pc' = [pc EXCEPT ![p] = pc'[p]]
    /\ pc'[p] = "serve" => enable_bulk_mode /\ Outdated(p) /\ tileState' = tileState
    /\ UNCHANGED <<countVars, answerVars>>

(* It counts how fresh the tile is and serves it.                          *)
Freshens(p) ==
    /\ pc[p] \in Early
    /\ \E c \in FreshCounter :
          /\ CountThen(p, <<c>>, "serve")
          /\ c \in OldCounter => tileState'[p] \in {"old", "veryold"}
    /\ tileState'[p] # "unknown"
    /\ UNCHANGED answerVars

(* Its tile_read fails.                                                    *)
Misread(p) ==
    /\ Underway(p) /\ UNCHANGED <<tileState, seen, gone>>
    /\ fault' = [fault EXCEPT ![p] = @ \/ tile.state # "missing"]

(* It is answered without a tile, which is counted or not.                 *)
Answers(p) ==
    /\ pc[p] \in Early \cup {"serve"}
    /\ \E a \in {"404", "503", "5XX"} :
          /\ Answer(p, a)
          /\ a = "503" => pc[p] \in Early
          /\ a = "404" => /\ Underway(p) /\ UNCHANGED <<tileState, seen, gone>>
                          /\ \/ tileState[p] = "missing" /\ UNCHANGED fault
                             \/ Misread(p)

Ends(p) ==
    /\ pc[p] \in Early \cup {"serve"}
    /\ \E a \in {"refused", "page", "cors"} : AnswerUncounted(p, a)

(* What it learns of the tile.                                             *)
Unseen(p) == Underway(p) /\ UNCHANGED <<tileState, seen, gone, fault>>
Looked(p) == Underway(p) /\ (\E fails \in BOOLEAN : tile_state(p, fails)) /\ UNCHANGED <<seen, gone>>
Begins(p) ==
    /\ pc[p] = "translate" /\ UNCHANGED <<tileState, fault>>
    /\ seen' = [seen EXCEPT ![p] = IF tile.state = "current" THEN {tile.ver} ELSE {}]
    /\ gone' = [gone EXCEPT ![p] = (tile.state = "missing")]

Socket(p) ==
    /\ fd' \in [Req -> BOOLEAN] /\ Same(fd, fd', p)
    /\ fd'[p] <=> pc'[p] \in {"send", "wait"}

Moves(p) ==
    /\ Walks(p) \/ Freshens(p) \/ Answers(p) \/ Ends(p)
    /\ Unseen(p) \/ Misread(p) \/ Looked(p) \/ Begins(p)
    /\ Socket(p)
    /\ UNCHANGED <<enable_bulk_mode, tile, statVars>>

(* What tile_storage_hook and tile_handler_dirty make of the result of     *)
(* request_tile.                                                           *)
LEMMA ReturnsOutcome ==
    ASSUME Types, NEW p \in Req, pc[p] \in Asking, NEW done \in BOOLEAN, Returns(p, done), UNCHANGED local
    PROVE  /\ Walks(p) \/ Freshens(p) \/ Answers(p) \/ Ends(p)
           /\ pc'[p] \notin {"send", "wait"}
PROOF
<1>1. pc[p] \in Early /\ Underway(p)
  BY Zenon DEF Early, Asking, Underway
<1>2. UNCHANGED <<tileState, seen, gone, fault>>
  BY Zenon DEF local
<1>3. CASE handler[p] = "tile_dirty" /\ AnswerUncounted(p, "page")
  <2>1. pc'[p] = "done"
    BY <1>3, Zenon DEF AnswerUncounted, Goto, Types
  <2> QED
    BY <1>1, <1>3, <2>1, Zenon DEF Ends
<1>4. CASE Goto(p, "restat") /\ UNCHANGED <<countVars, answerVars>>
  <2>1. pc'[p] = "restat" /\ pc' = [pc EXCEPT ![p] = pc'[p]]
    BY <1>4, Zenon DEF Goto, Types
  <2> QED
    BY <1>1, <1>4, <2>1, Zenon DEF Walks, Early
<1>5. CASE \E c \in OldCounter : Outdated(p) /\ CountThen(p, <<c>>, "serve") /\ UNCHANGED answerVars
  <2>1. PICK c \in OldCounter : Outdated(p) /\ CountThen(p, <<c>>, "serve") /\ UNCHANGED answerVars
    BY <1>5, Zenon
  <2>2. pc'[p] = "count"
    BY <2>1, Zenon DEF CountThen, Goto, Types
  <2>3. c \in FreshCounter /\ tileState'[p] \in {"old", "veryold"}
    BY <1>2, <2>1, Zenon DEF OldCounter, FreshCounter, Outdated
  <2> QED
    BY <1>1, <2>1, <2>2, <2>3, Zenon DEF Freshens
<1>6. CASE tileState[p] = "missing" /\ Answer(p, "404")
  <2>1. pc'[p] = "count"
    BY <1>6, Zenon DEF Answer, CountThen, Goto, Types
  <2> QED
    BY <1>1, <1>2, <1>6, <2>1, Zenon DEF Answers
<1>7. ASSUME Outdated(p) PROVE
         (CASE prio[p] = 0 /\ tileState[p] = "old"     -> "OLD"
            [] prio[p] = 0 /\ tileState[p] = "veryold" -> "VERYOLD"
            [] tileState[p] = "old"                    -> "OLD_RENDER"
            [] OTHER                                   -> "VERYOLD_RENDER") \in OldCounter
  BY <1>7, Zenon DEF OldCounter
<1> QED
  BY <1>3, <1>4, <1>5, <1>6, <1>7, Zenon DEF Returns

(* However request_tile ends, the socket is closed.                        *)
LEMMA CloseAndReturnMoves ==
    ASSUME Types, NEW p \in Req, pc[p] \in Asking, NEW done \in BOOLEAN, CloseAndReturn(p, done)
    PROVE  Moves(p)
PROOF
<1>1. Returns(p, done) /\ UNCHANGED local /\ fd' = [fd EXCEPT ![p] = FALSE]
  BY Zenon DEF CloseAndReturn
<1>2. Unseen(p) /\ UNCHANGED <<enable_bulk_mode, tile, statVars>>
  BY <1>1, Zenon DEF Unseen, Underway, Asking, local
<1>3. /\ Walks(p) \/ Freshens(p) \/ Answers(p) \/ Ends(p)
      /\ pc'[p] \notin {"send", "wait"}
  BY <1>1, ReturnsOutcome, Zenon
<1>4. Socket(p)
  BY <1>1, <1>3, Zenon DEF Socket, Same, Types
<1> QED
  BY <1>2, <1>3, <1>4, Zenon DEF Moves

(* The steps of request_tile.                                              *)
LEMMA RequestTileMoves == ASSUME Types, NothingHeld, NEW p \in Req, request_tile(p), ~ReceivesPart(p) PROVE Moves(p)
PROOF
<1>1. ASSUME NEW l \in {"send", "wait", "reconnect"}, pc[p] \in Asking, Goto(p, l),
             fd' = [fd EXCEPT ![p] = (l # "reconnect")],
             UNCHANGED <<local, countVars, answerVars>>
      PROVE  Moves(p)
  <2>1. pc'[p] = l /\ pc' = [pc EXCEPT ![p] = pc'[p]] /\ pc[p] \in Early
    BY <1>1, Zenon DEF Goto, Types, Early
  <2>2. Walks(p)
    BY <1>1, <2>1, Zenon DEF Walks, Early, Asking
  <2>3. Unseen(p) /\ UNCHANGED <<enable_bulk_mode, tile, statVars>>
    BY <1>1, Zenon DEF Unseen, Underway, Asking, local
  <2>4. Socket(p)
    BY <1>1, <2>1, Zenon DEF Socket, Same, Types
  <2> QED
    BY <2>2, <2>3, <2>4, Zenon DEF Moves
<1>2. CASE Connects(p)
  <2>1. pc[p] \in Asking /\ Goto(p, "send") /\ fd' = [fd EXCEPT ![p] = ("send" # "reconnect")]
        /\ UNCHANGED <<local, countVars, answerVars>>
    BY <1>2, Zenon DEF Connects, Connect, Asking
  <2> QED
    BY <1>1, <2>1, Zenon
<1>3. CASE ConnectFails(p)
  BY <1>3, CloseAndReturnMoves, Zenon DEF ConnectFails, Asking
<1>4. CASE Reconnects(p)
  <2>1. pc[p] \in Asking
    BY <1>4, Zenon DEF Reconnects, Asking
  <2>2. CASE Connect(p) /\ Goto(p, "send")
    BY <1>1, <2>1, <2>2, Zenon DEF Connect
  <2>3. CASE Connect(p) /\ Goto(p, "wait")
    BY <1>1, <2>1, <2>3, Zenon DEF Connect
  <2> QED
    BY <1>4, <2>1, <2>2, <2>3, CloseAndReturnMoves, Zenon DEF Reconnects
<1>5. CASE Sends(p)
  <2>1. pc[p] = "send" /\ pc[p] \in Asking
    BY <1>5, Zenon DEF Sends, Asking
  <2>2. CASE Goto(p, "wait") /\ UNCHANGED <<local, fd, countVars, answerVars>>
    <3>1. Walks(p)
      BY <2>1, <2>2, Zenon DEF Goto, Types, Walks, Early, Asking
    <3>2. Unseen(p) /\ UNCHANGED <<enable_bulk_mode, tile, statVars>>
      BY <2>1, <2>2, Zenon DEF Unseen, Underway, local
    <3>3. pc'[p] = "wait" /\ fd[p] /\ fd' = fd
      BY <2>1, <2>2, ZenonT(60) DEF Goto, Types, NothingHeld
    <3>4. Socket(p)
      BY <3>3, Zenon DEF Socket, Same, Types
    <3> QED
      BY <3>1, <3>2, <3>4, Zenon DEF Moves
  <2> QED
    BY <1>5, <2>1, <2>2, CloseAndReturnMoves, Zenon DEF Sends
<1>6. CASE SendFails(p)
  BY <1>6, CloseAndReturnMoves, Zenon DEF SendFails, Asking
<1>7. CASE SendBreaks(p)
  <2>1. pc[p] \in Asking /\ Goto(p, "reconnect") /\ fd' = [fd EXCEPT ![p] = ("reconnect" # "reconnect")]
        /\ UNCHANGED <<local, countVars, answerVars>>
    BY <1>7, Zenon DEF SendBreaks, Asking
  <2> QED
    BY <1>1, <2>1, Zenon
<1>8. CASE Receives(p)
  <2>1. pc[p] \in Asking /\ CloseAndReturn(p, wire[p] = "cmdDone") /\ (wire[p] = "cmdDone") \in BOOLEAN
    BY <1>8, Zenon DEF Receives, Asking
  <2> QED
    BY <2>1, CloseAndReturnMoves, Zenon
<1>9. CASE WaitEnds(p)
  BY <1>9, CloseAndReturnMoves, Zenon DEF WaitEnds, Asking
<1> QED
  BY <1>2, <1>3, <1>4, <1>5, <1>6, <1>7, <1>8, <1>9, Zenon DEF request_tile

(* Every step of a request but serving the tile, reading half an answer    *)
(* and counting is one of these.                                           *)
LEMMA RequestMoves ==
    ASSUME Types, NothingHeld, NEW p \in Req, Staged(p), Request(p),
           ~ReceivesPart(p), ~ServesTile(p), ~Count(p)
    PROVE  Moves(p)
PROOF
<1>1. ASSUME pc[p] \notin {"send", "wait"}, pc'[p] \notin {"send", "wait"}, UNCHANGED fd PROVE Socket(p)
  BY <1>1, Zenon DEF Socket, Same, Types, NothingHeld
<1>2. ASSUME UNCHANGED local PROVE UNCHANGED <<enable_bulk_mode, tile, statVars, tileState, seen, gone, fault>>
  BY <1>2, Zenon DEF local
<1>3. ASSUME UNCHANGED rendVars PROVE UNCHANGED fd
  BY <1>3, Zenon DEF rendVars
<1>4. ASSUME Begin(p) PROVE Begins(p) /\ UNCHANGED <<enable_bulk_mode, tile, fd, statVars>> /\ pc[p] \in Early
  BY <1>4, Zenon DEF Begin, Begins, rendVars, Early
<1>5. ASSUME NEW a, AnswerUncounted(p, a) PROVE pc'[p] = "done"
  BY <1>5, Zenon DEF AnswerUncounted, Goto, Types
<1>6. ASSUME NEW cs, NEW l, CountThen(p, cs, l) PROVE pc'[p] = "count"
  BY <1>6, Zenon DEF CountThen, Goto, Types
<1>7. ASSUME NEW a, Answer(p, a) PROVE pc'[p] = "count"
  BY <1>6, <1>7, Zenon DEF Answer
<1>8. CASE OutOfBounds(p)
  <2>1. Begin(p) /\ AnswerUncounted(p, "refused")
    BY <1>8, Zenon DEF OutOfBounds
  <2>2. pc[p] = "translate"
    BY <2>1, Zenon DEF Begin
  <2> QED
    BY <1>1, <1>4, <1>5, <2>1, <2>2, Zenon DEF Moves, Ends
<1>9. CASE NoStore(p)
  <2>1. Begin(p) /\ Answer(p, "5XX")
    BY <1>9, Zenon DEF NoStore
  <2>2. pc[p] = "translate"
    BY <2>1, Zenon DEF Begin
  <2>3. Answers(p)
    BY <1>4, <2>1, Zenon DEF Answers
  <2> QED
    BY <1>1, <1>4, <1>7, <2>1, <2>2, <2>3, Zenon DEF Moves
<1>10. CASE tile_translate(p)
  <2>1. Begin(p) /\ UNCHANGED <<countVars, answerVars>>
    BY <1>10, Zenon DEF tile_translate
  <2>2. pc[p] = "translate"
    BY <2>1, Zenon DEF Begin
  <2>3. pc'[p] \in {"dirty", "stat"} /\ pc' = [pc EXCEPT ![p] = pc'[p]]
    BY <1>10, Zenon DEF tile_translate, Goto, Types
  <2>4. Walks(p)
    BY <2>1, <2>2, <2>3, Zenon DEF Walks, Early
  <2> QED
    BY <1>1, <1>4, <2>1, <2>2, <2>3, <2>4, Zenon DEF Moves
<1>11. ASSUME NEW fails \in BOOLEAN, Stat(p, fails) PROVE Moves(p)
  <2>1. /\ pc[p] = "stat" /\ UNCHANGED <<enable_bulk_mode, tile, fd, statVars, seen, gone>>
        /\ tile_state(p, fails)
    BY <1>11, Zenon DEF Stat, rendVars
  <2>2. Looked(p) /\ pc[p] \in Early
    BY <2>1, Zenon DEF Looked, Underway, Early
  <2>3. CASE Goto(p, "hook") /\ UNCHANGED <<countVars, answerVars>>
    <3>1. pc'[p] = "hook" /\ pc' = [pc EXCEPT ![p] = pc'[p]]
      BY <2>3, Zenon DEF Goto, Types
    <3>2. Walks(p)
      BY <2>2, <2>3, <3>1, Zenon DEF Walks, Early
    <3> QED
      BY <1>1, <2>1, <2>2, <3>1, <3>2, Zenon DEF Moves
  <2>4. CASE AnswerUncounted(p, "page")
    BY <1>1, <1>5, <2>1, <2>2, <2>4, Zenon DEF Moves, Ends
  <2> QED
    BY <1>11, <2>3, <2>4, Zenon DEF Stat
<1>12. CASE pc[p] \in {"hook", "dirty", "serve"} /\ UNCHANGED <<local, rendVars>>
            /\ (Walks(p) \/ Freshens(p) \/ Answers(p) \/ Ends(p)) /\ pc'[p] \in {"serve", "count", "done"}
  BY <1>1, <1>2, <1>3, <1>12, Zenon DEF Moves, Unseen, Underway
<1>13. CASE Throttled(p)
  <2>1. pc[p] = "hook" /\ Answer(p, "503") /\ UNCHANGED <<local, rendVars>> /\ pc[p] \in Early
    BY <1>13, Zenon DEF Throttled, Early
  <2>2. Answers(p)
    BY <2>1, Zenon DEF Answers
  <2> QED
    BY <1>7, <1>12, <2>1, <2>2, Zenon
<1>14. CASE HookCurrent(p)
  <2>1. pc[p] = "hook" /\ CountThen(p, <<"FRESH">>, "serve") /\ UNCHANGED <<local, rendVars, answerVars>>
        /\ pc[p] \in Early /\ tileState[p] = "current"
    BY <1>14, Zenon DEF HookCurrent, Early
  <2>2. "FRESH" \in FreshCounter /\ "FRESH" \notin OldCounter
    BY Zenon DEF FreshCounter, OldCounter
  <2>3. Freshens(p)
    BY <1>2, <2>1, <2>2, Zenon DEF Freshens
  <2> QED
    BY <1>6, <1>12, <2>1, <2>3, Zenon
<1>15. CASE HookBulk(p)
  <2>1. pc[p] = "hook" /\ UNCHANGED <<local, rendVars, countVars, answerVars>> /\ Outdated(p) /\ enable_bulk_mode
    BY <1>15, Zenon DEF HookBulk
  <2>2. pc'[p] = "serve" /\ pc' = [pc EXCEPT ![p] = pc'[p]]
    BY <1>15, Zenon DEF HookBulk, Goto, Types
  <2>3. Walks(p)
    BY <1>2, <2>1, <2>2, Zenon DEF Walks, Early
  <2> QED
    BY <1>12, <2>1, <2>2, <2>3, Zenon
<1>16. CASE (\E busy \in BOOLEAN : HookRenders(p, busy)) \/ DirtySubmits(p)
  <2>1. pc[p] \in {"hook", "dirty"} /\ UNCHANGED <<local, fd, countVars, answerVars>> /\ Goto(p, "connect")
    BY <1>16, Zenon DEF HookRenders, DirtySubmits
  <2>2. pc'[p] = "connect" /\ pc' = [pc EXCEPT ![p] = pc'[p]]
    BY <2>1, Zenon DEF Goto, Types
  <2>3. Walks(p)
    BY <2>1, <2>2, Zenon DEF Walks, Early, Asking
  <2>4. Unseen(p)
    BY <1>2, <2>1, Zenon DEF Unseen, Underway
  <2> QED
    BY <1>1, <1>2, <2>1, <2>2, <2>3, <2>4, Zenon DEF Moves
<1>17. CASE DirtyEnds(p)
  <2>1. pc[p] = "dirty" /\ AnswerUncounted(p, "refused") /\ UNCHANGED <<local, rendVars>> /\ pc[p] \in Early
    BY <1>17, Zenon DEF DirtyEnds, Early
  <2> QED
    BY <1>5, <1>12, <2>1, Zenon DEF Ends
<1>18. CASE request_tile(p)
  BY <1>18, RequestTileMoves, Zenon
<1>19. ASSUME NEW fails \in BOOLEAN, Restat(p, fails) PROVE Moves(p)
  <2>1. pc[p] = "restat" /\ CountThen(p, <<"FRESH_RENDER">>, "serve") /\ tile_state(p, fails)
        /\ UNCHANGED <<enable_bulk_mode, tile, fd, answerVars, statVars, seen, gone>>
        /\ pc[p] \in Early
    BY <1>19, Zenon DEF Restat, rendVars, Early
  <2>2. "FRESH_RENDER" \in FreshCounter /\ "FRESH_RENDER" \notin OldCounter
    BY Zenon DEF FreshCounter, OldCounter
  <2>3. tileState'[p] # "unknown"
    BY <2>1, Zenon DEF tile_state, Types, TileState
  <2>4. Freshens(p)
    BY <2>1, <2>2, <2>3, Zenon DEF Freshens
  <2>5. Looked(p)
    BY <2>1, Zenon DEF Looked, Underway
  <2> QED
    BY <1>1, <1>6, <2>1, <2>4, <2>5, Zenon DEF Moves
<1>20. CASE CorsAnswers(p)
  <2>1. pc[p] = "serve" /\ AnswerUncounted(p, "cors") /\ UNCHANGED <<local, rendVars>>
    BY <1>20, Zenon DEF CorsAnswers
  <2> QED
    BY <1>5, <1>12, <2>1, Zenon DEF Ends
<1>21. CASE NoBuffer(p)
  <2>1. pc[p] = "serve" /\ Answer(p, "5XX") /\ UNCHANGED <<local, rendVars>>
    BY <1>21, Zenon DEF NoBuffer
  <2>2. Answers(p)
    BY <2>1, Zenon DEF Answers
  <2> QED
    BY <1>7, <1>12, <2>1, <2>2, Zenon
<1>22. CASE ReadFails(p)
  <2>1. pc[p] = "serve" /\ Answer(p, "404") /\ UNCHANGED <<enable_bulk_mode, tile, fd, statVars>>
    BY <1>22, Zenon DEF ReadFails, rendVars
  <2>2. Misread(p)
    BY <1>22, Zenon DEF ReadFails, Misread, Underway
  <2>3. Answers(p)
    BY <2>1, <2>2, Zenon DEF Answers, Misread
  <2> QED
    BY <1>1, <1>7, <2>1, <2>2, <2>3, Zenon DEF Moves
<1> QED
  BY <1>8, <1>9, <1>10, <1>11, <1>13, <1>14, <1>15, <1>16, <1>17, <1>18, <1>19, <1>20, <1>21, <1>22, Zenon DEF Request

-----------------------------------------------------------------------------
(* What a request's steps preserve *)

(* What is said of a request depends on its own state and on the tile.     *)
Others(p) ==
    /\ UNCHANGED <<enable_bulk_mode, tile>>
    /\ Same(pc, pc', p) /\ Same(tileState, tileState', p)
    /\ Same(todo, todo', p) /\ Same(then, then', p) /\ Same(tally, tally', p)
    /\ Same(resp, resp', p) /\ Same(got, got', p) /\ Same(cache, cache', p)
    /\ Same(seen, seen', p) /\ Same(gone, gone', p) /\ Same(fault, fault', p)

(* So a step of one request does not disturb what holds of another.        *)
LEMMA OtherRequests ==
    ASSUME NEW p \in Req, Others(p), NEW r \in Req, r # p, Staged(r), Known(r), Tallied(r)
    PROVE  Staged(r)' /\ Known(r)' /\ Tallied(r)'
PROOF
<1>1. /\ pc'[r] = pc[r] /\ tileState'[r] = tileState[r] /\ todo'[r] = todo[r] /\ then'[r] = then[r]
      /\ tally'[r] = tally[r] /\ resp'[r] = resp[r] /\ got'[r] = got[r] /\ cache'[r] = cache[r]
      /\ seen'[r] = seen[r] /\ gone'[r] = gone[r] /\ fault'[r] = fault[r]
      /\ tile' = tile /\ enable_bulk_mode' = enable_bulk_mode
  BY Zenon DEF Others, Same
<1>2. Staged(r)'
  BY <1>1, Zenon DEF Staged, Serving, Final
<1>3. Known(r)'
  BY <1>1, Zenon DEF Known, Underway
<1>4. Fresh(r)' = Fresh(r) /\ (Serving(r)' <=> Serving(r)) /\ (Final(r)' <=> Final(r)) /\ (Outdated(r)' <=> Outdated(r))
  BY <1>1, Zenon DEF Fresh, Serving, Final, Outdated
<1>5. Tallied(r)'
  BY <1>1, <1>4, ZenonT(60) DEF Tallied
<1> QED
  BY <1>2, <1>3, <1>5, Zenon

(* Before a request counts, its tally is unchanged where cs has nothing.   *)
LEMMA CountThenFacts ==
    ASSUME Types, NEW p \in Req, NEW cs \in Seq(Counter), NEW l \in {"serve", "done"}, CountThen(p, cs, l)
    PROVE  /\ pc' \in [Req -> Early \cup Counting \cup {"serve", "done"}] /\ Same(pc, pc', p)
           /\ todo' \in [Req -> Seq(Counter)] /\ Same(todo, todo', p)
           /\ then' \in [Req -> {"serve", "done"}] /\ Same(then, then', p)
           /\ tally' \in [Req -> [Counter -> Nat]] /\ Same(tally, tally', p)
           /\ pc'[p] = "count" /\ todo'[p] = cs /\ then'[p] = l
           /\ \A c \in Counter : tally'[p][c] = IF c \in Among(cs) THEN tally[p][c] + 1 ELSE tally[p][c]
PROOF
<1>1. /\ pc' \in [Req -> Early \cup Counting \cup {"serve", "done"}] /\ Same(pc, pc', p)
      /\ pc'[p] = "count"
  BY Zenon DEF CountThen, Goto, Types, Counting, Same
<1>2. todo' \in [Req -> Seq(Counter)] /\ Same(todo, todo', p) /\ todo'[p] = cs
  BY Zenon DEF CountThen, Types, Same
<1>3. then' \in [Req -> {"serve", "done"}] /\ Same(then, then', p) /\ then'[p] = l
  BY Zenon DEF CountThen, Types, Same
<1>4. PICK more : /\ more = [c \in Counter |-> IF c \in Among(cs) THEN tally[p][c] + 1 ELSE tally[p][c]]
                  /\ tally' = [tally EXCEPT ![p] = more]
  BY Zenon DEF CountThen
<1>5. more \in [Counter -> Nat]
  <2>1. tally[p] \in [Counter -> Nat]
    BY Zenon DEF Types
  <2> QED
    BY <1>4, <2>1
<1>6. tally' \in [Req -> [Counter -> Nat]] /\ Same(tally, tally', p) /\ tally'[p] = more
  BY <1>4, <1>5, Zenon DEF Types, Same
<1>7. \A c \in Counter : more[c] = IF c \in Among(cs) THEN tally[p][c] + 1 ELSE tally[p][c]
  BY <1>4, Zenon DEF Types
<1> QED
  BY <1>1, <1>2, <1>3, <1>6, <1>7, Zenon

(* One counter.                                                            *)
LEMMA CountsOne ==
    ASSUME Types, NEW p \in Req, NEW c \in Counter, NEW l \in {"serve", "done"}, CountThen(p, <<c>>, l)
    PROVE  /\ pc'[p] = "count" /\ todo'[p] = <<c>> /\ then'[p] = l
           /\ \A d \in Counter : tally'[p][d] = IF d = c THEN tally[p][d] + 1 ELSE tally[p][d]
PROOF
<1>0. <<c>> \in Seq(Counter)
  OBVIOUS
<1>1. PICK cs \in Seq(Counter) : cs = <<c>>
  BY <1>0, Zenon
<1>2. CountThen(p, cs, l)
  BY <1>1, Zenon
<1>3. /\ pc'[p] = "count" /\ todo'[p] = cs /\ then'[p] = l
      /\ \A d \in Counter : tally'[p][d] = IF d \in Among(cs) THEN tally[p][d] + 1 ELSE tally[p][d]
  BY <1>2, CountThenFacts
<1>4. Among(cs) = {c}
  BY <1>1 DEF Among
<1>5. \A d \in Counter : tally'[p][d] = IF d = c THEN tally[p][d] + 1 ELSE tally[p][d]
  BY <1>3, <1>4, Zenon
<1> QED
  BY <1>1, <1>3, <1>5, Zenon

RequestInv(p) == Staged(p) /\ Known(p) /\ Tallied(p)

(* What a request learns of the tile leaves the types alone.               *)
LEMMA LookTypes ==
    ASSUME Types, NEW p \in Req, Unseen(p) \/ Misread(p) \/ Looked(p) \/ Begins(p),
           UNCHANGED <<enable_bulk_mode, tile>>
    PROVE  /\ enable_bulk_mode' \in BOOLEAN /\ tile' \in [ver: Nat, state: TileState]
           /\ tileState' \in [Req -> TileState \cup {"unknown"}] /\ Same(tileState, tileState', p)
           /\ seen' \in [Req -> SUBSET Nat] /\ Same(seen, seen', p)
           /\ gone' \in [Req -> BOOLEAN] /\ Same(gone, gone', p)
           /\ fault' \in [Req -> BOOLEAN] /\ Same(fault, fault', p)
PROOF
<1>1. CASE Unseen(p)
  BY <1>1, Zenon DEF Unseen, Types, Same
<1>2. CASE Looked(p)
  <2>1. PICK fails \in BOOLEAN :
           /\ tileState' = [tileState EXCEPT ![p] = IF fails THEN "missing" ELSE tile.state]
           /\ fault' = [fault EXCEPT ![p] = fails]
    BY <1>2, Zenon DEF Looked, tile_state
  <2>2. (IF fails THEN "missing" ELSE tile.state) \in TileState
    BY Zenon DEF Types, TileState
  <2>3. tileState' \in [Req -> TileState \cup {"unknown"}] /\ Same(tileState, tileState', p)
    BY <2>1, <2>2, Zenon DEF Types, Same
  <2>4. fault' \in [Req -> BOOLEAN] /\ Same(fault, fault', p)
    BY <2>1, Zenon DEF Types, Same
  <2> QED
    BY <1>2, <2>3, <2>4, Zenon DEF Looked, Types, Same
<1>3. CASE Begins(p)
  <2>1. seen' \in [Req -> SUBSET Nat] /\ Same(seen, seen', p)
    BY <1>3, Zenon DEF Begins, Types, Same
  <2>2. gone' \in [Req -> BOOLEAN] /\ Same(gone, gone', p)
    BY <1>3, Zenon DEF Begins, Types, Same
  <2> QED
    BY <1>3, <2>1, <2>2, Zenon DEF Begins, Types, Same
<1>4. CASE Misread(p)
  BY <1>4, Zenon DEF Misread, Types, Same
<1> QED
  BY <1>1, <1>2, <1>3, <1>4, Zenon

(* A request's move changes no other request's state.                      *)
LEMMA MovesTypes == ASSUME Types, NEW p \in Req, Moves(p) PROVE Types' /\ Others(p)
PROOF
<1>1. /\ enable_bulk_mode' \in BOOLEAN /\ tile' \in [ver: Nat, state: TileState]
      /\ tileState' \in [Req -> TileState \cup {"unknown"}] /\ Same(tileState, tileState', p)
      /\ seen' \in [Req -> SUBSET Nat] /\ Same(seen, seen', p)
      /\ gone' \in [Req -> BOOLEAN] /\ Same(gone, gone', p)
      /\ fault' \in [Req -> BOOLEAN] /\ Same(fault, fault', p)
  BY LookTypes, Zenon DEF Moves
<1>2. fd' \in [Req -> BOOLEAN]
  BY Zenon DEF Moves, Socket
<1>3. /\ mutex' \in Req \cup Page \cup {Free}
      /\ stats' \in [Counter \cup Detail -> Nat]
      /\ copy' \in [Page -> [at: PageState, of: {<<>>} \cup [Struct -> Nat] \cup [Counter \cup Detail -> Nat]]]
      /\ UNCHANGED <<enable_bulk_mode, tile>>
  BY Zenon DEF Moves, Types, statVars
<1> DEFINE Rest == /\ pc' \in [Req -> Early \cup Counting \cup {"serve", "done"}] /\ Same(pc, pc', p)
                   /\ todo' \in [Req -> Seq(Counter)] /\ Same(todo, todo', p)
                   /\ then' \in [Req -> {"serve", "done"}] /\ Same(then, then', p)
                   /\ tally' \in [Req -> [Counter -> Nat]] /\ Same(tally, tally', p)
                   /\ resp' \in [Req -> Response] /\ Same(resp, resp', p)
                   /\ got' \in [Req -> Int] /\ Same(got, got', p)
                   /\ cache' \in [Req -> {"none", "extended", "dirty", "heuristic"}] /\ Same(cache, cache', p)
<1>4. ASSUME UNCHANGED countVars
      PROVE  /\ todo' \in [Req -> Seq(Counter)] /\ Same(todo, todo', p)
             /\ then' \in [Req -> {"serve", "done"}] /\ Same(then, then', p)
             /\ tally' \in [Req -> [Counter -> Nat]] /\ Same(tally, tally', p)
  BY <1>4, Zenon DEF countVars, Types, Same
<1>5. ASSUME UNCHANGED <<got, cache>>
      PROVE  /\ got' \in [Req -> Int] /\ Same(got, got', p)
             /\ cache' \in [Req -> {"none", "extended", "dirty", "heuristic"}] /\ Same(cache, cache', p)
  BY <1>5, Zenon DEF Types, Same
<1>6. ASSUME UNCHANGED answerVars
      PROVE  UNCHANGED <<got, cache>> /\ resp' \in [Req -> Response] /\ Same(resp, resp', p)
  BY <1>6, Zenon DEF answerVars, Types, Same
<1>7. ASSUME NEW a \in Response, resp' = [resp EXCEPT ![p] = a]
      PROVE  resp' \in [Req -> Response] /\ Same(resp, resp', p)
  BY <1>7, Zenon DEF Types, Same
<1>8. ASSUME Walks(p) PROVE Rest
  <2>1. pc' \in [Req -> Early \cup Counting \cup {"serve", "done"}] /\ Same(pc, pc', p)
    <3>1. PICK l \in Early \cup {"serve"} : pc' = [pc EXCEPT ![p] = l]
      BY <1>8, Zenon DEF Walks
    <3> QED
      BY <3>1, Zenon DEF Types, Same
  <2> QED
    BY <1>4, <1>5, <1>6, <1>8, <2>1, Zenon DEF Walks
<1>9. ASSUME Freshens(p) PROVE Rest
  <2>1. PICK c \in FreshCounter : CountThen(p, <<c>>, "serve")
    BY <1>9, Zenon DEF Freshens
  <2>2. <<c>> \in Seq(Counter)
    BY DEF Counter
  <2> QED
    BY <1>5, <1>6, <1>9, <2>1, <2>2, CountThenFacts, Zenon DEF Freshens
<1>10. ASSUME Answers(p) PROVE Rest
  <2>1. PICK a \in {"404", "503", "5XX"} : Answer(p, a)
    BY <1>10, Zenon DEF Answers
  <2>2. <<a>> \in Seq(Counter) /\ a \in Response
    BY DEF Counter, RespCounter, Response
  <2> QED
    BY <1>5, <1>7, <2>1, <2>2, CountThenFacts, Zenon DEF Answer
<1>11. ASSUME Ends(p) PROVE Rest
  <2>1. PICK a \in {"refused", "page", "cors"} : AnswerUncounted(p, a)
    BY <1>11, Zenon DEF Ends
  <2>2. pc' \in [Req -> Early \cup Counting \cup {"serve", "done"}] /\ Same(pc, pc', p)
    BY <2>1, Zenon DEF AnswerUncounted, Goto, Types, Same
  <2>3. a \in Response
    BY Zenon DEF Response
  <2> QED
    BY <1>4, <1>5, <1>7, <2>1, <2>2, <2>3, Zenon DEF AnswerUncounted
<1>12. Rest
  BY <1>8, <1>9, <1>10, <1>11, Zenon DEF Moves
<1> QED
  BY <1>1, <1>2, <1>3, <1>12, Zenon DEF Types, Others

(* A move keeps to the stages: a counter where it counts, an answer at     *)
(* the end.                                                                *)
LEMMA MovesStaged == ASSUME Types, NEW p \in Req, Staged(p), Moves(p) PROVE Staged(p)'
PROOF
<1>1. ASSUME pc[p] \in Early \cup {"serve"} PROVE ~Final(p) /\ todo[p] = <<>>
  BY <1>1, Zenon DEF Final, Staged, Early, Asking, Counting
<1>2. CASE Walks(p)
  <2>1. /\ pc'[p] \in (Early \ {"translate"}) \cup {"serve"} /\ todo' = todo /\ then' = then
        /\ resp' = resp /\ got' = got /\ cache' = cache
        /\ resp[p] = "none" /\ got[p] = NoVersion /\ cache[p] = "none" /\ todo[p] = <<>>
    BY <1>1, <1>2, Zenon DEF Walks, Staged, countVars, answerVars
  <2>2. pc'[p] = "serve" => tileState'[p] # "unknown"
    BY <1>2, Zenon DEF Walks, Outdated
  <2>3. pc'[p] \notin Counting /\ pc'[p] # "translate" /\ pc'[p] # "done"
    BY <2>1, Zenon DEF Early, Asking, Counting
  <2> QED
    BY <2>1, <2>2, <2>3, Zenon DEF Staged, Serving, Final
<1>3. CASE Freshens(p)
  <2>1. PICK c \in FreshCounter : CountThen(p, <<c>>, "serve")
    BY <1>3, Zenon DEF Freshens
  <2>2. <<c>> \in Seq(Counter) /\ c \in Counter
    BY DEF Counter
  <2>3. pc'[p] = "count" /\ todo'[p] = <<c>> /\ then'[p] = "serve"
    BY <2>1, <2>2, CountThenFacts, Zenon
  <2>4. /\ resp'[p] = "none" /\ got'[p] = NoVersion /\ cache'[p] = "none"
        /\ tileState'[p] # "unknown"
    BY <1>1, <1>3, Zenon DEF Freshens, Staged, answerVars
  <2>5. pc'[p] \in Counting /\ pc'[p] # "translate"
    BY <2>3, Zenon DEF Counting
  <2> QED
    BY <2>2, <2>3, <2>4, <2>5, Zenon DEF Staged
<1>4. CASE Answers(p)
  <2>1. PICK a \in {"404", "503", "5XX"} : Answer(p, a)
    BY <1>4, Zenon DEF Answers
  <2>2. <<a>> \in Seq(Counter) /\ a \in Counter
    BY DEF Counter, RespCounter
  <2>3. pc'[p] = "count" /\ todo'[p] = <<a>> /\ then'[p] = "done"
    BY <2>1, <2>2, CountThenFacts, Zenon DEF Answer
  <2>4. pc'[p] \in Counting /\ pc'[p] # "translate"
    BY <2>3, Zenon DEF Counting
  <2> QED
    BY <2>2, <2>3, <2>4, Zenon DEF Staged, Serving, Final
<1>5. CASE Ends(p)
  <2>1. pc'[p] = "done" /\ todo' = todo
    BY <1>5, Zenon DEF Ends, AnswerUncounted, Goto, countVars, Types
  <2>2. todo[p] = <<>> /\ pc'[p] \notin Counting
    BY <1>1, <1>5, <2>1, Zenon DEF Ends, Counting
  <2> QED
    BY <2>1, <2>2, Zenon DEF Staged, Serving, Final
<1> QED
  BY <1>2, <1>3, <1>4, <1>5, Zenon DEF Moves

(* What a request knows of the tile was true since it began.               *)
LEMMA MovesKnown == ASSUME Types, NEW p \in Req, Staged(p), Known(p), Moves(p) PROVE Known(p)'
PROOF
<1>1. tile' = tile
  BY Zenon DEF Moves
<1>2. /\ tile.state = "missing" => gone'[p]
      /\ tile.state = "current" => tile.ver \in seen'[p]
      /\ tileState'[p] = "missing" => \/ fault'[p]
                                      \/ gone'[p] /\ (tile.state = "missing" \/ tile.ver \in seen'[p])
      /\ tileState'[p] = "current" => tile.ver \in seen'[p]
  <2>1. CASE Unseen(p)
    BY <2>1, Zenon DEF Unseen, Known
  <2>2. CASE Looked(p)
    <3>1. PICK fails \in BOOLEAN : tile_state(p, fails) /\ seen' = seen /\ gone' = gone /\ Underway(p)
      BY <2>2, Zenon DEF Looked
    <3>2. tileState'[p] = (IF fails THEN "missing" ELSE tile.state) /\ fault'[p] = fails
      BY <3>1, Zenon DEF tile_state, Types
    <3> QED
      BY <3>1, <3>2, Zenon DEF Known
  <2>3. CASE Begins(p)
    <3>1. tileState'[p] = "unknown"
      BY <2>3, Zenon DEF Begins, Staged
    <3>2. tile.state = "missing" => gone'[p]
      BY <2>3, Zenon DEF Begins, Types
    <3>3. tile.state = "current" => tile.ver \in seen'[p]
      BY <2>3, Zenon DEF Begins, Types
    <3> QED
      BY <3>1, <3>2, <3>3, Zenon
  <2>4. CASE Misread(p)
    <3>1. fault[p] => fault'[p]
      BY <2>4, Zenon DEF Misread, Types
    <3> QED
      BY <2>4, <3>1, Zenon DEF Misread, Known
  <2> QED
    BY <2>1, <2>2, <2>3, <2>4, Zenon DEF Moves
<1>3. resp'[p] \notin {"200", "304"} /\ (resp'[p] = "404" => gone'[p] \/ fault'[p])
  <2>1. ASSUME UNCHANGED answerVars, pc[p] \in Early PROVE resp'[p] = "none"
    <3>1. ~Final(p)
      BY <2>1, Zenon DEF Final, Early, Asking, Counting
    <3> QED
      BY <2>1, <3>1, Zenon DEF Staged, answerVars
  <2>2. CASE Walks(p) \/ Freshens(p)
    BY <2>1, <2>2, Zenon DEF Walks, Freshens
  <2>3. CASE Answers(p)
    <3>1. PICK a \in {"404", "503", "5XX"} :
             /\ Answer(p, a)
             /\ a = "404" => /\ Underway(p) /\ UNCHANGED <<tileState, seen, gone>>
                             /\ \/ tileState[p] = "missing" /\ UNCHANGED fault
                                \/ Misread(p)
      BY <2>3, Zenon DEF Answers
    <3>2. resp'[p] = a
      BY <3>1, Zenon DEF Answer, Types
    <3>3. Misread(p) => tile.state = "missing" \/ fault'[p]
      BY Zenon DEF Misread, Types
    <3> QED
      BY <3>1, <3>2, <3>3, Zenon DEF Known
  <2>4. CASE Ends(p)
    <3>1. PICK a \in {"refused", "page", "cors"} : AnswerUncounted(p, a)
      BY <2>4, Zenon DEF Ends
    <3>2. resp'[p] = a
      BY <3>1, Zenon DEF AnswerUncounted, Types
    <3> QED
      BY <3>2, Zenon
  <2> QED
    BY <2>2, <2>3, <2>4, Zenon DEF Moves
<1> QED
  BY <1>1, <1>2, <1>3, Zenon DEF Known

(* A request is tallied for nothing but its freshness and its answer.      *)
LEMMA MovesTallied == ASSUME Types, NEW p \in Req, Staged(p), Tallied(p), Moves(p) PROVE Tallied(p)'
PROOF
<1>1. enable_bulk_mode' = enable_bulk_mode
  BY Zenon DEF Moves
<1>2. ASSUME pc[p] \in Early \cup {"serve"}
      PROVE  /\ ~Final(p) /\ todo[p] = <<>> /\ got[p] = NoVersion /\ cache[p] = "none"
             /\ \A c \in RespCounter : tally[p][c] = 0
             /\ pc[p] \in Early => Fresh(p) = {}
  <2>1. ~Final(p) /\ pc[p] \notin Counting
    BY <1>2, Zenon DEF Final, Early, Asking, Counting
  <2>2. Serving(p) \/ pc[p] \in Early
    BY <1>2, Zenon DEF Serving
  <2>3. \A c \in RespCounter : tally[p][c] = 0
    BY <2>2, Zenon DEF Tallied, Counter
  <2>4. pc[p] \in Early => Fresh(p) = {}
    BY DEF Tallied, Counter, Fresh
  <2> QED
    BY <2>1, <2>3, <2>4, Zenon DEF Staged
<1>3. CASE Walks(p)
  <2>1. /\ pc[p] \in Early /\ pc'[p] \in Early \cup {"serve"} /\ tally' = tally /\ todo' = todo
        /\ pc'[p] = "serve" => enable_bulk_mode /\ Outdated(p)'
    BY <1>3, Zenon DEF Walks, countVars, Outdated
  <2>2. \A c \in Counter : tally'[p][c] = 0
    BY <2>1, Zenon DEF Tallied
  <2>3. Fresh(p)' = {} /\ DOMAIN todo'[p] = {} /\ ~Final(p)' /\ (Serving(p)' => pc'[p] = "serve")
    BY <1>2, <2>1, <2>2 DEF Fresh, Counter, Final, Serving, Early, Asking, Counting
  <2> QED
    BY <1>1, <2>1, <2>2, <2>3, Zenon DEF Tallied, Counter
<1>4. CASE Freshens(p)
  <2>1. PICK c \in FreshCounter : /\ CountThen(p, <<c>>, "serve")
                                  /\ c \in OldCounter => tileState'[p] \in {"old", "veryold"}
    BY <1>4, Zenon DEF Freshens
  <2>2. <<c>> \in Seq(Counter) /\ c \in Counter
    BY DEF Counter
  <2>3. /\ pc'[p] = "count" /\ todo'[p] = <<c>> /\ then'[p] = "serve"
        /\ \A d \in Counter : tally'[p][d] = IF d = c THEN tally[p][d] + 1 ELSE tally[p][d]
    BY <2>1, <2>2, CountsOne, Zenon
  <2>4. \A d \in Counter : tally[p][d] = 0
    BY <1>4, Zenon DEF Freshens, Tallied
  <2>5. \A d \in Counter : tally'[p][d] = IF d = c THEN 1 ELSE 0
    BY <2>3, <2>4
  <2>6. Fresh(p)' = {c}
    BY <2>2, <2>5 DEF Fresh, Counter
  <2>7. Serving(p)' /\ ~Final(p)' /\ pc'[p] \notin Early
    BY <2>3, Zenon DEF Serving, Final, Counting, Early, Asking
  <2>8. \A d \in RespCounter \cup {"read"} : tally'[p][d] = 0
    BY <2>5, Zenon DEF Counter, RespCounter, FreshCounter
  <2>9. \A i \in DOMAIN todo'[p] : tally'[p][todo'[p][i]] > 0
    BY <2>2, <2>3, <2>5
  <2>10. Fresh(p)' \cap OldCounter # {} => Outdated(p)'
    BY <2>1, <2>6, Zenon DEF Outdated
  <2> QED
    BY <2>2, <2>5, <2>6, <2>7, <2>8, <2>9, <2>10, Zenon DEF Tallied
<1>5. CASE Answers(p)
  <2>1. PICK a \in {"404", "503", "5XX"} : Answer(p, a) /\ (a = "503" => pc[p] \in Early)
    BY <1>5, Zenon DEF Answers
  <2>2. <<a>> \in Seq(Counter) /\ a \in RespCounter /\ a \in Counter
    BY DEF Counter, RespCounter
  <2>3. /\ pc'[p] = "count" /\ todo'[p] = <<a>> /\ then'[p] = "done"
        /\ \A d \in Counter : tally'[p][d] = IF d = a THEN tally[p][d] + 1 ELSE tally[p][d]
    BY <2>1, <2>2, CountsOne, Zenon DEF Answer
  <2>4. pc[p] \in Early \cup {"serve"} /\ resp'[p] = a /\ got' = got /\ cache' = cache
    BY <1>5, <2>1, Zenon DEF Answers, Answer, Types
  <2>5. \A d \in FreshCounter : d \in Counter /\ d # a
    BY <2>2, Zenon DEF Counter, RespCounter, FreshCounter
  <2>6. \A d \in RespCounter : tally'[p][d] = IF d = a THEN 1 ELSE 0
    BY <1>2, <2>3, <2>4 DEF Counter
  <2>7. \A d \in FreshCounter : tally'[p][d] = tally[p][d]
    BY <2>3, <2>5, Zenon
  <2>8. Fresh(p)' = Fresh(p)
    BY <2>7, Zenon DEF Fresh
  <2>9. Final(p)' /\ ~Serving(p)' /\ pc'[p] \notin Early
    BY <2>3, Zenon DEF Serving, Final, Counting, Early, Asking
  <2>10. \A i \in DOMAIN todo'[p] : tally'[p][todo'[p][i]] > 0
    BY <2>2, <2>3, <2>6
  <2>11. \A c, d \in Fresh(p)' : c = d /\ tally'[p][c] = 1
    BY <2>7, <2>8, Zenon DEF Tallied, Fresh
  <2> QED
    BY <1>2, <2>1, <2>4, <2>6, <2>8, <2>9, <2>10, <2>11, Zenon DEF Tallied
<1>6. CASE Ends(p)
  <2>1. PICK a \in {"refused", "page", "cors"} : AnswerUncounted(p, a)
    BY <1>6, Zenon DEF Ends
  <2>2. pc'[p] = "done" /\ todo' = todo /\ tally' = tally /\ resp'[p] = a /\ got' = got /\ cache' = cache
    BY <2>1, Zenon DEF AnswerUncounted, Goto, countVars, Types
  <2>3. a \notin RespCounter
    BY Zenon DEF RespCounter
  <2>4. Fresh(p)' = Fresh(p) /\ Final(p)' /\ ~Serving(p)' /\ pc'[p] \notin Early
    BY <2>2, Zenon DEF Fresh, Serving, Final, Counting, Early, Asking
  <2>5. pc[p] \in Early \cup {"serve"}
    BY <1>6, Zenon DEF Ends
  <2> QED
    BY <1>2, <2>2, <2>3, <2>4, <2>5, Zenon DEF Tallied
<1> QED
  BY <1>3, <1>4, <1>5, <1>6, Zenon DEF Moves

(* The tile is served as what tile_state said of it, or newer.             *)
LEMMA ServesTileKeeps ==
    ASSUME Types, NEW p \in Req, RequestInv(p), ServesTile(p)
    PROVE  Types' /\ Others(p) /\ RequestInv(p)' /\ UNCHANGED <<statVars, fd>>
PROOF
<1>1. PICK a \in {"200", "304", "other"} : resp' = [resp EXCEPT ![p] = a] /\ CountThen(p, <<"read", a>>, "done")
  BY Zenon DEF ServesTile
<1>2. PICK h \in {"extended", "dirty", "heuristic"} :
         /\ cache' = [cache EXCEPT ![p] = h]
         /\ h = "heuristic" => ~Outdated(p)
  BY Zenon DEF ServesTile, add_expiry
<1>3. /\ pc[p] = "serve" /\ tile.state # "missing" /\ got' = [got EXCEPT ![p] = tile.ver]
      /\ UNCHANGED <<enable_bulk_mode, tile, tileState, seen, gone, fault, fd, mutex, stats, copy>>
  BY Zenon DEF ServesTile, local, rendVars, statVars
<1>4. a \in RespCounter /\ a \in Response /\ a \in Counter /\ "read" \in Counter /\ a # "read"
  BY Zenon DEF RespCounter, Response, Counter
<1>5. PICK cs \in Seq(Counter) : cs = <<"read", a>>
  <2>1. <<"read", a>> \in Seq(Counter)
    BY <1>4
  <2> QED
    BY <2>1, Zenon
<1>6. CountThen(p, cs, "done")
  BY <1>1, <1>5, Zenon
<1>7. /\ pc' \in [Req -> Early \cup Counting \cup {"serve", "done"}] /\ Same(pc, pc', p)
      /\ todo' \in [Req -> Seq(Counter)] /\ Same(todo, todo', p)
      /\ then' \in [Req -> {"serve", "done"}] /\ Same(then, then', p)
      /\ tally' \in [Req -> [Counter -> Nat]] /\ Same(tally, tally', p)
      /\ pc'[p] = "count" /\ todo'[p] = cs /\ then'[p] = "done"
      /\ \A c \in Counter : tally'[p][c] = IF c \in Among(cs) THEN tally[p][c] + 1 ELSE tally[p][c]
  BY <1>6, CountThenFacts, Zenon
<1>8. Among(cs) = {"read", a}
  BY <1>5 DEF Among
<1>9. \A c \in Counter : tally'[p][c] = IF c \in {"read", a} THEN tally[p][c] + 1 ELSE tally[p][c]
  BY <1>7, <1>8, Zenon
<1>10. /\ resp' \in [Req -> Response] /\ Same(resp, resp', p) /\ resp'[p] = a
       /\ cache' \in [Req -> {"none", "extended", "dirty", "heuristic"}] /\ Same(cache, cache', p) /\ cache'[p] = h
  BY <1>1, <1>2, <1>4, Zenon DEF Types, Same
<1>11. got' \in [Req -> Int] /\ Same(got, got', p) /\ got'[p] = tile.ver /\ tile.ver \in Nat
  BY <1>3 DEF Types, Same
<1>12. Types'
  <2>1. /\ enable_bulk_mode' \in BOOLEAN /\ tile' \in [ver: Nat, state: TileState]
        /\ tileState' \in [Req -> TileState \cup {"unknown"}]
        /\ fd' \in [Req -> BOOLEAN]
        /\ mutex' \in Req \cup Page \cup {Free}
        /\ stats' \in [Counter \cup Detail -> Nat]
        /\ copy' \in [Page -> [at: PageState, of: {<<>>} \cup [Struct -> Nat] \cup [Counter \cup Detail -> Nat]]]
        /\ seen' \in [Req -> SUBSET Nat]
        /\ gone' \in [Req -> BOOLEAN] /\ fault' \in [Req -> BOOLEAN]
    BY <1>3, Zenon DEF Types
  <2>2. /\ pc' \in [Req -> Early \cup Counting \cup {"serve", "done"}]
        /\ todo' \in [Req -> Seq(Counter)]
        /\ then' \in [Req -> {"serve", "done"}]
        /\ tally' \in [Req -> [Counter -> Nat]]
    BY <1>7, Zenon
  <2> QED
    BY <1>10, <1>11, <2>1, <2>2, Zenon DEF Types
<1>13. Others(p)
  BY <1>3, <1>7, <1>10, <1>11, Zenon DEF Others, Same
<1>14. pc'[p] \in Counting /\ pc'[p] \notin Early /\ Final(p)' /\ ~Serving(p)' /\ Underway(p) /\ Serving(p)
  BY <1>3, <1>7, Zenon DEF Counting, Early, Asking, Final, Serving, Underway
<1>15. Staged(p)'
  BY <1>4, <1>5, <1>7, <1>14, Zenon DEF Staged, Early
<1>16. Known(p)'
  <2>1. tileState[p] \in {"missing", "old", "veryold", "current"}
    BY <1>14, Zenon DEF RequestInv, Staged, Types, TileState
  <2>2. h = "heuristic" => tile.ver \in seen[p] \/ fault[p]
    BY <1>2, <1>3, <1>14, <2>1, Zenon DEF RequestInv, Known, Outdated
  <2> QED
    BY <1>3, <1>10, <1>11, <1>14, <2>2, Zenon DEF RequestInv, Known
<1>17. Tallied(p)'
  <2>1. \A c \in RespCounter \cup {"read"} : tally[p][c] = 0
    BY <1>14, Zenon DEF RequestInv, Tallied
  <2>2. \A c \in RespCounter : tally'[p][c] = IF c = a THEN 1 ELSE 0
    BY <1>9, <2>1 DEF Counter, RespCounter
  <2>3. tally'[p]["read"] = 1
    BY <1>4, <1>9, <2>1, SMTT(30)
  <2>4. \A i \in DOMAIN todo'[p] : tally'[p][todo'[p][i]] > 0
    BY <1>4, <1>5, <1>7, <2>2, <2>3
  <2>5. \A c \in FreshCounter : c \in Counter /\ c \notin {"read", a}
    BY Zenon DEF Counter, FreshCounter
  <2>6. \A c \in FreshCounter : tally'[p][c] = tally[p][c]
    BY <1>9, <2>5, Zenon
  <2>7. Fresh(p)' = Fresh(p)
    BY <2>6, Zenon DEF Fresh
  <2>8. \A c, d \in Fresh(p)' : c = d /\ tally'[p][c] = 1
    BY <2>6, <2>7, Zenon DEF RequestInv, Tallied, Fresh
  <2>9. /\ Fresh(p) = {} => enable_bulk_mode /\ Outdated(p)
        /\ Fresh(p) \cap OldCounter # {} => Outdated(p)
    BY <1>14, Zenon DEF RequestInv, Tallied
  <2> QED
    BY <1>2, <1>3, <1>10, <1>14, <2>2, <2>4, <2>7, <2>8, <2>9, Zenon DEF Tallied
<1> QED
  BY <1>3, <1>12, <1>13, <1>15, <1>16, <1>17, Zenon DEF RequestInv, statVars

-----------------------------------------------------------------------------
(* What counting preserves *)

(* A step that leaves the tally and what comes after it alone.             *)
LEMMA CountingKeeps ==
    ASSUME Types, NEW p \in Req, RequestInv(p), pc[p] \in Counting, UNCHANGED apart,
           NEW l, pc' = [pc EXCEPT ![p] = l], NEW s, todo' = [todo EXCEPT ![p] = s],
           \/ l \in Counting /\ s = todo[p]
           \/ l = "count" /\ \E a \in RespCounter : todo[p] = <<"read", a>> /\ s = <<a>>
           \/ l = then[p] /\ s = <<>>
    PROVE  /\ pc' \in [Req -> Early \cup Counting \cup {"serve", "done"}]
           /\ todo' \in [Req -> Seq(Counter)]
           /\ Others(p) /\ RequestInv(p)'
PROOF
<1>1. UNCHANGED <<enable_bulk_mode, tile, tileState, resp, got, cache, then, tally, seen, gone, fault>>
  BY Zenon DEF apart, answerVars
<1>2. then[p] \in {"serve", "done"} /\ "count" \in Counting
  BY Zenon DEF Types, Counting
<1>3. pc' \in [Req -> Early \cup Counting \cup {"serve", "done"}] /\ Same(pc, pc', p) /\ pc'[p] = l
  BY <1>2, ZenonT(60) DEF Types, Same
<1>4. s \in Seq(Counter)
  <2>1. \A a \in RespCounter : <<a>> \in Seq(Counter)
    BY DEF Counter
  <2>2. todo[p] \in Seq(Counter) /\ <<>> \in Seq(Counter)
    BY DEF Types
  <2> QED
    BY <2>1, <2>2, Zenon
<1>5. todo' \in [Req -> Seq(Counter)] /\ Same(todo, todo', p) /\ todo'[p] = s
  BY <1>4, ZenonT(60) DEF Types, Same
<1>6. Others(p)
  BY <1>1, <1>3, <1>5, Zenon DEF Others, Same
<1>7. /\ l \in Counting \cup {"serve", "done"} /\ l # "translate" /\ l \notin Early
      /\ pc[p] \notin Early /\ Underway(p)
  BY <1>2, Zenon DEF Counting, Early, Asking, Underway
<1>8. (Serving(p)' <=> Serving(p)) /\ (Final(p)' <=> Final(p))
  <2>1. CASE l \in Counting
    BY <1>1, <1>3, <2>1, Zenon DEF Serving, Final, Counting
  <2>2. CASE l = then[p]
    BY <1>1, <1>2, <1>3, <2>2, Zenon DEF Serving, Final, Counting
  <2> QED
    BY <1>2, <2>1, <2>2, Zenon
<1>9. Staged(p)'
  <2>1. /\ l \notin Counting => s = <<>>
        /\ l \in Counting => \/ \E c \in Counter : s = <<c>>
                             \/ \E a \in RespCounter : s = <<"read", a>>
    <3>1. then[p] \notin Counting
      BY <1>2, Zenon DEF Counting
    <3>2. RespCounter \subseteq Counter
      BY Zenon DEF Counter
    <3> QED
      BY <1>2, <3>1, <3>2, Zenon DEF RequestInv, Staged
  <2>2. /\ ~Final(p)' => resp'[p] = "none" /\ got'[p] = NoVersion /\ cache'[p] = "none"
        /\ Serving(p)' => tileState'[p] # "unknown"
    BY <1>1, <1>8, Zenon DEF RequestInv, Staged
  <2>3. pc'[p] # "translate"
    BY <1>3, <1>7, Zenon
  <2> QED
    BY <1>3, <1>5, <2>1, <2>2, <2>3, Zenon DEF Staged
<1>10. Known(p)'
  BY <1>1, <1>7, Zenon DEF RequestInv, Known
<1>11. Tallied(p)'
  <2>1. \A i \in DOMAIN s : tally[p][s[i]] > 0
    <3>1. CASE s = todo[p]
      BY <3>1, Zenon DEF RequestInv, Tallied
    <3>2. CASE s = <<>>
      BY <3>2
    <3>3. ASSUME NEW a \in RespCounter, todo[p] = <<"read", a>>, s = <<a>> PROVE \A i \in DOMAIN s : tally[p][s[i]] > 0
      <4>1. 2 \in DOMAIN todo[p] /\ todo[p][2] = a
        BY <3>3
      <4>2. tally[p][a] > 0
        BY <4>1, Zenon DEF RequestInv, Tallied
      <4> QED
        BY <3>3, <4>2
    <3> QED
      BY <3>1, <3>2, <3>3, Zenon
  <2>2. Fresh(p)' = Fresh(p) /\ (Outdated(p)' <=> Outdated(p))
    BY <1>1, Zenon DEF Fresh, Outdated
  <2>3. /\ \A c, d \in Fresh(p)' : c = d /\ tally'[p][c] = 1
        /\ Serving(p)' => /\ \A c \in RespCounter \cup {"read"} : tally'[p][c] = 0
                          /\ Fresh(p)' = {} => enable_bulk_mode' /\ Outdated(p)'
                          /\ Fresh(p)' \cap OldCounter # {} => Outdated(p)'
    BY <1>1, <1>8, <2>2, Zenon DEF RequestInv, Tallied
  <2>4. Final(p)' => /\ \A c \in RespCounter : tally'[p][c] = IF c = resp'[p] THEN 1 ELSE 0
                     /\ resp'[p] = "503" => Fresh(p)' = {}
                     /\ got'[p] # NoVersion /\ Fresh(p)' = {} => enable_bulk_mode' /\ cache'[p] # "heuristic"
                     /\ cache'[p] = "heuristic" => Fresh(p)' \cap OldCounter = {}
    BY <1>1, <1>8, <2>2, Zenon DEF RequestInv, Tallied
  <2>5. pc'[p] \notin Early /\ \A i \in DOMAIN todo'[p] : tally'[p][todo'[p][i]] > 0
    BY <1>1, <1>3, <1>5, <1>7, <2>1, Zenon
  <2> QED
    BY <2>3, <2>4, <2>5, Zenon DEF Tallied
<1> QED
  BY <1>3, <1>5, <1>6, <1>9, <1>10, <1>11, Zenon DEF RequestInv

(* The next counter, or the end of counting.                               *)
LEMMA NextCounterKeeps ==
    ASSUME Types, NEW p \in Req, RequestInv(p), pc[p] \in Counting, UNCHANGED apart, NextCounter(p)
    PROVE  /\ pc' \in [Req -> Early \cup Counting \cup {"serve", "done"}]
           /\ todo' \in [Req -> Seq(Counter)]
           /\ Others(p) /\ RequestInv(p)'
           /\ pc'[p] \in {"count", "serve", "done"}
           /\ todo'[p] = Tail(todo[p])
PROOF
<1>1. /\ pc' = [pc EXCEPT ![p] = IF Len(todo[p]) = 1 THEN then[p] ELSE "count"]
      /\ todo' = [todo EXCEPT ![p] = Tail(todo[p])]
  BY Zenon DEF NextCounter, Goto
<1>2. pc'[p] \in {"count", "serve", "done"} /\ todo'[p] = Tail(todo[p])
  BY <1>1, Zenon DEF Types
<1>3. CASE \E c \in Counter : todo[p] = <<c>>
  <2>1. Tail(todo[p]) = <<>> /\ Len(todo[p]) = 1
    BY <1>3
  <2>2. pc' = [pc EXCEPT ![p] = then[p]] /\ todo' = [todo EXCEPT ![p] = <<>>]
    BY <1>1, <2>1, Zenon
  <2> QED
    BY <1>2, <2>2, CountingKeeps, Zenon
<1>4. CASE \E a \in RespCounter : todo[p] = <<"read", a>>
  <2>1. PICK a \in RespCounter : todo[p] = <<"read", a>>
    BY <1>4, Zenon
  <2>2. Tail(todo[p]) = <<a>> /\ Len(todo[p]) # 1
    BY <2>1
  <2>3. pc' = [pc EXCEPT ![p] = "count"] /\ todo' = [todo EXCEPT ![p] = <<a>>]
    BY <1>1, <2>2, Zenon
  <2> QED
    BY <1>2, <2>1, <2>3, CountingKeeps, Zenon
<1> QED
  BY <1>3, <1>4, Zenon DEF RequestInv, Staged

(* The steps of counting, in terms of the request and the lock.            *)
Locks(p) == /\ pc[p] = "count" /\ pc'[p] = "bump" /\ mutex = Free /\ mutex' = p
            /\ UNCHANGED <<stats, todo>>
GivesUp(p) == /\ pc[p] = "count" /\ pc'[p] \in {"count", "serve", "done"}
              /\ todo'[p] = Tail(todo[p]) /\ UNCHANGED <<stats, mutex>>
Totals(p) == /\ pc[p] = "bump" /\ pc'[p] = "detail"
             /\ stats' = [stats EXCEPT ![Head(todo[p])] = @ + 1] /\ UNCHANGED <<mutex, todo>>
Details(p) == /\ pc[p] = "detail" /\ pc'[p] \in {"count", "serve", "done"}
              /\ stats' = [c \in Counter \cup Detail |->
                              IF c \in DetailOf(Head(todo[p])) THEN stats[c] + 1 ELSE stats[c]]
              /\ todo'[p] = Tail(todo[p]) /\ mutex' = Free
Counts(p) == Locks(p) \/ GivesUp(p) \/ Totals(p) \/ Details(p)

(* The counter a request is at. *)
LEMMA HeadIsCounter ==
    ASSUME Types, NEW p \in Req, Staged(p), pc[p] \in Counting
    PROVE  Head(todo[p]) \in Counter /\ todo[p] # <<>>
PROOF
<1>1. CASE \E c \in Counter : todo[p] = <<c>>
  BY <1>1
<1>2. CASE \E a \in RespCounter : todo[p] = <<"read", a>>
  BY <1>2 DEF Counter
<1> QED
  BY <1>1, <1>2, Zenon DEF Staged

(* Counting keeps what is said of the requests.                            *)
LEMMA CountKeeps ==
    ASSUME Types, NEW p \in Req, RequestInv(p), Count(p)
    PROVE  Types' /\ Others(p) /\ RequestInv(p)' /\ UNCHANGED <<fd, copy, tally>> /\ Counts(p)
PROOF
<1>1. /\ UNCHANGED <<enable_bulk_mode, tile, tileState, fd, resp, got, cache, then, tally, seen, gone, fault, copy>>
      /\ UNCHANGED apart
  BY Zenon DEF Count, LockStats, NotCounted, Bump, BumpDetail, apart, answerVars, rendVars, statVars
<1> DEFINE Rest == /\ pc' \in [Req -> Early \cup Counting \cup {"serve", "done"}]
                   /\ todo' \in [Req -> Seq(Counter)]
                   /\ Others(p) /\ RequestInv(p)'
                   /\ mutex' \in Req \cup Page \cup {Free}
                   /\ stats' \in [Counter \cup Detail -> Nat]
                   /\ Counts(p)
<1>2. ASSUME NEW l \in Counting, pc[p] \in Counting, Goto(p, l), UNCHANGED todo
      PROVE  /\ pc' \in [Req -> Early \cup Counting \cup {"serve", "done"}] /\ pc'[p] = l
             /\ todo' \in [Req -> Seq(Counter)]
             /\ Others(p) /\ RequestInv(p)'
  <2>1. pc' = [pc EXCEPT ![p] = l] /\ todo' = [todo EXCEPT ![p] = todo[p]] /\ pc'[p] = l
    BY <1>2, Zenon DEF Goto, Types
  <2> QED
    BY <1>1, <1>2, <2>1, CountingKeeps, Zenon
<1>3. {"count", "bump", "detail"} = Counting
  BY Zenon DEF Counting
<1>4. ASSUME LockStats(p) PROVE Rest
  <2>1. /\ pc[p] = "count" /\ mutex = Free /\ mutex' = p /\ Goto(p, "bump") /\ UNCHANGED <<todo, stats>>
    BY <1>4, Zenon DEF LockStats
  <2> QED
    BY <1>2, <1>3, <2>1, Zenon DEF Counts, Locks, Types
<1>5. ASSUME NotCounted(p) PROVE Rest
  <2>1. pc[p] = "count" /\ NextCounter(p) /\ UNCHANGED <<mutex, stats>>
    BY <1>5, Zenon DEF NotCounted, statVars
  <2> QED
    BY <1>1, <1>3, <2>1, NextCounterKeeps, Zenon DEF Counts, GivesUp, Types
<1>6. ASSUME Bump(p) PROVE Rest
  <2>1. /\ pc[p] = "bump" /\ Goto(p, "detail") /\ UNCHANGED <<todo, mutex>>
        /\ stats' = [stats EXCEPT ![Head(todo[p])] = @ + 1]
    BY <1>6, Zenon DEF Bump
  <2>2. stats' \in [Counter \cup Detail -> Nat]
    <3>1. Head(todo[p]) \in Counter
      BY <1>3, <2>1, HeadIsCounter, Zenon DEF RequestInv
    <3>2. stats \in [Counter \cup Detail -> Nat]
      BY Zenon DEF Types
    <3> QED
      BY <2>1, <3>1, <3>2
  <2> QED
    BY <1>2, <1>3, <2>1, <2>2, Zenon DEF Counts, Totals, Types
<1>7. ASSUME BumpDetail(p) PROVE Rest
  <2>1. /\ pc[p] = "detail" /\ NextCounter(p) /\ mutex' = Free
        /\ stats' = [c \in Counter \cup Detail |->
                        IF c \in DetailOf(Head(todo[p])) THEN stats[c] + 1 ELSE stats[c]]
    BY <1>7, Zenon DEF BumpDetail, Types
  <2>2. stats' \in [Counter \cup Detail -> Nat]
    BY <2>1 DEF Types
  <2> QED
    BY <1>1, <1>3, <2>1, <2>2, NextCounterKeeps, Zenon DEF Counts, Details, Types
<1>8. Rest
  BY <1>4, <1>5, <1>6, <1>7, Zenon DEF Count
<1>9. Types'
  BY <1>1, <1>8, Zenon DEF Types
<1> QED
  BY <1>1, <1>8, <1>9, Zenon

-----------------------------------------------------------------------------
(* The lock and the balance of the statistics *)

(* A request that is not between the two parts of a counter owes nothing.  *)
LEMMA OwedKept ==
    ASSUME NEW p \in Req, Others(p), pc[p] # "detail", pc'[p] # "detail"
    PROVE  \A d : Owed(d)' = Owed(d)
PROOF
<1>1. \A r \in Req : (pc'[r] = "detail") <=> (pc[r] = "detail")
  BY Zenon DEF Others, Same
<1>2. \A r \in Req : pc[r] = "detail" => todo'[r] = todo[r]
  BY Zenon DEF Others, Same
<1>3. ASSUME NEW d
      PROVE  (\E r \in Req : pc'[r] = "detail" /\ d \in DetailOf(Head(todo'[r])))
               <=> (\E r \in Req : pc[r] = "detail" /\ d \in DetailOf(Head(todo[r])))
  BY <1>1, <1>2, Zenon
<1> QED
  BY <1>3, Zenon DEF Owed

(* Only the holder of the lock owes anything.                              *)
LEMMA OwedByHolder ==
    ASSUME NothingHeld
    PROVE  /\ mutex \notin Req => \A d : Owed(d) = 0
           /\ \A p \in Req : mutex = p /\ pc[p] # "detail" => \A d : Owed(d) = 0
           /\ \A p \in Req : mutex = p /\ pc[p] = "detail" =>
                 \A d : Owed(d) = IF d \in DetailOf(Head(todo[p])) THEN 1 ELSE 0
PROOF
<1>1. \A r \in Req : pc[r] = "detail" => mutex = r
  BY Zenon DEF NothingHeld
<1>2. mutex \notin Req => \A d : Owed(d) = 0
  BY <1>1, Zenon DEF Owed
<1>3. \A p \in Req : mutex = p /\ pc[p] # "detail" => \A d : Owed(d) = 0
  BY <1>1, Zenon DEF Owed
<1>4. ASSUME NEW p \in Req, mutex = p, pc[p] = "detail", NEW d
      PROVE  Owed(d) = IF d \in DetailOf(Head(todo[p])) THEN 1 ELSE 0
  BY <1>1, <1>4, Zenon DEF Owed
<1> QED
  BY <1>2, <1>3, <1>4, Zenon

(* So it is after a step.                                                  *)
LEMMA OwedByHolderNext ==
    ASSUME NothingHeld'
    PROVE  /\ mutex' \notin Req => \A d : Owed(d)' = 0
           /\ \A p \in Req : mutex' = p /\ pc'[p] = "detail" =>
                 \A d : Owed(d)' = IF d \in DetailOf(Head(todo'[p])) THEN 1 ELSE 0
PROOF
<1>1. \A r \in Req : pc'[r] = "detail" => mutex' = r
  BY Zenon DEF NothingHeld
<1>2. mutex' \notin Req => \A d : Owed(d)' = 0
  BY <1>1, Zenon DEF Owed
<1>3. ASSUME NEW p \in Req, mutex' = p, pc'[p] = "detail", NEW d
      PROVE  Owed(d)' = IF d \in DetailOf(Head(todo'[p])) THEN 1 ELSE 0
  BY <1>1, <1>3, Zenon DEF Owed
<1> QED
  BY <1>2, <1>3, Zenon

(* What a counter is split into.                                           *)
LEMMA DetailFacts ==
    ASSUME NEW c \in Counter
    PROVE  /\ "zoom" \in DetailOf(c) <=> c \in {"200", "304"}
           /\ "layer200" \in DetailOf(c) <=> c \in {"200", "304"}
           /\ "layer404" \in DetailOf(c) <=> c = "404"
           /\ "zoomRead" \in DetailOf(c) <=> c = "read"
           /\ DetailOf(c) \subseteq Detail
           /\ c \notin Detail
PROOF
  BY Zenon DEF DetailOf, Detail, Counter, RespCounter, FreshCounter

(* Counting keeps the lock and the balance.                                *)
LEMMA CountBalanced ==
    ASSUME Types, NothingHeld, PagesLock, Balanced, Copied, StatsConsistent,
           NEW p \in Req, Staged(p), Others(p), Counts(p), UNCHANGED <<fd, copy>>
    PROVE  NothingHeld' /\ PagesLock' /\ Balanced' /\ Copied' /\ StatsConsistent'
PROOF
<1>1. \A r \in Req : r # p => pc'[r] = pc[r]
  BY Zenon DEF Others, Same
<1>2. p \notin Page /\ p # Free /\ \A q \in Page : q # Free
  BY TileServeAssumption, Zenon
<1>3. NothingHeld'
  <2> SUFFICES ASSUME NEW r \in Req
               PROVE  /\ fd'[r] <=> pc'[r] \in {"send", "wait"}
                      /\ mutex' = r <=> pc'[r] \in {"bump", "detail"}
    BY Zenon DEF NothingHeld
  <2>1. r # Free /\ fd' = fd
    BY TileServeAssumption, Zenon
  <2>2. /\ fd[r] <=> pc[r] \in {"send", "wait"}
        /\ mutex = r <=> pc[r] \in {"bump", "detail"}
        /\ mutex = p <=> pc[p] \in {"bump", "detail"}
    BY Zenon DEF NothingHeld
  <2>3. CASE r = p
    BY <1>2, <2>1, <2>2, <2>3, Zenon DEF Counts, Locks, GivesUp, Totals, Details
  <2>4. CASE r # p
    BY <1>1, <1>2, <2>1, <2>2, <2>4, Zenon DEF Counts, Locks, GivesUp, Totals, Details
  <2> QED
    BY <2>3, <2>4, Zenon
<1>4. PagesLock'
  BY <1>2, Zenon DEF PagesLock, NothingHeld, Counts, Locks, GivesUp, Totals, Details
<1>5. StatsConsistent'
  BY Zenon DEF StatsConsistent
<1>6. Copied'
  <2>1. stats' # stats => mutex = p
    BY Zenon DEF NothingHeld, Counts, Locks, GivesUp, Totals, Details
  <2> QED
    BY <1>2, <2>1, Zenon DEF Copied, PagesLock
<1>7. Balanced'
  <2>1. CASE Locks(p) \/ GivesUp(p)
    <3>1. \A d : Owed(d)' = Owed(d)
      BY <2>1, OwedKept, Zenon DEF Locks, GivesUp
    <3>2. stats' = stats
      BY <2>1, Zenon DEF Locks, GivesUp
    <3> QED
      BY <3>1, <3>2, Zenon DEF Balanced
  <2>2. CASE Totals(p)
    <3>1. PICK c \in Counter : c = Head(todo[p])
      BY <2>2, HeadIsCounter, Zenon DEF Totals, Counting
    <3>2. pc[p] = "bump" /\ pc'[p] = "detail" /\ mutex = p /\ mutex' = p /\ todo' = todo
          /\ stats' = [stats EXCEPT ![c] = @ + 1]
      BY <2>2, <3>1, Zenon DEF Totals, NothingHeld
    <3>3. \A d : Owed(d) = 0
      BY <3>2, OwedByHolder, Zenon
    <3>4. \A d : Owed(d)' = IF d \in DetailOf(c) THEN 1 ELSE 0
      BY <1>3, <3>1, <3>2, OwedByHolderNext, Zenon
    <3>5. stats \in [Counter \cup Detail -> Nat]
      BY Zenon DEF Types
    <3>6. \A d \in {"zoom", "layer200", "layer404", "zoomRead"} : stats'[d] = stats[d]
      BY <3>2, <3>5, DetailFacts, Zenon DEF Detail
    <3>7. \A d \in {"200", "304", "404", "read"} : stats'[d] = IF d = c THEN stats[d] + 1 ELSE stats[d]
      BY <3>2, <3>5, Zenon DEF Counter, RespCounter
    <3>8. \A d \in {"200", "304", "404", "read", "zoom", "layer200", "layer404", "zoomRead"} : stats[d] \in Nat
      BY <3>5, Zenon DEF Counter, RespCounter, Detail
    <3> QED
      BY <3>3, <3>4, <3>6, <3>7, <3>8, DetailFacts DEF Balanced
  <2>3. CASE Details(p)
    <3>1. PICK c \in Counter : c = Head(todo[p])
      BY <2>3, HeadIsCounter, Zenon DEF Details, Counting
    <3>2. pc[p] = "detail" /\ mutex = p /\ mutex' = Free
          /\ stats' = [d \in Counter \cup Detail |-> IF d \in DetailOf(c) THEN stats[d] + 1 ELSE stats[d]]
      BY <2>3, <3>1, Zenon DEF Details, NothingHeld
    <3>3. \A d : Owed(d)' = 0
      BY <1>3, <3>2, OwedByHolderNext, TileServeAssumption, Zenon
    <3>4. \A d : Owed(d) = IF d \in DetailOf(c) THEN 1 ELSE 0
      BY <3>1, <3>2, OwedByHolder, Zenon
    <3>5. stats \in [Counter \cup Detail -> Nat]
      BY Zenon DEF Types
    <3>6. \A d \in {"200", "304", "404", "read"} : stats'[d] = stats[d]
      BY <3>2, DetailFacts, Zenon DEF Counter, RespCounter, Detail
    <3>7. \A d \in {"zoom", "layer200", "layer404", "zoomRead"} :
             stats'[d] = IF d \in DetailOf(c) THEN stats[d] + 1 ELSE stats[d]
      BY <3>2, Zenon DEF Detail
    <3>8. \A d \in {"200", "304", "404", "read", "zoom", "layer200", "layer404", "zoomRead"} : stats[d] \in Nat
      BY <3>5, Zenon DEF Counter, RespCounter, Detail
    <3> QED
      BY <3>3, <3>4, <3>6, <3>7, <3>8 DEF Balanced
  <2> QED
    BY <2>1, <2>2, <2>3, Zenon DEF Counts
<1> QED
  BY <1>3, <1>4, <1>5, <1>6, <1>7, Zenon

(* A step outside the lock keeps them.                                     *)
LEMMA UnlockedBalanced ==
    ASSUME NothingHeld, PagesLock, Balanced, Copied, StatsConsistent,
           NEW p \in Req, Others(p), Socket(p), UNCHANGED statVars,
           pc[p] \notin {"bump", "detail"}, pc'[p] \notin {"bump", "detail"}
    PROVE  NothingHeld' /\ PagesLock' /\ Balanced' /\ Copied' /\ StatsConsistent'
PROOF
<1>1. mutex' = mutex /\ stats' = stats /\ copy' = copy
  BY Zenon DEF statVars
<1>2. NothingHeld'
  <2>1. \A r \in Req : r # p => pc'[r] = pc[r] /\ fd'[r] = fd[r]
    BY Zenon DEF Others, Socket, Same
  <2>2. fd'[p] <=> pc'[p] \in {"send", "wait"}
    BY Zenon DEF Socket
  <2> QED
    BY <1>1, <2>1, <2>2, Zenon DEF NothingHeld
<1>3. \A d : Owed(d)' = Owed(d)
  BY OwedKept, Zenon
<1>4. Balanced'
  BY <1>1, <1>3, Zenon DEF Balanced
<1> QED
  BY <1>1, <1>2, <1>4, Zenon DEF PagesLock, Copied, StatsConsistent

(* Serving the tile is such a step.                                        *)
LEMMA ServesTileSocket ==
    ASSUME Types, NothingHeld, NEW p \in Req, ServesTile(p)
    PROVE  Socket(p) /\ pc[p] \notin {"bump", "detail"} /\ pc'[p] \notin {"bump", "detail"}
PROOF
<1>1. pc[p] = "serve" /\ fd' = fd /\ pc'[p] = "count"
  BY Zenon DEF ServesTile, CountThen, Goto, rendVars, Types
<1>2. ~fd[p]
  BY <1>1, Zenon DEF NothingHeld
<1> QED
  BY <1>1, <1>2, Zenon DEF Socket, Same, Types

(* So is every move.                                                       *)
LEMMA MovesOutsideLock ==
    ASSUME Types, NEW p \in Req, Moves(p)
    PROVE  pc[p] \notin Counting /\ pc'[p] \notin {"bump", "detail"}
PROOF
<1>1. ASSUME pc[p] \in Early \cup {"serve"} PROVE pc[p] \notin Counting
  BY <1>1, Zenon DEF Early, Asking, Counting
<1>2. ASSUME pc'[p] \in Early \cup {"serve", "done", "count"} PROVE pc'[p] \notin {"bump", "detail"}
  BY <1>2, Zenon DEF Early, Asking
<1>3. ASSUME NEW cs, NEW l, CountThen(p, cs, l) PROVE pc'[p] = "count"
  BY <1>3, Zenon DEF CountThen, Goto, Types
<1>4. CASE Walks(p)
  BY <1>1, <1>2, <1>4, Zenon DEF Walks
<1>5. CASE Freshens(p)
  BY <1>1, <1>2, <1>3, <1>5, Zenon DEF Freshens
<1>6. CASE Answers(p)
  BY <1>1, <1>2, <1>3, <1>6, Zenon DEF Answers, Answer
<1>7. CASE Ends(p)
  <2>1. pc'[p] = "done"
    BY <1>7, Zenon DEF Ends, AnswerUncounted, Goto, Types
  <2> QED
    BY <1>1, <1>2, <1>7, <2>1, Zenon DEF Ends
<1> QED
  BY <1>4, <1>5, <1>6, <1>7, Zenon DEF Moves

-----------------------------------------------------------------------------
(* The counters against the requests *)

(* A request is never tallied twice for one counter.                       *)
LEMMA CountsTheNew ==
    ASSUME Types, NEW p \in Req, RequestInv(p), Moves(p) \/ ServesTile(p)
    PROVE  /\ todo[p] = <<>> /\ todo'[p] \in Seq(Counter)
           /\ \A i \in DOMAIN todo'[p] : tally[p][todo'[p][i]] = 0
           /\ \A c \in Counter : tally[p][c] > 0 => tally'[p][c] > 0
PROOF
<1>1. Types'
  BY MovesTypes, ServesTileKeeps, Zenon
<1>2. /\ todo'[p] \in Seq(Counter) /\ \A c \in Counter : tally[p][c] \in Nat /\ tally'[p][c] \in Nat
  BY <1>1 DEF Types
<1>3. pc[p] \in Early \cup {"serve"}
  BY Zenon DEF Moves, Walks, Freshens, Answers, Ends, ServesTile
<1>4. /\ pc[p] \notin Counting /\ (pc[p] \in Early \/ Serving(p))
  BY <1>3, Zenon DEF Early, Asking, Counting, Serving
<1>5. /\ todo[p] = <<>>
      /\ pc[p] \in Early => \A c \in Counter : tally[p][c] = 0
      /\ \A c \in RespCounter \cup {"read"} : tally[p][c] = 0
  <2>1. \A c \in RespCounter \cup {"read"} : c \in Counter
    BY Zenon DEF Counter
  <2> QED
    BY <1>4, <2>1, Zenon DEF RequestInv, Staged, Tallied
<1>6. CASE UNCHANGED countVars
  <2>1. todo'[p] = <<>> /\ tally' = tally
    BY <1>5, <1>6, Zenon DEF countVars
  <2> QED
    BY <1>2, <1>5, <2>1
<1>7. ASSUME NEW cs \in Seq(Counter), NEW l \in {"serve", "done"}, CountThen(p, cs, l),
             \A i \in DOMAIN cs : tally[p][cs[i]] = 0
      PROVE  /\ \A i \in DOMAIN todo'[p] : tally[p][todo'[p][i]] = 0
             /\ \A c \in Counter : tally[p][c] > 0 => tally'[p][c] > 0
  <2>1. /\ todo'[p] = cs
        /\ \A c \in Counter : tally'[p][c] = IF c \in Among(cs) THEN tally[p][c] + 1 ELSE tally[p][c]
    BY <1>7, CountThenFacts
  <2> QED
    BY <1>2, <1>7, <2>1, SMTT(30)
<1>8. CASE Freshens(p)
  <2>1. PICK c \in FreshCounter : CountThen(p, <<c>>, "serve")
    BY <1>8, Zenon DEF Freshens
  <2>2. c \in Counter /\ pc[p] \in Early
    BY <1>8, Zenon DEF Freshens, Counter
  <2>3. <<c>> \in Seq(Counter) /\ \A i \in DOMAIN <<c>> : tally[p][<<c>>[i]] = 0
    BY <1>5, <2>2
  <2> QED
    BY <1>2, <1>5, <1>7, <2>1, <2>3, Zenon
<1>9. CASE Answers(p)
  <2>1. PICK a \in {"404", "503", "5XX"} : CountThen(p, <<a>>, "done")
    BY <1>9, Zenon DEF Answers, Answer
  <2>2. a \in RespCounter /\ a \in Counter
    BY Zenon DEF RespCounter, Counter
  <2>3. <<a>> \in Seq(Counter) /\ \A i \in DOMAIN <<a>> : tally[p][<<a>>[i]] = 0
    BY <1>5, <2>2
  <2> QED
    BY <1>2, <1>5, <1>7, <2>1, <2>3, Zenon
<1>10. CASE ServesTile(p)
  <2>1. PICK a \in {"200", "304", "other"} : CountThen(p, <<"read", a>>, "done")
    BY <1>10, Zenon DEF ServesTile
  <2>2. a \in RespCounter /\ a \in Counter /\ "read" \in Counter
    BY Zenon DEF RespCounter, Counter
  <2>3. <<"read", a>> \in Seq(Counter) /\ \A i \in DOMAIN <<"read", a>> : tally[p][<<"read", a>>[i]] = 0
    BY <1>5, <2>2
  <2> QED
    BY <1>2, <1>5, <1>7, <2>1, <2>3, Zenon
<1> QED
  BY <1>6, <1>8, <1>9, <1>10, Zenon DEF Moves, Walks, Ends, AnswerUncounted

(* What a step of p does to the requests that are done with a counter.     *)
LEMMA OthersDone ==
    ASSUME NEW p \in Req, Others(p), NEW c \in Counter, p \in DoneWith(c) => p \in DoneWith(c)'
    PROVE  DoneWith(c) \subseteq DoneWith(c)'
PROOF
<1>1. \A r \in Req : r # p => pc'[r] = pc[r] /\ todo'[r] = todo[r] /\ tally'[r] = tally[r]
  BY Zenon DEF Others, Same
<1>2. \A r \in Req : r # p => (Pending(r, c)' <=> Pending(r, c))
  BY <1>1, Zenon DEF Pending
<1> QED
  BY <1>1, <1>2, Zenon DEF DoneWith

(* Once done with a counter a request stays done with it.                  *)
LEMMA DoneWithGrows ==
    ASSUME Types, NEW p \in Req, RequestInv(p), Others(p),
           \/ Moves(p) \/ ServesTile(p)
           \/ Counts(p) /\ UNCHANGED tally,
           NEW c \in Counter
    PROVE  DoneWith(c) \subseteq DoneWith(c)'
PROOF
<1> SUFFICES ASSUME p \in DoneWith(c) PROVE p \in DoneWith(c)'
  BY OthersDone, Zenon
<1>1. tally[p][c] > 0 /\ ~Pending(p, c)
  BY Zenon DEF DoneWith
<1>2. tally[p][c] \in Nat
  BY DEF Types
<1>3. CASE Moves(p) \/ ServesTile(p)
  <2>1. tally'[p][c] > 0 /\ \A i \in DOMAIN todo'[p] : tally[p][todo'[p][i]] = 0
    BY <1>1, <1>3, CountsTheNew, ZenonT(60)
  <2>2. ~Pending(p, c)'
    <3>1. tally[p][c] # 0
      BY <1>1, <1>2
    <3> QED
      BY <2>1, <3>1, Zenon DEF Pending
  <2> QED
    BY <2>1, <2>2, Zenon DEF DoneWith
<1>4. CASE Counts(p) /\ UNCHANGED tally
  <2>1. pc[p] \in Counting
    BY <1>4, Zenon DEF Counts, Locks, GivesUp, Totals, Details, Counting
  <2>2. PICK s : s = todo[p] /\ ((\E d \in Counter : s = <<d>>) \/ (\E a \in RespCounter : s = <<"read", a>>))
    BY <2>1, Zenon DEF RequestInv, Staged
  <2>3. \A i \in DOMAIN Tail(s) : i + 1 \in DOMAIN s /\ i + 1 # 1 /\ s[i + 1] = Tail(s)[i]
    <3>1. ASSUME NEW d \in Counter, s = <<d>> PROVE DOMAIN Tail(s) = {}
      BY <3>1
    <3>2. ASSUME NEW a \in RespCounter, s = <<"read", a>>
          PROVE  DOMAIN Tail(s) = {1} /\ 2 \in DOMAIN s /\ s[2] = Tail(s)[1]
      BY <3>2
    <3> QED
      BY <2>2, <3>1, <3>2
  <2>4. CASE Locks(p) \/ Totals(p)
    <3>1. pc[p] # "detail" /\ todo' = todo
      BY <2>4, Zenon DEF Locks, Totals
    <3> QED
      BY <1>1, <1>4, <3>1, Zenon DEF DoneWith, Pending
  <2>5. CASE GivesUp(p) \/ Details(p)
    <3>1. pc'[p] # "detail" /\ todo'[p] = Tail(s)
      BY <2>2, <2>5, Zenon DEF GivesUp, Details
    <3>2. ASSUME NEW i \in DOMAIN Tail(s), Tail(s)[i] = c PROVE FALSE
      <4>1. i + 1 \in DOMAIN s /\ s[i + 1] = c /\ i + 1 # 1
        BY <2>3, <3>2, Zenon
      <4> QED
        BY <1>1, <2>2, <4>1, Zenon DEF Pending
    <3>3. ~Pending(p, c)'
      BY <3>1, <3>2, Zenon DEF Pending
    <3> QED
      BY <1>1, <1>4, <3>3, Zenon DEF DoneWith
  <2> QED
    BY <1>4, <2>4, <2>5, Zenon DEF Counts
<1> QED
  BY <1>3, <1>4, Zenon

-----------------------------------------------------------------------------
(* The store, renderd and the statistics pages *)

(* The tile becomes readable again only by being rendered, which makes it  *)
(* current while every request underway sees it.                           *)
LEMMA ChangeKeeps ==
    ASSUME Types, NEW new \in [ver: Nat, state: TileState], Change(new),
           new.ver = tile.ver \/ new.state = "current",
           tile.state = "missing" => new.state \in {"missing", "current"},
           NEW p \in Req, RequestInv(p)
    PROVE  RequestInv(p)'
PROOF
<1>1. /\ UNCHANGED <<enable_bulk_mode, pc, tileState, todo, then, tally, resp, got, cache>>
      /\ tile' = new
      /\ seen'[p] = IF Underway(p) /\ new.state = "current" THEN seen[p] \cup {new.ver} ELSE seen[p]
      /\ gone'[p] = (gone[p] \/ (Underway(p) /\ new.state = "missing")) /\ fault' = fault
  BY Zenon DEF Change, countVars, answerVars
<1>2. Staged(p)'
  BY <1>1, Zenon DEF RequestInv, Staged, Serving, Final
<1>3. Tallied(p)'
  <2>1. Fresh(p)' = Fresh(p) /\ (Serving(p)' <=> Serving(p)) /\ (Final(p)' <=> Final(p)) /\ (Outdated(p)' <=> Outdated(p))
    BY <1>1, Zenon DEF Fresh, Serving, Final, Outdated
  <2> QED
    BY <1>1, <2>1, Zenon DEF RequestInv, Tallied
<1>4. /\ seen[p] \subseteq seen'[p] /\ (gone[p] => gone'[p])
      /\ Underway(p) /\ new.state = "current" => new.ver \in seen'[p]
      /\ Underway(p) /\ new.state = "missing" => gone'[p]
      /\ Underway(p)' <=> Underway(p)
  BY <1>1, Zenon DEF Underway
<1>5. Known(p)'
  BY <1>1, <1>4, Zenon DEF RequestInv, Known
<1> QED
  BY <1>2, <1>3, <1>5, Zenon DEF RequestInv

(* What ServeInv says of all but the counters' bounds.                     *)
PlainInv ==
    /\ Types
    /\ NothingHeld /\ PagesLock
    /\ \A p \in Req : RequestInv(p)
    /\ Balanced /\ Copied /\ StatsConsistent

(* The store changes.                                                      *)
LEMMA StoreKeeps ==
    ASSUME PlainInv, Rendered \/ Expired \/ Aged \/ Deleted
    PROVE  PlainInv' /\ UNCHANGED <<stats, tally, todo, pc>>
PROOF
<1>1. tile \in [ver: Nat, state: TileState] /\ Types
  BY Zenon DEF PlainInv, Types
<1>2. PICK new \in [ver: Nat, state: TileState] :
         /\ Change(new)
         /\ new.ver = tile.ver \/ new.state = "current"
         /\ tile.state = "missing" => new.state \in {"missing", "current"}
  <2>1. CASE Rendered
    <3>1. [ver |-> tile.ver + 1, state |-> "current"] \in [ver: Nat, state: TileState]
      BY <1>1 DEF TileState
    <3> QED
      BY <2>1, <3>1, Zenon DEF Rendered
  <2>2. ASSUME NEW s \in TileState, Change([tile EXCEPT !.state = s]),
               tile.state = "missing" => s = "missing"
        PROVE  \E new \in [ver: Nat, state: TileState] :
                  /\ Change(new)
                  /\ new.ver = tile.ver \/ new.state = "current"
                  /\ tile.state = "missing" => new.state \in {"missing", "current"}
    <3>1. PICK new : new = [tile EXCEPT !.state = s]
      BY Zenon
    <3>2. new \in [ver: Nat, state: TileState] /\ new.ver = tile.ver /\ new.state = s
      BY <1>1, <3>1, Zenon
    <3> QED
      BY <2>2, <3>1, <3>2, Zenon
  <2>3. {"old", "veryold", "missing"} \subseteq TileState
    BY Zenon DEF TileState
  <2> QED
    BY <2>1, <2>2, <2>3, Zenon DEF Expired, Aged, Deleted
<1>3. UNCHANGED <<enable_bulk_mode, pc, tileState, fd, todo, then, tally, resp, got, cache, mutex, stats, copy>>
  BY <1>2, Zenon DEF Change, countVars, answerVars, rendVars, statVars
<1>4. tile' = new /\ seen' \in [Req -> SUBSET Nat]
  BY <1>1, <1>2 DEF Change, Types
<1>5. gone' \in [Req -> BOOLEAN] /\ fault' \in [Req -> BOOLEAN]
  BY <1>1, <1>2, Zenon DEF Change, Types
<1>6. Types'
  BY <1>1, <1>3, <1>4, <1>5, Zenon DEF Types
<1>7. \A p \in Req : RequestInv(p)'
  BY <1>1, <1>2, ChangeKeeps, Zenon DEF PlainInv
<1>8. NothingHeld' /\ PagesLock' /\ Copied' /\ StatsConsistent'
  BY <1>3, ZenonT(60) DEF PlainInv, NothingHeld, PagesLock, Copied, StatsConsistent
<1>9. Balanced'
  BY <1>3, Zenon DEF PlainInv, Balanced, Owed
<1> QED
  BY <1>3, <1>6, <1>7, <1>8, <1>9, Zenon DEF PlainInv

(* A step that leaves a request and the tile alone.                        *)
LEMMA RequestKept ==
    ASSUME NEW p \in Req, RequestInv(p),
           UNCHANGED <<enable_bulk_mode, tile, pc, tileState, todo, then, tally, resp, got, cache, seen, gone, fault>>
    PROVE  RequestInv(p)'
PROOF
<1>1. Staged(p)' /\ Known(p)'
  BY Zenon DEF RequestInv, Staged, Known, Serving, Final, Underway
<1>2. Fresh(p)' = Fresh(p) /\ (Serving(p)' <=> Serving(p)) /\ (Final(p)' <=> Final(p)) /\ (Outdated(p)' <=> Outdated(p))
  BY Zenon DEF Fresh, Serving, Final, Outdated
<1>3. Tallied(p)
  BY Zenon DEF RequestInv
<1>4. Tallied(p)'
  BY <1>2, <1>3, Zenon DEF Tallied
<1> QED
  BY <1>1, <1>4, Zenon DEF RequestInv

(* What renderd sends, and a step that changes nothing, leaves all of it.  *)
LEMMA WireKeeps ==
    ASSUME PlainInv,
           UNCHANGED <<enable_bulk_mode, tile, pc, tileState, fd, todo, then, tally, resp, got, cache,
                       mutex, stats, copy, seen, gone, fault>>
    PROVE  PlainInv'
PROOF
<1>1. Types'
  BY Zenon DEF PlainInv, Types
<1>2. \A p \in Req : RequestInv(p)'
  BY RequestKept, Zenon DEF PlainInv
<1>3. NothingHeld' /\ PagesLock' /\ Copied' /\ StatsConsistent'
  BY ZenonT(60) DEF PlainInv, NothingHeld, PagesLock, Copied, StatsConsistent
<1>4. Balanced'
  BY Zenon DEF PlainInv, Balanced, Owed
<1> QED
  BY <1>1, <1>2, <1>3, <1>4, Zenon DEF PlainInv

(* The steps of a page, by what they do to its copy.                       *)
LEMMA PageSteps ==
    ASSUME Types, Copied, NEW q \in Page, StatsPage(q)
    PROVE  \E rec : /\ copy' = [copy EXCEPT ![q] = rec]
                    /\ rec \in [at: PageState, of: {<<>>} \cup [Struct -> Nat] \cup [Counter \cup Detail -> Nat]]
                    /\ \/ /\ copy[q].at = "none" /\ rec.at = "locked" /\ mutex = Free /\ mutex' = q
                       \/ /\ copy[q].at = "locked" /\ rec.at = "struct" /\ mutex' = mutex
                          /\ rec.of = [c \in Struct |-> stats[c]]
                       \/ /\ copy[q].at = "struct" /\ rec.at = "copied" /\ mutex' = Free
                          /\ rec.of = stats
                       \/ /\ copy[q].at = "none" /\ rec.at = "undefined" /\ mutex' = mutex
PROOF
<1>1. /\ copy \in [Page -> [at: PageState, of: {<<>>} \cup [Struct -> Nat] \cup [Counter \cup Detail -> Nat]]]
      /\ stats \in [Counter \cup Detail -> Nat] /\ DOMAIN stats = Counter \cup Detail
  BY Zenon DEF Types
<1>2. copy[q] \in [at: PageState, of: {<<>>} \cup [Struct -> Nat] \cup [Counter \cup Detail -> Nat]]
  BY <1>1, Zenon
<1>3. PageState = {"none", "undefined", "locked", "struct", "copied"} /\ Struct = (Counter \cup Detail) \ LayerArray
  BY Zenon DEF PageState, Struct
<1>4. ASSUME NEW l \in PageState, copy' = [copy EXCEPT ![q].at = l]
      PROVE  \E rec : /\ copy' = [copy EXCEPT ![q] = rec]
                      /\ rec \in [at: PageState, of: {<<>>} \cup [Struct -> Nat] \cup [Counter \cup Detail -> Nat]]
                      /\ rec.at = l
  <2>1. PICK rec : rec = [copy[q] EXCEPT !.at = l]
    BY Zenon
  <2>2. rec \in [at: PageState, of: {<<>>} \cup [Struct -> Nat] \cup [Counter \cup Detail -> Nat]] /\ rec.at = l
    BY <1>2, <2>1, Zenon
  <2> QED
    BY <1>4, <2>1, <2>2, Zenon
<1>5. CASE LockCopy(q)
  BY <1>3, <1>4, <1>5, Zenon DEF LockCopy
<1>6. CASE NoCopy(q)
  BY <1>3, <1>4, <1>6, Zenon DEF NoCopy
<1>7. CASE CopyStruct(q)
  <2>1. PICK f : f = [c \in Struct |-> stats[c]]
    BY Zenon
  <2>2. copy' = [copy EXCEPT ![q] = [at |-> "struct", of |-> f]] /\ copy[q].at = "locked" /\ mutex' = mutex
    BY <1>1, <1>3, <1>7, <2>1, Zenon DEF CopyStruct
  <2>3. f \in [Struct -> Nat]
    BY <1>1, <1>3, <2>1, Zenon
  <2>4. PICK rec : rec = [at |-> "struct", of |-> f]
    BY Zenon
  <2>5. /\ rec.at = "struct" /\ rec.of = f
        /\ rec \in [at: PageState, of: {<<>>} \cup [Struct -> Nat] \cup [Counter \cup Detail -> Nat]]
    BY <1>3, <2>3, <2>4, Zenon
  <2> QED
    BY <2>1, <2>2, <2>4, <2>5, Zenon
<1>8. CASE CopyLayers(q)
  <2>1. PICK f : f = [c \in Counter \cup Detail |-> IF c \in LayerArray THEN stats[c] ELSE copy[q].of[c]]
    BY Zenon
  <2>2. copy' = [copy EXCEPT ![q] = [at |-> "copied", of |-> f]] /\ copy[q].at = "struct" /\ mutex' = Free
    BY <1>1, <1>8, <2>1, Zenon DEF CopyLayers
  <2>3. copy[q].of = [c \in Struct |-> stats[c]]
    BY <2>2, Zenon DEF Copied
  <2>4. f = stats
    BY <1>1, <1>3, <2>1, <2>3, Zenon
  <2>5. PICK rec : rec = [at |-> "copied", of |-> f]
    BY Zenon
  <2>6. /\ rec.at = "copied" /\ rec.of = stats
        /\ rec \in [at: PageState, of: {<<>>} \cup [Struct -> Nat] \cup [Counter \cup Detail -> Nat]]
    BY <1>1, <1>3, <2>4, <2>5, Zenon
  <2> QED
    BY <2>2, <2>5, <2>6, Zenon
<1> QED
  BY <1>5, <1>6, <1>7, <1>8, Zenon DEF StatsPage

(* A page copies under the lock what no request is changing.               *)
LEMMA PageKeeps ==
    ASSUME PlainInv, NEW q \in Page, StatsPage(q)
    PROVE  PlainInv' /\ UNCHANGED <<stats, tally, todo, pc>>
PROOF
<1>1. /\ UNCHANGED <<enable_bulk_mode, tile, pc, tileState, fd, todo, then, tally, resp, got, cache, stats, seen, gone, fault>>
  BY Zenon DEF StatsPage, LockCopy, CopyStruct, CopyLayers, NoCopy, pageVars, apart, rendVars, answerVars
<1>2. /\ Types /\ Copied /\ NothingHeld /\ PagesLock /\ Balanced /\ StatsConsistent
      /\ \A p \in Req : RequestInv(p)
  BY Zenon DEF PlainInv
<1>3. PICK rec : /\ copy' = [copy EXCEPT ![q] = rec]
                 /\ rec \in [at: PageState, of: {<<>>} \cup [Struct -> Nat] \cup [Counter \cup Detail -> Nat]]
                 /\ \/ /\ copy[q].at = "none" /\ rec.at = "locked" /\ mutex = Free /\ mutex' = q
                    \/ /\ copy[q].at = "locked" /\ rec.at = "struct" /\ mutex' = mutex
                       /\ rec.of = [c \in Struct |-> stats[c]]
                    \/ /\ copy[q].at = "struct" /\ rec.at = "copied" /\ mutex' = Free
                       /\ rec.of = stats
                    \/ /\ copy[q].at = "none" /\ rec.at = "undefined" /\ mutex' = mutex
  BY <1>2, PageSteps, Zenon
<1>4. q \notin Req /\ q # Free /\ Free \notin Req /\ Free \notin Page
  BY TileServeAssumption, Zenon
<1>5. copy' \in [Page -> [at: PageState, of: {<<>>} \cup [Struct -> Nat] \cup [Counter \cup Detail -> Nat]]]
      /\ copy'[q] = rec /\ \A o \in Page : o # q => copy'[o] = copy[o]
  BY <1>2, <1>3, Zenon DEF Types
<1>6. mutex' \in Req \cup Page \cup {Free}
  BY <1>2, <1>3, Zenon DEF Types
<1>7. Types'
  BY <1>1, <1>2, <1>5, <1>6, Zenon DEF Types
<1>8. \A p \in Req : RequestInv(p)'
  BY <1>1, <1>2, RequestKept, Zenon
<1>9. \A p \in Req : mutex' = p <=> mutex = p
  <2>1. mutex = q <=> copy[q].at \in {"locked", "struct"}
    BY <1>2, Zenon DEF PagesLock
  <2> QED
    BY <1>3, <1>4, <2>1, Zenon
<1>10. NothingHeld'
  BY <1>1, <1>2, <1>9, Zenon DEF NothingHeld
<1>11. PagesLock'
  <2>1. mutex = q <=> copy[q].at \in {"locked", "struct"}
    BY <1>2, Zenon DEF PagesLock
  <2>2. mutex' = q <=> copy'[q].at \in {"locked", "struct"}
    BY <1>3, <1>4, <1>5, <2>1, Zenon
  <2>3. \A o \in Page : o # q => (mutex' = o <=> mutex = o)
    BY <1>3, <1>4, <2>1, Zenon
  <2> QED
    BY <1>2, <1>5, <2>2, <2>3, Zenon DEF PagesLock
<1>12. Balanced'
  BY <1>1, <1>2, Zenon DEF Balanced, Owed
<1>13. Copied'
  BY <1>1, <1>2, <1>3, <1>5, Zenon DEF Copied
<1>14. StatsConsistent'
  <2>1. ASSUME rec.at = "copied" PROVE /\ rec.of["zoom"] = rec.of["200"] + rec.of["304"]
                                       /\ rec.of["layer200"] = rec.of["zoom"]
                                       /\ rec.of["layer404"] = rec.of["404"]
                                       /\ rec.of["zoomRead"] = rec.of["read"]
    <3>1. mutex = q /\ rec.of = stats
      BY <1>2, <1>3, <2>1, Zenon DEF PagesLock
    <3>2. \A d : Owed(d) = 0
      BY <1>2, <1>4, <3>1, OwedByHolder, ZenonT(60)
    <3>3. \A d \in Detail : stats[d] \in Nat
      BY <1>2, Zenon DEF Types
    <3> QED
      BY <1>2, <3>1, <3>2, <3>3 DEF Balanced, Detail
  <2> QED
    BY <1>2, <1>5, <2>1, ZenonT(60) DEF StatsConsistent
<1> QED
  BY <1>1, <1>7, <1>8, <1>10, <1>11, <1>12, <1>13, <1>14, Zenon DEF PlainInv

(* So does every step of a request.                                        *)
LEMMA RequestKeeps ==
    ASSUME PlainInv, NEW p \in Req, Request(p), ~ReceivesPart(p)
    PROVE  /\ PlainInv' /\ Others(p)
           /\ \/ (Moves(p) \/ ServesTile(p)) /\ UNCHANGED stats
              \/ Counts(p) /\ UNCHANGED tally
PROOF
<1>1. /\ Types /\ Copied /\ NothingHeld /\ PagesLock /\ Balanced /\ StatsConsistent
      /\ \A r \in Req : RequestInv(r)
      /\ Staged(p) /\ Known(p) /\ Tallied(p)
  BY Zenon DEF PlainInv, RequestInv
<1>2. ASSUME Others(p), RequestInv(p)' PROVE \A r \in Req : RequestInv(r)'
  BY <1>1, <1>2, OtherRequests, Zenon DEF RequestInv
<1>3. CASE ServesTile(p)
  <2>1. Types' /\ Others(p) /\ RequestInv(p)' /\ UNCHANGED statVars
    BY <1>1, <1>3, ServesTileKeeps, Zenon
  <2>2. NothingHeld' /\ PagesLock' /\ Balanced' /\ Copied' /\ StatsConsistent'
    BY <1>1, <1>3, <2>1, ServesTileSocket, UnlockedBalanced, Zenon
  <2> QED
    BY <1>2, <1>3, <2>1, <2>2, Zenon DEF PlainInv, statVars
<1>4. CASE Count(p)
  <2>1. Types' /\ Others(p) /\ RequestInv(p)' /\ UNCHANGED <<fd, copy, tally>> /\ Counts(p)
    BY <1>1, <1>4, CountKeeps, Zenon
  <2>2. NothingHeld' /\ PagesLock' /\ Balanced' /\ Copied' /\ StatsConsistent'
    BY <1>1, <2>1, CountBalanced, Zenon
  <2> QED
    BY <1>2, <2>1, <2>2, Zenon DEF PlainInv
<1>5. CASE ~ServesTile(p) /\ ~Count(p)
  <2>1. Moves(p)
    BY <1>1, <1>5, RequestMoves, Zenon
  <2>2. Types' /\ Others(p)
    BY <1>1, <2>1, MovesTypes, Zenon
  <2>3. RequestInv(p)'
    BY <1>1, <2>1, MovesStaged, MovesKnown, MovesTallied, Zenon DEF RequestInv
  <2>4. /\ pc[p] \notin {"bump", "detail"} /\ pc'[p] \notin {"bump", "detail"}
        /\ Socket(p) /\ UNCHANGED statVars
    BY <1>1, <2>1, MovesOutsideLock, Zenon DEF Counting, Moves
  <2>5. NothingHeld' /\ PagesLock' /\ Balanced' /\ Copied' /\ StatsConsistent'
    BY <1>1, <2>2, <2>4, UnlockedBalanced, Zenon
  <2> QED
    BY <1>2, <2>1, <2>2, <2>3, <2>4, <2>5, Zenon DEF PlainInv, statVars
<1> QED
  BY <1>3, <1>4, <1>5, Zenon

-----------------------------------------------------------------------------
(* The theorems *)

INSTANCE FiniteSetTheorems

(* A counter grows only by a request that was not done with it.            *)
LEMMA TotalsNew ==
    ASSUME Types, NEW p \in Req, RequestInv(p), Others(p), Totals(p), UNCHANGED tally,
           NEW c, c = Head(todo[p])
    PROVE  p \notin DoneWith(c) /\ p \in DoneWith(c)'
PROOF
<1>1. pc[p] = "bump" /\ pc'[p] = "detail" /\ todo' = todo /\ tally' = tally /\ pc[p] \in Counting
  BY Zenon DEF Totals, Counting
<1>2. PICK s : s = todo[p] /\ ((\E d \in Counter : s = <<d>>) \/ (\E a \in RespCounter : s = <<"read", a>>))
  BY <1>1, Zenon DEF RequestInv, Staged
<1>3. 1 \in DOMAIN s /\ Head(s) = s[1] /\ \A i \in DOMAIN s : s[i] = s[1] => i = 1
  BY <1>2 DEF RespCounter
<1>4. tally[p][s[1]] > 0
  BY <1>2, <1>3, Zenon DEF RequestInv, Tallied
<1>5. Pending(p, s[1])
  BY <1>1, <1>2, <1>3, Zenon DEF Pending
<1>6. ~Pending(p, s[1])'
  BY <1>1, <1>2, <1>3, ZenonT(60) DEF Pending
<1> QED
  BY <1>1, <1>2, <1>3, <1>4, <1>5, <1>6, ZenonT(60) DEF DoneWith

(* So it never exceeds the number of requests that are done with it.       *)
LEMMA BoundedNext ==
    ASSUME PlainInv, CountersBounded, NEW p \in Req, Request(p), ~ReceivesPart(p)
    PROVE  CountersBounded'
PROOF
<1>1. Types /\ RequestInv(p) /\ stats \in [Counter \cup Detail -> Nat]
  BY Zenon DEF PlainInv, Types
<1>2. /\ Others(p)
      /\ \/ (Moves(p) \/ ServesTile(p)) /\ UNCHANGED stats
         \/ Counts(p) /\ UNCHANGED tally
  BY RequestKeeps, Zenon
<1> SUFFICES ASSUME NEW c \in Counter PROVE stats'[c] <= Cardinality(DoneWith(c)')
  BY Zenon DEF CountersBounded
<1>3. DoneWith(c) \subseteq DoneWith(c)'
  BY <1>1, <1>2, DoneWithGrows, ZenonT(60)
<1>4. IsFiniteSet(DoneWith(c)) /\ IsFiniteSet(DoneWith(c)')
  <2>1. DoneWith(c) \subseteq Req /\ DoneWith(c)' \subseteq Req
    BY Zenon DEF DoneWith
  <2> QED
    BY <2>1, FS_Subset, TileServeAssumption, ZenonT(60)
<1>5. /\ Cardinality(DoneWith(c)) \in Nat /\ Cardinality(DoneWith(c)') \in Nat
      /\ Cardinality(DoneWith(c)) <= Cardinality(DoneWith(c)')
  BY <1>3, <1>4, FS_Subset, FS_CardinalityType, ZenonT(60)
<1>6. stats[c] <= Cardinality(DoneWith(c)) /\ stats[c] \in Nat
  BY <1>1, Zenon DEF CountersBounded
<1>7. CASE stats'[c] = stats[c]
  BY <1>5, <1>6, <1>7, SMTT(30)
<1>8. CASE stats'[c] # stats[c]
  <2>1. Totals(p) /\ c = Head(todo[p]) /\ UNCHANGED tally /\ stats'[c] = stats[c] + 1
    <3>1. ~Details(p)
      <4> SUFFICES ASSUME Details(p) PROVE FALSE
        BY Zenon
      <4>1. Head(todo[p]) \in Counter
        BY <1>1, HeadIsCounter, Zenon DEF Details, Counting, RequestInv
      <4>2. c \notin DetailOf(Head(todo[p]))
        BY <4>1, DetailFacts, ZenonT(60)
      <4> QED
        BY <1>8, <4>2, ZenonT(60) DEF Details
    <3>2. Totals(p) /\ UNCHANGED tally
      BY <1>2, <1>8, <3>1, ZenonT(60) DEF Counts, Locks, GivesUp
    <3>3. stats' = [stats EXCEPT ![Head(todo[p])] = @ + 1]
      BY <3>2, Zenon DEF Totals
    <3> QED
      BY <1>1, <1>8, <3>2, <3>3, ZenonT(60)
  <2>2. p \notin DoneWith(c) /\ p \in DoneWith(c)'
    BY <1>1, <1>2, <2>1, TotalsNew, ZenonT(60)
  <2>3. DoneWith(c) \cup {p} \subseteq DoneWith(c)' /\ IsFiniteSet(DoneWith(c) \cup {p})
        /\ Cardinality(DoneWith(c) \cup {p}) = Cardinality(DoneWith(c)) + 1
    BY <1>3, <1>4, <2>2, FS_AddElement, ZenonT(60)
  <2>4. Cardinality(DoneWith(c) \cup {p}) <= Cardinality(DoneWith(c)')
    BY <1>4, <2>3, FS_Subset, ZenonT(60)
  <2> QED
    BY <1>5, <1>6, <2>1, <2>3, <2>4, SMTT(30)
<1> QED
  BY <1>7, <1>8, Zenon

(* The invariant holds at first.                                           *)
LEMMA InitServeInv == ServeInit => ServeInv
PROOF
<1> SUFFICES ASSUME ServeInit PROVE ServeInv
  BY Zenon
<1>1. Types
  BY InitTypes, Zenon
<1>2. \A c \in Counter : stats[c] = 0
  BY Zenon DEF ServeInit
<1>3. \A c \in Counter : Cardinality(DoneWith(c)) \in Nat
  <2>1. \A c \in Counter : DoneWith(c) \subseteq Req
    BY Zenon DEF DoneWith
  <2> QED
    BY <2>1, FS_Subset, FS_CardinalityType, TileServeAssumption, ZenonT(60)
<1>4. CountersBounded
  BY <1>2, <1>3 DEF CountersBounded
<1> QED
  BY <1>1, <1>4, InitRequestInv, InitStats, ZenonT(60) DEF ServeInv

(* It is PlainInv with the bounds.                                         *)
LEMMA ServeInvSplits == (ServeInv <=> PlainInv /\ CountersBounded) /\ (ServeInv' <=> PlainInv' /\ CountersBounded')
PROOF
  BY Zenon DEF ServeInv, PlainInv, RequestInv

(* Every step keeps it.                                                    *)
LEMMA NextServeInv == ServeInv /\ [ServeNext]_serveVars => ServeInv'
PROOF
<1> SUFFICES ASSUME PlainInv, CountersBounded, [ServeNext]_serveVars PROVE PlainInv' /\ CountersBounded'
  BY ServeInvSplits, Zenon
<1>1. ASSUME UNCHANGED <<stats, tally, todo, pc>> PROVE CountersBounded'
  BY <1>1, Zenon DEF CountersBounded, DoneWith, Pending
<1>2. CASE Rendered \/ Expired \/ Aged \/ Deleted
  BY <1>1, <1>2, StoreKeeps, ZenonT(60)
<1>3. CASE UNCHANGED <<enable_bulk_mode, tile, pc, tileState, fd, todo, then, tally, resp, got, cache,
                       mutex, stats, copy, seen, gone, fault>>
  BY <1>1, <1>3, WireKeeps, ZenonT(60)
<1>4. ASSUME NEW p \in Req, RenderdAnswers(p) \/ ReceivesPart(p) PROVE PlainInv' /\ CountersBounded'
  BY <1>3, <1>4, Zenon DEF RenderdAnswers, ReceivesPart, local, countVars, answerVars, statVars
<1>5. ASSUME NEW p \in Req, Request(p) PROVE PlainInv' /\ CountersBounded'
  BY <1>4, <1>5, RequestKeeps, BoundedNext, ZenonT(60)
<1>6. ASSUME NEW q \in Page, StatsPage(q) PROVE PlainInv' /\ CountersBounded'
  BY <1>1, <1>6, PageKeeps, ZenonT(60)
<1>7. CASE Answered \/ UNCHANGED serveVars
  BY <1>3, <1>7, ZenonT(60) DEF Answered, serveVars, rendVars, countVars, answerVars, statVars
<1> QED
  BY <1>2, <1>4, <1>5, <1>6, <1>7, ZenonT(60) DEF ServeNext, Environment

(* The invariant says what the properties say.                             *)
LEMMA ServeInvProperties == ServeInv => AnswerIsTrue /\ CountedOnce /\ StatsConsistent /\ NothingHeld
PROOF
<1> SUFFICES ASSUME ServeInv PROVE AnswerIsTrue /\ CountedOnce /\ StatsConsistent /\ NothingHeld
  BY Zenon
<1>1. AnswerIsTrue
  BY ZenonT(60) DEF ServeInv, Known, AnswerIsTrue
<1>2. \A c \in Counter : stats[c] <= Cardinality({p \in Req : tally[p][c] > 0})
  <2> SUFFICES ASSUME NEW c \in Counter PROVE stats[c] <= Cardinality({p \in Req : tally[p][c] > 0})
    BY Zenon
  <2>1. DoneWith(c) \subseteq {p \in Req : tally[p][c] > 0} /\ IsFiniteSet({p \in Req : tally[p][c] > 0})
    <3>1. {p \in Req : tally[p][c] > 0} \subseteq Req
      BY Zenon
    <3> QED
      BY <3>1, FS_Subset, TileServeAssumption, Zenon DEF DoneWith
  <2>2. /\ Cardinality(DoneWith(c)) <= Cardinality({p \in Req : tally[p][c] > 0})
        /\ Cardinality(DoneWith(c)) \in Nat /\ Cardinality({p \in Req : tally[p][c] > 0}) \in Nat
    BY <2>1, FS_Subset, FS_CardinalityType, Zenon
  <2>3. stats[c] <= Cardinality(DoneWith(c)) /\ stats[c] \in Nat
    <3>1. stats \in [Counter \cup Detail -> Nat] /\ CountersBounded
      BY Zenon DEF ServeInv, Types
    <3> QED
      BY <3>1, Zenon DEF CountersBounded
  <2> QED
    BY <2>2, <2>3
<1>3. \A p \in Req : pc[p] = "done" => Tallied(p) /\ Final(p)
  BY Zenon DEF ServeInv, Final
<1>4. CountedOnce
  <2>1. ASSUME NEW p \in Req, pc[p] = "done"
        PROVE  /\ \A c \in RespCounter : tally[p][c] = IF c = resp[p] THEN 1 ELSE 0
               /\ \A c, d \in Fresh(p) : c = d /\ tally[p][c] = 1
               /\ resp[p] = "503" => Fresh(p) = {}
               /\ got[p] # NoVersion /\ Fresh(p) = {} => enable_bulk_mode /\ cache[p] # "heuristic"
               /\ cache[p] = "heuristic" => Fresh(p) \cap OldCounter = {}
    BY <1>3, <2>1, Zenon DEF Tallied
  <2> QED
    BY <1>2, <2>1, Zenon DEF CountedOnce, Fresh
<1> QED
  BY <1>1, <1>4, ZenonT(60) DEF ServeInv

(* The invariant holds throughout.                                         *)
LEMMA ServeInvariant == ServeFairSpec => []ServeInv
PROOF
  BY InitServeInv, NextServeInv, PTL DEF ServeFairSpec

(* What tile_handler_serve tells the client of the tile was true at some   *)
(* moment of the request, whatever renderd, the store and the other        *)
(* requests do between tile_state, request_tile and tile_read, unless the  *)
(* store failed in tile_read or in the tile_stat the answer rests on.      *)
THEOREM AnswersAreTrue == ServeFairSpec => []AnswerIsTrue
PROOF
  BY ServeInvariant, ServeInvProperties, PTL

(* incRespCounter, incFreshCounter and incTimingCounter count a request    *)
(* for its response and its freshness once, and no more than was asked.    *)
THEOREM RequestsCountedOnce == ServeFairSpec => []CountedOnce
PROOF
  BY ServeInvariant, ServeInvProperties, PTL

(* The copy that get_stats_copy takes agrees with itself, although it      *)
(* copies the struct and the arrays of the layers one after the other.     *)
THEOREM CopiesConsistent == ServeFairSpec => []StatsConsistent
PROOF
  BY ServeInvariant, ServeInvProperties, PTL

(* The socket to renderd and stats_mutex are held exactly where            *)
(* request_tile and the counters need them.                                *)
THEOREM NothingStaysHeld == ServeFairSpec => []NothingHeld
PROOF
  BY ServeInvariant, ServeInvProperties, PTL
=============================================================================
