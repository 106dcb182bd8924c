------------------------------ MODULE DelayPool ------------------------------
(***************************************************************************)
(* The throttle of mod_tile: delay_allowed in src/src/mod_tile.c.          *)
(*                                                                         *)
(* A table in shared memory holds one token bucket per hash of a client    *)
(* address.  Every request that reaches the storage hook takes a token for *)
(* a tile, and one for a rendering when the tile is missing.  The buckets  *)
(* are topped up lazily, all at once, by the request that finds its own    *)
(* bucket empty.                                                           *)
(*                                                                         *)
(* The table is only touched under delaypool_mutex, so what a request does *)
(* between taking and releasing it is one action, except that the fill-up  *)
(* is two: the flag `locked` is read without the mutex.                    *)
(***************************************************************************)
EXTENDS Integers, FiniteSets

CONSTANTS
    Proc,               \* the requests Apache handles at a time
    Ip,                 \* client addresses
    Key,                \* the entries of the table
    hashkey,            \* the entry of an address
    nobody,             \* the all-zero address of an unused entry
    NoProc,             \* the holder of a free mutex
    tile_size, tile_rate,       \* ModTileThrottlingTiles
    render_size, render_rate,   \* ModTileThrottlingRenders
    CLIENT_PENALTY,
    MaxTime             \* bound: the clock stops here

ASSUME DelayAssumption ==
    /\ hashkey \in [Ip -> Key]
    /\ nobody \notin Ip
    /\ NoProc \notin Proc
    /\ tile_size \in Nat /\ render_size \in Nat
    /\ tile_rate \in Nat \ {0} /\ render_rate \in Nat \ {0}
    /\ CLIENT_PENALTY \in Nat
    /\ MaxTime \in Nat

VARIABLES
    users,              \* the table of buckets
    last_tile_fillup, last_render_fillup,
    locked,             \* a fill-up is going on
    delaypool_mutex,    \* its holder
    now,                \* apr_time_now()
    pc,                 \* where a request stands in delay_allowed
    req,                \* its address, whether its tile is missing, and its locals
    hist                \* history of a bucket since its creation

tableVars == <<users, last_tile_fillup, last_render_fillup>>
delayVars == <<tableVars, locked, delaypool_mutex, now, pc, req, hist>>

Idle == [ip |-> nobody, missing |-> FALSE, j |-> 0, wake |-> 0, tiles_topup |-> 0, render_topup |-> 0]
NewHist(t) == [since |-> t, tiles |-> 0, renders |-> 0]

(* mod_tile_post_config *)
DelayInit ==
    /\ users = [k \in Key |-> [ip_addr |-> nobody, available_tiles |-> 0, available_render_req |-> 0]]
    /\ last_tile_fillup = 0 /\ last_render_fillup = 0
    /\ locked = FALSE
    /\ delaypool_mutex = NoProc
    /\ now = 0
    /\ pc = [p \in Proc |-> "idle"]
    /\ req = [p \in Proc |-> Idle]
    /\ hist = [k \in Key |-> NewHist(0)]

keyOf(p) == hashkey[req[p].ip]
bucket(p) == users[keyOf(p)]
Goto(p, l) == pc' = [pc EXCEPT ![p] = l]

SetLocals(p, j, wake, t, r) ==
    req' = [req EXCEPT ![p] = [ip |-> @.ip, missing |-> @.missing, j |-> j, wake |-> wake,
                               tiles_topup |-> t, render_topup |-> r]]

(* delay_allowed returns; the request forgets its locals. *)
Return(p) == /\ Goto(p, "idle")
             /\ req' = [req EXCEPT ![p] = Idle]

-----------------------------------------------------------------------------
(* A request for a tile that is missing or not calls delay_allowed. *)
Arrive(p, ip, missing) ==
    /\ pc[p] = "idle"
    /\ Goto(p, "check")
    /\ req' = [req EXCEPT ![p] = [ip |-> ip, missing |-> missing, j |-> 0, wake |-> 0,
                                  tiles_topup |-> 0, render_topup |-> 0]]
    /\ UNCHANGED <<tableVars, locked, delaypool_mutex, now, hist>>

(* "If a delaypool fillup is ongoing, just skip accounting": allowed. *)
CheckFilling(p) ==
    /\ pc[p] = "check" /\ locked
    /\ Return(p)
    /\ UNCHANGED <<tableVars, locked, delaypool_mutex, now, hist>>

CheckQuiet(p) ==
    /\ pc[p] = "check" /\ ~locked
    /\ Goto(p, "lock")
    /\ UNCHANGED <<tableVars, locked, delaypool_mutex, now, req, hist>>

(* sleep(CLIENT_PENALTY) has returned; it also does when the clock stops. *)
Awake(p) == pc[p] = "sleep" /\ (now >= req[p].wake \/ now = MaxTime)

(* get_global_lock gives up after MAXCAMP attempts, or on an error of      *)
(* trylock: accounting is skipped and the request allowed, or, after the   *)
(* penalty, rejected.                                                      *)
NoLock(p) ==
    /\ pc[p] = "lock" \/ Awake(p)
    /\ Return(p)
    /\ UNCHANGED <<tableVars, locked, delaypool_mutex, now, hist>>

(* The bucket of the entry belongs to another address: it is taken over,   *)
(* full, and this request is allowed.                                      *)
CreateBucket(p) ==
    /\ pc[p] = "lock" /\ delaypool_mutex = NoProc
    /\ bucket(p).ip_addr # req[p].ip
    /\ users' = [users EXCEPT ![keyOf(p)] = [ip_addr |-> req[p].ip, available_tiles |-> tile_size,
                                            available_render_req |-> render_size]]
    /\ hist' = [hist EXCEPT ![keyOf(p)] = NewHist(now)]
    /\ Return(p)
    /\ UNCHANGED <<last_tile_fillup, last_render_fillup, locked, delaypool_mutex, now>>

FindBucket(p) ==
    /\ pc[p] = "lock" /\ delaypool_mutex = NoProc
    /\ bucket(p).ip_addr = req[p].ip
    /\ delaypool_mutex' = p
    /\ Goto(p, "take")
    /\ UNCHANGED <<tableVars, locked, now, req, hist>>

(* One pass of the loop up to the test of delay: the tokens that are there *)
(* are taken, whether or not the request gets all it needs.                *)
tileToken(p) == IF bucket(p).available_tiles > 0 THEN 1 ELSE 0
renderToken(p) == IF req[p].missing /\ bucket(p).available_render_req > 0 THEN 1 ELSE 0
delayOf(p) == IF req[p].missing /\ renderToken(p) = 0 THEN 2
              ELSE IF tileToken(p) = 0 THEN 1 ELSE 0

TakeTokens(p) ==
    /\ users' = [users EXCEPT ![keyOf(p)] =
                    [ip_addr |-> @.ip_addr, available_tiles |-> @.available_tiles - tileToken(p),
                     available_render_req |-> @.available_render_req - renderToken(p)]]
    /\ hist' = [hist EXCEPT ![keyOf(p)] =
                    [since |-> @.since, tiles |-> @.tiles + tileToken(p), renders |-> @.renders + renderToken(p)]]
    /\ UNCHANGED <<last_tile_fillup, last_render_fillup, locked, now>>

(* Enough tokens: break, unlock, allowed. *)
TakeAllowed(p) ==
    /\ pc[p] = "take" /\ delayOf(p) = 0
    /\ TakeTokens(p)
    /\ delaypool_mutex' = NoProc
    /\ Return(p)

(* Not enough on the first pass: straight to the fill-up. *)
TakeFirst(p) ==
    /\ pc[p] = "take" /\ delayOf(p) > 0 /\ req[p].j = 0
    /\ TakeTokens(p)
    /\ Goto(p, "fill")
    /\ UNCHANGED <<delaypool_mutex, req>>

(* Not enough on a later pass: unlock and sleep(CLIENT_PENALTY). *)
TakeAgain(p) ==
    /\ pc[p] = "take" /\ delayOf(p) > 0 /\ req[p].j > 0
    /\ TakeTokens(p)
    /\ delaypool_mutex' = NoProc
    /\ Goto(p, "sleep")
    /\ SetLocals(p, req[p].j, now + CLIENT_PENALTY, 0, 0)

(* The sleep is over and the mutex taken again. *)
Relock(p) ==
    /\ Awake(p) /\ delaypool_mutex = NoProc
    /\ delaypool_mutex' = p
    /\ Goto(p, "fill")
    /\ SetLocals(p, req[p].j, 0, 0, 0)
    /\ UNCHANGED <<tableVars, locked, now, hist>>

topup(last, rate) == (now - last) \div rate

StartFill(p) ==
    /\ pc[p] = "fill"
    /\ LET t == topup(last_tile_fillup, tile_rate)
           r == topup(last_render_fillup, render_rate)
       IN /\ SetLocals(p, req[p].j, 0, t, r)
          /\ locked' = (t > 0 \/ r > 0)
    /\ Goto(p, "filling")
    /\ UNCHANGED <<tableVars, delaypool_mutex, now, hist>>

AtMost(n, size) == IF n > size THEN size ELSE n

ToppedUp(u, t, r) ==
    [ip_addr |-> u.ip_addr, available_tiles |-> AtMost(u.available_tiles + t, tile_size),
     available_render_req |-> AtMost(u.available_render_req + r, render_size)]

(* Mutation: the clock of the fill-ups only moves when renders arrived. *)
FillKeepsClock(t, r) ==
    /\ users' = [k \in Key |-> ToppedUp(users[k], t, r)]
    /\ IF r > 0
       THEN /\ last_tile_fillup' = last_tile_fillup + tile_rate * t
            /\ last_render_fillup' = last_render_fillup + render_rate * r
       ELSE UNCHANGED <<last_tile_fillup, last_render_fillup>>

Fill(t, r) ==
    /\ users' = IF t > 0 \/ r > 0 THEN [k \in Key |-> ToppedUp(users[k], t, r)] ELSE users
    /\ last_tile_fillup' = last_tile_fillup + tile_rate * t
    /\ last_render_fillup' = last_render_fillup + render_rate * r

(* Mutation: a rejection leaves the flag set. *)
EndFillLeavesLocked(p) ==
    /\ pc[p] = "filling"
    /\ Fill(req[p].tiles_topup, req[p].render_topup)
    /\ locked' = (locked /\ req[p].j = 2)
    /\ IF req[p].j < 2
       THEN /\ Goto(p, "take")
            /\ SetLocals(p, req[p].j + 1, 0, 0, 0)
            /\ UNCHANGED delaypool_mutex
       ELSE /\ Return(p)
            /\ delaypool_mutex' = NoProc
    /\ UNCHANGED <<now, hist>>

(* Mutation: the loop does not count its passes. *)
EndFillNoCount(p) ==
    /\ pc[p] = "filling"
    /\ Fill(req[p].tiles_topup, req[p].render_topup)
    /\ locked' = FALSE
    /\ Goto(p, "take")
    /\ SetLocals(p, req[p].j, 0, 0, 0)
    /\ UNCHANGED <<delaypool_mutex, now, hist>>

(* Every bucket is topped up; the third pass ends in a rejection. *)
EndFill(p) ==
    /\ pc[p] = "filling"
    /\ Fill(req[p].tiles_topup, req[p].render_topup)
    /\ locked' = FALSE
    /\ IF req[p].j < 2
       THEN /\ Goto(p, "take")
            /\ SetLocals(p, req[p].j + 1, 0, 0, 0)
            /\ UNCHANGED delaypool_mutex
       ELSE /\ Return(p)
            /\ delaypool_mutex' = NoProc
    /\ UNCHANGED <<now, hist>>

Tick ==
    /\ now < MaxTime
    /\ now' = now + 1
    /\ UNCHANGED <<tableVars, locked, delaypool_mutex, pc, req, hist>>

Step(p) ==
    \/ CheckFilling(p) \/ CheckQuiet(p) \/ NoLock(p) \/ CreateBucket(p) \/ FindBucket(p)
    \/ TakeAllowed(p) \/ TakeFirst(p) \/ TakeAgain(p) \/ Relock(p)
    \/ StartFill(p) \/ EndFill(p)

DelayNext ==
    \/ Tick
    \/ \E p \in Proc : Step(p) \/ \E ip \in Ip, missing \in BOOLEAN : Arrive(p, ip, missing)

DelaySpec == DelayInit /\ [][DelayNext]_delayVars

(* The clock runs and Apache runs every request it has accepted. *)
DelayFairSpec == DelaySpec /\ WF_delayVars(Tick) /\ \A p \in Proc : WF_delayVars(Step(p))

-----------------------------------------------------------------------------
(* Accounting is switched off, for every client, only while a request that *)
(* holds delaypool_mutex is filling up: `locked` is never left behind.     *)
SkipsOnlyDuringFillup ==
    locked => \E p \in Proc : delaypool_mutex = p /\ pc[p] = "filling"

(* What the throttle guarantees: over the life of a bucket the tokens      *)
(* handed out and those left are at most two full buckets, what arrived at *)
(* the configured rate since, and one.  The second bucket is the lazy      *)
(* fill-up: it credits time from before the bucket was created.            *)
WithinRate(spent, left, size, rate, since) ==
    spent + left <= 2 * size + (now - since) \div rate + 1

RateBound ==
    \A k \in Key :
        /\ WithinRate(hist[k].tiles, users[k].available_tiles, tile_size, tile_rate, hist[k].since)
        /\ WithinRate(hist[k].renders, users[k].available_render_req, render_size, render_rate, hist[k].since)

(* delay_allowed returns: its loop has three passes and it never waits for *)
(* the mutex for good.                                                     *)
AlwaysReturns == \A p \in Proc : pc[p] # "idle" ~> pc[p] = "idle"
=============================================================================
