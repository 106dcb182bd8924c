---------------------------- MODULE MutexProofs ----------------------------
(***************************************************************************)
(* Proofs about what a mutex and a flag beside it protect: the throttle of *)
(* mod_tile under delaypool_mutex with the flag locked (DelayPool), and    *)
(* the start of renderd under map_load_mutex with maps_loaded (Startup).   *)
(* The two are programs of their own; they share nothing.                  *)
(***************************************************************************)
EXTENDS DelayPool, Startup, TLAPS

-----------------------------------------------------------------------------
(***************************************************************************)
(* The throttle keeps its rate for any sizes, rates, addresses and number  *)
(* of concurrent requests.                                                 *)
(*                                                                         *)
(* The argument: until the first fill-up after its creation a bucket has   *)
(* handed out at most what it was created with.  That first fill-up may    *)
(* credit time from before the creation, but the cap leaves at most one    *)
(* more full bucket.  From then on every token is paid for by an advance   *)
(* of last_*_fillup, which starts less than one token before the creation  *)
(* and never passes the clock.                                             *)
(***************************************************************************)

(* What is true of the tokens of one kind in one bucket. *)
Credit(spent, left, size, rate, since, last) ==
    \/ spent + left <= size
    \/ rate * (spent + left - 2 * size) <= last - since + rate

Bucket == [ip_addr : Ip \cup {nobody}, available_tiles : 0..tile_size, available_render_req : 0..render_size]
History == [since : Nat, tiles : Nat, renders : Nat]
Request == [ip : Ip \cup {nobody}, missing : BOOLEAN, j : Nat, wake : Nat, tiles_topup : Nat, render_topup : Nat]

Types ==
    /\ users \in [Key -> Bucket]
    /\ hist \in [Key -> History]
    /\ req \in [Proc -> Request]
    /\ pc \in [Proc -> {"idle", "check", "lock", "take", "fill", "filling", "sleep"}]
    /\ now \in Nat
    /\ last_tile_fillup \in Nat /\ last_render_fillup \in Nat
    /\ locked \in BOOLEAN

(* Who works on the table holds the mutex, and has an address. *)
Holds == \A p \in Proc :
    /\ pc[p] \in {"take", "fill", "filling"} => delaypool_mutex = p
    /\ pc[p] # "idle" => req[p].ip \in Ip

Clocks ==
    /\ last_tile_fillup <= now /\ last_render_fillup <= now
    /\ \A k \in Key : hist[k].since <= now

(* The fill-up a request has begun does not pass the clock, and comes      *)
(* within one token of it.                                                 *)
Reaches(last, t, rate) ==
    /\ last + rate * t <= now
    /\ \A k \in Key : hist[k].since < last + rate * t + rate

FillReaches == \A p \in Proc :
    pc[p] = "filling" =>
        /\ Reaches(last_tile_fillup, req[p].tiles_topup, tile_rate)
        /\ Reaches(last_render_fillup, req[p].render_topup, render_rate)

Credits == \A k \in Key :
    /\ Credit(hist[k].tiles, users[k].available_tiles, tile_size, tile_rate, hist[k].since, last_tile_fillup)
    /\ Credit(hist[k].renders, users[k].available_render_req, render_size, render_rate, hist[k].since,
              last_render_fillup)

(* The inductive invariant. *)
DelayInv ==
    /\ Types /\ Holds /\ Clocks /\ FillReaches /\ Credits
    /\ SkipsOnlyDuringFillup

-----------------------------------------------------------------------------
(* Arithmetic of one kind of token *)

(* A fill-up that comes within one token of the clock keeps the credit:    *)
(* the cap bounds it the first time, the advance of the clock of the       *)
(* fill-ups pays for it later.                                             *)
LEMMA RefillCredit ==
    ASSUME NEW spent \in Nat, NEW size \in Nat, NEW left \in 0..size, NEW rate \in Nat \ {0},
           NEW since \in Nat, NEW last \in Nat, NEW t \in Nat,
           Credit(spent, left, size, rate, since, last), since < last + rate * t + rate
    PROVE  /\ AtMost(left + t, size) \in 0..size
           /\ Credit(spent, AtMost(left + t, size), size, rate, since, last + rate * t)
PROOF
<1> DEFINE more == AtMost(left + t, size)
<1>1. more \in 0..size /\ more <= left + t
  BY DEF AtMost
<1> rate * t \in Nat
  OBVIOUS
<1>2. CASE spent + left <= size
  <2>1. spent + more - 2 * size <= 0
    BY <1>1, <1>2
  <2>2. PICK n \in Nat : spent + more - 2 * size = -n
    <3>1. 2 * size - spent - more \in Nat
      BY <2>1, <1>1
    <3> QED BY <3>1, <1>1
  <2>3. rate * (-n) <= 0
    OBVIOUS
  <2> QED
    BY <1>1, <2>2, <2>3 DEF Credit
<1>3. CASE rate * (spent + left - 2 * size) <= last - since + rate
  <2>1. rate * (spent + left + t - 2 * size) = rate * (spent + left - 2 * size) + rate * t
    OBVIOUS
  <2>2. PICK n \in Nat : left + t = more + n
    <3>1. left + t - more \in Nat
      BY <1>1
    <3> QED BY <3>1, <1>1
  <2>3. rate * (spent + left + t - 2 * size) = rate * (spent + more - 2 * size) + rate * n
    <3>1. spent + left + t - 2 * size = (spent + more - 2 * size) + n
      BY <2>2, <1>1
    <3>2. \A x \in Int : rate * (x + n) = rate * x + rate * n
      OBVIOUS
    <3> QED BY <3>1, <3>2, <1>1
  <2>4. rate * n \in Nat /\ rate * (spent + more - 2 * size) \in Int
    BY <1>1
  <2>5. rate * (spent + more - 2 * size) <= last + rate * t - since + rate
    BY <2>1, <2>3, <2>4, <1>3
  <2> QED
    BY <1>1, <2>5 DEF Credit
<1> QED
  BY <1>1, <1>2, <1>3, Zenon DEF Credit

(* Taking a token moves it from what is left to what is spent. *)
LEMMA TakeCredit ==
    ASSUME NEW spent \in Nat, NEW size \in Nat, NEW left \in 0..size, NEW rate \in Nat \ {0},
           NEW since \in Nat, NEW last \in Nat, NEW n \in {0, 1}, n <= left,
           Credit(spent, left, size, rate, since, last)
    PROVE  left - n \in 0..size /\ Credit(spent + n, left - n, size, rate, since, last)
PROOF
<1>1. (spent + n) + (left - n) = spent + left
  OBVIOUS
<1> QED
  BY <1>1 DEF Credit

(* With the clock of the fill-ups not ahead, the credit is the rate. *)
LEMMA CreditIsRate ==
    ASSUME NEW spent \in Nat, NEW size \in Nat, NEW left \in 0..size, NEW rate \in Nat \ {0},
           NEW since \in Nat, NEW last \in Nat, now \in Nat, last <= now, since <= now,
           Credit(spent, left, size, rate, since, last)
    PROVE  WithinRate(spent, left, size, rate, since)
PROOF
<1> DEFINE d == now - since
           q == d \div rate
<1>1. d \in Nat /\ q \in Nat
  OBVIOUS
<1>2. d < rate * q + rate
  <2>1. d = rate * q + (d % rate) /\ d % rate < rate
    BY <1>1
  <2> QED BY <2>1, <1>1
<1>3. CASE spent + left <= size
  BY <1>3, <1>1 DEF WithinRate
<1>4. CASE rate * (spent + left - 2 * size) <= last - since + rate
  <2> DEFINE x == spent + left - 2 * size
  <2>1. x \in Int /\ rate * x < rate * q + 2 * rate
    BY <1>4, <1>2
  <2>2. rate * q + 2 * rate = rate * (q + 2)
    BY <1>1
  <2>3. x < q + 2
    <3> SUFFICES ASSUME x >= q + 2 PROVE FALSE
      BY <2>1, <1>1
    <3>1. PICK n \in Nat : x = q + 2 + n
      <4> WITNESS x - (q + 2) \in Nat
      <4> QED BY <2>1, <1>1
    <3>2. rate * x = rate * (q + 2) + rate * n /\ rate * n \in Nat
      BY <3>1, <1>1
    <3> QED BY <2>1, <2>2, <3>2, <1>1
  <2> QED
    BY <2>3, <2>1, <1>1 DEF WithinRate
<1> QED
  BY <1>3, <1>4, Zenon DEF Credit

(* What topup computes: the whole tokens that have arrived since last. *)
LEMMA TopupReaches ==
    ASSUME NEW last \in Nat, NEW rate \in Nat \ {0}, now \in Nat, last <= now,
           hist \in [Key -> History],
           \A k \in Key : hist[k].since <= now
    PROVE  topup(last, rate) \in Nat /\ Reaches(last, topup(last, rate), rate)
PROOF
<1> DEFINE d == now - last
           q == d \div rate
<1>1. d \in Nat /\ q \in Nat /\ d = rate * q + (d % rate) /\ d % rate \in 0..(rate - 1)
  OBVIOUS
<1>2. rate * q \in Nat
  BY <1>1
<1>3. last + rate * q <= now /\ now < last + rate * q + rate
  BY <1>1, <1>2
<1>4. \A k \in Key : hist[k].since \in Nat
  BY Zenon DEF History
<1> QED
  BY <1>1, <1>2, <1>3, <1>4 DEF topup, Reaches

-----------------------------------------------------------------------------
(* The steps *)

USE DelayAssumption

(* The locals of a request that is not in delay_allowed. *)
LEMMA IdleIsRequest == Idle \in Request
PROOF
  BY Zenon DEF Idle, Request

(* What SetLocals changes, and what it leaves alone: the address. *)
LEMMA LocalsFacts ==
    ASSUME Types, NEW p \in Proc, NEW j \in Nat, NEW wake \in Nat, NEW t \in Nat, NEW r \in Nat,
           SetLocals(p, j, wake, t, r)
    PROVE  /\ req' \in [Proc -> Request]
           /\ \A q \in Proc : q # p => req'[q] = req[q]
           /\ req'[p].ip = req[p].ip /\ req'[p].tiles_topup = t /\ req'[p].render_topup = r
PROOF
<1>1. PICK new : new = [ip |-> req[p].ip, missing |-> req[p].missing, j |-> j, wake |-> wake,
                        tiles_topup |-> t, render_topup |-> r]
  BY Zenon
<1>2. req' = [req EXCEPT ![p] = new]
  BY <1>1, Zenon DEF SetLocals
<1>3. req[p] \in Request
  BY Zenon DEF Types
<1>4. new \in Request /\ new.ip = req[p].ip /\ new.tiles_topup = t /\ new.render_topup = r
  BY <1>1, <1>3, Zenon DEF Request
<1> QED
  BY <1>2, <1>4, Zenon DEF Types

(* The table is empty when the server starts: nothing is owed. *)
LEMMA InitDelayInv == DelayInit => DelayInv
PROOF
<1> SUFFICES ASSUME DelayInit PROVE DelayInv
  BY Zenon
<1>1. Types
  <2>1. NewHist(0) \in History
    BY Zenon DEF NewHist, History
  <2>2. [ip_addr |-> nobody, available_tiles |-> 0, available_render_req |-> 0]
           \in Bucket
    BY DEF Bucket
  <2> QED
    BY <2>1, <2>2, IdleIsRequest, Zenon DEF DelayInit, Types
<1>2. Holds /\ Clocks /\ FillReaches /\ SkipsOnlyDuringFillup
  BY DEF DelayInit, Holds, Clocks, FillReaches, SkipsOnlyDuringFillup, NewHist
<1>3. Credits
  BY DEF DelayInit, Credits, Credit, NewHist
<1> QED
  BY <1>1, <1>2, <1>3, Zenon DEF DelayInv

(* While a request holds the mutex no other is at work on the table. *)
LEMMA OneAtWork ==
    ASSUME DelayInv, NEW p \in Proc, pc[p] \in {"take", "fill", "filling"}
    PROVE  /\ delaypool_mutex = p
           /\ \A q \in Proc : q # p => pc[q] \notin {"take", "fill", "filling"}
           /\ locked => pc[p] = "filling"
           /\ req[p].ip \in Ip /\ keyOf(p) \in Key
PROOF
  BY Zenon DEF DelayInv, Holds, SkipsOnlyDuringFillup, Types, keyOf

(* While the mutex is free nobody is at work and nothing is being filled. *)
LEMMA NobodyAtWork ==
    ASSUME DelayInv, delaypool_mutex = NoProc
    PROVE  ~locked /\ \A q \in Proc : pc[q] \notin {"take", "fill", "filling"}
PROOF
  BY Zenon DEF DelayInv, Holds, SkipsOnlyDuringFillup

(* A step of a request outside the mutex that stays outside it and leaves  *)
(* the table alone keeps the invariant.                                    *)
LEMMA OutsideKeepsInv ==
    ASSUME DelayInv, NEW p \in Proc, NEW l \in {"idle", "check", "lock"},
           pc[p] \notin {"take", "fill", "filling"},
           UNCHANGED <<tableVars, locked, delaypool_mutex, now, hist>>,
           pc' = [pc EXCEPT ![p] = l],
           req' \in [Proc -> Request],
           \A q \in Proc : q # p => req'[q] = req[q],
           l # "idle" => req'[p].ip \in Ip
    PROVE  DelayInv'
PROOF
<1>1. Types'
  BY Zenon DEF DelayInv, Types, tableVars
<1>2. Clocks' /\ Credits'
  BY Zenon DEF DelayInv, Clocks, Credits, tableVars
<1>3. \A q \in Proc : q # p => pc'[q] = pc[q]
  BY Zenon DEF DelayInv, Types
<1>4. pc'[p] = l
  BY Zenon DEF DelayInv, Types
<1>5. Holds'
  BY <1>3, <1>4, Zenon DEF DelayInv, Holds
<1>6. FillReaches'
  BY <1>3, <1>4, Zenon DEF DelayInv, FillReaches, Reaches, tableVars
<1>7. SkipsOnlyDuringFillup'
  BY <1>3, Zenon DEF DelayInv, SkipsOnlyDuringFillup
<1> QED
  BY <1>1, <1>2, <1>5, <1>6, <1>7, Zenon DEF DelayInv

(* Arriving, skipping the accounting and giving up on the mutex. *)
LEMMA UnaccountedKeepsInv ==
    ASSUME DelayInv, NEW p \in Proc,
           \/ \E ip \in Ip, missing \in BOOLEAN : Arrive(p, ip, missing)
           \/ CheckFilling(p) \/ CheckQuiet(p) \/ NoLock(p)
    PROVE  DelayInv'
PROOF
<1> Types
  BY Zenon DEF DelayInv
<1>1. ASSUME NEW ip \in Ip, NEW missing \in BOOLEAN, Arrive(p, ip, missing)
      PROVE  DelayInv'
  <2> DEFINE new == [ip |-> ip, missing |-> missing, j |-> 0, wake |-> 0, tiles_topup |-> 0, render_topup |-> 0]
  <2>1. new \in Request /\ new.ip = ip
    BY Zenon DEF Request
  <2>2. req' = [req EXCEPT ![p] = new]
    BY <1>1, Zenon DEF Arrive
  <2> HIDE DEF new
  <2>3. req'[p].ip \in Ip
    BY <2>1, <2>2, Zenon DEF Types
  <2>4. /\ pc' = [pc EXCEPT ![p] = "check"] /\ pc[p] = "idle"
        /\ UNCHANGED <<tableVars, locked, delaypool_mutex, now, hist>>
    BY <1>1, Zenon DEF Arrive, Goto
  <2>5. /\ req' \in [Proc -> Request]
        /\ \A q \in Proc : q # p => req'[q] = req[q]
    BY <2>1, <2>2, Zenon DEF Types
  <2> QED
    BY <2>3, <2>4, <2>5, OutsideKeepsInv, Zenon
<1>2. ASSUME CheckFilling(p) \/ NoLock(p) PROVE DelayInv'
  <2>1. req' = [req EXCEPT ![p] = Idle] /\ pc' = [pc EXCEPT ![p] = "idle"]
    BY <1>2, Zenon DEF CheckFilling, NoLock, Return, Goto
  <2> QED
    BY <1>2, <2>1, IdleIsRequest, OutsideKeepsInv, Zenon DEF CheckFilling, NoLock, Awake, Types
<1>3. ASSUME CheckQuiet(p) PROVE DelayInv'
  <2>1. req[p].ip \in Ip
    BY <1>3, Zenon DEF CheckQuiet, DelayInv, Holds
  <2> QED
    BY <1>3, <2>1, OutsideKeepsInv, Zenon DEF CheckQuiet, Goto, Types
<1> QED
  BY <1>1, <1>2, <1>3, Zenon

(* Time passes. *)
LEMMA TickKeepsInv == ASSUME DelayInv, Tick PROVE DelayInv'
PROOF
<1> now \in Nat /\ now' = now + 1
  BY Zenon DEF DelayInv, Types, Tick
<1>1. Types' /\ Holds' /\ SkipsOnlyDuringFillup'
  BY DEF DelayInv, Types, Holds, SkipsOnlyDuringFillup, Tick, tableVars
<1>2. Clocks'
  BY DEF DelayInv, Types, History, Clocks, Tick, tableVars
<1>3. Credits'
  BY Zenon DEF DelayInv, Credits, Tick, tableVars
<1>4. FillReaches'
  <2> SUFFICES ASSUME NEW p \in Proc, pc[p] = "filling"
               PROVE  /\ Reaches(last_tile_fillup, req[p].tiles_topup, tile_rate)'
                      /\ Reaches(last_render_fillup, req[p].render_topup, render_rate)'
    BY Zenon DEF FillReaches, Tick
  <2>1. /\ Reaches(last_tile_fillup, req[p].tiles_topup, tile_rate)
        /\ Reaches(last_render_fillup, req[p].render_topup, render_rate)
    BY Zenon DEF DelayInv, FillReaches
  <2>2. \A a, b \in Nat, c \in Nat : a + b * c \in Nat
    OBVIOUS
  <2>3. req[p].tiles_topup \in Nat /\ req[p].render_topup \in Nat
        /\ last_tile_fillup \in Nat /\ last_render_fillup \in Nat
    BY Zenon DEF DelayInv, Types, Request
  <2>4. last_tile_fillup + tile_rate * req[p].tiles_topup \in Nat
        /\ last_render_fillup + render_rate * req[p].render_topup \in Nat
    BY <2>2, <2>3, Zenon
  <2> QED
    BY <2>1, <2>4 DEF Reaches, Tick, tableVars
<1> QED
  BY <1>1, <1>2, <1>3, <1>4, Zenon DEF DelayInv

(* A bucket that is taken over starts a new life, full. *)
LEMMA CreateKeepsInv == ASSUME DelayInv, NEW p \in Proc, CreateBucket(p) PROVE DelayInv'
PROOF
<1>1. req[p].ip \in Ip
  BY Zenon DEF DelayInv, Holds, CreateBucket
<1>2. PICK k \in Key : k = keyOf(p)
  BY <1>1, Zenon DEF keyOf
<1>3. PICK new : new = [ip_addr |-> req[p].ip, available_tiles |-> tile_size, available_render_req |-> render_size]
  BY Zenon
<1>4. new \in Bucket /\ new.available_tiles = tile_size /\ new.available_render_req = render_size
  BY <1>1, <1>3 DEF Bucket
<1>5. /\ NewHist(now) \in History
      /\ NewHist(now).since = now /\ NewHist(now).tiles = 0 /\ NewHist(now).renders = 0
  BY Zenon DEF DelayInv, Types, NewHist, History
<1>6. users' = [users EXCEPT ![k] = new] /\ hist' = [hist EXCEPT ![k] = NewHist(now)]
  BY <1>2, <1>3, Zenon DEF CreateBucket
<1>7. req' = [req EXCEPT ![p] = Idle] /\ pc' = [pc EXCEPT ![p] = "idle"]
      /\ UNCHANGED <<last_tile_fillup, last_render_fillup, locked, delaypool_mutex, now>> /\ delaypool_mutex = NoProc
  BY Zenon DEF CreateBucket, Return, Goto
<1>8. ~locked /\ \A q \in Proc : pc'[q] \notin {"take", "fill", "filling"}
  BY <1>7, NobodyAtWork, Zenon DEF DelayInv, Types
<1>9. Types'
  BY <1>4, <1>5, <1>6, <1>7, IdleIsRequest, Zenon DEF DelayInv, Types
<1>10. \A c \in Key : /\ c # k => users'[c] = users[c] /\ hist'[c] = hist[c]
                      /\ c = k => users'[c] = new /\ hist'[c] = NewHist(now)
  BY <1>6, Zenon DEF DelayInv, Types
<1>11. Clocks'
  BY <1>5, <1>7, <1>10 DEF DelayInv, Types, Clocks
<1>12. Credits'
  <2> SUFFICES ASSUME NEW c \in Key
               PROVE  /\ Credit(hist'[c].tiles, users'[c].available_tiles, tile_size, tile_rate,
                                hist'[c].since, last_tile_fillup)
                      /\ Credit(hist'[c].renders, users'[c].available_render_req, render_size, render_rate,
                                hist'[c].since, last_render_fillup)
    BY <1>7, Zenon DEF Credits
  <2>1. CASE c # k
    BY <2>1, <1>10, Zenon DEF DelayInv, Credits
  <2>2. CASE c = k
    BY <2>2, <1>4, <1>5, <1>10 DEF Credit
  <2> QED
    BY <2>1, <2>2, Zenon
<1>13. Holds'
  <2>1. \A q \in Proc : q # p => pc'[q] = pc[q] /\ req'[q] = req[q]
    BY <1>7, Zenon DEF DelayInv, Types
  <2>2. pc'[p] = "idle"
    BY <1>7, Zenon DEF DelayInv, Types
  <2> QED
    BY <1>8, <2>1, <2>2, Zenon DEF DelayInv, Holds
<1> QED
  BY <1>7, <1>8, <1>9, <1>11, <1>12, <1>13, Zenon DEF DelayInv, FillReaches, SkipsOnlyDuringFillup

(* FindBucket, Relock and StartFill: a request enters the mutex, or begins *)
(* to fill up with what topup says has arrived.                            *)
LEMMA EnterKeepsInv ==
    ASSUME DelayInv, NEW p \in Proc, FindBucket(p) \/ Relock(p) \/ StartFill(p)
    PROVE  DelayInv'
PROOF
<1> Types
  BY Zenon DEF DelayInv
<1>1. /\ UNCHANGED <<tableVars, now, hist>>
      /\ Clocks' /\ Credits'
  BY Zenon DEF DelayInv, Clocks, Credits, FindBucket, Relock, StartFill, tableVars
<1>2. ASSUME FindBucket(p) \/ Relock(p) PROVE DelayInv'
  <2>1. PICK l \in {"take", "fill"} : pc' = [pc EXCEPT ![p] = l]
    BY <1>2, Zenon DEF FindBucket, Relock, Goto
  <2>2. delaypool_mutex = NoProc /\ delaypool_mutex' = p /\ locked' = locked /\ pc[p] # "idle"
    BY <1>2, Zenon DEF FindBucket, Relock, Awake
  <2>3. ~locked /\ \A q \in Proc : pc[q] \notin {"take", "fill", "filling"}
    BY <2>2, NobodyAtWork, Zenon
  <2>4. req' \in [Proc -> Request] /\ \A q \in Proc : req'[q].ip = req[q].ip
    <3>1. CASE FindBucket(p)
      BY <3>1, Zenon DEF FindBucket, Types
    <3>2. CASE Relock(p)
      <4>1. SetLocals(p, req[p].j, 0, 0, 0) /\ req[p].j \in Nat
        BY <3>2, Zenon DEF Relock, Types, Request
      <4> QED
        BY <4>1, LocalsFacts, Zenon
    <3> QED
      BY <1>2, <3>1, <3>2, Zenon
  <2>5. \A q \in Proc : (q # p => pc'[q] = pc[q]) /\ (q = p => pc'[q] = l)
    BY <2>1, Zenon DEF Types
  <2>6. Types'
    BY <1>1, <2>1, <2>2, <2>4, Zenon DEF Types, tableVars
  <2>7. Holds'
    BY <2>2, <2>3, <2>4, <2>5, Zenon DEF DelayInv, Holds
  <2>8. FillReaches' /\ SkipsOnlyDuringFillup'
    BY <2>2, <2>3, <2>5, Zenon DEF FillReaches, SkipsOnlyDuringFillup
  <2> QED
    BY <1>1, <2>6, <2>7, <2>8, Zenon DEF DelayInv
<1>3. ASSUME StartFill(p) PROVE DelayInv'
  <2>1. PICK t, r : t = topup(last_tile_fillup, tile_rate) /\ r = topup(last_render_fillup, render_rate)
    BY Zenon
  <2>2. /\ t \in Nat /\ Reaches(last_tile_fillup, t, tile_rate)
        /\ r \in Nat /\ Reaches(last_render_fillup, r, render_rate)
    BY <2>1, TopupReaches, Zenon DEF DelayInv, Types, Clocks
  <2>3. /\ pc' = [pc EXCEPT ![p] = "filling"] /\ delaypool_mutex' = delaypool_mutex /\ pc[p] = "fill"
        /\ locked' \in BOOLEAN /\ SetLocals(p, req[p].j, 0, t, r)
    BY <1>3, <2>1, Zenon DEF StartFill, Goto
  <2>4. /\ req' \in [Proc -> Request] /\ \A q \in Proc : q # p => req'[q] = req[q]
        /\ req'[p].ip = req[p].ip /\ req'[p].tiles_topup = t /\ req'[p].render_topup = r
    <3>1. t \in Nat /\ r \in Nat
      BY <2>2, Zenon
    <3>2. PICK j \in Nat : SetLocals(p, j, 0, t, r)
      BY <2>3, Zenon DEF Types, Request
    <3> QED
      BY <3>1, <3>2, LocalsFacts
  <2>5. delaypool_mutex = p /\ req[p].ip \in Ip /\ \A q \in Proc : q # p => pc[q] \notin {"take", "fill", "filling"}
    BY <2>3, OneAtWork, Zenon
  <2>6. \A q \in Proc : (q # p => pc'[q] = pc[q]) /\ (q = p => pc'[q] = "filling")
    BY <2>3, Zenon DEF Types
  <2>7. Types'
    BY <1>1, <2>3, <2>4, Zenon DEF Types, tableVars
  <2>8. Holds'
    BY <2>3, <2>4, <2>5, <2>6, Zenon DEF DelayInv, Holds
  <2>9. SkipsOnlyDuringFillup'
    BY <2>3, <2>5, <2>6, Zenon DEF SkipsOnlyDuringFillup
  <2>10. FillReaches'
    <3> SUFFICES ASSUME NEW q \in Proc, pc'[q] = "filling"
                 PROVE  /\ Reaches(last_tile_fillup, req[q].tiles_topup, tile_rate)'
                        /\ Reaches(last_render_fillup, req[q].render_topup, render_rate)'
      BY Zenon DEF FillReaches
    <3>1. q = p
      BY <2>5, <2>6, Zenon
    <3> QED
      BY <3>1, <2>2, <2>4, <1>1, Zenon DEF Reaches, tableVars
  <2> QED
    BY <1>1, <2>7, <2>8, <2>9, <2>10, Zenon DEF DelayInv
<1> QED
  BY <1>2, <1>3, Zenon

(* The three outcomes of a pass of the loop: tokens move from a bucket to  *)
(* its history, and the request leaves the mutex or goes on to fill up.    *)
LEMMA TakeKeepsInv ==
    ASSUME DelayInv, NEW p \in Proc, TakeAllowed(p) \/ TakeFirst(p) \/ TakeAgain(p)
    PROVE  DelayInv'
PROOF
<1> Types
  BY Zenon DEF DelayInv
<1>1. pc[p] = "take" /\ TakeTokens(p)
  BY Zenon DEF TakeAllowed, TakeFirst, TakeAgain
<1>2. /\ delaypool_mutex = p /\ ~locked /\ req[p].ip \in Ip
      /\ \A q \in Proc : q # p => pc[q] \notin {"take", "fill", "filling"}
  BY <1>1, OneAtWork, Zenon
<1>3. PICK k \in Key : k = keyOf(p)
  BY <1>1, OneAtWork, Zenon
<1>4. PICK u \in Bucket, h \in History : u = users[k] /\ h = hist[k]
  BY Zenon DEF Types
<1>5. /\ u.available_tiles \in 0..tile_size /\ u.available_render_req \in 0..render_size
      /\ u.ip_addr \in Ip \cup {nobody}
      /\ h.tiles \in Nat /\ h.renders \in Nat /\ h.since \in Nat
      /\ last_tile_fillup \in Nat /\ last_render_fillup \in Nat
  BY Zenon DEF Bucket, History, Types
<1>6. PICK tt \in {0, 1}, rt \in {0, 1} :
         /\ tt = tileToken(p) /\ tt <= u.available_tiles
         /\ rt = renderToken(p) /\ rt <= u.available_render_req
  BY <1>3, <1>4, <1>5 DEF tileToken, renderToken, bucket
<1>7. /\ Credit(h.tiles, u.available_tiles, tile_size, tile_rate, h.since, last_tile_fillup)
      /\ Credit(h.renders, u.available_render_req, render_size, render_rate, h.since, last_render_fillup)
  BY <1>4, Zenon DEF DelayInv, Credits
<1>8. /\ u.available_tiles - tt \in 0..tile_size
      /\ Credit(h.tiles + tt, u.available_tiles - tt, tile_size, tile_rate, h.since, last_tile_fillup)
  BY <1>5, <1>6, <1>7, TakeCredit, ZenonT(60)
<1>9. /\ u.available_render_req - rt \in 0..render_size
      /\ Credit(h.renders + rt, u.available_render_req - rt, render_size, render_rate, h.since,
                last_render_fillup)
  BY <1>5, <1>6, <1>7, TakeCredit, Zenon
<1>10. PICK less, more :
          /\ less = [ip_addr |-> u.ip_addr, available_tiles |-> u.available_tiles - tt,
                     available_render_req |-> u.available_render_req - rt]
          /\ more = [since |-> h.since, tiles |-> h.tiles + tt, renders |-> h.renders + rt]
  BY Zenon
<1>11. /\ less \in Bucket /\ less.available_tiles = u.available_tiles - tt
       /\ less.available_render_req = u.available_render_req - rt
       /\ more \in History /\ more.since = h.since /\ more.tiles = h.tiles + tt /\ more.renders = h.renders + rt
  BY <1>5, <1>8, <1>9, <1>10 DEF Bucket, History
<1>12. /\ users' = [users EXCEPT ![k] = less] /\ hist' = [hist EXCEPT ![k] = more]
       /\ UNCHANGED <<last_tile_fillup, last_render_fillup, locked, now>>
  BY <1>1, <1>3, <1>4, <1>6, <1>10, Zenon DEF TakeTokens
<1>13. \A c \in Key : /\ c # k => users'[c] = users[c] /\ hist'[c] = hist[c]
                      /\ c = k => users'[c] = less /\ hist'[c] = more
  BY <1>12, Zenon DEF Types
<1>14. PICK l \in {"idle", "fill", "sleep"} : pc' = [pc EXCEPT ![p] = l] /\ (l = "fill" => delaypool_mutex' = delaypool_mutex)
  BY Zenon DEF TakeAllowed, TakeFirst, TakeAgain, Return, Goto
<1>15. /\ req' \in [Proc -> Request] /\ \A q \in Proc : q # p => req'[q] = req[q]
       /\ l # "idle" => req'[p].ip = req[p].ip
  <2>1. CASE TakeAllowed(p)
    <3>1. l = "idle" /\ req' = [req EXCEPT ![p] = Idle]
      BY <2>1, <1>14, Zenon DEF TakeAllowed, Return, Goto, Types
    <3> QED
      BY <3>1, IdleIsRequest, Zenon DEF Types
  <2>2. CASE TakeFirst(p)
    BY <2>2, Zenon DEF TakeFirst, Types
  <2>3. CASE TakeAgain(p)
    <3>1. SetLocals(p, req[p].j, now + CLIENT_PENALTY, 0, 0) /\ req[p].j \in Nat /\ now + CLIENT_PENALTY \in Nat
      BY <2>3 DEF TakeAgain, Types, Request
    <3> QED
      BY <3>1, LocalsFacts, Zenon
  <2> QED
    BY <2>1, <2>2, <2>3, Zenon
<1>16. \A q \in Proc : (q # p => pc'[q] = pc[q]) /\ (q = p => pc'[q] = l)
  BY <1>14, Zenon DEF Types
<1>17. Types'
  BY <1>12, <1>2, <1>11, <1>14, <1>15, Zenon DEF Types
<1>18. Holds'
  BY <1>2, <1>14, <1>15, <1>16, Zenon DEF DelayInv, Holds
<1>19. Clocks'
  <2>1. \A c \in Key : hist'[c].since = hist[c].since
    BY <1>4, <1>11, <1>13, Zenon
  <2> QED
    BY <2>1, <1>12, Zenon DEF DelayInv, Clocks
<1>20. FillReaches' /\ SkipsOnlyDuringFillup'
  BY <1>2, <1>12, <1>16, Zenon DEF FillReaches, SkipsOnlyDuringFillup
<1>21. Credits'
  <2> SUFFICES ASSUME NEW c \in Key
               PROVE  /\ Credit(hist'[c].tiles, users'[c].available_tiles, tile_size, tile_rate,
                                hist'[c].since, last_tile_fillup)
                      /\ Credit(hist'[c].renders, users'[c].available_render_req, render_size, render_rate,
                                hist'[c].since, last_render_fillup)
    BY <1>12, Zenon DEF Credits
  <2>1. CASE c # k
    BY <2>1, <1>13, Zenon DEF DelayInv, Credits
  <2>2. CASE c = k
    BY <2>2, <1>8, <1>9, <1>11, <1>13, Zenon
  <2> QED
    BY <2>1, <2>2, Zenon
<1> QED
  BY <1>17, <1>18, <1>19, <1>20, <1>21, Zenon DEF DelayInv

(* The end of a fill-up keeps the invariant: for each kind of token the    *)
(* clock of the fill-ups advances by what every bucket has been given.     *)
LEMMA EndFillKeepsInv == ASSUME DelayInv, NEW p \in Proc, EndFill(p) PROVE DelayInv'
PROOF
<1> Types
  BY Zenon DEF DelayInv
<1>1. /\ pc[p] = "filling" /\ Fill(req[p].tiles_topup, req[p].render_topup)
      /\ locked' = FALSE /\ UNCHANGED <<now, hist>>
  BY Zenon DEF EndFill
<1>2. /\ delaypool_mutex = p /\ req[p].ip \in Ip
      /\ \A q \in Proc : q # p => pc[q] \notin {"take", "fill", "filling"}
  BY <1>1, OneAtWork, Zenon
<1>3. PICK t \in Nat, r \in Nat : t = req[p].tiles_topup /\ r = req[p].render_topup
  BY Zenon DEF Types, Request
<1>4. Reaches(last_tile_fillup, t, tile_rate) /\ Reaches(last_render_fillup, r, render_rate)
  BY <1>1, <1>3, Zenon DEF DelayInv, FillReaches
<1>5. /\ last_tile_fillup' = last_tile_fillup + tile_rate * t
      /\ last_render_fillup' = last_render_fillup + render_rate * r
      /\ users' = IF t > 0 \/ r > 0 THEN [k \in Key |-> ToppedUp(users[k], t, r)] ELSE users
  BY <1>1, <1>3, Zenon DEF Fill
<1>6. ASSUME NEW k \in Key
      PROVE  /\ AtMost(users[k].available_tiles + t, tile_size) \in 0..tile_size
             /\ Credit(hist[k].tiles, AtMost(users[k].available_tiles + t, tile_size), tile_size, tile_rate,
                       hist[k].since, last_tile_fillup')
             /\ AtMost(users[k].available_render_req + r, render_size) \in 0..render_size
             /\ Credit(hist[k].renders, AtMost(users[k].available_render_req + r, render_size), render_size,
                       render_rate, hist[k].since, last_render_fillup')
  <2>1. /\ users[k].available_tiles \in 0..tile_size /\ users[k].available_render_req \in 0..render_size
        /\ hist[k].tiles \in Nat /\ hist[k].renders \in Nat /\ hist[k].since \in Nat
        /\ last_tile_fillup \in Nat /\ last_render_fillup \in Nat
    BY Zenon DEF Types, Bucket, History
  <2>2. /\ hist[k].since < last_tile_fillup + tile_rate * t + tile_rate
        /\ hist[k].since < last_render_fillup + render_rate * r + render_rate
    BY <1>4, Zenon DEF Reaches
  <2>3. /\ Credit(hist[k].tiles, users[k].available_tiles, tile_size, tile_rate, hist[k].since, last_tile_fillup)
        /\ Credit(hist[k].renders, users[k].available_render_req, render_size, render_rate, hist[k].since,
                  last_render_fillup)
    BY Zenon DEF DelayInv, Credits
  <2>4. /\ AtMost(users[k].available_tiles + t, tile_size) \in 0..tile_size
        /\ Credit(hist[k].tiles, AtMost(users[k].available_tiles + t, tile_size), tile_size, tile_rate,
                  hist[k].since, last_tile_fillup + tile_rate * t)
    BY <2>1, <2>2, <2>3, RefillCredit, Zenon
  <2>5. /\ AtMost(users[k].available_render_req + r, render_size) \in 0..render_size
        /\ Credit(hist[k].renders, AtMost(users[k].available_render_req + r, render_size), render_size,
                  render_rate, hist[k].since, last_render_fillup + render_rate * r)
    BY <2>1, <2>2, <2>3, RefillCredit, Zenon
  <2> QED
    BY <2>4, <2>5, <1>5, Zenon
<1>7. ASSUME NEW k \in Key
      PROVE  /\ users'[k] \in Bucket
             /\ users'[k].available_tiles = AtMost(users[k].available_tiles + t, tile_size)
             /\ users'[k].available_render_req = AtMost(users[k].available_render_req + r, render_size)
  <2>1. users[k] \in Bucket
    BY Zenon DEF Types
  <2>2. CASE t > 0 \/ r > 0
    <3>1. users'[k] = ToppedUp(users[k], t, r)
      BY <2>2, <1>5, Zenon
    <3> QED
      BY <3>1, <2>1, <1>6 DEF ToppedUp, Bucket
  <2>3. CASE ~(t > 0 \/ r > 0)
    <3>1. t = 0 /\ r = 0 /\ users'[k] = users[k]
      BY <2>3, <1>5
    <3> QED
      BY <3>1, <2>1 DEF AtMost, Bucket
  <2> QED
    BY <2>2, <2>3, Zenon
<1>8. users' \in [Key -> Bucket]
  <2>1. users' = [k \in Key |-> users'[k]]
    BY <1>5, Zenon DEF Types
  <2> QED
    BY <2>1, <1>7, Zenon
<1>9. PICK l \in {"take", "idle"} : pc' = [pc EXCEPT ![p] = l] /\ (l = "take" => delaypool_mutex' = delaypool_mutex)
  BY Zenon DEF EndFill, Return, Goto
<1>10. /\ req' \in [Proc -> Request] /\ \A q \in Proc : q # p => req'[q] = req[q]
       /\ l # "idle" => req'[p].ip = req[p].ip
  <2>1. CASE req[p].j < 2
    <3>1. SetLocals(p, req[p].j + 1, 0, 0, 0) /\ req[p].j + 1 \in Nat
      BY <2>1 DEF EndFill, Types, Request
    <3> QED
      BY <3>1, LocalsFacts, Zenon
  <2>2. CASE ~(req[p].j < 2)
    <3>1. pc' = [pc EXCEPT ![p] = "idle"] /\ req' = [req EXCEPT ![p] = Idle]
      BY <2>2, Zenon DEF EndFill, Return, Goto
    <3>2. l = "idle"
      BY <3>1, <1>9, Zenon DEF Types
    <3> QED
      BY <3>1, <3>2, IdleIsRequest, Zenon DEF Types
  <2> QED
    BY <2>1, <2>2, Zenon
<1>11. \A q \in Proc : (q # p => pc'[q] = pc[q]) /\ (q = p => pc'[q] = l)
  BY <1>9, Zenon DEF Types
<1>12. last_tile_fillup' \in Nat /\ last_render_fillup' \in Nat
  <2>1. \A n, m \in Nat, c \in Nat : n + m * c \in Nat
    OBVIOUS
  <2> QED
    BY <2>1, <1>5, Zenon DEF Types
<1>13. Types'
  BY <1>1, <1>8, <1>9, <1>10, <1>12, Zenon DEF Types
<1>14. Holds'
  BY <1>2, <1>9, <1>10, <1>11, Zenon DEF DelayInv, Holds
<1>15. Clocks'
  BY <1>1, <1>4, <1>5, Zenon DEF DelayInv, Clocks, Reaches
<1>16. FillReaches' /\ SkipsOnlyDuringFillup'
  BY <1>1, <1>2, <1>11, Zenon DEF FillReaches, SkipsOnlyDuringFillup
<1>17. Credits'
  BY <1>1, <1>6, <1>7, Zenon DEF Credits
<1> QED
  BY <1>13, <1>14, <1>15, <1>16, <1>17, Zenon DEF DelayInv

(* Every step of the throttle keeps the invariant. *)
LEMMA DelayInvariant == DelaySpec => []DelayInv
PROOF
<1>1. DelayInv /\ [DelayNext]_delayVars => DelayInv'
  <2> SUFFICES ASSUME DelayInv, [DelayNext]_delayVars PROVE DelayInv'
    BY Zenon
  <2>1. CASE UNCHANGED delayVars
    <3>1. UNCHANGED <<users, last_tile_fillup, last_render_fillup, locked, delaypool_mutex, now, pc, req, hist>>
      BY <2>1, Zenon DEF delayVars, tableVars
    <3>2. Types' /\ Holds' /\ Clocks' /\ Credits' /\ SkipsOnlyDuringFillup'
      BY <3>1, Zenon DEF DelayInv, Types, Holds, Clocks, Credits, SkipsOnlyDuringFillup
    <3>3. FillReaches'
      BY <3>1, Zenon DEF DelayInv, FillReaches, Reaches
    <3> QED
      BY <3>2, <3>3, Zenon DEF DelayInv
  <2>2. CASE Tick
    BY <2>2, TickKeepsInv, Zenon
  <2>3. ASSUME NEW p \in Proc, Step(p) \/ \E ip \in Ip, missing \in BOOLEAN : Arrive(p, ip, missing)
        PROVE  DelayInv'
    BY <2>3, UnaccountedKeepsInv, CreateKeepsInv, EnterKeepsInv, TakeKeepsInv, EndFillKeepsInv, Zenon DEF Step
  <2> QED
    BY <2>1, <2>2, <2>3, Zenon DEF DelayNext
<1> QED
  BY <1>1, InitDelayInv, PTL DEF DelaySpec

(* The flag that switches accounting off for everybody is never left set:  *)
(* delay_allowed sets and clears it under delaypool_mutex, although it is  *)
(* read without it.                                                        *)
THEOREM AccountingIsResumed == DelaySpec => []SkipsOnlyDuringFillup
PROOF
<1>1. DelayInv => SkipsOnlyDuringFillup
  BY Zenon DEF DelayInv
<1> QED
  BY <1>1, DelayInvariant, PTL

(* The throttle keeps its rate: over the life of a bucket delay_allowed    *)
(* hands out at most two full buckets and one token more than what has     *)
(* arrived at the configured rate, whatever the sizes and the rates, and   *)
(* however requests, fill-ups and collisions in the table interleave.      *)
THEOREM ThrottleKeepsRate == DelaySpec => []RateBound
PROOF
<1>1. DelayInv => RateBound
  <2> SUFFICES ASSUME DelayInv, NEW k \in Key
               PROVE  /\ WithinRate(hist[k].tiles, users[k].available_tiles, tile_size, tile_rate, hist[k].since)
                      /\ WithinRate(hist[k].renders, users[k].available_render_req, render_size, render_rate,
                                    hist[k].since)
    BY Zenon DEF RateBound
  <2>1. /\ users[k].available_tiles \in 0..tile_size /\ users[k].available_render_req \in 0..render_size
        /\ hist[k].tiles \in Nat /\ hist[k].renders \in Nat /\ hist[k].since \in Nat
        /\ last_tile_fillup \in Nat /\ last_render_fillup \in Nat /\ now \in Nat
    BY Zenon DEF DelayInv, Types, Bucket, History
  <2>2. last_tile_fillup <= now /\ last_render_fillup <= now /\ hist[k].since <= now
    BY Zenon DEF DelayInv, Clocks
  <2>3. /\ Credit(hist[k].tiles, users[k].available_tiles, tile_size, tile_rate, hist[k].since, last_tile_fillup)
        /\ Credit(hist[k].renders, users[k].available_render_req, render_size, render_rate, hist[k].since,
                  last_render_fillup)
    BY Zenon DEF DelayInv, Credits
  <2>4. WithinRate(hist[k].tiles, users[k].available_tiles, tile_size, tile_rate, hist[k].since)
    BY <2>1, <2>2, <2>3, CreditIsRate, Zenon
  <2>5. WithinRate(hist[k].renders, users[k].available_render_req, render_size, render_rate, hist[k].since)
    BY <2>1, <2>2, <2>3, CreditIsRate, Zenon
  <2> QED
    BY <2>4, <2>5, Zenon
<1> QED
  BY <1>1, DelayInvariant, PTL

-----------------------------------------------------------------------------
(***************************************************************************)
(* renderd serves no client before every render thread has loaded every    *)
(* map, for any number of threads and maps.                                *)
(*                                                                         *)
(* The argument: the counter of a map is the number of threads that are    *)
(* past it with ok set, and such a thread stays so.  main adds up the maps *)
(* at different moments, but what it saw once remains true, so a round     *)
(* that counts every map has seen a state that still holds.                *)
(***************************************************************************)

Passed(m) == {t \in Thread : map[t] > m /\ ok[t][m]}
Ready(m) == Passed(m) = Thread

StartupTypes ==
    /\ main \in {"init", "spawn", "count", "loop", "exited"}
    /\ checking \in 1..(num_maps + 1)
    /\ total_maps_ok \in Nat
    /\ map \in [Thread -> 1..(num_maps + 1)]
    /\ at \in [Thread -> {"unborn", "next", "loading", "loaded", "serving"}]
    /\ ok \in [Thread -> [Map -> BOOLEAN]]
    /\ total_threads_ok \in [Map -> Nat]

(* What ok says about a thread: it is set while the thread loads a map,    *)
(* and not yet for those to come.                                          *)
ThreadInv(t) ==
    /\ at[t] \in {"loading", "loaded"} => map[t] \in Map /\ ok[t][map[t]]
    /\ \A m \in Map : m > map[t] => ~ok[t][m]
    /\ at[t] \in {"unborn", "next"} => \A m \in Map : m = map[t] => ~ok[t][m]

(* The inductive invariant. *)
StartupInv ==
    /\ StartupTypes
    /\ \A m \in Map : total_threads_ok[m] = Cardinality(Passed(m))
    /\ \A t \in Thread : ThreadInv(t)
    /\ main \in {"init", "spawn"} => \A t \in Thread : at[t] = "unborn"
    /\ total_maps_ok < checking
    /\ total_maps_ok = checking - 1 => \A m \in 1..(checking - 1) : Ready(m)
    /\ main = "loop" => total_maps_ok = num_maps /\ checking = num_maps + 1

(* What is needed of Cardinality; CountingHolds shows it at the end. *)
Counting ==
    /\ Cardinality({}) = 0
    /\ \A X \in SUBSET Thread :
          /\ \A t \in Thread \ X : Cardinality(X \cup {t}) = Cardinality(X) + 1
          /\ Cardinality(X) = Cardinality(Thread) => X = Thread

(* The invariant holds when renderd starts: no thread has passed a map. *)
LEMMA InitStartupInv == Counting /\ Init => StartupInv
PROOF
<1> SUFFICES ASSUME Counting, Init PROVE StartupInv
  BY Zenon
<1> USE StartupAssumption
<1>1. StartupTypes
  BY DEF Init, StartupTypes, Map
<1>2. \A m \in Map : Passed(m) = {}
  BY Zenon DEF Init, Passed, Map
<1>3. \A m \in Map : total_threads_ok[m] = Cardinality(Passed(m))
  BY <1>2, ZenonT(40) DEF Init, Counting
<1> QED
  BY <1>1, <1>3 DEF Init, StartupInv, StartupTypes, ThreadInv

(* A step of a thread that does not count itself leaves the sets of those  *)
(* that have passed a map as they are: it changes ok only for the map the  *)
(* thread is at, and leaves a map behind only with ok unset.               *)
LEMMA PassedUnchanged ==
    ASSUME StartupInv, NEW t \in Thread,
           map' \in [Thread -> 1..(num_maps + 1)], ok' \in [Thread -> [Map -> BOOLEAN]],
           \A u \in Thread : u # t => map'[u] = map[u] /\ ok'[u] = ok[u],
           \/ map'[t] = map[t]
           \/ map'[t] = map[t] + 1 /\ map[t] \in Map /\ ~ok'[t][map[t]],
           \A m \in Map : m # map[t] => ok'[t][m] = ok[t][m]
    PROVE  \A m \in Map : Passed(m)' = Passed(m)
PROOF
<1> SUFFICES ASSUME NEW m \in Map, NEW u \in Thread
             PROVE  (map'[u] > m /\ ok'[u][m]) <=> (map[u] > m /\ ok[u][m])
  BY Zenon DEF Passed
<1> map[t] \in 1..(num_maps + 1) /\ m \in Int /\ num_maps \in Nat
  BY StartupAssumption DEF StartupInv, StartupTypes, Map
<1>1. CASE u # t
  BY <1>1, Zenon
<1>2. CASE u = t
  <2>1. CASE m = map[t]
    BY <1>2, <2>1
  <2>2. CASE m # map[t]
    BY <1>2, <2>2
  <2> QED
    BY <2>1, <2>2, Zenon
<1> QED
  BY <1>1, <1>2, Zenon

(* A thread that counts itself is new among those that have passed its map *)
(* and changes no other map's set.                                         *)
LEMMA PassedCounts ==
    ASSUME StartupInv, NEW t \in Thread, Counts(t)
    PROVE  /\ map[t] \in Map /\ t \notin Passed(map[t])
           /\ \A m \in Map : m = map[t] => Passed(m)' = Passed(m) \cup {t}
           /\ \A m \in Map : m # map[t] => Passed(m)' = Passed(m)
PROOF
<1> map[t] \in Map /\ ok[t][map[t]] /\ num_maps \in Nat
  BY StartupAssumption, Zenon DEF StartupInv, ThreadInv, Counts
<1> map \in [Thread -> 1..(num_maps + 1)] /\ Map \subseteq Int /\ map[t] \in Int
  BY DEF StartupInv, StartupTypes, Map
<1>1. map' = [map EXCEPT ![t] = @ + 1] /\ ok' = ok
  BY Zenon DEF Counts, NextMap
<1>2. t \notin Passed(map[t])
  BY DEF Passed
<1>3. ASSUME NEW m \in Map, m # map[t]
      PROVE  Passed(m)' = Passed(m)
  <2> SUFFICES ASSUME NEW u \in Thread PROVE map'[u] > m <=> map[u] > m
    BY <1>1, Zenon DEF Passed
  <2>1. map[u] \in Int /\ m \in Int /\ map'[u] = IF u = t THEN map[u] + 1 ELSE map[u]
    BY <1>1
  <2> QED
    BY <1>3, <2>1
<1>4. ASSUME NEW m \in Map, m = map[t]
      PROVE  Passed(m)' = Passed(m) \cup {t}
  <2>1. \A u \in Thread : u # t => map'[u] = map[u]
    BY <1>1, Zenon
  <2>2. map'[t] = m + 1 /\ ok[t][m]
    BY <1>1, <1>4, Zenon
  <2>3. m + 1 > m
    BY <1>4
  <2>4. t \in Passed(m)'
    BY <2>2, <2>3, <1>1, Zenon DEF Passed
  <2>5. \A u \in Thread : u # t => (u \in Passed(m)' <=> u \in Passed(m))
    BY <2>1, <1>1, Zenon DEF Passed
  <2>6. Passed(m)' \subseteq Thread /\ Passed(m) \subseteq Thread
    BY Zenon DEF Passed
  <2> QED
    BY <2>4, <2>5, <2>6, Zenon
<1> QED
  BY <1>2, <1>3, <1>4, Zenon

(* What main has counted stays true while threads only join the sets. *)
LEMMA ReadyStays ==
    ASSUME NEW m \in Map, Ready(m), Passed(m) \subseteq Passed(m)'
    PROVE  Ready(m)'
PROOF
  BY Zenon DEF Ready, Passed

(* A counter that has reached the number of threads counts all of them. *)
LEMMA CountedIsReady ==
    ASSUME Counting, StartupInv, NEW m \in Map, total_threads_ok[m] = num_threads
    PROVE  Ready(m)
PROOF
<1>1. Passed(m) \in SUBSET Thread
  BY Zenon DEF Passed
<1>2. Cardinality(Passed(m)) = Cardinality(Thread)
  BY Zenon DEF StartupInv, num_threads
<1> QED
  BY <1>1, <1>2, Zenon DEF Ready, Counting

(* A step that leaves main and every counter and set of passed threads     *)
(* alone keeps the invariant if it keeps the types and what is true of the *)
(* threads.                                                                *)
LEMMA SameSetsKeepInv ==
    ASSUME StartupInv, StartupTypes', \A t \in Thread : ThreadInv(t)',
           UNCHANGED <<main, checking, total_maps_ok, total_threads_ok>>, main \notin {"init", "spawn"},
           \A m \in Map : Passed(m)' = Passed(m)
    PROVE  StartupInv'
PROOF
<1>1. \A m \in 1..(checking - 1) : m \in Map
  BY StartupAssumption DEF StartupInv, StartupTypes, Map
<1>2. \A m \in Map : Ready(m)' <=> Ready(m)
  BY Zenon DEF Ready
<1> QED
  BY <1>1, <1>2, Zenon DEF StartupInv

(* The steps of a render thread keep the invariant. *)
LEMMA ThreadKeepsInv ==
    ASSUME Counting, StartupInv, NEW t \in Thread, render_thread(t)
    PROVE  StartupInv'
PROOF
<1> num_maps \in Nat /\ Map = 1..num_maps
  BY StartupAssumption, Zenon DEF Map
<1> StartupTypes /\ ThreadInv(t) /\ \A u \in Thread : ThreadInv(u)
  BY Zenon DEF StartupInv
<1> map[t] \in 1..(num_maps + 1) /\ map[t] \in Int
  BY DEF StartupTypes
<1> main \notin {"init", "spawn"}
  <2>1. at[t] # "unborn"
    BY Zenon DEF render_thread, Serves, NoStore, Lock, Loads, LoadThrows, FixupThrows, Counts
  <2> QED
    BY <2>1, Zenon DEF StartupInv
<1>1. CASE Serves(t)
  <2>1. UNCHANGED <<main, checking, total_maps_ok, total_threads_ok, map, ok>> /\ at' = [at EXCEPT ![t] = "serving"]
    BY <1>1, Zenon DEF Serves, GoTo, mainVars
  <2>2. StartupTypes' /\ \A u \in Thread : ThreadInv(u)'
    BY <2>1, Zenon DEF StartupTypes, ThreadInv
  <2> QED
    BY <2>1, <2>2, SameSetsKeepInv, Zenon DEF Passed
<1>2. CASE NoStore(t)
  <2>1. /\ UNCHANGED <<main, checking, total_maps_ok, total_threads_ok, ok>>
        /\ map[t] \in Map /\ at[t] = "next"
        /\ at' = [at EXCEPT ![t] = "next"] /\ map' = [map EXCEPT ![t] = @ + 1]
    BY <1>2, Zenon DEF NoStore, GoTo, NextMap, mainVars
  <2>2. StartupTypes'
    BY <2>1 DEF StartupTypes
  <2>3. \A u \in Thread : ThreadInv(u)'
    BY <2>1 DEF StartupTypes, ThreadInv
  <2>4. ~ok'[t][map[t]]
    BY <2>1, Zenon DEF ThreadInv
  <2>5. \A m \in Map : Passed(m)' = Passed(m)
    BY <2>1, <2>2, <2>4, PassedUnchanged, Zenon DEF StartupTypes
  <2> QED
    BY <2>1, <2>2, <2>3, <2>5, SameSetsKeepInv, Zenon
<1>3. CASE Lock(t)
  <2>1. /\ UNCHANGED <<main, checking, total_maps_ok, total_threads_ok, map>>
        /\ map[t] \in Map
        /\ at' = [at EXCEPT ![t] = "loading"] /\ ok' = [ok EXCEPT ![t][map[t]] = TRUE]
    BY <1>3, Zenon DEF Lock, GoTo, mainVars
  <2>2. StartupTypes'
    BY <2>1, Zenon DEF StartupTypes
  <2>3. \A u \in Thread : ThreadInv(u)'
    BY <2>1 DEF StartupTypes, ThreadInv
  <2>4. \A m \in Map : Passed(m)' = Passed(m)
    BY <2>1, <2>2, PassedUnchanged, ZenonT(40) DEF StartupTypes
  <2> QED
    BY <2>1, <2>2, <2>3, <2>4, SameSetsKeepInv, Zenon
<1>4. CASE Loads(t)
  <2>1. /\ UNCHANGED <<main, checking, total_maps_ok, total_threads_ok, map, ok>>
        /\ at[t] = "loading" /\ at' = [at EXCEPT ![t] = "loaded"]
    BY <1>4, Zenon DEF Loads, GoTo, mainVars
  <2>2. StartupTypes' /\ \A u \in Thread : ThreadInv(u)'
    BY <2>1, Zenon DEF StartupTypes, ThreadInv
  <2> QED
    BY <2>1, <2>2, SameSetsKeepInv, Zenon DEF Passed
<1>5. CASE LoadThrows(t) \/ FixupThrows(t)
  <2>1. /\ UNCHANGED <<main, checking, total_maps_ok, total_threads_ok>>
        /\ map[t] \in Map
        /\ at' = [at EXCEPT ![t] = "next"] /\ map' = [map EXCEPT ![t] = @ + 1]
        /\ ok' = [ok EXCEPT ![t][map[t]] = FALSE]
    BY <1>5, Zenon DEF LoadThrows, FixupThrows, Catch, GoTo, NextMap, mainVars, ThreadInv
  <2>2. StartupTypes'
    BY <2>1 DEF StartupTypes
  <2>3. \A u \in Thread : ThreadInv(u)'
    BY <2>1 DEF StartupTypes, ThreadInv
  <2>4. ~ok'[t][map[t]]
    BY <2>1, Zenon DEF StartupTypes
  <2>5. \A m \in Map : Passed(m)' = Passed(m)
    BY <2>1, <2>2, <2>4, PassedUnchanged, ZenonT(40) DEF StartupTypes
  <2> QED
    BY <2>1, <2>2, <2>3, <2>5, SameSetsKeepInv, Zenon
<1>6. CASE Counts(t)
  <2>1. /\ UNCHANGED <<main, checking, total_maps_ok, ok>>
        /\ map[t] \in Map
        /\ at' = [at EXCEPT ![t] = "next"] /\ map' = [map EXCEPT ![t] = @ + 1]
        /\ total_threads_ok' = [total_threads_ok EXCEPT ![map[t]] = @ + 1]
    BY <1>6, Zenon DEF Counts, GoTo, NextMap, mainVars, ThreadInv
  <2>2. StartupTypes'
    BY <2>1 DEF StartupTypes
  <2>3. \A u \in Thread : ThreadInv(u)'
    BY <2>1 DEF StartupTypes, ThreadInv
  <2>4. \A m \in Map : total_threads_ok'[m] = Cardinality(Passed(m)')
    <3> SUFFICES ASSUME NEW m \in Map PROVE total_threads_ok'[m] = Cardinality(Passed(m)')
      BY Zenon
    <3>1. Passed(m) \in SUBSET Thread
      BY Zenon DEF Passed
    <3>2. total_threads_ok[m] = Cardinality(Passed(m))
      BY Zenon DEF StartupInv
    <3>3. CASE m = map[t]
      <4>1. Passed(m)' = Passed(m) \cup {t} /\ t \notin Passed(m)
        BY <1>6, <3>3, PassedCounts, Zenon
      <4>2. Cardinality(Passed(m) \cup {t}) = Cardinality(Passed(m)) + 1
        BY <3>1, <4>1, Zenon DEF Counting
      <4> QED
        BY <2>1, <3>2, <3>3, <4>1, <4>2, Zenon DEF StartupTypes
    <3>4. CASE m # map[t]
      BY <1>6, <2>1, <3>2, <3>4, PassedCounts, Zenon DEF StartupTypes
    <3> QED
      BY <3>3, <3>4, Zenon
  <2>5. \A m \in Map : Ready(m) => Ready(m)'
    BY <1>6, PassedCounts, ReadyStays
  <2>6. \A m \in 1..(checking - 1) : m \in Map
    BY DEF StartupTypes
  <2> QED
    BY <2>1, <2>2, <2>3, <2>4, <2>5, <2>6, Zenon DEF StartupInv
<1> QED
  BY <1>1, <1>2, <1>3, <1>4, <1>5, <1>6, Zenon DEF render_thread

(* The steps of main that look at the counters keep the invariant. *)
LEMMA MainKeepsInv ==
    ASSUME Counting, StartupInv, CountMap \/ CountAgain \/ CreatePipe
    PROVE  StartupInv'
PROOF
<1> num_maps \in Nat /\ Map = 1..num_maps
  BY StartupAssumption, Zenon DEF Map
<1> StartupTypes /\ UNCHANGED threadVars
  BY Zenon DEF StartupInv, CountMap, CountAgain, CreatePipe
<1>1. /\ \A m \in Map : total_threads_ok'[m] = Cardinality(Passed(m)')
      /\ \A t \in Thread : ThreadInv(t)'
      /\ \A m \in Map : Ready(m)' <=> Ready(m)
  BY DEF StartupInv, ThreadInv, Passed, Ready, threadVars
<1>2. CASE CountMap
  <2>1. /\ main = "count" /\ main' = main /\ checking \in Map /\ checking' = checking + 1
        /\ total_maps_ok' = IF total_threads_ok[checking] = num_threads THEN total_maps_ok + 1 ELSE total_maps_ok
    BY <1>2, Zenon DEF CountMap
  <2>2. StartupTypes'
    BY <2>1 DEF StartupTypes, threadVars
  <2>3. total_maps_ok' < checking'
    BY <2>1 DEF StartupInv, StartupTypes
  <2>4. ASSUME total_maps_ok' = checking' - 1, NEW m \in 1..(checking' - 1)
        PROVE  Ready(m)'
    <3>1. total_maps_ok = checking - 1 /\ total_threads_ok[checking] = num_threads
      BY <2>1, <2>4 DEF StartupInv, StartupTypes
    <3>2. m \in Map /\ (m = checking \/ m \in 1..(checking - 1))
      BY <2>1 DEF StartupTypes
    <3>3. Ready(checking)
      BY <2>1, <3>1, CountedIsReady, Zenon
    <3>4. Ready(m)
      BY <3>1, <3>2, <3>3, Zenon DEF StartupInv
    <3> QED
      BY <1>1, <3>2, <3>4, Zenon
  <2> QED
    BY <1>1, <2>1, <2>2, <2>3, <2>4, Zenon DEF StartupInv
<1>3. CASE CountAgain
  <2>1. main = "count" /\ main' = main /\ checking' = 1 /\ total_maps_ok' = 0
    BY <1>3, Zenon DEF CountAgain, Restart
  <2>2. StartupTypes'
    BY <2>1 DEF StartupTypes, threadVars
  <2> QED
    BY <1>1, <2>1, <2>2 DEF StartupInv
<1>4. CASE CreatePipe
  <2>1. /\ main' = "loop" /\ checking \notin Map /\ total_maps_ok >= num_maps
        /\ UNCHANGED <<checking, total_maps_ok>>
    BY <1>4, Zenon DEF CreatePipe
  <2>2. StartupTypes'
    BY <2>1, Zenon DEF StartupTypes, threadVars
  <2>3. checking = num_maps + 1 /\ total_maps_ok = num_maps
    BY <2>1 DEF StartupInv, StartupTypes
  <2>4. \A m \in 1..(checking - 1) : m \in Map
    BY DEF StartupTypes
  <2> QED
    BY <1>1, <2>1, <2>2, <2>3, <2>4, Zenon DEF StartupInv
<1> QED
  BY <1>2, <1>3, <1>4, Zenon

(* Every step of renderd keeps the invariant. *)
LEMMA NextKeepsInv == Counting /\ StartupInv /\ [Next]_vars => StartupInv'
PROOF
<1> SUFFICES ASSUME Counting, StartupInv, [Next]_vars PROVE StartupInv'
  BY Zenon
<1> StartupTypes /\ \A t \in Thread : ThreadInv(t)
  BY Zenon DEF StartupInv
<1>1. CASE \E t \in Thread : render_thread(t)
  BY <1>1, ThreadKeepsInv, Zenon
<1>2. CASE CountMap \/ CountAgain \/ CreatePipe
  BY <1>2, MainKeepsInv, Zenon
<1>3. CASE Spawn
  <2>1. /\ main = "spawn" /\ main' = "count" /\ at' = [t \in Thread |-> "next"]
        /\ UNCHANGED <<checking, total_maps_ok, map, ok, total_threads_ok>>
    BY <1>3, Zenon DEF Spawn
  <2>2. \A t \in Thread : at[t] = "unborn"
    BY <2>1, Zenon DEF StartupInv
  <2>3. StartupTypes' /\ \A t \in Thread : ThreadInv(t)'
    BY <2>1, <2>2, Zenon DEF StartupTypes, ThreadInv
  <2>4. \A m : (Passed(m)' = Passed(m)) /\ (Ready(m)' <=> Ready(m))
    BY <2>1, Zenon DEF Passed, Ready
  <2> QED
    BY <2>1, <2>3, <2>4, Zenon DEF StartupInv
<1>4. CASE /\ UNCHANGED <<checking, total_maps_ok, at, map, ok, total_threads_ok>>
           /\ main' \in {main, "exited"} \/ (main = "init" /\ main' = "spawn")
  <2>1. StartupTypes' /\ \A t \in Thread : ThreadInv(t)'
    BY <1>4, Zenon DEF StartupTypes, ThreadInv
  <2>2. \A m : (Passed(m)' = Passed(m)) /\ (Ready(m)' <=> Ready(m))
    BY <1>4, Zenon DEF Passed, Ready
  <2> QED
    BY <1>4, <2>1, <2>2, Zenon DEF StartupInv
<1>5. ASSUME ~Spawn, ~(CountMap \/ CountAgain \/ CreatePipe), ~\E t \in Thread : render_thread(t)
      PROVE  /\ UNCHANGED <<checking, total_maps_ok, at, map, ok, total_threads_ok>>
             /\ main' \in {main, "exited"} \/ (main = "init" /\ main' = "spawn")
  BY <1>5, Zenon DEF Next, vars, mainThread, InstallHandlers, SetupFails, TimesOut, PipeFails, LoopExits, TimePasses,
     Killed, request_exit, stats_writeout_thread, Exit, mainVars, threadVars
<1> QED
  BY <1>1, <1>2, <1>3, <1>4, <1>5, Zenon

(* The invariant behind OneLoader and StatsFileWhole: unless it was        *)
(* unlocked by another, map_load_mutex is held by the thread that loads;   *)
(* and a file is renamed only after it was closed.                         *)
LoadInv ==
    /\ at \in [Thread -> {"unborn", "next", "loading", "loaded", "serving"}]
    /\ main \in {"init", "spawn"} => \A t \in Thread : at[t] = "unborn"
    /\ ~doubleUnlock => \A t \in Thread : at[t] = "loading" <=> mutex = t

WriteInv ==
    /\ stats_filename # "partial"
    /\ stats = "rename" => tmpName # "partial"

(* Every step of renderd keeps who holds map_load_mutex. *)
LEMMA LoadNext == ASSUME LoadInv, [Next]_vars PROVE LoadInv'
PROOF
<1> USE StartupAssumption
<1>1. CASE UNCHANGED threadVars /\ (main' \in {"init", "spawn"} => main \in {"init", "spawn"})
  BY <1>1, Zenon DEF threadVars, LoadInv
<1>2. CASE Spawn
  BY <1>2, Zenon DEF Spawn, LoadInv
<1>3. ASSUME NEW t \in Thread, render_thread(t) PROVE LoadInv'
  <2>1. main' = main /\ main \notin {"init", "spawn"}
    BY <1>3, Zenon DEF LoadInv, render_thread, Serves, NoStore, Lock, Loads, LoadThrows, FixupThrows, Counts,
        Catch, mainVars
  <2>2. CASE Serves(t) \/ NoStore(t) \/ Counts(t)
    <3>1. /\ UNCHANGED <<mutex, doubleUnlock>> /\ at[t] # "loading"
          /\ \E p \in {"serving", "next"} : at' = [at EXCEPT ![t] = p]
      BY <2>2, Zenon DEF Serves, NoStore, Counts, NextMap, GoTo
    <3> QED
      BY <2>1, <3>1, Zenon DEF LoadInv
  <2>3. CASE Lock(t)
    <3>1. mutex = Free /\ mutex' = t /\ doubleUnlock' = doubleUnlock /\ at' = [at EXCEPT ![t] = "loading"]
      BY <2>3, Zenon DEF Lock, GoTo
    <3> QED
      BY <2>1, <3>1, Zenon DEF LoadInv
  <2>4. CASE Loads(t) \/ LoadThrows(t)
    <3>1. mutex' = Free /\ at[t] = "loading" /\ (doubleUnlock => doubleUnlock')
      <4>1. CASE Loads(t)
        BY <4>1, Zenon DEF Loads
      <4>2. CASE LoadThrows(t)
        BY <4>2, Zenon DEF LoadThrows, Catch
      <4> QED
        BY <2>4, <4>1, <4>2, Zenon
    <3>2. PICK p \in {"loaded", "next"} : at' = [at EXCEPT ![t] = p]
      BY <2>4, Zenon DEF Loads, LoadThrows, Catch, NextMap, GoTo
    <3>3. /\ at' \in [Thread -> {"unborn", "next", "loading", "loaded", "serving"}]
          /\ at'[t] # "loading" /\ \A u \in Thread \ {t} : at'[u] = at[u]
      BY <3>2, Zenon DEF LoadInv
    <3>4. ~doubleUnlock' => \A u \in Thread : at'[u] # "loading" /\ mutex' # u
      BY <3>1, <3>3, ZenonT(40) DEF LoadInv
    <3> QED
      BY <2>1, <3>3, <3>4, ZenonT(40) DEF LoadInv
  <2>5. CASE FixupThrows(t)
    <3>1. /\ at[t] = "loaded" /\ doubleUnlock' = (doubleUnlock \/ mutex # t)
          /\ at' = [at EXCEPT ![t] = "next"]
      BY <2>5, Zenon DEF FixupThrows, Catch, NextMap, GoTo
    <3>2. doubleUnlock'
      BY <3>1, Zenon DEF LoadInv
    <3> QED
      BY <2>1, <3>1, <3>2, Zenon DEF LoadInv
  <2> QED
    BY <1>3, <2>2, <2>3, <2>4, <2>5, Zenon DEF render_thread
<1> QED
  BY <1>1, <1>2, <1>3, Zenon DEF Next, vars, mainThread, InstallHandlers, SetupFails, CountMap, CountAgain, TimesOut,
     CreatePipe, PipeFails, LoopExits, TimePasses, Killed, request_exit, stats_writeout_thread, Exit, mainVars

(* stats_writeout_thread renames only a file it has closed, and no other   *)
(* step touches the files.                                                 *)
LEMMA WriteNext == ASSUME WriteInv, [Next]_vars PROVE WriteInv'
PROOF
<1>1. CASE UNCHANGED statsVars
  BY <1>1, Zenon DEF statsVars, WriteInv
<1>2. CASE stats_writeout_thread
  BY <1>2, Zenon DEF stats_writeout_thread, StatsOpen, StatsClose, StatsRename, StatsSleep, Fails, WriteInv
<1>3. CASE Spawn
  BY <1>3, Zenon DEF Spawn, WriteInv
<1>4. CASE \E t \in Thread : render_thread(t)
  BY <1>1, <1>4, Zenon DEF render_thread, Serves, NoStore, Lock, Loads, LoadThrows, FixupThrows, Catch, Counts
<1> QED
  BY <1>1, <1>2, <1>3, <1>4, Zenon DEF Next, vars, mainThread, InstallHandlers, SetupFails, CountMap, CountAgain,
     TimesOut, CreatePipe, PipeFails, LoopExits, TimePasses, Killed, request_exit

-----------------------------------------------------------------------------
(* Counting threads; and the theorems about Startup. *)

INSTANCE FiniteSetTheorems

(* What was used of Cardinality. *)
LEMMA CountingHolds == Counting
PROOF
<1>1. ASSUME NEW X \in SUBSET Thread
      PROVE  /\ \A t \in Thread \ X : Cardinality(X \cup {t}) = Cardinality(X) + 1
             /\ Cardinality(X) = Cardinality(Thread) => X = Thread
  <2>1. IsFiniteSet(X) /\ (Cardinality(X) = Cardinality(Thread) => X = Thread)
    BY StartupAssumption, FS_Subset, Zenon
  <2> QED
    BY <2>1, FS_AddElement, Zenon
<1> QED
  BY <1>1, FS_EmptySet, Zenon DEF Counting

(* Whatever the threads do while main adds up their counters, no client is *)
(* served before every thread has loaded every map: so no request meets a  *)
(* map that "failed to load" in gen_tile.cpp.                              *)
THEOREM ServedOnlyWhenReady == Spec => []StartsReady
PROOF
<1>1. StartupInv => StartsReady
  <2> SUFFICES ASSUME StartupInv, main = "loop", NEW t \in Thread, NEW m \in Map
               PROVE  ok[t][m] /\ map[t] > m
    BY Zenon DEF StartsReady
  <2>1. num_maps \in Nat /\ total_maps_ok = checking - 1 /\ m \in 1..(checking - 1)
    BY StartupAssumption DEF StartupInv, Map
  <2>2. Ready(m)
    BY <2>1, Zenon DEF StartupInv
  <2> QED
    BY <2>2, Zenon DEF Ready, Passed
<1> QED
  BY <1>1, CountingHolds, InitStartupInv, NextKeepsInv, PTL DEF Spec

(* At most one thread at a time is inside mapnik::load_map, whichever      *)
(* loads fail, until some thread unlocks a mutex that is not its own.      *)
THEOREM OneThreadLoads == Spec => []OneLoader
PROOF
<1>1. Init => LoadInv
  BY StartupAssumption, Zenon DEF Init, LoadInv
<1>2. LoadInv => OneLoader
  <2> SUFFICES ASSUME \A t \in Thread : at[t] = "loading" <=> mutex = t
               PROVE  Cardinality({t \in Thread : at[t] = "loading"}) <= 1
    BY Zenon DEF LoadInv, OneLoader
  <2>1. {t \in Thread : at[t] = "loading"} \in SUBSET {mutex}
    BY Zenon
  <2>2. IsFiniteSet({mutex}) /\ Cardinality({mutex}) = 1
    BY FS_Singleton, Zenon
  <2>3. Cardinality({t \in Thread : at[t] = "loading"}) <= Cardinality({mutex})
    BY <2>1, <2>2, FS_Subset, Zenon
  <2> QED
    BY <2>2, <2>3, Zenon
<1> QED
  BY <1>1, <1>2, LoadNext, PTL DEF Spec

(* The statistics file that other programs read is never one that is still *)
(* being written, at whatever moment renderd ends.                         *)
THEOREM StatsFileNeverPartial == Spec => []StatsFileWhole
PROOF
<1>1. Init => WriteInv
  BY Zenon DEF Init, WriteInv
<1>2. WriteInv => StatsFileWhole
  BY Zenon DEF WriteInv, StatsFileWhole
<1> QED
  BY <1>1, <1>2, WriteNext, PTL DEF Spec
=============================================================================
