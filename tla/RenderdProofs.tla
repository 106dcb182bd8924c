--------------------------- MODULE RenderdProofs ---------------------------
(***************************************************************************)
(* Proofs about the daemon (Renderd, RenderdSlaves): it uses the queue     *)
(* only by the steps of RequestQueue, so everything proved of the queue    *)
(* holds inside it; the poll array and the descriptors agree; no request   *)
(* gets an answer twice, nor one that another client waits for; and every  *)
(* step is a step of RenderService, which is what clients see.             *)
(***************************************************************************)
EXTENDS ProcessLoopProofs

-----------------------------------------------------------------------------
(* The requests *)

(* What a thread has still to answer are requests. *)
LEMMA RestIsRequests ==
    ASSUME DaemonTypes, NEW t \in Thread
    PROVE  Range(rest[t]) \subseteq Request
BY RangeOfChain, Zenon DEF DaemonTypes

(* The requests keep their clients in a step that takes no request further *)
(* and gives no descriptor in use to another connection: one that loses    *)
(* its connection is cleared from the queue.                               *)
LEMMA RequestsKept ==
    ASSUME DaemonTypes, RequestsInv, fd \in [Request -> Fd \cup {FD_INVALID}],
           UNCHANGED <<life, sender, answers, rest>>,
           \A r \in Request : fd'[r] \in {fd[r], FD_INVALID},
           \A c \in Conn : conn[c] = "closed" => conn'[c] = "closed",
           \A f \in Fd : fdConn[f] # NoConn =>
              \/ fdConn'[f] = fdConn[f]
              \/ /\ conn'[fdConn[f]] = "closed"
                 /\ \A r \in Request : life[r] = "queued" => fd'[r] # f
    PROVE  RequestsInv'
<1>1. SenderInv'
  BY Zenon DEF RequestsInv, SenderInv
<1>2. RestInv'
  BY ZenonT(60) DEF RequestsInv, RestInv, NoRepeats
<1>3. \A r \in Request : InFlight(r)' <=> InFlight(r)
  BY Zenon DEF InFlight
<1>4. \A r \in Request : InFlight(r) => sender[r] \in Conn
  BY Zenon DEF RequestsInv, RestInv, SenderInv, InFlight
<1>5. ASSUME NEW r \in Request, fd'[r] # FD_INVALID
      PROVE  fd'[r] = fd[r] /\ fd[r] \in Fd
  BY <1>5, Zenon
<1>6. ASSUME NEW r \in Request, life[r] = "queued", fd'[r] # FD_INVALID
      PROVE  fdConn'[fd'[r]] = sender[r]
  <2>1. fd'[r] = fd[r] /\ fd[r] \in Fd /\ fd[r] # FD_INVALID
    BY <1>5, <1>6, Zenon
  <2>2. fdConn[fd[r]] = sender[r] /\ sender[r] \in Conn
    BY <1>4, <1>6, <2>1, Zenon DEF RequestsInv, QueuedFdCurrent, InFlight
  <2>3. fdConn[fd[r]] # NoConn
    BY <2>2, RenderdAssumption
  <2> QED BY <1>6, <2>1, <2>2, <2>3, Zenon
<1>7. QueuedFdCurrent'
  BY <1>6, Zenon DEF QueuedFdCurrent
<1>8. ASSUME NEW r \in Request, InFlight(r), fd'[r] # FD_INVALID
      PROVE  /\ answers[r] = <<>>
             /\ fdConn'[fd'[r]] = sender[r] \/ conn'[sender[r]] = "closed"
  <2>1. fd'[r] = fd[r] /\ fd[r] \in Fd /\ fd[r] # FD_INVALID
    BY <1>5, <1>8, Zenon
  <2>2. /\ answers[r] = <<>> /\ sender[r] \in Conn
        /\ fdConn[fd[r]] = sender[r] \/ conn[sender[r]] = "closed"
    BY <1>4, <1>8, <2>1, Zenon DEF RequestsInv, AnswerInv
  <2>3. CASE conn[sender[r]] = "closed"
    BY <2>2, <2>3, Zenon
  <2>4. CASE fdConn[fd[r]] = sender[r]
    <3>1. fdConn[fd[r]] # NoConn
      BY <2>2, <2>4, RenderdAssumption
    <3> QED BY <2>1, <2>2, <2>4, <3>1, Zenon
  <2> QED BY <2>2, <2>3, <2>4, Zenon
<1>9. AnswerInv'
  BY <1>3, <1>8, Zenon DEF AnswerInv
<1>10. OneAnswerToItsClient'
  <2> SUFFICES ASSUME NEW r \in Request
               PROVE  /\ Len(answers[r]) <= 1
                      /\ \A c \in Range(answers[r]) : c = sender[r] \/ conn'[sender[r]] = "closed"
    BY Zenon DEF OneAnswerToItsClient
  <2>1. /\ Len(answers[r]) <= 1
        /\ \A c \in Range(answers[r]) : c = sender[r] \/ conn[sender[r]] = "closed"
    BY Zenon DEF RequestsInv, OneAnswerToItsClient
  <2>2. CASE life[r] = "unborn"
    <3>1. Range(answers[r]) = {}
      BY <2>2 DEF RequestsInv, SenderInv, Range
    <3> QED BY <2>1, <3>1, Zenon
  <2>3. CASE life[r] # "unborn"
    <3>1. sender[r] \in Conn
      BY <2>3, Zenon DEF RequestsInv, SenderInv
    <3> QED BY <2>1, <3>1, Zenon
  <2> QED BY <2>2, <2>3, Zenon
<1> QED BY <1>1, <1>2, <1>7, <1>9, <1>10, Zenon DEF RequestsInv

(* A request just received has its client; one that is turned away has its *)
(* answer and waits for no other.                                          *)
LEMMA ReceiveRequests ==
    ASSUME QueueInv, DaemonTypes, SlotInv, RequestsInv, NEW i \in Slot, Receive(i)
    PROVE  RequestsInv'
<1>1. PICK f \in Fd, c \in Conn, n \in Request, a \in BOOLEAN, l \in {"queued", "gone"},
           g \in Fd \cup {FD_INVALID} :
         /\ life[n] = "unborn" /\ fdConn[f] = c
         /\ life' = [life EXCEPT ![n] = l]
         /\ fd' = [fd EXCEPT ![n] = g]
         /\ sender' = [sender EXCEPT ![n] = c]
         /\ answers' = [answers EXCEPT ![n] = IF a THEN Append(@, c) ELSE @]
         /\ l = "queued" => g \in {f, FD_INVALID}
         /\ l = "queued" /\ a => g = FD_INVALID
  <2>1. PICK t \in Tile, k \in ClientCmd, f \in Fd, c \in Conn, n \in Request :
           /\ n = arrived + 1 /\ life[n] = "unborn"
           /\ fdConn[f] = c /\ conn[c] = "accepted"
           /\ request_queue_add_request(t, k, ItemFd(k, f))
           /\ inbox' = [inbox EXCEPT ![c] = Tail(@)]
           /\ Tail(inbox[c]) \in Seq(Message)
           /\ sender' = [sender EXCEPT ![n] = c]
           /\ reqCmd' = [reqCmd EXCEPT ![n] = k]
           /\ answers' = [answers EXCEPT ![n] =
                 IF AddStatus(t, k) = "cmdNotDone" THEN Append(@, c) ELSE @]
    BY ReceiveFacts, ZenonT(60)
  <2>2. k \in Cmd /\ ItemFd(k, f) \in {f, FD_INVALID}
    BY ConstantsAssumption, Zenon DEF ItemFd
  <2>3. ItemFd(k, f) \in Fd \cup {FD_INVALID}
    BY <2>2, Zenon
  <2>4. PICK l \in {"queued", "gone"}, g \in Fd \cup {FD_INVALID} :
           /\ life' = [life EXCEPT ![n] = l]
           /\ fd' = [fd EXCEPT ![n] = g]
           /\ l = "queued" => g \in {ItemFd(k, f), FD_INVALID}
           /\ l = "queued" /\ AddStatus(t, k) = "cmdNotDone" => g = FD_INVALID
    BY <2>1, <2>2, <2>3, AddFacts, ZenonT(60)
  <2>5. l = "queued" => g \in {f, FD_INVALID}
    BY <2>2, <2>4, Zenon
  <2>6. PICK a \in BOOLEAN : a <=> AddStatus(t, k) = "cmdNotDone"
    BY Zenon
  <2>7. answers' = [answers EXCEPT ![n] = IF a THEN Append(@, c) ELSE @]
    BY <2>1, <2>6, Zenon
  <2> QED BY <2>1, <2>4, <2>5, <2>6, <2>7, ZenonT(60)
<1>2. UNCHANGED <<conn, fdConn, rest>>
  BY Zenon DEF Receive, workVars
<1>3. /\ life \in [Request -> {"unborn", "queued", "gone"}]
      /\ fd \in [Request -> Fd \cup {FD_INVALID}]
      /\ sender \in [Request -> Conn \cup {NoConn}]
      /\ answers \in [Request -> Seq(Conn)]
  BY Zenon DEF QueueInv, QueueTypeOK, DaemonTypes
<1>4. answers[n] = <<>>
  BY <1>1, Zenon DEF RequestsInv, SenderInv
<1>5. /\ life'[n] = l /\ fd'[n] = g /\ sender'[n] = c
      /\ answers'[n] = IF a THEN Append(<<>>, c) ELSE <<>>
      /\ \A r \in Request : r # n =>
            life'[r] = life[r] /\ fd'[r] = fd[r] /\ sender'[r] = sender[r] /\ answers'[r] = answers[r]
  BY <1>1, <1>3, <1>4, Zenon
<1>6. \A t \in Thread : n \notin Range(rest[t])
  BY <1>1, Zenon DEF RequestsInv, RestInv
<1>7. SenderInv'
  BY <1>1, <1>5, Zenon DEF RequestsInv, SenderInv
<1>8. RestInv'
  <2> SUFFICES ASSUME NEW t \in Thread
               PROVE  /\ NoRepeats(rest[t])
                      /\ \A r \in Range(rest[t]) :
                            life'[r] = "gone" /\ \A u \in Thread \ {t} : r \notin Range(rest[u])
    BY <1>2, Zenon DEF RestInv, NoRepeats
  <2>1. Range(rest[t]) \subseteq Request
    BY RestIsRequests, Zenon
  <2>2. /\ NoRepeats(rest[t])
        /\ \A r \in Range(rest[t]) :
              life[r] = "gone" /\ \A u \in Thread \ {t} : r \notin Range(rest[u])
    BY ZenonT(60) DEF RequestsInv, RestInv
  <2>3. \A r \in Range(rest[t]) : life'[r] = "gone"
    BY <1>5, <1>6, <2>1, <2>2
  <2> QED BY <2>2, <2>3, Zenon
<1>9. ASSUME NEW r \in Request, r # n PROVE InFlight(r)' <=> InFlight(r)
  BY <1>2, <1>5, <1>9, Zenon DEF InFlight
<1>10. InFlight(n)' => l = "queued"
  BY <1>2, <1>5, <1>6, Zenon DEF InFlight
<1>11. QueuedFdCurrent'
  <2> SUFFICES ASSUME NEW r \in Request, life'[r] = "queued", fd'[r] # FD_INVALID
               PROVE  fdConn[fd'[r]] = sender'[r]
    BY <1>2, Zenon DEF QueuedFdCurrent
  <2>1. CASE r = n
    BY <1>1, <1>5, <2>1
  <2>2. CASE r # n
    BY <1>5, <2>2, ZenonT(60) DEF RequestsInv, QueuedFdCurrent
  <2> QED BY <2>1, <2>2, Zenon
<1>12. AnswerInv'
  <2> SUFFICES ASSUME NEW r \in Request, InFlight(r)', fd'[r] # FD_INVALID
               PROVE  /\ answers'[r] = <<>>
                      /\ fdConn[fd'[r]] = sender'[r] \/ conn[sender'[r]] = "closed"
    BY <1>2, Zenon DEF AnswerInv
  <2>1. CASE r = n
    <3>1. l = "queued" /\ g = f /\ ~a
      BY <1>1, <1>5, <1>10, <2>1, Zenon
    <3> QED BY <1>1, <1>5, <2>1, <3>1, ZenonT(60)
  <2>2. CASE r # n
    BY <1>5, <1>9, <2>2, ZenonT(60) DEF RequestsInv, AnswerInv
  <2> QED BY <2>1, <2>2, Zenon
<1>13. OneAnswerToItsClient'
  <2> SUFFICES ASSUME NEW r \in Request
               PROVE  /\ Len(answers'[r]) <= 1
                      /\ \A d \in Range(answers'[r]) : d = sender'[r] \/ conn[sender'[r]] = "closed"
    BY <1>2, Zenon DEF OneAnswerToItsClient
  <2>1. CASE r = n
    <3>1. /\ Len(<<>>) = 0 /\ Range(<<>>) = {}
          /\ Append(<<>>, c) = <<c>> /\ Len(<<c>>) = 1 /\ Range(<<c>>) = {c}
      BY DEF Range
    <3>2. answers'[n] = <<>> \/ answers'[n] = <<c>>
      BY <1>5, <3>1, Zenon
    <3>3. Len(answers'[n]) <= 1
      <4>1. Len(<<>>) <= 1 /\ Len(<<c>>) <= 1
        OBVIOUS
      <4> QED BY <3>2, <4>1, Zenon
    <3>4. \A d \in Range(answers'[n]) : d = c
      BY <3>1, <3>2, Zenon
    <3> QED BY <1>5, <2>1, <3>3, <3>4, Zenon
  <2>2. CASE r # n
    BY <1>5, <2>2, Zenon DEF RequestsInv, OneAnswerToItsClient
  <2> QED BY <2>1, <2>2, Zenon
<1> QED BY <1>7, <1>8, <1>11, <1>12, <1>13, Zenon DEF RequestsInv

(* What a thread takes off the queue no other thread has. *)
LEMMA ReleaseRequests ==
    ASSUME QueueInv, DaemonTypes, RequestsInv,
           NEW t \in Thread, NEW time \in RenderTime, Release(t, time)
    PROVE  RequestsInv'
<1>1. request_queue_remove_request(job[t], time)
  BY Zenon DEF Release
<1>2. job[t] \in Request
  BY <1>1, Zenon DEF request_queue_remove_request, QueueInv, QueueTypeOK
<1>3. PICK s \in Seq(Request) :
         /\ s = Chain(job[t])
         /\ NoRepeats(s)
         /\ \A d \in Range(s) : d \in Request /\ life[d] = "queued" /\ life'[d] = "gone"
         /\ \A d \in Request : d \notin Range(s) => life'[d] = life[d]
         /\ fd' = fd
  BY <1>1, <1>2, RemoveFacts, ZenonT(60)
<1>4. rest' = [rest EXCEPT ![t] = s] /\ UNCHANGED <<conn, fdConn, sender, answers>>
  BY <1>3, ZenonT(60) DEF Release, clientVars, loopVars, history
<1>5. rest'[t] = s /\ \A u \in Thread : u # t => rest'[u] = rest[u]
  BY <1>4, Zenon DEF DaemonTypes
<1>6. \A r \in Request : life'[r] = life[r] \/ (life[r] = "queued" /\ life'[r] = "gone")
  BY <1>3, Zenon
<1>7. SenderInv'
  BY <1>4, <1>6, Zenon DEF RequestsInv, SenderInv
<1>8. \A u \in Thread : \A r \in Range(rest[u]) : r \in Request /\ life[r] = "gone"
  BY RestIsRequests, Zenon DEF RequestsInv, RestInv
<1>9. RestInv'
  <2> SUFFICES ASSUME NEW u \in Thread
               PROVE  /\ NoRepeats(rest'[u])
                      /\ \A r \in Range(rest'[u]) :
                            life'[r] = "gone" /\ \A v \in Thread \ {u} : r \notin Range(rest'[v])
    BY ZenonT(40) DEF RestInv, NoRepeats
  <2>1. CASE u = t
    BY <1>3, <1>5, <1>8, <2>1, Zenon
  <2>2. CASE u # t
    <3>1. /\ NoRepeats(rest[u])
          /\ \A r \in Range(rest[u]) : \A v \in Thread \ {u} : r \notin Range(rest[v])
      BY ZenonT(60) DEF RequestsInv, RestInv
    <3>2. \A r \in Range(rest[u]) : life'[r] = "gone" /\ r \notin Range(s)
      BY <1>3, <1>6, <1>8, ZenonT(60)
    <3> QED BY <1>5, <2>2, <3>1, <3>2, Zenon
  <2> QED BY <2>1, <2>2, Zenon
<1>10. ASSUME NEW r \in Request, InFlight(r)' PROVE InFlight(r)
  BY <1>3, <1>5, <1>6, <1>10, ZenonT(60) DEF InFlight
<1>11. QueuedFdCurrent'
  BY <1>3, <1>4, <1>6, Zenon DEF RequestsInv, QueuedFdCurrent
<1>12. AnswerInv'
  BY <1>3, <1>4, <1>10, Zenon DEF RequestsInv, AnswerInv
<1>13. OneAnswerToItsClient'
  BY <1>4, Zenon DEF RequestsInv, OneAnswerToItsClient
<1> QED BY <1>7, <1>9, <1>11, <1>12, <1>13, Zenon DEF RequestsInv

(* The request a thread answers is done with: no thread has it any more.   *)
(* Its answer is its first, and goes to its client or, when that has gone, *)
(* to whoever has the descriptor now.                                      *)
LEMMA SendRequests ==
    ASSUME QueueInv, DaemonTypes, RequestsInv, NEW t \in Thread, SendNext(t)
    PROVE  RequestsInv'
<1>1. PICK s \in Seq(Request) : s = rest[t] /\ s # <<>>
  BY Zenon DEF SendNext, DaemonTypes
<1>2. PICK r \in Request : r = Head(s)
  BY <1>1
<1>3. /\ rest' = [rest EXCEPT ![t] = Tail(s)]
      /\ answers' = [answers EXCEPT ![r] =
            IF AnswerFd(t) # FD_INVALID /\ reqCmd[r] # "cmdDirty" /\ fdConn[AnswerFd(t)] # NoConn
            THEN Append(@, fdConn[AnswerFd(t)]) ELSE @]
      /\ AnswerFd(t) = fd[r]
      /\ UNCHANGED <<life, fd, conn, fdConn, sender>>
  BY <1>1, <1>2, ZenonT(60) DEF SendNext, AnswerFd, queueVars, itemVars, clientVars, loopVars
<1>4. /\ rest'[t] = Tail(s) /\ \A u \in Thread : u # t => rest'[u] = rest[u]
      /\ \A q \in Request : q # r => answers'[q] = answers[q]
  BY <1>2, <1>3, Zenon DEF DaemonTypes
<1>5. /\ NoRepeats(s)
      /\ \A q \in Range(s) : life[q] = "gone" /\ \A u \in Thread \ {t} : q \notin Range(rest[u])
  BY <1>1, <1>3, ZenonT(60) DEF RequestsInv, RestInv
<1>6. /\ Tail(s) \in Seq(Request) /\ NoRepeats(Tail(s))
      /\ Range(Tail(s)) \subseteq Range(s)
      /\ r \in Range(s) /\ r \notin Range(Tail(s))
  BY <1>1, <1>2, <1>5, TakeHead, ZenonT(60)
<1>7. RestInv'
  <2> SUFFICES ASSUME NEW u \in Thread
               PROVE  /\ NoRepeats(rest'[u])
                      /\ \A q \in Range(rest'[u]) :
                            life[q] = "gone" /\ \A v \in Thread \ {u} : q \notin Range(rest'[v])
    BY <1>3, ZenonT(60) DEF RestInv, NoRepeats
  <2>1. CASE u = t
    BY <1>4, <1>5, <1>6, <2>1, ZenonT(60)
  <2>2. CASE u # t
    <3>1. /\ NoRepeats(rest[u])
          /\ \A q \in Range(rest[u]) :
                life[q] = "gone" /\ \A v \in Thread \ {u} : q \notin Range(rest[v])
      BY ZenonT(60) DEF RequestsInv, RestInv
    <3>2. \A q \in Range(rest[u]) : q \notin Range(Tail(s))
      BY <1>1, <1>3, <1>6, <2>2, <3>1, ZenonT(60)
    <3> QED BY <1>4, <2>2, <3>1, <3>2, ZenonT(60)
  <2> QED BY <2>1, <2>2, Zenon
<1>8. life[r] = "gone" /\ InFlight(r)
  BY <1>1, <1>3, <1>5, <1>6, Zenon DEF InFlight
<1>9. ~InFlight(r)'
  BY <1>3, <1>4, <1>5, <1>6, <1>8, ZenonT(40) DEF InFlight
<1>10. ASSUME NEW q \in Request, InFlight(q)' PROVE InFlight(q) /\ q # r
  BY <1>1, <1>3, <1>4, <1>6, <1>9, <1>10, ZenonT(60) DEF InFlight
<1>11. SenderInv'
  BY <1>3, <1>4, <1>8, ZenonT(60) DEF RequestsInv, SenderInv
<1>12. QueuedFdCurrent'
  BY <1>3, ZenonT(60) DEF RequestsInv, QueuedFdCurrent
<1>13. AnswerInv'
  BY <1>3, <1>4, <1>10, Zenon DEF RequestsInv, AnswerInv
<1>14. OneAnswerToItsClient'
  <2> SUFFICES ASSUME NEW q \in Request
               PROVE  /\ Len(answers'[q]) <= 1
                      /\ \A d \in Range(answers'[q]) : d = sender[q] \/ conn[sender[q]] = "closed"
    BY <1>3, Zenon DEF OneAnswerToItsClient
  <2>0. /\ Len(answers[q]) <= 1
        /\ \A d \in Range(answers[q]) : d = sender[q] \/ conn[sender[q]] = "closed"
    BY Zenon DEF RequestsInv, OneAnswerToItsClient
  <2>1. CASE answers'[q] = answers[q]
    BY <2>0, <2>1, ZenonT(60)
  <2>2. CASE answers'[q] # answers[q]
    <3>1. q = r
      BY <1>4, <2>2, Zenon
    <3>2. /\ fd[r] # FD_INVALID
          /\ answers' = [answers EXCEPT ![r] = Append(@, fdConn[fd[r]])]
      BY <1>3, <2>2, <3>1, ZenonT(60) DEF DaemonTypes
    <3>3. /\ answers[r] = <<>>
          /\ fdConn[fd[r]] = sender[r] \/ conn[sender[r]] = "closed"
      BY <1>8, <3>2, ZenonT(60) DEF RequestsInv, AnswerInv
    <3>4. PICK c : c = fdConn[fd[r]]
      BY Zenon
    <3>5. answers'[r] = Append(<<>>, c)
      BY <1>2, <3>2, <3>3, <3>4, ZenonT(60) DEF DaemonTypes
    <3>6. Append(<<>>, c) = <<c>> /\ Len(<<c>>) <= 1 /\ \A d \in Range(<<c>>) : d = c
      BY DEF Range
    <3>7. answers'[r] = <<c>>
      BY <3>5, <3>6, ZenonT(60)
    <3> QED BY <3>1, <3>3, <3>4, <3>6, <3>7, ZenonT(60)
  <2> QED BY <2>1, <2>2, Zenon
<1> QED BY <1>7, <1>11, <1>12, <1>13, <1>14, Zenon DEF RequestsInv

(* Every step keeps what is known of the requests. *)
LEMMA RequestsNext ==
    ASSUME QueueInv, DaemonTypes, SlotInv, RequestsInv, DaemonStep
    PROVE  RequestsInv'
<1>0. fd \in [Request -> Fd \cup {FD_INVALID}]
  BY Zenon DEF QueueInv, QueueTypeOK
<1>1. ASSUME UNCHANGED <<life, fd, sender, answers, rest, conn, fdConn>> PROVE RequestsInv'
  BY <1>0, <1>1, RequestsKept, ZenonT(60)
<1>2. ASSUME NEW c \in Conn, Connect(c) PROVE RequestsInv'
  <2>1. conn[c] = "new" /\ conn' = [conn EXCEPT ![c] = "backlog"]
    BY <1>2, Zenon DEF Connect
  <2>2. \A d \in Conn : conn[d] = "closed" => conn'[d] = "closed"
    BY <2>1, Zenon DEF DaemonTypes
  <2>3. UNCHANGED <<life, fd, sender, answers, rest, fdConn>>
    BY <1>2, ZenonT(60) DEF Connect, queueVars, itemVars, loopVars, workVars, history
  <2> QED BY <1>0, <2>2, <2>3, RequestsKept, ZenonT(60)
<1>3. ASSUME NEW c \in Conn, NEW f \in Fd, Accept(c, f) PROVE RequestsInv'
  <2>1. /\ conn[c] = "backlog" /\ conn' = [conn EXCEPT ![c] = "accepted"]
        /\ fdConn[f] = NoConn /\ fdConn' = [fdConn EXCEPT ![f] = c]
    BY <1>3, Zenon DEF Accept, Backlog, FreeFds
  <2>2. \A d \in Conn : conn[d] = "closed" => conn'[d] = "closed"
    BY <2>1, Zenon DEF DaemonTypes
  <2>3. \A g \in Fd : fdConn[g] # NoConn => fdConn'[g] = fdConn[g]
    BY <2>1, Zenon DEF DaemonTypes
  <2>4. UNCHANGED <<life, fd, sender, answers, rest>>
    BY <1>3, ZenonT(60) DEF Accept, queueVars, itemVars, workVars, history
  <2> QED BY <1>0, <2>2, <2>3, <2>4, RequestsKept, ZenonT(60)
<1>4. ASSUME NEW c \in Conn, AcceptDrops(c) PROVE RequestsInv'
  <2>1. conn' = [conn EXCEPT ![c] = "closed"]
    BY <1>4, Zenon DEF AcceptDrops
  <2>2. \A d \in Conn : conn[d] = "closed" => conn'[d] = "closed"
    BY <2>1, Zenon DEF DaemonTypes
  <2>3. UNCHANGED <<life, fd, sender, answers, rest, fdConn>>
    BY <1>4, ZenonT(60) DEF AcceptDrops, queueVars, itemVars, workVars, history
  <2> QED BY <1>0, <2>2, <2>3, RequestsKept, ZenonT(60)
<1>5. ASSUME NEW i \in Slot, CloseSlot(i) PROVE RequestsInv'
  <2>1. PICK f \in Fd, c \in Conn :
           /\ fdConn[f] = c
           /\ request_queue_clear_requests_by_fd(f)
           /\ conn' = [conn EXCEPT ![c] = "closed"]
           /\ fdConn' = [fdConn EXCEPT ![f] = NoConn]
    BY <1>5, AtSlotFacts, ZenonT(60) DEF CloseSlot
  <2>2. /\ life' = life
        /\ \A r \in Request : fd'[r] \in {fd[r], FD_INVALID}
        /\ \A r \in Request : life'[r] = "queued" => fd'[r] # f
    BY <2>1, ClearFacts, ZenonT(60)
  <2>3. \A d \in Conn : conn[d] = "closed" => conn'[d] = "closed"
    BY <2>1, ZenonT(60) DEF DaemonTypes
  <2>4. \A g \in Fd : fdConn[g] # NoConn =>
           \/ fdConn'[g] = fdConn[g]
           \/ conn'[fdConn[g]] = "closed" /\ \A r \in Request : life[r] = "queued" => fd'[r] # g
    BY <2>1, <2>2, Zenon DEF DaemonTypes
  <2>5. UNCHANGED <<sender, answers, rest>>
    BY <1>5, ZenonT(60) DEF CloseSlot, workVars, history
  <2> QED BY <1>0, <2>2, <2>3, <2>4, <2>5, RequestsKept, ZenonT(60)
<1>6. ASSUME NEW i \in Slot, Receive(i) PROVE RequestsInv'
  BY <1>6, ReceiveRequests, Zenon
<1>7. ASSUME NEW t \in Thread, ThreadStep(t) PROVE RequestsInv'
  <2>1. CASE WorkerWaits(t) \/ WorkerFetches(t) \/ GivesUp(t)
    BY <1>1, <2>1, ZenonT(60) DEF WorkerWaits, WorkerFetches, FetchBlocks, SpuriousWakeup,
        FetchFrom, GivesUp, queueVars, itemVars, clientVars, loopVars, workVars, history
  <2> QED BY <1>7, <2>1, ReleaseRequests, SendRequests, ZenonT(60) DEF ThreadStep
<1>8. CASE \/ \E c \in Conn : HangUp(c) \/ \E m \in Message : ClientSend(c, m)
           \/ request_exit \/ Poll \/ PollExit \/ NoAccept \/ EndOfSlots
           \/ \E i \in Slot : ReceiveInvalid(i)
           \/ UNCHANGED vars
  <2>1. UNCHANGED <<queueVars, conn, fdConn, workVars, history>>
    BY <1>8, ZenonT(60) DEF HangUp, ClientSend, request_exit, Poll, PollExit, NoAccept,
        EndOfSlots, ReceiveInvalid, clientVars, loopVars, vars
  <2> QED BY <1>1, <2>1, ZenonT(60) DEF queueVars, itemVars, workVars, history
<1> QED BY <1>2, <1>3, <1>4, <1>5, <1>6, <1>7, <1>8, ZenonT(60) DEF DaemonStep, Clients, process_loop

-----------------------------------------------------------------------------
(* The state and the steps of RenderService *)

PhaseMap == [r \in Request |-> Phase(r)]
Abandoned == {r \in 1..arrived : \/ reqCmd[r] = "cmdDirty"
                                 \/ sender[r] \in hup
                                 \/ conn[sender[r]] = "closed"}

(* One request gets another phase. *)
LEMMA MovesTo ==
    ASSUME NEW n \in Request, NEW p, Phase(n)' = p, \A r \in Request : r # n => Phase(r)' = Phase(r)
    PROVE  PhaseMap' = [PhaseMap EXCEPT ![n] = p] /\ PhaseMap[n] = Phase(n)
BY ZenonT(40) DEF PhaseMap

(* The steps of RenderService, in terms of the daemon. *)
LEMMA IsReceive ==
    ASSUME NEW n \in Request, Phase(n) = "unsent", Phase(n)' \in {"waiting", "answered", "lost"},
           \A r \in Request : r # n => Phase(r)' = Phase(r),
           Abandoned' \in {Abandoned, Abandoned \cup {n}}, exitPipe' = exitPipe
    PROVE  S!Next
<1>1. PICK p : p = Phase(n)'
  BY Zenon
<1>2. PhaseMap' = [PhaseMap EXCEPT ![n] = p] /\ PhaseMap[n] = "unsent"
  BY <1>1, MovesTo, Zenon
<1>3. S!Receive(n)
  BY <1>1, <1>2, ZenonT(60) DEF S!Receive, S!Move, PhaseMap, Abandoned
<1> QED BY <1>3, Zenon DEF S!Next

(* A request is answered or forgotten.                                     *)
LEMMA IsConclusion ==
    ASSUME NEW n \in Request, Phase(n) = "waiting",
           Phase(n)' = "answered" \/ (Phase(n)' = "forgotten" /\ n \in Abandoned),
           \A r \in Request : r # n => Phase(r)' = Phase(r),
           Abandoned' = Abandoned, exitPipe' = exitPipe
    PROVE  S!Next
<1>1. PICK p : p = Phase(n)'
  BY Zenon
<1>2. PhaseMap' = [PhaseMap EXCEPT ![n] = p] /\ PhaseMap[n] = "waiting"
  BY <1>1, MovesTo, Zenon
<1>3. S!Answer(n) \/ S!Forget(n)
  BY <1>1, <1>2, ZenonT(60) DEF S!Answer, S!Forget, S!Move, PhaseMap, Abandoned
<1> QED BY <1>3, Zenon DEF S!Next

(* Clients go away, or nothing happens.                                    *)
LEMMA IsHangUp ==
    ASSUME \A r \in Request : Phase(r)' = Phase(r),
           Abandoned \subseteq Abandoned', Abandoned' \subseteq {r \in Request : Phase(r) # "unsent"},
           exitPipe' = exitPipe
    PROVE  S!Next
<1>1. PhaseMap' = PhaseMap /\ \A r \in Request : PhaseMap[r] = Phase(r)
  BY Zenon DEF PhaseMap
<1>2. S!HangUp
  BY <1>1, ZenonT(60) DEF S!HangUp, PhaseMap, Abandoned
<1> QED BY <1>2, Zenon DEF S!Next

(* renderd is told to exit.                                                *)
LEMMA IsExit ==
    ASSUME \A r \in Request : Phase(r)' = Phase(r), Abandoned' = Abandoned, exitPipe' = TRUE
    PROVE  S!Next
<1>1. PhaseMap' = PhaseMap
  BY Zenon DEF PhaseMap
<1>2. S!Exit
  BY <1>1, ZenonT(60) DEF S!Exit, PhaseMap, Abandoned
<1> QED BY <1>2, Zenon DEF S!Next

(* Waiting requests are lost.                                              *)
LEMMA IsLoss ==
    ASSUME \A r \in Request : Phase(r)' = Phase(r) \/ (Phase(r) = "waiting" /\ Phase(r)' = "lost"),
           Abandoned' = Abandoned, exitPipe' = exitPipe
    PROVE  S!Next
<1>1. PICK R : R = {r \in Request : Phase(r) = "waiting" /\ Phase(r)' = "lost"}
  BY ZenonT(40)
<1>2. /\ R \in SUBSET {r \in Request : PhaseMap[r] = "waiting"}
      /\ PhaseMap' = [r \in Request |-> IF r \in R THEN "lost" ELSE PhaseMap[r]]
  BY <1>1, Zenon DEF PhaseMap
<1>3. S!Lose
  BY <1>2, ZenonT(60) DEF S!Lose, PhaseMap, Abandoned
<1> QED BY <1>3, Zenon DEF S!Next

-----------------------------------------------------------------------------
(* The steps of the daemon *)

(* A request is unsent until it has arrived; then it has a sender.         *)
LEMMA Arrived ==
    ASSUME QueueInv, RequestsInv
    PROVE  /\ 1..arrived = {r \in Request : Phase(r) # "unsent"}
           /\ 1..arrived = {r \in Request : r <= arrived}
           /\ \A r \in 1..arrived : sender[r] \in Conn
<1>1. arrived \in 0..MaxRequests /\ MaxRequests \in Nat
  BY ConstantsAssumption, Zenon DEF QueueInv, QueueTypeOK
<1>2. \A r \in Request : Phase(r) = "unsent" <=> r > arrived
  BY Zenon DEF Phase
<1>3. \A r \in Request : r <= arrived => life[r] # "unborn"
  BY <1>1 DEF QueueInv, BirthInv, Request
<1> QED BY <1>1, <1>2, <1>3 DEF Request, RequestsInv, SenderInv

(* What is lost is what slave threads dropped and what hangs off it, and   *)
(* it is in the queue.                                                     *)
LEMMA LostFacts ==
    ASSUME QueueInv, JobInv
    PROVE  /\ Lost = UNION {Range(Chain(h)) : h \in gaveUp}
           /\ \A r \in Lost : r \in Request /\ life[r] = "queued"
<1>1. rendering \cap gaveUp = gaveUp
  BY Zenon DEF JobInv
<1>2. Lost = UNION {Range(Chain(h)) : h \in gaveUp}
  BY <1>1, Zenon DEF Lost
<1>3. \A h \in gaveUp : \A r \in Range(Chain(h)) : r \in Request /\ life[r] = "queued"
  BY RenderedChain, Zenon DEF JobInv
<1> QED BY <1>2, <1>3, Zenon

(* Nothing is lost by a step that drops nothing. *)
LEMMA LostKept ==
    ASSUME QueueInv, JobInv, JobInv', QueueInv', UNCHANGED <<gaveUp, duplicates>>
    PROVE  Lost' = Lost
<1>1. Lost = UNION {Range(Chain(h)) : h \in gaveUp}
  BY LostFacts, Zenon
<1>2. rendering' \cap gaveUp' = gaveUp
  BY Zenon DEF JobInv
<1>3. Lost' = UNION {Range(Chain(h)) : h \in gaveUp}
  BY <1>2, Zenon DEF Lost, Chain
<1> QED BY <1>1, <1>3, Zenon

(* The phases stay while requests stay where they are. *)
LEMMA PhasesKept ==
    ASSUME NEW r \in Request, UNCHANGED <<arrived, sender>>, answers'[r] = answers[r],
           r \in Lost' <=> r \in Lost, InFlight(r)' <=> InFlight(r)
    PROVE  Phase(r)' = Phase(r)
BY Zenon DEF Phase

(* In a quiet step clients may go away or renderd is told to exit.         *)
LEMMA QuietService ==
    ASSUME QueueInv, QueueInv', RequestsInv, JobInv, JobInv', Quiet, gaveUp' = gaveUp
    PROVE  S!Next
<1>1. Lost' = Lost
  BY LostKept, Zenon DEF Quiet
<1>2. \A r \in Request : InFlight(r)' <=> InFlight(r)
  BY Zenon DEF Quiet, InFlight
<1>3. \A r \in Request : Phase(r)' = Phase(r)
  BY <1>1, <1>2, PhasesKept, ZenonT(40) DEF Quiet
<1>4. CASE hup \subseteq hup' /\ exitPipe' = exitPipe
  <2>1. Abandoned \subseteq Abandoned' /\ Abandoned' \subseteq 1..arrived
    BY <1>4, Arrived, Zenon DEF Quiet, Abandoned
  <2>2. Abandoned' \subseteq {r \in Request : Phase(r) # "unsent"}
    BY <2>1, Arrived, Zenon
  <2> QED BY <1>3, <1>4, <2>1, <2>2, IsHangUp, ZenonT(40)
<1>5. CASE UNCHANGED <<hup, conn>> /\ exitPipe' = TRUE
  <2>1. Abandoned' = Abandoned
    BY <1>5, ZenonT(40) DEF Quiet, Abandoned
  <2> QED BY <1>3, <1>5, <2>1, IsExit, Zenon
<1> QED BY <1>4, <1>5, Zenon DEF Quiet

(* A request taken off the queue waits as before, in the hands of its      *)
(* thread.                                                                 *)
LEMMA ReleaseService ==
    ASSUME QueueInv, QueueInv', DaemonTypes, RequestsInv, JobInv, JobInv',
           NEW t \in Thread, NEW time \in RenderTime, Release(t, time),
           gaveUp' = gaveUp, exitPipe' = exitPipe \/ exitPipe' = TRUE
    PROVE  S!Next
<1>1. UNCHANGED <<arrived, sender, answers, reqCmd, duplicates, hup, conn>>
  BY ZenonT(40) DEF Release, request_queue_remove_request, clientVars, history
<1>2. Lost' = Lost
  BY <1>1, LostKept, Zenon
<1>3. \A r \in Request : Phase(r)' = Phase(r)
  BY <1>1, <1>2, ReleaseInFlight, PhasesKept, ZenonT(40)
<1>4. Abandoned' = Abandoned
  BY <1>1, ZenonT(40) DEF Abandoned
<1>5. Abandoned \subseteq {r \in Request : Phase(r) # "unsent"}
  <2>1. Abandoned \subseteq 1..arrived
    BY Zenon DEF Abandoned
  <2> QED BY <2>1, Arrived, Zenon
<1> QED BY <1>3, <1>4, <1>5, IsHangUp, IsExit, ZenonT(40)

(* A slave thread drops a request: it and what hangs off it are lost, and  *)
(* were waiting unless they had been answered.                             *)
LEMMA GiveUpService ==
    ASSUME QueueInv, JobInv, NEW t \in Slave, GivesUp(t), job[t] # 0
    PROVE  S!Next
<1>1. /\ gaveUp' = gaveUp \cup {job[t]}
      /\ UNCHANGED <<arrived, life, rest, sender, answers, reqCmd, duplicates, hup, conn, exitPipe>>
  BY ZenonT(40) DEF GivesUp, queueVars, itemVars, clientVars, history
<1>2. gaveUp' \subseteq rendering /\ rendering' = rendering
  BY <1>1, RenderdAssumption, Zenon DEF JobInv, GivesUp, queueVars
<1>3. Lost' = UNION {Range(Chain(h)) : h \in gaveUp'}
  <2>1. rendering' \cap gaveUp' = gaveUp'
    BY <1>2, Zenon
  <2> QED BY <1>1, <2>1, Zenon DEF Lost, Chain
<1>4. Lost \subseteq Lost'
  BY <1>1, <1>3, LostFacts, ZenonT(40)
<1>5. \A h \in gaveUp' : \A r \in Range(Chain(h)) : life[r] = "queued"
  BY <1>2, RenderedChain, Zenon
<1>6. \A r \in Lost' : InFlight(r)
  BY <1>3, <1>5, Zenon DEF InFlight
<1>7. \A r \in Request : InFlight(r)' <=> InFlight(r)
  BY <1>1, Zenon DEF InFlight
<1>8. \A r \in Request : Phase(r)' = Phase(r) \/ (Phase(r) = "waiting" /\ Phase(r)' = "lost")
  BY <1>1, <1>4, <1>6, <1>7, ZenonT(60) DEF Phase
<1>9. Abandoned' = Abandoned
  BY <1>1, ZenonT(40) DEF Abandoned
<1> QED BY <1>1, <1>8, <1>9, IsLoss, Zenon

(* An answer goes to a client that waits for it; a request without one is  *)
(* forgotten only if nobody waits, and answered before otherwise.          *)
LEMMA SendService ==
    ASSUME QueueInv, QueueInv', DaemonTypes, RequestsInv, JobInv, JobInv', OwedInv,
           NEW t \in Thread, SendNext(t), gaveUp' = gaveUp
    PROVE  S!Next
<1>1. PICK n \in Request :
         /\ life[n] = "gone" /\ InFlight(n) /\ ~InFlight(n)'
         /\ \A q \in Request : q # n => (InFlight(q)' <=> InFlight(q))
         /\ answers' = [answers EXCEPT ![n] =
               IF fd[n] # FD_INVALID /\ reqCmd[n] # "cmdDirty" /\ fdConn[fd[n]] # NoConn
               THEN Append(@, fdConn[fd[n]]) ELSE @]
         /\ UNCHANGED <<arrived, life, fd, duplicates, conn, hup, exitPipe, sender, reqCmd>>
  BY SendFacts, ZenonT(60)
<1>2. Lost' = Lost /\ n \notin Lost
  BY <1>1, LostKept, LostFacts, ZenonT(40)
<1>3. \A r \in Request : r # n => Phase(r)' = Phase(r)
  <2>1. \A r \in Request : r # n => answers'[r] = answers[r]
    BY <1>1, Zenon DEF DaemonTypes
  <2> QED BY <1>1, <1>2, <2>1, PhasesKept, ZenonT(40)
<1>4. Abandoned' = Abandoned
  BY <1>1, ZenonT(40) DEF Abandoned
<1>5. n <= arrived /\ n \in 1..arrived /\ ~(n > arrived)
  BY <1>1 DEF QueueInv, QueueTypeOK, BirthInv, Request
<1>6. sender[n] \in Conn
  BY <1>5, Arrived, Zenon
<1>7. n \in Abandoned <=> reqCmd[n] = "cmdDirty" \/ sender[n] \in hup \/ conn[sender[n]] = "closed"
  BY <1>5, Zenon DEF Abandoned
<1>8. /\ Phase(n) = IF sender[n] \in Range(answers[n]) THEN "answered" ELSE "waiting"
      /\ Phase(n)' = IF sender[n] \in Range(answers'[n]) THEN "answered" ELSE "forgotten"
  BY <1>1, <1>2, <1>5, ZenonT(40) DEF Phase
<1>9. CASE answers[n] # <<>>
  <2>1. fd[n] = FD_INVALID
    BY <1>1, <1>9, ZenonT(40) DEF RequestsInv, AnswerInv
  <2>2. answers'[n] = answers[n]
    BY <1>1, <2>1, ZenonT(40) DEF DaemonTypes
  <2>3. sender[n] \in Range(answers[n])
    BY <1>1, <1>9, Zenon DEF OwedInv
  <2>4. \A r \in Request : Phase(r)' = Phase(r)
    BY <1>3, <1>8, <2>2, <2>3, Zenon
  <2>5. Abandoned \subseteq {r \in Request : Phase(r) # "unsent"}
    <3>1. Abandoned \subseteq 1..arrived
      BY Zenon DEF Abandoned
    <3> QED BY <3>1, Arrived, Zenon
  <2> QED BY <1>1, <1>4, <2>4, <2>5, IsHangUp, ZenonT(40)
<1>10. CASE answers[n] = <<>>
  <2>1. Phase(n) = "waiting"
    BY <1>8, <1>10 DEF Range
  <2>2. CASE fd[n] # FD_INVALID /\ reqCmd[n] # "cmdDirty" /\ fdConn[fd[n]] # NoConn
    <3>1. PICK c : c = fdConn[fd[n]]
      BY Zenon
    <3>2. answers'[n] = Append(<<>>, c)
      BY <1>1, <1>10, <2>2, <3>1, ZenonT(40) DEF DaemonTypes
    <3>3. Append(<<>>, c) = <<c>> /\ Range(<<c>>) = {c}
      BY Single, Zenon
    <3>4. c = sender[n] \/ conn[sender[n]] = "closed"
      BY <1>1, <2>2, <3>1, ZenonT(40) DEF RequestsInv, AnswerInv
    <3>5. Phase(n)' = "answered" \/ (Phase(n)' = "forgotten" /\ n \in Abandoned)
      BY <1>7, <1>8, <3>2, <3>3, <3>4, Zenon
    <3> QED BY <1>1, <1>3, <1>4, <2>1, <3>5, IsConclusion, ZenonT(40)
  <2>3. CASE ~(fd[n] # FD_INVALID /\ reqCmd[n] # "cmdDirty" /\ fdConn[fd[n]] # NoConn)
    <3>1. answers'[n] = <<>>
      BY <1>1, <1>10, <2>3, ZenonT(40) DEF DaemonTypes
    <3>2. Phase(n)' = "forgotten"
      BY <1>8, <3>1 DEF Range
    <3>3. reqCmd[n] = "cmdDirty" \/ conn[sender[n]] = "closed"
      <4>1. CASE fd[n] = FD_INVALID
        BY <1>1, <1>10, <4>1, ZenonT(40) DEF OwedInv
      <4>2. CASE fd[n] # FD_INVALID /\ fdConn[fd[n]] = NoConn
        BY <1>1, <1>6, <4>2, RenderdAssumption, ZenonT(40) DEF RequestsInv, AnswerInv
      <4> QED BY <2>3, <4>1, <4>2, Zenon
    <3> QED BY <1>1, <1>3, <1>4, <1>7, <2>1, <3>2, <3>3, IsConclusion, ZenonT(40)
  <2> QED BY <2>2, <2>3, Zenon
<1> QED BY <1>9, <1>10, Zenon

(* A new request may join the chain of one that was dropped; no chain      *)
(* changes otherwise.                                                      *)
LEMMA AddedToChains ==
    ASSUME QueueInv, NEW s \in Tile, NEW k, NEW f, request_queue_add_request(s, k, f),
           NEW r, r # arrived + 1, NEW h \in Request
    PROVE  r \in Range(Chain(h)') <=> r \in Range(Chain(h))
<1>0. Arrive(s)
  BY Zenon DEF request_queue_add_request, AddMatchesDirty, AddDuplicate, AddToList, AddToDirty, AddDropped
<1>1. arrived + 1 \in Request /\ duplicates \in [Request -> Seq(Request)]
  BY <1>0, NewRequest, Zenon DEF Arrive, QueueInv, QueueTypeOK
<1>2. PICK n \in Request : n = arrived + 1
  BY <1>1, Zenon
<1>3. duplicates'[h] = duplicates[h] \/ duplicates'[h] = <<n>> \o duplicates[h]
  <2>1. CASE AddDuplicate(s, k, f)
    <3>1. PICK i : duplicates' = [duplicates EXCEPT ![i] = <<n>> \o @]
      BY <1>2, <2>1, Zenon DEF AddDuplicate
    <3> QED BY <1>1, <3>1, Zenon
  <2>2. CASE duplicates' = duplicates
    BY <2>2, Zenon
  <2> QED BY <2>1, <2>2, Zenon DEF request_queue_add_request, AddMatchesDirty, AddToList, AddToDirty, AddDropped, Enqueue
<1>4. /\ Range(<<n>> \o duplicates[h]) = {n} \cup Range(duplicates[h])
      /\ <<n>> \o duplicates[h] \in Seq(Request)
      /\ Range(<<h>> \o duplicates[h]) = {h} \cup Range(duplicates[h])
      /\ Range(<<h>> \o (<<n>> \o duplicates[h])) = {h} \cup Range(<<n>> \o duplicates[h])
  <2>1. duplicates[h] \in Seq(Request)
    BY <1>1, Zenon
  <2>2. /\ Range(<<n>> \o duplicates[h]) = {n} \cup Range(duplicates[h])
        /\ <<n>> \o duplicates[h] \in Seq(Request)
    BY <2>1, PushOnChain, Zenon
  <2> QED BY <2>1, <2>2, PushOnChain, Zenon
<1> QED BY <1>2, <1>3, <1>4, Zenon DEF Chain

(* A request that process_loop receives waits, has been answered, or hangs *)
(* off one that was dropped.                                               *)
LEMMA ReceiveService ==
    ASSUME QueueInv, QueueInv', DaemonTypes, SlotInv, RequestsInv, RequestsInv', JobInv, JobInv', OwedInv,
           NEW i \in Slot, Receive(i), gaveUp' = gaveUp
    PROVE  S!Next
<1>0. PICK s \in Tile, k \in ClientCmd, f \in Fd, c \in Conn, n \in Request : Received(s, k, f, c, n)
  BY ReceivedFacts, Zenon
<1>1. /\ n = arrived + 1 /\ arrived' = n /\ life[n] = "unborn"
      /\ request_queue_add_request(s, k, ItemFd(k, f))
      /\ sender'[n] = c
      /\ answers'[n] = <<c>> \/ life'[n] = "queued"
      /\ \A r \in Request : r # n =>
            /\ life'[r] = life[r] /\ sender'[r] = sender[r]
            /\ answers'[r] = answers[r] /\ reqCmd'[r] = reqCmd[r]
      /\ UNCHANGED <<conn, hup, rest, exitPipe>>
  BY <1>0, Zenon DEF Received
<1>2. arrived \in Nat /\ n \in Nat /\ n <= MaxRequests /\ MaxRequests \in Nat
  BY ConstantsAssumption DEF QueueInv, QueueTypeOK, Request
<1>3. n = arrived + 1 /\ arrived' = n
  BY <1>1, Zenon
<1>4. \A r \in Request : r # n => (r \in Lost' <=> r \in Lost)
  <2>1. rendering \cap gaveUp = gaveUp /\ rendering' \cap gaveUp' = gaveUp /\ gaveUp \subseteq Request
    BY ZenonT(40) DEF JobInv, QueueInv, QueueTypeOK
  <2>2. Lost = UNION {Range(Chain(h)) : h \in gaveUp} /\ Lost' = UNION {Range(Chain(h)') : h \in gaveUp}
    BY <2>1, Zenon DEF Lost
  <2>3. \A r \in Request, h \in gaveUp : r # n => (r \in Range(Chain(h)') <=> r \in Range(Chain(h)))
    BY <1>1, <2>1, AddedToChains, ZenonT(40)
  <2> QED BY <2>2, <2>3, ZenonT(40)
<1>5. ASSUME NEW r \in Request, r # n PROVE Phase(r)' = Phase(r)
  <2>1. InFlight(r)' <=> InFlight(r)
    BY <1>1, <1>5, Zenon DEF InFlight
  <2>2. r > arrived' <=> r > arrived
    BY <1>2, <1>3, <1>5 DEF Request
  <2> QED BY <1>1, <1>4, <1>5, <2>1, <2>2, ZenonT(40) DEF Phase
<1>6. n > arrived /\ ~(n > arrived')
  BY <1>2, <1>3
<1>7. Phase(n) = "unsent" /\ Phase(n)' \in {"waiting", "answered", "lost"}
  <2>1. c \in Range(<<c>>)
    BY Single, Zenon
  <2>2. sender'[n] \in Range(answers'[n]) \/ InFlight(n)'
    BY <1>1, <2>1, Zenon DEF InFlight
  <2> QED BY <1>6, <2>2, Zenon DEF Phase
<1>8. Abandoned' \in {Abandoned, Abandoned \cup {n}}
  <2>1. 1..arrived' = 1..arrived \cup {n} /\ n \notin 1..arrived /\ 1..arrived \subseteq Request
    <3>1. 1..(arrived + 1) = 1..arrived \cup {n}
      BY <1>2, <1>3
    <3>2. n \notin 1..arrived /\ 1..arrived \subseteq 1..MaxRequests
      BY <1>2, <1>3
    <3> QED BY <1>3, <3>1, <3>2, Zenon DEF Request
  <2>2. \A r \in Request : r # n => (r \in Abandoned' <=> r \in Abandoned)
    BY <1>1, <2>1, ZenonT(40) DEF Abandoned
  <2>3. Abandoned \subseteq Request /\ n \notin Abandoned /\ Abandoned' \subseteq Request
    BY <2>1, Zenon DEF Abandoned
  <2> QED BY <2>2, <2>3
<1> QED BY <1>1, <1>5, <1>7, <1>8, IsReceive, ZenonT(40)

(* Only slave threads drop requests, and only those they have; and what    *)
(* was written to the exit pipe stays there.                               *)
LEMMA DropsAndExits ==
    ASSUME JobInv, [SlavesNext]_allVars
    PROVE  /\ gaveUp' = gaveUp \/ \E t \in Slave : GivesUp(t) /\ job[t] # 0
           /\ exitPipe' = exitPipe \/ exitPipe' = TRUE
<1>1. ASSUME NEW t \in Slave, At(t, "dispatch") PROVE job[t] # 0
  BY <1>1, Zenon DEF At, JobInv
<1>2. gaveUp' = gaveUp \/ \E t \in Slave : GivesUp(t) /\ job[t] # 0
  BY <1>1, ZenonT(60) DEF SlavesNext, slave_thread, SlaveConnects, SlaveWaits, SlaveFetches, SlaveSends,
        SlaveResends, SlaveLosesLink, SlaveDies, SlaveAnswers, SlaveHangsUp, SlaveSendNext,
        slaveVars, allVars
<1>3. ASSUME Next PROVE exitPipe' = exitPipe \/ exitPipe' = TRUE
  <2>1. CASE Clients \/ request_exit \/ process_loop
    BY <2>1, ZenonT(60) DEF Clients, Connect, HangUp, ClientSend, request_exit, process_loop, Poll,
        PollExit, Accept, AcceptDrops, NoAccept, CloseSlot, ReceiveInvalid, Receive, EndOfSlots
  <2>2. ASSUME NEW t \in Worker, render_thread(t) PROVE exitPipe' = exitPipe \/ exitPipe' = TRUE
    <3>1. CASE WorkerRenders(t)
      <4>1. PICK b \in BOOLEAN : exitPipe' \in IF b THEN {exitPipe, TRUE} ELSE {exitPipe}
        BY <3>1, RenderdAssumption, ZenonT(60) DEF WorkerRenders
      <4> QED BY <4>1, Zenon
    <3> QED BY <2>2, <3>1, ZenonT(60) DEF render_thread, WorkerWaits, WorkerFetches, SendNext
  <2> QED BY <1>3, <2>1, <2>2, Zenon DEF Next
<1>4. ASSUME NEW t \in Slave, slave_thread(t) PROVE exitPipe' = exitPipe
  BY <1>4, ZenonT(60) DEF slave_thread, SlaveConnects, SlaveWaits, SlaveFetches, SlaveSends,
        SlaveResends, SlaveLosesLink, SlaveDies, SlaveAnswers, SlaveHangsUp, SlaveSendNext,
        SlaveReleases, WorkerWaits, WorkerFetches, SendNext, GivesUp, vars
<1>5. ASSUME UNCHANGED allVars PROVE exitPipe' = exitPipe
  BY <1>5, Zenon DEF allVars, vars
<1> QED BY <1>2, <1>3, <1>4, <1>5, ZenonT(40) DEF SlavesNext

(* Every step of the daemon is a step of RenderService. *)
LEMMA ServiceStep ==
    ASSUME QueueInv, QueueInv', DaemonTypes, SlotInv, RequestsInv, RequestsInv',
           JobInv, JobInv', OwedInv, DaemonStep, [SlavesNext]_allVars
    PROVE  S!Next
<1>1. CASE \E t \in Slave : GivesUp(t) /\ job[t] # 0
  BY <1>1, GiveUpService, Zenon
<1>2. CASE gaveUp' = gaveUp
  <2>1. CASE Quiet
    BY <1>2, <2>1, QuietService, ZenonT(40)
  <2>2. CASE \E i \in Slot : Receive(i)
    BY <1>2, <2>2, ReceiveService, ZenonT(40)
  <2>3. ASSUME NEW t \in Thread, SendNext(t) PROVE S!Next
    BY <1>2, <2>3, SendService, ZenonT(40)
  <2>4. ASSUME NEW t \in Thread, NEW time \in RenderTime, Release(t, time) PROVE S!Next
    BY <1>2, <2>4, DropsAndExits, ReleaseService, ZenonT(40)
  <2> QED BY <2>1, <2>2, <2>3, <2>4, QuietSteps, ZenonT(40)
<1> QED BY <1>1, <1>2, DropsAndExits, Zenon

-----------------------------------------------------------------------------
(* Counting and minima; the library is brought in only here. *)

INSTANCE FiniteSetTheorems

(* A set of natural numbers has a least element: the for loop of           *)
(* process_loop finds a free slot when there is one.                       *)
LEMMA LeastNumber ==
    ASSUME NEW I \in SUBSET Nat, I # {}
    PROVE  \E i \in I : \A j \in I : i <= j
<1>1. PICK x \in I : \A y \in I : ~(<<y, x>> \in OpToRel(<, Nat))
  BY WFMin, NatLessThanWellFounded, Zenon
<1>2. \A y \in I : <<y, x>> \in Nat \X Nat /\ <<y, x>>[1] = y /\ <<y, x>>[2] = x
  BY Zenon
<1>3. \A y \in I : ~(y < x)
  BY <1>1, <1>2, Zenon DEF OpToRel
<1> QED BY <1>3

(* process_loop finds the first free slot. *)
LEMMA FreeSlotFound == DaemonTypes => FindsFreeSlot
<1> SUFFICES ASSUME DaemonTypes, FreeSlots # {} PROVE SlotFor \in FreeSlots
  BY Zenon DEF FindsFreeSlot
<1>1. FreeSlots \in SUBSET Nat
  BY RenderdAssumption DEF FreeSlots, DaemonTypes
<1> QED BY <1>1, LeastNumber, ZenonT(60) DEF SlotFor

(* num_conns counts the slots in use: it goes up and down with them. *)
LEMMA CountedNext ==
    ASSUME DaemonTypes, SlotInv, FindsFreeSlot, ConnsCounted, DaemonStep
    PROVE  ConnsCounted'
<1> DEFINE Used == {i \in Slot : pfd[i] # FD_INVALID}
<1>1. IsFiniteSet(Used)
  <2>1. IsFiniteSet(Slot)
    BY RenderdAssumption, FS_Interval DEF Slot
  <2> QED BY <2>1, FS_Subset, Zenon
<1>2. ASSUME NEW c \in Conn, NEW f \in Fd, Accept(c, f) PROVE ConnsCounted'
  <2>1. SlotFor \in Slot /\ pfd[SlotFor] = FD_INVALID
    BY <1>2, SlotForFacts, ZenonT(60) DEF Accept
  <2>2. pfd' = [pfd EXCEPT ![SlotFor] = f] /\ num_conns' = num_conns + 1 /\ f # FD_INVALID
    BY <1>2, ConstantsAssumption, ZenonT(60) DEF Accept
  <2>3. Used' = Used \cup {SlotFor} /\ SlotFor \notin Used
    BY <2>1, <2>2, Zenon DEF DaemonTypes
  <2>4. Cardinality(Used') = Cardinality(Used) + 1
    BY <1>1, <2>3, FS_AddElement, ZenonT(40)
  <2> QED BY <2>2, <2>4, ZenonT(60) DEF ConnsCounted
<1>3. ASSUME NEW i \in Slot, CloseSlot(i) PROVE ConnsCounted'
  <2>1. i \in Used
    BY <1>3, AtSlotFacts, ZenonT(60) DEF CloseSlot
  <2>2. pfd' = [pfd EXCEPT ![i] = FD_INVALID] /\ num_conns' = num_conns - 1
    BY <1>3, Zenon DEF CloseSlot
  <2>3. Used' = Used \ {i}
    BY <2>2, Zenon DEF DaemonTypes
  <2>4. Cardinality(Used') = Cardinality(Used) - 1
    BY <1>1, <2>1, <2>3, FS_RemoveElement, ZenonT(60)
  <2> QED BY <2>2, <2>4, ZenonT(60) DEF ConnsCounted
<1>4. CASE UNCHANGED <<pfd, num_conns>>
  BY <1>4, Zenon DEF ConnsCounted
<1> QED BY <1>2, <1>3, <1>4, ZenonT(60) DEF DaemonStep, ThreadStep, Clients, Connect, HangUp,
      ClientSend, request_exit, process_loop, Poll, PollExit, AcceptDrops, NoAccept, EndOfSlots,
      ReceiveInvalid, Receive, WorkerWaits, WorkerFetches, Release, SendNext, GivesUp, loopVars, vars

-----------------------------------------------------------------------------
(* The invariant, and what follows from it *)

(* renderd starts with an empty queue, no connection and idle threads. *)
LEMMA InitDaemon == Init => QueueInv /\ DaemonInv
<1> SUFFICES ASSUME Init PROVE QueueInv /\ DaemonInv
  BY Zenon
<1>1. QueueInv
  BY InitInv, Zenon DEF Init
<1>2. DaemonTypes
  <2>1. 0 \in 0..MAX_CONNECTIONS /\ 1 \in Nat /\ 0 \in 0..MaxRequests
    BY RenderdAssumption, ConstantsAssumption
  <2>2. <<>> \in Seq(Message) /\ <<>> \in Seq(Request) /\ <<>> \in Seq(Conn)
    OBVIOUS
  <2> QED BY <2>1, <2>2, ZenonT(60) DEF Init, DaemonTypes
<1>3. SlotInv /\ EventsInv
  BY Zenon DEF Init, SlotInv, EventsInv
<1>4. ConnsCounted
  <2>1. {i \in Slot : pfd[i] # FD_INVALID} = {}
    BY Zenon DEF Init
  <2> QED BY <2>1, FS_EmptySet, ZenonT(60) DEF ConnsCounted, Init
<1>5. /\ \A r \in Request : life[r] = "unborn" /\ answers[r] = <<>>
      /\ \A t \in Thread : rest[t] = <<>>
  BY Zenon DEF Init, request_queue_init
<1>6. Range(<<>>) = {} /\ NoRepeats(<<>>) /\ Len(<<>>) <= 1
  BY DEF Range, NoRepeats
<1>7. SenderInv /\ RestInv /\ QueuedFdCurrent /\ AnswerInv
  BY <1>5, <1>6, ZenonT(60) DEF SenderInv, RestInv, QueuedFdCurrent, AnswerInv, InFlight
<1>8. OneAnswerToItsClient
  BY <1>5, <1>6, ZenonT(60) DEF OneAnswerToItsClient
<1> QED BY <1>1, <1>2, <1>3, <1>4, <1>7, <1>8, ZenonT(60) DEF DaemonInv, RequestsInv

(* The steps of the daemon, with slave threads or without. *)
LEMMA StepOfDaemon == [Next]_vars \/ [SlavesNext]_allVars => DaemonStep
<1>1. \A t \in Worker : render_thread(t) => t \in Thread /\ ThreadStep(t)
  BY ZenonT(60) DEF render_thread, WorkerRenders, ThreadStep, Worker
<1>2. [Next]_vars => DaemonStep
  BY <1>1, ZenonT(60) DEF Next, DaemonStep
<1>3. ASSUME NEW t \in Slave, slave_thread(t) PROVE DaemonStep
  <2>1. t \in Thread /\ -1 \in RenderTime
    BY RenderdAssumption, SlavesAssumption, Zenon
  <2>2. ThreadStep(t) \/ UNCHANGED vars
    BY <1>3, <2>1, ZenonT(60) DEF slave_thread, SlaveConnects, SlaveWaits, SlaveFetches, SlaveSends,
        SlaveResends, SlaveLosesLink, SlaveDies, SlaveAnswers, SlaveHangsUp, SlaveSendNext,
        SlaveReleases, ThreadStep
  <2> QED BY <2>1, <2>2, Zenon DEF DaemonStep
<1>4. [SlavesNext]_allVars => DaemonStep
  <2>1. CASE UNCHANGED allVars
    BY <2>1, Zenon DEF allVars, DaemonStep
  <2> QED BY <1>2, <1>3, <2>1, ZenonT(60) DEF SlavesNext
<1> QED BY <1>2, <1>4, Zenon

(* A client, process_loop, a render thread or a slave thread keeps the     *)
(* invariant.                                                              *)
LEMMA NextDaemon == QueueInv /\ DaemonInv /\ DaemonStep => QueueInv' /\ DaemonInv'
<1> SUFFICES ASSUME QueueInv, DaemonInv, DaemonStep PROVE QueueInv' /\ DaemonInv'
  BY Zenon
<1>1. DaemonTypes /\ SlotInv /\ ConnsCounted /\ EventsInv /\ RequestsInv /\ FindsFreeSlot
  BY FreeSlotFound, Zenon DEF DaemonInv
<1>2. QueueInv'
  BY <1>1, QueueStep, NextInv, Zenon
<1>3. DaemonTypes'
  BY <1>1, TypesNext, Zenon
<1>4. SlotInv' /\ EventsInv'
  BY <1>1, SlotsNext, Zenon
<1>5. ConnsCounted'
  BY <1>1, CountedNext, Zenon
<1>6. RequestsInv'
  BY <1>1, RequestsNext, Zenon
<1> QED BY <1>2, <1>3, <1>4, <1>5, <1>6, ZenonT(60) DEF DaemonInv

(* The invariants of the queue and of the daemon hold in every state of    *)
(* it, with slave threads and without.                                     *)
THEOREM DaemonInvariant == Spec \/ SlavesSpec => [](QueueInv /\ DaemonInv)
<1>1. SlavesInit => Init
  BY Zenon DEF SlavesInit
<1> QED BY <1>1, InitDaemon, StepOfDaemon, NextDaemon, PTL DEF Spec, SlavesSpec

(* The daemon uses the queue as its operations allow: what is proved of    *)
(* the queue by itself holds of the queue inside the daemon.               *)
THEOREM DaemonUsesTheQueue == Spec \/ SlavesSpec => QueueSpec
<1>1. Init => request_queue_init
  BY Zenon DEF Init
<1>2. SlavesInit => Init
  BY Zenon DEF SlavesInit
<1>3. QueueInv /\ DaemonInv /\ DaemonStep => [QueueNext]_queueVars
  BY QueueStep, Zenon DEF DaemonInv
<1> QED BY <1>1, <1>2, <1>3, StepOfDaemon, DaemonInvariant, PTL DEF Spec, SlavesSpec, QueueSpec

(* The poll array and the descriptor table agree: no descriptor is leaked, *)
(* closed twice or polled twice, whatever the order in which clients come  *)
(* and go.                                                                 *)
THEOREM SlotsAreExact == Spec \/ SlavesSpec => []SlotsExact
<1>1. QueueInv /\ DaemonInv => SlotsExact
  <2> SUFFICES ASSUME DaemonTypes, SlotInv, ConnsCounted PROVE SlotsExact
    BY Zenon DEF DaemonInv
  <2>1. ASSUME NEW f \in Fd, fdConn[f] # NoConn
        PROVE  Cardinality({i \in 1..num_cslots : pfd[i] = f}) = 1
    <3>1. PICK i \in Slot : pfd[i] = f
      BY <2>1, Zenon DEF SlotInv
    <3>2. pfd[i] # FD_INVALID
      BY <3>1, ConstantsAssumption, ZenonT(60)
    <3>3. num_cslots \in 0..MAX_CONNECTIONS /\ MAX_CONNECTIONS \in Nat
      BY RenderdAssumption, ZenonT(60) DEF DaemonTypes
    <3>4. i \in 1..num_cslots /\ 1..num_cslots \subseteq Slot
      BY <3>2, <3>3, SMTT(30) DEF SlotInv, Slot
    <3>5. {j \in 1..num_cslots : pfd[j] = f} = {i}
      BY <3>1, <3>2, <3>4, ZenonT(60) DEF SlotInv
    <3> QED BY <3>5, FS_Singleton, ZenonT(60)
  <2> QED BY <2>1, Zenon DEF SlotsExact, SlotInv, ConnsCounted
<1> QED BY <1>1, DaemonInvariant, PTL

(* A request in the queue refers only to the connection it came from. *)
THEOREM QueuedFdsAreCurrent == Spec \/ SlavesSpec => []QueuedFdCurrent
<1>1. QueueInv /\ DaemonInv => QueuedFdCurrent
  BY ZenonT(60) DEF DaemonInv, RequestsInv
<1> QED BY <1>1, DaemonInvariant, PTL

(* No request is answered twice, and while its client is connected no      *)
(* other gets the answer.                                                  *)
THEOREM AnsweredOnce == Spec \/ SlavesSpec => []OneAnswerToItsClient
<1>1. QueueInv /\ DaemonInv => OneAnswerToItsClient
  BY Zenon DEF DaemonInv, RequestsInv
<1> QED BY <1>1, DaemonInvariant, PTL

(* process_loop closes a connection only at its end or after an incomplete *)
(* message: the recv that fails is never one for which poll saw nothing.   *)
THEOREM ConnectionsClosedForCause == Spec => ClosedForCause
<1> DEFINE A == \A c \in Conn : (conn[c] = "accepted" /\ conn'[c] = "closed") =>
          (inbox[c] = <<>> /\ c \in hup) \/ (inbox[c] # <<>> /\ Head(inbox[c]).cmd = "short")
<1>1. QueueInv /\ DaemonInv /\ DaemonStep => A
  <2> SUFFICES ASSUME DaemonTypes, SlotInv, EventsInv, DaemonStep, NEW c \in Conn,
                      conn[c] = "accepted", conn'[c] = "closed"
               PROVE  \/ inbox[c] = <<>> /\ c \in hup
                      \/ inbox[c] # <<>> /\ Head(inbox[c]).cmd = "short"
    BY Zenon DEF DaemonInv
  <2>1. ASSUME NEW i \in Slot, CloseSlot(i) PROVE Readable(c) /\ RecvFails(c)
    <3>1. PICK d \in Conn : d = fdConn[pfd[i]]
      BY <2>1, AtSlotFacts, ZenonT(60) DEF CloseSlot
    <3>2. RecvFails(d) /\ conn' = [conn EXCEPT ![d] = "closed"]
      BY <2>1, <3>1, ZenonT(60) DEF CloseSlot
    <3>3. d = c
      BY <3>2, Zenon DEF DaemonTypes
    <3>4. loop = "slots" /\ i \in revents /\ i >= slot /\ pfd[i] # FD_INVALID
      BY <2>1, AtSlotFacts, ZenonT(60) DEF CloseSlot
    <3> QED BY <3>1, <3>2, <3>3, <3>4, ZenonT(60) DEF EventsInv
  <2>2. ASSUME NEW d \in Conn, Connect(d) PROVE FALSE
    BY <2>2, ZenonT(60) DEF Connect, DaemonTypes
  <2>3. ASSUME NEW d \in Conn, AcceptDrops(d) PROVE FALSE
    BY <2>3, ZenonT(60) DEF AcceptDrops, Backlog, DaemonTypes
  <2>4. ASSUME NEW d \in Conn, NEW f \in Fd, Accept(d, f) PROVE FALSE
    BY <2>4, Zenon DEF Accept, DaemonTypes
  <2>5. CASE UNCHANGED conn
    BY <2>5, ZenonT(60)
  <2>6. \E i \in Slot : CloseSlot(i)
    BY <2>2, <2>3, <2>4, <2>5, ZenonT(60)
    DEF DaemonStep, ThreadStep, Clients, HangUp, ClientSend, request_exit, process_loop, Poll,
        PollExit, NoAccept, EndOfSlots, ReceiveInvalid, Receive, WorkerWaits, WorkerFetches,
        Release, SendNext, GivesUp, clientVars, vars
  <2> QED BY <2>1, <2>6, ZenonT(60) DEF Readable, RecvFails
<1> QED BY <1>1, StepOfDaemon, DaemonInvariant, PTL DEF Spec, ClosedForCause

(* renderd starts without requests. *)
LEMMA InitService == SlavesInit => JobInv /\ OwedInv /\ S!Init
<1> SUFFICES ASSUME SlavesInit PROVE JobInv /\ OwedInv /\ S!Init
  BY Zenon
<1>1. Init /\ request_queue_init
  BY Zenon DEF SlavesInit, Init
<1>2. JobInv
  BY <1>1, ZenonT(60) DEF SlavesInit, Init, JobInv
<1>3. OwedInv
  <2>1. \A r \in Request : ~InFlight(r)
    BY <1>1 DEF Init, request_queue_init, InFlight, Range
  <2>2. reqCmd \in [Request -> Cmd \cup {"none"}]
    BY <1>1, Zenon DEF Init
  <2> QED BY <2>1, <2>2, ZenonT(60) DEF OwedInv
<1>4. S!Init
  <2>1. arrived = 0 /\ exitPipe = FALSE
    BY <1>1, Zenon DEF Init, request_queue_init
  <2>2. \A r \in Request : Phase(r) = "unsent"
    BY <2>1 DEF Phase, Request
  <2>3. 1..arrived = {}
    BY <2>1
  <2> QED BY <2>1, <2>2, <2>3, ZenonT(60) DEF S!Init
<1> QED BY <1>2, <1>3, <1>4, ZenonT(60)

(* renderd, with slave threads or without, gives every client what         *)
(* RenderService promises: a request is concluded once, answered or        *)
(* forgotten; it is forgotten only when nobody waits for it; and the       *)
(* others that will get no answer are those a slave thread dropped and     *)
(* what hangs off them.                                                    *)
THEOREM DaemonIsARenderService == SlavesSpec => S!Safety
<1>1. QueueInv /\ DaemonInv /\ JobInv /\ OwedInv /\ [SlavesNext]_allVars => JobInv' /\ OwedInv'
  BY JobsNext, OwedNext, StepOfDaemon, ZenonT(60) DEF DaemonInv
<1>2. SlavesSpec => [](QueueInv /\ DaemonInv)
  BY DaemonInvariant, PTL
<1>3. SlavesSpec => [](JobInv /\ OwedInv)
  BY <1>1, <1>2, InitService, PTL DEF SlavesSpec
<1>4. /\ QueueInv /\ DaemonInv /\ JobInv /\ OwedInv /\ [SlavesNext]_allVars
      /\ QueueInv' /\ DaemonInv' /\ JobInv'
      => S!Next
  BY ServiceStep, StepOfDaemon, ZenonT(60) DEF DaemonInv
<1> QED BY <1>2, <1>3, <1>4, InitService, PTL DEF SlavesSpec, S!Safety

-----------------------------------------------------------------------------
(* Wakeups *)

(* What the proof of WakeupNext uses of Cardinality. *)
LEMMA ThreadsAreCounted == ThreadsCounted
<1> SUFFICES ASSUME NEW X \in SUBSET Thread
             PROVE  /\ Cardinality(X) \in Nat
                    /\ \A t \in Thread \ X : Cardinality(X \cup {t}) = Cardinality(X) + 1
                    /\ \A t \in X : Cardinality(X \ {t}) = Cardinality(X) - 1
  BY Zenon DEF ThreadsCounted
<1>1. IsFiniteSet(X)
  BY ConstantsAssumption, FS_Subset, ZenonT(60)
<1>2. Cardinality(X) \in Nat
  BY <1>1, FS_CardinalityType, ZenonT(60)
<1>3. ASSUME NEW t \in Thread \ X PROVE Cardinality(X \cup {t}) = Cardinality(X) + 1
  BY <1>1, FS_AddElement, ZenonT(60)
<1>4. ASSUME NEW t \in X PROVE Cardinality(X \ {t}) = Cardinality(X) - 1
  BY <1>1, FS_RemoveElement, ZenonT(60)
<1> QED BY <1>2, <1>3, <1>4, ZenonT(60)

(* A thread blocked on qCond never misses work: the cond_signal of every   *)
(* add_request, together with the loop around cond_wait, keeps as many     *)
(* threads awake as there are requests waiting.                            *)
THEOREM NoWakeupIsLost == QueueSpec => []NoLostWakeup
<1>1. request_queue_init => NoLostWakeup
  BY Zenon DEF request_queue_init, NoLostWakeup, Blocked
<1> QED BY <1>1, ThreadsAreCounted, WakeupNext, QueueInvariant, PTL DEF QueueSpec
=============================================================================
