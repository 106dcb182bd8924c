------------------------------ MODULE Renderd ------------------------------
(***************************************************************************)
(* The daemon around the queue: process_loop, which accepts connections    *)
(* and receives requests, and the render threads, which fetch requests and *)
(* answer them (src/src/renderd.c, src/src/gen_tile.cpp).                  *)
(*                                                                         *)
(* process_loop is one thread: poll, then accept, then one slot after the  *)
(* other; a render thread fetches, renders, takes the request off the      *)
(* queue and then sends one answer after the other.  Clients, and the      *)
(* other threads, act between any two of these steps.                      *)
(***************************************************************************)
EXTENDS RequestQueue

CONSTANTS
    Conn,             \* connections; a client that reconnects is a new one
    NoConn,           \* "no connection"
    BadMsg,           \* subset of {"cmdInvalid", "short"}: other things sent
    Slave,            \* the threads that dispatch to other renderds
    MAX_CONNECTIONS,
    MaxInbox,         \* bound: messages a connection holds unread
    MayExit           \* bound: whether an exit is ever asked for

ASSUME RenderdAssumption ==
    /\ NoConn \notin Conn
    /\ BadMsg \subseteq {"cmdInvalid", "short"}
    /\ Slave \subseteq Thread
    /\ MAX_CONNECTIONS \in Nat
    /\ MaxInbox \in Nat
    /\ MayExit \in BOOLEAN

Slot == 1..MAX_CONNECTIONS
Worker == Thread \ Slave

VARIABLES
    conn,        \* "new", "backlog", "accepted" or "closed"
    hup,         \* connections whose client has closed its end
    inbox,       \* messages sent on a connection and not read yet
    fdConn,      \* the connection behind a descriptor, NoConn when it is free
    pfd,         \* the descriptor in a slot of process_loop's poll array
    revents,     \* slots poll found readable
    listening,   \* poll found a connection to accept
    num_cslots, num_conns,
    loop,        \* where process_loop is: "poll", "accept", "slots", "exited"
    slot,        \* the next slot it looks at
    exitPipe,    \* something was written to the exit pipe
    job,         \* the request a thread has fetched; 0 when it has none
    rest,        \* what send_response has still to answer, per thread
    sender,      \* history: the connection a request came from,
    reqCmd,      \* its command,
    answers      \* and who got an answer to it, in order

clientVars == <<conn, hup, inbox>>
loopVars   == <<fdConn, pfd, revents, listening, num_cslots, num_conns, loop, slot>>
workVars   == <<job, rest>>
history    == <<sender, reqCmd, answers>>
vars == <<queueVars, clientVars, loopVars, exitPipe, workVars, history>>

Init ==
    /\ request_queue_init
    /\ conn = [c \in Conn |-> "new"]
    /\ hup = {}
    /\ inbox = [c \in Conn |-> <<>>]
    /\ fdConn = [f \in Fd |-> NoConn]
    /\ pfd = [i \in Slot |-> FD_INVALID]
    /\ revents = {}
    /\ listening = FALSE
    /\ num_cslots = 0
    /\ num_conns = 0
    /\ loop = "poll"
    /\ slot = 1
    /\ exitPipe = FALSE
    /\ job = [t \in Thread |-> 0]
    /\ rest = [t \in Thread |-> <<>>]
    /\ sender = [r \in Request |-> NoConn]
    /\ reqCmd = [r \in Request |-> "none"]
    /\ answers = [r \in Request |-> <<>>]

-----------------------------------------------------------------------------
(* Clients: they connect, send and hang up as they please. *)

Connect(c) ==
    /\ conn[c] = "new"
    /\ conn' = [conn EXCEPT ![c] = "backlog"]
    /\ UNCHANGED <<queueVars, hup, inbox, loopVars, exitPipe, workVars, history>>

Message == [tile: Tile, cmd: ClientCmd \cup BadMsg]

(* What has been sent and not received yet: MaxRequests bounds what is sent. *)
Unread == SumOver([c \in Conn |-> Len(inbox[c])])

ClientSend(c, m) ==
    /\ conn[c] \in {"backlog", "accepted"}
    /\ c \notin hup
    /\ Len(inbox[c]) < MaxInbox
    /\ arrived + Unread < MaxRequests
    /\ inbox' = [inbox EXCEPT ![c] = Append(@, m)]
    /\ UNCHANGED <<queueVars, conn, hup, loopVars, exitPipe, workVars, history>>

HangUp(c) ==
    /\ conn[c] \in {"backlog", "accepted"}
    /\ c \notin hup
    /\ hup' = hup \cup {c}
    /\ UNCHANGED <<queueVars, conn, inbox, loopVars, exitPipe, workVars, history>>

(* request_exit, from a signal handler. *)
request_exit ==
    /\ MayExit
    /\ exitPipe' = TRUE
    /\ UNCHANGED <<queueVars, clientVars, loopVars, workVars, history>>

-----------------------------------------------------------------------------
(* process_loop *)

Readable(c) == inbox[c] # <<>> \/ c \in hup
SlotsReady == {i \in 1..num_cslots : pfd[i] # FD_INVALID /\ Readable(fdConn[pfd[i]])}
Backlog == {c \in Conn : conn[c] = "backlog"}

(* poll returns once there is something to do, and sets every revents.     *)
Poll ==
    /\ loop = "poll"
    /\ ~exitPipe
    /\ SlotsReady # {} \/ Backlog # {}
    /\ revents' = SlotsReady
    /\ listening' = (Backlog # {})
    /\ loop' = "accept"
    /\ UNCHANGED <<queueVars, clientVars, fdConn, pfd, num_cslots, num_conns, slot,
                   exitPipe, workVars, history>>

PollExit ==
    /\ loop = "poll"
    /\ exitPipe
    /\ loop' = "exited"
    /\ UNCHANGED <<queueVars, clientVars, fdConn, pfd, revents, listening,
                   num_cslots, num_conns, slot, exitPipe, workVars, history>>

FreeSlots == {i \in 1..num_cslots : pfd[i] = FD_INVALID}
FreeFds == {f \in Fd : fdConn[f] = NoConn}

SlotsFull == FreeSlots = {} /\ num_cslots = MAX_CONNECTIONS

(* Mutation: always a slot at the end. *)
SlotAtEnd == num_cslots + 1

(* The first free slot, or a new one at the end. *)
SlotFor == IF FreeSlots # {}
           THEN CHOOSE i \in FreeSlots : \A j \in FreeSlots : i <= j
           ELSE num_cslots + 1

(* accept gives the connection a free descriptor and a slot. *)
Accept(c, f) ==
    /\ loop = "accept"
    /\ listening
    /\ c \in Backlog
    /\ f \in FreeFds
    /\ ~SlotsFull
    /\ conn' = [conn EXCEPT ![c] = "accepted"]
    /\ fdConn' = [fdConn EXCEPT ![f] = c]
    /\ pfd' = [pfd EXCEPT ![SlotFor] = f]
    /\ num_cslots' = IF FreeSlots = {} THEN num_cslots + 1 ELSE num_cslots
    /\ num_conns' = num_conns + 1
    /\ loop' = "slots"
    /\ UNCHANGED <<queueVars, hup, inbox, revents, listening, slot, exitPipe,
                   workVars, history>>

(* With MAX_CONNECTIONS slots in use the connection is closed at once. *)
AcceptDrops(c) ==
    /\ loop = "accept"
    /\ listening
    /\ c \in Backlog
    /\ FreeFds # {}
    /\ SlotsFull
    /\ conn' = [conn EXCEPT ![c] = "closed"]
    /\ inbox' = [inbox EXCEPT ![c] = <<>>]
    /\ loop' = "slots"
    /\ UNCHANGED <<queueVars, hup, fdConn, pfd, revents, listening, num_cslots,
                   num_conns, slot, exitPipe, workVars, history>>

(* Nothing to accept, or accept fails for want of a descriptor. *)
NoAccept ==
    /\ loop = "accept"
    /\ ~listening \/ FreeFds = {}
    /\ loop' = "slots"
    /\ UNCHANGED <<queueVars, clientVars, fdConn, pfd, revents, listening,
                   num_cslots, num_conns, slot, exitPipe, workVars, history>>

(* Mutation: every connection is read from, whatever poll said. *)
OpenSlots == {i \in slot..num_cslots : pfd[i] # FD_INVALID}

(* The slots the for loop has still to look at and will not skip; only     *)
(* process_loop changes them, so a step takes the first one directly.      *)
LiveSlots == {i \in slot..num_cslots : pfd[i] # FD_INVALID /\ i \in revents}
AtSlot(i) == loop = "slots" /\ i \in LiveSlots /\ \A j \in LiveSlots : i <= j

EndOfSlots ==
    /\ loop = "slots"
    /\ LiveSlots = {}
    /\ loop' = "poll"
    /\ slot' = 1
    /\ UNCHANGED <<queueVars, clientVars, fdConn, pfd, revents, listening,
                   num_cslots, num_conns, exitPipe, workVars, history>>

(* recv_cmd returns less than 1: end of file, nothing there (MSG_DONTWAIT) *)
(* or an incomplete message.  The requests of the connection lose their    *)
(* descriptor before it is closed.                                         *)
RecvFails(c) == inbox[c] # <<>> => Head(inbox[c]).cmd = "short"

CloseSlot(i) ==
    /\ AtSlot(i)
    /\ LET f == pfd[i]  c == fdConn[f] IN
       /\ RecvFails(c)
       /\ request_queue_clear_requests_by_fd(f)
       /\ conn' = [conn EXCEPT ![c] = "closed"]
       /\ inbox' = [inbox EXCEPT ![c] = <<>>]
       /\ fdConn' = [fdConn EXCEPT ![f] = NoConn]
    /\ pfd' = [pfd EXCEPT ![i] = FD_INVALID]
    /\ num_conns' = num_conns - 1
    /\ slot' = i + 1
    /\ UNCHANGED <<hup, revents, listening, num_cslots, loop, exitPipe, workVars, history>>

(* rx_request turns down a command that is not one of Cmd: NotDone. *)
ReceiveInvalid(i) ==
    /\ AtSlot(i)
    /\ LET c == fdConn[pfd[i]] IN
       /\ ~RecvFails(c)
       /\ Head(inbox[c]).cmd \notin Cmd
       /\ inbox' = [inbox EXCEPT ![c] = Tail(@)]
    /\ slot' = i + 1
    /\ UNCHANGED <<queueVars, conn, hup, fdConn, pfd, revents, listening,
                   num_cslots, num_conns, loop, exitPipe, workVars, history>>

(* rx_request queues the request; a NotDone is sent back at once. *)
Receive(i) ==
    /\ AtSlot(i)
    /\ LET f == pfd[i]  c == fdConn[f]  m == Head(inbox[c])  r == arrived + 1 IN
       /\ ~RecvFails(c)
       /\ m.cmd \in Cmd
       /\ request_queue_add_request(m.tile, m.cmd, ItemFd(m.cmd, f))
       /\ inbox' = [inbox EXCEPT ![c] = Tail(@)]
       /\ sender' = [sender EXCEPT ![r] = c]
       /\ reqCmd' = [reqCmd EXCEPT ![r] = m.cmd]
       /\ answers' = [answers EXCEPT ![r] =
             IF AddStatus(m.tile, m.cmd) = "cmdNotDone" THEN Append(@, c) ELSE @]
    /\ slot' = i + 1
    /\ UNCHANGED <<conn, hup, fdConn, pfd, revents, listening, num_cslots,
                   num_conns, loop, exitPipe, workVars>>

process_loop ==
    \/ Poll
    \/ PollExit
    \/ \E c \in Conn, f \in Fd : Accept(c, f)
    \/ \E c \in Conn : AcceptDrops(c)
    \/ NoAccept
    \/ \E i \in Slot : CloseSlot(i) \/ ReceiveInvalid(i) \/ Receive(i)
    \/ EndOfSlots

-----------------------------------------------------------------------------
(* render_thread and send_response *)

Idle(t) == job[t] = 0 /\ rest[t] = <<>>

WorkerWaits(t) ==
    /\ Idle(t)
    /\ FetchBlocks(t) \/ SpuriousWakeup(t)
    /\ UNCHANGED <<clientVars, loopVars, exitPipe, workVars, history>>

WorkerFetches(t) ==
    /\ Idle(t)
    /\ \E q \in WaitQueue :
          /\ FetchFrom(t, q)
          /\ job' = [job EXCEPT ![t] = Head(queue[q])]
    /\ UNCHANGED <<clientVars, loopVars, exitPipe, rest, history>>

(* send_response takes the request off the queue; from here on only this   *)
(* thread sees it and its duplicates.                                      *)
Release(t, time) ==
    /\ request_queue_remove_request(job[t], time)
    /\ job' = [job EXCEPT ![t] = 0]
    /\ rest' = [rest EXCEPT ![t] = Chain(job[t])]
    /\ UNCHANGED <<clientVars, loopVars, history>>

(* How the rendering of a request can end: done, and then the time counts; *)
(* failed, in render or in save (-1 when there is no such map); or ignored *)
(* because the coordinates are out of bounds.                              *)
Outcome(cmd, time) ==
    \/ cmd = "cmdDone" /\ time >= 0
    \/ cmd = "cmdNotDone"
    \/ cmd = "cmdIgnore" /\ time = -1

(* An unknown exception while saving also asks for the exit. *)
WorkerRenders(t) ==
    /\ job[t] # 0
    /\ \E cmd \in {"cmdDone", "cmdNotDone", "cmdIgnore"}, time \in RenderTime :
          /\ Outcome(cmd, time)
          /\ Release(t, time)
          /\ exitPipe' \in IF MayExit /\ cmd = "cmdNotDone" /\ time >= 0
                           THEN {exitPipe, TRUE} ELSE {exitPipe}

(* The descriptor of the item at hand. *)
AnswerFd(t) == fd[Head(rest[t])]

(* send_cmd to the item's descriptor: whoever is behind it gets the answer,*)
(* and nobody does when it is closed.                                      *)
SendNext(t) ==
    /\ rest[t] # <<>>
    /\ LET r == Head(rest[t]) IN
       answers' = [answers EXCEPT ![r] =
           IF AnswerFd(t) # FD_INVALID /\ reqCmd[r] # "cmdDirty" /\ fdConn[AnswerFd(t)] # NoConn
           THEN Append(@, fdConn[AnswerFd(t)]) ELSE @]
    /\ rest' = [rest EXCEPT ![t] = Tail(@)]
    /\ UNCHANGED <<queueVars, clientVars, loopVars, exitPipe, job, sender, reqCmd>>

render_thread(t) == WorkerWaits(t) \/ WorkerFetches(t) \/ WorkerRenders(t) \/ SendNext(t)

-----------------------------------------------------------------------------
Clients == \E c \in Conn : Connect(c) \/ HangUp(c) \/ \E m \in Message : ClientSend(c, m)

Next == Clients \/ request_exit \/ process_loop \/ \E t \in Worker : render_thread(t)

Spec == Init /\ [][Next]_vars

-----------------------------------------------------------------------------
(* Properties *)

(* The poll array and the descriptor table agree: the open descriptors     *)
(* are in one slot each, below num_cslots, and num_conns counts them.      *)
SlotsExact ==
    /\ \A f \in Fd : fdConn[f] # NoConn =>
          Cardinality({i \in 1..num_cslots : pfd[i] = f}) = 1
    /\ \A i \in Slot : pfd[i] # FD_INVALID =>
          i <= num_cslots /\ fdConn[pfd[i]] # NoConn /\ conn[fdConn[pfd[i]]] = "accepted"
    /\ num_conns = Cardinality({i \in Slot : pfd[i] # FD_INVALID})

(* A request in the queue that has a descriptor has the one of the         *)
(* connection it came from, still open: a client that hangs up is cleared  *)
(* from the queue before its descriptor can be given to somebody else.     *)
QueuedFdCurrent ==
    \A r \in Request : life[r] = "queued" /\ fd[r] # FD_INVALID =>
        fdConn[fd[r]] = sender[r]

(* No request gets two answers: not the NotDone of rx_request and then the *)
(* one of send_response, nor one from each of two threads.  And while its  *)
(* client is connected nobody else gets the answer.                        *)
OneAnswerToItsClient ==
    \A r \in Request : /\ Len(answers[r]) <= 1
                       /\ \A c \in Range(answers[r]) : c = sender[r] \/ conn[sender[r]] = "closed"

(* process_loop closes a connection only at its end or after an incomplete *)
(* message: revents of a slot are never those of its previous connection.  *)
ClosedForCause ==
    [][\A c \in Conn : (conn[c] = "accepted" /\ conn'[c] = "closed") =>
          (inbox[c] = <<>> /\ c \in hup) \/ (inbox[c] # <<>> /\ Head(inbox[c]).cmd = "short")]_vars
=============================================================================
