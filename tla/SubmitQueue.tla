---------------------------- MODULE SubmitQueue ----------------------------
(***************************************************************************)
(* The job queue of render_list, render_old, render_expired and            *)
(* render_speedtest (src/src/render_submit_queue.c).  The main thread      *)
(* enqueues tiles in a bounded list; worker threads fetch them, ask        *)
(* renderd and wait for the answer, reconnecting when the connection is    *)
(* lost.                                                                   *)
(*                                                                         *)
(* A job is a number in the order of the calls to enqueue and stands for   *)
(* its struct qItem.  fetch, enqueue and wait_for_empty_queue hold qLock   *)
(* except in pthread_cond_wait, so each is one action between two waits.   *)
(***************************************************************************)
EXTENDS Integers, Sequences, FiniteSets

CONSTANTS
    Worker,       \* the worker threads; qMaxLen is their number
    MaxJobs,      \* bound: how many tiles the tool enqueues
    Duration      \* the milliseconds a rendering can take

Job == 1..MaxJobs
NULL == 0
qMaxLen == Cardinality(Worker)

ASSUME SubmitAssumption ==
    /\ qMaxLen \in Nat \ {0}
    /\ MaxJobs \in Nat
    /\ Duration \subseteq Nat

VARIABLES
    tcp,                  \* whether spath names a host or a Unix socket
    enqueued,             \* how many jobs enqueue has been called for
    qHead, qTail, next,   \* the linked list
    qLen,
    work_complete,
    mainAt,                 \* where the main thread stands
    worker,               \* where a worker thread stands
    cmd,                  \* the job in a worker's hands
    exited,               \* the process has called exit
    stat,                 \* performance_stats for one zoom level
    fetched,              \* history: the jobs in the order fetch returned them
    answered,             \* history: the jobs that renderd has answered
    times                 \* history: the durations of the jobs answered Done

listVars == <<tcp, enqueued, qHead, qTail, next, qLen, fetched>>
statVars == <<stat, times>>
jobVars == <<cmd, answered>>
submitVars == <<listVars, work_complete, mainAt, worker, jobVars, exited, statVars>>

(* spawn_workers; the static variables start as zero. *)
spawn_workers ==
    /\ tcp \in BOOLEAN
    /\ enqueued = 0
    /\ qHead = NULL /\ qTail = NULL /\ next = [j \in Job |-> NULL]
    /\ qLen = 0
    /\ work_complete = FALSE
    /\ mainAt = "run"
    /\ worker = [w \in Worker |-> "start"]
    /\ cmd = [w \in Worker |-> NULL]
    /\ exited = FALSE
    /\ stat = [noRendered |-> 0, time_total |-> 0, time_min |-> 0, time_max |-> 0]
    /\ fetched = <<>> /\ answered = {}
    /\ times = <<>>

-----------------------------------------------------------------------------
(* The main thread *)

(* pthread_cond_signal(&qCondNotEmpty) *)
SignalNotEmpty ==
    \/ \E w \in Worker : worker[w] = "blocked" /\ worker' = [worker EXCEPT ![w] = "woken"]
    \/ (\A w \in Worker : worker[w] # "blocked") /\ UNCHANGED worker

(* Mutation: the new item becomes the tail but is not linked. *)
AppendUnlinked(j) ==
    /\ qHead' = IF qTail = NULL THEN j ELSE qHead
    /\ UNCHANGED next
    /\ qTail' = j

AppendItem(j) ==
    /\ qHead' = IF qTail = NULL THEN j ELSE qHead
    /\ next' = IF qTail = NULL THEN next ELSE [next EXCEPT ![qTail] = j]
    /\ qTail' = j

QueueFull == qLen = qMaxLen

(* enqueue finds the queue full and waits on qCondNotFull. *)
EnqueueWaits ==
    /\ mainAt \in {"run", "wokenFull"}
    /\ enqueued < MaxJobs
    /\ QueueFull
    /\ mainAt' = "blockedFull"
    /\ UNCHANGED <<listVars, work_complete, worker, jobVars, exited, statVars>>

EnqueueAppends ==
    /\ mainAt \in {"run", "wokenFull"}
    /\ enqueued < MaxJobs
    /\ ~QueueFull
    /\ enqueued' = enqueued + 1
    /\ AppendItem(enqueued + 1)
    /\ qLen' = qLen + 1
    /\ SignalNotEmpty
    /\ mainAt' = "run"
    /\ UNCHANGED <<tcp, work_complete, jobVars, exited, fetched, statVars>>

(* wait_for_empty_queue uses the same condition variable. *)
EmptyWaits ==
    /\ mainAt \in {"run", "wokenEmpty"}
    /\ qLen > 0
    /\ mainAt' = "blockedEmpty"
    /\ UNCHANGED <<listVars, work_complete, worker, jobVars, exited, statVars>>

EmptyReturns ==
    /\ mainAt = "wokenEmpty"
    /\ qLen = 0
    /\ mainAt' = "run"
    /\ UNCHANGED <<listVars, work_complete, worker, jobVars, exited, statVars>>

(* finish_workers: set the flag, unlock, wake everybody, join everybody. *)
FinishSetsFlag ==
    /\ mainAt = "run"
    /\ work_complete' = TRUE
    /\ mainAt' = "broadcast"
    /\ UNCHANGED <<listVars, worker, jobVars, exited, statVars>>

(* pthread_cond_broadcast(&qCondNotEmpty) *)
WakeAll == worker' = [w \in Worker |-> IF worker[w] = "blocked" THEN "woken" ELSE worker[w]]

FinishBroadcasts ==
    /\ mainAt = "broadcast"
    /\ WakeAll
    /\ mainAt' = "join"
    /\ UNCHANGED <<listVars, work_complete, jobVars, exited, statVars>>

FinishJoins ==
    /\ mainAt = "join"
    /\ \A w \in Worker : worker[w] \in {"ended", "failed"}
    /\ mainAt' = "done"
    /\ UNCHANGED <<listVars, work_complete, worker, jobVars, exited, statVars>>

MainWakesSpuriously ==
    /\ \/ mainAt = "blockedFull" /\ mainAt' = "wokenFull"
       \/ mainAt = "blockedEmpty" /\ mainAt' = "wokenEmpty"
    /\ UNCHANGED <<listVars, work_complete, worker, jobVars, exited, statVars>>

enqueue == EnqueueWaits \/ EnqueueAppends
wait_for_empty_queue == EmptyWaits \/ EmptyReturns
finish_workers == FinishSetsFlag \/ FinishBroadcasts \/ FinishJoins

-----------------------------------------------------------------------------
(* The worker threads *)

WorkerTo(w, s) == worker' = [worker EXCEPT ![w] = s]

(* make_connection when thread_main starts.  A Unix socket that cannot be  *)
(* connected ends the thread; a host that cannot be ends the process.      *)
Connects(w) ==
    /\ worker[w] = "start"
    /\ WorkerTo(w, "loop")
    /\ UNCHANGED <<listVars, work_complete, mainAt, jobVars, exited, statVars>>

ConnectFails(w) ==
    /\ worker[w] = "start"
    /\ WorkerTo(w, "failed")
    /\ exited' = tcp
    /\ UNCHANGED <<listVars, work_complete, mainAt, jobVars, statVars>>

(* pthread_cond_signal(&qCondNotFull): only the main thread waits on it. *)
SignalNotFull ==
    mainAt' = CASE mainAt = "blockedFull"  -> "wokenFull"
              [] mainAt = "blockedEmpty" -> "wokenEmpty"
              [] OTHER                 -> mainAt

(* fetch, entered after check_load has let the thread through.  The test   *)
(* for the end is made only when the queue is empty.                       *)
FetchEnds(w) ==
    /\ worker[w] \in {"loop", "woken"}
    /\ qLen = 0
    /\ work_complete
    /\ WorkerTo(w, "ended")
    /\ UNCHANGED <<listVars, work_complete, mainAt, jobVars, exited, statVars>>

FetchWaits(w) ==
    /\ worker[w] \in {"loop", "woken"}
    /\ qLen = 0
    /\ ~work_complete
    /\ WorkerTo(w, "blocked")
    /\ UNCHANGED <<listVars, work_complete, mainAt, jobVars, exited, statVars>>

TakeHead ==
    /\ qHead' = IF qLen = 1 THEN NULL ELSE next[qHead]
    /\ qTail' = IF qLen = 1 THEN NULL ELSE qTail

(* The code exits with "Queue failure" when qHead is NULL here; ListExact   *)
(* says that never happens, so there is no such step.                      *)
FetchTakes(w) ==
    /\ worker[w] \in {"loop", "woken"}
    /\ qLen > 0
    /\ qLen' = qLen - 1
    /\ TakeHead
    /\ cmd' = [cmd EXCEPT ![w] = qHead]
    /\ fetched' = Append(fetched, qHead)
    /\ SignalNotFull
    /\ WorkerTo(w, "process")
    /\ UNCHANGED <<tcp, enqueued, next, work_complete, answered, exited, statVars>>

WakesSpuriously(w) ==
    /\ worker[w] = "blocked"
    /\ WorkerTo(w, "woken")
    /\ UNCHANGED <<listVars, work_complete, mainAt, jobVars, exited, statVars>>

(* process: renderd answers Done and the time is recorded ... *)
Record(t) ==
    [noRendered |-> stat.noRendered + 1,
     time_total |-> stat.time_total + t,
     time_min   |-> IF stat.time_min > t \/ stat.time_min = 0 THEN t ELSE stat.time_min,
     time_max   |-> IF stat.time_max < t THEN t ELSE stat.time_max]

ProcessDone(w, t) ==
    /\ worker[w] = "process"
    /\ stat' = Record(t)
    /\ times' = Append(times, t)
    /\ answered' = answered \cup {cmd[w]}
    /\ cmd' = [cmd EXCEPT ![w] = NULL]
    /\ WorkerTo(w, "loop")
    /\ UNCHANGED <<listVars, work_complete, mainAt, exited>>

(* ... or anything else, and the job is dropped after a second ... *)
ProcessNotDone(w) ==
    /\ worker[w] = "process"
    /\ answered' = answered \cup {cmd[w]}
    /\ cmd' = [cmd EXCEPT ![w] = NULL]
    /\ WorkerTo(w, "loop")
    /\ UNCHANGED <<listVars, work_complete, mainAt, exited, statVars>>

(* ... or the connection is lost before the answer. *)
ProcessLost(w) ==
    /\ worker[w] = "process"
    /\ WorkerTo(w, "lost")
    /\ UNCHANGED <<listVars, work_complete, mainAt, jobVars, exited, statVars>>

(* Mutation: the new connection goes unnoticed. *)
ReconnectsUnnoticed(w) ==
    /\ worker[w] = "lost"
    /\ UNCHANGED submitVars

(* Mutation: the job is not sent again. *)
ReconnectsDropping(w) ==
    /\ worker[w] = "lost"
    /\ cmd' = [cmd EXCEPT ![w] = NULL]
    /\ WorkerTo(w, "loop")
    /\ UNCHANGED <<listVars, work_complete, mainAt, answered, exited, statVars>>

(* Every 30 seconds another make_connection; then the same job is sent     *)
(* again.                                                                  *)
Reconnects(w) ==
    /\ worker[w] = "lost"
    /\ WorkerTo(w, "process")
    /\ UNCHANGED <<listVars, work_complete, mainAt, jobVars, exited, statVars>>

ReconnectFails(w) ==
    /\ worker[w] = "lost"
    /\ tcp
    /\ exited' = TRUE
    /\ UNCHANGED <<listVars, work_complete, mainAt, worker, jobVars, statVars>>

fetch(w) == FetchEnds(w) \/ FetchWaits(w) \/ FetchTakes(w)
process(w) == (\E t \in Duration : ProcessDone(w, t)) \/ ProcessNotDone(w) \/ ProcessLost(w)
thread_main(w) == Connects(w) \/ fetch(w) \/ process(w) \/ Reconnects(w)

-----------------------------------------------------------------------------
SubmitNext ==
    /\ ~exited
    /\ \/ enqueue \/ wait_for_empty_queue \/ finish_workers \/ MainWakesSpuriously
       \/ \E w \in Worker : \/ thread_main(w)
                            \/ ConnectFails(w) \/ ReconnectFails(w) \/ WakesSpuriously(w)

SubmitSpec == spawn_workers /\ [][SubmitNext]_submitVars

(* Every thread keeps running; a lost connection is eventually made again, *)
(* and renderd does not lose every one of them.                            *)
SubmitFairness ==
    /\ WF_submitVars(~exited /\ (enqueue \/ EmptyReturns \/ finish_workers))
    /\ \A w \in Worker :
          /\ WF_submitVars(~exited /\ thread_main(w))
          /\ SF_submitVars(~exited /\ (ProcessNotDone(w) \/ \E t \in Duration : ProcessDone(w, t)))

SubmitFairSpec == SubmitSpec /\ SubmitFairness
-----------------------------------------------------------------------------
(* Properties *)

(* The linked list holds exactly the jobs that were enqueued and not yet   *)
(* fetched, in the order of the calls to enqueue, qLen of them, from qHead *)
(* to qTail, and never more than the queue's capacity: fetch has returned  *)
(* a prefix of the jobs, each of them once, and the "Queue failure, null   *)
(* qHead" exit of fetch cannot happen.                                     *)
ListExact ==
    LET first == Len(fetched) + 1 IN
    /\ fetched = [i \in 1..Len(fetched) |-> i]
    /\ qLen = enqueued - Len(fetched) /\ qLen <= qMaxLen
    /\ IF qLen = 0 THEN qHead = NULL /\ qTail = NULL
                   ELSE qHead = first /\ qTail = enqueued
    /\ \A j \in first..(enqueued - 1) : next[j] = j + 1

(* The statistics summarise the jobs answered Done.  A time_min of 0 means *)
(* "none yet" to the code, so the minimum is exact only while no rendering *)
(* took less than a millisecond.                                           *)
StatExact ==
    LET all == {times[i] : i \in DOMAIN times}
        total[n \in 0..Len(times)] == IF n = 0 THEN 0 ELSE total[n - 1] + times[n]
    IN  /\ stat.noRendered = Len(times)
        /\ stat.time_total = total[Len(times)]
        /\ times # <<>> => stat.time_max \in all /\ \A t \in all : t <= stat.time_max
        /\ times # <<>> /\ 0 \notin all => stat.time_min \in all /\ \A t \in all : t >= stat.time_min

(* finish_workers returns only when renderd has answered every job, those  *)
(* that were sent again included, unless no worker ever got a connection.  *)
EveryJobAnswered ==
    mainAt = "done" => \/ qLen = 0 /\ answered = 1..enqueued
                     \/ \A w \in Worker : worker[w] = "failed"

(* What is left when finish_workers returns: no job without an answer,     *)
(* though connections broke while the workers waited (thread_main), and    *)
(* the statistics that are printed then are those of the answers.          *)
NothingLeftBehind == EveryJobAnswered /\ (mainAt = "done" => StatExact)

(* The tool ends, unless every worker failed to connect; over TCP a failed *)
(* connection exits the process.                                           *)
Finishes == <>(mainAt = "done" \/ exited \/ \A w \in Worker : worker[w] = "failed")
=============================================================================
