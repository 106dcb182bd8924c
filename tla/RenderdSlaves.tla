--------------------------- MODULE RenderdSlaves ---------------------------
(***************************************************************************)
(* The daemon with slave threads: threads that fetch from the same queue   *)
(* and have another renderd do the rendering (slave_thread in              *)
(* src/src/renderd.c).                                                     *)
(*                                                                         *)
(* The other renderd is external: sending to it succeeds or fails, with    *)
(* EPIPE or with another error; a connection to it succeeds or fails; and  *)
(* it answers, or the connection ends, or reading from it keeps failing.   *)
(***************************************************************************)
EXTENDS Renderd

CONSTANT SendRetries
ASSUME SlavesAssumption == SendRetries \in Nat /\ -1 \in RenderTime

VARIABLES
    link,   \* "up" when the thread's pfd is a connection, "down" otherwise
    step,   \* "idle", "dispatch", "await" or "dead", per slave thread
    retry,  \* sends that may still be tried for the request at hand
    gaveUp  \* history: the requests a slave thread dropped

slaveVars == <<link, step, retry, gaveUp>>
allVars == <<vars, slaveVars>>

SlavesInit ==
    /\ Init
    /\ link = [t \in Slave |-> "down"]
    /\ step = [t \in Slave |-> "idle"]
    /\ retry = [t \in Slave |-> 0]
    /\ gaveUp = {}

At(t, s) == step[t] = s /\ rest[t] = <<>>
GoTo(t, s) == step' = [step EXCEPT ![t] = s]

(* client_socket_init; when it fails the thread sleeps and tries again. *)
SlaveConnects(t) ==
    /\ At(t, "idle")
    /\ link[t] = "down"
    /\ link' = [link EXCEPT ![t] = "up"]
    /\ UNCHANGED <<vars, step, retry, gaveUp>>

(* The top of the loop, past the connection. *)
Ready(t) == At(t, "idle") /\ link[t] = "up"

SlaveWaits(t) ==
    /\ Ready(t)
    /\ WorkerWaits(t)
    /\ UNCHANGED slaveVars

SlaveFetches(t) ==
    /\ Ready(t)
    /\ WorkerFetches(t)
    /\ GoTo(t, "dispatch")
    /\ retry' = [retry EXCEPT ![t] = SendRetries]
    /\ UNCHANGED <<link, gaveUp>>

(* send_response(item, ret, -1), and back to the top of the loop.  The     *)
(* thread's own sends follow, before it fetches again.                     *)
SlaveReleases(t) == Release(t, -1) /\ UNCHANGED exitPipe /\ GoTo(t, "idle")

SlaveSends(t) ==
    /\ At(t, "dispatch")
    /\ GoTo(t, "await")
    /\ UNCHANGED <<vars, link, retry, gaveUp>>

(* Back to the top of the loop, or out of it, with the request neither     *)
(* rendered nor released.                                                  *)
GivesUp(t) ==
    /\ job' = [job EXCEPT ![t] = 0]
    /\ gaveUp' = gaveUp \cup {job[t]}
    /\ UNCHANGED <<queueVars, clientVars, loopVars, exitPipe, rest, history, retry>>

(* while (retry--) *)
MayRetry(t) == retry[t] > 0

(* EPIPE, and the reconnection succeeds: another try, while there is one   *)
(* left; otherwise the thread goes back to the top of its loop.            *)
SlaveResends(t) ==
    /\ At(t, "dispatch")
    /\ IF MayRetry(t)
       THEN /\ retry' = [retry EXCEPT ![t] = @ - 1]
            /\ UNCHANGED <<vars, step, gaveUp>>
       ELSE GoTo(t, "idle") /\ GivesUp(t)
    /\ UNCHANGED link

(* EPIPE, and the reconnection fails: the request is answered. *)
SlaveLosesLink(t) ==
    /\ At(t, "dispatch")
    /\ SlaveReleases(t)
    /\ link' = [link EXCEPT ![t] = "down"]
    /\ UNCHANGED <<retry, gaveUp>>

(* Any other error: the thread ends. *)
SlaveDies(t) ==
    /\ At(t, "dispatch")
    /\ GoTo(t, "dead")
    /\ link' = [link EXCEPT ![t] = "down"]
    /\ GivesUp(t)

(* An answer, of whatever command, or ten failed reads: the link stays up. *)
SlaveAnswers(t) ==
    /\ At(t, "await")
    /\ SlaveReleases(t)
    /\ UNCHANGED <<link, retry, gaveUp>>

(* The slave closes the connection instead of answering. *)
SlaveHangsUp(t) ==
    /\ At(t, "await")
    /\ SlaveReleases(t)
    /\ link' = [link EXCEPT ![t] = "down"]
    /\ UNCHANGED <<retry, gaveUp>>

SlaveSendNext(t) == SendNext(t) /\ UNCHANGED slaveVars

slave_thread(t) ==
    \/ SlaveConnects(t) \/ SlaveWaits(t) \/ SlaveFetches(t)
    \/ SlaveSends(t) \/ SlaveResends(t) \/ SlaveLosesLink(t) \/ SlaveDies(t)
    \/ SlaveAnswers(t) \/ SlaveHangsUp(t) \/ SlaveSendNext(t)

SlavesNext == (Next /\ UNCHANGED slaveVars) \/ \E t \in Slave : slave_thread(t)

(* process_loop and the threads are never starved by the scheduler: a      *)
(* thread that has something to do does it.  Clients owe us nothing; a     *)
(* slave that was sent a request answers or goes.                          *)
SlavesFairness ==
    /\ WF_allVars(process_loop /\ UNCHANGED slaveVars)
    /\ \A t \in Worker :
          /\ WF_allVars(WorkerFetches(t) /\ UNCHANGED slaveVars)
          /\ WF_allVars(WorkerRenders(t) /\ UNCHANGED slaveVars)
          /\ WF_allVars(SendNext(t) /\ UNCHANGED slaveVars)
    /\ \A t \in Slave :
          /\ WF_allVars(SlaveConnects(t))
          /\ WF_allVars(SlaveFetches(t))
          /\ WF_allVars(SlaveSends(t) \/ SlaveResends(t) \/ SlaveLosesLink(t) \/ SlaveDies(t))
          /\ WF_allVars(SlaveAnswers(t) \/ SlaveHangsUp(t))
          /\ WF_allVars(SlaveSendNext(t))

SlavesSpec == SlavesInit /\ [][SlavesNext]_allVars
SlavesFairSpec == SlavesSpec /\ SlavesFairness

-----------------------------------------------------------------------------
(* Properties *)

(* Refinement: the daemon is a RenderService.  A request has been answered *)
(* when its sender got an answer, is forgotten when send_response is       *)
(* through with it and its sender got none, and is lost when it is on the  *)
(* render list, or chained to such a one, and a slave thread dropped it.   *)
Lost == UNION {Range(Chain(h)) : h \in rendering \cap gaveUp}
InFlight(r) == life[r] = "queued" \/ \E t \in Thread : r \in Range(rest[t])
Phase(r) == IF r > arrived THEN "unsent"
            ELSE IF sender[r] \in Range(answers[r]) THEN "answered"
            ELSE IF r \in Lost THEN "lost"
            ELSE IF InFlight(r) THEN "waiting" ELSE "forgotten"

S == INSTANCE RenderService WITH
        Req <- Request,
        phase <- [r \in Request |-> Phase(r)],
        abandoned <- {r \in 1..arrived : \/ reqCmd[r] = "cmdDirty"
                                         \/ sender[r] \in hup
                                         \/ conn[sender[r]] = "closed"},
        exiting <- exitPipe

(* Every request is concluded once, and answered unless nobody waits for   *)
(* the answer; every request is concluded, unless renderd exits; and none  *)
(* is lost but through slave threads.                                      *)
ImplementsRenderService == S!Service
=============================================================================
