---------------------------- MODULE RenderService ----------------------------
(***************************************************************************)
(* What renderd promises its clients, whatever its queues and threads do.  *)
(*                                                                         *)
(* A request is received, and later concluded once: it is answered, or it  *)
(* is forgotten.  Only a request nobody waits for may be forgotten: a      *)
(* cmdDirty, or one whose client has gone.  Every request is concluded,    *)
(* unless the daemon is told to exit.  A daemon that dispatches to slaves  *)
(* may also lose requests, waiting ones or new ones for the same metatile. *)
(***************************************************************************)
CONSTANT Req

VARIABLES
    phase,      \* "unsent", "waiting", "answered", "forgotten" or "lost"
    abandoned,  \* the requests nobody waits for an answer to
    exiting     \* the daemon was told to exit

serviceVars == <<phase, abandoned, exiting>>

Init ==
    /\ phase = [r \in Req |-> "unsent"]
    /\ abandoned = {}
    /\ exiting = FALSE

Move(r, from, to) == phase[r] = from /\ phase' = [phase EXCEPT ![r] = to]

(* A request may be answered on arrival, and a cmdDirty is abandoned then. *)
Receive(r) ==
    /\ \/ Move(r, "unsent", "waiting")
       \/ Move(r, "unsent", "answered")
       \/ Move(r, "unsent", "lost")
    /\ abandoned' \in {abandoned, abandoned \cup {r}}
    /\ UNCHANGED exiting

(* The client of some requests goes away. *)
HangUp ==
    /\ abandoned \subseteq abandoned'
    /\ abandoned' \subseteq {r \in Req : phase[r] # "unsent"}
    /\ UNCHANGED <<phase, exiting>>

Answer(r) == Move(r, "waiting", "answered") /\ UNCHANGED <<abandoned, exiting>>

Forget(r) ==
    /\ r \in abandoned
    /\ Move(r, "waiting", "forgotten")
    /\ UNCHANGED <<abandoned, exiting>>

(* A slave could not be reached: what it was to render is lost. *)
Lose ==
    /\ \E R \in SUBSET {r \in Req : phase[r] = "waiting"} :
          phase' = [r \in Req |-> IF r \in R THEN "lost" ELSE phase[r]]
    /\ UNCHANGED <<abandoned, exiting>>

Exit == exiting' = TRUE /\ UNCHANGED <<phase, abandoned>>

Conclude(r) == ~exiting /\ (Answer(r) \/ Forget(r))

Next ==
    \/ \E r \in Req : Receive(r) \/ Answer(r) \/ Forget(r)
    \/ HangUp
    \/ Lose
    \/ Exit

Safety == Init /\ [][Next]_serviceVars
Service == Safety /\ \A r \in Req : WF_serviceVars(Conclude(r))
=============================================================================
