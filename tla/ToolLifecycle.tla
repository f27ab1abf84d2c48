--------------------------- MODULE ToolLifecycle ---------------------------
(***************************************************************************)
(* What the streaming tool executor promises about the tool calls of one   *)
(* message, without its tasks, semaphore, hooks and queue.                 *)
(*                                                                         *)
(* A call is absent until it is submitted, waits in the queue, is active,  *)
(* and ends settled.  Exclusive calls are never active together.  Once the *)
(* executor is closed nothing becomes active; queued calls may be dropped, *)
(* and only then may an active call be lost without a result.              *)
(***************************************************************************)
CONSTANTS Tools, Safe

VARIABLES phase, closed

Phases == {"absent", "queued", "active", "settled", "dropped", "lost"}

Exclusive == Tools \ Safe

Init == phase = [t \in Tools |-> "absent"] /\ closed = FALSE

\* The calls of S leave the queue and become active.
Activate(ph, S) == [t \in Tools |-> IF t \in S THEN "active" ELSE ph[t]]

\* A set of calls that may become active when ph holds: queued ones, at most
\* one of them exclusive and then no other exclusive one active.
MayActivate(ph) ==
  {S \in SUBSET {t \in Tools : ph[t] = "queued"} :
     \A x \in S \cap Exclusive : \A y \in Exclusive \ {x} :
       y \notin S /\ ph[y] # "active"}

Startable(ph, shut) == IF shut THEN {{}} ELSE MayActivate(ph)

Submit(t) ==
  /\ phase[t] = "absent"
  /\ LET queued == [phase EXCEPT ![t] = "queued"]
     IN \E S \in Startable(queued, closed) : S \subseteq {t} /\ phase' = Activate(queued, S)
  /\ UNCHANGED closed

\* A scheduling pass.
Schedule ==
  /\ \E S \in Startable(phase, closed) : phase' = Activate(phase, S)
  /\ UNCHANGED closed

\* A call ends with its result, possibly closing the executor, and otherwise
\* handing over to queued ones.
Settle(t) ==
  /\ phase[t] = "active"
  /\ closed' \in {closed, TRUE}
  /\ LET settled == [phase EXCEPT ![t] = "settled"]
     IN \E S \in Startable(settled, closed') : phase' = Activate(settled, S)

\* The executor closes and drops what is queued.
Close ==
  /\ closed' = TRUE
  /\ phase' = [t \in Tools |-> IF phase[t] = "queued" THEN "dropped" ELSE phase[t]]

Lose(t) ==
  /\ closed
  /\ phase[t] = "active"
  /\ phase' = [phase EXCEPT ![t] = "lost"]
  /\ UNCHANGED closed

Next ==
  \/ Schedule \/ Close
  \/ \E t \in Tools : Submit(t) \/ Settle(t) \/ Lose(t)

Spec == Init /\ [][Next]_<<phase, closed>>
=============================================================================
