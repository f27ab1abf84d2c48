---------------------------- MODULE ToolAnswers ----------------------------
(***************************************************************************)
(* What an executor of streamed tool calls promises to the query loop      *)
(* (src/claude/query.ts): every tool call it is given is answered once,    *)
(* the answer is reported once, the collection ends when everything is     *)
(* reported, and nothing is reported after the executor was discarded.     *)
(***************************************************************************)
EXTENDS Naturals

CONSTANT MaxTools  \* tool calls of one response, numbered as they arrive

Slots == 1..MaxTools

VARIABLES
  phase,  \* of each call: "absent", "pending", "answered" or "reported"
  mode    \* "open", "closed" (all results collected) or "discarded"

vars == <<phase, mode>>

Init ==
  /\ phase = [i \in Slots |-> "absent"]
  /\ mode = "open"

Pending == {j \in Slots : phase[j] = "pending"}

\* The next call of the response arrives.  It may have its answer at once, and
\* so may calls that waited.
Give(i) ==
  /\ mode = "open"
  /\ phase[i] = "absent"
  /\ \A j \in 1..(i - 1) : phase[j] # "absent"
  /\ \E S \in SUBSET (Pending \cup {i}) :
       phase' = [j \in Slots |-> IF j \in S THEN "answered"
                                 ELSE IF j = i THEN "pending" ELSE phase[j]]
  /\ UNCHANGED mode

\* A call is answered, by its tool or by the executor in its place.
Answer(i) ==
  /\ phase[i] = "pending"
  /\ phase' = [phase EXCEPT ![i] = "answered"]
  /\ UNCHANGED mode

Report(i) ==
  /\ mode = "open"
  /\ phase[i] = "answered"
  /\ phase' = [phase EXCEPT ![i] = "reported"]
  /\ UNCHANGED mode

Close ==
  /\ mode = "open"
  /\ \A i \in Slots : phase[i] \in {"absent", "reported"}
  /\ mode' = "closed"
  /\ UNCHANGED phase

Discard ==
  /\ mode = "open"
  /\ mode' = "discarded"
  /\ UNCHANGED phase

Next ==
  \/ \E i \in Slots : Give(i) \/ Answer(i) \/ Report(i)
  \/ Close \/ Discard

Spec == Init /\ [][Next]_vars
=============================================================================
