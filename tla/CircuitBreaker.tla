--------------------------- MODULE CircuitBreaker ---------------------------
(***************************************************************************)
(* CircuitBreaker (infra/resilience/circuit_breaker/core.py), the breaker  *)
(* shared by the message buses, the communication bus and the decorated    *)
(* communication services, with the coroutines that call it.               *)
(*                                                                         *)
(* The breaker's methods are synchronous, so each is atomic on the event   *)
(* loop; what interleaves is the protected call between the admission of a *)
(* caller and the recording of its result.  The methods are operators on   *)
(* the record of the breaker's fields, so that a step may make several of  *)
(* the calls the code makes before its next await.                         *)
(***************************************************************************)
EXTENDS Integers, FiniteSets

CONSTANTS
  Callers,           \* the coroutines that use the breaker
  Checked,           \* those that are admitted by check() (the others by can_execute())
  FailureThreshold, SuccessThreshold, MaxHalfOpen,
  HasFallback,       \* fallback_enabled and a handler is set
  Operated           \* reset, force_open and force_close are used

ASSUME CallersAssumption == Checked \subseteq Callers
ASSUME ThresholdsAssumption ==
  /\ FailureThreshold \in Nat \ {0}
  /\ SuccessThreshold \in Nat \ {0}
  /\ MaxHalfOpen \in Nat \ {0}
ASSUME SwitchesAssumption == HasFallback \in BOOLEAN /\ Operated \in BOOLEAN

VARIABLES
  cb,       \* the breaker
  caller,   \* where a caller stands
  healthy   \* the protected service has recovered for good (no variable of the code)

vars == <<cb, caller, healthy>>

\* consecutive_failures is compared with its threshold only in CLOSED, which is
\* always entered with 0, and consecutive_successes only in HALF_OPEN, entered
\* with 0: stopping the counts at the thresholds loses nothing.
Breakers ==
  [state : {"closed", "open", "half_open"},
   elapsed : BOOLEAN,                 \* recovery_timeout has passed since _last_opened_time
   fails : 0 .. FailureThreshold,     \* stats.consecutive_failures
   oks : 0 .. SuccessThreshold,       \* stats.consecutive_successes
   probes : Nat]                      \* _half_open_calls

\* A caller in "call" was admitted by a closed breaker, in "probe" by a half-open one.
Places == {"idle", "call", "probe", "fallback"}

UpTo(n, bound) == IF n < bound THEN n ELSE bound

-----------------------------------------------------------------------------
(* The methods.                                                            *)

NewBreaker == [state |-> "closed", elapsed |-> FALSE, fails |-> 0, oks |-> 0, probes |-> 0]

\* (mutant: the counts of the previous probing period are kept)
ReadKeepsCounts(b) ==
  IF b.state = "open" /\ b.elapsed THEN [b EXCEPT !.state = "half_open"] ELSE b

\* Reading the state property turns an expired OPEN into HALF_OPEN.
Read(b) ==
  IF b.state = "open" /\ b.elapsed
  THEN [b EXCEPT !.state = "half_open", !.probes = 0, !.oks = 0]
  ELSE b

Admits(b) == b.state = "closed" \/ (b.state = "half_open" /\ b.probes < MaxHalfOpen)

Opened(b) == [b EXCEPT !.state = "open", !.elapsed = FALSE]

\* (mutant: a success closes whatever the state)
RecordSuccessAnyState(b) ==
  LET n == [b EXCEPT !.oks = UpTo(@ + 1, SuccessThreshold), !.fails = 0]
  IN IF n.oks = SuccessThreshold THEN [n EXCEPT !.state = "closed", !.probes = 0]
     ELSE IF b.state = "half_open" THEN [n EXCEPT !.probes = @ + 1]
     ELSE n

RecordSuccess(b) ==
  LET n == [b EXCEPT !.oks = UpTo(@ + 1, SuccessThreshold), !.fails = 0]
  IN IF b.state # "half_open" THEN n
     ELSE IF n.oks = SuccessThreshold THEN [n EXCEPT !.state = "closed", !.probes = 0]
     ELSE [n EXCEPT !.probes = @ + 1]

RecordFailure(b) ==
  LET n == [b EXCEPT !.fails = UpTo(@ + 1, FailureThreshold), !.oks = 0]
  IN IF \/ b.state = "closed" /\ n.fails = FailureThreshold
        \/ b.state = "half_open"
     THEN Opened(n)
     ELSE n

-----------------------------------------------------------------------------
Init ==
  /\ cb = NewBreaker
  /\ caller = [c \in Callers |-> "idle"]
  /\ healthy = FALSE

Goto(c, place) == caller' = [caller EXCEPT ![c] = place]

AfterRefusal == IF HasFallback THEN "fallback" ELSE "idle"

\* can_execute() or check() lets the caller through; only check() counts it at once.
Admit(c) ==
  LET b == Read(cb) IN
  /\ caller[c] = "idle"
  /\ Admits(b)
  /\ cb' = IF c \in Checked /\ b.state = "half_open" THEN [b EXCEPT !.probes = @ + 1] ELSE b
  /\ Goto(c, IF b.state = "closed" THEN "call" ELSE "probe")
  /\ UNCHANGED healthy

\* execute answers with the fallback or with an error; check() raises.
Block(c) ==
  /\ caller[c] = "idle"
  /\ ~Admits(Read(cb))
  /\ cb' = Read(cb)
  /\ Goto(c, IF c \in Checked THEN "idle" ELSE AfterRefusal)
  /\ UNCHANGED healthy

Succeed(c) ==
  /\ caller[c] \in {"call", "probe"}
  /\ cb' = RecordSuccess(cb)
  /\ Goto(c, "idle")
  /\ UNCHANGED healthy

\* An error result, an exception or the timeout of wait_for.  The answers that
\* are built without a fallback read the state once more; an error result is
\* returned as it is.
Fail(c) ==
  /\ caller[c] \in {"call", "probe"}
  /\ ~healthy
  /\ \/ cb' = RecordFailure(cb) /\ Goto(c, "idle")
     \/ c \notin Checked /\ HasFallback /\ cb' = RecordFailure(cb) /\ Goto(c, "fallback")
     \/ c \notin Checked /\ ~HasFallback /\ cb' = Read(RecordFailure(cb)) /\ Goto(c, "idle")
  /\ UNCHANGED healthy

\* CancelledError passes both except clauses: nothing is recorded.
Cancel(c) ==
  /\ caller[c] \in {"call", "probe"}
  /\ ~healthy
  /\ Goto(c, "idle")
  /\ UNCHANGED <<cb, healthy>>

FallbackReturns(c) ==
  /\ caller[c] = "fallback"
  /\ Goto(c, "idle")
  /\ UNCHANGED <<cb, healthy>>

\* The monotonic clock reaches _last_opened_time + recovery_timeout.
TimeoutElapses ==
  /\ cb.state = "open" /\ ~cb.elapsed
  /\ cb' = [cb EXCEPT !.elapsed = TRUE]
  /\ UNCHANGED <<caller, healthy>>

\* get_stats and every other reader of the state property.
Observe == cb' = Read(cb) /\ UNCHANGED <<caller, healthy>>

Reset == Operated /\ ~healthy /\ cb' = NewBreaker /\ UNCHANGED <<caller, healthy>>

ForceOpen == Operated /\ ~healthy /\ cb' = Opened(cb) /\ UNCHANGED <<caller, healthy>>

ForceClose ==
  /\ Operated /\ ~healthy
  /\ cb' = [cb EXCEPT !.state = "closed", !.fails = 0, !.probes = 0]
  /\ UNCHANGED <<caller, healthy>>

\* The environment: from here on every protected call succeeds, and the operator
\* leaves the breaker alone.
Recover == ~healthy /\ healthy' = TRUE /\ UNCHANGED <<cb, caller>>

Next ==
  \/ \E c \in Callers : \/ Admit(c) \/ Block(c) \/ Succeed(c)
                        \/ Fail(c) \/ Cancel(c) \/ FallbackReturns(c)
  \/ TimeoutElapses \/ Observe \/ Reset \/ ForceOpen \/ ForceClose \/ Recover

Spec == Init /\ [][Next]_vars

\* The clock moves on, callers keep arriving, wait_for bounds every call (an
\* admitted call of a healthy service succeeds) and fallbacks return.
FairSpec ==
  /\ Spec
  /\ WF_vars(TimeoutElapses)
  /\ \A c \in Callers : /\ WF_vars(Admit(c) \/ Block(c))
                        /\ WF_vars(Succeed(c))
                        /\ WF_vars(FallbackReturns(c))

-----------------------------------------------------------------------------
(* Properties.                                                             *)

\* The fields keep their types and the counters their bounds.
TypeOK ==
  /\ cb \in Breakers
  /\ caller \in [Callers -> Places]
  /\ healthy \in BOOLEAN

\* A closed breaker has always at least one failure left before it opens,
\* whatever calls of earlier periods end in it (record_failure counts them all,
\* in every state, and only a success or force_close sets the count back).
ClosedHasMargin == cb.state = "closed" => cb.fails < FailureThreshold

\* _half_open_calls, which the admission compares with max_half_open_calls,
\* counts the successes of the probing period: it is raised by record_success,
\* whichever period the successful call was admitted in, and by nothing else.
ProbesAreSuccesses == cb.state = "half_open" => cb.probes = cb.oks /\ cb.oks < SuccessThreshold

\* A half-open breaker never refuses: a breaker that counts probes and closes
\* by their successes must admit calls until one of them closes or opens it.
HalfOpenAdmits == cb.state = "half_open" => Admits(cb)

\* A call that ends after the breaker opened (it was admitted before) does not
\* close it: recovery goes through HALF_OPEN unless an operator closes it.
OpenStaysOpen ==
  [][cb.state = "open" /\ cb'.state = "closed" => Reset \/ ForceClose]_vars

\* States: CLOSED -> OPEN -> HALF_OPEN -> CLOSED: once the protected service
\* has recovered and callers keep coming, the breaker closes for good.
Heals == healthy ~> [](cb.state = "closed")
=============================================================================
