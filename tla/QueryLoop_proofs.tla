------------------------- MODULE QueryLoop_proofs -------------------------
(***************************************************************************)
(* Theorems about the query loop, for any settings of the query, any       *)
(* number of tools in a response and any number of turns.                  *)
(***************************************************************************)
EXTENDS QueryLoop, FiniteSetTheorems, TLAPS

-----------------------------------------------------------------------------
(* The invariant.  Apart from the types it has five parts.                 *)

\* The calls of a response are numbered as they arrive.
CountOK ==
  /\ Cardinality(uses) \in 0..MaxTools /\ uses = 1..Cardinality(uses)
  /\ pc = "push" => incoming.sort # "none" /\ Cardinality(uses) + incoming.tools =< MaxTools

\* What others may still do.
LeftOK ==
  /\ left \in LimitType
  /\ left.fallbacks =< Limits[config].fallbacks /\ left.switches =< Limits[config].switches
  /\ left.drains =< Limits[config].drains
  /\ fellBack => left.fallbacks < Limits[config].fallbacks

\* Where the loop is says what the response was.
PlaceOK ==
  /\ pc = "setup" => last = "none"
  /\ last = "none" => uses = {}
  /\ pc \in {"decide", "compacting", "hooks"} => uses = {}
  /\ pc = "compacting" => last \in {"long", "media"}
  /\ pc = "hooks" => last = "answer"
  /\ pc \in {"tools", "attach"} => uses # {} /\ late = {}
  /\ pc = "drain" => config.streaming
  /\ late # {} => aborted

\* Calls are handed to the executor as they arrive, or when the response has ended.
Given(i) ==
  i \in uses /\ IF config.streaming THEN i \notin late ELSE pc \in {"tools", "attach"}

\* The executor has the calls that it was given, and what it has reported was shown
\* once, and kept once for the next request.
AnswersOK ==
  pc # "done" =>
    \A i \in Slots :
      /\ phase[i] # "absent" <=> Given(i)
      /\ shown[i] = IF phase[i] = "reported" THEN 1 ELSE 0
      /\ pc # "drain" => results[i] = shown[i]
      /\ mode = "open" <=> pc # "attach"
      /\ pc = "attach" => phase[i] \in {"absent", "reported"}

\* What the consumer was given of the calls when the query ended, and in attempts that
\* were abandoned.
ShownOK ==
  /\ spoiled \subseteq {"twice", "orphan"}
  /\ "twice" \in spoiled => left.switches < Limits[config].switches
  /\ "orphan" \in spoiled => left.fallbacks < Limits[config].fallbacks
  /\ pc = "done" =>
       /\ \A i \in uses \ late : shown[i] > 0
       /\ reason # "model_error" => \A i \in uses : shown[i] =< 1

\* An error is shown when it arrives, unless it is withheld.
ErrorsOK ==
  /\ pc = "push" =>
       errorsShown = IF incoming.sort \in Errors /\ ~Withheld(incoming.sort) THEN 1 ELSE 0
  /\ pc \notin {"push", "done"} =>
       errorsShown = IF last \in Errors /\ ~Withheld(last) THEN 1 ELSE 0
  /\ ErrorShownOnce

\* Each recovery but a raise of the limit is one of those that are counted, and
\* there is one raise before and after each.
Recoveries ==
  recoveryCount + (IF hasAttemptedReactiveCompact THEN 1 ELSE 0)
    + (Limits[config].drains - left.drains)

RecoveriesOK ==
  /\ stalled =< 2 * Recoveries + (IF overridden THEN 1 ELSE 0)
  /\ failedRuns = failures /\ failures =< MAX_CONSECUTIVE_AUTOCOMPACT_FAILURES

LoopInv ==
  /\ TypeOK /\ CountOK /\ LeftOK /\ PlaceOK
  /\ AnswersOK /\ ShownOK /\ ErrorsOK /\ RecoveriesOK

-----------------------------------------------------------------------------
(* Facts about the operators.                                              *)

LEMMA Counts ==
  /\ Cardinality({}) = 0 /\ 1..0 = {}
  /\ \A k \in 0..MaxTools : 1..k \subseteq Slots /\ Cardinality(1..k) = k
  /\ MaxTools \in Nat
<1>1. MaxTools \in Nat
  BY BoundsAssumption
<1>2. \A k \in 0..MaxTools : Cardinality(1..k) = k
  BY <1>1, FS_Interval
<1> QED
  BY <1>1, <1>2, FS_EmptySet DEF Slots

\* Calls that have one answer each have no flaw.
LEMMA NoFlaws ==
  ASSUME NEW cs, NEW answers, \A i \in cs : answers[i] = 1
  PROVE  Flaws(cs, answers) = {}
BY DEF Flaws

LEMMA Types ==
  ASSUME LoopInv
  PROVE  /\ config \in Configs /\ config \in ConfigType /\ Limits[config] \in LimitType
         /\ \A what \in {"fallbacks", "switches", "drains"} : Limits[config][what] \in Nat
         /\ left.fallbacks \in Nat /\ left.switches \in Nat /\ left.drains \in Nat
         /\ left.blocks \in Nat /\ left.large \in Nat
         /\ recoveryCount \in Nat /\ stalled \in Nat /\ failures \in Nat /\ failedRuns \in Nat
         /\ Limits[config].drains - left.drains \in Nat
<1>1. config \in Configs /\ config \in ConfigType /\ Limits[config] \in LimitType
  BY ConfigsAssumption, LimitsAssumption DEF LoopInv, TypeOK
<1>2. left \in LimitType /\ left.drains =< Limits[config].drains
  BY DEF LoopInv, LeftOK
<1>3. \A what \in {"fallbacks", "switches", "drains"} : Limits[config][what] \in Nat
  BY <1>1 DEF LimitType
<1>4. left.fallbacks \in Nat /\ left.switches \in Nat /\ left.drains \in Nat
      /\ left.blocks \in Nat /\ left.large \in Nat
  BY <1>2 DEF LimitType
<1>5. recoveryCount \in Nat /\ stalled \in Nat /\ failures \in Nat /\ failedRuns \in Nat
  BY DEF LoopInv, TypeOK, MAX_OUTPUT_TOKENS_RECOVERY_LIMIT
<1>6. Limits[config].drains - left.drains \in Nat
  BY <1>1, <1>2, <1>4 DEF LimitType
<1> QED
  BY <1>1, <1>3, <1>4, <1>5, <1>6

\* Something less is left to others.
LEMMA Less ==
  ASSUME LoopInv
  PROVE  /\ left.fallbacks > 0 =>
              LET l == [left EXCEPT !.fallbacks = @ - 1]
              IN  /\ l \in LimitType /\ l.fallbacks = left.fallbacks - 1
                  /\ l.switches = left.switches /\ l.drains = left.drains
         /\ left.switches > 0 =>
              LET l == [left EXCEPT !.switches = @ - 1]
              IN  /\ l \in LimitType /\ l.switches = left.switches - 1
                  /\ l.fallbacks = left.fallbacks /\ l.drains = left.drains
         /\ left.drains > 0 =>
              LET l == [left EXCEPT !.drains = @ - 1]
              IN  /\ l \in LimitType /\ l.drains = left.drains - 1
                  /\ l.fallbacks = left.fallbacks /\ l.switches = left.switches
         /\ left.blocks > 0 =>
              LET l == [left EXCEPT !.blocks = @ - 1]
              IN  /\ l \in LimitType /\ l.drains = left.drains
                  /\ l.fallbacks = left.fallbacks /\ l.switches = left.switches
         /\ left.large > 0 =>
              LET l == [left EXCEPT !.large = @ - 1]
              IN  /\ l \in LimitType /\ l.drains = left.drains
                  /\ l.fallbacks = left.fallbacks /\ l.switches = left.switches
<1>1. left \in LimitType
  BY DEF LoopInv, LeftOK
<1> QED
  BY <1>1 DEF LimitType

-----------------------------------------------------------------------------
(* Initially there is no response.                                         *)

LEMMA InitLoopInv == Init => LoopInv
<1> SUFFICES ASSUME Init PROVE LoopInv
  OBVIOUS
<1>c. config \in Configs /\ config \in ConfigType /\ left = Limits[config] /\ left \in LimitType
  BY ConfigsAssumption, LimitsAssumption DEF Init
<1>1. TypeOK
  <2>1. turnCount \in 1..MaxTurns /\ incoming \in [sort : Errors \cup {"answer", "none"}, tools : 0..MaxTools]
    BY BoundsAssumption DEF Init, None
  <2>2. results \in [Slots -> Nat] /\ shown \in [Slots -> Nat]
        /\ phase \in [Slots -> {"absent", "pending", "answered", "reported"}]
        /\ tracker \in [count : 0..3, lastSmall : BOOLEAN]
    BY DEF Init, Zero, Fresh
  <2>3. /\ hasAttemptedReactiveCompact \in BOOLEAN
        /\ overridden \in BOOLEAN /\ drainedLast \in BOOLEAN
        /\ fellBack \in BOOLEAN /\ aborted \in BOOLEAN
    BY DEF Init
  <2>4. recoveryCount \in 0..MAX_OUTPUT_TOKENS_RECOVERY_LIMIT /\ failures \in Nat
        /\ errorsShown \in 0..1 /\ stalled \in Nat /\ failedRuns \in Nat
    BY DEF Init, MAX_OUTPUT_TOKENS_RECOVERY_LIMIT
  <2>5. /\ pc = "setup" /\ reason = "none" /\ last = "none" /\ uses = {} /\ late = {}
        /\ mode = "open" /\ spoiled = {}
    BY DEF Init
  <2> QED
    BY <1>c, <2>1, <2>2, <2>3, <2>4, <2>5 DEF TypeOK
<1>2. CountOK
  BY Counts DEF Init, CountOK
<1>3. LeftOK
  BY <1>c DEF Init, LeftOK, LimitType
<1>4. PlaceOK
  BY DEF Init, PlaceOK
<1>5. AnswersOK
  BY DEF Init, AnswersOK, Given, Fresh, Zero
<1>6. ShownOK
  BY DEF Init, ShownOK
<1>7. ErrorsOK
  BY DEF Init, ErrorsOK, Errors, ErrorShownOnce
<1>8. RecoveriesOK
  <2>1. Limits[config].drains - left.drains = 0
    BY <1>c DEF LimitType
  <2> QED
    BY <2>1 DEF Init, RecoveriesOK, Recoveries, MAX_CONSECUTIVE_AUTOCOMPACT_FAILURES
<1> QED
  BY <1>1, <1>2, <1>3, <1>4, <1>5, <1>6, <1>7, <1>8 DEF LoopInv

-----------------------------------------------------------------------------
(* The next iteration begins.                                              *)

\* Whatever the loop continues for, each call of the iteration was answered once.
LEMMA Answered ==
  ASSUME LoopInv, pc \in {"decide", "compacting", "hooks", "attach"}
  PROVE  /\ \A i \in uses : shown[i] = 1 /\ results[i] = 1
         /\ Flaws(uses, shown) = {}
<1>1. \A i \in uses : shown[i] = 1 /\ results[i] = 1
  <2> SUFFICES ASSUME NEW i \in uses PROVE shown[i] = 1 /\ results[i] = 1
    OBVIOUS
  <2>1. pc = "attach" /\ i \notin late /\ i \in Slots
    BY DEF LoopInv, PlaceOK, TypeOK
  <2>2. Given(i)
    BY <2>1 DEF Given
  <2> QED
    BY <2>1, <2>2 DEF LoopInv, AnswersOK
<1> QED
  BY <1>1, NoFlaws

LEMMA ContinueKeeps ==
  ASSUME LoopInv, pc \in {"decide", "compacting", "hooks", "attach"}, Continue,
         left' \in LimitType, left'.fallbacks = left.fallbacks, left'.switches = left.switches,
         left'.drains =< left.drains
  PROVE  CountOK' /\ LeftOK' /\ PlaceOK' /\ AnswersOK' /\ ShownOK' /\ ErrorsOK'
<1>s. spoiled' = spoiled
  BY Answered DEF Continue
<1>1. CountOK'
  BY Counts DEF Continue, CountOK
<1>2. LeftOK'
  <2>1. left'.drains \in Int /\ left.drains \in Int /\ Limits[config].drains \in Int
    BY Types DEF LimitType
  <2> QED
    BY <2>1 DEF LoopInv, LeftOK, Continue
<1>3. PlaceOK'
  BY DEF PlaceOK, Continue
<1>4. AnswersOK'
  BY DEF AnswersOK, Continue, Given, Fresh, Zero
<1>5. ShownOK'
  BY <1>s DEF LoopInv, ShownOK, Continue
<1>6. ErrorsOK'
  BY DEF ErrorsOK, ErrorShownOnce, Continue, Errors
<1> QED
  BY <1>1, <1>2, <1>3, <1>4, <1>5, <1>6

\* The types of what the next iteration starts with.
LEMMA ContinueTypes ==
  ASSUME LoopInv, pc # "done", Continue, turnCount' \in 1..MaxTurns,
         recoveryCount' \in 0..MAX_OUTPUT_TOKENS_RECOVERY_LIMIT,
         hasAttemptedReactiveCompact' \in BOOLEAN, overridden' \in BOOLEAN, drainedLast' \in BOOLEAN,
         failures' \in Nat, tracker' \in [count : 0..3, lastSmall : BOOLEAN],
         stalled' \in Nat, failedRuns' \in Nat
  PROVE  TypeOK'
<1>1. incoming' \in [sort : Errors \cup {"answer", "none"}, tools : 0..MaxTools]
  BY Counts DEF Continue, None
<1>2. results' \in [Slots -> Nat] /\ shown' \in [Slots -> Nat]
      /\ phase' \in [Slots -> {"absent", "pending", "answered", "reported"}]
  BY DEF Continue, Zero, Fresh
<1>3. spoiled' \subseteq {"unanswered", "twice", "orphan"}
  BY DEF LoopInv, TypeOK, Continue, Flaws
<1>4. reason' = "none" /\ pc' = "setup" /\ config' \in Configs
  BY DEF LoopInv, TypeOK, Continue
<1>5. aborted' \in BOOLEAN /\ fellBack' \in BOOLEAN
  BY DEF LoopInv, TypeOK, Continue
<1>6. last' = "none" /\ uses' = {} /\ late' = {} /\ mode' = "open" /\ errorsShown' \in 0..1
  BY DEF Continue
<1> QED
  BY <1>1, <1>2, <1>3, <1>4, <1>5, <1>6 DEF TypeOK

\* A recovery.
LEMMA RecoveryStep ==
  ASSUME LoopInv, CollapseDrain \/ ReactiveCompact \/ Escalate \/ Recover
  PROVE  LoopInv'
<1> USE DEF MAX_OUTPUT_TOKENS_RECOVERY_LIMIT, MAX_CONSECUTIVE_AUTOCOMPACT_FAILURES
<1>t. /\ turnCount \in 1..MaxTurns /\ recoveryCount \in 0..3
      /\ hasAttemptedReactiveCompact \in BOOLEAN /\ overridden \in BOOLEAN /\ drainedLast \in BOOLEAN
      /\ failures \in Nat /\ tracker \in [count : 0..3, lastSmall : BOOLEAN]
      /\ stalled \in Nat /\ failedRuns \in Nat
  BY DEF LoopInv, TypeOK
<1>l. left.drains \in Nat /\ Limits[config].drains \in Nat /\ config' = config
  BY Types DEF CollapseDrain, ReactiveCompact, Escalate, Recover, Continue
<1>1. CASE CollapseDrain
  <2>1. left' \in LimitType /\ left'.fallbacks = left.fallbacks /\ left'.switches = left.switches
        /\ left'.drains = left.drains - 1
    BY <1>1, Less DEF CollapseDrain, CanDrain
  <2>2. TypeOK'
    <3>1. /\ hasAttemptedReactiveCompact' \in BOOLEAN
          /\ overridden' \in BOOLEAN /\ drainedLast' \in BOOLEAN
      BY <1>1, <1>t DEF CollapseDrain
    <3>2. /\ turnCount' \in 1..MaxTurns /\ recoveryCount' \in 0..3 /\ failures' \in Nat
          /\ tracker' \in [count : 0..3, lastSmall : BOOLEAN] /\ stalled' \in Nat /\ failedRuns' \in Nat
      BY <1>1, <1>t DEF CollapseDrain
    <3>3. pc # "done" /\ Continue
      BY <1>1 DEF CollapseDrain
    <3> QED
      BY <3>1, <3>2, <3>3, ContinueTypes
  <2>3. CountOK' /\ LeftOK' /\ PlaceOK' /\ AnswersOK' /\ ShownOK' /\ ErrorsOK'
    BY <1>1, <1>l, <2>1, ContinueKeeps DEF CollapseDrain
  <2>4. RecoveriesOK'
    BY <1>1, <1>t, <1>l, <2>1 DEF CollapseDrain, LoopInv, RecoveriesOK, Recoveries
  <2> QED
    BY <2>2, <2>3, <2>4 DEF LoopInv
<1>2. CASE ReactiveCompact \/ Escalate \/ Recover
  <2>1. left' = left /\ left \in LimitType
    BY <1>2 DEF ReactiveCompact, Escalate, Recover, LoopInv, LeftOK
  <2>2. TypeOK'
    <3>1. /\ hasAttemptedReactiveCompact' \in BOOLEAN
          /\ overridden' \in BOOLEAN /\ drainedLast' \in BOOLEAN
      BY <1>2, <1>t DEF ReactiveCompact, Escalate, Recover
    <3>2. /\ turnCount' \in 1..MaxTurns /\ recoveryCount' \in 0..3 /\ failures' \in Nat
          /\ tracker' \in [count : 0..3, lastSmall : BOOLEAN] /\ stalled' \in Nat /\ failedRuns' \in Nat
      BY <1>2, <1>t DEF ReactiveCompact, Escalate, Recover
    <3>3. pc # "done" /\ Continue
      BY <1>2 DEF ReactiveCompact, Escalate, Recover
    <3> QED
      BY <3>1, <3>2, <3>3, ContinueTypes
  <2>3. CountOK' /\ LeftOK' /\ PlaceOK' /\ AnswersOK' /\ ShownOK' /\ ErrorsOK'
    BY <1>2, <1>l, <2>1, ContinueKeeps DEF ReactiveCompact, Escalate, Recover
  <2>4. RecoveriesOK'
    BY <1>2, <1>t, <1>l, <2>1
       DEF ReactiveCompact, Escalate, Recover, CanEscalate, LoopInv, RecoveriesOK, Recoveries
  <2> QED
    BY <2>2, <2>3, <2>4 DEF LoopInv
<1> QED
  BY <1>1, <1>2

\* The model has answered, and the query goes on.
LEMMA GoOnStep ==
  ASSUME LoopInv, HooksBlock \/ NextTurn \/ \E small \in BOOLEAN : Nudge(small)
  PROVE  LoopInv'
<1> USE DEF MAX_OUTPUT_TOKENS_RECOVERY_LIMIT, MAX_CONSECUTIVE_AUTOCOMPACT_FAILURES
<1>t. /\ turnCount \in 1..MaxTurns /\ recoveryCount \in 0..3 /\ MaxTurns \in Nat
      /\ hasAttemptedReactiveCompact \in BOOLEAN /\ overridden \in BOOLEAN /\ drainedLast \in BOOLEAN
      /\ failures \in Nat /\ tracker \in [count : 0..3, lastSmall : BOOLEAN]
      /\ stalled \in Nat /\ failedRuns \in Nat
  BY BoundsAssumption DEF LoopInv, TypeOK
<1>c. Continue /\ pc \in {"hooks", "attach"} /\ config' = config
  BY DEF HooksBlock, NextTurn, Nudge, Continue
<1>l. /\ left' \in LimitType /\ left'.fallbacks = left.fallbacks /\ left'.switches = left.switches
      /\ left'.drains = left.drains
  <2>1. left \in LimitType
    BY DEF LoopInv, LeftOK
  <2>2. CASE HooksBlock
    BY <2>2, Less DEF HooksBlock
  <2>3. ASSUME NEW small \in BOOLEAN, Nudge(small)
        PROVE /\ left' \in LimitType /\ left'.fallbacks = left.fallbacks
              /\ left'.switches = left.switches /\ left'.drains = left.drains
    BY <2>1, <2>3, Less DEF Nudge, Nudges
  <2> QED
    BY <2>1, <2>2, <2>3 DEF NextTurn
<1>d. left.drains \in Nat /\ Limits[config].drains - left.drains \in Nat
  BY Types
<1>1. TypeOK'
  <2>1. tracker' \in [count : 0..3, lastSmall : BOOLEAN]
    BY <1>t DEF HooksBlock, NextTurn, Nudge
  <2>2. /\ hasAttemptedReactiveCompact' \in BOOLEAN
        /\ overridden' \in BOOLEAN /\ drainedLast' \in BOOLEAN
    BY <1>t DEF HooksBlock, NextTurn, Nudge
  <2>3. /\ turnCount' \in 1..MaxTurns /\ recoveryCount' \in 0..3 /\ failures' \in Nat
        /\ stalled' \in Nat /\ failedRuns' \in Nat
    BY <1>t DEF HooksBlock, NextTurn, Nudge
  <2>4. pc # "done"
    BY <1>c
  <2> QED
    BY <1>c, <2>1, <2>2, <2>3, <2>4, ContinueTypes
<1>2. CountOK' /\ LeftOK' /\ PlaceOK' /\ AnswersOK' /\ ShownOK' /\ ErrorsOK'
  BY <1>c, <1>l, <1>d, ContinueKeeps
<1>3. RecoveriesOK'
  <2>1. stalled' = 0 /\ recoveryCount' = 0 /\ UNCHANGED <<failures, failedRuns>>
    BY DEF HooksBlock, NextTurn, Nudge
  <2>2. Recoveries' \in Nat
    BY <1>c, <1>d, <1>l, <2>1 DEF Recoveries
  <2>3. failedRuns = failures /\ failures =< 3
    BY DEF LoopInv, RecoveriesOK
  <2>4. stalled' =< 2 * Recoveries' + (IF overridden' THEN 1 ELSE 0)
    <3>1. ~overridden'
      BY DEF HooksBlock, NextTurn, Nudge
    <3>2. \A r \in Nat : 0 =< 2 * r + 0
      OBVIOUS
    <3>3. 0 =< 2 * Recoveries' + 0
      BY <2>2, <3>2
    <3> QED
      BY <2>1, <3>1, <3>3
  <2> QED
    BY <2>1, <2>3, <2>4 DEF RecoveriesOK
<1> QED
  BY <1>1, <1>2, <1>3 DEF LoopInv

-----------------------------------------------------------------------------
(* The steps that move the loop on, with the response and the State as     *)
(* they are.                                                               *)

\* What the response was, and what it is to be continued with, stays.
Kept ==
  UNCHANGED <<config, stateVars, incoming, last, uses, fellBack, results, left, ghostVars>>

LEMMA KeptTypes ==
  ASSUME LoopInv, Kept,
         pc' \in {"setup", "stream", "push", "scan", "drain", "decide", "compacting", "hooks",
                  "tools", "attach", "done"},
         pc' = "done" <=> reason' # "none",
         phase' \in [Slots -> {"absent", "pending", "answered", "reported"}],
         mode' \in {"open", "closed"}, shown' \in [Slots -> Nat], errorsShown' \in 0..1,
         aborted' \in BOOLEAN
  PROVE  TypeOK' /\ RecoveriesOK' /\ LeftOK'
<1>k. UNCHANGED <<config, turnCount, recoveryCount, hasAttemptedReactiveCompact, overridden,
                  drainedLast, failures, tracker, incoming, last, uses, fellBack, results, left,
                  late, spoiled, stalled, failedRuns>>
  BY DEF Kept, stateVars, ghostVars
<1>1. TypeOK'
  <2>1. /\ hasAttemptedReactiveCompact' \in BOOLEAN
        /\ overridden' \in BOOLEAN /\ drainedLast' \in BOOLEAN /\ fellBack' \in BOOLEAN
    BY <1>k DEF LoopInv, TypeOK
  <2>2. /\ config' \in Configs
        /\ turnCount' \in 1..MaxTurns
        /\ recoveryCount' \in 0..MAX_OUTPUT_TOKENS_RECOVERY_LIMIT
        /\ failures' \in Nat
        /\ tracker' \in [count : 0..3, lastSmall : BOOLEAN]
    BY <1>k DEF LoopInv, TypeOK
  <2>3. /\ incoming' \in [sort : Errors \cup {"answer", "none"}, tools : 0..MaxTools]
        /\ last' \in Errors \cup {"answer", "none"}
        /\ uses' \subseteq Slots /\ late' \subseteq uses'
        /\ results' \in [Slots -> Nat]
        /\ spoiled' \subseteq {"unanswered", "twice", "orphan"}
        /\ stalled' \in Nat /\ failedRuns' \in Nat
    BY <1>k DEF LoopInv, TypeOK
  <2> QED
    BY <2>1, <2>2, <2>3 DEF TypeOK
<1>2. RecoveriesOK'
  BY <1>k DEF LoopInv, RecoveriesOK, Recoveries
<1>3. LeftOK'
  BY <1>k DEF LoopInv, LeftOK
<1> QED
  BY <1>1, <1>2, <1>3

\* The query ends: its calls have their answers, and its error was shown.
LEMMA Ends ==
  ASSUME LoopInv, Kept, pc # "done", pc' = "done", reason' # "none",
         UNCHANGED <<phase, aborted>>, mode' \in {"open", "closed"},
         shown' \in [Slots -> Nat], errorsShown' \in 0..1,
         \A i \in uses \ late : shown'[i] > 0,
         reason' # "model_error" => \A i \in uses : shown'[i] =< 1,
         last \in Errors /\ uses = {} /\ reason' # "aborted_streaming" => errorsShown' = 1
  PROVE  LoopInv'
<1>k. UNCHANGED <<config, incoming, last, uses, left, late, spoiled>>
  BY DEF Kept, ghostVars
<1>1. TypeOK' /\ RecoveriesOK' /\ LeftOK'
  <2>1. aborted' \in BOOLEAN
    BY DEF LoopInv, TypeOK
  <2>2. phase' \in [Slots -> {"absent", "pending", "answered", "reported"}]
    BY DEF LoopInv, TypeOK
  <2> QED
    BY <2>1, <2>2, KeptTypes
<1>2. CountOK'
  BY <1>k DEF LoopInv, CountOK
<1>3. PlaceOK'
  BY <1>k DEF LoopInv, PlaceOK
<1>4. AnswersOK'
  BY DEF AnswersOK
<1>5. ShownOK'
  BY <1>k DEF LoopInv, ShownOK
<1>6. ErrorsOK'
  BY <1>k DEF LoopInv, ErrorsOK, ErrorShownOnce
<1> QED
  BY <1>1, <1>2, <1>3, <1>4, <1>5, <1>6 DEF LoopInv

\* What was shown when nothing is left to report.
LEMMA AllShown ==
  ASSUME LoopInv, pc # "done"
  PROVE  /\ shown \in [Slots -> Nat] /\ errorsShown \in 0..1 /\ uses \subseteq Slots
         /\ \A i \in Slots : shown[i] =< 1
         /\ (\A i \in Slots : phase[i] \in {"absent", "reported"}) =>
              \A i \in Slots : Given(i) => shown[i] = 1
         /\ AllAnswered \in [Slots -> Nat] /\ \A i \in uses : AllAnswered[i] = shown[i] + 1
<1>1. shown \in [Slots -> Nat] /\ errorsShown \in 0..1 /\ uses \subseteq Slots
  BY DEF LoopInv, TypeOK
<1>2. \A i \in Slots : shown[i] =< 1 /\ (phase[i] \in {"absent", "reported"} /\ Given(i) => shown[i] = 1)
  BY DEF LoopInv, AnswersOK
<1>3. AllAnswered \in [Slots -> Nat] /\ \A i \in uses : AllAnswered[i] = shown[i] + 1
  BY <1>1 DEF AllAnswered
<1> QED
  BY <1>1, <1>2, <1>3

\* The steps that end the query.
LEMMA EndStep ==
  ASSUME LoopInv,
         \/ BlockingLimit \/ ModelThrows \/ DrainEnds \/ ReactiveCompactFails \/ SurfaceTooLong
         \/ ApiError \/ HooksPrevent \/ Complete \/ MaxTurnsReached
  PROVE  LoopInv'
<1>s. pc # "done" =>
        /\ shown \in [Slots -> Nat] /\ errorsShown \in 0..1 /\ uses \subseteq Slots
        /\ \A i \in Slots : shown[i] =< 1
        /\ (\A i \in Slots : phase[i] \in {"absent", "reported"}) =>
             \A i \in Slots : Given(i) => shown[i] = 1
        /\ AllAnswered \in [Slots -> Nat] /\ \A i \in uses : AllAnswered[i] = shown[i] + 1
  BY AllShown
<1>e. pc \notin {"push", "done"} =>
        errorsShown = IF last \in Errors /\ ~Withheld(last) THEN 1 ELSE 0
  BY DEF LoopInv, ErrorsOK
<1>m. mode \in {"open", "closed"}
  BY DEF LoopInv, TypeOK
<1>1. CASE BlockingLimit
  <2>1. pc = "setup" /\ last = "none" /\ uses = {}
    BY <1>1 DEF BlockingLimit, LoopInv, PlaceOK
  <2>2. Kept /\ pc' = "done" /\ reason' = "blocking_limit" /\ UNCHANGED <<phase, mode, aborted, shown>>
        /\ errorsShown' = errorsShown + 1
    BY <1>1 DEF BlockingLimit, Return, Kept, executorVars, responseVars
  <2> QED
    BY <1>s, <1>e, <1>m, <2>1, <2>2, Ends DEF Errors
<1>2. CASE ModelThrows
  <2>1. pc = "stream" /\ last \notin Errors /\ (last = "none" => uses = {})
    BY <1>2 DEF ModelThrows, LoopInv, PlaceOK
  <2>2. Kept /\ pc' = "done" /\ UNCHANGED <<phase, mode, aborted>> /\ errorsShown' = errorsShown + 1
    BY <1>2 DEF ModelThrows, Return, Kept, executorVars, responseVars
  <2>3. \/ last = "none" /\ reason' = "image_error" /\ shown' = shown
        \/ reason' = "model_error" /\ shown' = AllAnswered
    BY <1>2 DEF ModelThrows, Return
  <2>4. \A i \in uses : AllAnswered[i] > 0
    BY <1>s, <2>1
  <2> QED
    BY <1>s, <1>e, <1>m, <2>1, <2>2, <2>3, <2>4, Ends
<1>3. CASE DrainEnds
  <2>1. pc = "drain" /\ config.streaming
    BY <1>3 DEF DrainEnds, LoopInv, PlaceOK
  <2>2. Kept /\ pc' = "done" /\ UNCHANGED <<phase, aborted, shown, errorsShown>> /\ mode' = "closed"
        /\ reason' = "aborted_streaming" /\ \A i \in Slots : phase[i] \in {"absent", "reported"}
    BY <1>3 DEF DrainEnds, Return, Kept, responseVars, seenVars, Executor!Close, Executor!Slots, Slots
  <2>3. \A i \in uses \ late : Given(i)
    BY <2>1 DEF Given
  <2> QED
    BY <1>s, <2>1, <2>2, <2>3, Ends
<1>4. ASSUME NEW why, why \notin {"none", "model_error"}, Surface(why), pc # "done", pc # "push",
             uses = {}
      PROVE  LoopInv'
  <2>1. Kept /\ pc' = "done" /\ UNCHANGED <<phase, mode, aborted, shown>> /\ reason' = why
        /\ errorsShown' = IF Withheld(last) THEN errorsShown + 1 ELSE errorsShown
    BY <1>4 DEF Surface, Return, Kept, executorVars, responseVars
  <2>2. Withheld(last) => last \in Errors
    BY DEF Withheld, Errors
  <2>3. errorsShown' \in 0..1 /\ (last \in Errors => errorsShown' = 1)
    BY <1>e, <1>4, <2>1, <2>2
  <2> QED
    BY <1>4, <1>s, <1>m, <2>1, <2>3, Ends
<1>5. CASE ReactiveCompactFails \/ SurfaceTooLong \/ ApiError
  <2>1. pc \in {"compacting", "decide"} /\ uses = {}
    BY <1>5 DEF ReactiveCompactFails, SurfaceTooLong, ApiError, LoopInv, PlaceOK
  <2>2. Surface("image_error") \/ Surface("prompt_too_long") \/ Surface("completed")
    BY <1>5 DEF ReactiveCompactFails, SurfaceTooLong, ApiError
  <2> QED
    BY <1>4, <2>1, <2>2
<1>6. CASE HooksPrevent \/ Complete
  <2>1. pc = "hooks" /\ last = "answer" /\ uses = {}
    BY <1>6 DEF HooksPrevent, Complete, LoopInv, PlaceOK
  <2>2. Kept /\ pc' = "done" /\ UNCHANGED <<phase, mode, aborted, shown, errorsShown>>
        /\ reason' \in {"stop_hook_prevented", "completed"}
    BY <1>6 DEF HooksPrevent, Complete, Return, Kept, executorVars, responseVars, seenVars
  <2> QED
    BY <1>s, <1>m, <2>1, <2>2, Ends DEF Errors
<1>7. CASE MaxTurnsReached
  <2>1. pc = "attach" /\ uses # {}
    BY <1>7 DEF MaxTurnsReached, LoopInv, PlaceOK
  <2>2. Kept /\ pc' = "done" /\ UNCHANGED <<phase, mode, aborted, shown, errorsShown>>
        /\ reason' = "max_turns"
    BY <1>7 DEF MaxTurnsReached, Return, Kept, executorVars, responseVars, seenVars
  <2>3. \A i \in uses : shown[i] = 1
    BY <2>1, Answered
  <2> QED
    BY <1>s, <1>m, <2>1, <2>2, <2>3, Ends
<1> QED
  BY <1>1, <1>2, <1>3, <1>5, <1>6, <1>7

\* Where the loop is changes, and nothing that was given or shown.
LEMMA Moves ==
  ASSUME LoopInv, Kept, UNCHANGED <<reason, shown, errorsShown>>,
         pc \notin {"push", "done"}, pc' \notin {"push", "done"},
         pc' \in {"setup", "stream", "scan", "drain", "decide", "compacting", "hooks",
                  "tools", "attach"},
         phase' \in [Slots -> {"absent", "pending", "answered", "reported"}],
         mode' \in {"open", "closed"}, aborted' \in BOOLEAN
  PROVE  TypeOK' /\ RecoveriesOK' /\ LeftOK' /\ CountOK' /\ ShownOK' /\ ErrorsOK'
<1>k. UNCHANGED <<config, incoming, last, uses, left, late, spoiled>>
  BY DEF Kept, ghostVars
<1>1. TypeOK' /\ RecoveriesOK' /\ LeftOK'
  <2>1. shown' \in [Slots -> Nat] /\ errorsShown' \in 0..1 /\ (pc' = "done" <=> reason' # "none")
    BY DEF LoopInv, TypeOK
  <2> QED
    BY <2>1, KeptTypes
<1>2. CountOK'
  BY <1>k DEF LoopInv, CountOK
<1>3. ShownOK'
  BY <1>k DEF LoopInv, ShownOK
<1>4. ErrorsOK'
  BY <1>k DEF LoopInv, ErrorsOK, ErrorShownOnce, Withheld
<1> QED
  BY <1>1, <1>2, <1>3, <1>4

\* The steps that begin the next part of an iteration.
LEMMA MoveStep ==
  ASSUME LoopInv, StopHooks \/ BeginReactiveCompact \/ ScanEnds
  PROVE  LoopInv'
<1>1. /\ Kept /\ UNCHANGED <<reason, shown, errorsShown, phase, mode, aborted>>
      /\ \/ pc = "decide" /\ last = "answer" /\ pc' = "hooks"
         \/ pc = "decide" /\ last \in {"media", "long"} /\ pc' = "compacting"
         \/ pc = "scan" /\ pc' = "stream"
  BY DEF StopHooks, BeginReactiveCompact, AfterDrain, ScanEnds, Kept, executorVars, responseVars,
         seenVars
<1>k. UNCHANGED <<config, incoming, last, uses, results, late>>
  BY <1>1 DEF Kept, ghostVars
<1>2. TypeOK' /\ RecoveriesOK' /\ LeftOK' /\ CountOK' /\ ShownOK' /\ ErrorsOK'
  <2>1. phase' \in [Slots -> {"absent", "pending", "answered", "reported"}]
        /\ mode' \in {"open", "closed"}
    BY <1>1 DEF LoopInv, TypeOK
  <2>2. aborted' \in BOOLEAN
    BY <1>1 DEF LoopInv, TypeOK
  <2> QED
    BY <1>1, <2>1, <2>2, Moves
<1>3. PlaceOK'
  BY <1>1, <1>k DEF LoopInv, PlaceOK
<1>4. AnswersOK'
  BY <1>1, <1>k DEF LoopInv, AnswersOK, Given
<1> QED
  BY <1>2, <1>3, <1>4 DEF LoopInv

\* The user aborts.
LEMMA AbortStep ==
  ASSUME LoopInv, Abort
  PROVE  LoopInv'
<1>1. /\ Kept /\ UNCHANGED <<pc, reason, shown, errorsShown, phase, mode>> /\ pc # "done"
      /\ aborted' = TRUE
  BY DEF Abort, Kept, executorVars, responseVars, seenVars
<1>k. UNCHANGED <<config, incoming, last, uses, results, late, left, spoiled>>
  BY <1>1 DEF Kept, ghostVars
<1>2. TypeOK' /\ RecoveriesOK' /\ LeftOK'
  <2>1. phase' \in [Slots -> {"absent", "pending", "answered", "reported"}]
        /\ mode' \in {"open", "closed"} /\ shown' \in [Slots -> Nat] /\ errorsShown' \in 0..1
        /\ pc' \in {"setup", "stream", "push", "scan", "drain", "decide", "compacting", "hooks",
                    "tools", "attach", "done"}
        /\ (pc' = "done" <=> reason' # "none")
    BY <1>1 DEF LoopInv, TypeOK
  <2>2. aborted' \in BOOLEAN
    BY <1>1
  <2> QED
    BY <1>1, <2>1, <2>2, KeptTypes
<1>3. CountOK' /\ PlaceOK' /\ ShownOK'
  BY <1>1, <1>k DEF LoopInv, CountOK, PlaceOK, ShownOK
<1>4. AnswersOK'
  BY <1>1, <1>k DEF LoopInv, AnswersOK, Given
<1>5. ErrorsOK'
  BY <1>1, <1>k DEF LoopInv, ErrorsOK, ErrorShownOnce, Withheld
<1> QED
  BY <1>2, <1>3, <1>4, <1>5 DEF LoopInv

\* The stream ends.
LEMMA StreamEndsStep ==
  ASSUME LoopInv, StreamEnds
  PROVE  LoopInv'
<1>s. /\ shown \in [Slots -> Nat] /\ errorsShown \in 0..1 /\ uses \subseteq Slots
      /\ \A i \in Slots : shown[i] =< 1
      /\ AllAnswered \in [Slots -> Nat] /\ \A i \in uses : AllAnswered[i] = shown[i] + 1
  BY AllShown DEF StreamEnds
<1>k. /\ Kept /\ UNCHANGED <<config, incoming, last, uses, results, left, late, mode, aborted, errorsShown>>
      /\ pc = "stream"
  BY DEF StreamEnds, Kept, responseVars, ghostVars
<1>t. phase \in [Slots -> {"absent", "pending", "answered", "reported"}] /\ mode \in {"open", "closed"}
  BY DEF LoopInv, TypeOK
<1>b. aborted' \in BOOLEAN
  BY <1>k DEF LoopInv, TypeOK
<1>1. CASE /\ aborted /\ ~config.streaming /\ pc' = "done" /\ reason' = "aborted_streaming"
           /\ shown' = AllAnswered /\ UNCHANGED phase
  <2>1. \A i \in uses : shown[i] = 0
    BY <1>1, <1>s, <1>k DEF LoopInv, AnswersOK, Given
  <2> QED
    BY <1>1, <1>s, <1>k, <1>t, <2>1, Ends
<1>2. CASE /\ aborted /\ config.streaming /\ pc' = "drain" /\ UNCHANGED <<reason, shown, phase>>
  <2>1. TypeOK' /\ RecoveriesOK' /\ LeftOK' /\ CountOK' /\ ShownOK' /\ ErrorsOK'
    BY <1>2, <1>k, <1>t, <1>b, Moves
  <2>2. PlaceOK'
    BY <1>2, <1>k DEF LoopInv, PlaceOK
  <2>3. AnswersOK'
    BY <1>2, <1>k DEF LoopInv, AnswersOK, Given
  <2> QED
    BY <2>1, <2>2, <2>3 DEF LoopInv
<1>3. CASE ~aborted /\ uses = {} /\ pc' = "decide" /\ UNCHANGED <<reason, shown, phase>>
  <2>1. TypeOK' /\ RecoveriesOK' /\ LeftOK' /\ CountOK' /\ ShownOK' /\ ErrorsOK'
    BY <1>3, <1>k, <1>t, <1>b, Moves
  <2>2. PlaceOK'
    BY <1>3, <1>k DEF LoopInv, PlaceOK
  <2>3. AnswersOK'
    BY <1>3, <1>k DEF LoopInv, AnswersOK, Given
  <2> QED
    BY <2>1, <2>2, <2>3 DEF LoopInv

<1>4. CASE /\ ~aborted /\ uses # {} /\ pc' = "tools" /\ UNCHANGED <<reason, shown>>
           /\ phase' = IF config.streaming THEN phase
                       ELSE [i \in Slots |-> IF i \in uses THEN "pending" ELSE "absent"]
  <2>0. phase' \in [Slots -> {"absent", "pending", "answered", "reported"}]
    BY <1>4, <1>t
  <2>1. TypeOK' /\ RecoveriesOK' /\ LeftOK' /\ CountOK' /\ ShownOK' /\ ErrorsOK'
    BY <1>4, <1>k, <1>t, <1>b, <2>0, Moves
  <2>2. PlaceOK'
    BY <1>4, <1>k DEF LoopInv, PlaceOK
  <2>3. AnswersOK'
    <3>1. late = {}
      BY <1>4 DEF LoopInv, PlaceOK
    <3>2. \A i \in Slots : /\ phase[i] # "absent" <=> Given(i)
                           /\ shown[i] = IF phase[i] = "reported" THEN 1 ELSE 0
                           /\ results[i] = shown[i] /\ mode = "open"
      BY <1>k DEF LoopInv, AnswersOK
    <3>3. CASE config.streaming
      BY <1>4, <1>k, <3>1, <3>2, <3>3 DEF AnswersOK, Given
    <3>4. CASE ~config.streaming
      BY <1>4, <1>k, <3>1, <3>2, <3>4 DEF AnswersOK, Given
    <3> QED
      BY <3>3, <3>4
  <2> QED
    BY <2>1, <2>2, <2>3 DEF LoopInv
<1> QED
  <2>1. CASE aborted /\ config.streaming
    BY <2>1, <1>2, <1>3, <1>4 DEF StreamEnds
  <2>2. CASE aborted /\ ~config.streaming
    BY <2>2, <1>1, <1>3, <1>4 DEF StreamEnds, Return
  <2>3. CASE ~aborted
    BY <2>3, <1>3, <1>4 DEF StreamEnds
  <2> QED
    BY <2>1, <2>2, <2>3

\* The tools have ended: each call of the response has its result.
LEMMA ToolsEndStep ==
  ASSUME LoopInv, ToolsEnd
  PROVE  LoopInv'
<1>k. /\ Kept /\ UNCHANGED <<config, incoming, last, uses, results, left, late, aborted, shown,
                             errorsShown, phase>>
      /\ pc = "tools" /\ mode' = "closed" /\ \A i \in Slots : phase[i] \in {"absent", "reported"}
  BY DEF ToolsEnd, Kept, responseVars, seenVars, ghostVars, Executor!Close, Executor!Slots, Slots
<1>s. /\ shown \in [Slots -> Nat] /\ errorsShown \in 0..1 /\ uses \subseteq Slots
      /\ \A i \in Slots : shown[i] =< 1
      /\ \A i \in Slots : Given(i) => shown[i] = 1
  BY <1>k, AllShown
<1>p. uses # {} /\ late = {}
  BY <1>k DEF LoopInv, PlaceOK
<1>t. phase' \in [Slots -> {"absent", "pending", "answered", "reported"}]
  BY <1>k DEF LoopInv, TypeOK
<1>b. aborted' \in BOOLEAN
  BY <1>k DEF LoopInv, TypeOK
<1>1. CASE pc' = "done" /\ reason' \in {"aborted_tools", "hook_stopped"}
  <2>1. \A i \in uses : shown[i] = 1
    BY <1>s, <1>p, <1>k DEF Given
  <2> QED
    BY <1>1, <1>k, <1>s, <1>p, <2>1, Ends
<1>2. CASE pc' = "attach" /\ UNCHANGED reason
  <2>1. TypeOK' /\ RecoveriesOK' /\ LeftOK' /\ CountOK' /\ ShownOK' /\ ErrorsOK'
    BY <1>2, <1>k, <1>t, <1>b, Moves
  <2>2. PlaceOK'
    BY <1>2, <1>k, <1>p DEF LoopInv, PlaceOK
  <2>3. AnswersOK'
    BY <1>2, <1>k DEF LoopInv, AnswersOK, Given
  <2> QED
    BY <2>1, <2>2, <2>3 DEF LoopInv
<1> QED
  BY <1>1, <1>2 DEF ToolsEnd, Return

-----------------------------------------------------------------------------
(* The steps that change the response, or the State.                       *)

\* The context is prepared, and compacted unless that failed too often.
LEMMA SetupStep ==
  ASSUME LoopInv, Setup
  PROVE  LoopInv'
<1>k. /\ UNCHANGED <<config, reason, turnCount, recoveryCount, hasAttemptedReactiveCompact,
                     overridden, drainedLast, tracker, incoming, last, uses, fellBack, results,
                     phase, mode, aborted, shown, errorsShown, left, late, spoiled, stalled>>
      /\ pc = "setup" /\ pc' = "stream"
  BY DEF Setup, responseVars, executorVars, seenVars
<1>f. /\ failures \in Nat /\ failedRuns = failures
      /\ failures =< MAX_CONSECUTIVE_AUTOCOMPACT_FAILURES
  BY DEF LoopInv, RecoveriesOK, TypeOK
<1>g. /\ failures' \in Nat /\ failedRuns' = failures'
      /\ failures' =< MAX_CONSECUTIVE_AUTOCOMPACT_FAILURES
  BY <1>f DEF Setup, AutoCompact, MAX_CONSECUTIVE_AUTOCOMPACT_FAILURES
<1>1. TypeOK'
  <2>1. /\ hasAttemptedReactiveCompact' \in BOOLEAN
        /\ overridden' \in BOOLEAN /\ drainedLast' \in BOOLEAN
        /\ fellBack' \in BOOLEAN /\ aborted' \in BOOLEAN
    BY <1>k DEF LoopInv, TypeOK
  <2>2. /\ config' \in Configs /\ turnCount' \in 1..MaxTurns
        /\ recoveryCount' \in 0..MAX_OUTPUT_TOKENS_RECOVERY_LIMIT
        /\ tracker' \in [count : 0..3, lastSmall : BOOLEAN]
        /\ incoming' \in [sort : Errors \cup {"answer", "none"}, tools : 0..MaxTools]
        /\ last' \in Errors \cup {"answer", "none"}
        /\ uses' \subseteq Slots /\ late' \subseteq uses'
        /\ results' \in [Slots -> Nat] /\ shown' \in [Slots -> Nat]
        /\ phase' \in [Slots -> {"absent", "pending", "answered", "reported"}]
        /\ mode' \in {"open", "closed"} /\ errorsShown' \in 0..1
        /\ spoiled' \subseteq {"unanswered", "twice", "orphan"} /\ stalled' \in Nat
        /\ reason' = "none"
    BY <1>k DEF LoopInv, TypeOK
  <2> QED
    BY <1>k, <1>g, <2>1, <2>2 DEF TypeOK
<1>2. CountOK' /\ LeftOK' /\ PlaceOK' /\ ShownOK'
  BY <1>k DEF LoopInv, CountOK, LeftOK, PlaceOK, ShownOK
<1>3. AnswersOK'
  BY <1>k DEF LoopInv, AnswersOK, Given
<1>4. ErrorsOK'
  BY <1>k DEF LoopInv, ErrorsOK, ErrorShownOnce, Withheld
<1>5. RecoveriesOK'
  BY <1>k, <1>g DEF LoopInv, RecoveriesOK, Recoveries
<1> QED
  BY <1>1, <1>2, <1>3, <1>4, <1>5 DEF LoopInv

\* A message is kept, and its calls get the next numbers.
LEMMA PushStep ==
  ASSUME LoopInv, Push
  PROVE  LoopInv'
<1>d. PICK n, k, new : /\ n = incoming.tools /\ k = Cardinality(uses)
                       /\ new = (Cardinality(uses) + 1)..(Cardinality(uses) + incoming.tools)
  OBVIOUS
<1>k. /\ UNCHANGED <<config, reason, turnCount, recoveryCount, hasAttemptedReactiveCompact,
                     overridden, drainedLast, failures, tracker, fellBack, results, mode, aborted,
                     shown, errorsShown, left, spoiled, stalled, failedRuns>>
      /\ pc = "push" /\ last' = incoming.sort /\ uses' = uses \cup new /\ incoming' = None
  BY <1>d DEF Push, stateVars, seenVars
<1>h. \/ /\ ~config.streaming \/ aborted
         /\ late' = IF aborted /\ config.streaming THEN late \cup new ELSE late
         /\ pc' = "stream" /\ phase' = phase
      \/ /\ config.streaming /\ ~aborted
         /\ phase' = [i \in Slots |-> IF i \in new THEN "pending" ELSE phase[i]]
         /\ pc' = "scan" /\ late' = late
  BY <1>d DEF Push
<1>n. /\ k \in 0..MaxTools /\ n \in 0..MaxTools /\ k + n =< MaxTools /\ MaxTools \in Nat
      /\ uses = 1..k /\ new = (k + 1)..(k + n) /\ incoming.sort \in Errors \cup {"answer"}
  <2>1. incoming \in [sort : Errors \cup {"answer", "none"}, tools : 0..MaxTools]
    BY DEF LoopInv, TypeOK
  <2> QED
    BY <1>d, <1>k, <2>1, Counts DEF LoopInv, CountOK
<1>u. /\ uses' = 1..(k + n) /\ uses' \subseteq Slots /\ new \subseteq Slots /\ uses \cap new = {}
      /\ Cardinality(uses') = k + n
  <2>1. uses' = 1..(k + n) /\ uses \cap new = {}
    BY <1>k, <1>n
  <2>2. k + n \in 0..MaxTools
    BY <1>n
  <2>3. new \subseteq uses'
    BY <1>k
  <2> QED
    BY <2>1, <2>2, <2>3, Counts
<1>1. TypeOK'
  <2>1. /\ hasAttemptedReactiveCompact' \in BOOLEAN
        /\ overridden' \in BOOLEAN /\ drainedLast' \in BOOLEAN
        /\ fellBack' \in BOOLEAN /\ aborted' \in BOOLEAN
    BY <1>k DEF LoopInv, TypeOK
  <2>2. /\ config' \in Configs /\ turnCount' \in 1..MaxTurns
        /\ recoveryCount' \in 0..MAX_OUTPUT_TOKENS_RECOVERY_LIMIT
        /\ failures' \in Nat /\ failedRuns' \in Nat
        /\ tracker' \in [count : 0..3, lastSmall : BOOLEAN]
        /\ results' \in [Slots -> Nat] /\ shown' \in [Slots -> Nat]
        /\ mode' \in {"open", "closed"} /\ errorsShown' \in 0..1
        /\ spoiled' \subseteq {"unanswered", "twice", "orphan"} /\ stalled' \in Nat
        /\ reason' = "none"
    BY <1>k DEF LoopInv, TypeOK
  <2>3. /\ incoming' \in [sort : Errors \cup {"answer", "none"}, tools : 0..MaxTools]
        /\ last' \in Errors \cup {"answer", "none"}
    BY <1>k, <1>n DEF None
  <2>4. late \subseteq uses /\ phase \in [Slots -> {"absent", "pending", "answered", "reported"}]
    BY DEF LoopInv, TypeOK
  <2>5. late' \subseteq uses' /\ phase' \in [Slots -> {"absent", "pending", "answered", "reported"}]
        /\ pc' \in {"stream", "scan"}
    BY <1>k, <1>h, <2>4
  <2> QED
    BY <1>u, <2>1, <2>2, <2>3, <2>5 DEF TypeOK
<1>2. CountOK'
  BY <1>h, <1>n, <1>u DEF CountOK
<1>3. LeftOK' /\ ShownOK'
  BY <1>k, <1>h DEF LoopInv, LeftOK, ShownOK
<1>4. PlaceOK'
  BY <1>k, <1>h, <1>n DEF LoopInv, PlaceOK, Errors
<1>5. AnswersOK'
  <2>1. \A i \in Slots : /\ phase[i] # "absent" <=> Given(i)
                         /\ shown[i] = IF phase[i] = "reported" THEN 1 ELSE 0
                         /\ results[i] = shown[i] /\ mode = "open"
    BY <1>k DEF LoopInv, AnswersOK
  <2>2. \A i \in Slots : Given(i) <=> i \in uses /\ config.streaming /\ i \notin late
    BY <1>k DEF Given
  <2>3. \A i \in Slots : Given(i)' <=> i \in uses' /\ config.streaming /\ i \notin late'
    BY <1>k, <1>h DEF Given
  <2>4. late \subseteq uses
    BY DEF LoopInv, TypeOK
  <2>5. \A i \in Slots : /\ phase'[i] # "absent" <=> Given(i)'
                         /\ phase'[i] = "reported" <=> phase[i] = "reported"
    BY <1>k, <1>h, <1>u, <2>1, <2>2, <2>3, <2>4
  <2> QED
    BY <1>k, <1>h, <2>1, <2>5 DEF AnswersOK
<1>6. ErrorsOK'
  BY <1>k, <1>h DEF LoopInv, ErrorsOK, ErrorShownOnce, Withheld
<1>7. RecoveriesOK'
  BY <1>k DEF LoopInv, RecoveriesOK, Recoveries
<1> QED
  BY <1>1, <1>2, <1>3, <1>4, <1>5, <1>6, <1>7 DEF LoopInv

\* The executor answers a call, in the background.
LEMMA AnswerStep ==
  ASSUME LoopInv, NEW i \in Slots, Answer(i)
  PROVE  LoopInv'
<1>k. /\ Kept /\ UNCHANGED <<config, pc, reason, incoming, last, uses, results, left, late, spoiled,
                             aborted, shown, errorsShown, mode>>
      /\ mode = "open" /\ phase[i] = "pending" /\ phase' = [phase EXCEPT ![i] = "answered"]
  BY DEF Answer, Kept, responseVars, seenVars, ghostVars, Executor!Answer
<1>t. phase \in [Slots -> {"absent", "pending", "answered", "reported"}]
  BY DEF LoopInv, TypeOK
<1>1. TypeOK' /\ RecoveriesOK' /\ LeftOK'
  <2>1. phase' \in [Slots -> {"absent", "pending", "answered", "reported"}]
    BY <1>k, <1>t
  <2>2. mode' \in {"open", "closed"} /\ shown' \in [Slots -> Nat] /\ errorsShown' \in 0..1
        /\ pc' \in {"setup", "stream", "push", "scan", "drain", "decide", "compacting", "hooks",
                    "tools", "attach", "done"}
        /\ (pc' = "done" <=> reason' # "none")
    BY <1>k DEF LoopInv, TypeOK
  <2>3. aborted' \in BOOLEAN
    BY <1>k DEF LoopInv, TypeOK
  <2> QED
    BY <1>k, <2>1, <2>2, <2>3, KeptTypes
<1>2. CountOK' /\ PlaceOK' /\ ShownOK'
  BY <1>k DEF LoopInv, CountOK, PlaceOK, ShownOK
<1>3. AnswersOK'
  <2> SUFFICES ASSUME pc' # "done", NEW j \in Slots
               PROVE  /\ phase'[j] # "absent" <=> Given(j)'
                      /\ shown'[j] = IF phase'[j] = "reported" THEN 1 ELSE 0
                      /\ pc' # "drain" => results'[j] = shown'[j]
                      /\ mode' = "open" <=> pc' # "attach"
                      /\ pc' = "attach" => phase'[j] \in {"absent", "reported"}
    BY DEF AnswersOK
  <2>1. /\ phase[j] # "absent" <=> Given(j)
        /\ shown[j] = IF phase[j] = "reported" THEN 1 ELSE 0
        /\ pc # "drain" => results[j] = shown[j]
        /\ mode = "open" <=> pc # "attach"
    BY <1>k DEF LoopInv, AnswersOK
  <2>2. Given(j)' <=> Given(j)
    BY <1>k DEF Given
  <2> QED
    BY <1>k, <1>t, <2>1, <2>2
<1>4. ErrorsOK'
  BY <1>k DEF LoopInv, ErrorsOK, ErrorShownOnce, Withheld
<1> QED
  BY <1>1, <1>2, <1>3, <1>4 DEF LoopInv

\* An answer is reported: it is shown and, unless the query is ending, kept.
LEMMA ReportStep ==
  ASSUME LoopInv, NEW i \in Slots, Report(i)
  PROVE  LoopInv'
<1>k. /\ UNCHANGED <<config, pc, reason, turnCount, recoveryCount, hasAttemptedReactiveCompact,
                     overridden, drainedLast, failures, tracker, incoming, last, uses, fellBack,
                     aborted, errorsShown, left, late, spoiled, stalled, failedRuns, mode>>
      /\ pc \in {"scan", "drain", "tools"}
      /\ mode = "open" /\ phase[i] = "answered" /\ phase' = [phase EXCEPT ![i] = "reported"]
      /\ shown' = [shown EXCEPT ![i] = @ + 1]
      /\ results' = IF pc = "drain" THEN results ELSE [results EXCEPT ![i] = @ + 1]
  BY DEF Report, stateVars, ghostVars, Executor!Report
<1>t. /\ phase \in [Slots -> {"absent", "pending", "answered", "reported"}]
      /\ shown \in [Slots -> Nat] /\ results \in [Slots -> Nat]
  BY DEF LoopInv, TypeOK
<1>1. TypeOK'
  <2>1. /\ hasAttemptedReactiveCompact' \in BOOLEAN
        /\ overridden' \in BOOLEAN /\ drainedLast' \in BOOLEAN
        /\ fellBack' \in BOOLEAN /\ aborted' \in BOOLEAN
    BY <1>k DEF LoopInv, TypeOK
  <2>2. /\ phase' \in [Slots -> {"absent", "pending", "answered", "reported"}]
        /\ shown' \in [Slots -> Nat] /\ results' \in [Slots -> Nat]
    BY <1>k, <1>t
  <2>3. /\ config' \in Configs /\ turnCount' \in 1..MaxTurns
        /\ recoveryCount' \in 0..MAX_OUTPUT_TOKENS_RECOVERY_LIMIT
        /\ failures' \in Nat /\ failedRuns' \in Nat
        /\ tracker' \in [count : 0..3, lastSmall : BOOLEAN]
        /\ incoming' \in [sort : Errors \cup {"answer", "none"}, tools : 0..MaxTools]
        /\ last' \in Errors \cup {"answer", "none"}
        /\ uses' \subseteq Slots /\ late' \subseteq uses'
        /\ mode' \in {"open", "closed"} /\ errorsShown' \in 0..1
        /\ spoiled' \subseteq {"unanswered", "twice", "orphan"} /\ stalled' \in Nat
        /\ reason' = "none"
    BY <1>k DEF LoopInv, TypeOK
  <2> QED
    BY <1>k, <2>1, <2>2, <2>3 DEF TypeOK
<1>2. CountOK' /\ LeftOK' /\ PlaceOK' /\ ShownOK'
  BY <1>k DEF LoopInv, CountOK, LeftOK, PlaceOK, ShownOK
<1>3. AnswersOK'
  <2> SUFFICES ASSUME NEW j \in Slots
               PROVE  /\ phase'[j] # "absent" <=> Given(j)'
                      /\ shown'[j] = IF phase'[j] = "reported" THEN 1 ELSE 0
                      /\ pc' # "drain" => results'[j] = shown'[j]
                      /\ mode' = "open" <=> pc' # "attach"
                      /\ pc' = "attach" => phase'[j] \in {"absent", "reported"}
    BY DEF AnswersOK
  <2>1. /\ phase[j] # "absent" <=> Given(j)
        /\ shown[j] = IF phase[j] = "reported" THEN 1 ELSE 0
        /\ pc # "drain" => results[j] = shown[j]
    BY <1>k DEF LoopInv, AnswersOK
  <2>2. Given(j)' <=> Given(j)
    BY <1>k DEF Given
  <2>3. CASE j = i
    BY <1>k, <1>t, <2>1, <2>2, <2>3
  <2>4. CASE j # i
    BY <1>k, <1>t, <2>1, <2>2, <2>4
  <2> QED
    BY <2>3, <2>4
<1>4. ErrorsOK'
  BY <1>k DEF LoopInv, ErrorsOK, ErrorShownOnce, Withheld
<1>5. RecoveriesOK'
  BY <1>k DEF LoopInv, RecoveriesOK, Recoveries
<1> QED
  BY <1>1, <1>2, <1>3, <1>4, <1>5 DEF LoopInv

\* The stream falls back: what was received is kept until the next message comes.
LEMMA FallBackStep ==
  ASSUME LoopInv, FallBack
  PROVE  LoopInv'
<1>k. /\ UNCHANGED <<config, pc, reason, turnCount, recoveryCount, hasAttemptedReactiveCompact,
                     overridden, drainedLast, failures, tracker, incoming, last, uses, results,
                     aborted, shown, errorsShown, late, spoiled, stalled, failedRuns, phase, mode>>
      /\ pc = "stream" /\ left.fallbacks > 0 /\ fellBack' = TRUE
      /\ left' = [left EXCEPT !.fallbacks = @ - 1]
  BY DEF FallBack, stateVars, executorVars, seenVars, ghostVars
<1>l. /\ left' \in LimitType /\ left'.fallbacks = left.fallbacks - 1
      /\ left'.switches = left.switches /\ left'.drains = left.drains
      /\ left.fallbacks \in Nat /\ left.fallbacks =< Limits[config].fallbacks
      /\ Limits[config].fallbacks \in Nat
  BY <1>k, Less, Types DEF LoopInv, LeftOK
<1>1. TypeOK'
  <2>1. /\ hasAttemptedReactiveCompact' \in BOOLEAN
        /\ overridden' \in BOOLEAN /\ drainedLast' \in BOOLEAN
        /\ fellBack' \in BOOLEAN /\ aborted' \in BOOLEAN
    BY <1>k DEF LoopInv, TypeOK
  <2>2. /\ config' \in Configs /\ turnCount' \in 1..MaxTurns
        /\ recoveryCount' \in 0..MAX_OUTPUT_TOKENS_RECOVERY_LIMIT
        /\ failures' \in Nat /\ failedRuns' \in Nat
        /\ tracker' \in [count : 0..3, lastSmall : BOOLEAN]
        /\ incoming' \in [sort : Errors \cup {"answer", "none"}, tools : 0..MaxTools]
        /\ last' \in Errors \cup {"answer", "none"}
        /\ uses' \subseteq Slots /\ late' \subseteq uses'
        /\ phase' \in [Slots -> {"absent", "pending", "answered", "reported"}]
        /\ shown' \in [Slots -> Nat] /\ results' \in [Slots -> Nat]
        /\ mode' \in {"open", "closed"} /\ errorsShown' \in 0..1
        /\ spoiled' \subseteq {"unanswered", "twice", "orphan"} /\ stalled' \in Nat
        /\ reason' = "none"
    BY <1>k DEF LoopInv, TypeOK
  <2> QED
    BY <1>k, <2>1, <2>2 DEF TypeOK
<1>2. CountOK' /\ PlaceOK'
  BY <1>k DEF LoopInv, CountOK, PlaceOK
<1>3. LeftOK' /\ ShownOK'
  BY <1>k, <1>l DEF LoopInv, LeftOK, ShownOK
<1>4. AnswersOK'
  BY <1>k DEF LoopInv, AnswersOK, Given
<1>5. ErrorsOK'
  BY <1>k DEF LoopInv, ErrorsOK, ErrorShownOnce, Withheld
<1>6. RecoveriesOK'
  BY <1>k, <1>l DEF LoopInv, RecoveriesOK, Recoveries
<1> QED
  BY <1>1, <1>2, <1>3, <1>4, <1>5, <1>6 DEF LoopInv

\* What is left when a response is abandoned.
LEMMA Abandoned ==
  ASSUME Abandon
  PROVE  /\ last' = "none" /\ uses' = {} /\ results' = Zero /\ shown' = Zero
         /\ phase' = Fresh /\ mode' = "open"
         /\ uses' \subseteq Slots /\ Cardinality(uses') = 0 /\ uses' = 1..Cardinality(uses')
         /\ results' \in [Slots -> Nat] /\ shown' \in [Slots -> Nat]
         /\ phase' \in [Slots -> {"absent", "pending", "answered", "reported"}]
         /\ \A i \in Slots : phase'[i] = "absent" /\ shown'[i] = 0 /\ results'[i] = 0
<1>1. Zero \in [Slots -> Nat] /\ Fresh \in [Slots -> {"absent", "pending", "answered", "reported"}]
  BY DEF Zero, Fresh
<1>2. \A i \in Slots : Fresh[i] = "absent" /\ Zero[i] = 0
  BY DEF Zero, Fresh
<1> QED
  BY <1>1, <1>2, Counts DEF Abandon

\* The model is switched: each call of the attempt is answered once more, so that none is
\* without an answer.
LEMMA SwitchModelStep ==
  ASSUME LoopInv, SwitchModel
  PROVE  LoopInv'
<1>k. /\ UNCHANGED <<config, pc, reason, turnCount, recoveryCount, hasAttemptedReactiveCompact,
                     overridden, drainedLast, failures, tracker, incoming, aborted, errorsShown,
                     stalled, failedRuns>>
      /\ pc = "stream" /\ left.switches > 0 /\ fellBack' = FALSE /\ late' = {}
      /\ last \notin Errors
      /\ left' = [left EXCEPT !.switches = @ - 1]
      /\ spoiled' = spoiled \cup Flaws(uses, AllAnswered)
  BY DEF SwitchModel, stateVars
<1>a. /\ last' = "none" /\ uses' = {} /\ mode' = "open"
      /\ uses' \subseteq Slots /\ Cardinality(uses') = 0 /\ uses' = 1..Cardinality(uses')
      /\ results' \in [Slots -> Nat] /\ shown' \in [Slots -> Nat]
      /\ phase' \in [Slots -> {"absent", "pending", "answered", "reported"}]
      /\ \A i \in Slots : phase'[i] = "absent" /\ shown'[i] = 0 /\ results'[i] = 0
  BY Abandoned DEF SwitchModel
<1>l. /\ left' \in LimitType /\ left'.switches = left.switches - 1
      /\ left'.fallbacks = left.fallbacks /\ left'.drains = left.drains
      /\ left.switches \in Nat /\ left.switches =< Limits[config].switches
      /\ Limits[config].switches \in Nat
  BY <1>k, Less, Types DEF LoopInv, LeftOK
<1>f. Flaws(uses, AllAnswered) \subseteq {"twice"}
  <2>1. \A i \in uses : AllAnswered[i] = shown[i] + 1 /\ shown[i] \in Nat
    BY <1>k, AllShown
  <2> QED
    BY <2>1 DEF Flaws
<1>1. TypeOK'
  <2>1. /\ hasAttemptedReactiveCompact' \in BOOLEAN
        /\ overridden' \in BOOLEAN /\ drainedLast' \in BOOLEAN
        /\ fellBack' \in BOOLEAN /\ aborted' \in BOOLEAN
    BY <1>k DEF LoopInv, TypeOK
  <2>2. /\ config' \in Configs /\ turnCount' \in 1..MaxTurns
        /\ recoveryCount' \in 0..MAX_OUTPUT_TOKENS_RECOVERY_LIMIT
        /\ failures' \in Nat /\ failedRuns' \in Nat
        /\ tracker' \in [count : 0..3, lastSmall : BOOLEAN]
        /\ incoming' \in [sort : Errors \cup {"answer", "none"}, tools : 0..MaxTools]
        /\ errorsShown' \in 0..1 /\ stalled' \in Nat
        /\ spoiled \subseteq {"unanswered", "twice", "orphan"}
        /\ reason' = "none"
    BY <1>k DEF LoopInv, TypeOK
  <2> QED
    BY <1>k, <1>a, <1>f, <2>1, <2>2 DEF TypeOK
<1>2. CountOK' /\ PlaceOK'
  BY <1>k, <1>a, Counts DEF CountOK, PlaceOK
<1>3. LeftOK'
  BY <1>k, <1>l DEF LoopInv, LeftOK
<1>4. ShownOK'
  BY <1>k, <1>l, <1>f DEF LoopInv, ShownOK
<1>5. AnswersOK'
  BY <1>k, <1>a DEF AnswersOK, Given
<1>6. ErrorsOK'
  BY <1>k, <1>a DEF LoopInv, ErrorsOK, ErrorShownOnce, Withheld, Errors
<1>7. RecoveriesOK'
  BY <1>k, <1>l DEF LoopInv, RecoveriesOK, Recoveries
<1> QED
  BY <1>1, <1>2, <1>3, <1>4, <1>5, <1>6, <1>7 DEF LoopInv

\* A message arrives, the first one after a fallback instead of what came before.
LEMMA ReceiveStep ==
  ASSUME LoopInv, NEW sort \in Errors \cup {"answer"}, NEW n \in 0..MaxTools, Receive(sort, n)
  PROVE  LoopInv'
<1>k. /\ UNCHANGED <<config, reason, turnCount, recoveryCount, hasAttemptedReactiveCompact,
                     overridden, drainedLast, failures, tracker, fellBack, aborted, left,
                     stalled, failedRuns>>
      /\ pc = "stream" /\ pc' = "push" /\ last \notin Errors
      /\ incoming' = [sort |-> sort, tools |-> n]
      /\ errorsShown' = IF sort \in Errors /\ ~Withheld(sort) THEN errorsShown + 1
                        ELSE errorsShown
  BY DEF Receive, stateVars
<1>e. errorsShown = 0
  BY <1>k DEF LoopInv, ErrorsOK
<1>i. /\ incoming'.sort = sort /\ incoming'.tools = n
      /\ incoming' \in [sort : Errors \cup {"answer", "none"}, tools : 0..MaxTools]
  BY <1>k
<1>p. /\ Cardinality(uses) \in 0..MaxTools /\ uses = 1..Cardinality(uses) /\ uses \subseteq Slots
      /\ results \in [Slots -> Nat] /\ shown \in [Slots -> Nat] /\ late \subseteq uses
      /\ phase \in [Slots -> {"absent", "pending", "answered", "reported"}]
      /\ mode \in {"open", "closed"} /\ spoiled \subseteq {"twice", "orphan"}
      /\ last \in Errors \cup {"answer", "none"} /\ MaxTools \in Nat
  BY Counts DEF LoopInv, TypeOK, CountOK, ShownOK
<1>h. \/ /\ ~fellBack /\ Cardinality(uses) + n =< MaxTools
         /\ UNCHANGED <<last, uses, results, shown, phase, mode, late, spoiled>>
      \/ /\ fellBack /\ late' = {} /\ spoiled' \subseteq spoiled \cup {"orphan"}
         /\ last' = "none" /\ uses' = {} /\ mode' = "open"
         /\ uses' \subseteq Slots /\ Cardinality(uses') = 0 /\ uses' = 1..Cardinality(uses')
         /\ results' \in [Slots -> Nat] /\ shown' \in [Slots -> Nat]
         /\ phase' \in [Slots -> {"absent", "pending", "answered", "reported"}]
         /\ \A i \in Slots : phase'[i] = "absent" /\ shown'[i] = 0 /\ results'[i] = 0
  <2>1. CASE ~fellBack
    BY <2>1 DEF Receive, executorVars
  <2>2. CASE fellBack
    <3>1. Abandon /\ late' = {}
          /\ spoiled' = spoiled \cup {"orphan" : i \in {j \in Slots : shown[j] > 0}}
      BY <2>2 DEF Receive
    <3> QED
      BY <2>2, <3>1, Abandoned
  <2> QED
    BY <2>1, <2>2
<1>1. TypeOK'
  <2>1. /\ hasAttemptedReactiveCompact' \in BOOLEAN
        /\ overridden' \in BOOLEAN /\ drainedLast' \in BOOLEAN
        /\ fellBack' \in BOOLEAN /\ aborted' \in BOOLEAN
    BY <1>k DEF LoopInv, TypeOK
  <2>2. /\ config' \in Configs /\ turnCount' \in 1..MaxTurns
        /\ recoveryCount' \in 0..MAX_OUTPUT_TOKENS_RECOVERY_LIMIT
        /\ failures' \in Nat /\ failedRuns' \in Nat
        /\ tracker' \in [count : 0..3, lastSmall : BOOLEAN]
        /\ stalled' \in Nat /\ reason' = "none"
    BY <1>k DEF LoopInv, TypeOK
  <2>3. /\ uses' \subseteq Slots /\ late' \subseteq uses' /\ mode' \in {"open", "closed"}
        /\ results' \in [Slots -> Nat] /\ shown' \in [Slots -> Nat]
        /\ phase' \in [Slots -> {"absent", "pending", "answered", "reported"}]
        /\ spoiled' \subseteq {"unanswered", "twice", "orphan"}
        /\ last' \in Errors \cup {"answer", "none"}
    BY <1>p, <1>h
  <2>4. errorsShown' \in 0..1
    BY <1>k, <1>e
  <2> QED
    BY <1>k, <1>i, <2>1, <2>2, <2>3, <2>4 DEF TypeOK
<1>2. CountOK'
  BY <1>k, <1>i, <1>p, <1>h DEF CountOK, Errors
<1>3. LeftOK'
  BY <1>k DEF LoopInv, LeftOK
<1>4. PlaceOK'
  BY <1>k, <1>h DEF LoopInv, PlaceOK
<1>5. ShownOK'
  <2>1. fellBack => left.fallbacks < Limits[config].fallbacks
    BY DEF LoopInv, LeftOK
  <2> QED
    BY <1>k, <1>h, <1>p, <2>1 DEF LoopInv, ShownOK
<1>6. AnswersOK'
  BY <1>k, <1>h DEF LoopInv, AnswersOK, Given
<1>7. ErrorsOK'
  BY <1>k, <1>e, <1>i DEF ErrorsOK, ErrorShownOnce, Withheld
<1>8. RecoveriesOK'
  BY <1>k DEF LoopInv, RecoveriesOK, Recoveries
<1> QED
  BY <1>1, <1>2, <1>3, <1>4, <1>5, <1>6, <1>7, <1>8 DEF LoopInv

-----------------------------------------------------------------------------
(* Every step keeps the invariant.                                         *)

LEMMA StutterStep ==
  ASSUME LoopInv, UNCHANGED vars
  PROVE  LoopInv'
<1>k. UNCHANGED <<config, pc, reason, turnCount, recoveryCount, hasAttemptedReactiveCompact,
                  overridden, drainedLast, failures, tracker, incoming, last, uses, fellBack,
                  results, phase, mode, aborted, shown, errorsShown, left, late, spoiled, stalled,
                  failedRuns>>
  BY DEF vars, stateVars, responseVars, executorVars, seenVars, ghostVars
<1>1. TypeOK'
  <2>1. /\ hasAttemptedReactiveCompact' \in BOOLEAN
        /\ overridden' \in BOOLEAN /\ drainedLast' \in BOOLEAN
        /\ fellBack' \in BOOLEAN /\ aborted' \in BOOLEAN
    BY <1>k DEF LoopInv, TypeOK
  <2>2. /\ shown' \in [Slots -> Nat] /\ errorsShown' \in 0..1
        /\ phase' \in [Slots -> {"absent", "pending", "answered", "reported"}]
        /\ mode' \in {"open", "closed"}
        /\ pc' \in {"setup", "stream", "push", "scan", "drain", "decide", "compacting", "hooks",
                    "tools", "attach", "done"}
        /\ (pc' = "done" <=> reason' # "none")
    BY <1>k DEF LoopInv, TypeOK
  <2>3. Kept
    BY <1>k DEF Kept, stateVars, ghostVars
  <2> QED
    BY <2>1, <2>2, <2>3, KeptTypes
<1>2. CountOK' /\ LeftOK' /\ PlaceOK' /\ ShownOK'
  BY <1>k DEF LoopInv, CountOK, LeftOK, PlaceOK, ShownOK
<1>3. AnswersOK'
  BY <1>k DEF LoopInv, AnswersOK, Given
<1>4. ErrorsOK'
  BY <1>k DEF LoopInv, ErrorsOK, ErrorShownOnce, Withheld
<1>5. RecoveriesOK'
  BY <1>k DEF LoopInv, RecoveriesOK, Recoveries
<1> QED
  BY <1>1, <1>2, <1>3, <1>4, <1>5 DEF LoopInv

LEMMA StepLoopInv == LoopInv /\ [Next]_vars => LoopInv'
<1> SUFFICES ASSUME LoopInv, [Next]_vars
             PROVE  LoopInv'
  OBVIOUS
<1>1. CASE LoopStep
  <2>1. CASE Response
    BY <2>1, ReceiveStep, SwitchModelStep, EndStep, StreamEndsStep DEF Response
  <2>2. CASE Decision
    BY <2>2, RecoveryStep, GoOnStep, EndStep, MoveStep DEF Decision
  <2>3. CASE Setup \/ BlockingLimit \/ Push \/ ScanEnds
    BY <2>3, SetupStep, EndStep, PushStep, MoveStep
  <2>4. CASE DrainEnds \/ ToolsEnd \/ MaxTurnsReached \/ NextTurn
    BY <2>4, EndStep, ToolsEndStep, GoOnStep
  <2> QED
    BY <1>1, <2>1, <2>2, <2>3, <2>4 DEF LoopStep
<1>2. CASE \E i \in Slots : Answer(i) \/ Report(i)
  BY <1>2, AnswerStep, ReportStep
<1>3. CASE FallBack \/ Abort
  BY <1>3, FallBackStep, AbortStep
<1>4. CASE UNCHANGED vars
  BY <1>4, StutterStep
<1> QED
  BY <1>1, <1>2, <1>3, <1>4 DEF Next

\* The invariant holds throughout a query, for any settings and any bounds.
THEOREM LoopInvariant == Spec => []LoopInv
<1> QED
  BY InitLoopInv, StepLoopInv, PTL DEF Spec

-----------------------------------------------------------------------------
(* The theorems.                                                           *)

\* The state of the loop has the types that it is declared with, and maxTurns bounds
\* turnCount.
THEOREM TypeCorrect == Spec => []TypeOK
<1>1. LoopInv => TypeOK
  BY DEF LoopInv
<1> QED
  BY LoopInvariant, <1>1, PTL

\* When the loop goes on after tools, toolResults holds exactly one tool_result for each
\* of toolUseBlocks, whether they executed during the stream or after it, and whatever
\* fallback came before.
THEOREM RequestsPaired == Spec => []NextRequestPaired
<1>1. LoopInv => NextRequestPaired
  <2> SUFFICES ASSUME LoopInv, pc = "attach", NEW i \in Slots
               PROVE  results[i] = (IF i \in uses THEN 1 ELSE 0)
    BY DEF NextRequestPaired
  <2>1. /\ phase[i] # "absent" <=> Given(i)
        /\ shown[i] = IF phase[i] = "reported" THEN 1 ELSE 0
        /\ results[i] = shown[i] /\ phase[i] \in {"absent", "reported"}
    BY DEF LoopInv, AnswersOK
  <2>2. late = {}
    BY DEF LoopInv, PlaceOK
  <2> QED
    BY <2>1, <2>2 DEF Given
<1> QED
  BY LoopInvariant, <1>1, PTL

\* When the query ends, for whatever reason, the consumer was given a tool_result for each
\* call but those that arrived after the abort; twice only when a model was switched
\* or callModel threw, and without a call only when a stream fell back.
THEOREM EveryCallAnswered == Spec => []CallsAnswered
<1>1. LoopInv => CallsAnswered
  <2> SUFFICES ASSUME LoopInv
               PROVE  CallsAnswered
    OBVIOUS
  <2>1. /\ spoiled \subseteq {"twice", "orphan"}
        /\ "twice" \in spoiled => left.switches < Limits[config].switches
        /\ "orphan" \in spoiled => left.fallbacks < Limits[config].fallbacks
    BY DEF LoopInv, ShownOK
  <2>2. uses \subseteq Slots /\ shown \in [Slots -> Nat]
    BY DEF LoopInv, TypeOK
  <2>3. CASE pc = "done"
    <3>1. /\ \A i \in uses \ late : shown[i] > 0
          /\ reason # "model_error" => \A i \in uses : shown[i] =< 1
      BY <2>3 DEF LoopInv, ShownOK
    <3>2. "unanswered" \in Flaws(uses, shown) => late # {}
      BY <2>2, <3>1 DEF Flaws
    <3>3. "twice" \in Flaws(uses, shown) => reason = "model_error"
      BY <2>2, <3>1 DEF Flaws
    <3>4. "orphan" \notin Flaws(uses, shown)
      BY DEF Flaws
    <3> QED
      BY <2>1, <2>3, <3>2, <3>3, <3>4 DEF CallsAnswered, CallFlaws
  <2>4. CASE pc # "done"
    BY <2>1, <2>4 DEF CallsAnswered, CallFlaws
  <2> QED
    BY <2>3, <2>4
<1> QED
  BY LoopInvariant, <1>1, PTL

\* The error of the API that ends a query is yielded once: when it arrives, or when the
\* recovery that it was withheld for is not possible.
THEOREM ErrorsShownOnce == Spec => []ErrorShownOnce
<1>1. LoopInv => ErrorShownOnce
  BY DEF LoopInv, ErrorsOK
<1> QED
  BY LoopInvariant, <1>1, PTL

\* Recoveries from errors are few between two answers of the model, and automatic
\* compaction gives up after three failures in a row.
THEOREM RecoveriesFew == Spec => []RecoveriesBounded
<1>1. LoopInv => RecoveriesBounded
  <2> SUFFICES ASSUME LoopInv
               PROVE  RecoveriesBounded
    OBVIOUS
  <2>1. /\ stalled \in Nat /\ left.drains \in Nat /\ Limits[config].drains \in Nat
        /\ recoveryCount \in 0..3
    BY Types DEF LoopInv, TypeOK, MAX_OUTPUT_TOKENS_RECOVERY_LIMIT
  <2>2. stalled =< 2 * Recoveries + (IF overridden THEN 1 ELSE 0)
        /\ failedRuns =< MAX_CONSECUTIVE_AUTOCOMPACT_FAILURES
    BY DEF LoopInv, RecoveriesOK
  <2>3. Recoveries \in Nat /\ Recoveries =< 3 + 1 + Limits[config].drains
    BY <2>1, Types DEF Recoveries
  <2>4. stalled =< 2 * Recoveries + 1
    BY <2>1, <2>2, <2>3
  <2> QED
    BY <2>1, <2>2, <2>3, <2>4 DEF RecoveriesBounded
<1> QED
  BY LoopInvariant, <1>1, PTL
=============================================================================
