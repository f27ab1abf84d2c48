----------------------------- MODULE QueryLoop -----------------------------
(***************************************************************************)
(* queryLoop (src/claude/query.ts): one query of the user.  Each iteration *)
(* asks the model once, with retries on a fallback, executes the tools it  *)
(* calls, and goes on with their results, with a recovery from an error,   *)
(* or with what a hook has to say, until it returns a reason.              *)
(*                                                                         *)
(* The executor of the tools is given by ToolAnswers, which ToolExecutor   *)
(* implements: phase and mode are its variables.  A step ends at an await  *)
(* or at a yield; between steps the user may abort.                        *)
(***************************************************************************)
EXTENDS Integers, FiniteSets

CONSTANTS
  Configs,      \* the settings of the query: records of ConfigType
  MaxTools,     \* bound on the tool calls of one response
  MaxTurns,     \* maxTurns
  Limits        \* for each setting, bounds on what others may do in one query

\* Whether tools execute while the response streams in, which recoveries are
\* built in and enabled, whether the context is compacted automatically, and
\* whether the user gave a token budget.
ConfigType == [streaming : BOOLEAN, reactive : BOOLEAN, collapse : BOOLEAN,
               escalate : BOOLEAN, auto : BOOLEAN, budget : BOOLEAN]

\* Streams that fall back to a request without streaming, switches to the
\* fallback model, drains of staged collapses, stop hooks that block, and large
\* responses that the token budget pays for.
LimitType == [fallbacks : Nat, switches : Nat, drains : Nat, blocks : Nat, large : Nat]

ASSUME ConfigsAssumption == Configs \subseteq ConfigType
ASSUME BoundsAssumption == MaxTools \in Nat \ {0} /\ MaxTurns \in Nat \ {0}
ASSUME LimitsAssumption == Limits \in [Configs -> LimitType]

Slots == 1..MaxTools
MAX_OUTPUT_TOKENS_RECOVERY_LIMIT == 3
MAX_CONSECUTIVE_AUTOCOMPACT_FAILURES == 3

VARIABLES
  config, pc, reason,
  \* State, as far as it decides anything
  turnCount, recoveryCount, hasAttemptedReactiveCompact,
  overridden,  \* maxOutputTokensOverride is set
  drainedLast, \* transition.reason = "collapse_drain_retry"
  failures,    \* autoCompactTracking.consecutiveFailures
  tracker,     \* budgetTracker: [count, lastSmall]
  \* this iteration
  incoming,    \* the message that was yielded, or withheld, and is not pushed yet
  last,        \* the sort of the last of assistantMessages
  uses,        \* toolUseBlocks
  fellBack,    \* streamingFallbackOccured
  results,     \* tool_result blocks in toolResults, for each call
  phase, mode, \* the executor
  aborted,
  \* what the consumer of the generator saw of this iteration
  shown,       \* tool_result blocks it was given, for each call
  errorsShown, \* error messages of the API it was given
  \* what others have left to do
  left,
  \* for the properties
  late,        \* the calls that arrived when the query was aborted already
  spoiled,     \* what is wrong with calls of abandoned attempts, see Flaws
  stalled,     \* recoveries since the model last answered
  failedRuns   \* automatic compactions that failed since one succeeded

stateVars == <<turnCount, recoveryCount, hasAttemptedReactiveCompact, overridden,
               drainedLast, failures, tracker>>
responseVars == <<incoming, last, uses, fellBack, results>>
executorVars == <<phase, mode>>
seenVars == <<shown, errorsShown>>
ghostVars == <<late, spoiled, stalled, failedRuns>>
vars == <<config, pc, reason, stateVars, responseVars, executorVars, aborted, seenVars,
          left, ghostVars>>

Executor == INSTANCE ToolAnswers

Errors == {"max", "long", "media", "other"}
None == [sort |-> "none", tools |-> 0]

Fresh == [i \in Slots |-> "absent"]
Zero == [i \in Slots |-> 0]

Init ==
  /\ config \in Configs
  /\ pc = "setup" /\ reason = "none"
  /\ turnCount = 1 /\ recoveryCount = 0
  /\ hasAttemptedReactiveCompact = FALSE
  /\ overridden = FALSE /\ drainedLast = FALSE
  /\ failures = 0
  /\ tracker = [count |-> 0, lastSmall |-> TRUE]
  /\ incoming = None /\ last = "none" /\ uses = {} /\ fellBack = FALSE
  /\ results = Zero
  /\ phase = Fresh /\ mode = "open"
  /\ aborted = FALSE
  /\ shown = Zero /\ errorsShown = 0
  /\ left = Limits[config]
  /\ late = {} /\ spoiled = {} /\ stalled = 0 /\ failedRuns = 0

\* What is wrong with the calls cs for the consumer: "unanswered" calls, or
\* "twice" answered ones.
Flaws(cs, answers) ==
  {"unanswered" : i \in {j \in cs : answers[j] = 0}}
    \cup {"twice" : i \in {j \in cs : answers[j] > 1}}

Return(why) == pc' = "done" /\ reason' = why

-----------------------------------------------------------------------------
(* The beginning of an iteration.                                          *)

\* autoCompactIfNeeded: what it does to the count of failures.
\* (mutant: it does not give up)
AutoCompactAnyway ==
  /\ config.auto
  /\ \/ failures' = 0 /\ failedRuns' = 0
     \/ failures' = failures + 1 /\ failedRuns' = failedRuns + 1

AutoCompact ==
  /\ config.auto
  /\ failures < MAX_CONSECUTIVE_AUTOCOMPACT_FAILURES
  /\ \/ failures' = 0 /\ failedRuns' = 0
     \/ failures' = failures + 1 /\ failedRuns' = failedRuns + 1

\* The context is prepared: compacted, or not since nothing is to do.
Setup ==
  /\ pc = "setup"
  /\ pc' = "stream"
  /\ AutoCompact \/ UNCHANGED <<failures, failedRuns>>
  /\ UNCHANGED <<config, reason, turnCount, recoveryCount, hasAttemptedReactiveCompact,
                 overridden, drainedLast, tracker, responseVars, executorVars, aborted,
                 seenVars, left, late, spoiled, stalled>>

\* The context is at the hard limit, and nothing that would react to the API's
\* refusal is enabled.
BlockingLimit ==
  /\ pc = "setup"
  /\ ~(config.reactive /\ config.auto) /\ ~(config.collapse /\ config.auto)
  /\ Return("blocking_limit")
  /\ errorsShown' = errorsShown + 1
  /\ UNCHANGED <<config, stateVars, responseVars, executorVars, aborted, shown, left,
                 ghostVars>>

-----------------------------------------------------------------------------
(* The response.                                                           *)

\* The partial response is abandoned: its messages, results and executor are
\* dropped.
\* (mutant: the executor is kept)
AbandonMessages ==
  /\ last' = "none" /\ uses' = {} /\ results' = Zero /\ shown' = Zero
  /\ UNCHANGED executorVars

Abandon ==
  /\ last' = "none" /\ uses' = {} /\ results' = Zero /\ shown' = Zero
  /\ phase' = Fresh /\ mode' = "open"

\* The message is kept from the consumer until it is known whether the loop
\* recovers from it.
Withheld(sort) ==
  \/ sort = "max"
  \/ sort = "long" /\ (config.reactive \/ config.collapse)
  \/ sort = "media" /\ config.reactive

\* A message of the response: text, calls of tools, or an error that ends it.
\* After the stream fell back to a request without streaming, the messages that
\* came before are tombstoned, though not the results of their tools.
Receive(sort, n) ==
  /\ pc = "stream"
  /\ last \notin Errors
  /\ sort # "answer" => n = 0
  /\ IF fellBack THEN n =< MaxTools ELSE Cardinality(uses) + n =< MaxTools
  /\ incoming' = [sort |-> sort, tools |-> n]
  /\ errorsShown' = IF sort \in Errors /\ ~Withheld(sort) THEN errorsShown + 1
                    ELSE errorsShown
  /\ IF fellBack
       THEN /\ Abandon
            /\ late' = {}
            /\ spoiled' = spoiled \cup
                 {"orphan" : i \in {j \in Slots : shown[j] > 0}}
       ELSE UNCHANGED <<last, uses, results, shown, executorVars, late, spoiled>>
  /\ pc' = "push"
  /\ UNCHANGED <<config, reason, stateVars, fellBack, aborted, left, stalled, failedRuns>>

\* It is kept, and its tools are handed to the executor unless the query was
\* aborted meanwhile.
Push ==
  LET new == (Cardinality(uses) + 1)..(Cardinality(uses) + incoming.tools) IN
  /\ pc = "push"
  /\ last' = incoming.sort
  /\ uses' = uses \cup new
  /\ incoming' = None
  /\ IF ~config.streaming \/ aborted
       THEN /\ late' = IF aborted /\ config.streaming THEN late \cup new ELSE late
            /\ pc' = "stream"
            /\ UNCHANGED phase
       ELSE /\ phase' = [i \in Slots |-> IF i \in new THEN "pending" ELSE phase[i]]
            /\ pc' = "scan"
            /\ UNCHANGED late
  /\ UNCHANGED <<config, reason, stateVars, fellBack, results, mode, aborted, seenVars,
                 left, spoiled, stalled, failedRuns>>

\* The executor answers a call in the background.
\* (mutant: it answers a call again that it has reported)
AnswerAgain(i) ==
  /\ mode = "open" /\ phase[i] \in {"pending", "reported"}
  /\ phase' = [phase EXCEPT ![i] = "answered"]
  /\ UNCHANGED <<mode, config, pc, reason, stateVars, responseVars, aborted, seenVars,
                 left, ghostVars>>

Answer(i) ==
  /\ mode = "open"
  /\ Executor!Answer(i)
  /\ UNCHANGED <<config, pc, reason, stateVars, responseVars, aborted, seenVars, left,
                 ghostVars>>

\* The executor reports an answer: it is yielded, and kept for the next request
\* unless the query is ending.
Report(i) ==
  /\ pc \in {"scan", "drain", "tools"}
  /\ Executor!Report(i)
  /\ shown' = [shown EXCEPT ![i] = @ + 1]
  /\ results' = IF pc = "drain" THEN results ELSE [results EXCEPT ![i] = @ + 1]
  /\ UNCHANGED <<config, pc, reason, stateVars, incoming, last, uses, fellBack, aborted,
                 errorsShown, left, ghostVars>>

\* getCompletedResults has no more to yield for now.
ScanEnds ==
  /\ pc = "scan"
  /\ pc' = "stream"
  /\ UNCHANGED <<config, reason, stateVars, responseVars, executorVars, aborted, seenVars,
                 left, ghostVars>>

\* The stream breaks and callModel asks again without streaming: what it yields
\* next replaces what it has yielded.
FallBack ==
  /\ pc = "stream" /\ last \notin Errors
  /\ ~fellBack /\ left.fallbacks > 0
  /\ fellBack' = TRUE
  /\ left' = [left EXCEPT !.fallbacks = @ - 1]
  /\ UNCHANGED <<config, pc, reason, stateVars, incoming, last, uses, results,
                 executorVars, aborted, seenVars, ghostVars>>

\* yieldMissingToolResultBlocks: an error result for each call of the response,
\* answered or not.
AllAnswered == [i \in Slots |-> IF i \in uses THEN shown[i] + 1 ELSE shown[i]]

\* FallbackTriggeredError: the same request goes to the fallback model.
SwitchModel ==
  /\ pc = "stream" /\ last \notin Errors
  /\ left.switches > 0
  /\ left' = [left EXCEPT !.switches = @ - 1]
  /\ spoiled' = spoiled \cup Flaws(uses, AllAnswered)
  /\ Abandon
  /\ late' = {} /\ fellBack' = FALSE
  /\ UNCHANGED <<config, pc, reason, stateVars, incoming, aborted, errorsShown, stalled,
                 failedRuns>>

\* callModel throws: an image it refuses before it asks, or an error of its own.
ModelThrows ==
  /\ pc = "stream" /\ last \notin Errors
  /\ \/ last = "none" /\ ~fellBack /\ Return("image_error") /\ UNCHANGED shown
     \/ Return("model_error") /\ shown' = AllAnswered
  /\ errorsShown' = errorsShown + 1
  /\ UNCHANGED <<config, stateVars, responseVars, executorVars, aborted, left, ghostVars>>

\* The stream ends, at once when the query was aborted.
StreamEnds ==
  /\ pc = "stream"
  /\ last # "none" \/ aborted
  /\ \/ /\ aborted
        /\ IF config.streaming
             THEN pc' = "drain" /\ UNCHANGED <<reason, shown>>
             ELSE Return("aborted_streaming") /\ shown' = AllAnswered
        /\ UNCHANGED phase
     \/ /\ ~aborted /\ uses = {}
        /\ pc' = "decide"
        /\ UNCHANGED <<reason, shown, phase>>
     \/ /\ ~aborted /\ uses # {}
        /\ pc' = "tools"
        /\ phase' = IF config.streaming THEN phase
                    ELSE [i \in Slots |-> IF i \in uses THEN "pending" ELSE "absent"]
        /\ UNCHANGED <<reason, shown>>
  /\ UNCHANGED <<config, stateVars, responseVars, mode, aborted, errorsShown, left,
                 ghostVars>>

\* The executor has reported everything after an abort.
\* (mutant: the answers that are missing are not waited for)
DrainEndsEarly ==
  /\ pc = "drain"
  /\ Return("aborted_streaming")
  /\ UNCHANGED <<config, stateVars, responseVars, executorVars, aborted, seenVars, left,
                 ghostVars>>

DrainEnds ==
  /\ pc = "drain"
  /\ Executor!Close
  /\ Return("aborted_streaming")
  /\ UNCHANGED <<config, stateVars, responseVars, aborted, seenVars, left, ghostVars>>

-----------------------------------------------------------------------------
(* The model called no tool: recover from its error, or stop.              *)

\* The next iteration begins with the State that the step gives.
Continue ==
  /\ pc' = "setup"
  /\ incoming' = None /\ last' = "none" /\ uses' = {} /\ fellBack' = FALSE
  /\ results' = Zero /\ shown' = Zero /\ errorsShown' = 0
  /\ phase' = Fresh /\ mode' = "open"
  /\ late' = {}
  /\ spoiled' = spoiled \cup Flaws(uses, shown)
  /\ UNCHANGED <<config, reason, aborted>>

\* The error is not recovered from.  One that was withheld is yielded.
Surface(why) ==
  /\ Return(why)
  /\ errorsShown' = IF Withheld(last) THEN errorsShown + 1 ELSE errorsShown
  /\ UNCHANGED <<config, stateVars, responseVars, executorVars, aborted, shown, left,
                 ghostVars>>

CanDrain ==
  /\ last = "long" /\ config.collapse
  /\ ~drainedLast
  /\ left.drains > 0

\* The staged collapses of the context are drained: recoverFromOverflow.
CollapseDrain ==
  /\ pc = "decide"
  /\ CanDrain
  /\ left' = [left EXCEPT !.drains = @ - 1]
  /\ Continue
  /\ overridden' = FALSE /\ drainedLast' = TRUE
  /\ stalled' = stalled + 1
  /\ UNCHANGED <<turnCount, recoveryCount, hasAttemptedReactiveCompact, failures, tracker,
                 failedRuns>>

\* Whether it would commit anything is not known to the loop.
AfterDrain == last = "media" \/ (last = "long" /\ (config.collapse => drainedLast \/ left.drains = 0))

BeginReactiveCompact ==
  /\ pc = "decide"
  /\ AfterDrain /\ config.reactive
  /\ pc' = "compacting"
  /\ UNCHANGED <<config, reason, stateVars, responseVars, executorVars, aborted, seenVars,
                 left, ghostVars>>

\* tryReactiveCompact succeeds: it does so once between answers.
ReactiveCompact ==
  /\ pc = "compacting"
  /\ ~hasAttemptedReactiveCompact
  /\ Continue
  /\ hasAttemptedReactiveCompact' = TRUE
  /\ overridden' = FALSE /\ drainedLast' = FALSE
  /\ failures' = 0 /\ failedRuns' = 0
  /\ stalled' = stalled + 1
  /\ UNCHANGED <<turnCount, recoveryCount, tracker, left>>

ReactiveCompactFails ==
  /\ pc = "compacting"
  /\ Surface(IF last = "media" THEN "image_error" ELSE "prompt_too_long")

\* Nothing but the collapse could have recovered.
SurfaceTooLong ==
  /\ pc = "decide"
  /\ AfterDrain /\ last = "long"
  /\ config.collapse /\ ~config.reactive
  /\ Surface("prompt_too_long")

CanEscalate == config.escalate /\ ~overridden

\* The request is made again with the limit raised.
Escalate ==
  /\ pc = "decide" /\ last = "max"
  /\ CanEscalate
  /\ Continue
  /\ overridden' = TRUE /\ drainedLast' = FALSE
  /\ stalled' = stalled + 1
  /\ UNCHANGED <<turnCount, recoveryCount, hasAttemptedReactiveCompact, failures, tracker,
                 left, failedRuns>>

\* The model is asked to resume.
\* (mutant: the count is not carried on)
RecoverForever ==
  /\ pc = "decide" /\ last = "max"
  /\ ~CanEscalate
  /\ recoveryCount < MAX_OUTPUT_TOKENS_RECOVERY_LIMIT
  /\ Continue
  /\ overridden' = FALSE /\ drainedLast' = FALSE
  /\ stalled' = IF stalled < 20 THEN stalled + 1 ELSE stalled
  /\ UNCHANGED <<turnCount, recoveryCount, hasAttemptedReactiveCompact, failures, tracker,
                 left, failedRuns>>

Recover ==
  /\ pc = "decide" /\ last = "max"
  /\ ~CanEscalate
  /\ recoveryCount < MAX_OUTPUT_TOKENS_RECOVERY_LIMIT
  /\ Continue
  /\ recoveryCount' = recoveryCount + 1
  /\ overridden' = FALSE /\ drainedLast' = FALSE
  /\ stalled' = stalled + 1
  /\ UNCHANGED <<turnCount, hasAttemptedReactiveCompact, failures, tracker, left,
                 failedRuns>>

\* An error without a recovery, or whose recoveries are used up, ends the query
\* before any stop hook.
\* (mutant: the error that was withheld is not yielded)
ApiErrorUnseen ==
  /\ pc = "decide" /\ last \in Errors
  /\ last = "max" => ~CanEscalate /\ recoveryCount >= MAX_OUTPUT_TOKENS_RECOVERY_LIMIT
  /\ last = "long" => ~config.collapse /\ ~config.reactive
  /\ last = "media" => ~config.reactive
  /\ Return("completed")
  /\ UNCHANGED <<config, stateVars, responseVars, executorVars, aborted, seenVars, left,
                 ghostVars>>

ApiError ==
  /\ pc = "decide" /\ last \in Errors
  /\ last = "max" => ~CanEscalate /\ recoveryCount >= MAX_OUTPUT_TOKENS_RECOVERY_LIMIT
  /\ last = "long" => ~config.collapse /\ ~config.reactive
  /\ last = "media" => ~config.reactive
  /\ Surface("completed")

\* handleStopHooks begins.
StopHooks ==
  /\ pc = "decide" /\ last = "answer"
  /\ pc' = "hooks"
  /\ UNCHANGED <<config, reason, stateVars, responseVars, executorVars, aborted, seenVars,
                 left, ghostVars>>

\* A hook prevents the continuation, or the abort does.
HooksPrevent ==
  /\ pc = "hooks"
  /\ Return("stop_hook_prevented")
  /\ UNCHANGED <<config, stateVars, responseVars, executorVars, aborted, seenVars, left,
                 ghostVars>>

\* A hook blocks: the model is told why.  That the context was compacted is
\* remembered.
HooksBlock ==
  /\ pc = "hooks"
  /\ left.blocks > 0
  /\ left' = [left EXCEPT !.blocks = @ - 1]
  /\ Continue
  /\ recoveryCount' = 0
  /\ overridden' = FALSE /\ drainedLast' = FALSE
  /\ stalled' = 0
  /\ UNCHANGED <<turnCount, hasAttemptedReactiveCompact, failures, tracker, failedRuns>>

\* checkTokenBudget: the model is to go on unless it was told so three times and
\* its last two responses were small.
\* (mutant: how often it was told is not counted)
NudgesUncounted(small) == left.large > 0 \/ small

Nudges(small) ==
  /\ left.large > 0 \/ small
  /\ ~(tracker.count >= 3 /\ small /\ tracker.lastSmall)

Nudge(small) ==
  /\ pc = "hooks" /\ config.budget
  /\ Nudges(small)
  /\ tracker' = [count |-> IF tracker.count < 3 THEN tracker.count + 1 ELSE 3,
                 lastSmall |-> small]
  /\ left' = IF small THEN left ELSE [left EXCEPT !.large = @ - 1]
  /\ Continue
  /\ recoveryCount' = 0 /\ hasAttemptedReactiveCompact' = FALSE
  /\ overridden' = FALSE /\ drainedLast' = FALSE
  /\ stalled' = 0
  /\ UNCHANGED <<turnCount, failures, failedRuns>>

\* The hooks pass, and no budget is left or its returns are diminishing.
Complete ==
  /\ pc = "hooks"
  /\ config.budget => \E small \in BOOLEAN : ~Nudges(small)
  /\ Return("completed")
  /\ UNCHANGED <<config, stateVars, responseVars, executorVars, aborted, seenVars, left,
                 ghostVars>>

-----------------------------------------------------------------------------
(* The model called tools.                                                 *)

\* Every result was reported.  The query ends if it was aborted or a hook of a
\* tool says so.
ToolsEnd ==
  /\ pc = "tools"
  /\ Executor!Close
  /\ \/ aborted /\ Return("aborted_tools")
     \/ ~aborted /\ Return("hook_stopped")
     \/ ~aborted /\ pc' = "attach" /\ UNCHANGED reason
  /\ UNCHANGED <<config, stateVars, responseVars, aborted, seenVars, left, ghostVars>>

\* Attachments are added; the next turn begins, or there are enough of them.
MaxTurnsReached ==
  /\ pc = "attach"
  /\ turnCount + 1 > MaxTurns
  /\ Return("max_turns")
  /\ UNCHANGED <<config, stateVars, responseVars, executorVars, aborted, seenVars, left,
                 ghostVars>>

NextTurn ==
  /\ pc = "attach"
  /\ turnCount + 1 =< MaxTurns
  /\ turnCount' = turnCount + 1
  /\ Continue
  /\ recoveryCount' = 0 /\ hasAttemptedReactiveCompact' = FALSE
  /\ overridden' = FALSE /\ drainedLast' = FALSE
  /\ stalled' = 0
  /\ UNCHANGED <<failures, tracker, left, failedRuns>>

\* The user aborts.
Abort ==
  /\ pc # "done"
  /\ ~aborted
  /\ aborted' = TRUE
  /\ UNCHANGED <<config, pc, reason, stateVars, responseVars, executorVars, seenVars,
                 left, ghostVars>>

-----------------------------------------------------------------------------
Response ==
  \/ \E sort \in Errors \cup {"answer"}, n \in 0..MaxTools : Receive(sort, n)
  \/ SwitchModel \/ ModelThrows \/ StreamEnds

Decision ==
  \/ CollapseDrain \/ BeginReactiveCompact \/ ReactiveCompact \/ ReactiveCompactFails
  \/ SurfaceTooLong \/ Escalate \/ Recover \/ ApiError
  \/ StopHooks \/ HooksPrevent \/ HooksBlock \/ Complete
  \/ \E small \in BOOLEAN : Nudge(small)

\* Steps of the loop itself, with the model's and the hooks' part in them.
LoopStep ==
  \/ Setup \/ BlockingLimit \/ Response \/ Push \/ ScanEnds
  \/ DrainEnds \/ Decision \/ ToolsEnd \/ MaxTurnsReached \/ NextTurn

Next ==
  \/ LoopStep
  \/ \E i \in Slots : Answer(i) \/ Report(i)
  \/ FallBack \/ Abort

Spec == Init /\ [][Next]_vars

\* The model, the tools and the hooks answer, the loop's consumer goes on, and a
\* response has finitely many blocks.
FairSpec ==
  /\ Spec
  /\ WF_vars(LoopStep) /\ SF_vars(StreamEnds)
  /\ \A i \in Slots : WF_vars(Answer(i)) /\ WF_vars(Report(i))
-----------------------------------------------------------------------------
(* Properties.                                                             *)

\* The variables keep their types, and a query that is done has one reason.
TypeOK ==
  /\ config \in Configs
  /\ pc \in {"setup", "stream", "push", "scan", "drain", "decide", "compacting", "hooks",
             "tools", "attach", "done"}
  /\ pc = "done" <=> reason # "none"
  /\ turnCount \in 1..MaxTurns
  /\ recoveryCount \in 0..MAX_OUTPUT_TOKENS_RECOVERY_LIMIT
  /\ hasAttemptedReactiveCompact \in BOOLEAN
  /\ overridden \in BOOLEAN /\ drainedLast \in BOOLEAN
  /\ fellBack \in BOOLEAN /\ aborted \in BOOLEAN
  /\ failures \in Nat
  /\ tracker \in [count : 0..3, lastSmall : BOOLEAN]
  /\ incoming \in [sort : Errors \cup {"answer", "none"}, tools : 0..MaxTools]
  /\ last \in Errors \cup {"answer", "none"}
  /\ uses \subseteq Slots /\ late \subseteq uses
  /\ results \in [Slots -> Nat] /\ shown \in [Slots -> Nat]
  /\ phase \in [Slots -> {"absent", "pending", "answered", "reported"}]
  /\ mode \in {"open", "closed"}
  /\ errorsShown \in 0..1
  /\ spoiled \subseteq {"unanswered", "twice", "orphan"}
  /\ stalled \in Nat /\ failedRuns \in Nat

\* The next request holds exactly one tool_result for each tool_use, however the
\* response came about: the API refuses any other.
NextRequestPaired ==
  pc = "attach" => \A i \in Slots : results[i] = (IF i \in uses THEN 1 ELSE 0)

CallFlaws == spoiled \cup (IF pc = "done" THEN Flaws(uses, shown) ELSE {})

\* The consumer gets a result for every call it was shown, "without this, tool_use
\* blocks would lack matching tool_result blocks": through abort, fallback and
\* failure.  Only calls that arrive when the query is aborted already, and are
\* not handed to the executor, stay without one.  It gets one result only, unless an
\* attempt failed whose calls are answered in bulk, and none without its call, unless
\* a stream fell back.
CallsAnswered ==
  /\ "unanswered" \in CallFlaws => late # {}
  /\ "twice" \in CallFlaws =>
       left.switches < Limits[config].switches \/ reason = "model_error"
  /\ "orphan" \in CallFlaws => left.fallbacks < Limits[config].fallbacks

\* An error of the API that ends the query is shown once, whether it was
\* withheld or not.
ErrorShownOnce ==
  pc = "done" /\ last \in Errors /\ uses = {} /\ reason # "aborted_streaming" =>
    errorsShown = 1

\* However the recoveries follow one another, there are few before the model
\* answers or the query ends: three to resume, one compaction, the drains, and
\* one raise of the limit before and after each of them.  And the count of failed
\* compactions is carried through every way to continue, "Without this, sessions
\* where context is irrecoverably over the limit hammer the API with doomed compaction
\* attempts on every turn".
RecoveriesBounded ==
  /\ stalled =< 2 * (3 + 1 + Limits[config].drains) + 1
  /\ failedRuns =< MAX_CONSECUTIVE_AUTOCOMPACT_FAILURES

\* The query ends, although errors, compactions, blocking hooks and budget
\* continuations each start another iteration.
Terminates == <>(pc = "done")
=============================================================================
