---------------------------- MODULE ToolExecutor ----------------------------
(***************************************************************************)
(* StreamingToolExecutor (src/claude/services/tools/                       *)
(* StreamingToolExecutor.ts): the tool calls of one model response, added  *)
(* while the response streams in, executed with concurrency control, and   *)
(* collected by the query loop during and after the stream.                *)
(*                                                                         *)
(* Node runs one piece of code at a time: a step is the code between two   *)
(* awaits or yields.  What waits for a promise that is already resolved is *)
(* a microtask: microtasks interleave, and all of them run before the next *)
(* I/O event is delivered (Quiet).                                         *)
(***************************************************************************)
EXTENDS Integers, FiniteSets, Sequences

CONSTANTS
  MaxTools,     \* tool calls of the response, numbered as they arrive
  Kinds,        \* for each slot, what the call can be: records of KindType
  MaxProgress,  \* bound on the progress messages of all tools
  Stops         \* ways to stop: "interrupt", "cancel", "reject", "discard"

\* Whether a definition has the name, whether the call is concurrency-safe, is a
\* Bash call, may be interrupted, and whether its input is invalid, so that it
\* ends without any I/O.
KindType == [known : BOOLEAN, safe : BOOLEAN, bash : BOOLEAN, cancel : BOOLEAN,
             quick : BOOLEAN]

ASSUME BoundsAssumption == MaxTools \in Nat \ {0} /\ MaxProgress \in Nat
\* A call without a definition counts as safe and never executes; one with
\* invalid input never counts as safe.
ASSUME KindsAssumption ==
  /\ Kinds \in [1..MaxTools -> SUBSET KindType]
  /\ \A i \in 1..MaxTools : \A k \in Kinds[i] : (~k.known => k.safe) /\ (k.quick => ~k.safe)
ASSUME StopsAssumption == Stops \subseteq {"interrupt", "cancel", "reject", "discard"}

Slots == 1..MaxTools

VARIABLES
  kinds,      \* the calls in this.tools
  status,     \* of each slot: a ToolStatus, or "absent"
  body,       \* collectResults: "none", "io" (in the tool) or "settled"
  updates,    \* what runToolUse has produced and collectResults not consumed
  progressed, \* progress messages the tools have produced
  progress,   \* pendingProgress
  results,    \* the messages of a tool, by sort
  errored,    \* thisToolErrored
  hasErrored, discarded,
  aborted,    \* toolUseContext.abortController: "no", "interrupt" or "cancel"
  interruptible, \* setHasInterruptibleToolInProgress
  pass,       \* where each pass of processQueue will go on, 0 if it has ended
  consumer,   \* the query loop: what it does with this executor
  scan,       \* where getCompletedResults will go on
  raced,      \* the tools whose promises getRemainingResults waits for
  delivered   \* the calls whose results were yielded, in order

toolVars == <<kinds, status, body, updates, progressed, progress, results, errored>>
stopVars == <<hasErrored, discarded, aborted>>
consumerVars == <<consumer, scan, raced, delivered>>
vars == <<toolVars, stopVars, interruptible, pass, consumerVars>>

Added == DOMAIN kinds
Executing == {i \in Added : status[i] = "executing"}
HasCompletedResults == \E i \in Added : status[i] = "completed"
HasPendingProgress == \E i \in Added : progress[i] > 0
HasUnfinishedTools == \E i \in Added : status[i] # "yielded"

First(S) == CHOOSE i \in S : \A j \in S : i =< j

\* Passes of processQueue: one begun by each addTool, one by each end of a
\* tool, and the one getRemainingResults awaits.
Passes == {"add", "done"} \X Slots \cup {<<"collect", 0>>}
Collect == <<"collect", 0>>

\* No microtask is left to run, so the event loop can deliver I/O.  A scan that
\* is not at its end is suspended at a yield to the reader of the messages.
Quiet ==
  /\ \A p \in Passes : pass[p] = 0
  /\ \A i \in Added : updates[i] = <<>> /\ body[i] # "settled"
  /\ consumer \notin {"loop", "pass"}

Init ==
  /\ kinds = <<>>
  /\ status = [i \in Slots |-> "absent"]
  /\ body = [i \in Slots |-> "none"]
  /\ updates = [i \in Slots |-> <<>>]
  /\ progressed = 0
  /\ progress = [i \in Slots |-> 0]
  /\ results = [i \in Slots |-> <<>>]
  /\ errored = [i \in Slots |-> FALSE]
  /\ hasErrored = FALSE
  /\ discarded = FALSE
  /\ aborted = "no"
  /\ interruptible = FALSE
  /\ pass = [p \in Passes |-> 0]
  /\ consumer = "stream"
  /\ scan = 0
  /\ raced = {}
  /\ delivered = <<>>

-----------------------------------------------------------------------------
(* Starting and ending tools.                                              *)

\* getAbortReason: why a tool should be cancelled, or "none".
AbortReason(k) ==
  IF discarded THEN "fallback"
  ELSE IF hasErrored THEN "sibling"
  ELSE IF aborted = "cancel" \/ (aborted = "interrupt" /\ k.cancel) THEN "interrupted"
  ELSE "none"

\* updateInterruptibleState, with the statuses of ks and st.
Interruptible(ks, st) ==
  LET executing == {i \in DOMAIN ks : st[i] = "executing"} IN
  executing # {} /\ \A i \in executing : ks[i].cancel

\* canExecuteTool, for the i-th of the calls ks with statuses st.
\* (mutant: a safe tool joins whatever executes)
CanExecuteSafe(ks, st, i) ==
  ks[i].safe \/ \A j \in DOMAIN ks : st[j] # "executing"

CanExecute(ks, st, i) ==
  LET executing == {j \in DOMAIN ks : st[j] = "executing"} IN
  executing = {} \/ (ks[i].safe /\ \A j \in executing : ks[j].safe)

\* (mutant: an exclusive tool that cannot execute yet does not end the pass)
NextStartBeyond(ks, st, n) ==
  LET able == {i \in n..Len(ks) : st[i] = "queued" /\ CanExecute(ks, st, i)} IN
  IF able # {} THEN First(able) ELSE 0

\* The tool a pass starts when it goes on at position n, 0 if it ends: the next
\* queued tool that can execute, unless an exclusive one that cannot is before.
NextStart(ks, st, n) ==
  LET queued == {i \in n..Len(ks) : st[i] = "queued"}
      able == {i \in queued : CanExecute(ks, st, i)}
      stops == able \cup {i \in queued : ~ks[i].safe} IN
  IF stops # {} /\ First(stops) \in able THEN First(stops) ELSE 0

\* Pass p of processQueue goes on at position n over the calls ks with statuses
\* st: it ends, or starts a tool and is suspended.  A tool that is to be
\* cancelled is completed at once with a synthetic result; the end of its
\* promise begins a pass.
RunPass(p, n, ks, st) ==
  LET i == NextStart(ks, st, n) IN
  IF i = 0
    THEN /\ status' = st
         /\ pass' = [pass EXCEPT ![p] = 0]
         /\ UNCHANGED <<body, results, interruptible>>
    ELSE IF AbortReason(ks[i]) # "none"
      THEN /\ status' = [st EXCEPT ![i] = "completed"]
           /\ results' = [results EXCEPT ![i] = <<AbortReason(ks[i])>>]
           /\ pass' = [pass EXCEPT ![p] = i + 1, ![<<"done", i>>] = 1]
           /\ interruptible' = Interruptible(ks, status')
           /\ UNCHANGED body
      ELSE /\ status' = [st EXCEPT ![i] = "executing"]
           /\ body' = [body EXCEPT ![i] = "io"]
           /\ pass' = [pass EXCEPT ![p] = i + 1]
           /\ interruptible' = Interruptible(ks, status')
           /\ UNCHANGED results

\* addTool.  The query loop adds no tool once it sees the abort.
AddTool(k) ==
  LET i == Len(kinds) + 1
      ks == Append(kinds, k) IN
  /\ consumer = "stream"
  /\ aborted = "no"
  /\ i \in Slots /\ k \in Kinds[i]
  /\ kinds' = ks
  /\ \/ /\ ~k.known
        /\ status' = [status EXCEPT ![i] = "completed"]
        /\ results' = [results EXCEPT ![i] = <<"error">>]
        /\ UNCHANGED <<body, interruptible, pass>>
     \/ /\ k.known
        /\ RunPass(<<"add", i>>, 1, ks, [status EXCEPT ![i] = "queued"])
  /\ UNCHANGED <<updates, progressed, progress, errored, stopVars, consumerVars>>

ResumePass(p) ==
  /\ pass[p] # 0
  /\ RunPass(p, pass[p], kinds, status)
  /\ UNCHANGED <<kinds, updates, progressed, progress, errored, stopVars, consumerVars>>

-----------------------------------------------------------------------------
(* A tool that executes.                                                   *)

Produce(i, more) == updates' = [updates EXCEPT ![i] = @ \o more]

\* The tool reports progress.
Progress(i) ==
  /\ body[i] = "io" /\ ~kinds[i].quick
  /\ Quiet
  /\ progressed < MaxProgress
  /\ progressed' = progressed + 1
  /\ Produce(i, <<"progress">>)
  /\ UNCHANGED <<kinds, status, body, progress, results, errored, stopVars,
                 interruptible, pass, consumerVars>>

\* checkPermissionsAndCallTool ends: all its messages are there at once, a
\* tool_result and perhaps a hook's message after it.
Settle(i) ==
  /\ body[i] = "io"
  /\ body' = [body EXCEPT ![i] = "settled"]
  /\ \/ /\ kinds[i].quick
        /\ Produce(i, <<"error">>)
     \/ /\ ~kinds[i].quick
        /\ Quiet
        /\ \E sort \in {"ok", "error"}, more \in {<<>>, <<"note">>} :
             Produce(i, <<sort>> \o more)
  /\ UNCHANGED <<kinds, status, progressed, progress, results, errored, stopVars,
                 interruptible, pass, consumerVars>>

\* The user rejects the tool's permission dialog: its abort controller aborts,
\* and the listener aborts the query.
Reject(i) ==
  /\ "reject" \in Stops
  /\ body[i] = "io" /\ ~kinds[i].quick
  /\ Quiet
  /\ ~hasErrored /\ ~discarded /\ aborted = "no"
  /\ aborted' = "cancel"
  /\ UNCHANGED <<toolVars, hasErrored, discarded, interruptible, pass, consumerVars>>

\* collectResults is over: the results are kept, the tool is completed, and the
\* end of its promise begins a pass.
\* (mutant: the interruptible state is not brought up to date)
CompleteQuietly(i, rs) ==
  /\ status' = [status EXCEPT ![i] = "completed"]
  /\ body' = [body EXCEPT ![i] = "none"]
  /\ updates' = [updates EXCEPT ![i] = <<>>]
  /\ results' = [results EXCEPT ![i] = rs]
  /\ pass' = [pass EXCEPT ![<<"done", i>>] = 1]
  /\ UNCHANGED <<kinds, progressed, hasErrored, interruptible>>

Complete(i, rs) ==
  /\ status' = [status EXCEPT ![i] = "completed"]
  /\ body' = [body EXCEPT ![i] = "none"]
  /\ updates' = [updates EXCEPT ![i] = <<>>]
  /\ results' = [results EXCEPT ![i] = rs]
  /\ pass' = [pass EXCEPT ![<<"done", i>>] = 1]
  /\ interruptible' = Interruptible(kinds, status')
  /\ UNCHANGED <<kinds, progressed, hasErrored>>

\* collectResults takes the next update and finds that the tool is to be
\* cancelled: a synthetic result, unless the tool itself produced an error.
\* (mutant: a tool's own error does not count)
MustCancelAny(i) == AbortReason(kinds[i]) # "none"

MustCancel(i) == AbortReason(kinds[i]) # "none" /\ ~errored[i]

ConsumeCancelled(i) ==
  /\ body[i] # "none" /\ updates[i] # <<>>
  /\ MustCancel(i)
  /\ Complete(i, Append(results[i], AbortReason(kinds[i])))
  /\ UNCHANGED <<progress, errored, discarded, aborted, consumerVars>>

\* It takes the next update: progress is kept apart, an error of a Bash call
\* cancels the siblings.
Consume(i) ==
  /\ body[i] # "none" /\ updates[i] # <<>>
  /\ ~MustCancel(i)
  /\ LET sort == Head(updates[i]) IN
     /\ updates' = [updates EXCEPT ![i] = Tail(@)]
     /\ errored' = [errored EXCEPT ![i] = @ \/ sort = "error"]
     /\ hasErrored' = (hasErrored \/ (sort = "error" /\ kinds[i].bash))
     /\ IF sort = "progress"
          THEN progress' = [progress EXCEPT ![i] = @ + 1] /\ UNCHANGED results
          ELSE results' = [results EXCEPT ![i] = Append(@, sort)] /\ UNCHANGED progress
  /\ UNCHANGED <<kinds, status, body, progressed, discarded, aborted, interruptible,
                 pass, consumerVars>>

Finish(i) ==
  /\ body[i] = "settled" /\ updates[i] = <<>>
  /\ Complete(i, results[i])
  /\ UNCHANGED <<progress, errored, discarded, aborted, consumerVars>>

-----------------------------------------------------------------------------
(* The query loop.                                                         *)

\* The user interrupts: "interrupt" is a message submitted meanwhile.
UserAborts(reason) ==
  /\ reason \in Stops
  /\ aborted = "no"
  /\ Quiet
  /\ aborted' = reason
  /\ UNCHANGED <<toolVars, hasErrored, discarded, interruptible, pass, consumerVars>>

\* discard: the response is abandoned for a fallback, the executor is dropped.
Discard ==
  /\ "discard" \in Stops
  /\ consumer = "stream"
  /\ discarded' = TRUE
  /\ consumer' = "dropped"
  /\ UNCHANGED <<toolVars, hasErrored, aborted, interruptible, pass, scan, raced, delivered>>

\* getCompletedResults goes on at n: the next call it yields something of, 0 at
\* its end.  It stops before what follows an exclusive tool that executes.
NextYield(n) ==
  LET some == {i \in n..Len(kinds) : progress[i] > 0 \/ status[i] = "completed"}
      ends == {i \in n..Len(kinds) : status[i] = "executing" /\ ~kinds[i].safe} IN
  IF some # {} /\ First(some) = First(some \cup ends) THEN First(some) ELSE 0

ScanTo(n, here, next) ==
  LET i == NextYield(n) IN
  IF i = 0
    THEN /\ consumer' = next
         /\ scan' = 0
         /\ UNCHANGED <<status, progress, delivered>>
    ELSE /\ consumer' = here
         /\ IF progress[i] > 0
              THEN /\ progress' = [progress EXCEPT ![i] = 0]
                   /\ scan' = i
                   /\ UNCHANGED <<status, delivered>>
              ELSE /\ status' = [status EXCEPT ![i] = "yielded"]
                   /\ delivered' = Append(delivered, i)
                   /\ scan' = i + 1
                   /\ UNCHANGED progress

Unscanned == <<kinds, body, updates, progressed, results, errored, stopVars,
               interruptible, pass>>

\* After a message of the stream: yield what is completed.
StreamScan ==
  /\ \/ /\ consumer = "stream"
        /\ aborted = "no"
        /\ NextYield(1) # 0
        /\ ScanTo(1, "streamScan", "stream")
     \/ /\ consumer = "streamScan"
        /\ ScanTo(scan, "streamScan", "stream")
  /\ UNCHANGED <<Unscanned, raced>>

\* The stream has ended or was aborted: getRemainingResults.
BeginCollect ==
  /\ consumer = "stream"
  /\ consumer' = "loop"
  /\ UNCHANGED <<Unscanned, status, progress, scan, raced, delivered>>

\* The loop of getRemainingResults ends: the scan after it finds nothing, since
\* every call has been yielded.
\* (mutant: it ends when nothing executes)
LoopEndsEarly ==
  /\ consumer = "loop"
  /\ Executing = {}
  /\ consumer' = "returned"
  /\ UNCHANGED <<Unscanned, status, progress, scan, raced, delivered>>

LoopEnds ==
  /\ consumer = "loop"
  /\ ~HasUnfinishedTools
  /\ consumer' = "returned"
  /\ UNCHANGED <<Unscanned, status, progress, scan, raced, delivered>>

\* A turn of the loop begins: it awaits a pass.
LoopPass ==
  /\ consumer = "loop"
  /\ HasUnfinishedTools
  /\ consumer' = "pass"
  /\ RunPass(Collect, 1, kinds, status)
  /\ UNCHANGED <<kinds, updates, progressed, progress, errored, stopVars, scan,
                 raced, delivered>>

\* When nothing is left to yield the loop waits for a tool that executes, or for
\* progress; otherwise it goes round again.
AfterScan ==
  IF Executing # {} /\ ~HasCompletedResults /\ ~HasPendingProgress THEN "wait" ELSE "loop"

\* The awaited pass is over: yield what is completed.
LoopScan ==
  /\ \/ consumer = "pass" /\ pass[Collect] = 0 /\ ScanTo(1, "scan", AfterScan)
     \/ consumer = "scan" /\ ScanTo(scan, "scan", AfterScan)
  /\ raced' = IF consumer' = "wait" THEN Executing ELSE {}
  /\ UNCHANGED Unscanned

\* (mutant: the promises of the tools are not waited for)
WaitEndsOnProgress ==
  /\ consumer = "wait"
  /\ HasPendingProgress
  /\ consumer' = "loop"
  /\ raced' = {}
  /\ UNCHANGED <<Unscanned, status, progress, scan, delivered>>

\* Promise.race: a tool it waits for has ended, or there is progress.
WaitEnds ==
  /\ consumer = "wait"
  /\ HasPendingProgress \/ \E i \in raced : status[i] # "executing"
  /\ consumer' = "loop"
  /\ raced' = {}
  /\ UNCHANGED <<Unscanned, status, progress, scan, delivered>>

-----------------------------------------------------------------------------
ToolStep(i) == Settle(i) \/ ConsumeCancelled(i) \/ Consume(i) \/ Finish(i)

CollectStep == LoopEnds \/ LoopPass \/ LoopScan \/ WaitEnds

Next ==
  \/ \E k \in UNION {Kinds[i] : i \in Slots} : AddTool(k)
  \/ \E p \in Passes : ResumePass(p)
  \/ \E i \in Added : Progress(i) \/ Reject(i) \/ ToolStep(i)
  \/ \E reason \in {"interrupt", "cancel"} : UserAborts(reason)
  \/ Discard \/ StreamScan \/ BeginCollect \/ CollectStep

Spec == Init /\ [][Next]_vars

\* Microtasks run, tools end once I/O is delivered, and the query loop goes on
\* collecting once it began to.
Fairness ==
  /\ \A p \in Passes : WF_vars(ResumePass(p))
  /\ \A i \in Slots : WF_vars(i \in Added /\ ToolStep(i))
  /\ WF_vars(CollectStep)

FairSpec == Spec /\ Fairness
-----------------------------------------------------------------------------
(* Properties.                                                             *)

Answers == {"ok", "error", "sibling", "interrupted", "fallback"}
Sorts == Answers \cup {"note"}

\* The variables keep their types; a tool has a body just while it executes.
TypeOK ==
  /\ kinds \in Seq(KindType) /\ Len(kinds) =< MaxTools
  /\ status \in [Slots -> {"absent", "queued", "executing", "completed", "yielded"}]
  /\ \A i \in Slots : status[i] = "absent" <=> i \notin Added
  /\ body \in [Slots -> {"none", "io", "settled"}]
  /\ \A i \in Slots : body[i] # "none" <=> status[i] = "executing"
  /\ updates \in [Slots -> Seq({"progress", "ok", "error", "note"})]
  /\ progressed \in 0..MaxProgress
  /\ progress \in [Slots -> Nat]
  /\ results \in [Slots -> Seq(Sorts)]
  /\ errored \in [Slots -> BOOLEAN]
  /\ hasErrored \in BOOLEAN /\ discarded \in BOOLEAN
  /\ aborted \in {"no", "interrupt", "cancel"}
  /\ interruptible \in BOOLEAN
  /\ pass \in [Passes -> 0..(MaxTools + 1)]
  /\ consumer \in {"stream", "streamScan", "dropped", "loop", "pass", "scan", "wait",
                   "returned"}
  /\ scan \in 0..(MaxTools + 1)
  /\ raced \subseteq Added
  /\ delivered \in Seq(Added)

\* "Non-concurrent tools must execute alone (exclusive access)": whichever of
\* several suspended passes starts it.
ExclusiveAlone ==
  \A i \in Executing : ~kinds[i].safe => Executing = {i}

ToolResults(i) == {n \in DOMAIN results[i] : results[i][n] \in Answers}

\* A completed call has exactly one tool_result, whatever fails or stops around
\* it: its own or a synthetic one, and no synthetic one beside its own.  (What a
\* discarded executor collects is yielded to nobody.)
ResultForEach ==
  ~discarded =>
    \A i \in Added : status[i] \in {"completed", "yielded"} => Cardinality(ToolResults(i)) = 1

\* The results of an exclusive tool are yielded before those of every tool that
\* was received after it and exists, unless the scan had gone past it while it was
\* queued: it does so only for a missing call behind it, which it yields at once.
ExclusiveYieldedFirst ==
  \A n \in DOMAIN delivered :
    LET j == delivered[n] IN
    kinds[j].known =>
      \A i \in 1..(j - 1) : ~kinds[i].safe =>
        \E m \in 1..(n - 1) :
          \/ delivered[m] = i
          \/ delivered[m] \in (i + 1)..(j - 1) /\ ~kinds[delivered[m]].known

\* The flag that lets a submitted message interrupt the tools says at every
\* await whether all the executing ones may be.
InterruptibleIsAccurate == interruptible = Interruptible(kinds, status)

\* "Wait for remaining tools and yield their results as they complete" (comment
\* of getRemainingResults): the collection ends.
CollectReturns == consumer = "loop" ~> consumer = "returned"

\* A call that does not exist is completed when it is added: behind an exclusive
\* tool that executes, its result can neither be yielded nor be waited for.
Unyieldable ==
  \E i \in Executing : ~kinds[i].safe /\ \E j \in Added : j > i /\ status[j] = "completed"

\* The collection ends unless it meets such a call: however tools end, fail and
\* are cancelled, no wait is for a promise that will not be resolved.
CollectReturnsElse == consumer = "loop" ~> consumer = "returned" \/ Unyieldable

-----------------------------------------------------------------------------
(* What the executor promises the query loop.                              *)

Phase ==
  [i \in Slots |->
     CASE status[i] = "absent" -> "absent"
       [] status[i] \in {"queued", "executing"} -> "pending"
       [] status[i] = "completed" -> "answered"
       [] status[i] = "yielded" -> "reported"]

Mode == IF consumer = "returned" THEN "closed"
        ELSE IF discarded THEN "discarded" ELSE "open"

Abstract == INSTANCE ToolAnswers WITH phase <- Phase, mode <- Mode

\* Each step of the executor is a step of ToolAnswers or none.
ImplementsAnswers == Abstract!Spec
=============================================================================
