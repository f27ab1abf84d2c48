--------------------------- MODULE BatchExecution ---------------------------
(***************************************************************************)
(* StreamingToolExecutor.execute_batch with partition_tool_calls           *)
(* (runtime/execution/tool_partition.py): the tool calls of a finished     *)
(* message are cut into batches, and the batches run one after the other.  *)
(*                                                                         *)
(* A call is its position in the message.  A batch of safe calls runs in   *)
(* tasks of its own behind a semaphore, gathered by execute_batch; an      *)
(* exclusive call runs in the task of execute_batch itself.                *)
(***************************************************************************)
EXTENDS Integers, Sequences, FiniteSets, Functions

CONSTANTS
  MaxCalls,       \* bound: the longest message
  Permits,        \* max_concurrent, the permits of each batch
  IdRank,         \* the rank of a call's id in the order of strings
  Cancels         \* who raises CancelledError: the "caller", a "tool" or both

ASSUME MaxCallsAssumption == MaxCalls \in Nat
ASSUME BatchPermitsAssumption == Permits \in Nat \ {0}
ASSUME IdsAssumption ==
  /\ IdRank \in [1 .. MaxCalls -> Int]
  /\ \A i, j \in 1 .. MaxCalls : IdRank[i] = IdRank[j] => i = j
ASSUME CancelsAssumption == Cancels \subseteq {"caller", "tool"}

VARIABLES
  kind,     \* what each call's tool is: "safe", "exclusive" or "unknown" (no definition)
  placed,   \* the calls that partition_tool_calls has walked over
  open,     \* current_safe_batch
  batches,  \* the batches of the partition so far
  batchNo,  \* the batch in progress, 0 before the first
  stage,    \* how far a call has got
  asked,    \* the calls whose task was asked to cancel
  results,  \* all_results: the calls answered
  main      \* execute_batch: it partitions, runs, returned or raised CancelledError

partVars == <<placed, open, batches>>
batchVars == <<kind, partVars, batchNo, stage, asked, results, main>>

Kinds == {"safe", "exclusive", "unknown"}
Calls == DOMAIN kind
Answered == {"ok", "error"}
Ended == Answered \cup {"cancelled"}
CallStages == {"none", "queued", "running"} \cup Ended

BatchInit ==
  /\ \E n \in 0 .. MaxCalls : kind \in [1 .. n -> Kinds]
  /\ placed = 0 /\ open = <<>> /\ batches = <<>>
  /\ batchNo = 0
  /\ stage = [c \in Calls |-> "none"]
  /\ asked = {}
  /\ results = <<>>
  /\ main = "partitions"

-----------------------------------------------------------------------------
(* partition_tool_calls                                                    *)

\* An unknown tool has no object to ask and counts as not safe.
IsConcurrentSafe(c) == kind[c] = "safe"

\* The open batch of safe calls is appended if there is one.
Flushed == IF open = <<>> THEN batches ELSE Append(batches, open)

\* A safe call joins the open batch, any other gets a batch to itself.
Place ==
  LET c == placed + 1 IN
  /\ main = "partitions" /\ c \in Calls
  /\ \/ IsConcurrentSafe(c) /\ open' = Append(open, c) /\ UNCHANGED batches
     \/ ~IsConcurrentSafe(c) /\ batches' = Append(Flushed, <<c>>) /\ open' = <<>>
  /\ placed' = c
  /\ UNCHANGED <<kind, batchNo, stage, asked, results, main>>

\* (mutant: the last open batch is lost)
EndPartitionUnflushed ==
  /\ main = "partitions" /\ placed = Len(kind)
  /\ batches' = batches /\ open' = <<>>
  /\ main' = "runs"
  /\ UNCHANGED <<kind, placed, batchNo, stage, asked, results>>

EndPartition ==
  /\ main = "partitions" /\ placed = Len(kind)
  /\ batches' = Flushed /\ open' = <<>>
  /\ main' = "runs"
  /\ UNCHANGED <<kind, placed, batchNo, stage, asked, results>>

-----------------------------------------------------------------------------
(* execute_batch                                                           *)

Batch == IF batchNo \in DOMAIN batches THEN batches[batchNo] ELSE <<>>
InBatch == Range(Batch)
Gathered == \A c \in InBatch : IsConcurrentSafe(c)

\* An exclusive call whose tool has no definition is answered without an await.
FirstStage(c) ==
  CASE kind[c] = "safe" -> "queued"
    [] kind[c] = "exclusive" -> "running"
    [] kind[c] = "unknown" -> "error"

\* (mutant: the next batch does not wait for the last one)
BatchDoneEarly == \A c \in InBatch : stage[c] # "queued"

\* All the calls of the batch have a result: gather, or the serial loop, is through.
BatchDone == \A c \in InBatch : stage[c] \in Answered

\* The results of the batch are added, and the next batch starts.
NextBatch ==
  /\ main = "runs" /\ BatchDone /\ ~(asked # {} /\ Gathered)
  /\ batchNo < Len(batches)
  /\ batchNo' = batchNo + 1
  /\ results' = results \o Batch
  /\ stage' = [c \in Calls |->
                 IF c \in Range(batches[batchNo + 1]) THEN FirstStage(c) ELSE stage[c]]
  /\ asked' = {}
  /\ UNCHANGED <<kind, partVars, main>>

\* The orders of a sequence in which the ids ascend.
SortedById(s) ==
  {r \in {[k \in DOMAIN s |-> s[p[k]]] : p \in Bijection(DOMAIN s, DOMAIN s)} :
     \A k, l \in DOMAIN r : k < l => IdRank[r[k]] =< IdRank[r[l]]}

\* After the last batch the results are sorted by tool_id.
Return ==
  /\ main = "runs" /\ BatchDone /\ ~(asked # {} /\ Gathered)
  /\ batchNo = Len(batches)
  /\ results' \in SortedById(results \o Batch)
  /\ main' = "returned"
  /\ UNCHANGED <<kind, partVars, batchNo, stage, asked>>

-----------------------------------------------------------------------------
PermitLeft == Cardinality({c \in InBatch : stage[c] = "running"}) < Permits

Enter(c) ==
  /\ stage[c] = "queued" /\ c \notin asked
  /\ PermitLeft
  /\ stage' = [stage EXCEPT ![c] = "running"]
  /\ UNCHANGED <<kind, partVars, batchNo, asked, results, main>>

\* The tool answers or raises an Exception; a tool asked to cancel may still do so.
Finish(c) ==
  /\ stage[c] = "running"
  /\ \E end \in Answered : stage' = [stage EXCEPT ![c] = end]
  /\ UNCHANGED <<kind, partVars, batchNo, asked, results, main>>

\* CancelledError leaves the call, because its task was asked to cancel or by the
\* tool's own doing.  The first one ends gather, or the serial loop, and so
\* execute_batch; the other tasks of the batch are left to themselves.
CancelledOut(c) ==
  /\ \/ c \in asked /\ stage[c] \in {"queued", "running"}
     \/ "tool" \in Cancels /\ stage[c] = "running"
  /\ stage' = [stage EXCEPT ![c] = "cancelled"]
  /\ main' = IF main = "runs" THEN "raised" ELSE main
  /\ UNCHANGED <<kind, partVars, batchNo, asked, results>>

\* The task that awaits execute_batch is cancelled: gather passes it on to the
\* calls of the batch that have not ended.  If all have, and execute_batch has
\* not resumed yet, it resumes with the CancelledError.
CancelCaller ==
  LET outstanding == {c \in InBatch : stage[c] \in {"queued", "running"}} IN
  /\ "caller" \in Cancels /\ main = "runs" /\ asked = {} /\ batchNo > 0
  /\ \/ outstanding # {} /\ asked' = outstanding /\ UNCHANGED main
     \/ outstanding = {} /\ Gathered /\ main' = "raised" /\ UNCHANGED asked
  /\ UNCHANGED <<kind, partVars, batchNo, stage, results>>

\* gather was cancelled and no child was: it raises when the last one is done.
GatherCancelled ==
  /\ main = "runs" /\ BatchDone /\ asked # {} /\ Gathered
  /\ main' = "raised"
  /\ UNCHANGED <<kind, partVars, batchNo, stage, asked, results>>

BatchNext ==
  \/ Place \/ EndPartition
  \/ NextBatch \/ Return \/ CancelCaller \/ GatherCancelled
  \/ \E c \in Calls : Enter(c) \/ Finish(c) \/ CancelledOut(c)

BatchSpec == BatchInit /\ [][BatchNext]_batchVars

-----------------------------------------------------------------------------
(* Properties.                                                             *)

\* The variables keep their types, and a batch its permits.
BatchTypeOK ==
  /\ kind \in Seq(Kinds) /\ Len(kind) =< MaxCalls
  /\ placed \in 0 .. Len(kind)
  /\ open \in Seq(Calls) /\ batches \in Seq(Seq(Calls))
  /\ batchNo \in 0 .. Len(batches)
  /\ stage \in [Calls -> CallStages]
  /\ asked \subseteq Calls
  /\ results \in Seq(Calls)
  /\ main \in {"partitions", "runs", "returned", "raised"}
  /\ Cardinality({c \in InBatch : stage[c] = "running"}) =< Permits

\* An exclusive call is a barrier in the order of the message: it starts after
\* every earlier call has ended, and every later call starts after it has; no
\* failure and no cancellation lets a later call slip past.
ExclusiveIsBarrier ==
  \A i, j \in Calls :
    i < j /\ (~IsConcurrentSafe(i) \/ ~IsConcurrentSafe(j)) /\ stage[j] # "none"
      => stage[i] \in Ended

\* What execute_batch returns answers every call of the message once, and no
\* call is still running by then.
ReturnsAnswers ==
  main = "returned" =>
    /\ \A c \in Calls : stage[c] \in Answered
    /\ Len(results) = Len(kind) /\ Range(results) = Calls

=============================================================================
