--------------------------- MODULE StreamingTools ---------------------------
(***************************************************************************)
(* StreamingToolExecutor (runtime/execution/streaming_executor.py): the    *)
(* component that runs the tool calls of one assistant message while the   *)
(* message is still streaming in.                                          *)
(*                                                                         *)
(* Everything runs on one asyncio event loop.  Each action below is the    *)
(* code between two awaits that can suspend.  Awaits that never suspend    *)
(* are not interleaving points: the put on the unbounded result queue, and *)
(* the lock, which no section holds across a suspending await.             *)
(*                                                                         *)
(* A tool call is a member of Tools; its id is unique, as the ids an LLM   *)
(* assigns to the tool uses of a message are.                              *)
(***************************************************************************)
EXTENDS Integers, FiniteSets, Sequences

CONSTANTS
  Tools,          \* the tool calls of the message
  Safe,           \* those whose definition says is_concurrency_safe
  Unknown,        \* those whose name has no definition (taken as safe)
  MaxConcurrent,  \* max_concurrent, the permits of the semaphore
  AbortSources,   \* which ways of stopping the environment uses
  Collectors,     \* how results are collected: "stream", "wait" or both
  LoopStarts      \* whether add_tool is first called with the event loop running

Exclusive == Tools \ Safe

ASSUME ToolsAssumption == IsFiniteSet(Tools) /\ Safe \subseteq Tools /\ Unknown \subseteq Safe
ASSUME PermitsAssumption == MaxConcurrent \in Nat \ {0}
ASSUME SourcesAssumption == AbortSources \subseteq {"tool", "parent", "discard"}
ASSUME CollectorsAssumption == Collectors \subseteq {"stream", "wait"}
ASSUME LoopAssumption == LoopStarts \subseteq BOOLEAN

VARIABLES
  arrival,     \* position of a tool in self._tools, 0 before add_tool
  status,      \* ToolStatus, or "absent"
  task,        \* where the tool's asyncio task stands
  registered,  \* the keys of self._running_tasks
  cancelReq,   \* tasks whose cancel() was called and not yet delivered
  emitted,     \* the statuses a tool has put on the result queue so far
  unread,      \* the length of the result queue
  hasErrored, discarded,
  aborted,     \* the sibling abort controller is_aborted
  loopUp,      \* an event loop is running
  deferred,    \* history: the tools whose add_tool found no loop to start them in
  consumer,    \* the coroutine that collects results
  gathered     \* the tasks wait_all is gathering

stopVars == <<hasErrored, discarded, aborted>>
loopVars == <<loopUp, deferred>>
consumerVars == <<consumer, gathered>>
toolVars == <<arrival, status, task, registered, cancelReq, emitted, unread>>
vars == <<toolVars, stopVars, loopVars, consumerVars>>

Terminal == {"completed", "error", "discarded"}
Statuses == {"absent", "pending", "running"} \cup Terminal

\* The awaits inside the try block of _execute_tool that run code of others.
Body == {"request", "canuse", "denied", "pre", "call", "post"}
\* The stages in which a task holds a permit of the semaphore.
Holding == Body \cup {"failed"}
Stages == {"none", "created", "sem", "done"} \cup Holding

Live(t) == task[t] \notin {"none", "done"}
Added == {t \in Tools : arrival[t] # 0}
Halted == hasErrored \/ discarded
IsComplete == \A t \in Added : status[t] \in Terminal
HasRunning(st) == \E t \in Tools : st[t] = "running"
Pending(st) == {t \in Tools : st[t] = "pending"}

\* The member of S that was added first (none when S is empty).
First(S) == {t \in S : \A u \in S : arrival[t] =< arrival[u]}

PermitFree == Cardinality({t \in Tools : task[t] \in Holding}) < MaxConcurrent

-----------------------------------------------------------------------------
Init ==
  /\ arrival = [t \in Tools |-> 0]
  /\ status = [t \in Tools |-> "absent"]
  /\ task = [t \in Tools |-> "none"]
  /\ registered = {}
  /\ cancelReq = {}
  /\ emitted = [t \in Tools |-> <<>>]
  /\ unread = 0
  /\ hasErrored = FALSE
  /\ discarded = FALSE
  /\ aborted = FALSE
  /\ loopUp \in LoopStarts
  /\ deferred = {}
  /\ consumer = "idle"
  /\ gathered = {}

-----------------------------------------------------------------------------
(* What the scheduling decisions choose.                                   *)

\* (mutant: an exclusive tool does not wait for running ones)
StartsOnAddAlways(t) == loopUp /\ ~Halted

\* add_tool starts a tool at once: always a safe one, an exclusive one only
\* when nothing is running.  Without a running loop the start is deferred.
StartsOnAdd(t) == loopUp /\ ~Halted /\ (t \in Safe \/ ~HasRunning(status))

\* (mutant: the pass goes on after an exclusive tool)
SchedulableAll ==
  IF Halted THEN {}
  ELSE IF HasRunning(status) THEN Pending(status) \cap Safe
  ELSE Pending(status)

\* _schedule_pending_tools walks the tools in order, starts the pending safe
\* ones and stops at the first pending exclusive one, which it starts only if
\* nothing is running by then.
Schedulable ==
  LET barrier == First(Pending(status) \ Safe)
      ahead == {t \in Pending(status) \cap Safe :
                  \A x \in barrier : arrival[t] < arrival[x]}
  IN IF Halted THEN {}
     ELSE IF ahead = {} /\ ~HasRunning(status) THEN barrier
     ELSE ahead

NextExclusiveLast(st, halted) ==
  IF halted \/ HasRunning(st) THEN {}
  ELSE {t \in Pending(st) \ Safe : \A u \in Pending(st) \ Safe : arrival[u] =< arrival[t]}

\* _try_start_next_non_concurrent: the first pending exclusive tool, once
\* nothing is running in st.
NextExclusive(st, halted) ==
  IF halted \/ HasRunning(st) THEN {} ELSE First(Pending(st) \ Safe)

\* _start_execution of every tool of S: mark_running, create_task, register.
Started(st, S) == [t \in Tools |-> IF t \in S THEN "running" ELSE st[t]]
Spawned(tk, S) == [t \in Tools |-> IF t \in S THEN "created" ELSE tk[t]]

-----------------------------------------------------------------------------
(* Steps of the caller.                                                    *)

AddTool(t) ==
  /\ consumer = "idle"
  /\ arrival[t] = 0
  /\ arrival' = [arrival EXCEPT ![t] = Cardinality(Added) + 1]
  /\ LET start == IF StartsOnAdd(t) THEN {t} ELSE {}
     IN /\ status' = Started([status EXCEPT ![t] = "pending"], start)
        /\ task' = Spawned(task, start)
        /\ registered' = registered \cup start
  /\ deferred' = IF loopUp THEN deferred ELSE deferred \cup {t}
  /\ UNCHANGED <<cancelReq, emitted, unread, stopVars, loopUp, consumerVars>>

\* The caller, synchronous until now, enters the event loop.
StartLoop ==
  /\ ~loopUp
  /\ loopUp' = TRUE
  /\ UNCHANGED <<toolVars, stopVars, deferred, consumerVars>>

\* discard(), which may be called again: pending tools are marked, the tasks
\* still registered and not done are cancelled.
Discard ==
  /\ "discard" \in AbortSources
  /\ discarded' = TRUE
  /\ aborted' = TRUE
  /\ status' = [t \in Tools |-> IF status[t] = "pending" THEN "discarded" ELSE status[t]]
  /\ cancelReq' = cancelReq \cup {t \in registered : Live(t)}
  /\ UNCHANGED <<arrival, task, registered, emitted, unread, hasErrored, loopVars, consumerVars>>

\* The abort controller of the ToolUseContext is aborted: its child follows.
AbortParent ==
  /\ "parent" \in AbortSources
  /\ ~aborted
  /\ aborted' = TRUE
  /\ UNCHANGED <<toolVars, hasErrored, discarded, loopVars, consumerVars>>

-----------------------------------------------------------------------------
(* Steps of a tool's task.                                                 *)

\* (mutant: the finally clause does not unregister the task)
SettleRegistered(t, outcome) ==
  LET marked == [status EXCEPT ![t] = outcome]
      next == NextExclusive(marked, Halted')
  IN /\ status' = Started(marked, next)
     /\ task' = Spawned([task EXCEPT ![t] = "done"], next)
     /\ registered' = registered \cup next
     /\ emitted' = [emitted EXCEPT ![t] = Append(@, outcome)]
     /\ unread' = unread + 1
     /\ UNCHANGED <<arrival, loopVars, consumerVars>>

\* mark_error/mark_completed, the final _emit_result, the return through the
\* semaphore and the wrapper's finally, which hands over to the next
\* exclusive tool.  No await in this stretch suspends.
Settle(t, outcome) ==
  LET marked == [status EXCEPT ![t] = outcome]
      next == NextExclusive(marked, Halted')
  IN /\ status' = Started(marked, next)
     /\ task' = Spawned([task EXCEPT ![t] = "done"], next)
     /\ registered' = (registered \ {t}) \cup next
     /\ emitted' = [emitted EXCEPT ![t] = Append(@, outcome)]
     /\ unread' = unread + 1
     /\ UNCHANGED <<arrival, loopVars, consumerVars>>

\* A task that gets a permit announces the tool as running and then calls the
\* permission-request hooks.
EnterBody(t) ==
  /\ task' = [task EXCEPT ![t] = "request"]
  /\ emitted' = [emitted EXCEPT ![t] = Append(@, status[t])]
  /\ unread' = unread + 1
  /\ UNCHANGED <<arrival, status, registered>>

Ready(t, stage) == loopUp /\ task[t] = stage /\ t \notin cancelReq

\* First step of the task, outside the try block: an abort seen here is an
\* error of this tool alone.
BeginAborted(t) ==
  /\ Ready(t, "created")
  /\ aborted
  /\ UNCHANGED <<cancelReq, stopVars>>
  /\ Settle(t, "error")

Begin(t) ==
  /\ Ready(t, "created")
  /\ ~aborted
  /\ IF PermitFree
     THEN EnterBody(t)
     ELSE /\ task' = [task EXCEPT ![t] = "sem"]
          /\ UNCHANGED <<arrival, status, registered, emitted, unread>>
  /\ UNCHANGED <<cancelReq, stopVars, loopVars, consumerVars>>

AcquirePermit(t) ==
  /\ Ready(t, "sem")
  /\ PermitFree
  /\ EnterBody(t)
  /\ UNCHANGED <<cancelReq, stopVars, loopVars, consumerVars>>

Advance(t, from, to) ==
  /\ Ready(t, from)
  /\ task' = [task EXCEPT ![t] = to]
  /\ UNCHANGED <<arrival, status, registered, cancelReq, emitted, unread,
                 stopVars, loopVars, consumerVars>>

RequestAllowed(t) == Advance(t, "request", "canuse")
PermissionGranted(t) == Advance(t, "canuse", "pre")
PermissionDenied(t) == Advance(t, "canuse", "denied")

\* (mutant: the abort controller is not read again)
CallToolUnchecked(t) == t \notin Unknown /\ Advance(t, "pre", "call")

\* The pre-tool hooks allowed the call; the abort controller is read again
\* before the callable is entered.
CallTool(t) ==
  /\ ~aborted
  /\ t \notin Unknown
  /\ Advance(t, "pre", "call")

CallReturned(t) == Advance(t, "call", "post")

\* The tool ends in error without running: a hook blocked it, the permission
\* was denied and its hooks have run, or its name is unknown.
Refuse(t) ==
  /\ \E stage \in {"request", "denied", "pre"} : Ready(t, stage)
  /\ UNCHANGED <<cancelReq, stopVars>>
  /\ Settle(t, "error")

Complete(t) ==
  /\ Ready(t, "post")
  /\ UNCHANGED <<cancelReq, stopVars>>
  /\ Settle(t, "completed")

\* A hook, the permission function or the callable raises: the failure hooks
\* run, and then the tool is an error whether or not they raise in turn.
Raise(t) == \E stage \in Body : Advance(t, stage, "failed")

FailureHooksDone(t) ==
  /\ Ready(t, "failed")
  /\ UNCHANGED <<cancelReq, stopVars>>
  /\ Settle(t, "error")

\* ToolExecutionAbortedError in the try block: the tool is an error and
\* _abort_siblings cancels every registered task that is not done.  The task
\* itself is one of them, but it ends without another suspending await.
AbortSiblings(t) ==
  /\ \/ /\ "tool" \in AbortSources
        /\ \E stage \in Body : Ready(t, stage)
     \/ aborted /\ Ready(t, "pre")
  /\ hasErrored' = TRUE
  /\ aborted' = TRUE
  /\ UNCHANGED discarded
  /\ cancelReq' = (cancelReq \cup {u \in registered : Live(u)}) \ {t}
  /\ Settle(t, "error")

\* A cancellation reaches its task.  CancelledError is no Exception: nothing
\* is marked or emitted.  A task cancelled before its first step never enters
\* the wrapper, so even the finally clause does not run.
Cancelled(t) ==
  /\ loopUp
  /\ t \in cancelReq
  /\ cancelReq' = cancelReq \ {t}
  /\ LET cleanup == task[t] # "created"
         next == IF cleanup THEN NextExclusive(status, Halted) ELSE {}
     IN /\ registered' = (IF cleanup THEN registered \ {t} ELSE registered) \cup next
        /\ status' = Started(status, next)
        /\ task' = Spawned([task EXCEPT ![t] = "done"], next)
  /\ UNCHANGED <<arrival, emitted, unread, stopVars, loopVars, consumerVars>>

-----------------------------------------------------------------------------
(* Steps of the coroutine that collects results.                           *)

SchedulePending ==
  /\ status' = Started(status, Schedulable)
  /\ task' = Spawned(task, Schedulable)
  /\ registered' = registered \cup Schedulable
  /\ UNCHANGED <<arrival, cancelReq, emitted, stopVars, loopVars>>

\* get_remaining_results: one scheduling pass, then take results until every
\* tool is terminal and the queue is empty.
OpenStream ==
  /\ "stream" \in Collectors
  /\ loopUp
  /\ consumer = "idle"
  /\ consumer' = "stream"
  /\ SchedulePending
  /\ UNCHANGED <<unread, gathered>>

TakeResult ==
  /\ consumer = "stream"
  /\ unread > 0
  /\ unread' = unread - 1
  /\ UNCHANGED <<arrival, status, task, registered, cancelReq, emitted,
                 stopVars, loopVars, consumerVars>>

EndStream ==
  /\ consumer = "stream"
  /\ IsComplete
  /\ unread = 0
  /\ consumer' = "returned"
  /\ UNCHANGED <<toolVars, stopVars, loopVars, gathered>>

\* wait_all is called.
OpenWait ==
  /\ "wait" \in Collectors
  /\ loopUp
  /\ consumer = "idle"
  /\ consumer' = "wait"
  /\ UNCHANGED <<toolVars, stopVars, loopVars, gathered>>

\* One turn of wait_all's loop: schedule, then gather the registered tasks; or
\* sleep(0) while something is pending; or drain the queue and return.
WaitRound ==
  /\ consumer = "wait"
  /\ SchedulePending
  /\ \/ /\ registered' # {}
        /\ gathered' = registered'
        /\ consumer' = "gather"
        /\ UNCHANGED unread
     \/ /\ registered' = {}
        /\ Pending(status') # {} /\ ~Halted
        /\ UNCHANGED <<unread, consumerVars>>
     \/ /\ registered' = {}
        /\ Pending(status') = {} \/ Halted
        /\ unread' = 0
        /\ consumer' = "returned"
        /\ UNCHANGED gathered

GatherDone ==
  /\ consumer = "gather"
  /\ \A t \in gathered : ~Live(t)
  /\ gathered' = {}
  /\ consumer' = "wait"
  /\ UNCHANGED <<toolVars, stopVars, loopVars>>

-----------------------------------------------------------------------------
TaskStep(t) ==
  \/ BeginAborted(t) \/ Begin(t) \/ AcquirePermit(t)
  \/ RequestAllowed(t) \/ PermissionGranted(t) \/ PermissionDenied(t)
  \/ CallTool(t) \/ CallReturned(t)
  \/ Refuse(t) \/ Complete(t) \/ Raise(t) \/ FailureHooksDone(t)
  \/ AbortSiblings(t) \/ Cancelled(t)

ConsumerStep == TakeResult \/ EndStream \/ WaitRound \/ GatherDone

Next ==
  \/ \E t \in Tools : AddTool(t) \/ TaskStep(t)
  \/ StartLoop \/ Discard \/ AbortParent
  \/ OpenStream \/ OpenWait \/ ConsumerStep

Spec == Init /\ [][Next]_vars

\* The event loop runs every ready task and the collecting coroutine; hooks,
\* the permission function and callables return or raise.
Fairness == /\ \A t \in Tools : WF_vars(TaskStep(t))
            /\ WF_vars(ConsumerStep)

FairSpec == Spec /\ Fairness
-----------------------------------------------------------------------------
(* Properties.                                                             *)

TypeOK ==
  /\ arrival \in [Tools -> Nat]
  /\ status \in [Tools -> Statuses]
  /\ task \in [Tools -> Stages]
  /\ registered \subseteq Tools
  /\ cancelReq \subseteq Tools
  /\ emitted \in [Tools -> Seq(Statuses)]
  /\ unread \in Nat
  /\ hasErrored \in BOOLEAN
  /\ discarded \in BOOLEAN
  /\ aborted \in BOOLEAN
  /\ loopUp \in BOOLEAN
  /\ deferred \subseteq Tools
  /\ consumer \in {"idle", "stream", "wait", "gather", "returned"}
  /\ gathered \subseteq Tools

\* Two exclusive tools never execute at the same time, whatever starts them:
\* add_tool, a scheduling pass, or the end of another tool.
ExclusivesApart ==
  \A x, y \in Exclusive : x # y => ~(Live(x) /\ Live(y))

\* Every tool reports a consistent story on the result queue: nothing before
\* its task gets a permit, "running" while it holds one, and exactly one final
\* result, equal to its status, when it is completed or in error.
OneOutcome ==
  \A t \in Tools :
    /\ status[t] \in {"absent", "pending", "discarded"} => emitted[t] = <<>>
    /\ task[t] \in {"created", "sem"} => emitted[t] = <<>>
    /\ task[t] \in Holding => emitted[t] = <<"running">>
    /\ status[t] = "running" => emitted[t] \in {<<>>, <<"running">>}
    /\ status[t] = "error" => emitted[t] \in {<<"error">>, <<"running", "error">>}
    /\ status[t] = "completed" => emitted[t] = <<"running", "completed">>

\* A tool shown as running has a task that will settle it, which wait_all can
\* find among the registered ones, unless the executor was stopped.
RunningIsLive ==
  \A t \in Tools : status[t] = "running" => Halted \/ (Live(t) /\ t \in registered)

\* Every tool was added from a running loop, so no start was deferred.
Undeferred == []loopUp

\* Once the abort controller is aborted no callable is entered any more.
AbortStopsCalls ==
  [][\A t \in Tools : task[t] # "call" /\ task'[t] = "call" => ~aborted]_vars

\* After a sibling abort or a discard no tool is started: not by a later
\* add_tool, a scheduling pass or the end of a tool that was running.
HaltStopsStarts ==
  [][\A t \in Tools : status[t] # "running" /\ status'[t] = "running" => ~Halted']_vars

\* Nothing starts an exclusive tool before one that was added earlier and still
\* waits: no scheduling pass, no end of another tool, and not add_tool either,
\* although it looks only at what is running.  The one exception: a tool just
\* added overtakes tools that were added before the loop ran.
ExclusivesInOrder ==
  [][\A x, y \in Exclusive :
       status[x] # "running" /\ status'[x] = "running" /\ x # y /\ status[y] = "pending" =>
         arrival'[x] < arrival[y] \/ (status[x] = "absent" /\ y \in deferred)]_vars

Stopped == Halted \/ aborted

\* The collecting coroutine (get_remaining_results or wait_all) returns unless
\* the executor is stopped, with the same exception.
CollectorReturns ==
  Undeferred => (consumer # "idle" ~> consumer = "returned" \/ Stopped)

-----------------------------------------------------------------------------
(* What the executor promises its callers, in the abstract.                *)

Phase ==
  [t \in Tools |->
     CASE status[t] = "absent" -> "absent"
       [] status[t] = "pending" -> "queued"
       [] status[t] = "running" -> IF Live(t) THEN "active" ELSE "lost"
       [] status[t] \in {"completed", "error"} -> "settled"
       [] status[t] = "discarded" -> "dropped"]

Lifecycle == INSTANCE ToolLifecycle WITH phase <- Phase, closed <- Halted

\* Every step of the executor is a step of the abstract life cycle or none.
ImplementsLifecycle == Lifecycle!Spec

-----------------------------------------------------------------------------
(* Statements of the code's comments and tests that it does not keep.      *)

\* "Retorna resultados restantes conforme ficam prontos" (docstring of
\* get_remaining_results): the generator ends when nothing remains, also after a
\* tool raised ToolExecutionAbortedError.
StreamEnds == consumer = "stream" ~> consumer = "returned"
=============================================================================
