# Verification of MindFlow's execution core

TLA+ models of the parts of MindFlow in which steps of several coroutines,
callbacks or processes interleave. They come from the two implementations of an
agent runtime that the repository holds:

* the **Python service** (`src/python/mindflow_backend`, asyncio): the executor of
  streamed tool calls, batches of tool calls, the circuit breaker, the internal
  communication bus, the job scheduler;
* the **TypeScript agent CLI** (`src/claude`, Node), by far the largest body of
  code in the tree, from which the Python runtime is ported: its executor of
  streamed tool calls, the query loop around it, the uploader of session
  events, the cron scheduler that sessions share, the task list that agents share.

TLC checks each on small instances; TLAPS proves the most important properties
for every value of the constants. Paths of Python files are relative to
`src/python/mindflow_backend`, those of TypeScript files to `src/claude`, unless
they start with `src/`.

## 1. The system

| Part | State it keeps | Operations | What is hard |
|---|---|---|---|
| **Python** | | | |
| Streaming tool executor `runtime/execution/streaming_executor.py`, `schemas/tools/streaming_types.py` | tracked tools and their status, asyncio tasks, a semaphore, a result queue, abort controllers, two stop flags | add_tool, scheduling passes, task of a tool, discard, get_remaining_results, wait_all | tools start from four places; aborts and cancellation at any await; termination |
| Batches `execute_batch`, `runtime/execution/tool_partition.py` | the partition, results | execute_batch | order between batches, cancellation inside gather |
| Circuit breaker `infra/resilience/circuit_breaker/core.py` | state, time of opening, counters | can_execute, check, record_success, record_failure, execute, reset, force_open, force_close | calls admitted in one period end in another; recovery |
| Communication bus `communication/bus/communication_bus.py` | inboxes, handlers, rooms, a breaker | register, unregister, subscribe, join, leave, send, broadcast, receive | handlers awaited by the sender, rooms that change under a broadcast |
| Scheduler `scheduling/` | a PostgreSQL table of jobs, one tick task | start, stop, add, remove, cleanup, tick | crash or stop between two statements, snapshots, failing callbacks |
| Background tasks, agent executor, teams and missions, retry and fallback managers, message buses, query engine, permissions, hooks, caches, log bus | see `PROJECT.json` | | not modelled (section 6) |
| **TypeScript** | | | |
| Streaming tool executor `services/tools/StreamingToolExecutor.ts` | tracked tools, their promises, pending progress, a child abort controller, two stop flags, the interruptible flag | addTool, processQueue, executeTool, getCompletedResults, getRemainingResults, discard | passes over the queue overlap at their awaits; synthetic results beside real ones; microtasks starve I/O |
| Query loop `query.ts`, `query/` | the state carried from one iteration to the next, the messages and results of one | stream, fall back, withhold, recover, run tools, hooks, continue, return | seven ways to go on and ten reasons to return, each resetting some of the state; aborts anywhere |
| Event uploader `cli/transports/SerialBatchEventUploader.ts` | a queue, waiters of flush and of space, a drain loop | enqueue, flush, close, drain | failures and lost answers, back-pressure, close in the middle of a request |
| Cron scheduler `utils/cronScheduler.ts`, `cronTasks.ts`, `cronTasksLock.ts` | a lock file, a file of tasks; in each session a copy, next times, guards | acquire, probe, release; load, check, fire, remove, mark, add | processes that die, files that are read, truncated and written in several calls, watchers that lag |
| Shared task list `utils/tasks.ts`, its callers in `utils/swarm/inProcessRunner.ts`, `hooks/useTaskListWatcher.ts`, `hooks/useTasksV2.ts`, `hooks/useInboxPoller.ts`, `tools/TaskCreateTool`, `tools/TaskUpdateTool` | one file per task, a high-water mark, locks | create, update, delete, block, claim, unassign, reset | reads without locks, deletes without locks, agents that leave |
| Session storage, messages, hooks, print mode and bridge, transports, prompt queue, API client, compaction, permissions, shell parser, MCP, plugins, mailboxes, terminal interface | see `PROJECT.json` | | not modelled (section 6) |

How they interact. In the CLI a prompt starts a *query loop*, which streams the
model's response and hands each tool call to the *tool executor* as it arrives,
collects its results during and after the stream, and builds the next request
from them. What the session emits goes to remote viewers through an *uploader*.
Sessions of one project, separate processes, share the files of the *cron
scheduler*, whose owner turns due tasks into prompts; agents of one team share
the files of the *task list*. In the Python service the agent executor gives
the tool calls of a message to the streaming executor, which asks hooks and
permissions and calls the tools; the communication bus runs its calls under a
circuit breaker; the scheduler calls back into whoever gave it `on_fire`.

In asyncio and in Node, code between two suspending awaits is atomic, and each
of our actions is such a stretch of code. Between processes that share files a
step is one call of the file system.

`PROJECT.json` lists every component with its status, every hazard with its
line, and for every definition the lines it models.

## 2. Modules

| Module | Models | Composed with |
|---|---|---|
| `StreamingTools` | the Python streaming executor | implements `ToolLifecycle` |
| `ToolLifecycle` | what it promises about each tool call, without tasks, semaphore, hooks and queue | |
| `BatchExecution` | `execute_batch` and the partition | proved in `StreamingTools_proofs` (the same class) |
| `CircuitBreaker` | the breaker and its callers | |
| `CommunicationBus` | the internal bus | uses and implements `CircuitBreaker` |
| `Scheduler` | the tick task, the executors, the job table | |
| `ToolExecutor` | the TypeScript streaming executor | implements `ToolAnswers` |
| `ToolAnswers` | what the query loop may rely on: each call answered once and reported once | |
| `QueryLoop` | the query loop | its executor is `ToolAnswers` |
| `EventUploader` | the uploader, its callers, the server | implements `EventChannel` |
| `EventChannel` | an ordered channel that repeats and drops | |
| `CronLock` | the lock of the cron scheduler | |
| `CronSessions` | the tasks of a project in all its sessions | extends and implements `CronLock` |
| `TaskList` | the shared task list and its callers | |
| `MC*` | values of the constants for TLC | |
| `*_proofs` | the theorems | |

Operators whose comment says *mutant* are faulty variants of the definition
below them. They are part of no specification: substituted for that definition
they must break a property, which shows that the property can fail.

### StreamingTools

`status` is a tool's `ToolStatus`; `task` says at which await its asyncio task
stands (`created`, waiting for the semaphore, the hooks before and after, the
call, the failure hooks); `registered` is `_running_tasks`; `cancelReq` holds
cancellations not yet delivered; `emitted` and `unread` are the result queue;
`hasErrored`, `discarded`, `aborted` are the stop flags and the sibling abort
controller; `consumer` is the coroutine in `get_remaining_results` or
`wait_all`; `deferred` is a history, the tools that were added before a loop ran, which
`_start_execution` does not start. `Discard` may be called again. One action stands for one stretch between suspending awaits:
`Settle`, for instance, is the marking of the tool, the final result, the exit
from the semaphore and the hand-over in the wrapper's `finally`, because
nothing in between suspends. The lock is left out: no section holds it across
a suspending await.

Assumed of the callers: tool-use ids are unique; `add_tool` is not called any
more once a collector runs. Who gets a permit of the semaphore next is left
open, which allows more than its FIFO order.

### BatchExecution

A call is its position in the message. The walk of `partition_tool_calls` is a
step for each call (`Place`, then `EndPartition`): `placed` calls are walked over,
`open` is the batch of safe calls not yet appended to `batches`. Nothing else can
run before the walk ends, since it does not await; its steps are there so that what
it computes can be proved by induction over behaviours. `stage` is where a call is;
`asked` are the children that a cancelled `gather` has asked to cancel;
`main` is execute_batch itself. Note that a tool without a definition counts
as not safe here and as safe in `add_tool`.

### CircuitBreaker

The methods are operators on the record `cb`; `elapsed` says that
`recovery_timeout` has passed since the breaker opened. `caller` tells which
coroutines are inside a protected call and in which state they were admitted.
`Recover` is the environment: after it protected calls succeed.

### CommunicationBus

`sending` is the send a coroutine is in, `job` its broadcast. A broadcast holds
a reference to the room's list: `leave_room` makes a new list (also when the agent is not in it), `join_room`
appends to the old one, so `job.live` says whether the broadcast's list still
is the room's. The module calls the breaker's operators and shares `cb` and
`caller` with an instance of `CircuitBreaker`. The retry and fallback managers
around `send` only pass on the first answer, since `breaker.execute` raises
nothing. The loop of a broadcast is taken one subscriber at a time, and a send
suspends once before the queue is touched (as `wait_for` does when it makes a
task): both allow more interleavings than the code has.

### Scheduler

`row` is the table, `tick` the tick tasks with the snapshot they walk over and
the statement they are about to send; every statement is a step, and a
cancellation or crash may fall before each. `due` replaces timestamps: a job is
not due, within its jitter, or due. A tick compares with the time it began at,
which is the same as querying a little earlier; the clock of the database and
that of the process are taken to agree. A statement that fails is taken to have
had no effect. As in the code, a job is fired from the snapshot although its row was
removed or cleaned up meanwhile; `RepeatsBounded` counts that firing within the limit and
does not forbid it.

### ToolExecutor and ToolAnswers

`kinds`, `status`, `results`, `progress` and `errored` are the fields of a
`TrackedTool` and of `collectResults`; `body` is where `collectResults` stands
and `updates` what the tool has produced and it has not yet consumed;
`pass[p]` is where the `processQueue` that was started by `p` (an addition, the
end of a tool, the collector) is suspended; `consumer` and `scan` are the two
generators the query loop drives. `aborted`, `discarded` and `hasErrored` are
what `getAbortReason` reads.

What waits for a promise that is already resolved goes on as a microtask, and
Node runs all microtasks before it delivers the next I/O event. `Quiet` says
that none is left; the ends of tools, progress messages and what the user does
are guarded by it. This is what makes the starvation of section 5 visible: a
loop that awaits nothing but resolved promises never lets `Quiet` become true.

A tool is whatever mixture of progress, an answer, an error and silence it may
be: `Kinds` gives for each slot what the call may be (known, concurrency-safe,
a shell call, interruptible, ended without I/O). Left out: context modifiers,
texts, telemetry.

`ToolAnswers` has two variables. A call is given, answered (by its tool or in its
place), and reported, each once; the collection closes when all is reported;
nothing is reported after a discard. `ToolExecutor` maps its statuses to these
phases (`Phase`, `Mode`), and `ImplementsAnswers` checks each step.

### QueryLoop

`pc` names the stretch of `queryLoop` that runs next: `setup` (compaction, the
blocking limit), `stream`, `push` and `scan` (a message of the response and the
results collected with it), `drain` (an aborted stream's results), `decide` with
`compacting` and `hooks` (a response without tools), `tools`, `attach` (before
the next turn), `done`. The fields of `State` that decide anything are
variables; `Continue` carries them on, and each of the ways to go on says
which it resets. `shown` and `errorsShown` are what the consumer of the
generator saw. `phase` and `mode` are the variables of `ToolAnswers`: the loop
meets any executor that keeps that promise, not only this one. The abort may
come between any two steps.

`Configs` are the combinations of feature gates that the code can be built and
run with and that differ in control; `Limits` bounds what the environment does
in each (fallbacks, model switches, collapses, blocking hooks, large responses).
Hooks, compaction, the model and the budget are outcomes. Left out: attachments,
prefetched memory and skills, the summary of tool use, the path that executes
tools after the stream (`toolOrchestration.ts`).

### EventUploader and EventChannel

`call` is the list of calls of enqueue and flush so far, with the promise they
wait for; callers need not wait for one another, or at all. `pending`, `batch`,
`draining`, `failures`, `closed`, `backpressureResolvers` and `flushResolvers`
are the fields; `resumed` is the order in which promises were resolved. `server`
is what arrived; a request may arrive although its answer is lost. Events are
numbered as accepted; some cannot be serialized (`bad`), some are given up with
their batch (`dropped`). A request ends in one of three ways: it is received
(`SendSucceeds`), it fails or its answer is lost (`SendFails`), or `send` resolves although
nothing was received (`SendRefused`, whose events are `refused`). The last is what
`HybridTransport.postOnce` does without a session token and on a 4xx other than 429; the
uploader cannot tell it from success and counts nothing as dropped. Only settings that
are `silent` have it: `CCRClient` throws in both cases.
The three settings in the instance are those of the uploaders' users: `CCRClient` for
events (bytes are bounded), `HybridTransport` in a bridge (batches are given up after
failures, and silent), `CCRClient` for deliveries.

`EventChannel` is what a reader of the session may rely on: events are received
in the order in which they were accepted, perhaps again, perhaps never. The
refinement maps its queue to the batch followed by what is pending.

### CronLock and CronSessions

`lockFile` says which session opened the file last, whether the process that did has
died since (the code asks whether the PID in the file runs, and a resumed session has
another), and whom it names (nobody, between the open and the write); `step` is the next call of a session that acquires,
recovers or releases the lock, and each such call is an action. A session that
dies leaves the file; it may be resumed under the same name, which the code
treats as its own lock. `raced` records that a lock was taken from a live session,
the one thing that the code does not prevent.

`CronSessions` adds the file of tasks, the copy that each session read of it, its
`nextFireAt` and `inFlight`, and the changes of the file under way (`ops`: read,
truncate, write). Time passes in units in which a recurring task is due once.
`faults` records the ways in which sessions disturb one another (its values are
explained at `Undisturbed`); the properties say what holds until one has
happened. What is read of a file that
is truncated is empty ("torn"). Left out: jitter and the calendar, the age limit of recurring tasks,
tasks kept in memory only, agents' own tasks, overlapping probes of one session.

### TaskList

`file` is the directory, `mark` the high-water mark, `lock` and `listLock` the
lock files. Each agent runs one job at a time (find and claim, finish, block,
create, delete, unassign, reset), call of the file system by call; `job` holds
where it is and what it has read. A file that is opened for writing is *torn*
until it is written, and reads skip it. Ghosts: `holds` (whose claim succeeded),
`given` (how often an id was given out), `done`, and `faults`, the ways in which
unlocked reads and deletes get in between: `missed` (an update found the file
torn, or gave up on a dead agent's lock), `stale` (a dependency was computed from
an older state), `late` (a status was decided on before another was written),
`blind` (a blocker was being written when it was read), `overlap` (a delete ran
across another delete, a create or a writer), `died`. Each property says which of
them break it; without any one of these exceptions TLC finds it violated.

Left out: `claimTaskWithBusyCheck`, which no caller asks for; owners set by
`TaskUpdate`; names and descriptions; the rest of the runner. Only an earlier
task may come to block a later one. Reset is one step under the list's lock; a
torn mark and a torn new file are left out (a reader takes either for absent,
which is the state before or a case of `overlap`).

## 3. Runs

| Run | Bounds | Shows |
|---|---|---|
| `Streaming` | 1 safe + 2 exclusive tools, 1 permit, every way of stopping, both collectors, tools added before or after the loop starts | `ExclusivesApart`, `AbortStopsCalls`, `ExclusivesInOrder`; `ImplementsLifecycle`: the executor implements `ToolLifecycle`; `CollectorReturns` unless the executor is stopped |
| `BatchSafety` | all messages of up to 4 calls of three sorts, 2 permits, cancelled callers and tools | `ExclusiveIsBarrier`, `ReturnsAnswers` |
| `BreakerSafety` | thresholds 5/3/3 (the defaults), 3 callers, operator, fallback | `OpenStaysOpen`, `Heals` |
| `Bus` | 1 sender that broadcasts, 2 agents, one with handlers, inbox and thresholds of 1 | `BroadcastCoversRoom`; `ImplementsBreaker`: each step of the bus is a breaker step or leaves it alone |
| `SchedulerSafety` | a one-shot or malformed job beside a loop (2 iterations) or recurring job, 2 stops, crashes or failing statements | `NoOverlap`, `RepeatsBounded`, `RunningEnds` |
| `ToolExecutor` | up to 4 calls (an interruptible one; an exclusive one; one that is missing or invalid; a read-only Bash call), 1 progress message, interrupt, rejected permission, discard | `ExclusiveAlone`, `ResultForEach`, `ExclusiveYieldedFirst`, `InterruptibleIsAccurate`, `ImplementsAnswers`, `CollectReturnsElse` |
| `QueryLoop` | 2 turns, 2 calls a response, 5 configurations that between them take every branch | `NextRequestPaired`, `CallsAnswered`, `ErrorShownOnce`, `RecoveriesBounded`, `Terminates` |
| `EventUploader` | 3 calls of up to 3 events, batches and queue of 2, 1 lost answer, 3 configurations | `NothingStranded`, `FlushDelivers`, `KeepsOrder` (it implements `EventChannel`), `CallsReturn` |
| `CronSessions` | 2 sessions, a one-shot and a recurring task, 2 units of time, 1 death; without tasks 2 deaths and every race on the lock | `OneOwnerElse`, `OwnerIsNamed`, `FiresOnce`, `NothingLost`, `TakesOver`, `DueIsFired` |
| `TaskList` | 3 agents of which 1 may leave, 3 ids, 3 jobs, agents symmetric | `OneWinner`, `ClaimIsFree`, `CompletedStays`, `IdsFresh`, `BlocksAgree` |
| `AbortStreamHangs` | 2 safe tools, tool aborts | a statement of the Python executor that the code does not keep (section 5) |
| `EventLoopStarves` | an exclusive call and a missing one behind it | the same, of the TypeScript executor |

Why the bounds are enough.

* Executors: two exclusive tools with a safe one beside them are what every
  scheduling decision distinguishes (first and later exclusive, before and
  behind a barrier). In `ToolExecutor` the slots hold first what may hold
  others up, then what may overtake or fail, then what is held up; four are needed
  for a scan to go past a queued exclusive tool (`ExclusiveYieldedFirst` says when
  it does). One progress message wakes a waiting collector; a second does what the
  first does.
* `QueryLoop`: flags and counters of an iteration interact with those of the next
  one only, and a second turn takes what the first one left; two calls let one be
  answered and one not. Recoveries reach their real limits (three resumptions,
  three failed compactions): those are not bounded by the instance.
* `EventUploader`: batch and queue of 2 with calls of 3 events pass both limits,
  including a call larger than the queue; a failing batch has events behind it.
* `CronSessions`: every race on the lock is between two sessions, one of which
  may be the same session resumed; two deaths let the session that takes over, or is about
  to, die in turn. Two units of time let a task be missed. A run begins with any of the
  recurring tasks in the file, and none also: a scheduler runs without tasks for a daemon
  that gives it a directory, and in assistant mode (`start` in `cronScheduler.ts`).
* `TaskList`: two agents compete for a task while the third deletes, blocks or
  leaves; three ids let an id be lost and given again with one task beside it.
* Breaker, bus, scheduler: three callers let a late success, a late failure and a
  probe be in flight together; two agents let a broadcast lose its place when
  the list shrinks; inbox and thresholds of 1 reach their limits within a few
  steps; two jobs give a snapshot with something left in it; two troubles
  allow a crash while recovering from another.

`CronSessions` is run under `CONSTRAINT Explored`; a state outside of it is checked and
not continued. While there are no tasks nothing is cut: the lock is explored through
every race and two deaths, the second in the middle of a take-over too. With
tasks, behaviours are continued while the sessions have not disturbed one another
and one at most has died. `DueIsFired` says of itself that it speaks of those only.
`TakesOver` is unconditional; the steps for the lock do not look at the tasks
(`SessionsImplementLock` is a theorem), so the behaviours without tasks are all those
that it distinguishes. Symmetry is used in `TaskList` only, whose properties name no
agent. `CHECK_DEADLOCK FALSE` stands where the system ends: tools settled and
collected, a batch or query returned, calls and jobs used up.

### Fairness

* `StreamingTools`: each ready task and the collector run (the
  event loop), and hooks, permission function and tools return or raise. Nobody
  has to add tools, stop the executor or begin to collect.
* `CircuitBreaker`: the clock moves on, callers keep coming, `wait_for` bounds
  calls, fallbacks return. `Heals` needs callers: a breaker nobody asks stays open.
* `CommunicationBus`: ready senders run and the breaker's timeout fires.
  Handlers may hang for ever.
* `Scheduler`: statements answer, callbacks end, time passes and somebody
  starts a scheduler that is not running. `on_fire` is awaited without a
  timeout, so that callbacks end is an assumption and not something the code
  ensures.
* `ToolExecutor`: microtasks run; a tool ends, *if* I/O is delivered to it; the
  query loop goes on collecting once it began. Nobody has to add, stop or abort.
* `QueryLoop`: the model, the tools and the hooks answer, and the generator is
  driven. That a response ends (`SF` of `StreamEnds`) is strong fairness because
  each block of a response makes the end of it unavailable for a moment.
* `EventUploader`: requests and delays end, in whichever of the three ways, resolved
  promises are continued, and a request that is sent again and again succeeds in the
  end (`SF` of `SendSucceeds`): what `CallsReturn` says of a server that never recovers is
  only what the give-up limit and close bring.
* `CronSessions`: calls of the file system return, the one-second and five-second
  timers go off, the watcher reports. No session has to start, stop, resume or
  create a task.
* `TaskList` has safety properties only and no fairness.

## 4. Theorems

**StreamingTools** (`StreamingTools_proofs`; any finite set of tools, any number
of permits, any choice of aborts and collectors). The inductive invariant
`IInv` is the type invariant, `OneOutcome` and three parts: `ArrivalsOK`, the
positions of the added tools are distinct; `TasksOK`, a tool's status, its task
and its registration agree (a live task belongs to a registered tool that is
shown as running, a cancellation is requested only of a live task of a stopped
executor); `OneExclusive`, at most one exclusive tool is shown as running.
`ExclusivesApart` speaks of tasks and is not inductive alone, because the code
decides by statuses. From `IInv` follow `TypeCorrect`, `ExclusivesNeverOverlap`,
`ExactlyOneOutcome`, `RunningHasTask`, the action properties `NoCallAfterAbort`,
`NoStartAfterHalt` and `ExclusivesStartInOrder`, and `ImplementsToolLifecycle`, step by
step. `ExclusivesStartInOrder` covers every start: a scheduling pass and a hand-over pick the
first that waits (`FirstIsBefore`), but `add_tool` looks only at what is running. That
it overtakes nobody rests on a second invariant, `WaitersCovered`: until the executor is
stopped, an exclusive tool that waits although it was added in the loop waits for one
that runs, because whoever ends last hands over (`FirstExists`: some tool is the first).
Tools added before the loop ran wait for nobody and may be overtaken (section 5).

**BatchExecution** (second part of the same module; any message, any number of
permits, any cancellation). `BatchInv` adds to the types and `ReturnsAnswers`:
`CutOK`, the batches and the open one are runs of calls that follow one another
without a gap up to `placed`, and one of several calls holds safe calls only;
`RunOK`, calls up to `Past`, the end of the batch before the one in progress, are
answered, calls after the batch in progress untouched, and before the sort the
results are the calls 1 to `Past`. `CurrentBatch` says which calls the batch in
progress holds, `PartAppended` that an append keeps a partition one, `SortKeeps`
that the final sort loses and repeats nothing. Two different calls of one batch are
both safe, so `ExclusiveIsABarrier` follows; `BatchReturnsAnswers` needs that the
last batch ends with the message; `BatchTypesHold` holds the bound on permits.

**CircuitBreaker** (any callers and thresholds; the last section of
`CommunicationBus_proofs`, where `Alone` is the breaker without the bus).
`BreakerTypeCorrect`; `MarginKept`; `OpenClosedByOperatorOnly`, which is
`OpenStaysOpen`; `ProbeCountExact` when nobody is admitted by
`check()`; `NeverWedged` when moreover `SuccessThreshold =< MaxHalfOpen`. Both
assumptions are needed: `check()` counts a probe twice (section 5), and with
more successes required than probes allowed a half-open breaker refuses for
ever (`CircuitBreakerConfig` does not compare the two).

**CommunicationBus**. `BusUsesBreaker`: every step of the bus maps to a step
of `CircuitBreaker` or a stutter, so the breaker's theorems hold of the bus's
breaker. The proof needs of the bus only that a sender inside a send is inside
the breaker. `BroadcastsCoverRoom` rests on `RoomInv`: the room holds
nobody twice (which is why `Without` may take out the first occurrence), and for
each active broadcast what was tried is what stands before its place in its list,
the sender excepted, and whoever stayed is still in that list. A broadcast whose room
got a new list keeps the old one, so the fact holds of `Subscribers`, whichever list
that is.

**Scheduler** (any jobs, limits, tick tasks and troubles). The assumption of its
theorems is `OneController`: one coroutine calls start and stop, as the class's
docstring shows and the package does. With two, TLC finds two tick tasks that fire the
same job: a start during a stop. The invariant `IInv` is `TasksOK` (one tick task is
live at most, the one that start made last, and only while the scheduler runs or stop
waits for it), `WalkOK` (each job of a snapshot comes once and is treated as its kind
says, whatever has become of its row) and `CountsOK`: of the callbacks that returned the
table knows all but one for each trouble, and for the one that is about to be told; a
job whose callback is ahead has callbacks to go; and for a job that was removed
the same is said of its limit. The two queries establish that, since they look at the
status and the count; each statement of `_fire_job` is shown to keep it (`Keeps`,
`Told`, `Returned`). From it `SchedulerTypeCorrect`, `CallbacksNeverOverlap` and
`RepeatsForTroubles`.

**ToolExecutor** (any number of calls of any kinds, any progress and stops). The
inductive invariant `IInv` has two halves. `OrderInv` is about what may execute and
in which order results leave: an exclusive tool executes alone (`AloneOK`), and
what has started was received after no exclusive tool that has not ended
(`OrderOK`). Passes over the queue are suspended at their awaits and go on at a
position that was computed before others ran; neither fact is inductive without
`PassOK`: a pass has left no exclusive tool in the queue behind it. `ScanOK` says the
same of a suspended scan of `getCompletedResults`, but for a missing call.
`AnswerInv` is about the answers: `AnswerAt` follows the messages of one tool from
its start to its end, for a tool that has settled through the messages still to be
consumed, and needs `SoleSettled`: since microtasks run before the next I/O event,
no other tool fails between the two, so a tool that succeeded is not cancelled
after it. From them `TypeCorrect`, `ExclusiveExecutesAlone`, `OneResultForEach`,
`ExclusiveResultsFirst`, `InterruptibleAlways`, and step by step
`ImplementsToolAnswers`.

**TaskList** (any agents, ids, jobs and deaths). The inductive invariant `IInv` is a
tower of six. `BaseInv` holds whatever gets in the way: types, which steps each kind
of job takes and which changes it makes (`JobOK`), that whoever is past a lock holds
it (a lock is taken from the dead only), that an unreadable file is gone or torn, and
that only ids that were given out are talked of. `IdInv` (while nothing overlapped):
the id of a task that is gone is not above the mark, and whoever looks for the highest
id has found each that was given out or has still to read where it is found.
`SeenInv`: what a job that holds a lock has read is what the file holds, deletes aside.
`DoneInv`: no job has a change ahead that would reopen a completed task. `HoldInv`:
an agent whose claim succeeded is the owner on disk and in the hands of every writer,
and who still has to remove an owner removes itself or one that has left. `ReadyInv`:
the blockers of a task that is being claimed are done or gone, and stay so until the
claim is written. Each layer is proved from the ones before it, once for each kind of
step (`StepCases` says what a step does: `Does`). From it `TypeCorrect`,
`ClaimsExclude`, `IdsAreFresh`, `CompletionIsKept` and the action property
`ClaimsAreFree`. A seventh layer, `AgreeInv` (while nothing was stale, missed, died or
overlapped), is about two tasks at once. `Held` is what a task holds once the writer of
its torn file has written it, so that a change takes effect when the file is opened
and not twice. Then: what i says it blocks knows of it, or a job is still to tell it
(`Pending`); what says it is blocked by i is known to i; a job tells the blocker before
the blocked (`Linked` when it comes to the second); a delete removes references to
what is gone for good; and what is opened is what the change was computed from.
`LinkStep` says of every step that it leaves what a task holds, adds one reference, or
drops one, and `BlocksDoAgree` follows: with no job under way nothing is pending.

**EventChannel**. `ReceivedInOrder`: whatever is repeated, given up or dropped, an
event is received for the first time before every later one. The invariant adds
that the queue ascends and that what is still in it comes after everything
received, unless it was received in its turn before.

**EventUploader** (any calls and settings, any number of lost answers and failures).
`ImplementsChannel`: every step of the uploader, under the mapping of its queue to the
batch followed by what is pending, is a step of the channel or leaves it alone; what
the drain loop takes in one pass is split into what goes into the batch, what is
given up as not serializable and what stays (`DrainSplits`). So
`ServerReceivesInOrder` holds of the server. The invariant `UploaderInv` says that batch
and queue ascend, that an event which was accepted and is in neither was received, given
up with its batch, not serializable, or in a batch whose `send` resolved undelivered
(`Received` is the union of these), that a loop runs while events wait in an open uploader, that a flush
is marked whose events are still there, and that those held back by the queue's limit
are calls of enqueue. From it `LoopRunsForEvents` (`NothingStranded`) and
`FlushesDeliver` (`FlushDelivers`), which adds that events are refused in silent settings
only (`RefusedOnlySilently`): with the others a flush does mean that the server has them, or
that the caller can know.

**CronLock** (any sessions, any number of deaths). That two sessions never own
the lock is not inductive: a session that has decided to write may be overtaken.
The invariant `LockInv` adds to the types that only live sessions have a call ahead
(`CallersLive`) and, while no lock was taken from a live session, that the file
is that of whoever matters (`FileIsTheirs`): it names the owner and its process lives,
and whoever is about to write it has opened it last. `LockInvariant` is that theorem;
`OneOwnerUnlessRaced`, `OwnerNamed` and `LockTypeCorrect` follow.

**CronSessions** (any sessions, tasks, times and deaths). `SessionsImplementLock`:
every step of a session with its tasks is a step of the lock or leaves it alone, so
the lock's theorems hold of it (`SessionsHaveOneOwner`, `SessionsNameOwner`). The
invariant `TasksInv` says, while no session has disturbed another: changes of one kind
that are under way are about different tasks (`OpsOK`); one of them at most has
truncated the file, and whatever read it empty comes after that (`FileOK`); a task that
was neither fired nor asked about is in the file or will be when the writer is done
(`KeptOK`); a one-shot task that was fired and is still there is being removed, by the
owner, which skips it, or by the only session that has loaded the tasks (`OnceOK`); a
recurring task that was fired in this unit is being marked by the owner, or what is or
will be in the file says when (`MarkOK`). `Clean` takes a step that stays undisturbed
apart; one lemma for each kind of step follows. From `TasksInv` come `TypeCorrect`,
`FiredOnce` and `TasksAreKept`; the first needs the one owner of `LockInv`.

**QueryLoop** (any settings of the query, any number of calls in a response and of
turns). None of the four invariants is inductive alone: they speak of an iteration
that ends, and the facts they rest on come up while it runs. `LoopInv` adds what the
place in the loop says of the response (`PlaceOK`); that the executor has just the
calls it was given, when they arrived or after the response, and that what it has
reported was shown once and kept once (`AnswersOK`); that what was shown of abandoned
attempts is at most too much (`ShownOK`); when an error is shown that arrives, and that
it was not while it is withheld (`ErrorsOK`); and that each recovery is one of those
that are counted, with one raise of the limit around each (`RecoveriesOK`). Steps that
begin another iteration, that end the query and that stay in the response have a lemma
of their own (`ContinueKeeps`, `Ends`, `Moves`) that the actions share. From it
`TypeCorrect`, `RequestsPaired`, `EveryCallAnswered`, `ErrorsShownOnce` and
`RecoveriesFew`.

Proved and not in a run, since the proofs say more: `TypeOK` of `StreamingTools`,
`CircuitBreaker`, `Scheduler`, `CronLock`, `CronSessions`, `ToolExecutor`, `TaskList`
and `QueryLoop`, and `BatchTypeOK` (for the bus and the uploader, what is proved of the types is part of
the inductive invariants `RoomInv` and `UploaderInv`); `OneOutcome`, `RunningIsLive`, `HaltStopsStarts`, `ClosedHasMargin`,
`ProbesAreSuccesses`, `HalfOpenAdmits`. The inductive invariants were checked by TLC
on the instances of section 3 before they were proved.

Only model-checked: liveness (`CollectorReturns`, `Heals`, `RunningEnds`,
`CollectReturnsElse`, `Terminates`, `CallsReturn`, `TakesOver`, `DueIsFired`),
which is out of the prover's reach. Every safety invariant and action property of
the passing runs has a theorem.

## 5. Where the code and its documentation differ

Shown by a run:

* `AbortStreamHangs` — after a tool raises `ToolExecutionAbortedError` its
  siblings are cancelled; `CancelledError` passes `except Exception`, they stay
  RUNNING, and `get_remaining_results` polls for ever.
* `EventLoopStarves` — `services/tools/StreamingToolExecutor.ts:467`: a call
  without a definition is completed when added; behind an exclusive tool that
  executes, its result cannot be yielded, yet `hasCompletedResults` keeps the
  collector from waiting. It turns in its loop, awaiting only resolved promises,
  and the I/O that would end the tool is never delivered.

Seen while modelling, in the TypeScript executor:

* "Results are buffered and emitted in the order tools were received"
  (`services/tools/StreamingToolExecutor.ts:38`): not across concurrent tools, and
  not always for exclusive ones. A scan suspended at the yield of a missing call
  has gone past a queued exclusive tool before it; if that one runs to its end
  meanwhile, what the scan meets next is yielded first.

Seen while modelling, in the Python service:

* A safe tool added while an exclusive one runs starts at once, although the
  class comment of the streaming executor says exclusive tools run alone. The
  TypeScript executor, from which it is ported, does keep them alone
  (`ExclusiveAlone`).
* `streaming_executor.py:244`: `add_tool` starts an exclusive tool when nothing is running,
  without looking for one that waits. Tools that were added before a loop ran are
  pending and not running, so an exclusive tool added in the loop overtakes them
  (`deferred` in `ExclusivesInOrder`); later starts keep the order.
* `core.py`: `check()` counts a probe that `record_success` counts again: at
  the defaults the breaker stays half-open and refuses for ever. Only tests call
  `check()`.
* `communication_bus.py`: a blocked or timed-out send answers with a non-empty
  dict, which is true, so `broadcast` counts it as delivered.
* `streaming_executor.py:585`: one scheduling pass; a safe tool behind an
  exclusive one, both added before a loop ran, is never started by
  `get_remaining_results` (`wait_all` does start it).
* `streaming_executor.py:627`: a task cancelled before its first step stays in
  `_running_tasks`, and `wait_all` gathers it again and again.
* `streaming_executor.py:608`: `discard` leaves running tools RUNNING, though its
  docstring says they are marked; line 518: an ordinary exception aborts no
  sibling, though the module docstring says errors cancel subprocesses.
* `streaming_executor.py:687`: results are sorted by id as a string, not in call
  order.
* `core.py:126`: a probe is counted when it succeeds, so `max_half_open_calls`
  does not limit the calls in flight; a test comment
  (`tests/unit/utils/test_resilience.py:100`) expects one success to close.
* `communication_bus.py:133`: `register_agent` drops handlers subscribed
  earlier; line 88: `TTL_SECONDS` is used nowhere; rooms keep unregistered agents.
* `scheduler.py:83`: two concurrent `start` calls, or a `start` during a `stop`,
  leave two tick tasks or a task that nobody can stop; `job_store.py:84`:
  concurrent adds exceed `MAX_JOBS`. Two processes on one table fire every job
  twice: rows are not locked.
* `executor.py:1385-1528` (`execute_with_streaming`) passes no tool definitions,
  so every tool it streams ends as not found.
* `permissions/manager.py:124-128` builds the core breaker with arguments it does
  not take and calls an `execute_async` it does not have (line 154).

In the query loop (`query.ts`):

* "This fires once per turn (guarded by the override check)" (line 1190): the
  override is cleared by other ways to continue, so a turn may raise the limit
  more than once. `RecoveriesBounded` gives the bound that does hold.
* The comment at 1012-1014 says that the executor makes up results for calls in
  flight on an abort; a call that arrives once the query is aborted is never
  handed to the executor and gets none (`late` in `CallsAnswered`).
* `yieldMissingToolResultBlocks` answers all calls of an attempt that failed, also
  those whose results were yielded already; results yielded before a stream
  falls back stay when their calls are retracted. `CallsAnswered` names both.
* A withheld `max_output_tokens` error is shown to nobody when the response also
  has tool calls (`ErrorShownOnce` is about responses without).
* The tools that a discarded executor runs go on beside those of its successor.
* The breaker of automatic compaction says "skipping future attempts this
  session", but its count lives in one query.

In the uploader (`SerialBatchEventUploader.ts`, `HybridTransport.ts`):

* "Snapshot before/after writeBatch() to detect silent drops" (`HybridTransport.ts:140`)
  detects the batches that the uploader gave up after failures. `postOnce` also resolves
  without delivering when there is no session token (line 203) and on a 4xx other than
  429 (line 238), which counts nowhere: `bridge/replBridge.ts:1289` then marks the
  messages as flushed, and `flush` does not fire "after persistence" (line 146). It is the
  last alternative of `FlushDelivers`, for silent settings.

* A flush after close, with a batch that is still failing, never resolves
  (`late` in `CallsReturn`). An enqueue larger than the queue waits for ever.
* A caller that gives no bound in bytes and no limit of failures is blocked for
  ever by an event that cannot be serialized.
* Writes that are not awaited overtake one another when one waits for space,
  although "sequential enqueue preserves order" (`bridge/replBridgeTransport.ts:276`);
  the channel keeps the order in which events were *accepted*.

In the cron scheduler:

* "If two sessions race to recover a stale lock, only one create succeeds"
  (`utils/cronTasksLock.ts`): only one does, but between reading the stale lock
  and unlinking it (line 165) another session may have replaced it, and the
  unlink then removes a live owner's lock: two owners. A lock file that was
  opened and not yet written passes for corrupt and is taken likewise. This is
  `raced`; `isOwner` is never re-checked.
* "inFlight guards against double-fire" (`utils/cronScheduler.ts:333`): it is cleared
  when the removal has landed, which may be before the watcher has reloaded the
  file ("stale").
* Sessions that do not own the lock also surface missed one-shot tasks and remove
  them, and their check evicts the guard that keeps them from asking again
  ("overdue").
* "at most one process calls this" (`markCronTasksFired`): the file is read,
  changed and rewritten without a lock and not atomically, and others add and
  remove tasks meanwhile ("torn", "overwritten"). A copy read while the file is
  truncated is empty, and with it `check` drops the time at which it would ask again:
  a missed task that the user was asked about is then fired as well.

In the task list (`utils/tasks.ts`):

* "Update high water mark before deleting to prevent ID reuse" fails when two
  deletes overlap, or a delete overlaps the search of a create ("overlap").
* `deleteTask` takes no lock: a writer that holds one brings the task back.
* The release that may follow a claim frees whatever task has the id by then: when an
  id was given out again, two agents may be told that they have it ("overlap").
* `claimTask` reports success with no task if the file was unlinked meanwhile.
* `updateTask` skips a file that is being written, while `TaskUpdate` reports
  success ("missed").
* The list is cleared after a check of "all completed" without a lock: a task
  created in between is swept with it.
* The update that follows a claim, and the unassignment of a teammate's tasks,
  may reopen a task that was completed meanwhile ("late").

## 6. Not modelled

Python: `execution/loops/streaming_tool_executor.py` and `tool_partition.py` there
are duplicates of the modelled files; `ToolOrchestrator` is instantiated
nowhere. Agents, graphs, prompts, memory, storage, services, gRPC stubs, API and
front ends are data, I/O or generated code.

TypeScript: most of `src/claude` is presentation (`screens`, `components`, `ink`),
parsing and formatting (`utils/bash`, `utils/messages.ts`, `utils/attachments.ts`),
settings and start-up, and clients of external services (API, MCP, LSP, plugins,
OAuth), whose outcomes are inputs of the models: the model covers the parts whose
control is shared between actors and not the bulk of the lines. That is why the
mapped lines are a small share of the tree. A recursive descent shell parser
has no reference definition but another parser.

In `ToolExecutor` only an input that fails its schema ends a call without I/O; a tool
whose `validateInput` refuses without I/O is treated like one that does I/O.

The texts of results, progress messages, statistics and logs are left out
everywhere. Components marked *partly* in `PROJECT.json` say what of them is
missing; those marked *not_modelled* say why.

## 7. Plan

Done, in this order: `StreamingTools` with `ToolLifecycle` and its proofs,
`CircuitBreaker` with proofs, `BatchExecution`, `CommunicationBus` over
`CircuitBreaker` with its refinement proof, `Scheduler`; then `ToolExecutor` with
`ToolAnswers`, `QueryLoop` over it, `EventUploader` with `EventChannel`,
`CronLock` with proofs, `CronSessions` over it, `TaskList`; then the proofs of
`ToolExecutor`, `QueryLoop`, `CronSessions`, `TaskList`, `EventUploader`, `Scheduler`,
`BatchExecution` and of the broadcasts of the bus.

Next to model: the write queue and the chains of the session storage; the
prompt queue with its guard; `WorkerStateUploader`, which merges patches while one
is being sent; mailboxes of teammates; in Python the background tasks (kill
against monitor and persisted state), the Redis and RabbitMQ buses over
`CircuitBreaker`, and the waves of `MissionDAG`.
