----------------------------- MODULE Scheduler -----------------------------
(***************************************************************************)
(* Scheduler (scheduling/scheduler.py) with its executors and its job      *)
(* store: a task on the event loop that fires due cron and loop jobs kept  *)
(* in a PostgreSQL table, while jobs are added and removed, the scheduler  *)
(* is stopped and started, and the process crashes.                        *)
(*                                                                         *)
(* Every statement sent to the database is a step, and so is every await   *)
(* of the on_fire callback.  A cancellation is delivered at the await the  *)
(* tick task is in, before the task goes on.                               *)
(*                                                                         *)
(* Time is what the table's timestamps make of it: whether a job is due.   *)
(* A loop job without max_iterations behaves like a recurring cron job     *)
(* without jitter and has no kind of its own.                              *)
(***************************************************************************)
EXTENDS Integers, FiniteSets

CONSTANTS
  Jobs,           \* the ids of jobs, each added at most once
  Offered,        \* the kinds of job that may be added under an id
  MaxIterations,  \* max_iterations of the loop jobs
  MaxJobs,        \* MAX_JOBS
  Controllers,    \* the coroutines that call start and stop
  Ticks, NoTick,  \* tick tasks (bound: how many exist at a time), and none of them
  MaxTroubles     \* bound: stops, crashes and failing statements

\* Of the cron jobs, a malformed one has an expression that does not parse.
Kinds == {"recurring", "oneshot", "malformed", "loop"}

ASSUME OfferedAssumption == Offered \in [Jobs -> SUBSET Kinds]
ASSUME BoundsAssumption == MaxIterations \in Nat /\ MaxJobs \in Nat /\ MaxTroubles \in Nat
ASSUME TicksAssumption == NoTick \notin Ticks

VARIABLES
  row,        \* the table: a job's kind, status, whether it is due, iteration_count
  adding,     \* the jobs whose add has counted the table and not yet inserted
  tick,       \* the tick tasks
  cancelled,  \* those with a cancellation to be delivered
  task,       \* self._task
  isRunning, isInitialized,
  ctl,        \* where a controller stands, and the task its stop awaits
  done,       \* the callbacks that returned, per job (no variable of the code)
  troubles    \* the stops, crashes and failing statements so far

memory == <<tick, cancelled, task, isRunning, isInitialized, ctl>>
vars == <<row, adding, memory, done, troubles>>

\* A job is "new" before its insert and "gone" after its delete; a snapshot taken
\* before still knows its kind.
Statuses == {"new", "pending", "running", "completed", "failed", "gone"}
Terminal == {"completed", "failed"}
Present(j) == row[j].status \notin {"new", "gone"}

\* due: before next_fire, between it and the largest jitter, or after both.
Dues == {"no", "jitter", "yes"}
Kind(j) == row[j].kind
IsCron(j) == Kind(j) # "loop"

\* What a tick task does with a job of its snapshot.
Verdicts == {"fire", "complete", "fail"}
Places == {"none", "sleep", "cron", "loop",          \* the loop and its two queries
           "next", "retire",                         \* the walk over the snapshot
           "mark", "call", "fired", "count", "settle", "fail"}  \* _fire_job
InFire == {"mark", "call", "fired", "count", "settle", "fail"}

\* The number of callbacks after which a job completes, for the jobs that do.
Limit(j) == IF Kind(j) = "oneshot" THEN 1 ELSE MaxIterations
Limited(j) == Kind(j) \in {"oneshot", "loop"}

-----------------------------------------------------------------------------
NoTask == [at |-> "none", of |-> "cron", todo |-> {}, job |-> {}, to |-> "pending"]
AtRest == [at |-> "idle", awaits |-> NoTick]

Init ==
  /\ row = [j \in Jobs |-> [kind |-> "recurring", status |-> "new", due |-> "no", count |-> 0]]
  /\ adding = {}
  /\ tick = [l \in Ticks |-> NoTask]
  /\ cancelled = {}
  /\ task = NoTick
  /\ isRunning = FALSE
  /\ isInitialized = FALSE
  /\ ctl = [c \in Controllers |-> AtRest]
  /\ done = [j \in Jobs |-> 0]
  /\ troubles = 0

Trouble == troubles < MaxTroubles /\ troubles' = troubles + 1

-----------------------------------------------------------------------------
(* JobStore.                                                               *)

Active == Cardinality({j \in Jobs : Present(j) /\ row[j].status \notin Terminal})

\* add_cron_job and add_loop_job: the table is counted, and in another
\* statement the row is inserted.  A loop job is due from the beginning.
CountJobs(j) ==
  /\ row[j].status = "new" /\ j \notin adding
  /\ isInitialized' = TRUE
  /\ Active < MaxJobs
  /\ adding' = adding \cup {j}
  /\ UNCHANGED <<row, tick, cancelled, task, isRunning, ctl, done, troubles>>

InsertJob(j) ==
  /\ j \in adding
  /\ adding' = adding \ {j}
  /\ \E k \in Offered[j] :
       row' = [row EXCEPT ![j] = [kind |-> k, status |-> "pending", count |-> 0,
                                  due |-> IF k = "loop" THEN "yes" ELSE "no"]]
  /\ UNCHANGED <<memory, done, troubles>>

Deleted(j) == [kind |-> Kind(j), status |-> "gone", due |-> "no", count |-> 0]

RemoveJob(j) ==
  /\ Present(j)
  /\ row' = [row EXCEPT ![j] = Deleted(j)]
  /\ UNCHANGED <<adding, memory, done, troubles>>

CleanupCompleted ==
  /\ \E j \in Jobs : row[j].status \in Terminal
  /\ row' = [j \in Jobs |-> IF row[j].status \in Terminal THEN Deleted(j) ELSE row[j]]
  /\ UNCHANGED <<adding, memory, done, troubles>>

\* Time makes a job due, a cron job first within its jitter only.
TimePasses(j) ==
  /\ Present(j) /\ row[j].due # "yes" /\ Kind(j) # "malformed"
  /\ row' = [row EXCEPT ![j].due = IF @ = "no" /\ IsCron(j) THEN "jitter" ELSE "yes"]
  /\ UNCHANGED <<adding, memory, done, troubles>>

\* UPDATE ... WHERE id: no row, no effect.
SetStatus(j, status) ==
  row' = [row EXCEPT ![j].status = IF Present(j) THEN status ELSE @]

\* (mutants: jobs left running are not found again; finished jobs are found too)
ActiveJobsPending == {j \in Jobs : row[j].status = "pending"}
ActiveJobsAll == {j \in Jobs : Present(j)}

\* The jobs both queries look at: a job that was left running is one of them.
ActiveJobs == {j \in Jobs : row[j].status \in {"pending", "running"}}

-----------------------------------------------------------------------------
(* start and stop.                                                         *)

\* A tick task is created and becomes self._task.
CreateTask(l) ==
  /\ tick[l].at = "none"
  /\ tick' = [tick EXCEPT ![l].at = "sleep"]
  /\ task' = l
  /\ isRunning' = TRUE
  /\ UNCHANGED cancelled

\* start: the flag is read before initialize is awaited and set after.
Start(c) ==
  /\ ctl[c].at = "idle" /\ ~isRunning
  /\ \/ /\ isInitialized
        /\ \E l \in Ticks : CreateTask(l)
        /\ UNCHANGED ctl
     \/ /\ ~isInitialized
        /\ ctl' = [ctl EXCEPT ![c].at = "init"]
        /\ UNCHANGED <<tick, cancelled, task, isRunning>>
  /\ UNCHANGED <<row, adding, isInitialized, done, troubles>>

FinishStart(c) ==
  /\ ctl[c].at = "init"
  /\ isInitialized' = TRUE
  /\ \E l \in Ticks : CreateTask(l)
  /\ ctl' = [ctl EXCEPT ![c].at = "idle"]
  /\ UNCHANGED <<row, adding, done, troubles>>

\* (mutant: stop does not wait for the task)
StopUnawaited(c) ==
  /\ ctl[c].at = "idle" /\ isRunning
  /\ Trouble
  /\ isRunning' = FALSE
  /\ cancelled' = cancelled \cup ({task} \cap Ticks)
  /\ task' = NoTick
  /\ UNCHANGED <<row, adding, tick, isInitialized, ctl, done>>

\* stop: the task is cancelled and awaited.
Stop(c) ==
  /\ ctl[c].at = "idle" /\ isRunning
  /\ Trouble
  /\ isRunning' = FALSE
  /\ IF task # NoTick
     THEN /\ cancelled' = cancelled \cup {l \in {task} : tick[l].at # "none"}
          /\ ctl' = [ctl EXCEPT ![c] = [at |-> "stopping", awaits |-> task]]
     ELSE UNCHANGED <<cancelled, ctl>>
  /\ UNCHANGED <<row, adding, tick, task, isInitialized, done>>

StopReturns(c) ==
  /\ ctl[c].at = "stopping"
  /\ tick[ctl[c].awaits].at = "none"
  /\ task' = NoTick
  /\ ctl' = [ctl EXCEPT ![c] = AtRest]
  /\ UNCHANGED <<row, adding, tick, cancelled, isRunning, isInitialized, done, troubles>>

\* The process dies and comes up again with the same table.
Crash ==
  /\ Trouble
  /\ adding' = {}
  /\ tick' = [l \in Ticks |-> NoTask]
  /\ cancelled' = {}
  /\ task' = NoTick
  /\ isRunning' = FALSE
  /\ isInitialized' = FALSE
  /\ ctl' = [c \in Controllers |-> AtRest]
  /\ UNCHANGED <<row, done>>

-----------------------------------------------------------------------------
(* The tick task: _tick_loop, CronExecutor and LoopExecutor.               *)

At(l, place) == tick[l].at = place /\ l \notin cancelled
Goto(l, place) == tick' = [tick EXCEPT ![l].at = place]
OwnStep == UNCHANGED <<adding, cancelled, task, isRunning, isInitialized, ctl>>

\* CancelledError ends the task wherever it is: nothing of the job is updated.
CancelDelivered(l) ==
  /\ l \in cancelled
  /\ cancelled' = cancelled \ {l}
  /\ tick' = [tick EXCEPT ![l] = NoTask]
  /\ UNCHANGED <<row, adding, task, isRunning, isInitialized, ctl, done, troubles>>

\* The top of the loop: another tick, or the end of the task.
Wake(l) ==
  /\ At(l, "sleep")
  /\ tick' = [tick EXCEPT ![l] = IF isRunning THEN [@ EXCEPT !.at = "cron"] ELSE NoTask]
  /\ OwnStep /\ UNCHANGED <<row, done, troubles>>

\* get_due_cron_jobs and the test of each job against the snapshot's time: a
\* cron that does not parse fails its job, and jitter decides while it may.
QueryCron(l) ==
  LET candidates == {j \in ActiveJobs : IsCron(j)}
      malformed == {j \in candidates : Kind(j) = "malformed"}
      due(d) == {j \in candidates \ malformed : row[j].due = d}
  IN /\ At(l, "cron")
     /\ \E early \in SUBSET due("jitter") :
          tick' = [tick EXCEPT ![l] =
                     [NoTask EXCEPT !.at = "next", !.of = "cron",
                        !.todo = {<<j, "fire">> : j \in due("yes") \cup early}
                                   \cup {<<j, "fail">> : j \in malformed}]]
     /\ OwnStep /\ UNCHANGED <<row, done, troubles>>

\* get_due_loop_jobs; a job whose iterations are used up is to be completed.
QueryLoop(l) ==
  LET due == {j \in ActiveJobs : ~IsCron(j) /\ row[j].due = "yes"}
      verdict(j) == IF row[j].count >= MaxIterations THEN "complete" ELSE "fire"
  IN /\ At(l, "loop")
     /\ tick' = [tick EXCEPT ![l] =
                   [NoTask EXCEPT !.at = "next", !.of = "loop",
                                  !.todo = {<<j, verdict(j)>> : j \in due}]]
     /\ OwnStep /\ UNCHANGED <<row, done, troubles>>

\* The next job of the snapshot, whatever has become of its row since; after
\* the cron jobs come the loop jobs, and then a sleep.
NextJob(l) ==
  /\ At(l, "next")
  /\ \/ /\ tick[l].todo = {}
        /\ Goto(l, IF tick[l].of = "cron" THEN "loop" ELSE "sleep")
     \/ \E entry \in tick[l].todo :
          tick' = [tick EXCEPT ![l] =
                     [@ EXCEPT !.todo = tick[l].todo \ {entry}, !.job = {entry[1]},
                               !.at = IF entry[2] = "fire" THEN "mark" ELSE "retire",
                               !.to = IF entry[2] = "fail" THEN "failed" ELSE "completed"]]
  /\ OwnStep /\ UNCHANGED <<row, done, troubles>>

TheJob(l) == CHOOSE j \in Jobs : j \in tick[l].job

\* The tick's own update of a job that is not fired.
Retire(l) ==
  /\ At(l, "retire")
  /\ SetStatus(TheJob(l), tick[l].to)
  /\ Goto(l, "next")
  /\ OwnStep /\ UNCHANGED <<done, troubles>>

\* _fire_job: the job is marked as running and the callback is awaited.
MarkRunning(l) ==
  /\ At(l, "mark")
  /\ SetStatus(TheJob(l), "running")
  /\ Goto(l, "call")
  /\ OwnStep /\ UNCHANGED <<done, troubles>>

\* The count of returned callbacks stops at what tells the properties apart.
CallReturns(l) ==
  LET j == TheJob(l) IN
  /\ At(l, "call")
  /\ done' = [done EXCEPT ![j] = IF @ =< MaxIterations + MaxTroubles THEN @ + 1 ELSE @]
  /\ Goto(l, "fired")
  /\ OwnStep /\ UNCHANGED <<row, troubles>>

CallRaises(l) ==
  /\ At(l, "call")
  /\ Goto(l, "fail")
  /\ OwnStep /\ UNCHANGED <<row, done, troubles>>

\* mark_fired; a cron job is then due again or completed, a loop job counted.
MarkFired(l) ==
  LET j == TheJob(l) IN
  /\ At(l, "fired")
  /\ row' = [row EXCEPT ![j].due = IF Present(j) THEN "no" ELSE @]
  /\ tick' = [tick EXCEPT ![l] =
                [@ EXCEPT !.at = IF IsCron(j) THEN "settle" ELSE "count",
                          !.to = IF Kind(j) = "oneshot" THEN "completed" ELSE "pending"]]
  /\ OwnStep /\ UNCHANGED <<done, troubles>>

\* increment_iteration returns the new count, 0 if the row is gone.
IncrementIteration(l) ==
  LET j == TheJob(l)
      new == IF Present(j) THEN row[j].count + 1 ELSE 0
  IN /\ At(l, "count")
     /\ row' = [row EXCEPT ![j].count = IF Present(j) THEN new ELSE @]
     /\ tick' = [tick EXCEPT ![l] =
                   [@ EXCEPT !.at = "settle",
                             !.to = IF new >= MaxIterations THEN "completed" ELSE "pending"]]
     /\ OwnStep /\ UNCHANGED <<done, troubles>>

Settle(l) ==
  /\ At(l, "settle")
  /\ SetStatus(TheJob(l), tick[l].to)
  /\ Goto(l, "next")
  /\ OwnStep /\ UNCHANGED <<done, troubles>>

\* The except clause of _fire_job.
MarkFailed(l) ==
  /\ At(l, "fail")
  /\ SetStatus(TheJob(l), "failed")
  /\ Goto(l, "next")
  /\ OwnStep /\ UNCHANGED <<done, troubles>>

\* A statement raises: within the try of _fire_job the job is to be failed,
\* anywhere else the tick is given up and the task sleeps.
StatementFails(l) ==
  /\ l \notin cancelled
  /\ Trouble
  /\ \/ tick[l].at \in {"fired", "count", "settle"} /\ Goto(l, "fail")
     \/ /\ tick[l].at \in {"cron", "loop", "retire", "mark", "fail"}
        /\ tick' = [tick EXCEPT ![l] = [NoTask EXCEPT !.at = "sleep"]]
  /\ OwnStep /\ UNCHANGED <<row, done>>

-----------------------------------------------------------------------------
TickStep(l) ==
  \/ CancelDelivered(l) \/ Wake(l) \/ QueryCron(l) \/ QueryLoop(l) \/ NextJob(l)
  \/ Retire(l) \/ MarkRunning(l) \/ CallReturns(l) \/ CallRaises(l)
  \/ MarkFired(l) \/ IncrementIteration(l) \/ Settle(l) \/ MarkFailed(l)

Next ==
  \/ \E j \in Jobs : CountJobs(j) \/ InsertJob(j) \/ RemoveJob(j) \/ TimePasses(j)
  \/ \E c \in Controllers : Start(c) \/ FinishStart(c) \/ Stop(c) \/ StopReturns(c)
  \/ \E l \in Ticks : TickStep(l) \/ StatementFails(l)
  \/ CleanupCompleted \/ Crash

Spec == Init /\ [][Next]_vars

\* The event loop and the database answer, callbacks end, time passes, and
\* whoever stopped the scheduler, or came up after a crash, starts it again.
FairSpec ==
  /\ Spec
  /\ \A l \in Ticks : WF_vars(TickStep(l))
  /\ \A c \in Controllers : WF_vars(Start(c) \/ FinishStart(c) \/ StopReturns(c))
  /\ \A j \in Jobs : WF_vars(TimePasses(j))

-----------------------------------------------------------------------------
(* Properties.                                                             *)

\* The variables keep their types, and no job is counted beyond its limit.
TypeOK ==
  /\ row \in [Jobs -> [kind : Kinds, status : Statuses, due : Dues, count : 0 .. MaxIterations]]
  /\ adding \subseteq Jobs
  /\ tick \in [Ticks -> [at : Places, of : {"cron", "loop"}, todo : SUBSET (Jobs \X Verdicts),
                         job : SUBSET Jobs, to : {"pending", "completed", "failed"}]]
  /\ cancelled \subseteq Ticks
  /\ task \in Ticks \cup {NoTick}
  /\ isRunning \in BOOLEAN /\ isInitialized \in BOOLEAN
  /\ ctl \in [Controllers -> [at : {"idle", "init", "stopping"}, awaits : Ticks \cup {NoTick}]]
  /\ done \in [Jobs -> Nat]
  /\ troubles \in 0 .. MaxTroubles

\* A job is in one _fire_job at a time: its callback never overlaps itself,
\* though the scheduler is stopped in the middle of it and started again.
NoOverlap ==
  \A j \in Jobs :
    Cardinality({l \in Ticks : tick[l].at \in InFire /\ j \in tick[l].job}) =< 1

\* A job that should run a number of times is repeated at most once for every
\* stop, crash or failing statement: at least once each, and rarely more.
RepeatsBounded ==
  \A j \in Jobs : Limited(j) => done[j] =< Limit(j) + troubles

\* A job left running by a stop or a crash is taken up again: it does not stay
\* in that status for ever.
RunningEnds == \A j \in Jobs : row[j].status = "running" ~> row[j].status # "running"
=============================================================================
