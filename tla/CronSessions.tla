---------------------------- MODULE CronSessions ----------------------------
(***************************************************************************)
(* The scheduled tasks of a project (src/claude/utils/cronScheduler.ts and *)
(* cronTasks.ts): sessions keep them in one file, which each reads, watches *)
(* and rewrites as a whole; the owner of the lock fires them.              *)
(*                                                                         *)
(* Time passes in units: a recurring task is due once in each, a one-shot  *)
(* task from the time DueAt on.  A task is fired by a tick of the owner; to *)
(* remove it from the file, or to mark it fired, takes some calls of the   *)
(* file system, between which others make theirs.                          *)
(***************************************************************************)
EXTENDS CronLock

CONSTANTS
  OneShots, Recurring,  \* tasks
  DueAt,                \* when a one-shot task is due
  MaxTime               \* bound on the time

ASSUME TasksAssumption == OneShots \cap Recurring = {}
ASSUME TimesAssumption == DueAt \in Nat \ {0} /\ MaxTime \in Nat

Tasks == OneShots \cup Recurring
Absent == -1
Unset == -1
Infinity == MaxTime + 2

\* What a file holds: for each task the time from which its next fire counts,
\* lastFiredAt or createdAt.
Contents == [Tasks -> Absent..MaxTime]
Nothing == [t \in Tasks |-> Absent]

VARIABLES
  now,
  file,        \* scheduled_tasks.json
  tasks,       \* for each session, what it read of the file
  nextFireAt, inFlight,
  loaded,      \* whether the first load is done
  dirty,       \* whether the watcher has a change to report
  ops,         \* the changes of the file that are under way: records of OpType
  \* for the properties
  fires,       \* fires of each task, of a recurring one in this unit of time
  asks,        \* times the user was asked about a missed task
  created,     \* tasks that were in the file at some time
  faults       \* what went wrong so far, see Undisturbed

taskVars == <<now, file, tasks, nextFireAt, inFlight, loaded, dirty, ops>>
ghostVars == <<fires, asks, created, faults>>
vars == <<lockVars, taskVars, ghostVars>>

OpType == [kind : {"remove", "mark", "add"}, ids : SUBSET Tasks, at : 0..MaxTime,
           step : {"read", "open", "write"}, snap : Contents]

NewOp(kind, ids) ==
  [kind |-> kind, ids |-> ids, at |-> now, step |-> "read", snap |-> Nothing]

Init ==
  /\ LockInit
  /\ now = 0
  /\ created \in SUBSET Recurring
  /\ file = [t \in Tasks |-> IF t \in created THEN 0 ELSE Absent]
  /\ tasks = [s \in Sessions |-> Nothing]
  /\ nextFireAt = [s \in Sessions |-> [t \in Tasks |-> Unset]]
  /\ inFlight = [s \in Sessions |-> {}]
  /\ loaded = [s \in Sessions |-> FALSE] /\ dirty = [s \in Sessions |-> FALSE]
  /\ ops = [s \in Sessions |-> {}]
  /\ fires = [t \in Tasks |-> 0] /\ asks = [t \in Tasks |-> 0]
  /\ faults = {}

Runs(s) == mode[s] = "running"

\* The file was truncated, and is not yet written: what is read now is empty.
Truncated == \E z \in Sessions : \E o \in ops[z] : o.step = "write"
Torn == IF Truncated THEN {"torn"} ELSE {}

Tick ==
  /\ now < MaxTime
  /\ now' = now + 1
  /\ fires' = [t \in Tasks |-> IF t \in Recurring THEN 0 ELSE fires[t]]
  /\ UNCHANGED <<lockVars, file, tasks, nextFireAt, inFlight, loaded, dirty, ops, asks,
                 created, faults>>

-----------------------------------------------------------------------------
(* The schedule.                                                           *)

\* (mutant: recurring tasks are not left to check)
MissedAll(t) == file[t] # Absent /\ DueAt < now

\* findMissedTasks, of tasks that do not recur.
Missed(t) == t \in OneShots /\ file[t] # Absent /\ DueAt < now

\* load(true): missed one-shot tasks are shown to the user and removed, whoever
\* owns the lock.
Load(s) ==
  LET missed == {t \in Tasks : Missed(t)} IN
  /\ Runs(s) /\ ~loaded[s]
  /\ loaded' = [loaded EXCEPT ![s] = TRUE]
  /\ tasks' = [tasks EXCEPT ![s] = file]
  /\ nextFireAt' = [nextFireAt EXCEPT ![s] =
                      [t \in Tasks |-> IF t \in missed THEN Infinity ELSE @[t]]]
  /\ ops' = [ops EXCEPT ![s] = IF missed = {} THEN @ ELSE @ \cup {NewOp("remove", missed)}]
  /\ asks' = [t \in Tasks |-> IF t \in missed THEN asks[t] + 1 ELSE asks[t]]
  /\ faults' = faults \cup Torn \cup IF missed # {} /\ Others(s) # {} THEN {"overdue"} ELSE {}
  /\ UNCHANGED <<lockVars, now, file, inFlight, dirty, fires, created>>

\* load(false), when the watcher reports a change.
Reload(s) ==
  /\ Runs(s) /\ loaded[s] /\ dirty[s]
  /\ tasks' = [tasks EXCEPT ![s] = file]
  /\ dirty' = [dirty EXCEPT ![s] = FALSE]
  /\ faults' = faults \cup Torn
  /\ UNCHANGED <<lockVars, now, file, nextFireAt, inFlight, loaded, ops, fires, asks, created>>

\* (mutant: a task that is seen for the first time counts from now)
NextRunFromNow(t, from) ==
  IF t \in Recurring THEN from + 1 ELSE IF now < DueAt THEN DueAt ELSE Infinity

\* When a task is next due, as check computes it on first sight.
NextRun(t, from) ==
  IF t \in Recurring THEN from + 1 ELSE IF from < DueAt THEN DueAt ELSE Infinity

Known(s) == {t \in Tasks : tasks[s][t] # Absent}

Scheduled(s, t) ==
  IF nextFireAt[s][t] = Unset THEN NextRun(t, tasks[s][t]) ELSE nextFireAt[s][t]

\* (mutant: tasks that were fired but are not yet removed are not skipped)
DueAgain(s) == {t \in Known(s) : Scheduled(s, t) =< now}

Due(s) == {t \in Known(s) \ inFlight[s] : Scheduled(s, t) =< now}

\* check, of the owner: every task that is due is fired.  Fired tasks are marked
\* in one write; each one-shot task is removed in one of its own.
Check(s) ==
  LET due == Due(s)
      again == due \cap Recurring
      once == due \cap OneShots
      next == [t \in Tasks |->
                 IF t \notin Known(s) \/ t \in once THEN Unset
                 ELSE IF t \in inFlight[s] THEN nextFireAt[s][t]
                 ELSE IF t \in again THEN NextRun(t, now) ELSE Scheduled(s, t)]
  IN
  /\ Runs(s) /\ isOwner[s]
  /\ due # {} \/ next # nextFireAt[s]
  /\ nextFireAt' = [nextFireAt EXCEPT ![s] = next]
  /\ inFlight' = [inFlight EXCEPT ![s] = @ \cup due]
  /\ ops' = [ops EXCEPT ![s] =
               @ \cup {NewOp("remove", {t}) : t \in once}
                 \cup (IF again = {} THEN {} ELSE {NewOp("mark", again)})]
  /\ fires' = [t \in Tasks |-> IF t \in due THEN fires[t] + 1 ELSE fires[t]]
  /\ faults' = IF \E t \in due : tasks[s][t] # file[t] THEN faults \cup {"stale"} ELSE faults
  /\ UNCHANGED <<lockVars, now, file, tasks, loaded, dirty, asks, created>>

\* CronCreate, in any session: each task has an id of its own.
Add(s, t) ==
  /\ Runs(s)
  /\ t \in OneShots /\ now < DueAt
  /\ t \notin created
  /\ \A z \in Sessions : \A o \in ops[z] : o.kind # "add"
  /\ ops' = [ops EXCEPT ![s] = @ \cup {NewOp("add", {t})}]
  /\ UNCHANGED <<lockVars, now, file, tasks, nextFireAt, inFlight, loaded, dirty,
                 ghostVars>>

\* check, of a session that is not the owner, which sees no task of the file.
Evict(s) ==
  /\ Runs(s) /\ ~isOwner[s]
  /\ \E t \in Tasks : nextFireAt[s][t] # Unset
  /\ nextFireAt' = [nextFireAt EXCEPT ![s] = [t \in Tasks |-> Unset]]
  /\ faults' = IF ops[s] = {} THEN faults ELSE faults \cup {"overdue"}
  /\ UNCHANGED <<lockVars, now, file, tasks, inFlight, loaded, dirty, ops, fires, asks,
                 created>>

-----------------------------------------------------------------------------
(* addCronTask, removeCronTasks, markCronTasksFired.                       *)

\* What the change makes of the tasks it read.
Changed(o, content) ==
  [t \in Tasks |->
     IF t \notin o.ids \/ (o.kind # "add" /\ content[t] = Absent) THEN content[t]
     ELSE IF o.kind = "remove" THEN Absent ELSE o.at]

Becomes(s, o, p) == ops' = [ops EXCEPT ![s] = (@ \ {o}) \cup {p}]

\* The change is over: its tasks may be fired again.
Over(s, o) ==
  /\ ops' = [ops EXCEPT ![s] = @ \ {o}]
  /\ inFlight' = [inFlight EXCEPT ![s] = IF o.kind = "add" THEN @ ELSE @ \ o.ids]

\* readCronTasks.  Nothing is written if nothing changes.
OpRead(s, o) ==
  /\ o.step = "read"
  /\ IF Changed(o, file) = file
       THEN Over(s, o)
       ELSE /\ Becomes(s, o, [o EXCEPT !.step = "open", !.snap = file])
            /\ UNCHANGED inFlight
  /\ faults' = faults \cup Torn
  /\ UNCHANGED <<lockVars, now, file, tasks, nextFireAt, loaded, dirty, fires, asks,
                 created>>

\* writeCronTasks: the file is truncated first,
OpOpen(s, o) ==
  /\ o.step = "open"
  /\ file' = Nothing
  /\ faults' = IF file = o.snap THEN faults ELSE faults \cup {"overwritten"}
  /\ Becomes(s, o, [o EXCEPT !.step = "write"])
  /\ UNCHANGED <<lockVars, now, tasks, nextFireAt, inFlight, loaded, dirty, fires, asks,
                 created>>

\* and then written.
OpWrite(s, o) ==
  /\ o.step = "write"
  /\ file' = Changed(o, o.snap)
  /\ faults' = IF file = Nothing THEN faults ELSE faults \cup {"overwritten"}
  /\ Over(s, o)
  /\ dirty' = [z \in Sessions |-> loaded[z]]
  /\ created' = created \cup {t \in Tasks : file'[t] # Absent}
  /\ UNCHANGED <<lockVars, now, tasks, nextFireAt, loaded, fires, asks>>

OpStep(s) == \E o \in ops[s] : OpRead(s, o) \/ OpOpen(s, o) \/ OpWrite(s, o)

-----------------------------------------------------------------------------
(* The lock, and the life of the sessions.                                 *)

\* Steps for the lock do not touch the tasks.
Lock(s) ==
  /\ LockStep(s) \/ Start(s) \/ Probe(s)
  /\ UNCHANGED <<taskVars, ghostVars>>

\* The scheduler stops; changes that are under way go on.
StopTasks(s) ==
  /\ Stop(s)
  /\ faults' = IF ops[s] = {} THEN faults ELSE faults \cup {"stopped"}
  /\ UNCHANGED <<taskVars, fires, asks, created>>

\* The process dies, with its changes where they are.
CrashTasks(s) ==
  /\ Crash(s)
  /\ tasks' = [tasks EXCEPT ![s] = Nothing]
  /\ nextFireAt' = [nextFireAt EXCEPT ![s] = [t \in Tasks |-> Unset]]
  /\ inFlight' = [inFlight EXCEPT ![s] = {}]
  /\ loaded' = [loaded EXCEPT ![s] = FALSE] /\ dirty' = [dirty EXCEPT ![s] = FALSE]
  /\ ops' = [ops EXCEPT ![s] = {}]
  /\ faults' = IF ops[s] = {} THEN faults ELSE faults \cup {"died"}
  /\ UNCHANGED <<now, file, fires, asks, created>>

Next ==
  \/ Tick
  \/ \E s \in Sessions :
       \/ Load(s) \/ Reload(s) \/ Check(s) \/ Evict(s) \/ OpStep(s)
       \/ \E t \in OneShots : Add(s, t)
       \/ Lock(s) \/ StopTasks(s) \/ CrashTasks(s)

Spec == Init /\ [][Next]_vars

\* Calls of the file system return, timers go off, and watchers report.
FairSpec ==
  /\ Spec
  /\ \A s \in Sessions :
       /\ WF_vars(Load(s)) /\ WF_vars(Reload(s)) /\ WF_vars(Check(s)) /\ WF_vars(OpStep(s))
       /\ WF_vars(LockStep(s) /\ UNCHANGED <<taskVars, ghostVars>>)
       /\ WF_vars(Probe(s) /\ UNCHANGED <<taskVars, ghostVars>>)
-----------------------------------------------------------------------------
(* Properties.                                                             *)

\* The variables keep their types.
TypeOK ==
  /\ LockTypeOK
  /\ now \in 0..MaxTime
  /\ file \in Contents
  /\ tasks \in [Sessions -> Contents]
  /\ nextFireAt \in [Sessions -> [Tasks -> Nat \cup {Unset}]]
  /\ inFlight \in [Sessions -> SUBSET Tasks]
  /\ loaded \in [Sessions -> BOOLEAN] /\ dirty \in [Sessions -> BOOLEAN]
  /\ ops \in [Sessions -> SUBSET OpType]
  /\ fires \in [Tasks -> Nat] /\ asks \in [Tasks -> Nat] /\ created \subseteq Tasks
  /\ faults \subseteq {"overdue", "stale", "torn", "overwritten", "stopped", "died"}

\* The ways in which sessions disturb one another.  A lock was taken from a live
\* session (raced); a session started with a missed task while another was alive, or
\* forgot, not being the owner, that it has asked about one which it still removes
\* ("overdue"); the owner fired from a copy of the file that was out of date, as it is
\* between a change and the watcher's report ("stale"); the file was read while it was
\* truncated ("torn"), or written although it had changed since it was read
\* ("overwritten"); a session stopped or died with a change under way.
Undisturbed == ~raced /\ faults = {}

\* "The lock exists to stop two Claude sessions in the same cwd from double-firing
\* the same on-disk task": a one-shot task is fired once, or the user is asked
\* about it once, and a recurring task is fired once in each unit of time, through
\* deaths, resumptions and changes of the owner.
FiresOnce == Undisturbed => \A t \in Tasks : fires[t] + asks[t] =< 1

Quiet == \A s \in Sessions : ops[s] = {}

\* A task leaves the file only if it was fired or asked about, although sessions
\* rewrite the file as a whole.
NothingLost ==
  Undisturbed /\ Quiet =>
    \A t \in created : file[t] = Absent => t \in OneShots /\ fires[t] + asks[t] > 0

\* A task that is due is fired, or the user is asked about it, while there is a
\* session that runs.
DueIsFired ==
  \A t \in OneShots :
    (file[t] # Absent /\ now >= DueAt) ~>
      (fires[t] + asks[t] > 0 \/ ~Undisturbed \/ \A s \in Sessions : mode[s] # "running")
=============================================================================
