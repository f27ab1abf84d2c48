------------------------------ MODULE TaskList ------------------------------
(***************************************************************************)
(* The list of tasks that the agents of a team share                      *)
(* (src/claude/utils/tasks.ts), and its callers: the runner of teammates   *)
(* (utils/swarm/inProcessRunner.ts), the watcher of a list                 *)
(* (hooks/useTaskListWatcher.ts), the tools TaskCreate and TaskUpdate, and *)
(* the timer that clears a finished list (hooks/useTasksV2.ts).            *)
(*                                                                         *)
(* A task is a file that is read without a lock and rewritten in place     *)
(* under the file's lock; files are created and cleared under the lock of  *)
(* the list, and deleted under none.  Each agent is a process that runs    *)
(* one job at a time.  Each step is one call of the file system, with the  *)
(* calls before it that nothing can come between.                          *)
(***************************************************************************)
EXTENDS Integers, Sequences, FiniteSets

CONSTANTS
  Agents,
  MaxId,      \* bound on the tasks that are created
  MaxJobs,    \* bound on the jobs
  MaxExits    \* bound on the agents that are killed or shut down

ASSUME BoundsAssumption == MaxId \in Nat /\ MaxJobs \in Nat /\ MaxExits \in Nat

None == "none"
ASSUME AgentsAssumption == None \notin Agents

Ids == 1..MaxId
Open == {"pending", "in_progress"}

\* A file that is gone, or torn: opened for writing and not yet written.
Tasks == [owner : Agents \cup {None}, status : Open \cup {"completed", "gone", "torn"},
          blocks : SUBSET Ids, blockedBy : SUBSET Ids]
Task(status, before) ==
  [owner |-> None, status |-> status, blocks |-> {}, blockedBy |-> before]
Gone == Task("gone", {})
Torn == Task("torn", {})
New == Task("pending", {})

VARIABLES
  file,       \* the file of each task
  mark,       \* the file .highwatermark
  listLock, lock,
  job,        \* what each agent does
  alive,
  jobs,       \* jobs that were begun
  \* for the properties
  holds,      \* for each task, the agents whose claim of it succeeded
  given,      \* how often each id was given out
  done,       \* tasks that were completed
  faults      \* how jobs got into each other's way, see each property

data == <<file, mark>>
locks == <<listLock, lock>>
ghosts == <<holds, given, done, faults>>
vars == <<data, locks, job, alive, jobs, ghosts>>

\* A change of some fields of a task; base is the task as it was when the change was
\* decided on.
Update(id, fields, base, val) == [id |-> id, fields |-> fields, base |-> base, val |-> val]

NoJob == [kind |-> "none", step |-> "none", id |-> 0, seen |-> Gone, todo |-> <<>>, n |-> 0,
          left |-> {}]

Init ==
  /\ \E before \in {{}, {1}} :
       file = [i \in Ids |->
                 IF i = 1 THEN [New EXCEPT !.blocks = {j \in Ids : j = 2 /\ before # {}}]
                 ELSE IF i = 2 THEN Task("pending", before) ELSE Gone]
  /\ mark = 0
  /\ listLock = None /\ lock = [i \in Ids |-> None]
  /\ job = [a \in Agents |-> NoJob]
  /\ alive = [a \in Agents |-> TRUE]
  /\ jobs = 0
  /\ holds = [i \in Ids |-> {}]
  /\ given = [i \in Ids |-> IF file[i] = Gone THEN 0 ELSE 1]
  /\ done = {} /\ faults = {}

-----------------------------------------------------------------------------
(* Reading and locking.                                                    *)

\* getTask returns the task.
Readable(i) == file[i].status \notin {"gone", "torn"}

\* listTasks.
Listed == {i \in Ids : Readable(i)}
Unresolved == {i \in Listed : file[i].status # "completed"}
\* (mutant: blockers that are in progress are not waited for)
BlockedByPending(i) == \E b \in file[i].blockedBy \cap Listed : file[b].status = "pending"

Blocked(i) == file[i].blockedBy \cap Unresolved # {}

\* A lock of a process that died is stale after some time; before, those who try
\* to take it use up their retries.
Stale(l) == l \in {a \in Agents : ~alive[a]}
Free(l) == l = None \/ Stale(l)

In(a, step) == alive[a] /\ job[a].step = step
Goto(a, step) == job' = [job EXCEPT ![a].step = step]
End(a) == job' = [job EXCEPT ![a] = NoJob]

\* The next of the job's updates, or the end.
Updates(a, todo) ==
  job' = [job EXCEPT ![a] =
            IF todo = <<>> THEN NoJob ELSE [@ EXCEPT !.step = "update", !.todo = todo]]

Begin(a, kind, step, i, todo) ==
  /\ alive[a] /\ job[a] = NoJob
  /\ jobs < MaxJobs /\ jobs' = jobs + 1
  /\ job' = [job EXCEPT ![a] = [NoJob EXCEPT !.kind = kind, !.step = step, !.id = i,
                                             !.todo = todo]]
  /\ UNCHANGED <<data, locks, alive, ghosts>>

\* A change of these kinds gets another into its way.
Fault(kind, condition) == faults' = IF condition THEN faults \cup {kind} ELSE faults

-----------------------------------------------------------------------------
(* updateTask.                                                             *)

Head1(a) == Head(job[a].todo)

\* (mutant: the lock is not waited for)
LockIgnored(a) ==
  /\ In(a, "update")
  /\ LET u == Head1(a)
         i == u.id
     IN
     \/ /\ ~Readable(i)
        /\ Updates(a, Tail(job[a].todo))
        /\ Fault("missed", file[i] = Torn)
        /\ UNCHANGED locks
     \/ /\ Readable(i)
        /\ lock' = [lock EXCEPT ![i] = a]
        /\ job' = [job EXCEPT ![a].step = "open", ![a].id = i, ![a].seen = file[i]]
        /\ Fault("stale", \E f \in u.fields \cap {"blocks", "blockedBy"} : file[i][f] # u.base[f])
        /\ UNCHANGED listLock
     \/ /\ Readable(i) /\ Stale(lock[i])
        /\ End(a)
        /\ Fault("missed", TRUE)
        /\ UNCHANGED locks
  /\ UNCHANGED <<data, alive, jobs, holds, given, done>>

\* The task is read once its lock is taken.  Nothing happens if it cannot be read,
\* because it is gone or being written.
Lock(a) ==
  /\ In(a, "update")
  /\ LET u == Head1(a)
         i == u.id
     IN
     \/ /\ ~Readable(i)
        /\ Updates(a, Tail(job[a].todo))
        /\ Fault("missed", file[i] = Torn)
        /\ UNCHANGED locks
     \/ /\ Readable(i) /\ Free(lock[i])
        /\ lock' = [lock EXCEPT ![i] = a]
        /\ job' = [job EXCEPT ![a].step = "open", ![a].id = i, ![a].seen = file[i]]
        /\ Fault("stale", \E f \in u.fields \cap {"blocks", "blockedBy"} : file[i][f] # u.base[f])
        /\ UNCHANGED listLock
     \/ /\ Readable(i) /\ Stale(lock[i])
        /\ End(a)
        /\ Fault("missed", TRUE)
        /\ UNCHANGED locks
  /\ UNCHANGED <<data, alive, jobs, holds, given, done>>

\* The file is opened for writing, which creates it if it is gone,
OpenFile(a) ==
  /\ In(a, "open")
  /\ file' = [file EXCEPT ![job[a].id] = Torn]
  /\ Goto(a, "write")
  /\ UNCHANGED <<mark, locks, alive, jobs, ghosts>>

Changed(t, u) ==
  [owner |-> IF "owner" \in u.fields THEN u.val.owner ELSE t.owner,
   status |-> IF "status" \in u.fields THEN u.val.status ELSE t.status,
   blocks |-> IF "blocks" \in u.fields THEN u.val.blocks ELSE t.blocks,
   blockedBy |-> IF "blockedBy" \in u.fields THEN u.val.blockedBy ELSE t.blockedBy]

\* How a claim goes on when it has succeeded: a teammate marks the task in progress,
\* a watcher submits it or, when that is refused, releases it.
AfterClaim(i, t) ==
  {<<Update(i, {"status"}, t, [t EXCEPT !.status = "in_progress"])>>, <<>>,
   <<Update(i, {"owner"}, t, [t EXCEPT !.owner = None])>>}

Claimed(a, i, t) ==
  \E todo \in AfterClaim(i, t) :
    job' = [job EXCEPT ![a] =
              IF todo = <<>> THEN NoJob
              ELSE [@ EXCEPT !.kind = "claimed", !.step = "update", !.todo = todo]]

\* Another job has already decided on the status of a task.
Decided(a, i) ==
  \E b \in Agents \ {a} : \E k \in DOMAIN job[b].todo :
    job[b].todo[k].id = i /\ "status" \in job[b].todo[k].fields

\* and written, unless it was deleted meanwhile; the lock is released.
Write(a) ==
  LET u == Head1(a)
      i == u.id
      t == Changed(job[a].seen, u)
      claims == job[a].kind = "claim"
      finishes == job[a].seen.status # "completed" /\ t.status = "completed"
  IN
  /\ In(a, "write")
  /\ file' = [file EXCEPT ![i] = IF @ = Gone THEN Gone ELSE t]
  /\ lock' = [lock EXCEPT ![i] = IF @ = a THEN None ELSE @]
  /\ \/ ~claims /\ Updates(a, Tail(job[a].todo))
     \/ claims /\ Claimed(a, i, t)
  /\ holds' = [holds EXCEPT ![i] =
                 IF claims THEN @ \cup {a}
                 ELSE IF finishes THEN {}
                 ELSE IF "owner" \in u.fields THEN @ \ {a} ELSE @]
  /\ done' = IF finishes /\ file[i] # Gone THEN done \cup {i} ELSE done
  /\ Fault("late", finishes /\ Decided(a, i))
  /\ UNCHANGED <<mark, listLock, alive, jobs, given>>

-----------------------------------------------------------------------------
(* claimTask.                                                              *)

\* findAvailableTask, and its claim.
Find(a) ==
  \E i \in Listed :
    /\ file[i].status = "pending" /\ file[i].owner = None
    /\ ~Blocked(i)
    /\ Begin(a, "claim", "claim", i, <<>>)

\* (mutant: the owner is not looked at again)
ClaimLockOwned(a) ==
  LET i == job[a].id IN
  /\ In(a, "claim")
  /\ \/ ~Readable(i) /\ End(a) /\ UNCHANGED lock
     \/ Readable(i) /\ Stale(lock[i]) /\ End(a) /\ UNCHANGED lock
     \/ /\ Readable(i) /\ Free(lock[i])
        /\ IF file[i].status # "completed"
             THEN /\ lock' = [lock EXCEPT ![i] = a]
                  /\ Goto(a, "claimList")
             ELSE /\ lock' = [lock EXCEPT ![i] = None]
                  /\ End(a)
  /\ UNCHANGED <<data, listLock, alive, jobs, ghosts>>

\* (mutant: the status is not looked at again)
ClaimLockDone(a) ==
  LET i == job[a].id IN
  /\ In(a, "claim")
  /\ \/ ~Readable(i) /\ End(a) /\ UNCHANGED lock
     \/ Readable(i) /\ Stale(lock[i]) /\ End(a) /\ UNCHANGED lock
     \/ /\ Readable(i) /\ Free(lock[i])
        /\ IF file[i].owner \in {None, a}
             THEN /\ lock' = [lock EXCEPT ![i] = a]
                  /\ Goto(a, "claimList")
             ELSE /\ lock' = [lock EXCEPT ![i] = None]
                  /\ End(a)
  /\ UNCHANGED <<data, listLock, alive, jobs, ghosts>>

\* The task is read under its lock, and must be nobody else's nor completed.
ClaimLock(a) ==
  LET i == job[a].id IN
  /\ In(a, "claim")
  /\ \/ ~Readable(i) /\ End(a) /\ UNCHANGED lock
     \/ Readable(i) /\ Stale(lock[i]) /\ End(a) /\ UNCHANGED lock
     \/ /\ Readable(i) /\ Free(lock[i])
        /\ IF file[i].owner \in {None, a} /\ file[i].status # "completed"
             THEN /\ lock' = [lock EXCEPT ![i] = a]
                  /\ Goto(a, "claimList")
             ELSE /\ lock' = [lock EXCEPT ![i] = None]
                  /\ End(a)
  /\ UNCHANGED <<data, listLock, alive, jobs, ghosts>>

\* The other tasks are read for blockers, and the task once more.
ClaimList(a) ==
  LET i == job[a].id
      owned == [file[i] EXCEPT !.owner = a]
  IN
  /\ In(a, "claimList")
  /\ \/ /\ file[i] # Gone /\ Blocked(i)
        /\ End(a)
        /\ lock' = [lock EXCEPT ![i] = None]
        /\ UNCHANGED holds
     \/ /\ file[i] # Gone /\ ~Blocked(i)
        /\ job' = [job EXCEPT ![a].step = "open", ![a].seen = file[i],
                              ![a].todo = <<Update(i, {"owner"}, file[i], owned)>>]
        /\ UNCHANGED <<lock, holds>>
     \/ /\ file[i] = Gone                      \* reported as a success
        /\ Claimed(a, i, owned)
        /\ lock' = [lock EXCEPT ![i] = None]
        /\ holds' = [holds EXCEPT ![i] = @ \cup {a}]
  /\ Fault("blind", \E b \in file[i].blockedBy : file[b] = Torn)
  /\ UNCHANGED <<data, listLock, alive, jobs, given, done>>

-----------------------------------------------------------------------------
(* Other jobs that change tasks.                                           *)

\* TaskUpdate marks a task completed.
Finish(a) ==
  \E i \in Unresolved :
    Begin(a, "finish", "update", i,
          <<Update(i, {"status"}, file[i], [file[i] EXCEPT !.status = "completed"])>>)

\* blockTask: what each task is to hold is computed from what is read first.
\* Only earlier tasks block later ones here: no property is about cycles.
Block(a) ==
  \E i, j \in Listed :
    LET first == Update(i, {"blocks"}, file[i], [file[i] EXCEPT !.blocks = @ \cup {j}])
        second == Update(j, {"blockedBy"}, file[j], [file[j] EXCEPT !.blockedBy = @ \cup {i}])
    IN
    /\ i < j /\ j \notin file[i].blocks
    /\ Begin(a, "block", "update", i,
             IF i \in file[j].blockedBy THEN <<first>> ELSE <<first, second>>)

\* The orders in which a list may hold the tasks of S.
Orders(S) ==
  {s \in [1..Cardinality(S) -> S] : \A k, l \in DOMAIN s : s[k] = s[l] => k = l}

\* unassignTeammateTasks, of an agent that was killed or has shut down, by the
\* leader of the team.
Unassign(a) ==
  LET owned(b) == {i \in Unresolved : file[i].owner = b}
      release(i) == Update(i, {"owner", "status"}, file[i],
                           [file[i] EXCEPT !.owner = None, !.status = "pending"])
  IN
  /\ \A c \in Agents : job[c].kind # "unassign"
  /\ \E b \in Agents :
       /\ ~alive[b] /\ owned(b) # {}
       /\ \E order \in Orders(owned(b)) :
            Begin(a, "unassign", "update", 0, [k \in DOMAIN order |-> release(order[k])])

-----------------------------------------------------------------------------
(* createTask, deleteTask, resetTaskList.                                  *)

Create(a) == Begin(a, "create", "listLock", 0, <<>>)

\* The highest id is looked for among the files and in the mark at once.
ReadHighest(a) ==
  /\ In(a, "highest")
  /\ \E source \in job[a].left :
       job' = [job EXCEPT ![a].left = @ \ {source},
                          ![a].n = LET found == IF source = "mark" THEN {mark}
                                                ELSE {i \in Ids : file[i] # Gone}
                                   IN CHOOSE n \in found \cup {@} : \A m \in found \cup {@} : m =< n,
                          ![a].step = IF job[a].left = {source} THEN "create" ELSE "highest"]
  /\ UNCHANGED <<data, locks, alive, jobs, ghosts>>

WriteNew(a) ==
  LET i == job[a].n + 1 IN
  /\ In(a, "create")
  /\ i \in Ids
  /\ file' = [file EXCEPT ![i] = New]
  /\ given' = [given EXCEPT ![i] = @ + 1]
  /\ holds' = [holds EXCEPT ![i] = {}]
  /\ done' = done \ {i}
  /\ listLock' = None
  /\ End(a)
  /\ UNCHANGED <<mark, lock, alive, jobs, faults>>

ListLock(a) ==
  /\ In(a, "listLock")
  /\ Free(listLock)
  /\ listLock' = a
  /\ IF job[a].kind = "create"
       THEN job' = [job EXCEPT ![a].step = "highest", ![a].left = {"files", "mark"}]
       ELSE Goto(a, "reset")
  /\ UNCHANGED <<data, lock, alive, jobs, ghosts>>

\* deleteTask takes no lock.
Delete(a) == \E i \in Listed : Begin(a, "delete", "readMark", i, <<>>)

\* (mutant: the mark is not raised)
ReadMarkOnly(a) ==
  /\ In(a, "readMark")
  /\ Goto(a, "unlink")
  /\ Fault("overlap", \E b \in Agents : job[b].kind = "delete" /\ job[b].step = "unlink")
  /\ UNCHANGED <<data, locks, alive, jobs, holds, given, done>>

Deleting(b) == job[b].kind = "delete" /\ job[b].step \in {"writeMark", "unlink"}

ReadMark(a) ==
  /\ In(a, "readMark")
  /\ Goto(a, IF job[a].id > mark THEN "writeMark" ELSE "unlink")
  /\ Fault("overlap", \E b \in Agents : Deleting(b))
  /\ UNCHANGED <<data, locks, alive, jobs, holds, given, done>>

WriteMark(a) ==
  /\ In(a, "writeMark")
  /\ mark' = job[a].id
  /\ Goto(a, "unlink")
  /\ UNCHANGED <<file, locks, alive, jobs, ghosts>>

Unlink(a) ==
  LET i == job[a].id IN
  /\ In(a, "unlink")
  /\ file' = [file EXCEPT ![i] = Gone]
  /\ IF file[i] = Gone THEN End(a) ELSE Goto(a, "sweep")
  /\ holds' = [holds EXCEPT ![i] = {}]
  /\ done' = done \ {i}
  /\ Fault("overlap", lock[i] # None \/ \E b \in Agents : job[b].step = "highest")
  /\ UNCHANGED <<mark, locks, alive, jobs, given>>

\* References to the task are removed from the other tasks, one after another.
Sweep(a) ==
  LET i == job[a].id
      changed == {j \in Listed : i \in file[j].blocks \cup file[j].blockedBy}
      without(j) == Update(j, {"blocks", "blockedBy"}, file[j],
                           [file[j] EXCEPT !.blocks = @ \ {i}, !.blockedBy = @ \ {i}])
  IN
  /\ In(a, "sweep")
  /\ \E order \in Orders(changed) :
       Updates(a, [k \in DOMAIN order |-> without(order[k])])
  /\ UNCHANGED <<data, locks, alive, jobs, ghosts>>

\* The timer that clears the list finds all tasks completed.
Clear(a) ==
  /\ Listed # {} /\ Unresolved = {}
  /\ Begin(a, "reset", "listLock", 0, <<>>)

\* resetTaskList: the mark is raised, and all files are removed.
Reset(a) ==
  LET highest == CHOOSE n \in Ids \cup {0} :
                   /\ n = 0 \/ file[n] # Gone
                   /\ \A m \in Ids : file[m] # Gone => m =< n
  IN
  /\ In(a, "reset")
  /\ mark' = IF highest > mark THEN highest ELSE mark
  /\ file' = [i \in Ids |-> Gone]
  /\ holds' = [i \in Ids |-> {}]
  /\ done' = {}
  /\ listLock' = None
  /\ End(a)
  /\ Fault("overlap", \E b \in Agents \ {a} : Deleting(b) \/ job[b].step \in {"open", "claimList"})
  /\ UNCHANGED <<lock, alive, jobs, given>>

-----------------------------------------------------------------------------
(* The agents.                                                             *)

\* An agent is killed or shuts down; its files stay as they are.
Exit(a) ==
  /\ alive[a] /\ Cardinality({b \in Agents : ~alive[b]}) < MaxExits
  /\ alive' = [alive EXCEPT ![a] = FALSE]
  /\ End(a)
  /\ holds' = [i \in Ids |-> holds[i] \ {a}]
  /\ Fault("died", job[a] # NoJob)
  /\ UNCHANGED <<data, locks, jobs, given, done>>

Job(a) ==
  \/ Find(a) \/ Finish(a) \/ Block(a) \/ Unassign(a)
  \/ Create(a) \/ Delete(a) \/ Clear(a)

Step(a) ==
  \/ Lock(a) \/ OpenFile(a) \/ Write(a)
  \/ ClaimLock(a) \/ ClaimList(a)
  \/ ListLock(a) \/ ReadHighest(a) \/ WriteNew(a) \/ Reset(a)
  \/ ReadMark(a) \/ WriteMark(a) \/ Unlink(a) \/ Sweep(a)

Next == \E a \in Agents : Job(a) \/ Step(a) \/ Exit(a)

Spec == Init /\ [][Next]_vars
-----------------------------------------------------------------------------
(* Properties.                                                             *)

Fields == {"owner", "status", "blocks", "blockedBy"}
Changes == [id : Ids, fields : SUBSET Fields, base : Tasks, val : Tasks]
Jobs ==
  [kind : {"none", "claim", "claimed", "finish", "block", "unassign", "create", "delete", "reset"},
   step : {"none", "claim", "claimList", "update", "open", "write", "listLock", "highest",
           "create", "reset", "readMark", "writeMark", "unlink", "sweep"},
   id : Ids \cup {0}, seen : Tasks, todo : Seq(Changes), n : 0..MaxId,
   left : SUBSET {"files", "mark"}]

\* The variables keep their types.
TypeOK ==
  /\ file \in [Ids -> Tasks]
  /\ mark \in 0..MaxId
  /\ listLock \in Agents \cup {None} /\ lock \in [Ids -> Agents \cup {None}]
  /\ job \in [Agents -> Jobs]
  /\ alive \in [Agents -> BOOLEAN]
  /\ jobs \in 0..MaxJobs
  /\ holds \in [Ids -> SUBSET Agents]
  /\ given \in [Ids -> Nat]
  /\ done \subseteq Ids
  /\ faults \subseteq {"missed", "stale", "late", "blind", "overlap", "died"}

Without(kinds) == faults \cap kinds = {}

\* "Attempts to claim a task for an agent with file locking to prevent race
\* conditions": no two agents work on one task, although each finds it in a list
\* that was read without a lock, unless an id was given out again ("overlap"): the
\* release that follows a claim of the old task then frees the new one.
OneWinner == Without({"overlap"}) => \A i \in Ids : Cardinality(holds[i]) =< 1

\* A claimed task has no blocker that is not completed, unless one was being
\* written when the blockers were read ("blind"), or was reopened ("late"), or the
\* claim brought a deleted task back ("overlap").
ClaimIsFree ==
  [][\A i \in Ids : (holds'[i] \ holds[i] # {} /\ Without({"blind", "late", "overlap"})) =>
       \A b \in file'[i].blockedBy : file[b].status \notin Open]_vars

\* A completed task stays completed, unless another job had decided on its status
\* before it was ("late").
CompletedStays ==
  Without({"late"}) => \A i \in done : file[i].status \in {"completed", "torn", "gone"}

\* "Update high water mark before deleting to prevent ID reuse": an id is given out
\* once, unless a delete overlaps another, or the search for the highest id, or
\* a write ("overlap").
IdsFresh == Without({"overlap"}) => \A i \in Ids : given[i] =< 1

\* What blocks and what is blocked agree in tasks that nobody changes, unless a job
\* wrote what it had computed from an older state of a task ("stale"), could not read
\* one that was being written ("missed"), or died between the two tasks it was about
\* to write ("died"), or a delete ran across another, a create or a writer ("overlap").
BlocksAgree ==
  (\A a \in Agents : job[a] = NoJob) /\ Without({"stale", "missed", "died", "overlap"}) =>
    \A i, j \in Listed : j \in file[i].blocks <=> i \in file[j].blockedBy
=============================================================================
