-------------------------- MODULE Scheduler_proofs --------------------------
(***************************************************************************)
(* Theorems about the scheduler, for any jobs, limits, tick tasks and      *)
(* troubles, when one coroutine calls start and stop: the callbacks of a   *)
(* job do not overlap, and a job is repeated only for a trouble.           *)
(***************************************************************************)
EXTENDS Scheduler, FiniteSetTheorems, TLAPS

-----------------------------------------------------------------------------
(* The invariant.                                                          *)

\* start and stop are called by one coroutine, as the docstring of Scheduler does: one call
\* is over when the next is made.
OneController == \A c, d \in Controllers : c = d

\* At most one tick task is live, the one that start made last, and only while the
\* scheduler runs or stop waits for it.
TasksOK ==
  /\ \A l \in Ticks : tick[l].at = "none" => tick[l] = NoTask
  /\ \A l \in Ticks : tick[l].at # "none" =>
       l = task /\ (isRunning \/ \E c \in Controllers : ctl[c].at = "stopping")
  /\ \A c \in Controllers : ctl[c].at # "idle" => ~isRunning
  /\ \A c \in Controllers : ctl[c].at = "stopping" => ctl[c].awaits = task

\* The tick task that goes on.
Current == IF task \in Ticks \ cancelled THEN tick[task] ELSE NoTask

\* A walk over a snapshot: each job of it comes once, and is treated as its kind says.
WalkOK(t, table) ==
  /\ \A e \in t.todo : /\ e[1] \notin t.job /\ table[e[1]].status # "new"
                       /\ e[2] = "fail" => table[e[1]].kind = "malformed"
                       /\ e[2] = "complete" => table[e[1]].kind = "loop"
  /\ \A e, f \in t.todo : e[1] = f[1] => e = f
  /\ t.at \in InFire \cup {"retire"} => \E j \in Jobs : t.job = {j}
  /\ \A j \in t.job : /\ table[j].status # "new"
                      /\ t.at = "retire" => table[j].kind # "oneshot"
                      /\ t.at = "count" => table[j].kind = "loop"
                      /\ t.at = "settle" /\ table[j].kind = "oneshot" => t.to = "completed"

\* What a row knows of the callbacks that returned, and of how many there should be.
Progress(x) ==
  IF x.kind = "loop" THEN x.count
  ELSE IF x.kind = "oneshot" /\ x.status = "completed" THEN 1 ELSE 0
Goal(x) == IF x.kind = "loop" THEN MaxIterations ELSE 1

\* The callback of a job will be called without another look at the table; or it has
\* returned, and the table is still to be told.
Ahead(t, j) == <<j, "fire">> \in t.todo \/ (t.at \in {"mark", "call"} /\ j \in t.job)
Untold(t, x, j) ==
  j \in t.job /\ t.at \in (IF x.kind = "loop" THEN {"fired", "count"} ELSE {"fired", "settle"})

\* Of n callbacks of a job that returned the table knows all but one for each trouble, and
\* for the one that is still to be told.
CountsOK(t, x, n, m, j) ==
  /\ x.status = "new" => n = 0
  /\ x.kind \in {"oneshot", "loop"} /\ x.status \notin {"new", "gone"} =>
       /\ n =< Progress(x) + m + (IF Untold(t, x, j) THEN 1 ELSE 0)
       /\ Progress(x) =< Goal(x)
       /\ Ahead(t, j) \/ Untold(t, x, j) => Progress(x) < Goal(x)
       /\ x.kind = "oneshot" /\ t.at \in InFire /\ j \in t.job => x.status # "completed"
  /\ x.kind \in {"oneshot", "loop"} /\ x.status = "gone" =>
       n + (IF Ahead(t, j) THEN 1 ELSE 0) =< Goal(x) + m

IInv ==
  /\ TypeOK /\ TasksOK
  /\ \A j \in adding : row[j].status = "new"
  /\ WalkOK(Current, row)
  /\ \A j \in Jobs : CountsOK(Current, row[j], done[j], troubles, j)

RowType == [kind : Kinds, status : Statuses, due : Dues, count : 0 .. MaxIterations]
TickType == [at : Places, of : {"cron", "loop"}, todo : SUBSET (Jobs \X Verdicts),
             job : SUBSET Jobs, to : {"pending", "completed", "failed"}]

\* A task that does not exist has nothing ahead.
LEMMA NoTaskIdle ==
  /\ NoTask \in TickType /\ NoTask.at = "none"
  /\ \A j, x : ~Ahead(NoTask, j) /\ ~Untold(NoTask, x, j)
  /\ \A table : WalkOK(NoTask, table)
<1>1. /\ NoTask.at = "none" /\ NoTask.todo = {} /\ NoTask.job = {} /\ NoTask.of = "cron"
      /\ NoTask.to = "pending"
  BY DEF NoTask
<1>2. NoTask \in TickType
  BY DEF NoTask, TickType, Places
<1>3. \A j, x : ~Ahead(NoTask, j) /\ ~Untold(NoTask, x, j)
  BY <1>1 DEF Ahead, Untold
<1>4. \A table : WalkOK(NoTask, table)
  BY <1>1 DEF WalkOK, InFire
<1> QED
  BY <1>1, <1>2, <1>3, <1>4

\* What a row knows is a number.
LEMMA ProgressType ==
  ASSUME NEW x \in RowType
  PROVE  Progress(x) \in Nat /\ Goal(x) \in Nat
<1>1. x.count \in Nat
  BY BoundsAssumption DEF RowType
<1> QED
  BY <1>1, BoundsAssumption DEF Progress, Goal

\* A job is as well counted as before after a step that returns no callback of it and does
\* not change what its row knows, if it begins no call and, unless it is a trouble, does
\* not forget one.
LEMMA CountsKept ==
  ASSUME NEW t, NEW x \in RowType, NEW n \in Nat, NEW m \in Nat, NEW j, CountsOK(t, x, n, m, j),
         NEW t2, NEW x2 \in RowType, NEW m2 \in Nat, m2 >= m,
         x2.kind = x.kind, Progress(x2) = Progress(x),
         x2.status = "new" <=> x.status = "new", x2.status = "gone" <=> x.status = "gone",
         Ahead(t2, j) => Ahead(t, j), Untold(t2, x, j) => Untold(t, x, j),
         x.kind \in {"oneshot", "loop"} /\ Untold(t, x, j) => Untold(t2, x, j) \/ m2 > m,
         x.kind = "oneshot" /\ t2.at \in InFire /\ j \in t2.job => x2.status # "completed"
  PROVE  CountsOK(t2, x2, n, m2, j)
<1>1. Progress(x) \in Nat /\ Goal(x) \in Nat /\ Goal(x2) = Goal(x)
  BY ProgressType DEF Goal
<1>2. Untold(t2, x2, j) <=> Untold(t2, x, j)
  BY DEF Untold
<1>3. ASSUME x2.kind \in {"oneshot", "loop"}, x2.status \notin {"new", "gone"}
      PROVE  /\ n =< Progress(x2) + m2 + (IF Untold(t2, x2, j) THEN 1 ELSE 0)
             /\ Progress(x2) =< Goal(x2)
             /\ Ahead(t2, j) \/ Untold(t2, x2, j) => Progress(x2) < Goal(x2)
             /\ x2.kind = "oneshot" /\ t2.at \in InFire /\ j \in t2.job => x2.status # "completed"
  <2>1. /\ n =< Progress(x) + m + (IF Untold(t, x, j) THEN 1 ELSE 0)
        /\ Progress(x) =< Goal(x)
        /\ Ahead(t, j) \/ Untold(t, x, j) => Progress(x) < Goal(x)
    BY <1>3 DEF CountsOK
  <2>2. n =< Progress(x2) + m2 + (IF Untold(t2, x2, j) THEN 1 ELSE 0)
    <3>1. CASE Untold(t, x, j) /\ ~Untold(t2, x, j)
      BY <1>1, <1>2, <1>3, <2>1, <3>1
    <3>2. CASE ~(Untold(t, x, j) /\ ~Untold(t2, x, j))
      BY <1>1, <1>2, <2>1, <3>2
    <3> QED
      BY <3>1, <3>2
  <2> QED
    BY <1>1, <1>2, <2>1, <2>2
<1>4. x2.kind \in {"oneshot", "loop"} /\ x2.status = "gone" =>
        n + (IF Ahead(t2, j) THEN 1 ELSE 0) =< Goal(x2) + m2
  <2>1. x2.kind \in {"oneshot", "loop"} /\ x2.status = "gone" =>
          n + (IF Ahead(t, j) THEN 1 ELSE 0) =< Goal(x) + m
    BY DEF CountsOK
  <2> QED
    BY <1>1, <2>1
<1>5. x2.status = "new" => n = 0
  BY DEF CountsOK
<1> QED
  BY <1>3, <1>4, <1>5 DEF CountsOK

\* A job may be removed whatever is done with it.
LEMMA CountsDeleted ==
  ASSUME NEW t, NEW table, NEW j, NEW x \in RowType, x = table[j], NEW n \in Nat, NEW m \in Nat,
         CountsOK(t, x, n, m, j), WalkOK(t, table), x.status \notin {"new", "gone"},
         NEW x2, x2.kind = x.kind, x2.status = "gone"
  PROVE  CountsOK(t, x2, n, m, j)
<1>1. Progress(x) \in Nat /\ Goal(x) \in Nat /\ Goal(x2) = Goal(x)
  BY ProgressType DEF Goal
<1>2. Ahead(t, j) => ~Untold(t, x, j)
  <2>1. <<j, "fire">> \in t.todo => j \notin t.job
    <3>1. <<j, "fire">>[1] = j
      OBVIOUS
    <3> QED
      BY <3>1 DEF WalkOK
  <2> QED
    BY <2>1 DEF Ahead, Untold
<1>3. x2.kind \in {"oneshot", "loop"} => n + (IF Ahead(t, j) THEN 1 ELSE 0) =< Goal(x2) + m
  BY <1>1, <1>2 DEF CountsOK
<1> QED
  BY <1>3 DEF CountsOK

\* The live task is the one that start made last, and the others are none.
LEMMA OneIsCurrent ==
  ASSUME IInv, NEW l \in Ticks, tick[l].at # "none", l \notin cancelled
  PROVE  l = task /\ Current = tick[l] /\ tick[l] \in TickType
  BY DEF IInv, TasksOK, TypeOK, Current, TickType

\* A step of the tick task that goes on.
LEMMA TickMoves ==
  ASSUME IInv, NEW l \in Ticks, tick[l].at # "none", l \notin cancelled, OwnStep,
         NEW t2 \in TickType, t2.at = "none" => t2 = NoTask, tick' = [tick EXCEPT ![l] = t2],
         row' \in [Jobs -> RowType], done' \in [Jobs -> Nat], troubles' \in 0 .. MaxTroubles,
         \A j \in Jobs : row[j].status = "new" => row'[j].status = "new",
         WalkOK(t2, row'),
         \A j \in Jobs : CountsOK(t2, row'[j], done'[j], troubles', j)
  PROVE  IInv'
<1>1. /\ l = task /\ task \in Ticks \ cancelled
      /\ UNCHANGED <<adding, cancelled, task, isRunning, isInitialized, ctl>>
  BY OneIsCurrent DEF OwnStep
<1>2. /\ tick \in [Ticks -> TickType] /\ adding \subseteq Jobs
      /\ cancelled \subseteq Ticks /\ task \in Ticks \cup {NoTick}
      /\ ctl \in [Controllers -> [at : {"idle", "init", "stopping"}, awaits : Ticks \cup {NoTick}]]
      /\ \A j \in adding : row[j].status = "new"
      /\ TasksOK
  BY DEF IInv, TypeOK, TickType
<1>3. isRunning \in BOOLEAN /\ isInitialized \in BOOLEAN
  BY DEF IInv, TypeOK
<1>4. tick' \in [Ticks -> TickType]
  BY <1>2
<1>5. isRunning' \in BOOLEAN /\ isInitialized' \in BOOLEAN
  BY <1>1, <1>3
<1>6. TypeOK'
  BY <1>1, <1>2, <1>4, <1>5 DEF TypeOK, TickType, RowType
<1>7. Current' = t2
  BY <1>1, <1>2 DEF Current
<1>8. TasksOK'
  BY <1>1, <1>2 DEF TasksOK
<1>9. \A j \in adding' : row'[j].status = "new"
  BY <1>1, <1>2
<1> QED
  BY <1>6, <1>7, <1>8, <1>9 DEF IInv

\* What a step makes of a job that it does not count.
Keeps(t, x, m, t2, x2, m2, j) ==
  /\ x2.kind = x.kind /\ Progress(x2) = Progress(x)
  /\ x2.status = "new" <=> x.status = "new"
  /\ x2.status = "gone" <=> x.status = "gone"
  /\ Ahead(t2, j) => Ahead(t, j)
  /\ Untold(t2, x, j) => Untold(t, x, j)
  /\ x.kind \in {"oneshot", "loop"} /\ Untold(t, x, j) => Untold(t2, x, j) \/ m2 > m
  /\ x.kind = "oneshot" /\ t2.at \in InFire /\ j \in t2.job => x2.status # "completed"

\* What is known where the tick task goes on.
LEMMA WhereItIs ==
  ASSUME IInv, NEW l \in Ticks, tick[l].at # "none", l \notin cancelled
  PROVE  /\ tick[l] \in TickType /\ WalkOK(tick[l], row)
         /\ row \in [Jobs -> RowType] /\ done \in [Jobs -> Nat] /\ troubles \in 0 .. MaxTroubles
         /\ troubles \in Nat /\ tick \in [Ticks -> TickType]
         /\ \A j \in Jobs : CountsOK(tick[l], row[j], done[j], troubles, j)
<1>1. Current = tick[l] /\ tick[l] \in TickType
  BY OneIsCurrent
<1> QED
  BY <1>1, BoundsAssumption DEF IInv, TypeOK, RowType, TickType

LEMMA TickKeeps ==
  ASSUME IInv, NEW l \in Ticks, tick[l].at # "none", l \notin cancelled, OwnStep,
         NEW t2 \in TickType, t2.at = "none" => t2 = NoTask, tick' = [tick EXCEPT ![l] = t2],
         row' \in [Jobs -> RowType], done' = done,
         troubles' \in 0 .. MaxTroubles, troubles' >= troubles,
         WalkOK(t2, row'),
         \A j \in Jobs : Keeps(tick[l], row[j], troubles, t2, row'[j], troubles', j)
  PROVE  IInv'
<1>1. /\ row \in [Jobs -> RowType] /\ done \in [Jobs -> Nat]
      /\ troubles \in Nat /\ troubles' \in Nat
      /\ \A j \in Jobs : CountsOK(tick[l], row[j], done[j], troubles, j)
  BY WhereItIs, BoundsAssumption
<1>2. ASSUME NEW j \in Jobs PROVE CountsOK(t2, row'[j], done'[j], troubles', j)
  <2>1. PICK t, x, x2, n, m, m2 : /\ t = tick[l] /\ x = row[j] /\ x2 = row'[j] /\ n = done[j]
                                  /\ m = troubles /\ m2 = troubles'
    OBVIOUS
  <2>2. /\ x \in RowType /\ x2 \in RowType /\ n \in Nat /\ m \in Nat /\ m2 \in Nat /\ m2 >= m
        /\ CountsOK(t, x, n, m, j) /\ Keeps(t, x, m, t2, x2, m2, j)
    BY <1>1, <2>1
  <2>3. CountsOK(t2, x2, n, m2, j)
    BY <2>2, CountsKept DEF Keeps
  <2> QED
    BY <2>1, <2>3
<1>3. \A j \in Jobs : row[j].status = "new" => row'[j].status = "new"
  BY DEF Keeps
<1>4. done' \in [Jobs -> Nat]
  BY <1>1
<1> QED
  BY <1>2, <1>3, <1>4, TickMoves

\* A task that only goes elsewhere.
LEMMA GotoType ==
  ASSUME NEW t \in TickType, NEW p \in Places
  PROVE  LET t2 == [t EXCEPT !.at = p]
         IN  /\ t2 \in TickType /\ t2.at = p
             /\ t2.todo = t.todo /\ t2.job = t.job /\ t2.to = t.to /\ t2.of = t.of
BY DEF TickType

\* The status of a job, if it is there.
LEMMA StatusSet ==
  ASSUME row \in [Jobs -> RowType], NEW i \in Jobs, NEW status \in Statuses \ {"new", "gone"},
         SetStatus(i, status)
  PROVE  /\ row' \in [Jobs -> RowType]
         /\ \A j \in Jobs : /\ row'[j].kind = row[j].kind /\ row'[j].count = row[j].count
                            /\ j # i => row'[j] = row[j]
                            /\ row'[j].status = "new" <=> row[j].status = "new"
                            /\ row'[j].status = "gone" <=> row[j].status = "gone"
         /\ row'[i].status = IF Present(i) THEN status ELSE row[i].status
<1>1. PICK s2 : s2 = (IF Present(i) THEN status ELSE row[i].status)
  OBVIOUS
<1>2. row[i] \in RowType /\ s2 \in Statuses
  BY <1>1 DEF RowType
<1>3. row' = [row EXCEPT ![i] = [row[i] EXCEPT !.status = s2]]
  BY <1>1 DEF SetStatus
<1>4. \A x \in RowType : LET y == [x EXCEPT !.status = s2]
                         IN  y \in RowType /\ y.kind = x.kind /\ y.count = x.count /\ y.status = s2
  BY <1>2 DEF RowType
<1>5. PICK y : y = [row[i] EXCEPT !.status = s2]
  OBVIOUS
<1>6. y \in RowType /\ y.kind = row[i].kind /\ y.count = row[i].count /\ y.status = s2
  BY <1>2, <1>4, <1>5
<1>7. row'[i] = y /\ \A j \in Jobs \ {i} : row'[j] = row[j]
  BY <1>3, <1>5
<1>8. row' \in [Jobs -> RowType]
  BY <1>3, <1>5, <1>6
<1>9. /\ s2 = "new" <=> row[i].status = "new"
      /\ s2 = "gone" <=> row[i].status = "gone"
  BY <1>1 DEF Present
<1> QED
  BY <1>1, <1>6, <1>7, <1>8, <1>9

\* The job in hand.
LEMMA JobInHand ==
  ASSUME NEW l, WalkOK(tick[l], row), tick[l].at \in InFire \cup {"retire"}
  PROVE  /\ TheJob(l) \in Jobs /\ tick[l].job = {TheJob(l)}
         /\ \A e \in tick[l].todo : e[1] # TheJob(l)
         /\ row[TheJob(l)].status # "new"
<1>1. PICK i \in Jobs : tick[l].job = {i}
  BY DEF WalkOK
<1>2. TheJob(l) = i
  BY <1>1 DEF TheJob
<1> QED
  BY <1>1, <1>2 DEF WalkOK

\* A walk goes on.
LEMMA WalkKept ==
  ASSUME NEW t \in TickType, NEW table, WalkOK(t, table), NEW t2, NEW table2,
         \A j \in Jobs : /\ table2[j].kind = table[j].kind
                         /\ table2[j].status = "new" => table[j].status = "new",
         t2.todo = t.todo, t2.job = t.job,
         t2.at # "retire", t2.at \in InFire => t.at \in InFire,
         \A j \in t.job : /\ t2.at = "count" => table[j].kind = "loop"
                          /\ t2.at = "settle" /\ table[j].kind = "oneshot" => t2.to = "completed"
  PROVE  WalkOK(t2, table2)
<1>1. t.job \subseteq Jobs /\ \A e \in t.todo : e[1] \in Jobs
  BY DEF TickType
<1> QED
  BY <1>1 DEF WalkOK, InFire

-----------------------------------------------------------------------------
(* Steps of the tick task.                                                 *)

LEMMA WakeKeeps == ASSUME IInv, NEW l \in Ticks, Wake(l) PROVE IInv'
<1>1. /\ tick[l].at = "sleep" /\ l \notin cancelled /\ OwnStep
      /\ row' = row /\ done' = done /\ troubles' = troubles
  BY DEF Wake, At
<1>2. PICK t, t2, up : /\ t = tick[l]
                       /\ up = [t EXCEPT !.at = "cron"]
                       /\ t2 = (IF isRunning THEN up ELSE NoTask)
  OBVIOUS
<1>3. tick' = [tick EXCEPT ![l] = t2]
  BY <1>2 DEF Wake
<1>4. /\ t \in TickType /\ WalkOK(t, row) /\ row \in [Jobs -> RowType]
      /\ troubles \in 0 .. MaxTroubles /\ troubles \in Nat
  BY <1>1, <1>2, WhereItIs
<1>5. up \in TickType /\ up.at = "cron" /\ up.todo = t.todo /\ up.job = t.job
  BY <1>2, <1>4, GotoType DEF Places
<1>6. WalkOK(up, row)
  BY <1>4, <1>5, WalkKept DEF InFire
<1>7. t2 \in TickType /\ (t2.at = "none" => t2 = NoTask) /\ WalkOK(t2, row')
  BY <1>1, <1>2, <1>5, <1>6, NoTaskIdle
<1>8. ASSUME NEW j \in Jobs PROVE Keeps(t, row[j], troubles, t2, row'[j], troubles', j)
  <2>1. /\ Ahead(t2, j) => Ahead(t, j)
        /\ ~Untold(t, row[j], j) /\ ~Untold(t2, row[j], j) /\ t2.at \notin InFire
    BY <1>1, <1>2, <1>5, NoTaskIdle DEF Ahead, Untold, InFire
  <2> QED
    BY <1>1, <2>1 DEF Keeps
<1>9. /\ tick[l].at # "none" /\ l \notin cancelled /\ OwnStep
      /\ t2 \in TickType /\ (t2.at = "none" => t2 = NoTask) /\ tick' = [tick EXCEPT ![l] = t2]
      /\ row' \in [Jobs -> RowType] /\ done' = done
      /\ troubles' \in 0 .. MaxTroubles /\ troubles' >= troubles
      /\ WalkOK(t2, row')
      /\ \A j \in Jobs : Keeps(tick[l], row[j], troubles, t2, row'[j], troubles', j)
  BY <1>1, <1>2, <1>3, <1>4, <1>7, <1>8
<1> QED
  BY <1>9, TickKeeps

\* The snapshot that a query returns: the jobs to fire have callbacks to go.
LEMMA SnapshotGood ==
  ASSUME IInv, NEW l \in Ticks, tick[l].at \in {"cron", "loop"}, l \notin cancelled, OwnStep,
         NEW t2 \in TickType, tick' = [tick EXCEPT ![l] = t2],
         UNCHANGED <<row, done, troubles>>, t2.at = "next", t2.job = {},
         \A e, f \in t2.todo : e[1] = f[1] => e = f,
         \A e \in t2.todo : /\ e[1] \in ActiveJobs
                            /\ e[2] = "fail" => row[e[1]].kind = "malformed"
                            /\ e[2] = "complete" => row[e[1]].kind = "loop"
                            /\ e[2] = "fire" /\ row[e[1]].kind = "loop" =>
                                 row[e[1]].count < MaxIterations
  PROVE  IInv'
<1>1. PICK t : t = tick[l]
  OBVIOUS
<1>2. /\ t \in TickType /\ WalkOK(t, row) /\ row \in [Jobs -> RowType]
      /\ done \in [Jobs -> Nat] /\ troubles \in 0 .. MaxTroubles /\ troubles \in Nat
      /\ \A j \in Jobs : CountsOK(t, row[j], done[j], troubles, j)
  BY <1>1, WhereItIs
<1>3. \A j \in ActiveJobs : j \in Jobs /\ row[j].status \in {"pending", "running"}
  BY DEF ActiveJobs
<1>4. WalkOK(t2, row)
  BY <1>3 DEF WalkOK, InFire
<1>5. ASSUME NEW j \in Jobs PROVE CountsOK(t2, row[j], done[j], troubles, j)
  <2>1. PICK x, n, m : x = row[j] /\ n = done[j] /\ m = troubles
    OBVIOUS
  <2>2. x \in RowType /\ n \in Nat /\ m \in Nat /\ CountsOK(t, x, n, m, j)
        /\ Progress(x) \in Nat /\ Goal(x) \in Nat
    BY <1>2, <2>1, ProgressType
  <2>3. ~Untold(t, x, j) /\ ~Untold(t2, x, j) /\ t2.at \notin InFire
    BY <1>1 DEF Untold, InFire
  <2>4. ASSUME Ahead(t2, j), x.kind \in {"oneshot", "loop"}
        PROVE  x.status \in {"pending", "running"} /\ Progress(x) < Goal(x)
    <3>1. <<j, "fire">> \in t2.todo /\ <<j, "fire">>[1] = j /\ <<j, "fire">>[2] = "fire"
      BY <2>4 DEF Ahead
    <3>2. x.status \in {"pending", "running"} /\ (x.kind = "loop" => x.count < MaxIterations)
      BY <1>3, <2>1, <3>1
    <3> QED
      BY <2>4, <3>2 DEF Progress, Goal
  <2>5. CountsOK(t2, x, n, m, j)
    BY <2>2, <2>3, <2>4 DEF CountsOK
  <2> QED
    BY <2>1, <2>5
<1>6. /\ tick[l].at # "none" /\ l \notin cancelled /\ OwnStep
      /\ t2 \in TickType /\ (t2.at = "none" => t2 = NoTask) /\ tick' = [tick EXCEPT ![l] = t2]
      /\ row' \in [Jobs -> RowType] /\ done' \in [Jobs -> Nat] /\ troubles' \in 0 .. MaxTroubles
      /\ \A j \in Jobs : row[j].status = "new" => row'[j].status = "new"
      /\ WalkOK(t2, row')
      /\ \A j \in Jobs : CountsOK(t2, row'[j], done'[j], troubles', j)
  BY <1>2, <1>4, <1>5
<1> QED
  BY <1>6, TickMoves

LEMMA QueryCronKeeps == ASSUME IInv, NEW l \in Ticks, QueryCron(l) PROVE IInv'
<1> DEFINE candidates == {j \in ActiveJobs : IsCron(j)}
           malformed == {j \in candidates : Kind(j) = "malformed"}
           due(d) == {j \in candidates \ malformed : row[j].due = d}
           snapshot(early) == {<<j, "fire">> : j \in due("yes") \cup early}
                                \cup {<<j, "fail">> : j \in malformed}
           walk(early) == [NoTask EXCEPT !.at = "next", !.of = "cron", !.todo = snapshot(early)]
<1>1. tick[l].at = "cron" /\ l \notin cancelled /\ OwnStep /\ UNCHANGED <<row, done, troubles>>
  BY DEF QueryCron, At
<1>2. PICK early \in SUBSET due("jitter") : tick' = [tick EXCEPT ![l] = walk(early)]
  BY DEF QueryCron
<1>3. /\ \A j \in malformed : j \in ActiveJobs /\ j \in Jobs /\ row[j].kind = "malformed"
      /\ \A j \in due("yes") \cup early :
           j \in ActiveJobs /\ j \in Jobs /\ j \notin malformed /\ row[j].kind # "loop"
  BY DEF ActiveJobs, IsCron, Kind
<1>4. \A e \in snapshot(early) :
        \/ e[1] \in due("yes") \cup early /\ e = <<e[1], "fire">> /\ e[2] = "fire"
        \/ e[1] \in malformed /\ e = <<e[1], "fail">> /\ e[2] = "fail"
  OBVIOUS
<1>5. /\ snapshot(early) \in SUBSET (Jobs \X Verdicts)
      /\ \A e, f \in snapshot(early) : e[1] = f[1] => e = f
      /\ \A e \in snapshot(early) :
           /\ e[1] \in ActiveJobs
           /\ e[2] = "fail" => row[e[1]].kind = "malformed"
           /\ e[2] = "complete" => row[e[1]].kind = "loop"
           /\ e[2] = "fire" /\ row[e[1]].kind = "loop" => row[e[1]].count < MaxIterations
  <2>1. snapshot(early) \in SUBSET (Jobs \X Verdicts)
    BY <1>3 DEF Verdicts
  <2>2. \A e, f \in snapshot(early) : e[1] = f[1] => e = f
    BY <1>3, <1>4
  <2> QED
    BY <1>3, <1>4, <2>1, <2>2
<1> HIDE DEF snapshot
<1>6. /\ walk(early) \in TickType /\ walk(early).at = "next" /\ walk(early).job = {}
      /\ walk(early).todo = snapshot(early)
  BY <1>5 DEF NoTask, TickType, Places
<1> HIDE DEF walk
<1>7. PICK t2 : t2 = walk(early)
  OBVIOUS
<1>8. /\ tick[l].at \in {"cron", "loop"}
      /\ t2 \in TickType /\ tick' = [tick EXCEPT ![l] = t2] /\ t2.at = "next" /\ t2.job = {}
      /\ \A e, f \in t2.todo : e[1] = f[1] => e = f
      /\ \A e \in t2.todo : /\ e[1] \in ActiveJobs
                            /\ e[2] = "fail" => row[e[1]].kind = "malformed"
                            /\ e[2] = "complete" => row[e[1]].kind = "loop"
                            /\ e[2] = "fire" /\ row[e[1]].kind = "loop" =>
                                 row[e[1]].count < MaxIterations
  BY <1>1, <1>2, <1>5, <1>6, <1>7
<1> QED
  BY <1>1, <1>8, SnapshotGood

LEMMA QueryLoopKeeps == ASSUME IInv, NEW l \in Ticks, QueryLoop(l) PROVE IInv'
<1> DEFINE due == {j \in ActiveJobs : ~IsCron(j) /\ row[j].due = "yes"}
           verdict(j) == IF row[j].count >= MaxIterations THEN "complete" ELSE "fire"
           snapshot == {<<j, verdict(j)>> : j \in due}
           walk == [NoTask EXCEPT !.at = "next", !.of = "loop", !.todo = snapshot]
<1>1. tick[l].at = "loop" /\ l \notin cancelled /\ OwnStep /\ UNCHANGED <<row, done, troubles>>
  BY DEF QueryLoop, At
<1>2. tick' = [tick EXCEPT ![l] = walk]
  BY DEF QueryLoop
<1>3. \A j \in due : j \in ActiveJobs /\ j \in Jobs /\ row[j].kind = "loop"
  BY DEF ActiveJobs, IsCron, Kind
<1>4. \A e \in snapshot : e[1] \in due /\ e = <<e[1], verdict(e[1])>> /\ e[2] = verdict(e[1])
  OBVIOUS
<1>5. row \in [Jobs -> RowType] /\ MaxIterations \in Nat
  BY <1>1, WhereItIs, BoundsAssumption
<1>6. /\ snapshot \in SUBSET (Jobs \X Verdicts)
      /\ \A e, f \in snapshot : e[1] = f[1] => e = f
      /\ \A e \in snapshot :
           /\ e[1] \in ActiveJobs
           /\ e[2] = "fail" => row[e[1]].kind = "malformed"
           /\ e[2] = "complete" => row[e[1]].kind = "loop"
           /\ e[2] = "fire" /\ row[e[1]].kind = "loop" => row[e[1]].count < MaxIterations
  <2>1. snapshot \in SUBSET (Jobs \X Verdicts)
    BY <1>3 DEF Verdicts
  <2>2. \A e, f \in snapshot : e[1] = f[1] => e = f
    BY <1>4
  <2>3. \A j \in Jobs : row[j].count \in Nat
    BY <1>5 DEF RowType
  <2>4. \A e \in snapshot : e[2] = "fire" => row[e[1]].count < MaxIterations
    BY <1>3, <1>4, <1>5, <2>3
  <2>5. \A e \in snapshot : e[2] # "fail" /\ e[1] \in ActiveJobs /\ row[e[1]].kind = "loop"
    BY <1>3, <1>4
  <2> QED
    BY <2>1, <2>2, <2>4, <2>5
<1> HIDE DEF snapshot
<1>7. walk \in TickType /\ walk.at = "next" /\ walk.job = {} /\ walk.todo = snapshot
  BY <1>6 DEF NoTask, TickType, Places
<1> HIDE DEF walk
<1> QED
  BY <1>1, <1>2, <1>6, <1>7, SnapshotGood

LEMMA NextJobKeeps == ASSUME IInv, NEW l \in Ticks, NextJob(l) PROVE IInv'
<1>1. /\ tick[l].at = "next" /\ l \notin cancelled /\ OwnStep
      /\ row' = row /\ done' = done /\ troubles' = troubles
  BY DEF NextJob, At
<1>2. PICK t : t = tick[l]
  OBVIOUS
<1>3. /\ t \in TickType /\ WalkOK(t, row) /\ row \in [Jobs -> RowType]
      /\ troubles \in 0 .. MaxTroubles /\ troubles \in Nat
      /\ \A j \in Jobs : CountsOK(t, row[j], done[j], troubles, j)
  BY <1>1, <1>2, WhereItIs
<1>4. \A x, j : ~Untold(t, x, j)
  BY <1>1, <1>2 DEF Untold
<1>5. ASSUME NEW t2 \in TickType, tick' = [tick EXCEPT ![l] = t2],
             t2.at \in {"loop", "sleep", "mark", "retire"}, WalkOK(t2, row),
             \A j \in Jobs : Ahead(t2, j) => Ahead(t, j),
             \A j \in Jobs : row[j].kind = "oneshot" /\ t2.at \in InFire /\ j \in t2.job => Ahead(t, j)
      PROVE  IInv'
  <2>1. \A x, j : ~Untold(t2, x, j)
    BY <1>5 DEF Untold
  <2>2. ASSUME NEW j \in Jobs, row[j].kind = "oneshot", Ahead(t, j)
        PROVE  row[j].status # "completed"
    <3>1. row[j].status = "completed" => Progress(row[j]) = 1 /\ Goal(row[j]) = 1
      BY <2>2 DEF Progress, Goal
    <3>2. row[j].status = "completed" => Progress(row[j]) < Goal(row[j])
      BY <1>3, <2>2 DEF CountsOK
    <3> QED
      BY <3>1, <3>2
  <2>3. \A j \in Jobs : Keeps(t, row[j], troubles, t2, row'[j], troubles', j)
    BY <1>1, <1>4, <1>5, <2>1, <2>2 DEF Keeps
  <2>4. /\ tick[l].at # "none" /\ (t2.at = "none" => t2 = NoTask)
        /\ row' \in [Jobs -> RowType]
        /\ troubles' \in 0 .. MaxTroubles /\ troubles' >= troubles
        /\ WalkOK(t2, row')
        /\ \A j \in Jobs : Keeps(tick[l], row[j], troubles, t2, row'[j], troubles', j)
    BY <1>1, <1>2, <1>3, <1>5, <2>3
  <2> QED
    BY <1>1, <1>5, <2>4, TickKeeps
<1>6. ASSUME Goto(l, IF tick[l].of = "cron" THEN "loop" ELSE "sleep")
      PROVE  IInv'
  <2>1. PICK p, t2 : /\ p = (IF tick[l].of = "cron" THEN "loop" ELSE "sleep")
                     /\ t2 = [t EXCEPT !.at = p]
    OBVIOUS
  <2>2. tick' = [tick EXCEPT ![l] = t2] /\ p \in {"loop", "sleep"} /\ p \in Places
    BY <1>2, <1>6, <2>1 DEF Goto, Places
  <2>3. /\ t2 \in TickType /\ t2.at \in {"loop", "sleep"} /\ t2.todo = t.todo /\ t2.job = t.job
    <3>1. t2 = [t EXCEPT !.at = p]
      BY <2>1
    <3> QED
      BY <1>3, <2>2, <3>1, GotoType
  <2>4. WalkOK(t2, row)
    BY <1>3, <2>3, WalkKept DEF InFire
  <2>5. \A j \in Jobs : Ahead(t2, j) => Ahead(t, j)
    BY <2>3 DEF Ahead
  <2>6. t2.at \notin InFire
    BY <2>3 DEF InFire
  <2> QED
    BY <1>5, <2>2, <2>3, <2>4, <2>5, <2>6
<1>7. ASSUME NEW entry \in tick[l].todo,
             tick' = [tick EXCEPT ![l] =
                        [@ EXCEPT !.todo = tick[l].todo \ {entry}, !.job = {entry[1]},
                                  !.at = IF entry[2] = "fire" THEN "mark" ELSE "retire",
                                  !.to = IF entry[2] = "fail" THEN "failed" ELSE "completed"]]
      PROVE  IInv'
  <2> DEFINE w == [tick[l] EXCEPT !.todo = tick[l].todo \ {entry}, !.job = {entry[1]},
                     !.at = IF entry[2] = "fire" THEN "mark" ELSE "retire",
                     !.to = IF entry[2] = "fail" THEN "failed" ELSE "completed"]
  <2>1. PICK t2 : t2 = w
    OBVIOUS
  <2>2. tick' = [tick EXCEPT ![l] = t2]
    <3>1. tick' = [tick EXCEPT ![l] = w]
      BY <1>7
    <3> HIDE DEF w
    <3> QED
      BY <2>1, <3>1
  <2>3. entry \in Jobs \X Verdicts /\ entry \in t.todo
    BY <1>2, <1>3, <1>7 DEF TickType
  <2>4. /\ entry[1] \in Jobs /\ entry[2] \in Verdicts /\ entry = <<entry[1], entry[2]>>
    BY <2>3
  <2>5. /\ t2 \in TickType /\ t2.todo = t.todo \ {entry} /\ t2.job = {entry[1]}
        /\ t2.at = IF entry[2] = "fire" THEN "mark" ELSE "retire"
    BY <1>2, <1>3, <2>1, <2>4 DEF TickType, Places
  <2>6. WalkOK(t2, row)
    BY <1>3, <2>3, <2>4, <2>5 DEF WalkOK, InFire, Verdicts
  <2>7. \A j \in Jobs : Ahead(t2, j) => Ahead(t, j)
    BY <2>3, <2>4, <2>5 DEF Ahead
  <2>8. \A j \in Jobs : t2.at \in InFire /\ j \in t2.job => Ahead(t, j)
    BY <2>3, <2>4, <2>5 DEF Ahead, InFire
  <2> QED
    BY <1>5, <2>2, <2>5, <2>6, <2>7, <2>8
<1> QED
  BY <1>6, <1>7 DEF NextJob

\* A step that sets the status of the job in hand, if it counts no callback.
LEMMA StatusKeeps ==
  ASSUME IInv, NEW l \in Ticks, tick[l].at \in InFire \cup {"retire"}, l \notin cancelled, OwnStep,
         UNCHANGED <<done, troubles>>,
         NEW status \in Statuses \ {"new", "gone"}, SetStatus(TheJob(l), status),
         NEW p \in {"next", "call"}, Goto(l, p), p = "call" => tick[l].at = "mark",
         row[TheJob(l)].kind = "oneshot" => status # "completed" /\ tick[l].at # "retire",
         row[TheJob(l)].kind \in {"oneshot", "loop"} => ~Untold(tick[l], row[TheJob(l)], TheJob(l))
  PROVE  IInv'
<1>1. PICK t, t2, i : t = tick[l] /\ t2 = [t EXCEPT !.at = p] /\ i = TheJob(l)
  OBVIOUS
<1>2. tick[l].at # "none" /\ tick' = [tick EXCEPT ![l] = t2]
  BY <1>1 DEF Goto, InFire
<1>3. /\ t \in TickType /\ WalkOK(t, row) /\ row \in [Jobs -> RowType]
      /\ troubles \in 0 .. MaxTroubles /\ troubles \in Nat
      /\ \A j \in Jobs : CountsOK(t, row[j], done[j], troubles, j)
  BY <1>1, <1>2, WhereItIs
<1>4. i \in Jobs /\ t.job = {i} /\ (\A e \in t.todo : e[1] # i) /\ row[i].status # "new"
  BY <1>1, <1>3, JobInHand
<1>5. /\ row' \in [Jobs -> RowType]
      /\ \A j \in Jobs : /\ row'[j].kind = row[j].kind /\ row'[j].count = row[j].count
                         /\ j # i => row'[j] = row[j]
                         /\ row'[j].status = "new" <=> row[j].status = "new"
                         /\ row'[j].status = "gone" <=> row[j].status = "gone"
      /\ row'[i].status = IF Present(i) THEN status ELSE row[i].status
  BY <1>1, <1>3, <1>4, StatusSet
<1>6. /\ t2 \in TickType /\ t2.at = p /\ t2.todo = t.todo /\ t2.job = t.job
  <2>1. p \in Places
    BY DEF Places
  <2> QED
    BY <1>1, <1>3, <2>1, GotoType
<1>7. WalkOK(t2, row')
  <2>1. /\ \A j \in Jobs : /\ row'[j].kind = row[j].kind
                           /\ row'[j].status = "new" => row[j].status = "new"
        /\ t2.at # "retire" /\ (t2.at \in InFire => t.at \in InFire)
        /\ \A j \in t.job : /\ t2.at = "count" => row[j].kind = "loop"
                            /\ t2.at = "settle" /\ row[j].kind = "oneshot" => t2.to = "completed"
    BY <1>1, <1>5, <1>6 DEF InFire
  <2>2. PICK table, table2 : table = row /\ table2 = row'
    OBVIOUS
  <2>3. WalkOK(t, table)
    BY <1>3, <2>2
  <2>4. WalkOK(t2, table2)
    BY <1>3, <1>6, <2>1, <2>2, <2>3, WalkKept
  <2> QED
    BY <2>2, <2>4
<1>8. ASSUME NEW j \in Jobs PROVE Keeps(t, row[j], troubles, t2, row'[j], troubles', j)
  <2>1. /\ \A x : ~Untold(t2, x, j)
        /\ Ahead(t2, j) => Ahead(t, j)
    BY <1>1, <1>6 DEF Untold, Ahead
  <2>2. row[j].kind \in {"oneshot", "loop"} => ~Untold(t, row[j], j)
    BY <1>1, <1>4 DEF Untold
  <2>3. ASSUME row[j].kind = "oneshot", j = i
        PROVE  row[j].status # "completed" /\ row'[j].status # "completed"
    <3>1. t.at \in InFire /\ j \in t.job
      BY <1>1, <1>4, <2>3
    <3>2. row[j].status # "completed"
      BY <1>3, <2>3, <3>1 DEF CountsOK
    <3> QED
      BY <1>1, <1>5, <2>3, <3>2
  <2>4. Progress(row'[j]) = Progress(row[j])
    BY <1>5, <2>3 DEF Progress
  <2> QED
    BY <1>4, <1>5, <1>6, <2>1, <2>2, <2>3, <2>4 DEF Keeps
<1>9. /\ (t2.at = "none" => t2 = NoTask) /\ done' = done
      /\ troubles' \in 0 .. MaxTroubles /\ troubles' >= troubles
      /\ \A j \in Jobs : Keeps(tick[l], row[j], troubles, t2, row'[j], troubles', j)
  BY <1>1, <1>3, <1>6, <1>8
<1> QED
  BY <1>2, <1>5, <1>6, <1>7, <1>9, TickKeeps

LEMMA RetireKeeps == ASSUME IInv, NEW l \in Ticks, Retire(l) PROVE IInv'
<1>1. /\ tick[l].at = "retire" /\ l \notin cancelled /\ OwnStep /\ UNCHANGED <<done, troubles>>
      /\ SetStatus(TheJob(l), tick[l].to) /\ Goto(l, "next")
  BY DEF Retire, At
<1>2. tick[l] \in TickType /\ WalkOK(tick[l], row)
  BY <1>1, WhereItIs
<1>3. TheJob(l) \in tick[l].job
  BY <1>1, <1>2, JobInHand
<1>4. PICK status \in Statuses \ {"new", "gone"} : status = tick[l].to
  BY <1>2 DEF TickType, Statuses
<1>5. /\ row[TheJob(l)].kind # "oneshot"
      /\ ~Untold(tick[l], row[TheJob(l)], TheJob(l))
  BY <1>1, <1>2, <1>3 DEF WalkOK, Untold
<1> QED
  BY <1>1, <1>4, <1>5, StatusKeeps

LEMMA MarkRunningKeeps == ASSUME IInv, NEW l \in Ticks, MarkRunning(l) PROVE IInv'
<1>1. /\ tick[l].at = "mark" /\ l \notin cancelled /\ OwnStep /\ UNCHANGED <<done, troubles>>
      /\ SetStatus(TheJob(l), "running") /\ Goto(l, "call")
  BY DEF MarkRunning, At
<1>2. "running" \in Statuses \ {"new", "gone"} /\ tick[l].at \in InFire \cup {"retire"}
  BY <1>1 DEF Statuses, InFire
<1>3. ~Untold(tick[l], row[TheJob(l)], TheJob(l))
  BY <1>1 DEF Untold
<1> QED
  BY <1>1, <1>2, <1>3, StatusKeeps

LEMMA MarkFailedKeeps == ASSUME IInv, NEW l \in Ticks, MarkFailed(l) PROVE IInv'
<1>1. /\ tick[l].at = "fail" /\ l \notin cancelled /\ OwnStep /\ UNCHANGED <<done, troubles>>
      /\ SetStatus(TheJob(l), "failed") /\ Goto(l, "next")
  BY DEF MarkFailed, At
<1>2. "failed" \in Statuses \ {"new", "gone"} /\ tick[l].at \in InFire \cup {"retire"}
  BY <1>1 DEF Statuses, InFire
<1>3. ~Untold(tick[l], row[TheJob(l)], TheJob(l))
  BY <1>1 DEF Untold
<1> QED
  BY <1>1, <1>2, <1>3, StatusKeeps

\* The other jobs are counted as before.
LEMMA OthersCounted ==
  ASSUME NEW t, NEW t2, NEW j, j \notin t.job, j \notin t2.job, t2.todo = t.todo,
         NEW x, NEW n, NEW m, CountsOK(t, x, n, m, j)
  PROVE  CountsOK(t2, x, n, m, j)
<1>1. /\ Ahead(t2, j) <=> Ahead(t, j)
      /\ ~Untold(t, x, j) /\ ~Untold(t2, x, j)
  BY DEF Ahead, Untold
<1> QED
  BY <1>1 DEF CountsOK

\* A step within _fire_job that tells something of the job in hand: only that job is to be
\* counted anew.
LEMMA HandCounted ==
  ASSUME IInv, NEW l \in Ticks, tick[l].at \in InFire, l \notin cancelled, OwnStep,
         NEW t2 \in TickType, tick' = [tick EXCEPT ![l] = t2],
         t2.job = tick[l].job, t2.todo = tick[l].todo, t2.at \in InFire \cup {"next"},
         row' \in [Jobs -> RowType], done' \in [Jobs -> Nat], troubles' = troubles,
         \A j \in Jobs : /\ row'[j].kind = row[j].kind
                         /\ row'[j].status = "new" <=> row[j].status = "new"
                         /\ j # TheJob(l) => row'[j] = row[j] /\ done'[j] = done[j],
         t2.at = "count" => row[TheJob(l)].kind = "loop",
         t2.at = "settle" /\ row[TheJob(l)].kind = "oneshot" => t2.to = "completed",
         CountsOK(t2, row'[TheJob(l)], done'[TheJob(l)], troubles, TheJob(l))
  PROVE  IInv'
<1>1. PICK t, i : t = tick[l] /\ i = TheJob(l)
  OBVIOUS
<1>2. /\ t \in TickType /\ WalkOK(t, row) /\ troubles \in 0 .. MaxTroubles
      /\ \A j \in Jobs : CountsOK(t, row[j], done[j], troubles, j)
  BY <1>1, WhereItIs DEF InFire
<1>3. i \in Jobs /\ t.job = {i}
  BY <1>1, <1>2, JobInHand
<1>4. WalkOK(t2, row')
  <2>1. /\ t2.todo = t.todo /\ t2.job = t.job /\ t2.at # "retire"
        /\ (t2.at \in InFire => t.at \in InFire)
        /\ \A j \in Jobs : /\ row'[j].kind = row[j].kind
                           /\ row'[j].status = "new" => row[j].status = "new"
        /\ \A j \in t.job : /\ t2.at = "count" => row[j].kind = "loop"
                            /\ t2.at = "settle" /\ row[j].kind = "oneshot" => t2.to = "completed"
    BY <1>1, <1>3 DEF InFire
  <2> QED
    BY <1>2, <2>1, WalkKept
<1>5. \A j \in Jobs : CountsOK(t2, row'[j], done'[j], troubles', j)
  <2>1. ASSUME NEW j \in Jobs, j # i PROVE CountsOK(t2, row'[j], done'[j], troubles', j)
    <3>1. row'[j] = row[j] /\ done'[j] = done[j] /\ troubles' = troubles
      BY <1>1, <2>1
    <3>2. j \notin t.job /\ j \notin t2.job /\ t2.todo = t.todo
      BY <1>1, <1>3, <2>1
    <3>3. PICK x, n, m : x = row[j] /\ n = done[j] /\ m = troubles
      OBVIOUS
    <3>4. CountsOK(t, x, n, m, j)
      BY <1>2, <3>3
    <3>5. CountsOK(t2, x, n, m, j)
      BY <3>2, <3>4, OthersCounted
    <3> QED
      BY <3>1, <3>3, <3>5
  <2>2. CountsOK(t2, row'[i], done'[i], troubles', i)
    BY <1>1
  <2> QED
    BY <2>1, <2>2
<1>6. /\ tick[l].at # "none" /\ (t2.at = "none" => t2 = NoTask)
      /\ troubles' \in 0 .. MaxTroubles
      /\ \A j \in Jobs : row[j].status = "new" => row'[j].status = "new"
  BY <1>2 DEF InFire
<1> QED
  BY <1>4, <1>5, <1>6, TickMoves

\* The place of the job in hand, and what is known of it.
LEMMA InHand ==
  ASSUME IInv, NEW l \in Ticks, tick[l].at \in InFire, l \notin cancelled
  PROVE  /\ tick[l].at # "none" /\ tick[l] \in TickType
         /\ TheJob(l) \in Jobs /\ TheJob(l) \in tick[l].job /\ row[TheJob(l)].status # "new"
         /\ <<TheJob(l), "fire">> \notin tick[l].todo
         /\ row \in [Jobs -> RowType] /\ row[TheJob(l)] \in RowType
         /\ done \in [Jobs -> Nat] /\ done[TheJob(l)] \in Nat /\ troubles \in Nat
         /\ CountsOK(tick[l], row[TheJob(l)], done[TheJob(l)], troubles, TheJob(l))
<1>1. tick[l].at # "none"
  BY DEF InFire
<1>2. /\ tick[l] \in TickType /\ WalkOK(tick[l], row) /\ row \in [Jobs -> RowType]
      /\ done \in [Jobs -> Nat] /\ troubles \in Nat
      /\ \A j \in Jobs : CountsOK(tick[l], row[j], done[j], troubles, j)
  BY <1>1, WhereItIs
<1>3. /\ TheJob(l) \in Jobs /\ TheJob(l) \in tick[l].job /\ row[TheJob(l)].status # "new"
      /\ \A e \in tick[l].todo : e[1] # TheJob(l)
  BY <1>2, JobInHand
<1>4. \A i : <<i, "fire">>[1] = i
  OBVIOUS
<1>5. <<TheJob(l), "fire">> \notin tick[l].todo
  BY <1>3, <1>4
<1> QED
  BY <1>1, <1>2, <1>3, <1>5

\* The callback has returned, and the table is to be told.
LEMMA Returned ==
  ASSUME NEW t, NEW t2, NEW i, t.at = "call", t2.at = "fired", i \in t.job, t2.job = t.job,
         t2.todo = t.todo, <<i, "fire">> \notin t.todo,
         NEW x \in RowType, x.status # "new", NEW n \in Nat, NEW m \in Nat, CountsOK(t, x, n, m, i),
         NEW n2 \in Nat, n2 =< n + 1
  PROVE  CountsOK(t2, x, n2, m, i)
<1>1. Progress(x) \in Nat /\ Goal(x) \in Nat
  BY ProgressType
<1>2. Ahead(t, i) /\ ~Ahead(t2, i) /\ ~Untold(t, x, i) /\ Untold(t2, x, i)
      /\ t.at \in InFire
  BY DEF Ahead, Untold, InFire
<1>3. ASSUME x.kind \in {"oneshot", "loop"}, x.status \notin {"new", "gone"}
      PROVE  /\ n2 =< Progress(x) + m + 1 /\ Progress(x) < Goal(x)
             /\ x.kind = "oneshot" => x.status # "completed"
  BY <1>1, <1>2, <1>3 DEF CountsOK
<1>4. ASSUME x.kind \in {"oneshot", "loop"}, x.status = "gone"
      PROVE  n2 =< Goal(x) + m
  BY <1>1, <1>2, <1>4 DEF CountsOK
<1>5. /\ x.kind \in {"oneshot", "loop"} /\ x.status \notin {"new", "gone"} =>
           /\ n2 =< Progress(x) + m + (IF Untold(t2, x, i) THEN 1 ELSE 0)
           /\ Progress(x) =< Goal(x)
           /\ Ahead(t2, i) \/ Untold(t2, x, i) => Progress(x) < Goal(x)
           /\ x.kind = "oneshot" /\ t2.at \in InFire /\ i \in t2.job => x.status # "completed"
      /\ x.kind \in {"oneshot", "loop"} /\ x.status = "gone" =>
           n2 + (IF Ahead(t2, i) THEN 1 ELSE 0) =< Goal(x) + m
  BY <1>1, <1>2, <1>3, <1>4
<1> QED
  BY <1>5 DEF CountsOK

LEMMA CallReturnsKeeps == ASSUME IInv, NEW l \in Ticks, CallReturns(l) PROVE IInv'
<1>1. /\ tick[l].at = "call" /\ l \notin cancelled /\ OwnStep /\ row' = row /\ troubles' = troubles
      /\ Goto(l, "fired")
      /\ done' = [done EXCEPT ![TheJob(l)] = IF @ =< MaxIterations + MaxTroubles THEN @ + 1 ELSE @]
  BY DEF CallReturns, At
<1>2. PICK t, t2, i, x, n, m : /\ t = tick[l] /\ t2 = [t EXCEPT !.at = "fired"] /\ i = TheJob(l)
                               /\ x = row[i] /\ n = done[i] /\ m = troubles
  OBVIOUS
<1>3. tick[l].at \in InFire
  BY <1>1 DEF InFire
<1>4. /\ t \in TickType /\ i \in Jobs /\ i \in t.job /\ x.status # "new"
      /\ <<i, "fire">> \notin t.todo /\ x \in RowType /\ n \in Nat /\ m \in Nat
      /\ row \in [Jobs -> RowType] /\ done \in [Jobs -> Nat]
      /\ CountsOK(t, x, n, m, i)
  BY <1>1, <1>2, <1>3, InHand
<1>5. tick' = [tick EXCEPT ![l] = t2]
  BY <1>1, <1>2 DEF Goto
<1>6. /\ t2 \in TickType /\ t2.at = "fired" /\ t2.todo = t.todo /\ t2.job = t.job
  <2>1. "fired" \in Places /\ t \in TickType /\ t2 = [t EXCEPT !.at = "fired"]
    BY <1>2, <1>4 DEF Places
  <2> QED
    BY <2>1, GotoType
<1>7. PICK n2 : n2 = (IF n =< MaxIterations + MaxTroubles THEN n + 1 ELSE n)
  OBVIOUS
<1>8. n2 \in Nat /\ n2 =< n + 1
  BY <1>4, <1>7
<1>9. done' = [done EXCEPT ![i] = n2]
  BY <1>1, <1>2, <1>7
<1>10. done' \in [Jobs -> Nat] /\ done'[i] = n2 /\ \A j \in Jobs : j # i => done'[j] = done[j]
  BY <1>4, <1>8, <1>9
<1>11. CountsOK(t2, x, n2, m, i)
  <2>1. t.at = "call"
    BY <1>1, <1>2
  <2> QED
    BY <1>4, <1>6, <1>8, <2>1, Returned
<1>12. /\ tick[l].at \in InFire /\ t2.job = tick[l].job /\ t2.todo = tick[l].todo
       /\ t2.at \in InFire \cup {"next"} /\ t2.at # "count" /\ t2.at # "settle"
       /\ row' \in [Jobs -> RowType]
       /\ \A j \in Jobs : /\ row'[j].kind = row[j].kind
                          /\ row'[j].status = "new" <=> row[j].status = "new"
                          /\ j # TheJob(l) => row'[j] = row[j] /\ done'[j] = done[j]
       /\ CountsOK(t2, row'[TheJob(l)], done'[TheJob(l)], troubles, TheJob(l))
  BY <1>1, <1>2, <1>3, <1>4, <1>6, <1>10, <1>11 DEF InFire
<1> QED
  BY <1>1, <1>5, <1>6, <1>10, <1>12, HandCounted

LEMMA CallRaisesKeeps == ASSUME IInv, NEW l \in Ticks, CallRaises(l) PROVE IInv'
<1>1. /\ tick[l].at = "call" /\ l \notin cancelled /\ OwnStep
      /\ row' = row /\ done' = done /\ troubles' = troubles /\ Goto(l, "fail")
  BY DEF CallRaises, At
<1>2. PICK t, t2 : t = tick[l] /\ t2 = [t EXCEPT !.at = "fail"]
  OBVIOUS
<1>3. /\ t \in TickType /\ WalkOK(t, row) /\ row \in [Jobs -> RowType]
      /\ troubles \in 0 .. MaxTroubles /\ troubles \in Nat
      /\ \A j \in Jobs : CountsOK(t, row[j], done[j], troubles, j)
  BY <1>1, <1>2, WhereItIs
<1>4. /\ t2 \in TickType /\ t2.at = "fail" /\ t2.todo = t.todo /\ t2.job = t.job
  BY <1>2, <1>3, GotoType DEF Places
<1>5. WalkOK(t2, row)
  <2>1. PICK table : table = row
    OBVIOUS
  <2>2. t.at \in InFire /\ WalkOK(t, table) /\ t2.at # "retire" /\ t2.at # "count" /\ t2.at # "settle"
    BY <1>1, <1>2, <1>3, <1>4, <2>1 DEF InFire
  <2> QED
    BY <1>3, <1>4, <2>1, <2>2, WalkKept
<1>6. t.at \in InFire /\ t.at = "call"
  BY <1>1, <1>2 DEF InFire
<1>7. ASSUME NEW j \in Jobs PROVE Keeps(t, row[j], troubles, t2, row'[j], troubles', j)
  <2>1. /\ ~Untold(t, row[j], j) /\ ~Untold(t2, row[j], j)
        /\ Ahead(t2, j) => Ahead(t, j)
    BY <1>4, <1>6 DEF Untold, Ahead
  <2>2. row[j].kind = "oneshot" /\ j \in t2.job => row[j].status # "completed"
    BY <1>3, <1>4, <1>6 DEF CountsOK
  <2> QED
    BY <1>1, <2>1, <2>2 DEF Keeps
<1>8. /\ tick[l].at # "none" /\ (t2.at = "none" => t2 = NoTask) /\ tick' = [tick EXCEPT ![l] = t2]
      /\ row' \in [Jobs -> RowType]
      /\ troubles' \in 0 .. MaxTroubles /\ troubles' >= troubles
      /\ WalkOK(t2, row')
      /\ \A j \in Jobs : Keeps(tick[l], row[j], troubles, t2, row'[j], troubles', j)
  BY <1>1, <1>2, <1>3, <1>4, <1>5, <1>7 DEF Goto
<1> QED
  BY <1>1, <1>4, <1>8, TickKeeps

\* Whether a job is due, and the count of its iterations, are set.
LEMMA DueSet ==
  ASSUME row \in [Jobs -> RowType], NEW i \in Jobs, NEW d \in Dues,
         row' = [row EXCEPT ![i].due = d]
  PROVE  /\ row' \in [Jobs -> RowType]
         /\ \A j \in Jobs : /\ row'[j].kind = row[j].kind /\ row'[j].count = row[j].count
                            /\ row'[j].status = row[j].status
<1>1. \A x \in RowType : LET y == [x EXCEPT !.due = d]
                         IN  y \in RowType /\ y.kind = x.kind /\ y.count = x.count /\ y.status = x.status
  BY DEF RowType
<1>2. PICK y : y = [row[i] EXCEPT !.due = d]
  OBVIOUS
<1>3. /\ y \in RowType /\ y.kind = row[i].kind /\ y.count = row[i].count /\ y.status = row[i].status
      /\ row' = [row EXCEPT ![i] = y]
  BY <1>1, <1>2
<1> QED
  BY <1>3

LEMMA CountSet ==
  ASSUME row \in [Jobs -> RowType], NEW i \in Jobs, NEW c \in 0 .. MaxIterations,
         row' = [row EXCEPT ![i].count = c]
  PROVE  /\ row' \in [Jobs -> RowType]
         /\ \A j \in Jobs : /\ row'[j].kind = row[j].kind /\ row'[j].status = row[j].status
                            /\ j # i => row'[j] = row[j]
         /\ row'[i].count = c
<1>1. \A x \in RowType : LET y == [x EXCEPT !.count = c]
                         IN  y \in RowType /\ y.kind = x.kind /\ y.count = c /\ y.status = x.status
  BY DEF RowType
<1>2. PICK y : y = [row[i] EXCEPT !.count = c]
  OBVIOUS
<1>3. /\ y \in RowType /\ y.kind = row[i].kind /\ y.count = c /\ y.status = row[i].status
      /\ row' = [row EXCEPT ![i] = y]
  BY <1>1, <1>2
<1> QED
  BY <1>3

LEMMA MarkFiredKeeps == ASSUME IInv, NEW l \in Ticks, MarkFired(l) PROVE IInv'
<1>1. /\ tick[l].at = "fired" /\ l \notin cancelled /\ OwnStep /\ UNCHANGED <<done, troubles>>
      /\ row' = [row EXCEPT ![TheJob(l)].due = IF Present(TheJob(l)) THEN "no" ELSE @]
  BY DEF MarkFired, At
<1>2. PICK t, i, p, to, t2 :
        /\ t = tick[l] /\ i = TheJob(l)
        /\ p = (IF IsCron(i) THEN "settle" ELSE "count")
        /\ to = (IF Kind(i) = "oneshot" THEN "completed" ELSE "pending")
        /\ t2 = [t EXCEPT !.at = p, !.to = to]
  OBVIOUS
<1>3. t.at = "fired" /\ t.at \in InFire /\ tick[l].at # "none"
  BY <1>1, <1>2 DEF InFire
<1>4. /\ t \in TickType /\ i \in Jobs /\ row[i].status # "new" /\ row \in [Jobs -> RowType]
      /\ row[i] \in RowType /\ troubles \in Nat
  BY <1>1, <1>2, <1>3, InHand
<1>5. /\ WalkOK(t, row) /\ troubles \in 0 .. MaxTroubles
      /\ \A j \in Jobs : CountsOK(t, row[j], done[j], troubles, j)
  BY <1>1, <1>2, <1>3, WhereItIs
<1>6. t.job = {i}
  BY <1>2, <1>3, <1>5, JobInHand
<1>7. tick' = [tick EXCEPT ![l] = t2]
  BY <1>2 DEF MarkFired
<1>8. /\ p \in {"settle", "count"} /\ to \in {"completed", "pending"}
      /\ p = "count" <=> row[i].kind = "loop"
      /\ row[i].kind = "oneshot" => to = "completed"
  BY <1>2 DEF IsCron, Kind
<1>9. t2 \in TickType /\ t2.at = p /\ t2.to = to /\ t2.todo = t.todo /\ t2.job = t.job
  <2>1. p \in Places /\ to \in {"pending", "completed", "failed"}
    BY <1>8 DEF Places
  <2>2. \A y \in TickType : LET z == [y EXCEPT !.at = p, !.to = to]
                            IN  /\ z \in TickType /\ z.at = p /\ z.to = to
                                /\ z.todo = y.todo /\ z.job = y.job
    BY <2>1 DEF TickType
  <2> QED
    BY <1>2, <1>4, <2>2
<1>10. PICK d \in Dues : d = (IF Present(i) THEN "no" ELSE row[i].due)
  BY <1>4 DEF RowType, Dues
<1>11. row' = [row EXCEPT ![i].due = d]
  BY <1>1, <1>2, <1>10
<1>12. /\ row' \in [Jobs -> RowType]
       /\ \A j \in Jobs : /\ row'[j].kind = row[j].kind /\ row'[j].count = row[j].count
                          /\ row'[j].status = row[j].status
  BY <1>4, <1>11, DueSet
<1>13. WalkOK(t2, row')
  <2>1. PICK table, table2 : table = row /\ table2 = row'
    OBVIOUS
  <2>2. /\ WalkOK(t, table) /\ t2.at # "retire" /\ (t2.at \in InFire => t.at \in InFire)
        /\ \A j \in Jobs : /\ table2[j].kind = table[j].kind
                           /\ table2[j].status = "new" => table[j].status = "new"
        /\ \A j \in t.job : /\ t2.at = "count" => table[j].kind = "loop"
                            /\ t2.at = "settle" /\ table[j].kind = "oneshot" => t2.to = "completed"
    BY <1>3, <1>5, <1>6, <1>8, <1>9, <1>12, <2>1
  <2>3. WalkOK(t2, table2)
    BY <1>4, <1>9, <2>2, WalkKept
  <2> QED
    BY <2>1, <2>3
<1>14. ASSUME NEW j \in Jobs PROVE Keeps(t, row[j], troubles, t2, row'[j], troubles', j)
  <2>1. /\ Untold(t, row[j], j) <=> Untold(t2, row[j], j)
        /\ Ahead(t2, j) => Ahead(t, j)
    BY <1>3, <1>6, <1>8, <1>9 DEF Untold, Ahead
  <2>2. row[j].kind = "oneshot" /\ j \in t2.job => row'[j].status # "completed"
    BY <1>3, <1>5, <1>9, <1>12 DEF CountsOK
  <2>3. Progress(row'[j]) = Progress(row[j])
    BY <1>12 DEF Progress
  <2> QED
    BY <1>12, <2>1, <2>2, <2>3 DEF Keeps
<1>15. /\ (t2.at = "none" => t2 = NoTask) /\ done' = done
       /\ troubles' \in 0 .. MaxTroubles /\ troubles' >= troubles
       /\ \A j \in Jobs : Keeps(tick[l], row[j], troubles, t2, row'[j], troubles', j)
  BY <1>1, <1>2, <1>4, <1>5, <1>8, <1>9, <1>14
<1> QED
  BY <1>1, <1>3, <1>7, <1>9, <1>12, <1>13, <1>15, TickKeeps

\* The table has been told of the callback that returned.
LEMMA Told ==
  ASSUME NEW t, NEW t2, NEW i, i \in t.job, t2.todo = t.todo, <<i, "fire">> \notin t.todo,
         t2.at \in {"next", "settle"}, NEW x \in RowType, x.status # "new",
         x.kind \in {"oneshot", "loop"}, Untold(t, x, i),
         x.kind = "oneshot" => t2.at = "next",
         NEW n \in Nat, NEW m \in Nat, CountsOK(t, x, n, m, i),
         NEW x2 \in RowType, x2.kind = x.kind,
         \/ x.status = "gone" /\ x2 = x
         \/ x.status # "gone" /\ x2.status \notin {"new", "gone"} /\ Progress(x2) = Progress(x) + 1
  PROVE  CountsOK(t2, x2, n, m, i)
<1>1. Progress(x) \in Nat /\ Goal(x) \in Nat /\ Goal(x2) = Goal(x)
  BY ProgressType DEF Goal
<1>2. ~Ahead(t2, i) /\ ~Untold(t2, x2, i)
  BY DEF Ahead, Untold
<1>3. ASSUME x.status # "gone"
      PROVE  n =< Progress(x2) + m /\ Progress(x2) =< Goal(x2)
  BY <1>1, <1>3 DEF CountsOK
<1>4. ASSUME x.status = "gone"
      PROVE  n =< Goal(x2) + m
  <2>1. n + (IF Ahead(t, i) THEN 1 ELSE 0) =< Goal(x) + m
    BY <1>4 DEF CountsOK
  <2> QED
    BY <1>1, <2>1
<1>5. ~(x2.kind = "oneshot" /\ t2.at \in InFire)
  BY DEF InFire
<1>6. /\ x2.kind \in {"oneshot", "loop"} /\ x2.status \notin {"new", "gone"} =>
           /\ n =< Progress(x2) + m + (IF Untold(t2, x2, i) THEN 1 ELSE 0)
           /\ Progress(x2) =< Goal(x2)
  <2>1. Progress(x2) \in Nat
    BY ProgressType
  <2> QED
    BY <1>2, <1>3, <2>1
<1>7. x2.kind \in {"oneshot", "loop"} /\ x2.status = "gone" =>
        n + (IF Ahead(t2, i) THEN 1 ELSE 0) =< Goal(x2) + m
  <2>1. n =< Goal(x2) + m => n + 0 =< Goal(x2) + m
    OBVIOUS
  <2> QED
    BY <1>2, <1>4, <2>1
<1>8. x2.status # "new"
  OBVIOUS
<1> QED
  BY <1>2, <1>5, <1>6, <1>7, <1>8 DEF CountsOK

LEMMA IncrementIterationKeeps == ASSUME IInv, NEW l \in Ticks, IncrementIteration(l) PROVE IInv'
<1>1. /\ tick[l].at = "count" /\ l \notin cancelled /\ OwnStep /\ done' = done /\ troubles' = troubles
  BY DEF IncrementIteration, At
<1>2. PICK t, i, x, n, m, new, to, t2 :
        /\ t = tick[l] /\ i = TheJob(l) /\ x = row[i] /\ n = done[i] /\ m = troubles
        /\ new = (IF Present(i) THEN row[i].count + 1 ELSE 0)
        /\ to = (IF new >= MaxIterations THEN "completed" ELSE "pending")
        /\ t2 = [t EXCEPT !.at = "settle", !.to = to]
  OBVIOUS
<1>3. t.at = "count" /\ t.at \in InFire /\ tick[l].at \in InFire /\ tick[l].at # "none"
  BY <1>1, <1>2 DEF InFire
<1>4. /\ t \in TickType /\ i \in Jobs /\ i \in t.job /\ x.status # "new" /\ row \in [Jobs -> RowType]
      /\ x \in RowType /\ n \in Nat /\ m \in Nat /\ <<i, "fire">> \notin t.todo
      /\ done \in [Jobs -> Nat] /\ CountsOK(t, x, n, m, i)
  BY <1>1, <1>2, <1>3, InHand
<1>5. x.kind = "loop"
  <2>1. WalkOK(t, row)
    BY <1>1, <1>2, <1>3, WhereItIs
  <2> QED
    BY <1>2, <1>3, <1>4, <2>1 DEF WalkOK
<1>6. Present(i) <=> x.status # "gone"
  BY <1>2, <1>4 DEF Present
<1>7. Untold(t, x, i) /\ Progress(x) = x.count /\ x.count \in Nat
  BY <1>3, <1>4, <1>5, BoundsAssumption DEF Untold, Progress, RowType
<1>8. x.status # "gone" => x.count < MaxIterations
  BY <1>4, <1>5, <1>7 DEF CountsOK, Goal
<1>9. PICK c : c = (IF Present(i) THEN new ELSE row[i].count)
  OBVIOUS
<1>10. c = (IF x.status # "gone" THEN x.count + 1 ELSE x.count)
  BY <1>2, <1>6, <1>9
<1>11. c \in 0 .. MaxIterations
  <2>1. x.count \in 0 .. MaxIterations
    BY <1>4 DEF RowType
  <2> QED
    BY <1>7, <1>8, <1>10, <2>1, BoundsAssumption
<1>12. row' = [row EXCEPT ![i].count = c]
  BY <1>2, <1>9 DEF IncrementIteration
<1>13. /\ row' \in [Jobs -> RowType]
       /\ \A j \in Jobs : /\ row'[j].kind = row[j].kind /\ row'[j].status = row[j].status
                          /\ j # i => row'[j] = row[j]
       /\ row'[i].count = c
  BY <1>4, <1>11, <1>12, CountSet
<1>14. tick' = [tick EXCEPT ![l] = t2]
  BY <1>2 DEF IncrementIteration
<1>15. t2 \in TickType /\ t2.at = "settle" /\ t2.todo = t.todo /\ t2.job = t.job
  <2>1. "settle" \in Places /\ to \in {"pending", "completed", "failed"}
    BY <1>2 DEF Places
  <2>2. \A y \in TickType : LET z == [y EXCEPT !.at = "settle", !.to = to]
                            IN  /\ z \in TickType /\ z.at = "settle"
                                /\ z.todo = y.todo /\ z.job = y.job
    BY <2>1 DEF TickType
  <2> QED
    BY <1>2, <1>4, <2>2
<1>16. PICK x2 : x2 = row'[i]
  OBVIOUS
<1>17. x2 \in RowType /\ x2.kind = x.kind /\ x2.status = x.status /\ x2.count = c
  BY <1>2, <1>4, <1>13, <1>16
<1>18. x.status = "gone" => x2 = x
  <2>1. \A y, z \in RowType : y.kind = z.kind /\ y.status = z.status /\ y.count = z.count
                              /\ y.due = z.due => y = z
    BY DEF RowType
  <2>2. x2.due = x.due
    BY <1>2, <1>4, <1>12, <1>16 DEF RowType
  <2> QED
    BY <1>4, <1>10, <1>17, <2>1, <2>2
<1>19. /\ x.kind \in {"oneshot", "loop"} /\ x.kind # "oneshot"
       /\ \/ x.status = "gone" /\ x2 = x
          \/ x.status # "gone" /\ x2.status \notin {"new", "gone"} /\ Progress(x2) = Progress(x) + 1
  BY <1>4, <1>5, <1>7, <1>10, <1>17, <1>18 DEF Progress
<1>20. CountsOK(t2, x2, n, m, i)
  BY <1>4, <1>7, <1>15, <1>17, <1>19, Told
<1>21. /\ t2.job = tick[l].job /\ t2.todo = tick[l].todo /\ t2.at \in InFire \cup {"next"}
       /\ t2.at # "count" /\ row[TheJob(l)].kind # "oneshot"
       /\ done' \in [Jobs -> Nat]
       /\ \A j \in Jobs : /\ row'[j].kind = row[j].kind
                          /\ row'[j].status = "new" <=> row[j].status = "new"
                          /\ j # TheJob(l) => row'[j] = row[j] /\ done'[j] = done[j]
       /\ CountsOK(t2, row'[TheJob(l)], done'[TheJob(l)], troubles, TheJob(l))
  BY <1>1, <1>2, <1>4, <1>5, <1>13, <1>15, <1>16, <1>20 DEF InFire
<1> QED
  BY <1>1, <1>3, <1>13, <1>14, <1>15, <1>21, HandCounted

LEMMA SettleKeeps == ASSUME IInv, NEW l \in Ticks, Settle(l) PROVE IInv'
<1>1. /\ tick[l].at = "settle" /\ l \notin cancelled /\ OwnStep /\ done' = done /\ troubles' = troubles
      /\ SetStatus(TheJob(l), tick[l].to) /\ Goto(l, "next")
  BY DEF Settle, At
<1>2. PICK t, i, x, n, m, t2 :
        /\ t = tick[l] /\ i = TheJob(l) /\ x = row[i] /\ n = done[i] /\ m = troubles
        /\ t2 = [t EXCEPT !.at = "next"]
  OBVIOUS
<1>3. t.at = "settle" /\ tick[l].at \in InFire /\ tick[l].at # "none"
  BY <1>1, <1>2 DEF InFire
<1>4. /\ t \in TickType /\ i \in Jobs /\ i \in t.job /\ x.status # "new" /\ row \in [Jobs -> RowType]
      /\ x \in RowType /\ n \in Nat /\ m \in Nat /\ <<i, "fire">> \notin t.todo
      /\ done \in [Jobs -> Nat] /\ CountsOK(t, x, n, m, i)
  BY <1>1, <1>2, <1>3, InHand
<1>5. PICK status \in Statuses \ {"new", "gone"} : status = t.to
  BY <1>4 DEF TickType, Statuses
<1>6. SetStatus(TheJob(l), status)
  BY <1>1, <1>2, <1>5
<1>7. CASE x.kind # "oneshot"
  <2>1. ~(x.kind \in {"oneshot", "loop"} /\ Untold(t, x, i))
    BY <1>3, <1>7 DEF Untold
  <2>2. /\ row[TheJob(l)].kind # "oneshot"
        /\ row[TheJob(l)].kind \in {"oneshot", "loop"} => ~Untold(tick[l], row[TheJob(l)], TheJob(l))
        /\ tick[l].at \in InFire \cup {"retire"}
    BY <1>2, <1>3, <1>7, <2>1
  <2> QED
    BY <1>1, <1>6, <2>2, StatusKeeps
<1>8. CASE x.kind = "oneshot"
  <2>1. status = "completed"
    <3>1. WalkOK(t, row)
      BY <1>1, <1>2, <1>3, WhereItIs
    <3> QED
      BY <1>2, <1>3, <1>4, <1>5, <1>8, <3>1 DEF WalkOK
  <2>2. Untold(t, x, i)
    BY <1>3, <1>4, <1>8 DEF Untold
  <2>3. /\ row' \in [Jobs -> RowType]
        /\ \A j \in Jobs : /\ row'[j].kind = row[j].kind
                           /\ j # i => row'[j] = row[j]
                           /\ row'[j].status = "new" <=> row[j].status = "new"
                           /\ row'[j].status = "gone" <=> row[j].status = "gone"
        /\ row'[i].status = IF Present(i) THEN status ELSE row[i].status
    BY <1>2, <1>4, <1>6, StatusSet
  <2>4. t2 \in TickType /\ t2.at = "next" /\ t2.todo = t.todo /\ t2.job = t.job
    <3>1. "next" \in Places /\ t2 = [t EXCEPT !.at = "next"]
      BY <1>2 DEF Places
    <3> QED
      BY <1>4, <3>1, GotoType
  <2>5. PICK x2 : x2 = row'[i]
    OBVIOUS
  <2>6. /\ x2 \in RowType /\ x2.kind = x.kind
        /\ x.status # "gone" => x2.status = "completed"
    BY <1>2, <1>4, <2>1, <2>3, <2>5 DEF Present
  <2>7. x.status = "gone" => x2 = x
    <3>1. x.status = "gone" => row' = [row EXCEPT ![i].status = @]
      BY <1>2, <1>6 DEF SetStatus, Present
    <3> QED
      BY <1>2, <1>4, <2>5, <3>1 DEF RowType
  <2>8. x.status # "gone" => Progress(x2) = Progress(x) + 1
    <3>1. x.status # "gone" => x.status # "completed"
      BY <1>3, <1>4, <1>8 DEF CountsOK, InFire
    <3> QED
      BY <1>8, <2>6, <3>1 DEF Progress
  <2>9. /\ x.kind \in {"oneshot", "loop"}
        /\ \/ x.status = "gone" /\ x2 = x
           \/ x.status # "gone" /\ x2.status \notin {"new", "gone"} /\ Progress(x2) = Progress(x) + 1
    BY <1>8, <2>6, <2>7, <2>8
  <2>10. CountsOK(t2, x2, n, m, i)
    BY <1>4, <2>2, <2>4, <2>6, <2>9, Told
  <2>11. /\ t2.job = tick[l].job /\ t2.todo = tick[l].todo /\ t2.at \in InFire \cup {"next"}
         /\ t2.at # "count" /\ t2.at # "settle" /\ tick' = [tick EXCEPT ![l] = t2]
         /\ done' \in [Jobs -> Nat]
         /\ \A j \in Jobs : /\ row'[j].kind = row[j].kind
                            /\ row'[j].status = "new" <=> row[j].status = "new"
                            /\ j # TheJob(l) => row'[j] = row[j] /\ done'[j] = done[j]
         /\ CountsOK(t2, row'[TheJob(l)], done'[TheJob(l)], troubles, TheJob(l))
    BY <1>1, <1>2, <1>4, <2>3, <2>4, <2>5, <2>10 DEF Goto
  <2> QED
    BY <1>1, <1>3, <2>3, <2>4, <2>11, HandCounted
<1> QED
  BY <1>7, <1>8

LEMMA StatementFailsKeeps == ASSUME IInv, NEW l \in Ticks, StatementFails(l) PROVE IInv'
<1>1. /\ l \notin cancelled /\ OwnStep /\ row' = row /\ done' = done
      /\ troubles < MaxTroubles /\ troubles' = troubles + 1
  BY DEF StatementFails, Trouble
<1>2. tick[l].at \in {"fired", "count", "settle", "cron", "loop", "retire", "mark", "fail"}
  BY DEF StatementFails
<1>3. PICK t : t = tick[l]
  OBVIOUS
<1>4. /\ t \in TickType /\ WalkOK(t, row) /\ row \in [Jobs -> RowType]
      /\ troubles \in 0 .. MaxTroubles /\ troubles \in Nat
      /\ \A j \in Jobs : CountsOK(t, row[j], done[j], troubles, j)
  BY <1>1, <1>2, <1>3, WhereItIs
<1>5. troubles' > troubles /\ troubles' \in 0 .. MaxTroubles /\ troubles' >= troubles
  BY <1>1, <1>4, BoundsAssumption
<1>6. ASSUME NEW t2 \in TickType, tick' = [tick EXCEPT ![l] = t2], t2.at # "none", WalkOK(t2, row),
             \A j \in Jobs : Ahead(t2, j) => Ahead(t, j), \A j, x : ~Untold(t2, x, j),
             \A j \in Jobs : row[j].kind = "oneshot" /\ t2.at \in InFire /\ j \in t2.job =>
                               row[j].status # "completed"
      PROVE  IInv'
  <2>1. \A j \in Jobs : Keeps(t, row[j], troubles, t2, row'[j], troubles', j)
    BY <1>1, <1>5, <1>6 DEF Keeps
  <2>2. /\ tick[l].at # "none" /\ row' \in [Jobs -> RowType] /\ WalkOK(t2, row')
        /\ (t2.at = "none" => t2 = NoTask)
        /\ \A j \in Jobs : Keeps(tick[l], row[j], troubles, t2, row'[j], troubles', j)
    BY <1>1, <1>2, <1>3, <1>4, <1>6, <2>1
  <2> QED
    BY <1>1, <1>5, <1>6, <2>2, TickKeeps
<1>7. ASSUME tick[l].at \in {"fired", "count", "settle"}, Goto(l, "fail") PROVE IInv'
  <2>1. PICK t2 : t2 = [t EXCEPT !.at = "fail"]
    OBVIOUS
  <2>2. tick' = [tick EXCEPT ![l] = t2] /\ t.at \in {"fired", "count", "settle"} /\ t.at \in InFire
    BY <1>3, <1>7, <2>1 DEF Goto, InFire
  <2>3. t2 \in TickType /\ t2.at = "fail" /\ t2.todo = t.todo /\ t2.job = t.job
    <3>1. "fail" \in Places
      BY DEF Places
    <3> QED
      BY <1>4, <2>1, <3>1, GotoType
  <2>4. WalkOK(t2, row)
    <3>1. PICK table : table = row
      OBVIOUS
    <3>2. t.at \in InFire /\ WalkOK(t, table) /\ t2.at # "retire" /\ t2.at # "count" /\ t2.at # "settle"
      BY <1>4, <2>2, <2>3, <3>1
    <3> QED
      BY <1>4, <2>3, <3>1, <3>2, WalkKept
  <2>5. \A j \in Jobs : Ahead(t2, j) => Ahead(t, j)
    BY <2>3 DEF Ahead
  <2>6. \A j, x : ~Untold(t2, x, j)
    BY <2>3 DEF Untold
  <2>7. \A j \in Jobs : row[j].kind = "oneshot" /\ j \in t2.job => row[j].status # "completed"
    BY <1>4, <2>2, <2>3 DEF CountsOK
  <2> QED
    BY <1>6, <2>2, <2>3, <2>4, <2>5, <2>6, <2>7
<1>8. ASSUME tick' = [tick EXCEPT ![l] = [NoTask EXCEPT !.at = "sleep"]] PROVE IInv'
  <2>1. PICK t2 : t2 = [NoTask EXCEPT !.at = "sleep"]
    OBVIOUS
  <2>2. t2 \in TickType /\ t2.at = "sleep" /\ t2.todo = {} /\ t2.job = {}
    BY <2>1 DEF NoTask, TickType, Places
  <2>3. WalkOK(t2, row) /\ t2.at \notin InFire
    BY <2>2 DEF WalkOK, InFire
  <2>4. \A j, x : ~Ahead(t2, j) /\ ~Untold(t2, x, j)
    BY <2>2 DEF Ahead, Untold
  <2>5. tick' = [tick EXCEPT ![l] = t2]
    BY <1>8, <2>1
  <2> QED
    BY <1>6, <2>2, <2>3, <2>4, <2>5
<1> QED
  BY <1>7, <1>8 DEF StatementFails

-----------------------------------------------------------------------------
(* Steps of the others.                                                    *)

\* What is known of the tick task that goes on, whichever it is.
LEMMA WhatIsCurrent ==
  ASSUME IInv
  PROVE  /\ Current \in TickType /\ WalkOK(Current, row)
         /\ row \in [Jobs -> RowType] /\ done \in [Jobs -> Nat]
         /\ troubles \in 0 .. MaxTroubles /\ troubles \in Nat
         /\ \A j \in Jobs : CountsOK(Current, row[j], done[j], troubles, j)
<1>1. Current \in TickType
  BY NoTaskIdle DEF IInv, TypeOK, Current, TickType
<1> QED
  BY <1>1, BoundsAssumption DEF IInv, TypeOK, RowType

\* The jobs are as well counted as before if the tick task is given up by a trouble, or
\* there was none.
LEMMA TableKept ==
  ASSUME IInv, UNCHANGED <<row, done>>, TypeOK', TasksOK', \A j \in adding' : row[j].status = "new",
         troubles' >= troubles,
         \/ Current' = Current
         \/ /\ Current'.todo = {} /\ Current'.job = {} /\ Current'.at \in {"none", "sleep"}
            /\ Current = NoTask \/ troubles' > troubles
  PROVE  IInv'
<1>1. PICK t, t2, m, m2 : t = Current /\ t2 = Current' /\ m = troubles /\ m2 = troubles'
  OBVIOUS
<1>2. /\ t \in TickType /\ WalkOK(t, row) /\ row \in [Jobs -> RowType] /\ done \in [Jobs -> Nat]
      /\ m \in Nat /\ \A j \in Jobs : CountsOK(t, row[j], done[j], m, j)
  BY <1>1, WhatIsCurrent
<1>3. m2 \in Nat /\ m2 >= m
  BY <1>1, BoundsAssumption DEF TypeOK
<1>4. t2 = t \/ (t2.todo = {} /\ t2.job = {} /\ t2.at \in {"none", "sleep"} /\ (t = NoTask \/ m2 > m))
  BY <1>1
<1>5. WalkOK(t2, row)
  <2>1. CASE t2 = t
    BY <1>2, <2>1
  <2>2. CASE t2.todo = {} /\ t2.job = {} /\ t2.at \in {"none", "sleep"}
    BY <2>2 DEF WalkOK, InFire
  <2> QED
    BY <1>4, <2>1, <2>2
<1>6. ASSUME NEW j \in Jobs PROVE CountsOK(t2, row[j], done[j], m2, j)
  <2>1. PICK x, n : x = row[j] /\ n = done[j]
    OBVIOUS
  <2>2. x \in RowType /\ n \in Nat /\ CountsOK(t, x, n, m, j)
    BY <1>2, <2>1
  <2>3. /\ Ahead(t2, j) => Ahead(t, j)
        /\ Untold(t2, x, j) => Untold(t, x, j)
        /\ x.kind \in {"oneshot", "loop"} /\ Untold(t, x, j) => Untold(t2, x, j) \/ m2 > m
        /\ x.kind = "oneshot" /\ t2.at \in InFire /\ j \in t2.job => x.status # "completed"
    <3>1. CASE t2 = t
      BY <2>2, <3>1 DEF CountsOK
    <3>2. CASE t2.todo = {} /\ t2.job = {} /\ t2.at \in {"none", "sleep"} /\ (t = NoTask \/ m2 > m)
      <4>1. ~Ahead(t2, j) /\ ~Untold(t2, x, j) /\ t2.at \notin InFire
        BY <3>2 DEF Ahead, Untold, InFire
      <4> QED
        BY <3>2, <4>1, NoTaskIdle
    <3> QED
      BY <1>4, <3>1, <3>2
  <2>4. PICK x2 : x2 = x
    OBVIOUS
  <2>5. /\ x2 \in RowType /\ x2.kind = x.kind /\ Progress(x2) = Progress(x)
        /\ x2.status = "new" <=> x.status = "new"
        /\ x2.status = "gone" <=> x.status = "gone"
        /\ x.kind = "oneshot" /\ t2.at \in InFire /\ j \in t2.job => x2.status # "completed"
    BY <2>2, <2>3, <2>4
  <2>6. CountsOK(t2, x2, n, m2, j)
    BY <1>2, <1>3, <2>2, <2>3, <2>5, CountsKept
  <2> QED
    BY <2>1, <2>4, <2>6
<1>7. WalkOK(Current', row') /\ \A j \in Jobs : CountsOK(Current', row'[j], done'[j], troubles', j)
  BY <1>1, <1>5, <1>6
<1>8. \A j \in adding' : row'[j].status = "new"
  OBVIOUS
<1> QED
  BY <1>7, <1>8 DEF IInv

\* The table is changed by others, and the jobs of a walk keep their kinds.
LEMMA TableChanges ==
  ASSUME IInv, UNCHANGED <<memory, done, troubles>>, row' \in [Jobs -> RowType], adding' \subseteq adding,
         \A j \in adding' : row'[j].status = "new",
         \A j \in Jobs : /\ row'[j].kind = row[j].kind \/ row[j].status = "new"
                         /\ row'[j].status = "new" => row[j].status = "new"
                         /\ CountsOK(Current, row'[j], done[j], troubles, j)
  PROVE  IInv'
<1>1. /\ UNCHANGED <<tick, cancelled, task, isRunning, isInitialized, ctl>>
      /\ done' = done /\ troubles' = troubles
  BY DEF memory
<1>2. Current' = Current
  BY <1>1 DEF Current
<1>3. TasksOK'
  BY <1>1 DEF IInv, TasksOK
<1>4. TypeOK'
  BY <1>1 DEF IInv, TypeOK, RowType
<1>5. Current \in TickType /\ WalkOK(Current, row)
  BY WhatIsCurrent
<1>6. WalkOK(Current, row')
  <2>1. PICK t, table, table2 : t = Current /\ table = row /\ table2 = row'
    OBVIOUS
  <2>2. t \in TickType /\ WalkOK(t, table)
    BY <1>5, <2>1
  <2>3. t.job \subseteq Jobs /\ \A e \in t.todo : e[1] \in Jobs
    BY <2>2 DEF TickType
  <2>4. \A j \in Jobs : /\ table2[j].kind = table[j].kind \/ table[j].status = "new"
                        /\ table2[j].status = "new" => table[j].status = "new"
    BY <2>1
  <2>5. WalkOK(t, table2)
    BY <2>2, <2>3, <2>4 DEF WalkOK
  <2> QED
    BY <2>1, <2>5
<1> QED
  BY <1>1, <1>2, <1>3, <1>4, <1>6 DEF IInv

LEMMA CountJobsKeeps == ASSUME IInv, NEW j \in Jobs, CountJobs(j) PROVE IInv'
<1>1. /\ row[j].status = "new" /\ isInitialized' = TRUE /\ adding' = adding \cup {j}
      /\ UNCHANGED <<row, tick, cancelled, task, isRunning, ctl, done, troubles>>
  BY DEF CountJobs
<1>2. Current' = Current
  BY <1>1 DEF Current
<1>3. TasksOK'
  BY <1>1 DEF IInv, TasksOK
<1>4. isRunning \in BOOLEAN
  BY DEF IInv, TypeOK
<1>5. isRunning' \in BOOLEAN /\ isInitialized' \in BOOLEAN
  BY <1>1, <1>4
<1>6. TypeOK'
  BY <1>1, <1>5 DEF IInv, TypeOK
<1>7. \A i \in adding' : row[i].status = "new"
  BY <1>1 DEF IInv
<1>8. troubles' >= troubles
  BY <1>1, WhatIsCurrent
<1> QED
  BY <1>1, <1>2, <1>3, <1>6, <1>7, <1>8, TableKept

LEMMA InsertJobKeeps == ASSUME IInv, NEW j \in Jobs, InsertJob(j) PROVE IInv'
<1>1. j \in adding /\ adding' = adding \ {j} /\ UNCHANGED <<memory, done, troubles>>
  BY DEF InsertJob
<1>2. PICK k, x2 :
        /\ k \in Offered[j]
        /\ x2 = [kind |-> k, status |-> "pending", count |-> 0, due |-> IF k = "loop" THEN "yes" ELSE "no"]
        /\ row' = [row EXCEPT ![j] = x2]
  BY DEF InsertJob
<1>3. k \in Kinds
  BY OfferedAssumption, <1>2
<1>4. x2 \in RowType /\ x2.status = "pending" /\ x2.count = 0
  BY <1>2, <1>3, BoundsAssumption DEF RowType, Statuses, Dues
<1>5. PICK t, n, m : t = Current /\ n = done[j] /\ m = troubles
  OBVIOUS
<1>6. /\ t \in TickType /\ WalkOK(t, row) /\ row \in [Jobs -> RowType]
      /\ n \in Nat /\ m \in Nat /\ \A i \in Jobs : CountsOK(t, row[i], done[i], m, i)
  BY <1>5, WhatIsCurrent
<1>7. row[j].status = "new" /\ \A i \in adding : row[i].status = "new"
  BY <1>1 DEF IInv
<1>8. j \notin t.job /\ <<j, "fire">> \notin t.todo
  <2>1. <<j, "fire">>[1] = j
    OBVIOUS
  <2> QED
    BY <1>6, <1>7, <2>1 DEF WalkOK
<1>9. ~Ahead(t, j) /\ ~Untold(t, x2, j) /\ n = 0
  BY <1>5, <1>6, <1>7, <1>8 DEF Ahead, Untold, CountsOK
<1>10. Progress(x2) = 0 /\ Goal(x2) \in Nat
  BY <1>4, ProgressType DEF Progress
<1>11. CountsOK(t, x2, n, m, j)
  BY <1>4, <1>6, <1>8, <1>9, <1>10 DEF CountsOK
<1>12. /\ row' \in [Jobs -> RowType] /\ row'[j] = x2 /\ \A i \in Jobs : i # j => row'[i] = row[i]
  BY <1>2, <1>4, <1>6
<1>13. \A i \in Jobs : /\ row'[i].kind = row[i].kind \/ row[i].status = "new"
                       /\ row'[i].status = "new" => row[i].status = "new"
                       /\ CountsOK(Current, row'[i], done[i], troubles, i)
  BY <1>5, <1>6, <1>7, <1>11, <1>12
<1>14. adding' \subseteq adding /\ \A i \in adding' : row'[i].status = "new"
  <2>1. adding \subseteq Jobs
    BY DEF IInv, TypeOK
  <2> QED
    BY <1>1, <1>7, <1>12, <2>1
<1> QED
  BY <1>1, <1>12, <1>13, <1>14, TableChanges

\* Some rows are deleted.
LEMMA RowsDeleted ==
  ASSUME IInv, UNCHANGED <<adding, memory, done, troubles>>, NEW Out \in SUBSET Jobs,
         \A j \in Out : Present(j), row' = [j \in Jobs |-> IF j \in Out THEN Deleted(j) ELSE row[j]]
  PROVE  IInv'
<1>1. /\ WalkOK(Current, row) /\ row \in [Jobs -> RowType]
      /\ done \in [Jobs -> Nat] /\ troubles \in Nat
      /\ \A j \in Jobs : CountsOK(Current, row[j], done[j], troubles, j)
  BY WhatIsCurrent
<1>2. ASSUME NEW j \in Out
      PROVE  /\ Deleted(j) \in RowType /\ Deleted(j).kind = row[j].kind /\ Deleted(j).status = "gone"
             /\ row[j].status \notin {"new", "gone"}
  BY <1>1, BoundsAssumption DEF Deleted, Kind, Present, RowType, Statuses, Dues
<1>3. row' \in [Jobs -> RowType]
  BY <1>1, <1>2
<1>4. ASSUME NEW j \in Jobs
      PROVE  /\ row'[j].kind = row[j].kind
             /\ row'[j].status = "new" <=> row[j].status = "new"
             /\ CountsOK(Current, row'[j], done[j], troubles, j)
  <2>1. CASE j \in Out
    <3>1. PICK t, table, x, n, m, x2 : /\ t = Current /\ table = row /\ x = row[j] /\ n = done[j]
                                       /\ m = troubles /\ x2 = row'[j]
      OBVIOUS
    <3>2. /\ x \in RowType /\ x = table[j] /\ n \in Nat /\ m \in Nat /\ CountsOK(t, x, n, m, j)
          /\ WalkOK(t, table) /\ x.status \notin {"new", "gone"}
          /\ x2.kind = x.kind /\ x2.status = "gone"
      BY <1>1, <1>2, <2>1, <3>1
    <3>3. CountsOK(t, x2, n, m, j)
      BY <3>2, CountsDeleted
    <3> QED
      BY <3>1, <3>2, <3>3
  <2>2. CASE j \notin Out
    BY <1>1, <2>2
  <2> QED
    BY <2>1, <2>2
<1>5. /\ adding' \subseteq adding /\ UNCHANGED <<memory, done, troubles>>
      /\ \A j \in adding' : row'[j].status = "new"
  BY <1>4 DEF IInv, TypeOK
<1> QED
  BY <1>3, <1>4, <1>5, TableChanges

LEMMA RemoveJobKeeps == ASSUME IInv, NEW j \in Jobs, RemoveJob(j) PROVE IInv'
<1>1. /\ Present(j) /\ row' = [row EXCEPT ![j] = Deleted(j)]
      /\ UNCHANGED <<adding, memory, done, troubles>>
  BY DEF RemoveJob
<1>2. row \in [Jobs -> RowType]
  BY WhatIsCurrent
<1>3. row' = [i \in Jobs |-> IF i \in {j} THEN Deleted(i) ELSE row[i]]
  BY <1>1, <1>2
<1> QED
  BY <1>1, <1>3, RowsDeleted

LEMMA CleanupCompletedKeeps == ASSUME IInv, CleanupCompleted PROVE IInv'
<1>1. PICK Out : Out = {j \in Jobs : row[j].status \in Terminal}
  OBVIOUS
<1>2. /\ row' = [j \in Jobs |-> IF j \in Out THEN Deleted(j) ELSE row[j]]
      /\ UNCHANGED <<adding, memory, done, troubles>>
  BY <1>1 DEF CleanupCompleted
<1>3. Out \in SUBSET Jobs /\ \A j \in Out : Present(j)
  BY <1>1 DEF Present, Terminal
<1> QED
  BY <1>2, <1>3, RowsDeleted

LEMMA TimePassesKeeps == ASSUME IInv, NEW j \in Jobs, TimePasses(j) PROVE IInv'
<1>1. UNCHANGED <<adding, memory, done, troubles>>
  BY DEF TimePasses
<1>2. PICK d \in Dues : d = (IF row[j].due = "no" /\ IsCron(j) THEN "jitter" ELSE "yes")
  BY DEF Dues
<1>3. row' = [row EXCEPT ![j].due = d]
  BY <1>2 DEF TimePasses
<1>4. /\ row \in [Jobs -> RowType] /\ \A i \in Jobs : CountsOK(Current, row[i], done[i], troubles, i)
  BY WhatIsCurrent
<1>5. /\ row' \in [Jobs -> RowType]
      /\ \A i \in Jobs : /\ row'[i].kind = row[i].kind /\ row'[i].count = row[i].count
                         /\ row'[i].status = row[i].status
  BY <1>3, <1>4, DueSet
<1>6. ASSUME NEW t, NEW x, NEW x2, NEW n, NEW m, NEW i, CountsOK(t, x, n, m, i),
             x2.kind = x.kind, x2.count = x.count, x2.status = x.status
      PROVE  CountsOK(t, x2, n, m, i)
  <2>1. Progress(x2) = Progress(x) /\ Goal(x2) = Goal(x) /\ (Untold(t, x2, i) <=> Untold(t, x, i))
    BY <1>6 DEF Progress, Goal, Untold
  <2> QED
    BY <1>6, <2>1 DEF CountsOK
<1>7. \A i \in Jobs : CountsOK(Current, row'[i], done[i], troubles, i)
  BY <1>4, <1>5, <1>6
<1>8. adding' \subseteq adding /\ \A i \in adding' : row'[i].status = "new"
  BY <1>1, <1>5 DEF IInv, TypeOK
<1>9. \A i \in Jobs : /\ row'[i].kind = row[i].kind \/ row[i].status = "new"
                      /\ row'[i].status = "new" => row[i].status = "new"
                      /\ CountsOK(Current, row'[i], done[i], troubles, i)
  BY <1>5, <1>7
<1> QED
  BY <1>1, <1>5, <1>8, <1>9, TableChanges

\* When the controller is not within a call and the scheduler is stopped, no task is live.
LEMMA NoneLive ==
  ASSUME IInv, OneController, NEW c \in Controllers, ctl[c].at # "stopping", ~isRunning
  PROVE  (\A l \in Ticks : tick[l].at = "none") /\ Current = NoTask
<1>1. \A l \in Ticks : tick[l].at = "none" /\ tick[l] = NoTask
  BY DEF IInv, TasksOK, OneController
<1> QED
  BY <1>1 DEF Current

LEMMA CreateTaskKeeps ==
  ASSUME IInv, OneController, NEW c \in Controllers, ctl[c].at # "stopping", ~isRunning,
         NEW l \in Ticks, CreateTask(l), UNCHANGED <<row, adding, done, troubles>>,
         isInitialized' = TRUE,
         ctl' \in [Controllers -> [at : {"idle", "init", "stopping"}, awaits : Ticks \cup {NoTick}]],
         ctl'[c].at = "idle"
  PROVE  IInv'
<1>1. (\A k \in Ticks : tick[k].at = "none") /\ Current = NoTask /\ (\A k \in Ticks : tick[k] = NoTask)
  BY NoneLive DEF IInv, TasksOK
<1>2. PICK t2 : t2 = [NoTask EXCEPT !.at = "sleep"]
  OBVIOUS
<1>3. t2 \in TickType /\ t2.at = "sleep" /\ t2.todo = {} /\ t2.job = {}
  BY <1>2 DEF NoTask, TickType, Places
<1>4. /\ tick \in [Ticks -> TickType] /\ cancelled \subseteq Ticks /\ adding \subseteq Jobs
      /\ \A j \in adding : row[j].status = "new"
  BY DEF IInv, TypeOK, TickType
<1>5. tick' = [tick EXCEPT ![l] = t2] /\ task' = l /\ isRunning' = TRUE /\ cancelled' = cancelled
  BY <1>1, <1>2 DEF CreateTask
<1>6. tick' \in [Ticks -> TickType]
  BY <1>3, <1>4, <1>5
<1>7. isRunning' \in BOOLEAN /\ isInitialized' \in BOOLEAN
  BY <1>5
<1>8. TypeOK'
  BY <1>4, <1>5, <1>6, <1>7 DEF IInv, TypeOK, TickType
<1>9. \A d \in Controllers : ctl'[d].at = "idle"
  BY DEF OneController
<1>10. tick'[l] = t2 /\ \A k \in Ticks : k # l => tick'[k] = NoTask
  BY <1>1, <1>4, <1>5
<1>11. NoTask.at = "none"
  BY NoTaskIdle
<1>12. TasksOK'
  BY <1>3, <1>5, <1>9, <1>10, <1>11 DEF TasksOK
<1>13. Current' = t2 \/ Current' = NoTask
  BY <1>5, <1>10 DEF Current
<1>14. Current'.todo = {} /\ Current'.job = {} /\ Current'.at \in {"none", "sleep"}
  BY <1>3, <1>13 DEF NoTask
<1>15. troubles' >= troubles
  BY WhatIsCurrent
<1> QED
  BY <1>1, <1>4, <1>8, <1>12, <1>14, <1>15, TableKept

LEMMA StartKeeps == ASSUME IInv, OneController, NEW c \in Controllers, Start(c) PROVE IInv'
<1>1. /\ ctl[c].at = "idle" /\ ~isRunning
      /\ UNCHANGED <<row, adding, isInitialized, done, troubles>>
  BY DEF Start
<1>2. ctl \in [Controllers -> [at : {"idle", "init", "stopping"}, awaits : Ticks \cup {NoTick}]]
  BY DEF IInv, TypeOK
<1>3. ASSUME isInitialized, NEW l \in Ticks, CreateTask(l), UNCHANGED ctl PROVE IInv'
  <2>1. isInitialized \in BOOLEAN
    BY DEF IInv, TypeOK
  <2>2. isInitialized' = TRUE
    BY <1>1, <1>3, <2>1
  <2> QED
    BY <1>1, <1>2, <1>3, <2>2, CreateTaskKeeps
<1>4. ASSUME ctl' = [ctl EXCEPT ![c].at = "init"], UNCHANGED <<tick, cancelled, task, isRunning>> PROVE IInv'
  <2>1. /\ ctl' \in [Controllers -> [at : {"idle", "init", "stopping"}, awaits : Ticks \cup {NoTick}]]
        /\ \A d \in Controllers : ctl'[d].at = "init"
    <3>1. PICK z : z = [ctl[c] EXCEPT !.at = "init"]
      OBVIOUS
    <3>2. \A y \in [at : {"idle", "init", "stopping"}, awaits : Ticks \cup {NoTick}] :
            LET w == [y EXCEPT !.at = "init"]
            IN  w \in [at : {"idle", "init", "stopping"}, awaits : Ticks \cup {NoTick}] /\ w.at = "init"
      OBVIOUS
    <3>3. /\ z \in [at : {"idle", "init", "stopping"}, awaits : Ticks \cup {NoTick}] /\ z.at = "init"
          /\ ctl' = [ctl EXCEPT ![c] = z]
      BY <1>2, <1>4, <3>1, <3>2
    <3> QED
      BY <1>2, <3>3 DEF OneController
  <2>2. \A l \in Ticks : tick[l].at = "none"
    BY <1>1, NoneLive
  <2>3. TasksOK'
    BY <1>1, <1>4, <2>1, <2>2 DEF IInv, TasksOK
  <2>4. TypeOK'
    BY <1>1, <1>4, <2>1 DEF IInv, TypeOK
  <2>5. Current' = Current
    BY <1>4 DEF Current
  <2>6. troubles' >= troubles /\ \A j \in adding' : row[j].status = "new"
    BY <1>1, WhatIsCurrent DEF IInv
  <2> QED
    BY <1>1, <2>3, <2>4, <2>5, <2>6, TableKept
<1> QED
  BY <1>3, <1>4 DEF Start

LEMMA FinishStartKeeps == ASSUME IInv, OneController, NEW c \in Controllers, FinishStart(c) PROVE IInv'
<1>1. /\ ctl[c].at = "init" /\ isInitialized' = TRUE /\ ctl' = [ctl EXCEPT ![c].at = "idle"]
      /\ UNCHANGED <<row, adding, done, troubles>>
  BY DEF FinishStart
<1>2. ctl \in [Controllers -> [at : {"idle", "init", "stopping"}, awaits : Ticks \cup {NoTick}]]
  BY DEF IInv, TypeOK
<1>3. ctl' \in [Controllers -> [at : {"idle", "init", "stopping"}, awaits : Ticks \cup {NoTick}]]
      /\ ctl'[c].at = "idle"
  <2>1. PICK z : z = [ctl[c] EXCEPT !.at = "idle"]
    OBVIOUS
  <2>2. \A y \in [at : {"idle", "init", "stopping"}, awaits : Ticks \cup {NoTick}] :
          LET w == [y EXCEPT !.at = "idle"]
          IN  w \in [at : {"idle", "init", "stopping"}, awaits : Ticks \cup {NoTick}] /\ w.at = "idle"
    OBVIOUS
  <2>3. /\ z \in [at : {"idle", "init", "stopping"}, awaits : Ticks \cup {NoTick}] /\ z.at = "idle"
        /\ ctl' = [ctl EXCEPT ![c] = z]
    BY <1>1, <1>2, <2>1, <2>2
  <2> QED
    BY <1>2, <2>3
<1>4. ~isRunning
  BY <1>1 DEF IInv, TasksOK
<1>5. PICK l \in Ticks : CreateTask(l)
  BY DEF FinishStart
<1> QED
  BY <1>1, <1>3, <1>4, <1>5, CreateTaskKeeps

LEMMA StopKeeps == ASSUME IInv, OneController, NEW c \in Controllers, Stop(c) PROVE IInv'
<1>1. /\ ctl[c].at = "idle" /\ isRunning /\ isRunning' = FALSE
      /\ troubles < MaxTroubles /\ troubles' = troubles + 1
      /\ UNCHANGED <<row, adding, tick, task, isInitialized, done>>
  BY DEF Stop, Trouble
<1>2. /\ ctl \in [Controllers -> [at : {"idle", "init", "stopping"}, awaits : Ticks \cup {NoTick}]]
      /\ tick \in [Ticks -> TickType] /\ cancelled \subseteq Ticks /\ task \in Ticks \cup {NoTick}
      /\ \A l \in Ticks : /\ tick[l].at # "none" => l = task
                          /\ tick[l].at = "none" => tick[l] = NoTask
      /\ \A d \in Controllers : d = c
  BY DEF IInv, TypeOK, TickType, TasksOK, OneController
<1>3. troubles' \in 0 .. MaxTroubles /\ troubles' > troubles /\ troubles' >= troubles
  BY <1>1, WhatIsCurrent, BoundsAssumption
<1>4. /\ cancelled' \subseteq Ticks
      /\ ctl' \in [Controllers -> [at : {"idle", "init", "stopping"}, awaits : Ticks \cup {NoTick}]]
      /\ task # NoTick => ctl'[c] = [at |-> "stopping", awaits |-> task]
      /\ task = NoTick => ctl'[c].at = "idle" /\ \A l \in Ticks : tick[l].at = "none"
      /\ task \in Ticks /\ tick[task].at # "none" => task \in cancelled'
  <2>1. CASE task # NoTick
    <3>1. /\ cancelled' = cancelled \cup {l \in {task} : tick[l].at # "none"}
          /\ ctl' = [ctl EXCEPT ![c] = [at |-> "stopping", awaits |-> task]]
      BY <2>1 DEF Stop
    <3> QED
      BY <1>2, <2>1, <3>1
  <2>2. CASE task = NoTick
    <3>1. cancelled' = cancelled /\ ctl' = ctl
      BY <2>2 DEF Stop
    <3> QED
      BY <1>1, <1>2, <2>2, <3>1, TicksAssumption
  <2> QED
    BY <2>1, <2>2
<1>5. isRunning' \in BOOLEAN /\ isInitialized' \in BOOLEAN
  BY <1>1 DEF IInv, TypeOK
<1>6. TypeOK'
  BY <1>1, <1>3, <1>4, <1>5 DEF IInv, TypeOK
<1>7. TasksOK'
  BY <1>1, <1>2, <1>4 DEF TasksOK
<1>8. Current' = NoTask
  BY <1>1, <1>2, <1>4 DEF Current
<1>9. Current'.todo = {} /\ Current'.job = {} /\ Current'.at \in {"none", "sleep"}
  BY <1>8 DEF NoTask
<1>10. \A j \in adding' : row[j].status = "new"
  BY <1>1 DEF IInv
<1> QED
  BY <1>1, <1>3, <1>6, <1>7, <1>9, <1>10, TableKept

LEMMA StopReturnsKeeps == ASSUME IInv, OneController, NEW c \in Controllers, StopReturns(c) PROVE IInv'
<1>1. /\ ctl[c].at = "stopping" /\ tick[ctl[c].awaits].at = "none" /\ task' = NoTick
      /\ ctl' = [ctl EXCEPT ![c] = AtRest]
      /\ UNCHANGED <<row, adding, tick, cancelled, isRunning, isInitialized, done, troubles>>
  BY DEF StopReturns
<1>2. /\ ctl \in [Controllers -> [at : {"idle", "init", "stopping"}, awaits : Ticks \cup {NoTick}]]
      /\ \A l \in Ticks : tick[l].at = "none" /\ tick[l] = NoTask
      /\ \A d \in Controllers : d = c
  BY <1>1 DEF IInv, TypeOK, TasksOK, OneController
<1>3. /\ ctl' \in [Controllers -> [at : {"idle", "init", "stopping"}, awaits : Ticks \cup {NoTick}]]
      /\ ctl'[c].at = "idle"
  BY <1>1, <1>2 DEF AtRest
<1>4. TypeOK'
  BY <1>1, <1>3 DEF IInv, TypeOK
<1>5. TasksOK'
  BY <1>1, <1>2, <1>3 DEF TasksOK
<1>6. Current = NoTask /\ Current' = NoTask
  BY <1>1, <1>2, TicksAssumption DEF Current
<1>7. troubles' >= troubles /\ \A j \in adding' : row[j].status = "new"
  BY <1>1, WhatIsCurrent DEF IInv
<1> QED
  BY <1>1, <1>4, <1>5, <1>6, <1>7, TableKept

LEMMA CancelDeliveredKeeps == ASSUME IInv, NEW l \in Ticks, CancelDelivered(l) PROVE IInv'
<1>1. /\ l \in cancelled /\ cancelled' = cancelled \ {l} /\ tick' = [tick EXCEPT ![l] = NoTask]
      /\ UNCHANGED <<row, adding, task, isRunning, isInitialized, ctl, done, troubles>>
  BY DEF CancelDelivered
<1>2. tick \in [Ticks -> TickType] /\ cancelled \subseteq Ticks /\ TasksOK
  BY DEF IInv, TypeOK, TickType
<1>3. /\ tick' \in [Ticks -> TickType] /\ tick'[l] = NoTask
      /\ \A k \in Ticks : k # l => tick'[k] = tick[k]
  BY <1>1, <1>2, NoTaskIdle
<1>4. TypeOK'
  BY <1>1, <1>2, <1>3 DEF IInv, TypeOK, TickType
<1>5. TasksOK'
  BY <1>1, <1>2, <1>3, NoTaskIdle DEF TasksOK
<1>6. Current' = Current
  BY <1>1, <1>2, <1>3 DEF Current
<1>7. troubles' >= troubles /\ \A j \in adding' : row[j].status = "new"
  BY <1>1, WhatIsCurrent DEF IInv
<1> QED
  BY <1>1, <1>4, <1>5, <1>6, <1>7, TableKept

LEMMA CrashKeeps == ASSUME IInv, Crash PROVE IInv'
<1>1. /\ troubles < MaxTroubles /\ troubles' = troubles + 1 /\ UNCHANGED <<row, done>>
      /\ adding' = {} /\ tick' = [l \in Ticks |-> NoTask] /\ cancelled' = {} /\ task' = NoTick
      /\ isRunning' = FALSE /\ isInitialized' = FALSE /\ ctl' = [c \in Controllers |-> AtRest]
  BY DEF Crash, Trouble
<1>2. troubles' \in 0 .. MaxTroubles /\ troubles' > troubles /\ troubles' >= troubles
  BY <1>1, WhatIsCurrent, BoundsAssumption
<1>3. /\ tick' \in [Ticks -> TickType] /\ adding' \subseteq Jobs /\ cancelled' \subseteq Ticks
      /\ ctl' \in [Controllers -> [at : {"idle", "init", "stopping"}, awaits : Ticks \cup {NoTick}]]
  BY <1>1, NoTaskIdle DEF AtRest
<1>4. isRunning' \in BOOLEAN /\ isInitialized' \in BOOLEAN
  BY <1>1
<1>5. TypeOK'
  BY <1>1, <1>2, <1>3, <1>4 DEF IInv, TypeOK, TickType
<1>6. TasksOK'
  BY <1>1, NoTaskIdle DEF TasksOK, AtRest
<1>7. Current' = NoTask
  BY <1>1, TicksAssumption DEF Current
<1>8. Current'.todo = {} /\ Current'.job = {} /\ Current'.at \in {"none", "sleep"}
  BY <1>7 DEF NoTask
<1>9. \A j \in adding' : row[j].status = "new"
  BY <1>1
<1> QED
  BY <1>1, <1>2, <1>5, <1>6, <1>8, <1>9, TableKept

-----------------------------------------------------------------------------
(* The theorems.                                                           *)

LEMMA InitIInv == ASSUME Init PROVE IInv
<1>1. /\ row = [j \in Jobs |-> [kind |-> "recurring", status |-> "new", due |-> "no", count |-> 0]]
      /\ adding = {} /\ tick = [l \in Ticks |-> NoTask] /\ cancelled = {} /\ task = NoTick
      /\ isRunning = FALSE /\ isInitialized = FALSE /\ ctl = [c \in Controllers |-> AtRest]
      /\ done = [j \in Jobs |-> 0] /\ troubles = 0
  BY DEF Init
<1>2. /\ tick \in [Ticks -> TickType]
      /\ row \in [Jobs -> RowType]
      /\ ctl \in [Controllers -> [at : {"idle", "init", "stopping"}, awaits : Ticks \cup {NoTick}]]
      /\ done \in [Jobs -> Nat] /\ troubles \in 0 .. MaxTroubles
  BY <1>1, NoTaskIdle, BoundsAssumption DEF AtRest, RowType, Kinds, Statuses, Dues
<1>3. isRunning \in BOOLEAN /\ isInitialized \in BOOLEAN
  BY <1>1
<1>4. TypeOK
  BY <1>1, <1>2, <1>3 DEF TypeOK, TickType, RowType
<1>5. TasksOK
  BY <1>1, NoTaskIdle DEF TasksOK, AtRest
<1>6. Current = NoTask
  BY <1>1, TicksAssumption DEF Current
<1>7. WalkOK(Current, row)
  BY <1>6, NoTaskIdle
<1>8. \A j \in Jobs : CountsOK(Current, row[j], done[j], troubles, j)
  BY <1>1 DEF CountsOK
<1> QED
  BY <1>1, <1>4, <1>5, <1>7, <1>8 DEF IInv

LEMMA TickStepKeeps == ASSUME IInv, NEW l \in Ticks, TickStep(l) PROVE IInv'
<1>1. ASSUME CancelDelivered(l) \/ Wake(l) \/ QueryCron(l) \/ QueryLoop(l) \/ NextJob(l) PROVE IInv'
  BY <1>1, CancelDeliveredKeeps, WakeKeeps, QueryCronKeeps, QueryLoopKeeps, NextJobKeeps
<1>2. ASSUME Retire(l) \/ MarkRunning(l) \/ CallReturns(l) \/ CallRaises(l) PROVE IInv'
  BY <1>2, RetireKeeps, MarkRunningKeeps, CallReturnsKeeps, CallRaisesKeeps
<1>3. ASSUME MarkFired(l) \/ IncrementIteration(l) \/ Settle(l) \/ MarkFailed(l) PROVE IInv'
  BY <1>3, MarkFiredKeeps, IncrementIterationKeeps, SettleKeeps, MarkFailedKeeps
<1> QED
  BY <1>1, <1>2, <1>3 DEF TickStep

LEMMA NextKeeps == ASSUME IInv, OneController, [Next]_vars PROVE IInv'
<1>1. ASSUME NEW j \in Jobs, CountJobs(j) \/ InsertJob(j) \/ RemoveJob(j) \/ TimePasses(j) PROVE IInv'
  BY <1>1, CountJobsKeeps, InsertJobKeeps, RemoveJobKeeps, TimePassesKeeps
<1>2. ASSUME NEW c \in Controllers, Start(c) \/ FinishStart(c) \/ Stop(c) \/ StopReturns(c) PROVE IInv'
  BY <1>2, StartKeeps, FinishStartKeeps, StopKeeps, StopReturnsKeeps
<1>3. ASSUME NEW l \in Ticks, TickStep(l) \/ StatementFails(l) PROVE IInv'
  BY <1>3, TickStepKeeps, StatementFailsKeeps
<1>4. ASSUME CleanupCompleted \/ Crash PROVE IInv'
  BY <1>4, CleanupCompletedKeeps, CrashKeeps
<1>5. ASSUME UNCHANGED vars PROVE IInv'
  <2>1. UNCHANGED <<row, adding, tick, cancelled, task, isRunning, isInitialized, ctl, done, troubles>>
    BY <1>5 DEF vars, memory
  <2>2. Current' = Current
    BY <2>1 DEF Current
  <2>3. TypeOK' /\ TasksOK'
    BY <2>1 DEF IInv, TypeOK, TasksOK
  <2> QED
    BY <2>1, <2>2, <2>3 DEF IInv
<1> QED
  BY <1>1, <1>2, <1>3, <1>4, <1>5 DEF Next

LEMMA SchedulerInvariant == ASSUME OneController PROVE Spec => []IInv
<1>1. Init => IInv
  BY InitIInv
<1>2. IInv /\ [Next]_vars => IInv'
  BY NextKeeps
<1> QED
  BY <1>1, <1>2, PTL DEF Spec

\* The variables keep their types; in particular no loop job is counted beyond its
\* max_iterations, though it is counted in a statement of its own, after the callback.
THEOREM SchedulerTypeCorrect == ASSUME OneController PROVE Spec => []TypeOK
<1>1. IInv => TypeOK
  BY DEF IInv
<1> QED
  BY <1>1, SchedulerInvariant, PTL

\* A job is in one _fire_job at a time: stop waits for the task it cancelled, so the task
\* that the next start makes is the only one.
THEOREM CallbacksNeverOverlap == ASSUME OneController PROVE Spec => []NoOverlap
<1>1. ASSUME IInv PROVE NoOverlap
  <2>1. ASSUME NEW j \in Jobs
        PROVE  Cardinality({l \in Ticks : tick[l].at \in InFire /\ j \in tick[l].job}) =< 1
    <3>1. PICK S : S = {l \in Ticks : tick[l].at \in InFire /\ j \in tick[l].job}
      OBVIOUS
    <3>2. \A l \in S : l = task
      BY <1>1, <3>1 DEF IInv, TasksOK, InFire
    <3>3. S = {} \/ S = {task}
      BY <3>2
    <3>4. Cardinality(S) =< 1
      <4>1. Cardinality({}) = 0 /\ Cardinality({task}) = 1
        BY FS_EmptySet, FS_Singleton
      <4>2. Cardinality(S) = 0 \/ Cardinality(S) = 1
        BY <3>3, <4>1
      <4> QED
        BY <4>2
    <3> QED
      BY <3>1, <3>4
  <2> QED
    BY <2>1 DEF NoOverlap
<1> QED
  BY <1>1, SchedulerInvariant, PTL

\* A one-shot job is called once, a loop job max_iterations times, and once more at most for
\* every stop, crash or failing statement: whatever the jobs, and whoever removes them.
THEOREM RepeatsForTroubles == ASSUME OneController PROVE Spec => []RepeatsBounded
<1>1. ASSUME IInv PROVE RepeatsBounded
  <2>1. ASSUME NEW j \in Jobs, Limited(j)
        PROVE  done[j] =< Limit(j) + troubles
    <3>1. PICK t, x, n, m : t = Current /\ x = row[j] /\ n = done[j] /\ m = troubles
      OBVIOUS
    <3>2. x \in RowType /\ n \in Nat /\ m \in Nat /\ CountsOK(t, x, n, m, j)
      BY <1>1, <3>1, WhatIsCurrent
    <3>3. x.kind \in {"oneshot", "loop"} /\ Limit(j) = Goal(x)
      BY <2>1, <3>1 DEF Limited, Limit, Goal, Kind
    <3>4. Progress(x) \in Nat /\ Goal(x) \in Nat
      BY <3>2, ProgressType
    <3>5. n =< Goal(x) + m
      <4>1. CASE x.status = "new"
        BY <3>2, <3>4, <4>1 DEF CountsOK
      <4>2. CASE x.status = "gone"
        <5>1. n + (IF Ahead(t, j) THEN 1 ELSE 0) =< Goal(x) + m
          BY <3>2, <3>3, <4>2 DEF CountsOK
        <5> QED
          BY <3>2, <3>4, <5>1
      <4>3. CASE x.status \notin {"new", "gone"}
        <5>1. /\ n =< Progress(x) + m + (IF Untold(t, x, j) THEN 1 ELSE 0)
              /\ Progress(x) =< Goal(x) /\ (Untold(t, x, j) => Progress(x) < Goal(x))
          BY <3>2, <3>3, <4>3 DEF CountsOK
        <5> QED
          BY <3>2, <3>4, <5>1
      <4> QED
        BY <4>1, <4>2, <4>3
    <3> QED
      BY <3>1, <3>3, <3>5
  <2> QED
    BY <2>1 DEF RepeatsBounded
<1> QED
  BY <1>1, SchedulerInvariant, PTL
=============================================================================
