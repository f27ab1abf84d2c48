------------------------- MODULE CronSessions_proofs -------------------------
(***************************************************************************)
(* Theorems about the lock of the cron scheduler and about the tasks of    *)
(* its sessions, for any sessions, any number of deaths and any tasks.     *)
(***************************************************************************)
EXTENDS CronSessions, TLAPS

-----------------------------------------------------------------------------
(* The lock.  That there is one owner is not inductive.  What is: while no *)
(* lock was taken from a live session, the file names whoever owns the     *)
(* lock, and whoever is about to write its name has opened the file last.  *)

\* A call of the file system is under way in a process that is alive.
CallersLive == \A s \in Sessions : step[s] # "idle" => Alive(s)

\* The file is the lock of each owner, and was opened by who is writing it.
Theirs ==
  \A s \in Sessions : /\ isOwner[s] => lockFile = FileOf(s, s)
                      /\ step[s] = "write" => lockFile.by = s /\ ~lockFile.dead

FileIsTheirs == ~raced => Theirs

LockInv == LockTypeOK /\ CallersLive /\ FileIsTheirs

-----------------------------------------------------------------------------

\* Initially nobody does anything.
LEMMA InitLockInv == LockInit => LockInv
<1> SUFFICES ASSUME LockInit PROVE LockInv
  OBVIOUS
<1>1. LockTypeOK
  <2>1. 0 \in 0..MaxCrashes
    BY CrashesAssumption
  <2> QED
    BY <2>1 DEF LockInit, LockTypeOK, Files, Modes, Steps
<1>2. CallersLive /\ FileIsTheirs
  BY DEF LockInit, CallersLive, FileIsTheirs, Theirs
<1> QED
  BY <1>1, <1>2 DEF LockInv

\* A file that is not taken from a live session is nobody's else.
LEMMA NotTaken ==
  ASSUME LockInv, NEW s \in Sessions, step[s] # "idle", ~raced, ~Taken(s)
  PROVE  \A t \in Sessions : ~isOwner[t] /\ (step[t] = "write" => t = s)
<1> SUFFICES ASSUME NEW t \in Sessions, isOwner[t] \/ (step[t] = "write" /\ t # s)
             PROVE  FALSE
  OBVIOUS
<1>1. t # s
  BY DEF LockInv, LockTypeOK
<1>2. Alive(t)
  BY DEF LockInv, LockTypeOK, CallersLive, Alive
<1>3. lockFile.by = t /\ ~lockFile.dead
  BY DEF LockInv, FileIsTheirs, Theirs, FileOf
<1> QED
  BY <1>1, <1>2, <1>3 DEF Taken, Others

\* Each kind of step keeps the types.
LEMMA StepTypeOK == LockInv /\ [LockNext]_lockVars => LockTypeOK'
<1> SUFFICES ASSUME LockInv, [LockNext]_lockVars PROVE LockTypeOK'
  OBVIOUS
<1> USE CrashesAssumption DEF LockInv, LockTypeOK, Modes, Steps, Goto
<1>f. ASSUME NEW s \in Sessions PROVE FileOf(s, s) \in Files /\ FileOf(s, None) \in Files
  BY DEF Files, FileOf
<1>n. NoFile \in Files
  BY DEF Files
<1>1. ASSUME NEW s \in Sessions, Create(s) PROVE LockTypeOK'
  BY <1>1, <1>f DEF Create, Refused
<1>2. ASSUME NEW s \in Sessions, WriteOwner(s) PROVE LockTypeOK'
  <2>1. lockFile' \in Files
    BY <1>2, <1>f DEF WriteOwner
  <2>2. CASE mode[s] = "stopped"
    BY <1>2, <2>1, <2>2 DEF WriteOwner, Acquired
  <2>3. CASE mode[s] # "stopped"
    BY <1>2, <2>1, <2>3 DEF WriteOwner, Acquired
  <2> QED
    BY <2>2, <2>3
<1>3. ASSUME NEW s \in Sessions, ReadLock(s) PROVE LockTypeOK'
  BY <1>3 DEF ReadLock, Refused
<1>4. ASSUME NEW s \in Sessions, Rewrite(s) PROVE LockTypeOK'
  BY <1>4, <1>f DEF Rewrite, Taken
<1>5. ASSUME NEW s \in Sessions, Unlink(s) PROVE LockTypeOK'
  BY <1>5, <1>n DEF Unlink, Taken
<1>6. ASSUME NEW s \in Sessions, ReadOwn(s) PROVE LockTypeOK'
  BY <1>6 DEF ReadOwn
<1>7. ASSUME NEW s \in Sessions, UnlinkOwn(s) PROVE LockTypeOK'
  BY <1>7, <1>n DEF UnlinkOwn, Taken
<1>8. ASSUME NEW s \in Sessions, Start(s) PROVE LockTypeOK'
  BY <1>8 DEF Start
<1>9. ASSUME NEW s \in Sessions, Probe(s) PROVE LockTypeOK'
  BY <1>9 DEF Probe
<1>10. ASSUME NEW s \in Sessions, Stop(s) PROVE LockTypeOK'
  BY <1>10 DEF Stop
<1>11. ASSUME NEW s \in Sessions, Crash(s) PROVE LockTypeOK'
  <2>1. lockFile' \in Files
    <3>1. CASE lockFile.by = s
      <4>1. lockFile # NoFile
        BY <3>1, SessionsAssumption DEF NoFile, FileOf
      <4>2. lockFile \in [by : Sessions, dead : BOOLEAN, names : Sessions \cup {None}]
        BY <4>1 DEF Files
      <4>3. lockFile' = [lockFile EXCEPT !.dead = TRUE]
        BY <1>11, <3>1 DEF Crash
      <4> QED
        BY <4>2, <4>3 DEF Files
    <3>2. CASE lockFile.by # s
      BY <1>11, <3>2 DEF Crash
    <3> QED
      BY <3>1, <3>2
  <2> QED
    BY <1>11, <2>1 DEF Crash
<1>12. CASE UNCHANGED lockVars
  BY <1>12 DEF lockVars
<1> QED
  BY <1>1, <1>2, <1>3, <1>4, <1>5, <1>6, <1>7, <1>8, <1>9, <1>10, <1>11, <1>12
     DEF LockNext, LockStep

\* Only a process that is alive has a call under way: a death ends its calls.
LEMMA StepCallersLive == LockInv /\ [LockNext]_lockVars => CallersLive'
<1> SUFFICES ASSUME LockInv, [LockNext]_lockVars PROVE CallersLive'
  OBVIOUS
<1> USE DEF LockInv, LockTypeOK, CallersLive, Alive, Goto
<1>1. ASSUME NEW s \in Sessions, Create(s) PROVE CallersLive'
  BY <1>1 DEF Create, Refused
<1>2. ASSUME NEW s \in Sessions, WriteOwner(s) PROVE CallersLive'
  BY <1>2 DEF WriteOwner, Acquired
<1>3. ASSUME NEW s \in Sessions, ReadLock(s) PROVE CallersLive'
  BY <1>3 DEF ReadLock, Refused
<1>4. ASSUME NEW s \in Sessions, Rewrite(s) \/ Unlink(s) \/ ReadOwn(s) \/ UnlinkOwn(s)
      PROVE CallersLive'
  BY <1>4 DEF Rewrite, Unlink, ReadOwn, UnlinkOwn
<1>5. ASSUME NEW s \in Sessions, Start(s) \/ Probe(s) PROVE CallersLive'
  BY <1>5 DEF Start, Probe
<1>6. ASSUME NEW s \in Sessions, Stop(s) PROVE CallersLive'
  BY <1>6 DEF Stop
<1>7. ASSUME NEW s \in Sessions, Crash(s) PROVE CallersLive'
  BY <1>7 DEF Crash
<1>8. CASE UNCHANGED lockVars
  BY <1>8 DEF lockVars
<1> QED
  BY <1>1, <1>2, <1>3, <1>4, <1>5, <1>6, <1>7, <1>8 DEF LockNext, LockStep

\* The file stays the lock of its owner, and of the session that creates it: who
\* replaces it creates it, or takes it.
LEMMA StepFileIsTheirs == LockInv /\ [LockNext]_lockVars => FileIsTheirs'
<1> SUFFICES ASSUME LockInv, [LockNext]_lockVars, ~raced' PROVE Theirs'
  BY DEF FileIsTheirs
<1> USE DEF LockInv, LockTypeOK, Goto
<1>0. ~raced
  BY DEF LockNext, LockStep, lockVars, Create, WriteOwner, ReadLock, Rewrite, Unlink,
         ReadOwn, UnlinkOwn, Start, Probe, Stop, Crash
<1>th. Theirs
  BY <1>0 DEF FileIsTheirs
<1>own. ASSUME NEW t \in Sessions, isOwner[t] PROVE lockFile.by = t
  BY <1>th, <1>own DEF Theirs, FileOf
<1>1. ASSUME NEW s \in Sessions, Create(s) PROVE Theirs'
  <2>1. CASE lockFile = NoFile
    <3>1. \A t \in Sessions : ~isOwner[t] /\ step[t] # "write"
      BY <2>1, <1>own, <1>th, SessionsAssumption DEF Theirs, NoFile, FileOf
    <3>2. lockFile' = FileOf(s, None) /\ step' = [step EXCEPT ![s] = "write"]
      BY <1>1, <2>1 DEF Create
    <3> QED
      BY <1>1, <3>1, <3>2 DEF Create, FileOf, Theirs
  <2>2. CASE lockFile # NoFile
    BY <1>1, <2>2, <1>th DEF Theirs, Create, Refused
  <2> QED
    BY <2>1, <2>2
<1>2. ASSUME NEW s \in Sessions, WriteOwner(s) PROVE Theirs'
  <2>1. lockFile.by = s /\ lockFile' = FileOf(s, s)
    BY <1>2, <1>th DEF Theirs, WriteOwner
  <2>2. ASSUME NEW t \in Sessions \ {s} PROVE ~isOwner[t] /\ step[t] # "write"
    BY <2>1, <1>own, <1>th DEF Theirs
  <2>3. ASSUME NEW t \in Sessions \ {s} PROVE ~isOwner'[t] /\ step'[t] # "write"
    BY <1>2, <2>2 DEF WriteOwner, Acquired
  <2>4. lockFile'.by = s /\ ~lockFile'.dead
    BY <2>1 DEF FileOf
  <2> QED
    BY <2>1, <2>3, <2>4 DEF Theirs
<1>3. ASSUME NEW s \in Sessions, ReadLock(s) PROVE Theirs'
  BY <1>3, <1>th DEF Theirs, ReadLock, Refused
<1>4. ASSUME NEW s \in Sessions, Rewrite(s) PROVE Theirs'
  <2>1. ~Taken(s) /\ step[s] # "idle"
    BY <1>4 DEF Rewrite
  <2>2. \A t \in Sessions : ~isOwner[t] /\ (step[t] = "write" => t = s)
    BY <2>1, <1>0, NotTaken
  <2>3. /\ lockFile'.by = s /\ ~lockFile'.dead /\ isOwner' = isOwner
        /\ step' = [step EXCEPT ![s] = "write"]
    BY <1>4 DEF Rewrite, FileOf
  <2> QED
    BY <2>2, <2>3 DEF Theirs
<1>5. ASSUME NEW s \in Sessions, Unlink(s) \/ UnlinkOwn(s) PROVE Theirs'
  <2>1. ~Taken(s) /\ step[s] # "idle"
    BY <1>5 DEF Unlink, UnlinkOwn
  <2>2. \A t \in Sessions : ~isOwner[t] /\ (step[t] = "write" => t = s)
    BY <2>1, <1>0, NotTaken
  <2>3. \A t \in Sessions : ~isOwner'[t] /\ step'[t] # "write"
    BY <1>5, <2>2 DEF Unlink, UnlinkOwn
  <2> QED
    BY <2>3 DEF Theirs
<1>6. ASSUME NEW s \in Sessions, ReadOwn(s) \/ Start(s) \/ Probe(s) PROVE Theirs'
  BY <1>6, <1>th DEF Theirs, ReadOwn, Start, Probe
<1>7. ASSUME NEW s \in Sessions, Stop(s) PROVE Theirs'
  BY <1>7, <1>th DEF Theirs, Stop
<1>9. ASSUME NEW s \in Sessions, Crash(s) PROVE Theirs'
  <2>1. /\ lockFile.by # s => lockFile' = lockFile
        /\ isOwner' = [isOwner EXCEPT ![s] = FALSE]
        /\ step' = [step EXCEPT ![s] = "idle"]
    BY <1>9 DEF Crash
  <2>2. ASSUME NEW t \in Sessions, isOwner'[t] \/ step'[t] = "write"
        PROVE  t # s /\ isOwner'[t] = isOwner[t] /\ step'[t] = step[t]
    BY <2>1, <2>2
  <2>3. ASSUME NEW t \in Sessions, isOwner'[t] \/ step'[t] = "write"
        PROVE  lockFile.by = t
    BY <2>2, <2>3, <1>own, <1>th DEF Theirs
  <2>4. ASSUME NEW t \in Sessions, isOwner'[t] \/ step'[t] = "write"
        PROVE  lockFile' = lockFile
    BY <2>1, <2>2, <2>3, <2>4
  <2> QED
    BY <2>2, <2>4, <1>th DEF Theirs
<1>8. CASE UNCHANGED lockVars
  BY <1>8, <1>th DEF Theirs, lockVars
<1> QED
  BY <1>1, <1>2, <1>3, <1>4, <1>5, <1>6, <1>7, <1>8, <1>9 DEF LockNext, LockStep

\* The invariant of the lock holds in every state.
THEOREM LockInvariant == LockSpec => []LockInv
<1>1. LockInv /\ [LockNext]_lockVars => LockInv'
  BY StepTypeOK, StepCallersLive, StepFileIsTheirs DEF LockInv
<1> QED
  BY InitLockInv, <1>1, PTL DEF LockSpec

-----------------------------------------------------------------------------

\* Each variable of the lock keeps its type.
THEOREM LockTypeCorrect == LockSpec => []LockTypeOK
<1>1. LockInv => LockTypeOK
  BY DEF LockInv
<1> QED
  BY LockInvariant, <1>1, PTL

\* The file names the owner of the lock, unless it was taken from a live session.
THEOREM OwnerNamed == LockSpec => []OwnerIsNamed
<1>1. LockInv => OwnerIsNamed
  BY DEF LockInv, FileIsTheirs, Theirs, OwnerIsNamed
<1> QED
  BY LockInvariant, <1>1, PTL

\* The lock has one owner, unless it was taken from a live session.
THEOREM OneOwnerUnlessRaced == LockSpec => []OneOwnerElse
<1>1. ASSUME LockInv, ~raced, NEW s \in Sessions, NEW t \in Sessions, isOwner[s], isOwner[t]
      PROVE s = t
  BY <1>1 DEF LockInv, FileIsTheirs, Theirs, FileOf
<1>2. LockInv => OneOwnerElse
  BY <1>1 DEF OneOwnerElse, OneOwner, Owners
<1> QED
  BY LockInvariant, <1>2, PTL

-----------------------------------------------------------------------------
(* The sessions implement the lock: nothing they do with the tasks touches *)
(* it, so that what is proved of the lock holds of the sessions.           *)

LEMMA LockSteps ==
  ASSUME [Next]_vars
  PROVE  [LockNext]_lockVars
<1>1. CASE UNCHANGED vars
  BY <1>1 DEF vars
<1>2. CASE Tick
  BY <1>2 DEF Tick
<1>3. ASSUME NEW s \in Sessions, Load(s) \/ Reload(s) \/ Check(s) \/ Evict(s)
      PROVE  UNCHANGED lockVars
  BY <1>3 DEF Load, Reload, Check, Evict
<1>4. ASSUME NEW s \in Sessions, OpStep(s) \/ \E t \in OneShots : Add(s, t)
      PROVE  UNCHANGED lockVars
  BY <1>4 DEF OpStep, OpRead, OpOpen, OpWrite, Add
<1>5. ASSUME NEW s \in Sessions, Lock(s) \/ StopTasks(s) \/ CrashTasks(s)
      PROVE  LockNext
  BY <1>5 DEF Lock, StopTasks, CrashTasks, LockNext
<1> QED
  BY <1>1, <1>2, <1>3, <1>4, <1>5 DEF Next

\* Each step of the sessions is a step of the lock or leaves it alone.
THEOREM SessionsImplementLock == Spec => LockSpec
<1>1. Init => LockInit
  BY DEF Init
<1> QED
  BY <1>1, LockSteps, PTL DEF Spec, LockSpec

\* Through deaths, resumptions and everything they do with the tasks, the sessions
\* have one owner, unless one took the lock from another that was alive.
THEOREM SessionsHaveOneOwner == Spec => []OneOwnerElse
BY SessionsImplementLock, OneOwnerUnlessRaced, PTL

\* The owner of the lock is the session that its file names.
THEOREM SessionsNameOwner == Spec => []OwnerIsNamed
BY SessionsImplementLock, OwnerNamed, PTL

-----------------------------------------------------------------------------
(* The types of the tasks.                                                 *)

LEMMA TimeFacts ==
  /\ Absent = -1 /\ Unset = -1 /\ Infinity \in Nat /\ MaxTime \in Nat /\ DueAt \in Nat
  /\ MaxTime < Infinity /\ Nothing \in Contents
  /\ \A t \in Tasks : Nothing[t] = Absent
BY TimesAssumption DEF Absent, Unset, Infinity, Nothing, Contents

LEMMA OpTypes ==
  ASSUME TypeOK
  PROVE  /\ \A kind \in {"remove", "mark", "add"}, ids \in SUBSET Tasks : NewOp(kind, ids) \in OpType
         /\ \A o \in OpType : /\ [o EXCEPT !.step = "open", !.snap = file] \in OpType
                              /\ [o EXCEPT !.step = "write"] \in OpType
         /\ \A o \in OpType, c \in Contents : Changed(o, c) \in Contents
<1>1. now \in 0..MaxTime /\ file \in Contents /\ Nothing \in Contents
  BY TimeFacts DEF TypeOK
<1>2. \A kind \in {"remove", "mark", "add"}, ids \in SUBSET Tasks : NewOp(kind, ids) \in OpType
  BY <1>1 DEF NewOp, OpType
<1>3. \A o \in OpType : /\ [o EXCEPT !.step = "open", !.snap = file] \in OpType
                        /\ [o EXCEPT !.step = "write"] \in OpType
  BY <1>1 DEF OpType
<1>4. \A o \in OpType, c \in Contents : Changed(o, c) \in Contents
  <2> SUFFICES ASSUME NEW o \in OpType, NEW c \in Contents PROVE Changed(o, c) \in Contents
    OBVIOUS
  <2>1. o.at \in Absent..MaxTime /\ Absent \in Absent..MaxTime
    BY TimeFacts DEF OpType
  <2> QED
    BY <2>1 DEF Changed, Contents
<1> QED
  BY <1>2, <1>3, <1>4

LEMMA TypeStep ==
  ASSUME TypeOK, LockTypeOK', Next
  PROVE  TypeOK'
<1>t. /\ now \in 0..MaxTime /\ file \in Contents /\ tasks \in [Sessions -> Contents]
      /\ nextFireAt \in [Sessions -> [Tasks -> Nat \cup {Unset}]]
      /\ inFlight \in [Sessions -> SUBSET Tasks]
      /\ loaded \in [Sessions -> BOOLEAN] /\ dirty \in [Sessions -> BOOLEAN]
      /\ ops \in [Sessions -> SUBSET OpType]
      /\ fires \in [Tasks -> Nat] /\ asks \in [Tasks -> Nat] /\ created \subseteq Tasks
      /\ faults \subseteq {"overdue", "stale", "torn", "overwritten", "stopped", "died"}
  BY DEF TypeOK
<1>n. Nothing \in Contents /\ [t \in Tasks |-> Unset] \in [Tasks -> Nat \cup {Unset}]
  BY TimeFacts
<1>1. CASE Tick
  <2>1. now' \in 0..MaxTime /\ fires' \in [Tasks -> Nat]
    BY <1>t, <1>1, TimeFacts DEF Tick
  <2> QED
    BY <1>t, <1>1, <2>1 DEF Tick, TypeOK
<1>2. ASSUME NEW s \in Sessions, Load(s) PROVE TypeOK'
  <2> DEFINE missed == {t \in Tasks : Missed(t)}
  <2>1. NewOp("remove", missed) \in OpType
    BY OpTypes
  <2>2. ops' \in [Sessions -> SUBSET OpType]
    BY <1>t, <1>2, <2>1 DEF Load
  <2>3. nextFireAt' \in [Sessions -> [Tasks -> Nat \cup {Unset}]]
    BY <1>t, <1>2, TimeFacts DEF Load
  <2>4. asks' \in [Tasks -> Nat] /\ tasks' \in [Sessions -> Contents] /\ loaded' \in [Sessions -> BOOLEAN]
    BY <1>t, <1>2 DEF Load
  <2>5. faults' \subseteq {"overdue", "stale", "torn", "overwritten", "stopped", "died"}
    BY <1>t, <1>2 DEF Load, Torn
  <2> QED
    BY <1>t, <1>2, <2>2, <2>3, <2>4, <2>5 DEF Load, TypeOK
<1>3. ASSUME NEW s \in Sessions, Reload(s) PROVE TypeOK'
  BY <1>t, <1>3 DEF Reload, TypeOK, Torn
<1>4. ASSUME NEW s \in Sessions, Check(s) PROVE TypeOK'
  <2>1. PICK due, next :
          /\ due = Due(s)
          /\ next = [t \in Tasks |->
                       IF t \notin Known(s) \/ t \in due \cap OneShots THEN Unset
                       ELSE IF t \in inFlight[s] THEN nextFireAt[s][t]
                       ELSE IF t \in due \cap Recurring THEN NextRun(t, now) ELSE Scheduled(s, t)]
    OBVIOUS
  <2>2. due \subseteq Tasks
    BY <2>1 DEF Due, Known
  <2>3. \A t \in Tasks, from \in Absent..MaxTime : NextRun(t, from) \in Nat
    BY TimeFacts DEF NextRun
  <2>4. \A t \in Tasks : Scheduled(s, t) \in Nat
    BY <1>t, <2>3, TimeFacts DEF Scheduled, Contents
  <2>5. next \in [Tasks -> Nat \cup {Unset}]
    BY <1>t, <2>1, <2>3, <2>4, TimeFacts
  <2>6. nextFireAt' = [nextFireAt EXCEPT ![s] = next]
    BY <1>4, <2>1 DEF Check
  <2>7. /\ inFlight' = [inFlight EXCEPT ![s] = @ \cup due]
        /\ ops' = [ops EXCEPT ![s] = @ \cup {NewOp("remove", {t}) : t \in due \cap OneShots}
                     \cup (IF due \cap Recurring = {} THEN {} ELSE {NewOp("mark", due \cap Recurring)})]
        /\ fires' = [t \in Tasks |-> IF t \in due THEN fires[t] + 1 ELSE fires[t]]
        /\ faults' \subseteq faults \cup {"stale"}
        /\ UNCHANGED <<lockVars, now, file, tasks, loaded, dirty, asks, created>>
    BY <1>4, <2>1 DEF Check
  <2>8. ops' \in [Sessions -> SUBSET OpType]
    <3>1. {NewOp("remove", {t}) : t \in due \cap OneShots} \subseteq OpType
      BY <2>2, OpTypes
    <3>2. NewOp("mark", due \cap Recurring) \in OpType
      BY <2>2, OpTypes
    <3> QED
      BY <1>t, <2>7, <3>1, <3>2
  <2>9. fires' \in [Tasks -> Nat] /\ inFlight' \in [Sessions -> SUBSET Tasks]
    BY <1>t, <2>2, <2>7
  <2>10. nextFireAt' \in [Sessions -> [Tasks -> Nat \cup {Unset}]]
    BY <1>t, <2>5, <2>6
  <2> QED
    BY <1>t, <2>7, <2>8, <2>9, <2>10 DEF TypeOK
<1>5. ASSUME NEW s \in Sessions, Evict(s) PROVE TypeOK'
  BY <1>t, <1>n, <1>5 DEF Evict, TypeOK
<1>6. ASSUME NEW s \in Sessions, NEW t \in OneShots, Add(s, t) PROVE TypeOK'
  <2>1. NewOp("add", {t}) \in OpType
    BY OpTypes DEF Tasks
  <2> QED
    BY <1>t, <1>6, <2>1 DEF Add, TypeOK, ghostVars
<1>7. ASSUME NEW s \in Sessions, NEW o \in ops[s], OpRead(s, o) \/ OpOpen(s, o) \/ OpWrite(s, o)
      PROVE  TypeOK'
  <2>1. o \in OpType /\ o.ids \subseteq Tasks /\ o.snap \in Contents
    BY <1>t DEF OpType
  <2>2. /\ [o EXCEPT !.step = "open", !.snap = file] \in OpType
        /\ [o EXCEPT !.step = "write"] \in OpType /\ Changed(o, o.snap) \in Contents
    BY <2>1, OpTypes
  <2>3. Over(s, o) => ops' \in [Sessions -> SUBSET OpType] /\ inFlight' \in [Sessions -> SUBSET Tasks]
    BY <1>t DEF Over
  <2>4. \A p \in OpType : Becomes(s, o, p) => ops' \in [Sessions -> SUBSET OpType]
    BY <1>t DEF Becomes
  <2>5. CASE OpRead(s, o)
    <3>1. ops' \in [Sessions -> SUBSET OpType] /\ inFlight' \in [Sessions -> SUBSET Tasks]
      BY <1>t, <2>2, <2>3, <2>4, <2>5 DEF OpRead
    <3> QED
      BY <1>t, <2>5, <3>1 DEF OpRead, Torn, TypeOK
  <2>6. CASE OpOpen(s, o)
    <3>1. ops' \in [Sessions -> SUBSET OpType]
      BY <2>2, <2>4, <2>6 DEF OpOpen
    <3> QED
      BY <1>t, <1>n, <2>6, <3>1 DEF OpOpen, TypeOK
  <2>7. CASE OpWrite(s, o)
    BY <1>t, <2>2, <2>3, <2>7 DEF OpWrite, TypeOK
  <2> QED
    BY <1>7, <2>5, <2>6, <2>7
<1>8. ASSUME NEW s \in Sessions, Lock(s) \/ StopTasks(s) PROVE TypeOK'
  BY <1>t, <1>8 DEF Lock, StopTasks, TypeOK, taskVars, ghostVars
<1>9. ASSUME NEW s \in Sessions, CrashTasks(s) PROVE TypeOK'
  BY <1>t, <1>n, <1>9 DEF CrashTasks, TypeOK
<1> QED
  BY <1>1, <1>2, <1>3, <1>4, <1>5, <1>6, <1>7, <1>8, <1>9 DEF Next, OpStep

-----------------------------------------------------------------------------
(* What holds of the tasks while no session disturbs another.              *)

\* Sessions that do not run have no changes under way; those that have not loaded
\* the tasks know none; and only an owner has scheduled recurring tasks.
LoadedOK ==
  \A s \in Sessions :
    /\ ~Alive(s) => ~loaded[s] /\ ops[s] = {}
    /\ ~loaded[s] => tasks[s] = Nothing /\ \A t \in Tasks : nextFireAt[s][t] = Unset
    /\ ~isOwner[s] /\ mode[s] # "stopped" => \A t \in Recurring : nextFireAt[s][t] = Unset

\* What session s may change with o.
OpOK(s, o) ==
  /\ o.ids # {}
  /\ o.kind = "mark" => o.ids \subseteq Recurring /\ isOwner[s] /\ loaded[s]
  /\ o.kind = "remove" => o.ids \subseteq OneShots /\ loaded[s]
  /\ o.kind = "add" => o.ids \subseteq OneShots /\ o.ids \cap created = {}
  /\ \A t \in Tasks : o.snap[t] # Absent => t \in created

\* Changes of one kind are about different tasks, and one task at most is being added.
SameOp(o, p) == o.kind = p.kind /\ (o.kind = "add" \/ o.ids \cap p.ids # {})

OpsOK ==
  /\ \A s \in Sessions : \A o \in ops[s] : OpOK(s, o)
  /\ \A s, z \in Sessions : \A o \in ops[s], p \in ops[z] : SameOp(o, p) => s = z /\ o = p

\* One change at most has truncated the file; what has read an empty file adds a task,
\* and is the next to write.
FileOK ==
  /\ \A s \in Sessions : \A o \in ops[s] : o.step = "write" => file = Nothing
  /\ \A s, z \in Sessions : \A o \in ops[s], p \in ops[z] :
       o.step = "write" /\ p.step = "write" => s = z /\ o = p
  /\ \A s \in Sessions : \A o \in ops[s] : o.step = "open" /\ o.snap = Nothing =>
       o.kind = "add" /\ file = Nothing /\ ~Truncated

\* The task is in the file, or will be when what has truncated it writes it, unless
\* that removes it.
Present(t) ==
  file[t] # Absent \/ \E s \in Sessions : \E o \in ops[s] : o.step = "write" /\ o.snap[t] # Absent

Seen(t) == fires[t] + asks[t]

KeptOK ==
  \A t \in Tasks :
    /\ Present(t) \/ Seen(t) > 0 => t \in created
    /\ t \in Recurring /\ t \in created => Present(t)
    /\ t \in created /\ Seen(t) = 0 => Present(t)

Removes(o, t) == o.kind = "remove" /\ t \in o.ids

\* What keeps a one-shot task from being fired again while it is removed: its session
\* is the owner and skips it, or has asked about it and no other has loaded the tasks.
Guarded(s, t) ==
  \/ isOwner[s] /\ t \in inFlight[s]
  \/ /\ nextFireAt[s][t] = Infinity /\ tasks[s][t] # Absent /\ DueAt < now
     /\ \A z \in Sessions : z # s => ~loaded[z]

OnceOK ==
  \A t \in OneShots :
    /\ Seen(t) =< 1
    /\ Seen(t) = 1 /\ Present(t) => \E s \in Sessions : \E o \in ops[s] : Removes(o, t)
    /\ \A s \in Sessions : \A o \in ops[s] :
         Removes(o, t) => Present(t) /\ Seen(t) = 1 /\ Guarded(s, t)

Marks(o, t) == o.kind = "mark" /\ t \in o.ids

\* A recurring task that was fired in this unit of time is being marked by the owner,
\* or what is or will be in the file says so.
Fresh(t) ==
  /\ file[t] # Absent => file[t] >= now
  /\ \A s \in Sessions : \A o \in ops[s] :
       o.step = "write" /\ o.snap[t] # Absent => o.snap[t] >= now

MarkOK ==
  \A t \in Recurring :
    /\ fires[t] =< 1 /\ asks[t] = 0
    /\ \A s \in Sessions : \A o \in ops[s] :
         Marks(o, t) => t \in inFlight[s] /\ (fires[t] = 1 => o.at = now)
    /\ fires[t] = 1 => Fresh(t) \/ \E s \in Sessions : \E o \in ops[s] : Marks(o, t)
    /\ fires[t] = 1 => \A s \in Sessions :
         isOwner[s] => nextFireAt[s][t] = Unset \/ nextFireAt[s][t] > now

TasksOK == LoadedOK /\ OpsOK /\ FileOK /\ KeptOK /\ OnceOK /\ MarkOK

TasksInv == TypeOK /\ LockInv /\ (Undisturbed => TasksOK)
-----------------------------------------------------------------------------
(* The steps that leave the sessions undisturbed.                          *)

CleanStep(s) ==
  \/ /\ Load(s) /\ ~Truncated
     /\ \A t \in Tasks : Missed(t) => Others(s) = {}
  \/ Reload(s) /\ ~Truncated
  \/ Check(s) /\ \A t \in Due(s) : tasks[s][t] = file[t]
  \/ Evict(s) /\ ops[s] = {}
  \/ \E t \in OneShots : Add(s, t)
  \/ \E o \in ops[s] : \/ OpRead(s, o) /\ ~Truncated
                       \/ OpOpen(s, o) /\ file = o.snap
                       \/ OpWrite(s, o) /\ file = Nothing
  \/ Lock(s)
  \/ StopTasks(s) /\ ops[s] = {}
  \/ CrashTasks(s) /\ ops[s] = {}

LEMMA Clean ==
  ASSUME TypeOK, Next, Undisturbed'
  PROVE  Undisturbed /\ (Tick \/ \E s \in Sessions : CleanStep(s))
<1>u. ~raced' /\ faults' = {}
  BY DEF Undisturbed
<1>r. ~raced
  <2>1. [LockNext]_lockVars
    BY LockSteps
  <2> QED
    BY <1>u, <2>1 DEF LockNext, LockStep, lockVars, Create, WriteOwner, ReadLock, Rewrite, Unlink,
       ReadOwn, UnlinkOwn, Start, Probe, Stop, Crash
<1>1. CASE Tick
  BY <1>u, <1>r, <1>1 DEF Tick, Undisturbed
<1>2. ASSUME NEW s \in Sessions, Load(s) PROVE faults = {} /\ CleanStep(s)
  <2>1. faults = {} /\ ~Truncated
    BY <1>u, <1>2 DEF Load, Torn
  <2>2. {t \in Tasks : Missed(t)} # {} => Others(s) = {}
    BY <1>u, <1>2 DEF Load
  <2> QED
    BY <1>2, <2>1, <2>2 DEF CleanStep
<1>3. ASSUME NEW s \in Sessions, Reload(s) PROVE faults = {} /\ CleanStep(s)
  BY <1>u, <1>3 DEF Reload, Torn, CleanStep
<1>4. ASSUME NEW s \in Sessions, Check(s) PROVE faults = {} /\ CleanStep(s)
  <2>1. faults = {} /\ \A t \in Due(s) : tasks[s][t] = file[t]
    BY <1>u, <1>4 DEF Check
  <2> QED
    BY <1>4, <2>1 DEF CleanStep
<1>5. ASSUME NEW s \in Sessions, Evict(s) PROVE faults = {} /\ CleanStep(s)
  BY <1>u, <1>5 DEF Evict, CleanStep
<1>6. ASSUME NEW s \in Sessions, \E t \in OneShots : Add(s, t) PROVE faults = {} /\ CleanStep(s)
  BY <1>u, <1>6 DEF Add, CleanStep, ghostVars
<1>7. ASSUME NEW s \in Sessions, OpStep(s) PROVE faults = {} /\ CleanStep(s)
  <2>1. PICK o \in ops[s] : OpRead(s, o) \/ OpOpen(s, o) \/ OpWrite(s, o)
    BY <1>7 DEF OpStep
  <2>2. CASE OpRead(s, o)
    BY <1>u, <2>2 DEF OpRead, Torn, CleanStep
  <2>3. CASE OpOpen(s, o)
    BY <1>u, <2>3 DEF OpOpen, CleanStep
  <2>4. CASE OpWrite(s, o)
    BY <1>u, <2>4 DEF OpWrite, CleanStep
  <2> QED
    BY <2>1, <2>2, <2>3, <2>4
<1>8. ASSUME NEW s \in Sessions, Lock(s) PROVE faults = {} /\ CleanStep(s)
  BY <1>u, <1>8 DEF Lock, CleanStep, ghostVars
<1>9. ASSUME NEW s \in Sessions, StopTasks(s) \/ CrashTasks(s) PROVE faults = {} /\ CleanStep(s)
  BY <1>u, <1>9 DEF StopTasks, CrashTasks, CleanStep
<1> QED
  BY <1>r, <1>1, <1>2, <1>3, <1>4, <1>5, <1>6, <1>7, <1>8, <1>9 DEF Next, Undisturbed

\* A step for the lock neither ends a session nor takes the lock from an owner.
LEMMA LockKeeps ==
  ASSUME LockTypeOK, NEW s \in Sessions, Lock(s), NEW z \in Sessions
  PROVE  /\ isOwner[z] => isOwner'[z]
         /\ Alive(z) => Alive(z)'
         /\ ~Alive(z)' => ~Alive(z)
         /\ mode'[z] # "stopped" => mode[z] # "stopped"
<1> USE DEF LockTypeOK, Goto, Alive
<1>1. CASE Create(s)
  BY <1>1 DEF Create, Refused
<1>2. CASE WriteOwner(s)
  BY <1>2 DEF WriteOwner, Acquired
<1>3. CASE ReadLock(s)
  BY <1>3 DEF ReadLock, Refused
<1>4. CASE Rewrite(s) \/ Unlink(s) \/ ReadOwn(s) \/ UnlinkOwn(s)
  BY <1>4 DEF Rewrite, Unlink, ReadOwn, UnlinkOwn
<1>5. CASE Start(s) \/ Probe(s)
  BY <1>5 DEF Start, Probe, Modes
<1> QED
  BY <1>1, <1>2, <1>3, <1>4, <1>5 DEF Lock, LockStep

-----------------------------------------------------------------------------
(* The invariant is kept by the steps that change neither the file nor the *)
(* changes that are under way.                                             *)

LEMMA SoleOwner ==
  ASSUME LockInv, ~raced, NEW s \in Sessions, NEW z \in Sessions, isOwner[s], isOwner[z]
  PROVE  s = z
BY DEF LockInv, FileIsTheirs, Theirs, FileOf

LEMMA Plain ==
  ASSUME TasksOK, UNCHANGED <<file, ops, created, asks>>,
         \A t \in Tasks : fires'[t] = fires[t] \/ (t \in Recurring /\ fires'[t] = 0),
         TypeOK,
         \A z \in Sessions : ops[z] # {} => /\ isOwner[z] => isOwner'[z]
                                            /\ loaded[z] => loaded'[z]
  PROVE  /\ OpsOK' /\ FileOK' /\ KeptOK'
         /\ \A t \in Tasks : Present(t)' <=> Present(t)
<1>1. OpsOK'
  BY DEF TasksOK, OpsOK, OpOK, SameOp
<1>2. FileOK'
  BY DEF TasksOK, FileOK, Truncated
<1>3. \A t \in Tasks : Present(t)' <=> Present(t)
  BY DEF Present
<1>4. KeptOK'
  <2> SUFFICES ASSUME NEW t \in Tasks
               PROVE  /\ Present(t)' \/ Seen(t)' > 0 => t \in created'
                      /\ t \in Recurring /\ t \in created' => Present(t)'
                      /\ t \in created' /\ Seen(t)' = 0 => Present(t)'
    BY DEF KeptOK
  <2>1. /\ Present(t) \/ Seen(t) > 0 => t \in created
        /\ t \in Recurring /\ t \in created => Present(t)
        /\ t \in created /\ Seen(t) = 0 => Present(t)
    BY DEF TasksOK, KeptOK
  <2>2. fires[t] \in Nat /\ asks[t] \in Nat /\ asks'[t] = asks[t] /\ created' = created
    BY DEF TypeOK
  <2>3. fires'[t] = fires[t] \/ (t \in Recurring /\ fires'[t] = 0)
    OBVIOUS
  <2>4. CASE fires'[t] = fires[t]
    BY <1>3, <2>1, <2>2, <2>4 DEF Seen
  <2>5. CASE t \in Recurring /\ fires'[t] = 0
    BY <1>3, <2>1, <2>2, <2>5 DEF Seen
  <2> QED
    BY <2>3, <2>4, <2>5
<1> QED
  BY <1>1, <1>2, <1>3, <1>4

\* A new unit of time begins.
LEMMA TickStep ==
  ASSUME TypeOK, TasksOK, Tick
  PROVE  TasksOK'
<1>1. /\ OpsOK' /\ FileOK' /\ KeptOK'
      /\ \A t \in Tasks : Present(t)' <=> Present(t)
  <2>1. \A t \in Tasks : fires'[t] = fires[t] \/ (t \in Recurring /\ fires'[t] = 0)
    BY DEF Tick
  <2>2. \A z \in Sessions : (isOwner[z] => isOwner'[z]) /\ (loaded[z] => loaded'[z])
    BY DEF Tick, lockVars
  <2> QED
    BY <2>1, <2>2, Plain DEF Tick
<1>2. LoadedOK'
  BY DEF TasksOK, LoadedOK, Tick, lockVars, Alive
<1>3. OnceOK'
  <2>1. now' = now + 1 /\ now \in Nat /\ DueAt \in Nat
    BY TimeFacts DEF Tick, TypeOK
  <2>2. \A s \in Sessions, t \in Tasks : Guarded(s, t) => Guarded(s, t)'
    BY <2>1 DEF Guarded, Tick, lockVars
  <2>3. \A t \in OneShots : t \in Tasks /\ Seen(t)' = Seen(t)
    BY TasksAssumption DEF Seen, Tick, Tasks
  <2>4. ops' = ops
    BY DEF Tick
  <2> QED
    BY <1>1, <2>2, <2>3, <2>4 DEF TasksOK, OnceOK, Removes
<1>4. MarkOK'
  <2>1. \A t \in Recurring : fires'[t] = 0 /\ asks'[t] = asks[t]
    BY DEF Tick, Tasks
  <2> QED
    BY <2>1 DEF TasksOK, MarkOK, Marks, Tick
<1> QED
  BY <1>1, <1>2, <1>3, <1>4 DEF TasksOK

\* The tasks are read again.
LEMMA ReloadStep ==
  ASSUME TypeOK, TasksOK, NEW s \in Sessions, Reload(s), ~Truncated
  PROVE  TasksOK'
<1>1. /\ OpsOK' /\ FileOK' /\ KeptOK'
      /\ \A t \in Tasks : Present(t)' <=> Present(t)
  BY Plain DEF Reload, lockVars
<1>2. LoadedOK'
  BY DEF TasksOK, LoadedOK, Reload, lockVars, Alive, TypeOK
<1>3. OnceOK'
  <2>1. \A t \in Tasks : Present(t) => file[t] # Absent
    BY DEF Present, Truncated
  <2>2. \A z \in Sessions, t \in Tasks : Present(t) /\ Guarded(z, t) => Guarded(z, t)'
    BY <2>1 DEF Guarded, Reload, lockVars, TypeOK
  <2>3. \A t \in OneShots : t \in Tasks /\ Seen(t)' = Seen(t)
    BY DEF Seen, Reload, Tasks
  <2>4. ops' = ops
    BY DEF Reload
  <2> QED
    BY <1>1, <2>2, <2>3, <2>4 DEF TasksOK, OnceOK, Removes
<1>4. MarkOK'
  BY DEF TasksOK, MarkOK, Marks, Fresh, Reload, lockVars
<1> QED
  BY <1>1, <1>2, <1>3, <1>4 DEF TasksOK

\* A session that is not the owner forgets when tasks are due.
LEMMA EvictStep ==
  ASSUME TypeOK, TasksOK, NEW s \in Sessions, Evict(s), ops[s] = {}
  PROVE  TasksOK'
<1>1. /\ OpsOK' /\ FileOK' /\ KeptOK'
      /\ \A t \in Tasks : Present(t)' <=> Present(t)
  BY Plain DEF Evict, lockVars
<1>n. \A z \in Sessions, t \in Tasks :
        nextFireAt'[z][t] = IF z = s THEN Unset ELSE nextFireAt[z][t]
  BY DEF Evict, TypeOK
<1>2. LoadedOK'
  BY <1>n DEF TasksOK, LoadedOK, Evict, lockVars, Alive, Tasks
<1>3. OnceOK'
  <2>2. \A z \in Sessions, t \in Tasks : z # s /\ Guarded(z, t) => Guarded(z, t)'
    BY <1>n DEF Guarded, Evict, lockVars
  <2>3. \A t \in OneShots : t \in Tasks /\ Seen(t)' = Seen(t)
    BY DEF Seen, Evict, Tasks
  <2>4. ops' = ops
    BY DEF Evict
  <2> QED
    BY <1>1, <2>2, <2>3, <2>4 DEF TasksOK, OnceOK, Removes
<1>4. MarkOK'
  BY <1>n DEF TasksOK, MarkOK, Marks, Fresh, Evict, lockVars, Tasks
<1> QED
  BY <1>1, <1>2, <1>3, <1>4 DEF TasksOK

\* A step is made for the lock: who gets it knows no time at which a recurring task
\* is due.
LEMMA LockStepKeeps ==
  ASSUME TypeOK, LockTypeOK', TasksOK, NEW s \in Sessions, Lock(s)
  PROVE  TasksOK'
<1>u. UNCHANGED <<now, file, tasks, nextFireAt, inFlight, loaded, dirty, ops, fires, asks,
                  created, faults>>
  BY DEF Lock, taskVars, ghostVars
<1>k. \A z \in Sessions : /\ isOwner[z] => isOwner'[z]
                          /\ ~Alive(z)' => ~Alive(z)
                          /\ mode'[z] # "stopped" => mode[z] # "stopped"
  BY LockKeeps DEF TypeOK
<1>1. /\ OpsOK' /\ FileOK' /\ KeptOK'
      /\ \A t \in Tasks : Present(t)' <=> Present(t)
  BY <1>u, <1>k, Plain
<1>2. LoadedOK'
  BY <1>u, <1>k DEF TasksOK, LoadedOK
<1>3. OnceOK'
  <2>2. \A z \in Sessions, t \in Tasks : Guarded(z, t) => Guarded(z, t)'
    BY <1>u, <1>k DEF Guarded
  <2>3. \A t \in OneShots : t \in Tasks /\ Seen(t)' = Seen(t)
    BY <1>u DEF Seen, Tasks
  <2> QED
    BY <1>u, <1>1, <2>2, <2>3 DEF TasksOK, OnceOK, Removes
<1>4. MarkOK'
  <2>1. \A z \in Sessions : isOwner'[z] => isOwner[z] \/ \A t \in Recurring : nextFireAt[z][t] = Unset
    <3> SUFFICES ASSUME NEW z \in Sessions, isOwner'[z], ~isOwner[z]
                 PROVE  \A t \in Recurring : nextFireAt[z][t] = Unset
      OBVIOUS
    <3>1. mode'[z] = "running"
      BY DEF LockTypeOK
    <3> QED
      BY <1>k, <3>1 DEF TasksOK, LoadedOK
  <2>2. \A t \in Recurring : Fresh(t)' <=> Fresh(t)
    BY <1>u DEF Fresh
  <2> QED
    BY <1>u, <2>1, <2>2 DEF TasksOK, MarkOK, Marks
<1> QED
  BY <1>1, <1>2, <1>3, <1>4 DEF TasksOK

\* A session stops or dies that has no changes under way.
LEMMA EndStep ==
  ASSUME TypeOK, TasksOK, NEW s \in Sessions, StopTasks(s) \/ CrashTasks(s), ops[s] = {}
  PROVE  TasksOK'
<1>u. UNCHANGED <<now, file, ops, fires, asks, created>>
  <2>1. [ops EXCEPT ![s] = {}] = ops
    BY DEF TypeOK
  <2> QED
    BY <2>1 DEF StopTasks, CrashTasks, taskVars
<1>s. \A z \in Sessions \ {s} :
        /\ isOwner'[z] = isOwner[z] /\ mode'[z] = mode[z] /\ tasks'[z] = tasks[z]
        /\ nextFireAt'[z] = nextFireAt[z] /\ inFlight'[z] = inFlight[z] /\ loaded'[z] = loaded[z]
  BY DEF StopTasks, CrashTasks, taskVars, Stop, Crash, TypeOK, LockTypeOK
<1>o. /\ ~isOwner'[s] /\ (loaded'[s] => loaded[s])
      /\ \/ /\ mode'[s] = "stopped" /\ Alive(s)
            /\ UNCHANGED <<tasks, nextFireAt, loaded>>
         \/ /\ mode'[s] = "dead" /\ tasks'[s] = Nothing /\ ~loaded'[s]
            /\ \A t \in Tasks : nextFireAt'[s][t] = Unset
  BY DEF StopTasks, CrashTasks, taskVars, Stop, Crash, TypeOK, LockTypeOK, Alive
<1>1. /\ OpsOK' /\ FileOK' /\ KeptOK'
      /\ \A t \in Tasks : Present(t)' <=> Present(t)
  BY <1>u, <1>s, Plain
<1>2. LoadedOK'
  <2> SUFFICES ASSUME NEW z \in Sessions
               PROVE  /\ ~Alive(z)' => ~loaded'[z] /\ ops'[z] = {}
                      /\ ~loaded'[z] => tasks'[z] = Nothing /\ \A t \in Tasks : nextFireAt'[z][t] = Unset
                      /\ ~isOwner'[z] /\ mode'[z] # "stopped" =>
                           \A t \in Recurring : nextFireAt'[z][t] = Unset
    BY DEF LoadedOK
  <2>1. CASE z = s
    BY <1>u, <1>o, <2>1 DEF TasksOK, LoadedOK, Alive, Tasks
  <2>2. CASE z # s
    BY <1>u, <1>s, <2>2 DEF TasksOK, LoadedOK, Alive
  <2> QED
    BY <2>1, <2>2
<1>3. OnceOK'
  <2>2. \A z \in Sessions, t \in Tasks : z # s /\ Guarded(z, t) => Guarded(z, t)'
    BY <1>u, <1>s, <1>o DEF Guarded
  <2>3. \A t \in OneShots : t \in Tasks /\ Seen(t)' = Seen(t)
    BY <1>u DEF Seen, Tasks
  <2> QED
    BY <1>u, <1>1, <2>2, <2>3 DEF TasksOK, OnceOK, Removes
<1>4. MarkOK'
  BY <1>u, <1>s, <1>o DEF TasksOK, MarkOK, Marks, Fresh
<1> QED
  BY <1>1, <1>2, <1>3, <1>4 DEF TasksOK

-----------------------------------------------------------------------------
(* The invariant is kept by the steps that begin changes.                  *)

LEMMA NewOps ==
  \A kind \in {"remove", "mark", "add"}, ids \in SUBSET Tasks :
    /\ NewOp(kind, ids).kind = kind /\ NewOp(kind, ids).ids = ids
    /\ NewOp(kind, ids).at = now /\ NewOp(kind, ids).step = "read"
    /\ \A t \in Tasks : NewOp(kind, ids).snap[t] = Absent
BY TimeFacts DEF NewOp

\* What begins has not touched the file.
LEMMA Begun ==
  ASSUME TypeOK, TasksOK, NEW s \in Sessions, NEW new,
         ops' = [ops EXCEPT ![s] = @ \cup new],
         \A o \in new : o.step = "read", UNCHANGED file
  PROVE  /\ FileOK' /\ (Truncated' <=> Truncated)
         /\ \A t \in Tasks : Present(t)' <=> Present(t)
         /\ \A z \in Sessions : \A o \in ops'[z] : o \in ops[z] \/ (z = s /\ o \in new)
         /\ \A z \in Sessions : \A o \in ops[z] : o \in ops'[z]
         /\ \A z \in Sessions : \A o \in ops'[z] : o.step # "read" => o \in ops[z]
<1>1. /\ \A z \in Sessions : \A o \in ops'[z] : o \in ops[z] \/ (z = s /\ o \in new)
      /\ \A z \in Sessions : \A o \in ops[z] : o \in ops'[z]
  BY DEF TypeOK
<1>2. \A z \in Sessions : \A o \in ops'[z] : o.step # "read" => o \in ops[z]
  BY <1>1
<1>3. Truncated' <=> Truncated
  BY <1>1, <1>2 DEF Truncated
<1>4. \A t \in Tasks : Present(t)' <=> Present(t)
  BY <1>1, <1>2 DEF Present
<1>5. FileOK'
  BY <1>2, <1>3 DEF TasksOK, FileOK
<1> QED
  BY <1>1, <1>2, <1>3, <1>4, <1>5

\* A task is added.
LEMMA AddStep ==
  ASSUME TypeOK, TasksOK, NEW s \in Sessions, NEW a \in OneShots, Add(s, a)
  PROVE  TasksOK'
<1>u. UNCHANGED <<lockVars, now, file, tasks, nextFireAt, inFlight, loaded, dirty, ghostVars>>
  BY DEF Add
<1>uu. UNCHANGED <<fires, asks, created, faults, isOwner, mode>>
  BY <1>u DEF ghostVars, lockVars
<1>a. a \in Tasks
  BY DEF Tasks
<1>d. PICK p : p = NewOp("add", {a})
  OBVIOUS
<1>p. p.kind = "add" /\ p.ids = {a} /\ p.step = "read" /\ \A t \in Tasks : p.snap[t] = Absent
  BY <1>a, <1>d, NewOps
<1>o. ops' = [ops EXCEPT ![s] = @ \cup {p}]
  BY <1>d DEF Add
<1>b. /\ FileOK' /\ (Truncated' <=> Truncated)
      /\ \A t \in Tasks : Present(t)' <=> Present(t)
      /\ \A z \in Sessions : \A o \in ops'[z] : o \in ops[z] \/ (z = s /\ o = p)
      /\ \A z \in Sessions : \A o \in ops[z] : o \in ops'[z]
      /\ \A z \in Sessions : \A o \in ops'[z] : o.step # "read" => o \in ops[z]
  <2>d. PICK new : new = {p}
    OBVIOUS
  <2>1. ops' = [ops EXCEPT ![s] = @ \cup new] /\ \A o \in new : o.step = "read"
    BY <1>o, <1>p, <2>d
  <2>2. \A o \in new : o = p
    BY <2>d
  <2>3. UNCHANGED file
    BY <1>u
  <2>4. /\ FileOK' /\ (Truncated' <=> Truncated)
        /\ \A t \in Tasks : Present(t)' <=> Present(t)
        /\ \A z \in Sessions : \A o \in ops'[z] : o \in ops[z] \/ (z = s /\ o \in new)
        /\ \A z \in Sessions : \A o \in ops[z] : o \in ops'[z]
        /\ \A z \in Sessions : \A o \in ops'[z] : o.step # "read" => o \in ops[z]
    BY <2>1, <2>3, Begun
  <2> QED
    BY <2>2, <2>4
<1>1. LoadedOK'
  <2>1. Alive(s)
    BY DEF Add, Runs, Alive
  <2> QED
    BY <1>u, <1>uu, <1>b, <2>1 DEF TasksOK, LoadedOK, Alive
<1>2. OpsOK'
  <2>1. OpOK(s, p)'
    BY <1>p, <1>uu, TasksAssumption DEF OpOK, Add
  <2>2. \A z \in Sessions : \A o \in ops'[z] : OpOK(z, o)'
    BY <1>b, <1>u, <1>uu, <2>1 DEF TasksOK, OpsOK, OpOK
  <2>3. \A z \in Sessions : \A o \in ops[z] : o.kind # "add"
    BY DEF Add
  <2>4. \A z, y \in Sessions : \A o \in ops'[z], q \in ops'[y] : SameOp(o, q) => z = y /\ o = q
    BY <1>b, <1>p, <2>3 DEF TasksOK, OpsOK, SameOp
  <2> QED
    BY <2>2, <2>4 DEF OpsOK
<1>3. KeptOK'
  BY <1>b, <1>uu DEF TasksOK, KeptOK, Seen
<1>4. OnceOK'
  <2>1. \A z \in Sessions, t \in Tasks : Guarded(z, t) => Guarded(z, t)'
    BY <1>u, <1>uu DEF Guarded
  <2>2. \A z \in Sessions : \A o \in ops'[z] : \A t \in Tasks : Removes(o, t) => o \in ops[z]
    BY <1>b, <1>p DEF Removes
  <2>3. \A t \in OneShots : t \in Tasks /\ Seen(t)' = Seen(t)
    BY <1>uu DEF Seen, Tasks
  <2> QED
    BY <1>b, <2>1, <2>2, <2>3 DEF TasksOK, OnceOK, Removes
<1>5. MarkOK'
  <2>1. \A z \in Sessions : \A o \in ops'[z] : o.kind = "mark" => o \in ops[z]
    BY <1>b, <1>p
  <2>2. \A t \in Recurring : Fresh(t)' <=> Fresh(t)
    BY <1>b, <1>u DEF Fresh
  <2> QED
    BY <1>b, <1>u, <1>uu, <2>1, <2>2 DEF TasksOK, MarkOK, Marks
<1> QED
  BY <1>b, <1>1, <1>2, <1>3, <1>4, <1>5 DEF TasksOK

\* The tasks are loaded.  Who asks about a missed task has no other session beside it;
\* a session that loads while another removes a task would see it missed, too.
LEMMA LoadStep ==
  ASSUME TypeOK, TasksOK, NEW s \in Sessions, Load(s), ~Truncated,
         \A t \in Tasks : Missed(t) => Others(s) = {}
  PROVE  TasksOK'
<1>u. UNCHANGED <<now, file, inFlight, dirty, fires, created, isOwner, mode>>
  BY DEF Load, lockVars
<1>d. PICK missed, p : missed = {t \in Tasks : Missed(t)} /\ p = NewOp("remove", missed)
  OBVIOUS
<1>p. p.kind = "remove" /\ p.ids = missed /\ p.step = "read" /\ \A t \in Tasks : p.snap[t] = Absent
  BY <1>d, NewOps
<1>m. /\ missed \subseteq OneShots \cap Tasks
      /\ \A t \in missed : file[t] # Absent /\ DueAt < now
      /\ \A t \in OneShots : file[t] # Absent /\ DueAt < now => t \in missed
  BY <1>d DEF Missed, Tasks
<1>l. /\ Runs(s) /\ ~loaded[s] /\ Alive(s)
      /\ loaded' = [loaded EXCEPT ![s] = TRUE]
      /\ tasks' = [tasks EXCEPT ![s] = file]
      /\ asks' = [t \in Tasks |-> IF t \in missed THEN asks[t] + 1 ELSE asks[t]]
  BY <1>d DEF Load, Runs, Alive
<1>n. \A z \in Sessions, t \in Tasks :
        nextFireAt'[z][t] = IF z = s /\ t \in missed THEN Infinity ELSE nextFireAt[z][t]
  BY <1>d DEF Load, TypeOK
<1>o. PICK new : new = IF missed = {} THEN {} ELSE {p}
  OBVIOUS
<1>b. /\ FileOK' /\ (Truncated' <=> Truncated)
      /\ \A t \in Tasks : Present(t)' <=> Present(t)
      /\ \A z \in Sessions : \A o \in ops'[z] : o \in ops[z] \/ (z = s /\ o \in new)
      /\ \A z \in Sessions : \A o \in ops[z] : o \in ops'[z]
      /\ \A z \in Sessions : \A o \in ops'[z] : o.step # "read" => o \in ops[z]
  <2>1. ops' = [ops EXCEPT ![s] = @ \cup new]
    BY <1>d, <1>o DEF Load
  <2>2. \A o \in new : o.step = "read"
    BY <1>o, <1>p
  <2> QED
    BY <1>u, <2>1, <2>2, Begun
<1>new. \A o \in new : o = p /\ missed # {}
  BY <1>o
<1>has. missed # {} => p \in ops'[s]
  BY <1>d DEF Load, TypeOK
<1>x. missed # {} => \A z \in Sessions \ {s} : ~loaded[z] /\ ops[z] = {}
  <2> SUFFICES ASSUME missed # {}, NEW z \in Sessions \ {s} PROVE ~loaded[z] /\ ops[z] = {}
    OBVIOUS
  <2>1. Others(s) = {}
    BY <1>d
  <2>2. ~Alive(z)
    BY <2>1 DEF Others
  <2> QED
    BY <2>2 DEF TasksOK, LoadedOK
<1>r. \A o \in ops[s] : o.kind = "add"
  <2>1. \A o \in ops[s] : o.kind \in {"remove", "mark", "add"}
    BY DEF TypeOK, OpType
  <2> QED
    BY <1>l, <2>1 DEF TasksOK, OpsOK, OpOK
<1>f. \A t \in Tasks : Present(t) => file[t] # Absent
  BY DEF Present, Truncated
<1>1. LoadedOK'
  <2> SUFFICES ASSUME NEW z \in Sessions
               PROVE  /\ ~Alive(z)' => ~loaded'[z] /\ ops'[z] = {}
                      /\ ~loaded'[z] => tasks'[z] = Nothing /\ \A t \in Tasks : nextFireAt'[z][t] = Unset
                      /\ ~isOwner'[z] /\ mode'[z] # "stopped" =>
                           \A t \in Recurring : nextFireAt'[z][t] = Unset
    BY DEF LoadedOK
  <2>1. \A t \in Recurring : t \in Tasks /\ t \notin missed
    BY <1>m, TasksAssumption DEF Tasks
  <2>2. CASE z = s
    BY <1>u, <1>l, <1>n, <2>1, <2>2 DEF TasksOK, LoadedOK, Alive, TypeOK
  <2>3. CASE z # s
    <3>1. loaded'[z] = loaded[z] /\ tasks'[z] = tasks[z] /\ (ops[z] = {} => ops'[z] = {})
      BY <1>l, <1>b, <2>3 DEF TypeOK
    <3> QED
      BY <1>u, <1>n, <2>1, <2>3, <3>1 DEF TasksOK, LoadedOK, Alive
  <2> QED
    BY <2>2, <2>3
<1>2. OpsOK'
  <2>2. \A z \in Sessions : loaded[z] => loaded'[z]
    BY <1>l DEF TypeOK
  <2>3. \A z \in Sessions : \A o \in ops'[z] : OpOK(z, o)'
    <3> SUFFICES ASSUME NEW z \in Sessions, NEW o \in ops'[z] PROVE OpOK(z, o)'
      OBVIOUS
    <3> QED
      BY <1>b, <1>u, <1>p, <1>m, <1>l, <1>new, <2>2 DEF TasksOK, OpsOK, OpOK, TypeOK
  <2>4. \A z, y \in Sessions : \A o \in ops'[z], q \in ops'[y] : SameOp(o, q) => z = y /\ o = q
    BY <1>b, <1>p, <1>new, <1>r, <1>x DEF TasksOK, OpsOK, SameOp
  <2> QED
    BY <2>3, <2>4 DEF OpsOK

<1>3. KeptOK'
  <2> SUFFICES ASSUME NEW t \in Tasks
               PROVE  /\ Present(t)' \/ Seen(t)' > 0 => t \in created'
                      /\ t \in Recurring /\ t \in created' => Present(t)'
                      /\ t \in created' /\ Seen(t)' = 0 => Present(t)'
    BY DEF KeptOK
  <2>1. /\ Present(t) \/ Seen(t) > 0 => t \in created
        /\ t \in Recurring /\ t \in created => Present(t)
        /\ t \in created /\ Seen(t) = 0 => Present(t)
    BY DEF TasksOK, KeptOK
  <2>2. t \in missed => Present(t)
    BY <1>m DEF Present
  <2>3. fires[t] \in Nat /\ asks[t] \in Nat /\ fires'[t] = fires[t]
        /\ asks'[t] = IF t \in missed THEN asks[t] + 1 ELSE asks[t]
    BY <1>l, <1>u DEF TypeOK
  <2> QED
    BY <1>b, <1>u, <2>1, <2>2, <2>3 DEF Seen
<1>4. OnceOK'
  <2>1. \A t \in OneShots : t \in Tasks
    BY DEF Tasks
  <2>2. \A t \in OneShots : /\ t \in missed => Seen(t)' = Seen(t) + 1
                            /\ t \notin missed => Seen(t)' = Seen(t)
    BY <1>l, <1>u, <2>1 DEF Seen, TypeOK
  <2>3. \A t \in missed : Seen(t) = 0
    <3> SUFFICES ASSUME NEW t \in missed, Seen(t) # 0 PROVE FALSE
      OBVIOUS
    <3>1. t \in OneShots /\ Present(t) /\ Seen(t) \in Nat
      BY <1>m DEF Present, Seen, TypeOK
    <3>2. Seen(t) = 1
      BY <3>1 DEF TasksOK, OnceOK
    <3>3. PICK z \in Sessions : \E o \in ops[z] : Removes(o, t)
      BY <3>1, <3>2 DEF TasksOK, OnceOK
    <3> QED
      BY <1>x, <1>r, <3>3 DEF Removes
  <2>4. \A t \in missed : Guarded(s, t)'
    <3> SUFFICES ASSUME NEW t \in missed PROVE Guarded(s, t)'
      OBVIOUS
    <3>1. nextFireAt'[s][t] = Infinity' /\ tasks'[s][t] # Absent /\ DueAt < now'
      BY <1>u, <1>m, <1>n, <1>l DEF TypeOK, Infinity
    <3>2. \A z \in Sessions : z # s => ~loaded'[z]
      BY <1>x, <1>l DEF TypeOK
    <3> QED
      BY <3>1, <3>2 DEF Guarded
  <2>5. ASSUME NEW z \in Sessions, NEW o \in ops[z], NEW t \in OneShots, Removes(o, t)
        PROVE  t \notin missed /\ Guarded(z, t)'
    <3>1. z # s
      BY <1>r, <2>5 DEF Removes
    <3>2. missed = {}
      BY <1>x, <3>1
    <3>3. Present(t) /\ Guarded(z, t)
      BY <2>5 DEF TasksOK, OnceOK
    <3>4. ~(DueAt < now)
      BY <1>m, <1>f, <2>1, <3>2, <3>3
    <3>5. isOwner[z] /\ t \in inFlight[z]
      BY <3>3, <3>4 DEF Guarded
    <3> QED
      BY <1>u, <3>2, <3>5 DEF Guarded
  <2> SUFFICES ASSUME NEW t \in OneShots
               PROVE  /\ Seen(t)' =< 1
                      /\ Seen(t)' = 1 /\ Present(t)' => \E z \in Sessions : \E o \in ops'[z] : Removes(o, t)
                      /\ \A z \in Sessions : \A o \in ops'[z] :
                           Removes(o, t) => Present(t)' /\ Seen(t)' = 1 /\ Guarded(z, t)'
    BY DEF OnceOK, Removes
  <2>6. /\ Seen(t) =< 1
        /\ Seen(t) = 1 /\ Present(t) => \E z \in Sessions : \E o \in ops[z] : Removes(o, t)
        /\ \A z \in Sessions : \A o \in ops[z] : Removes(o, t) => Present(t) /\ Seen(t) = 1
    BY DEF TasksOK, OnceOK
  <2>7. CASE t \in missed
    <3>1. Present(t)' /\ Seen(t)' = 1
      BY <1>m, <1>b, <2>1, <2>2, <2>3, <2>7 DEF Present
    <3>2. p \in ops'[s] /\ Removes(p, t)
      BY <1>p, <1>has, <2>7 DEF Removes
    <3> QED
      BY <1>b, <1>new, <2>4, <2>5, <2>7, <3>1, <3>2
  <2>8. CASE t \notin missed
    <3>1. \A z \in Sessions : \A o \in ops'[z] : Removes(o, t) => o \in ops[z]
      BY <1>b, <1>new, <1>p, <2>8 DEF Removes
    <3> QED
      BY <1>b, <2>1, <2>2, <2>5, <2>6, <2>8, <3>1
  <2> QED
    BY <2>7, <2>8
<1>5. MarkOK'
  <2>1. \A z \in Sessions : \A o \in ops'[z] : o.kind = "mark" => o \in ops[z]
    BY <1>b, <1>new, <1>p
  <2>2. \A t \in Recurring : Fresh(t)' <=> Fresh(t)
    BY <1>b, <1>u DEF Fresh
  <2>3. \A t \in Recurring : t \in Tasks /\ t \notin missed
    BY <1>m, TasksAssumption DEF Tasks
  <2>4. \A t \in Recurring : asks'[t] = asks[t] /\ \A z \in Sessions : nextFireAt'[z][t] = nextFireAt[z][t]
    BY <1>l, <1>n, <2>3
  <2> QED
    BY <1>b, <1>u, <2>1, <2>2, <2>4 DEF TasksOK, MarkOK, Marks
<1> QED
  BY <1>b, <1>1, <1>2, <1>3, <1>4, <1>5 DEF TasksOK

\* The owner checks, which it does after it has loaded the tasks.
LEMMA CheckLoaded ==
  ASSUME TypeOK, TasksOK, NEW s \in Sessions, Check(s)
  PROVE  loaded[s]
<1> SUFFICES ASSUME ~loaded[s] PROVE FALSE
  OBVIOUS
<1>1. Known(s) = {} /\ nextFireAt[s] = [t \in Tasks |-> Unset]
  BY TimeFacts DEF TasksOK, LoadedOK, Known, TypeOK
<1>2. Due(s) = {}
  BY <1>1 DEF Due
<1>3. [t \in Tasks |-> IF t \notin Known(s) \/ t \in Due(s) \cap OneShots THEN Unset
                       ELSE IF t \in inFlight[s] THEN nextFireAt[s][t]
                       ELSE IF t \in Due(s) \cap Recurring THEN NextRun(t, now)
                       ELSE Scheduled(s, t)] = nextFireAt[s]
  BY <1>1
<1> QED
  BY <1>2, <1>3 DEF Check

\* What is due from an up to date copy of the file was neither fired nor asked about,
\* and is not being changed.
LEMMA DueFacts ==
  ASSUME TypeOK, LockInv, ~raced, TasksOK, NEW s \in Sessions, isOwner[s], loaded[s],
         NEW t \in Due(s), tasks[s][t] = file[t]
  PROVE  /\ t \in Tasks /\ t \notin inFlight[s] /\ file[t] # Absent
         /\ Present(t) /\ Seen(t) = 0
         /\ \A z \in Sessions : \A o \in ops[z] : ~Removes(o, t) /\ ~Marks(o, t)
<1>1. t \in Tasks /\ t \notin inFlight[s] /\ file[t] # Absent /\ Scheduled(s, t) =< now
  BY DEF Due, Known
<1>2. Present(t)
  BY <1>1 DEF Present
<1>3. now \in Nat /\ now =< MaxTime /\ now < Infinity /\ Infinity # Unset
      /\ nextFireAt[s][t] \in Nat \cup {Unset} /\ file[t] \in Int /\ MaxTime \in Nat
      /\ fires[t] \in Nat /\ asks[t] \in Nat
  BY <1>1, TimeFacts DEF TypeOK, Contents, Absent
<1>4. \A z \in Sessions : \A o \in ops[z] : ~Removes(o, t)
  <2> SUFFICES ASSUME NEW z \in Sessions, NEW o \in ops[z], Removes(o, t) PROVE FALSE
    OBVIOUS
  <2>1. t \in OneShots
    BY DEF TasksOK, OpsOK, OpOK, Removes
  <2>2. Guarded(z, t)
    BY <2>1 DEF TasksOK, OnceOK
  <2>3. CASE isOwner[z] /\ t \in inFlight[z]
    BY <1>1, <2>3, SoleOwner
  <2>4. CASE nextFireAt[z][t] = Infinity /\ \A y \in Sessions : y # z => ~loaded[y]
    <3>1. z = s
      BY <2>4
    <3>2. Scheduled(s, t) = Infinity
      BY <1>3, <2>4, <3>1 DEF Scheduled
    <3> QED
      BY <1>1, <1>3, <3>2, TimeFacts
  <2> QED
    BY <2>2, <2>3, <2>4 DEF Guarded
<1>5. \A z \in Sessions : \A o \in ops[z] : ~Marks(o, t)
  <2> SUFFICES ASSUME NEW z \in Sessions, NEW o \in ops[z], Marks(o, t) PROVE FALSE
    OBVIOUS
  <2>1. t \in Recurring /\ isOwner[z]
    BY DEF TasksOK, OpsOK, OpOK, Marks
  <2>2. t \in inFlight[z]
    BY <2>1 DEF TasksOK, MarkOK
  <2> QED
    BY <1>1, <2>1, <2>2, SoleOwner
<1>6. Seen(t) = 0
  <2>1. CASE t \in OneShots
    <3>1. Seen(t) =< 1 /\ Seen(t) # 1
      BY <1>2, <1>4, <2>1 DEF TasksOK, OnceOK
    <3> QED
      BY <1>3, <3>1 DEF Seen
  <2>2. CASE t \in Recurring
    <3>1. fires[t] =< 1 /\ asks[t] = 0
      BY <2>2 DEF TasksOK, MarkOK
    <3>2. CASE fires[t] = 1
      <4>1. nextFireAt[s][t] = Unset
        BY <1>1, <1>3, <2>2, <3>2, TimeFacts DEF TasksOK, MarkOK, Scheduled
      <4>2. file[t] + 1 =< now
        BY <1>1, <2>2, <4>1 DEF Scheduled, NextRun
      <4>3. Fresh(t)
        BY <1>5, <2>2, <3>2 DEF TasksOK, MarkOK
      <4> QED
        BY <1>1, <1>3, <4>2, <4>3 DEF Fresh
    <3>3. CASE fires[t] = 0
      BY <3>1, <3>3 DEF Seen
    <3> QED
      BY <1>3, <3>1, <3>2, <3>3
  <2> QED
    BY <1>1, <2>1, <2>2 DEF Tasks
<1> QED
  BY <1>1, <1>2, <1>4, <1>5, <1>6

\* The owner fires what is due.
LEMMA CheckStep ==
  ASSUME TypeOK, LockInv, ~raced, TasksOK, NEW s \in Sessions, Check(s),
         \A t \in Due(s) : tasks[s][t] = file[t]
  PROVE  TasksOK'
<1>u. UNCHANGED <<now, file, tasks, loaded, dirty, asks, created, isOwner, mode>>
  BY DEF Check, lockVars
<1>l. isOwner[s] /\ loaded[s] /\ Alive(s)
  BY CheckLoaded DEF Check, Runs, Alive
<1>d. PICK due, marks, new :
        /\ due = Due(s) /\ marks = NewOp("mark", due \cap Recurring)
        /\ new = {NewOp("remove", {t}) : t \in due \cap OneShots}
                   \cup (IF due \cap Recurring = {} THEN {} ELSE {marks})
  OBVIOUS
<1>t. /\ due \subseteq Tasks /\ OneShots \subseteq Tasks /\ Recurring \subseteq Tasks
      /\ OneShots \cap Recurring = {}
  BY <1>d, TasksAssumption DEF Due, Known, Tasks
<1>f. \A t \in due : /\ t \notin inFlight[s] /\ file[t] # Absent /\ Present(t) /\ Seen(t) = 0
                     /\ \A z \in Sessions : \A o \in ops[z] : ~Removes(o, t) /\ ~Marks(o, t)
  BY <1>d, <1>l, DueFacts
<1>rm. ASSUME NEW t \in due \cap OneShots
       PROVE  /\ NewOp("remove", {t}).kind = "remove" /\ NewOp("remove", {t}).ids = {t}
              /\ NewOp("remove", {t}).step = "read" /\ NewOp("remove", {t}).at = now
              /\ \A x \in Tasks : NewOp("remove", {t}).snap[x] = Absent
  <2>1. {t} \in SUBSET Tasks
    BY <1>t
  <2> QED
    BY <2>1, NewOps
<1>mk. /\ marks.kind = "mark" /\ marks.ids = due \cap Recurring
       /\ marks.step = "read" /\ marks.at = now /\ \A x \in Tasks : marks.snap[x] = Absent
  <2>1. due \cap Recurring \in SUBSET Tasks
    BY <1>t
  <2> QED
    BY <1>d, <2>1, NewOps
<1>in. /\ \A o \in new : \/ \E t \in due \cap OneShots : o = NewOp("remove", {t})
                         \/ o = marks /\ due \cap Recurring # {}
       /\ \A t \in due \cap OneShots : NewOp("remove", {t}) \in new
       /\ due \cap Recurring # {} => marks \in new
  BY <1>d
<1>new. \A o \in new :
          /\ o.step = "read" /\ o.at = now /\ \A t \in Tasks : o.snap[t] = Absent
          /\ \/ o.kind = "remove" /\ \E t \in due \cap OneShots : o.ids = {t}
             \/ o.kind = "mark" /\ o.ids = due \cap Recurring /\ o = marks /\ due \cap Recurring # {}
  <2> SUFFICES ASSUME NEW o \in new
               PROVE  /\ o.step = "read" /\ o.at = now /\ \A t \in Tasks : o.snap[t] = Absent
                      /\ \/ o.kind = "remove" /\ \E t \in due \cap OneShots : o.ids = {t}
                         \/ /\ o.kind = "mark" /\ o.ids = due \cap Recurring
                            /\ o = marks /\ due \cap Recurring # {}
    OBVIOUS
  <2>1. ASSUME NEW t \in due \cap OneShots, o = NewOp("remove", {t})
        PROVE  /\ o.step = "read" /\ o.at = now /\ \A x \in Tasks : o.snap[x] = Absent
               /\ o.kind = "remove" /\ o.ids = {t}
    BY <1>rm, <2>1
  <2> QED
    BY <1>in, <1>mk, <2>1
<1>one. \A o, p \in new : SameOp(o, p) => o = p
  <2> SUFFICES ASSUME NEW o \in new, NEW p \in new, SameOp(o, p) PROVE o = p
    OBVIOUS
  <2>1. CASE o = marks
    BY <1>new, <1>mk, <2>1 DEF SameOp
  <2>2. ASSUME NEW t \in due \cap OneShots, o = NewOp("remove", {t}) PROVE o = p
    <3>1. o.kind = "remove" /\ o.ids = {t}
      BY <1>rm, <2>2
    <3>2. p # marks
      BY <1>mk, <3>1 DEF SameOp
    <3>3. PICK x \in due \cap OneShots : p = NewOp("remove", {x})
      BY <1>in, <3>2
    <3>4. p.ids = {x}
      BY <1>rm, <3>3
    <3>5. x = t
      BY <3>1, <3>4 DEF SameOp
    <3> QED
      BY <2>2, <3>3, <3>5
  <2> QED
    BY <1>in, <2>1, <2>2
<1>has. /\ \A t \in due \cap OneShots : \E o \in new : Removes(o, t)
        /\ \A t \in due \cap Recurring : \E o \in new : Marks(o, t)
  <2>1. ASSUME NEW t \in due \cap OneShots PROVE \E o \in new : Removes(o, t)
    <3>1. PICK p : p = NewOp("remove", {t})
      OBVIOUS
    <3>2. p.kind = "remove" /\ p.ids = {t} /\ p \in new
      BY <1>rm, <1>in, <3>1
    <3> QED
      BY <3>2 DEF Removes
  <2>2. ASSUME NEW t \in due \cap Recurring PROVE \E o \in new : Marks(o, t)
    BY <1>in, <1>mk DEF Marks
  <2> QED
    BY <2>1, <2>2
<1>i. /\ inFlight' = [inFlight EXCEPT ![s] = @ \cup due]
      /\ fires' = [t \in Tasks |-> IF t \in due THEN fires[t] + 1 ELSE fires[t]]
  BY <1>d DEF Check
<1>n. /\ \A z \in Sessions \ {s} : nextFireAt'[z] = nextFireAt[z]
      /\ \A t \in Tasks :
           nextFireAt'[s][t] = IF t \notin Known(s) \/ t \in due \cap OneShots THEN Unset
                               ELSE IF t \in inFlight[s] THEN nextFireAt[s][t]
                               ELSE IF t \in due \cap Recurring THEN NextRun(t, now)
                               ELSE Scheduled(s, t)
  <2>1. nextFireAt' = [nextFireAt EXCEPT ![s] = 
          [t \in Tasks |-> IF t \notin Known(s) \/ t \in due \cap OneShots THEN Unset
                           ELSE IF t \in inFlight[s] THEN nextFireAt[s][t]
                           ELSE IF t \in due \cap Recurring THEN NextRun(t, now)
                           ELSE Scheduled(s, t)]]
    BY <1>d DEF Check
  <2> QED
    BY <2>1 DEF TypeOK
<1>b. /\ FileOK' /\ (Truncated' <=> Truncated)
      /\ \A t \in Tasks : Present(t)' <=> Present(t)
      /\ \A z \in Sessions : \A o \in ops'[z] : o \in ops[z] \/ (z = s /\ o \in new)
      /\ \A z \in Sessions : \A o \in ops[z] : o \in ops'[z]
      /\ \A z \in Sessions : \A o \in ops'[z] : o.step # "read" => o \in ops[z]
  <2>1. ops' = [ops EXCEPT ![s] = @ \cup new]
    BY <1>d DEF Check, TypeOK
  <2>2. \A o \in new : o.step = "read"
    BY <1>new
  <2>3. UNCHANGED file
    BY <1>u
  <2> QED
    BY <2>1, <2>2, <2>3, Begun
<1>bn. new \subseteq ops'[s]
  BY <1>d DEF Check, TypeOK
<1>1. LoadedOK'
  <2>1. \A z \in Sessions : z # s => (ops[z] = {} => ops'[z] = {}) /\ nextFireAt'[z] = nextFireAt[z]
    BY <1>b, <1>n
  <2> QED
    BY <1>u, <1>l, <2>1 DEF TasksOK, LoadedOK, Alive
<1>2. OpsOK'
  <2>1. ASSUME NEW z \in Sessions, NEW o \in ops'[z] PROVE OpOK(z, o)'
    <3>1. CASE o \in ops[z]
      BY <1>u, <3>1 DEF TasksOK, OpsOK, OpOK
    <3>2. CASE z = s /\ o \in new
      BY <1>u, <1>l, <1>t, <1>new, <3>2 DEF OpOK
    <3> QED
      BY <1>b, <3>1, <3>2
  <2>2. ASSUME NEW z \in Sessions, NEW o \in ops[z], NEW q \in new PROVE ~SameOp(o, q) /\ ~SameOp(q, o)
    <3>1. \A t \in q.ids : ~Removes(o, t) /\ ~Marks(o, t)
      BY <1>f, <1>new
    <3> QED
      BY <1>new, <3>1 DEF SameOp, Removes, Marks
  <2>3. \A z, y \in Sessions : \A o \in ops'[z], q \in ops'[y] : SameOp(o, q) => z = y /\ o = q
    BY <1>b, <1>one, <2>2 DEF TasksOK, OpsOK
  <2> QED
    BY <2>1, <2>3 DEF OpsOK, SameOp
<1>3. KeptOK'
  <2> SUFFICES ASSUME NEW t \in Tasks
               PROVE  /\ Present(t)' \/ Seen(t)' > 0 => t \in created'
                      /\ t \in Recurring /\ t \in created' => Present(t)'
                      /\ t \in created' /\ Seen(t)' = 0 => Present(t)'
    BY DEF KeptOK
  <2>1. /\ Present(t) \/ Seen(t) > 0 => t \in created
        /\ t \in Recurring /\ t \in created => Present(t)
        /\ t \in created /\ Seen(t) = 0 => Present(t)
    BY DEF TasksOK, KeptOK
  <2>2. fires[t] \in Nat /\ asks[t] \in Nat /\ asks'[t] = asks[t]
        /\ fires'[t] = IF t \in due THEN fires[t] + 1 ELSE fires[t]
    BY <1>i, <1>u DEF TypeOK
  <2> QED
    BY <1>b, <1>f, <1>u, <2>1, <2>2 DEF Seen
<1>g. \A z \in Sessions, t \in Tasks : t \notin due /\ Guarded(z, t) => Guarded(z, t)'
  <2> SUFFICES ASSUME NEW z \in Sessions, NEW t \in Tasks, t \notin due, Guarded(z, t) PROVE Guarded(z, t)'
    OBVIOUS
  <2>1. CASE isOwner[z] /\ t \in inFlight[z]
    BY <1>u, <1>i, <2>1 DEF Guarded, TypeOK
  <2>2. CASE nextFireAt[z][t] = Infinity /\ tasks[z][t] # Absent /\ DueAt < now
             /\ \A y \in Sessions : y # z => ~loaded[y]
    <3>1. z = s /\ t \in Known(s) /\ Infinity # Unset
      BY <1>l, <2>2, TimeFacts DEF Known
    <3>2. nextFireAt'[z][t] = Infinity
      BY <1>n, <2>2, <3>1 DEF Scheduled
    <3> QED
      BY <1>u, <2>2, <3>2 DEF Guarded, Infinity
  <2> QED
    BY <2>1, <2>2 DEF Guarded
<1>4. OnceOK'
  <2> SUFFICES ASSUME NEW t \in OneShots
               PROVE  /\ Seen(t)' =< 1
                      /\ Seen(t)' = 1 /\ Present(t)' => \E z \in Sessions : \E o \in ops'[z] : Removes(o, t)
                      /\ \A z \in Sessions : \A o \in ops'[z] :
                           Removes(o, t) => Present(t)' /\ Seen(t)' = 1 /\ Guarded(z, t)'
    BY DEF OnceOK, Removes
  <2>1. /\ Seen(t) =< 1
        /\ Seen(t) = 1 /\ Present(t) => \E z \in Sessions : \E o \in ops[z] : Removes(o, t)
        /\ \A z \in Sessions : \A o \in ops[z] : Removes(o, t) => Present(t) /\ Seen(t) = 1 /\ Guarded(z, t)
    BY DEF TasksOK, OnceOK
  <2>2. fires[t] \in Nat /\ asks[t] \in Nat /\ asks'[t] = asks[t]
        /\ fires'[t] = IF t \in due THEN fires[t] + 1 ELSE fires[t]
    BY <1>i, <1>u, <1>t DEF TypeOK
  <2>3. CASE t \in due
    <3>1. Present(t)' /\ Seen(t)' = 1
      BY <1>t, <1>b, <1>f, <2>2, <2>3 DEF Seen
    <3>2. Guarded(s, t)'
      BY <1>u, <1>l, <1>i, <2>3 DEF Guarded, TypeOK
    <3>3. \E o \in ops'[s] : Removes(o, t)
      BY <1>has, <1>bn, <2>3
    <3> QED
      BY <1>b, <1>f, <2>3, <3>1, <3>2, <3>3
  <2>4. CASE t \notin due
    <3>1. \A z \in Sessions : \A o \in ops'[z] : Removes(o, t) => o \in ops[z]
      BY <1>b, <1>new, <2>4 DEF Removes
    <3>2. Seen(t)' = Seen(t) /\ t \in Tasks
      BY <1>t, <2>2, <2>4, <1>u DEF Seen
    <3> QED
      BY <1>b, <1>g, <2>1, <2>4, <3>1, <3>2
  <2> QED
    BY <2>3, <2>4
<1>5. MarkOK'
  <2> SUFFICES ASSUME NEW t \in Recurring
               PROVE  /\ fires'[t] =< 1 /\ asks'[t] = 0
                      /\ \A z \in Sessions : \A o \in ops'[z] :
                           Marks(o, t) => t \in inFlight'[z] /\ (fires'[t] = 1 => o.at = now')
                      /\ fires'[t] = 1 => Fresh(t)' \/ \E z \in Sessions : \E o \in ops'[z] : Marks(o, t)
                      /\ fires'[t] = 1 => \A z \in Sessions :
                           isOwner'[z] => nextFireAt'[z][t] = Unset \/ nextFireAt'[z][t] > now'
    BY DEF MarkOK, Marks
  <2>1. /\ fires[t] =< 1 /\ asks[t] = 0
        /\ \A z \in Sessions : \A o \in ops[z] :
             Marks(o, t) => t \in inFlight[z] /\ (fires[t] = 1 => o.at = now)
        /\ fires[t] = 1 => Fresh(t) \/ \E z \in Sessions : \E o \in ops[z] : Marks(o, t)
        /\ fires[t] = 1 => \A z \in Sessions :
             isOwner[z] => nextFireAt[z][t] = Unset \/ nextFireAt[z][t] > now
    BY DEF TasksOK, MarkOK
  <2>2. fires[t] \in Nat /\ asks'[t] = asks[t] /\ now' = now /\ now \in Nat
        /\ fires'[t] = IF t \in due THEN fires[t] + 1 ELSE fires[t]
    BY <1>i, <1>u, <1>t, TimeFacts DEF TypeOK
  <2>o. \A z \in Sessions : isOwner'[z] => z = s
    BY <1>u, <1>l, SoleOwner
  <2>3. CASE t \in due
    <3>1. fires'[t] = 1
      BY <1>t, <1>f, <2>1, <2>2, <2>3 DEF Seen
    <3>2. t \in inFlight'[s]
      BY <1>i, <2>3 DEF TypeOK
    <3>3. \E o \in ops'[s] : Marks(o, t)
      BY <1>has, <1>bn, <2>3
    <3>4. nextFireAt'[s][t] = now + 1
      BY <1>d, <1>t, <1>f, <1>n, <2>3 DEF NextRun, Due
    <3>5. \A z \in Sessions : \A o \in ops'[z] : Marks(o, t) => z = s /\ o \in new
      BY <1>b, <1>f, <2>3
    <3> QED
      BY <1>new, <2>1, <2>2, <2>o, <3>1, <3>2, <3>3, <3>4, <3>5
  <2>4. CASE t \notin due
    <3>1. \A z \in Sessions : \A o \in ops'[z] : Marks(o, t) => o \in ops[z]
      BY <1>b, <1>new, <2>4 DEF Marks
    <3>2. Fresh(t) => Fresh(t)'
      BY <1>b, <1>u DEF Fresh
    <3>3. \A z \in Sessions : t \in inFlight[z] => t \in inFlight'[z]
      BY <1>i DEF TypeOK
    <3>4. fires[t] = 1 => nextFireAt'[s][t] = Unset \/ nextFireAt'[s][t] > now
      <4> SUFFICES ASSUME fires[t] = 1 PROVE nextFireAt'[s][t] = Unset \/ nextFireAt'[s][t] > now
        OBVIOUS
      <4>1. CASE t \in Known(s) \ inFlight[s]
        <5>1. nextFireAt'[s][t] = Scheduled(s, t)
          BY <1>n, <1>t, <2>4, <4>1
        <5>2. ~(Scheduled(s, t) =< now)
          BY <1>d, <2>4, <4>1 DEF Due
        <5>3. Scheduled(s, t) \in Int
          BY <1>t, TimeFacts DEF Scheduled, NextRun, TypeOK, Contents
        <5> QED
          BY <2>2, <5>1, <5>2, <5>3
      <4>2. CASE t \notin Known(s) \ inFlight[s]
        BY <1>n, <1>t, <1>l, <2>1, <2>4, <4>2
      <4> QED
        BY <4>1, <4>2
    <3> QED
      BY <1>b, <2>1, <2>2, <2>4, <2>o, <3>1, <3>2, <3>3, <3>4
  <2> QED
    BY <2>3, <2>4
<1> QED
  BY <1>b, <1>1, <1>2, <1>3, <1>4, <1>5 DEF TasksOK

-----------------------------------------------------------------------------
(* The invariant is kept by the steps of a change.                         *)

\* A change that goes on stays what it is.
LEMMA GoesOn ==
  ASSUME TypeOK, NEW o \in OpType
  PROVE  /\ \A c \in Contents, next \in {"read", "open", "write"} :
              LET p == [o EXCEPT !.step = next, !.snap = c]
              IN  /\ p.kind = o.kind /\ p.ids = o.ids /\ p.at = o.at
                  /\ p.step = next /\ p.snap = c
         /\ LET p == [o EXCEPT !.step = "write"]
            IN  /\ p.kind = o.kind /\ p.ids = o.ids /\ p.at = o.at
                /\ p.step = "write" /\ p.snap = o.snap
BY DEF OpType

\* What a change makes of a task.
LEMMA ChangedIs ==
  ASSUME NEW o \in OpType, NEW c \in Contents, NEW t \in Tasks
  PROVE  /\ t \notin o.ids => Changed(o, c)[t] = c[t]
         /\ t \in o.ids /\ o.kind = "remove" => Changed(o, c)[t] = Absent
         /\ t \in o.ids /\ o.kind = "mark" => Changed(o, c)[t] = IF c[t] = Absent THEN Absent ELSE o.at
         /\ t \in o.ids /\ o.kind = "add" => Changed(o, c)[t] = o.at
         /\ o.at # Absent /\ o.kind \in {"remove", "mark", "add"} /\ o.ids \subseteq Tasks
BY TimeFacts DEF Changed, OpType

\* Only what is being removed is taken out of flight.
LEMMA OverKeeps ==
  ASSUME TypeOK, TasksOK, NEW s \in Sessions, NEW o \in ops[s], Over(s, o)
  PROVE  /\ \A z \in Sessions : \A q : q \in ops'[z] <=> q \in ops[z] /\ (z = s => q # o)
         /\ \A z \in Sessions : \A q \in ops'[z] : \A t \in Tasks :
              (Removes(q, t) \/ Marks(q, t)) /\ t \in inFlight[z] => t \in inFlight'[z]
<1>1. \A z \in Sessions : \A q : q \in ops'[z] <=> q \in ops[z] /\ (z = s => q # o)
  BY DEF Over, TypeOK
<1>2. ASSUME NEW z \in Sessions, NEW q \in ops'[z], NEW t \in Tasks,
             Removes(q, t) \/ Marks(q, t), t \in inFlight[z]
      PROVE  t \in inFlight'[z]
  <2>1. CASE z # s \/ o.kind = "add" \/ t \notin o.ids
    BY <1>2, <2>1 DEF Over, TypeOK
  <2>2. CASE z = s /\ o.kind # "add" /\ t \in o.ids
    <3>1. o.kind \in {"remove", "mark"}
      BY <2>2 DEF TypeOK, OpType
    <3>2. q \in ops[s] /\ q # o
      BY <1>1, <2>2
    <3>3. OpOK(s, o) /\ OpOK(s, q) /\ (SameOp(o, q) => o = q)
      BY <3>2 DEF TasksOK, OpsOK
    <3>4. OneShots \cap Recurring = {}
      BY TasksAssumption
    <3> QED
      BY <1>2, <2>2, <3>1, <3>2, <3>3, <3>4 DEF Removes, Marks, OpOK, SameOp
  <2> QED
    BY <2>1, <2>2
<1> QED
  BY <1>1, <1>2

\* The file is read, and the change has nothing to do.
LEMMA ReadOverStep ==
  ASSUME TypeOK, TasksOK, NEW s \in Sessions, NEW o \in ops[s], OpRead(s, o), ~Truncated,
         Changed(o, file) = file
  PROVE  TasksOK'
<1>u. /\ UNCHANGED <<now, file, tasks, nextFireAt, loaded, dirty, fires, asks, created, isOwner, mode>>
      /\ Over(s, o)
  BY DEF OpRead, lockVars
<1>t. o \in OpType /\ file \in Contents /\ OneShots \subseteq Tasks /\ Recurring \subseteq Tasks
  BY DEF TypeOK, Tasks
<1>o. /\ \A z \in Sessions : \A q : q \in ops'[z] <=> q \in ops[z] /\ (z = s => q # o)
      /\ \A z \in Sessions : \A q \in ops'[z] : \A t \in Tasks :
           (Removes(q, t) \/ Marks(q, t)) /\ t \in inFlight[z] => t \in inFlight'[z]
  BY <1>u, OverKeeps
<1>f. ~Truncated' /\ \A t \in Tasks : (Present(t) <=> file[t] # Absent) /\ (Present(t)' <=> Present(t))
  BY <1>o, <1>u DEF Truncated, Present
<1>r. \A t \in Tasks : ~Removes(o, t)
  BY <1>t, <1>f, ChangedIs DEF TasksOK, OnceOK, Removes, OpsOK, OpOK
<1>1. LoadedOK'
  BY <1>u, <1>o DEF TasksOK, LoadedOK, Alive
<1>2. OpsOK'
  BY <1>u, <1>o DEF TasksOK, OpsOK, OpOK, SameOp
<1>3. FileOK'
  BY <1>u, <1>o, <1>f DEF TasksOK, FileOK
<1>4. KeptOK'
  BY <1>u, <1>f DEF TasksOK, KeptOK, Seen
<1>5. OnceOK'
  <2>1. \A z \in Sessions : \A q \in ops'[z] : \A t \in OneShots : Removes(q, t) /\ Guarded(z, t) => Guarded(z, t)'
    BY <1>u, <1>o, <1>t DEF Guarded
  <2> QED
    BY <1>u, <1>o, <1>f, <1>r, <1>t, <2>1 DEF TasksOK, OnceOK, Seen, Removes
<1>6. MarkOK'
  <2>1. \A t \in Recurring : fires[t] = 1 /\ Marks(o, t) => Fresh(t)'
    <3> SUFFICES ASSUME NEW t \in Recurring, fires[t] = 1, Marks(o, t) PROVE Fresh(t)'
      OBVIOUS
    <3>1. o.at = now /\ asks[t] = 0
      BY <1>t DEF TasksOK, MarkOK
    <3>3. t \in created
      BY <1>t, <3>1 DEF TasksOK, KeptOK, Seen
    <3>4. file[t] # Absent
      BY <1>t, <1>f, <3>3 DEF TasksOK, KeptOK
    <3>2. file[t] = now
      BY <1>t, <3>1, <3>4, ChangedIs DEF Marks
    <3> QED
      BY <1>u, <1>f, <3>2 DEF Fresh, Truncated, TypeOK
  <2>2. \A t \in Recurring : Fresh(t) => Fresh(t)'
    BY <1>u, <1>o DEF Fresh
  <2> QED
    BY <1>u, <1>o, <1>t, <2>1, <2>2 DEF TasksOK, MarkOK, Marks
<1> QED
  BY <1>1, <1>2, <1>3, <1>4, <1>5, <1>6 DEF TasksOK

\* A change goes on, and what is or will be in the file stays as it is.
LEMMA OnStep ==
  ASSUME TypeOK, TasksOK, NEW s \in Sessions, NEW o \in ops[s], NEW p, Becomes(s, o, p),
         p.kind = o.kind, p.ids = o.ids, p.at = o.at,
         UNCHANGED <<now, tasks, nextFireAt, inFlight, loaded, fires, asks, created, isOwner, mode>>,
         \A t \in Tasks : p.snap[t] # Absent => t \in created,
         \A t \in Tasks : Present(t)' <=> Present(t),
         \A t \in Recurring : Fresh(t) => Fresh(t)'
  PROVE  LoadedOK' /\ OpsOK' /\ KeptOK' /\ OnceOK' /\ MarkOK'
<1>t. OneShots \subseteq Tasks /\ Recurring \subseteq Tasks
  BY DEF Tasks
<1>o. \A z \in Sessions : \A q \in ops'[z] :
        \/ q \in ops[z] /\ (z = s => q # o)
        \/ z = s /\ q = p
  BY DEF Becomes, TypeOK
<1>i. p \in ops'[s] /\ \A z \in Sessions : \A q \in ops[z] : q \in ops'[z] \/ (z = s /\ q = o)
  BY DEF Becomes, TypeOK
<1>1. LoadedOK'
  <2>1. \A z \in Sessions : ops[z] = {} => ops'[z] = {}
    BY <1>o
  <2> QED
    BY <2>1 DEF TasksOK, LoadedOK, Alive
<1>2. OpsOK'
  <2>1. ASSUME NEW z \in Sessions, NEW q \in ops'[z] PROVE OpOK(z, q)'
    <3>1. CASE q \in ops[z]
      BY <3>1 DEF TasksOK, OpsOK, OpOK
    <3>2. CASE z = s /\ q = p
      <4>1. OpOK(s, o)
        BY DEF TasksOK, OpsOK
      <4> QED
        BY <3>2, <4>1 DEF OpOK
    <3> QED
      BY <1>o, <3>1, <3>2
  <2>2. \A z, y \in Sessions : \A q \in ops[z], r \in ops[y] : SameOp(q, r) => z = y /\ q = r
    BY DEF TasksOK, OpsOK
  <2>3. \A z, y \in Sessions : \A q \in ops'[z], r \in ops'[y] : SameOp(q, r) => z = y /\ q = r
    <3> SUFFICES ASSUME NEW z \in Sessions, NEW y \in Sessions, NEW q \in ops'[z], NEW r \in ops'[y],
                        SameOp(q, r)
                 PROVE  z = y /\ q = r
      OBVIOUS
    <3>1. CASE q = p /\ z = s /\ r \in ops[y] /\ (y = s => r # o)
      BY <2>2, <3>1 DEF SameOp
    <3>2. CASE r = p /\ y = s /\ q \in ops[z] /\ (z = s => q # o)
      BY <2>2, <3>2 DEF SameOp
    <3>3. CASE q \in ops[z] /\ r \in ops[y]
      BY <2>2, <3>3
    <3> QED
      BY <1>o, <3>1, <3>2, <3>3
  <2> QED
    BY <2>1, <2>3 DEF OpsOK, SameOp
<1>3. KeptOK'
  BY DEF TasksOK, KeptOK, Seen
<1>4. OnceOK'
  <2>1. \A z \in Sessions, t \in Tasks : Guarded(z, t)' <=> Guarded(z, t)
    BY DEF Guarded, Infinity
  <2>2. \A z \in Sessions : \A q \in ops'[z] : \A t \in OneShots :
          Removes(q, t) => \E r \in ops[z] : Removes(r, t)
    BY <1>o DEF Removes
  <2>3. \A z \in Sessions : \A q \in ops[z] : \A t \in OneShots :
          Removes(q, t) => \E r \in ops'[z] : Removes(r, t)
    BY <1>i DEF Removes
  <2> SUFFICES ASSUME NEW t \in OneShots
               PROVE  /\ Seen(t)' =< 1
                      /\ Seen(t)' = 1 /\ Present(t)' => \E z \in Sessions : \E q \in ops'[z] : Removes(q, t)
                      /\ \A z \in Sessions : \A q \in ops'[z] :
                           Removes(q, t) => Present(t)' /\ Seen(t)' = 1 /\ Guarded(z, t)'
    BY DEF OnceOK, Removes
  <2>4. /\ Seen(t) =< 1
        /\ Seen(t) = 1 /\ Present(t) => \E z \in Sessions : \E q \in ops[z] : Removes(q, t)
        /\ \A z \in Sessions : \A q \in ops[z] :
             Removes(q, t) => Present(t) /\ Seen(t) = 1 /\ Guarded(z, t)
    BY DEF TasksOK, OnceOK
  <2>5. Seen(t)' = Seen(t) /\ t \in Tasks
    BY <1>t DEF Seen
  <2> QED
    BY <2>1, <2>2, <2>3, <2>4, <2>5
<1>5. MarkOK'
  <2>1. \A z \in Sessions : \A q \in ops'[z] : \A t \in Recurring :
          Marks(q, t) => \E r \in ops[z] : Marks(r, t) /\ r.at = q.at
    BY <1>o DEF Marks
  <2>2. \A z \in Sessions : \A q \in ops[z] : \A t \in Recurring :
          Marks(q, t) => \E r \in ops'[z] : Marks(r, t)
    BY <1>i DEF Marks
  <2> SUFFICES ASSUME NEW t \in Recurring
               PROVE  /\ fires'[t] =< 1 /\ asks'[t] = 0
                      /\ \A z \in Sessions : \A q \in ops'[z] :
                           Marks(q, t) => t \in inFlight'[z] /\ (fires'[t] = 1 => q.at = now')
                      /\ fires'[t] = 1 => Fresh(t)' \/ \E z \in Sessions : \E q \in ops'[z] : Marks(q, t)
                      /\ fires'[t] = 1 => \A z \in Sessions :
                           isOwner'[z] => nextFireAt'[z][t] = Unset \/ nextFireAt'[z][t] > now'
    BY DEF MarkOK, Marks
  <2>3. /\ fires[t] =< 1 /\ asks[t] = 0
        /\ \A z \in Sessions : \A q \in ops[z] :
             Marks(q, t) => t \in inFlight[z] /\ (fires[t] = 1 => q.at = now)
        /\ fires[t] = 1 => Fresh(t) \/ \E z \in Sessions : \E q \in ops[z] : Marks(q, t)
        /\ fires[t] = 1 => \A z \in Sessions :
             isOwner[z] => nextFireAt[z][t] = Unset \/ nextFireAt[z][t] > now
    BY DEF TasksOK, MarkOK
  <2> QED
    BY <2>1, <2>2, <2>3
<1> QED
  BY <1>1, <1>2, <1>3, <1>4, <1>5

\* The file is read, and will be rewritten.
LEMMA ReadStep ==
  ASSUME TypeOK, TasksOK, NEW s \in Sessions, NEW o \in ops[s], OpRead(s, o), ~Truncated,
         Changed(o, file) # file
  PROVE  TasksOK'
<1>t. o \in OpType /\ file \in Contents
  BY DEF TypeOK
<1>d. PICK p : p = [o EXCEPT !.step = "open", !.snap = file]
  OBVIOUS
<1>p. p.kind = o.kind /\ p.ids = o.ids /\ p.at = o.at /\ p.step = "open" /\ p.snap = file
  BY <1>t, <1>d, GoesOn
<1>u. /\ UNCHANGED <<now, file, tasks, nextFireAt, inFlight, loaded, fires, asks, created, isOwner, mode>>
      /\ Becomes(s, o, p)
  BY <1>d DEF OpRead, lockVars
<1>o. \A z \in Sessions : \A q \in ops'[z] : q \in ops[z] \/ (z = s /\ q = p)
  BY <1>u DEF Becomes, TypeOK
<1>i. \A z \in Sessions : \A q \in ops[z] : q \in ops'[z] \/ (z = s /\ q = o)
  BY <1>u DEF Becomes, TypeOK
<1>f. ~Truncated'
  BY <1>o, <1>p DEF Truncated
<1>g. \A t \in Tasks : Present(t) <=> file[t] # Absent
  BY DEF Present, Truncated
<1>h. \A t \in Tasks : Present(t)' <=> Present(t)
  BY <1>u, <1>f, <1>g DEF Present, Truncated
<1>1. FileOK'
  <2>1. file = Nothing => o.kind = "add"
    <3> SUFFICES ASSUME file = Nothing, o.kind # "add" PROVE FALSE
      OBVIOUS
    <3>1. Changed(o, file) = file
      BY <1>t, TimeFacts DEF Changed, Nothing
    <3> QED
      BY <3>1
  <2> QED
    BY <1>o, <1>u, <1>p, <1>f, <2>1 DEF TasksOK, FileOK, Truncated
<1>2. \A t \in Tasks : p.snap[t] # Absent => t \in created
  BY <1>p, <1>g DEF TasksOK, KeptOK
<1>3. \A t \in Recurring : Fresh(t) => Fresh(t)'
  BY <1>u, <1>f DEF Fresh, Truncated
<1>4. LoadedOK' /\ OpsOK' /\ KeptOK' /\ OnceOK' /\ MarkOK'
  BY <1>u, <1>p, <1>h, <1>2, <1>3, OnStep
<1> QED
  BY <1>1, <1>4 DEF TasksOK

\* The file, which has not changed since it was read, is truncated.
LEMMA OpenStep ==
  ASSUME TypeOK, TasksOK, NEW s \in Sessions, NEW o \in ops[s], OpOpen(s, o), file = o.snap
  PROVE  TasksOK'
<1>t. o \in OpType /\ o.step = "open" /\ Recurring \subseteq Tasks
  BY DEF TypeOK, OpOpen, Tasks
<1>d. PICK p : p = [o EXCEPT !.step = "write"]
  OBVIOUS
<1>p. p.kind = o.kind /\ p.ids = o.ids /\ p.at = o.at /\ p.step = "write" /\ p.snap = file
  BY <1>t, <1>d, GoesOn
<1>u. /\ UNCHANGED <<now, tasks, nextFireAt, inFlight, loaded, fires, asks, created, isOwner, mode>>
      /\ file' = Nothing
      /\ Becomes(s, o, p)
  BY <1>d DEF OpOpen, lockVars
<1>o. \A z \in Sessions : \A q \in ops'[z] : (q \in ops[z] /\ (z = s => q # o)) \/ (z = s /\ q = p)
  BY <1>u DEF Becomes, TypeOK
<1>i. p \in ops'[s]
  BY <1>u DEF Becomes, TypeOK
<1>f. ~Truncated
  <2> SUFFICES ASSUME Truncated PROVE FALSE
    OBVIOUS
  <2>1. file = Nothing
    BY DEF Truncated, TasksOK, FileOK
  <2> QED
    BY <1>t, <2>1 DEF TasksOK, FileOK
<1>w. \A z \in Sessions : \A q \in ops'[z] : q.step = "write" => z = s /\ q = p
  BY <1>o, <1>f DEF Truncated
<1>g. \A t \in Tasks : Present(t) <=> file[t] # Absent
  BY <1>f DEF Present, Truncated
<1>h. \A t \in Tasks : Present(t)' <=> Present(t)
  <2>1. \A t \in Tasks : file'[t] = Absent
    BY <1>u, TimeFacts
  <2> QED
    BY <1>w, <1>i, <1>p, <1>g, <2>1 DEF Present
<1>1. FileOK'
  <2>1. \A z \in Sessions : \A q \in ops'[z] : q.step = "open" => q.snap # Nothing
    <3> SUFFICES ASSUME NEW z \in Sessions, NEW q \in ops'[z], q.step = "open", q.snap = Nothing
                 PROVE  FALSE
      OBVIOUS
    <3>1. q \in ops[z] /\ (z = s => q # o)
      BY <1>o, <1>p
    <3>2. q.kind = "add" /\ file = Nothing
      BY <3>1 DEF TasksOK, FileOK
    <3>3. o.kind = "add"
      BY <1>t, <3>2 DEF TasksOK, FileOK
    <3> QED
      BY <3>1, <3>2, <3>3 DEF TasksOK, OpsOK, SameOp
  <2> QED
    BY <1>u, <1>w, <2>1 DEF FileOK
<1>2. \A t \in Tasks : p.snap[t] # Absent => t \in created
  BY <1>p, <1>g DEF TasksOK, KeptOK
<1>3. \A t \in Recurring : Fresh(t) => Fresh(t)'
  <2> SUFFICES ASSUME NEW t \in Recurring, Fresh(t) PROVE Fresh(t)'
    OBVIOUS
  <2>1. file'[t] = Absent /\ now' = now /\ (file[t] # Absent => file[t] >= now)
    BY <1>t, <1>u, TimeFacts DEF Fresh
  <2> QED
    BY <1>w, <1>p, <2>1 DEF Fresh
<1>4. LoadedOK' /\ OpsOK' /\ KeptOK' /\ OnceOK' /\ MarkOK'
  BY <1>u, <1>p, <1>h, <1>2, <1>3, OnStep
<1> QED
  BY <1>1, <1>4 DEF TasksOK

\* The file is written: a task that is removed is no longer there, and one that is
\* marked is up to date.
LEMMA WriteStep ==
  ASSUME TypeOK, TasksOK, NEW s \in Sessions, NEW o \in ops[s], OpWrite(s, o), file = Nothing
  PROVE  TasksOK'
<1>t. /\ o \in OpType /\ o.snap \in Contents /\ o.step = "write" /\ OpOK(s, o)
      /\ OneShots \subseteq Tasks /\ Recurring \subseteq Tasks /\ OneShots \cap Recurring = {}
  BY TasksAssumption DEF TypeOK, OpWrite, OpType, Tasks, TasksOK, OpsOK
<1>u. /\ UNCHANGED <<now, tasks, nextFireAt, loaded, fires, asks, isOwner, mode>>
      /\ Over(s, o)
      /\ created' = created \cup {t \in Tasks : file'[t] # Absent}
  BY DEF OpWrite, lockVars
<1>c. /\ \A t \in Tasks :
           /\ t \notin o.ids => file'[t] = o.snap[t]
           /\ t \in o.ids /\ o.kind = "remove" => file'[t] = Absent
           /\ t \in o.ids /\ o.kind = "mark" => file'[t] = IF o.snap[t] = Absent THEN Absent ELSE o.at
           /\ t \in o.ids /\ o.kind = "add" => file'[t] = o.at
      /\ o.at # Absent /\ o.kind \in {"remove", "mark", "add"} /\ o.ids \subseteq Tasks
  <2>1. file' = Changed(o, o.snap)
    BY DEF OpWrite
  <2>2. o.at # Absent /\ o.kind \in {"remove", "mark", "add"} /\ o.ids \subseteq Tasks
    BY <1>t, TimeFacts DEF OpType
  <2>3. ASSUME NEW t \in Tasks
        PROVE  /\ t \notin o.ids => Changed(o, o.snap)[t] = o.snap[t]
               /\ t \in o.ids /\ o.kind = "remove" => Changed(o, o.snap)[t] = Absent
               /\ t \in o.ids /\ o.kind = "mark" =>
                    Changed(o, o.snap)[t] = IF o.snap[t] = Absent THEN Absent ELSE o.at
               /\ t \in o.ids /\ o.kind = "add" => Changed(o, o.snap)[t] = o.at
    BY <1>t, ChangedIs
  <2> QED
    BY <2>1, <2>2, <2>3
<1>o. /\ \A z \in Sessions : \A q : q \in ops'[z] <=> q \in ops[z] /\ (z = s => q # o)
      /\ \A z \in Sessions : \A q \in ops'[z] : \A t \in Tasks :
           (Removes(q, t) \/ Marks(q, t)) /\ t \in inFlight[z] => t \in inFlight'[z]
  BY <1>u, OverKeeps
<1>w. \A z \in Sessions : \A q \in ops[z] : q.step = "write" => z = s /\ q = o
  BY <1>t DEF TasksOK, FileOK
<1>f. ~Truncated'
  BY <1>o, <1>w DEF Truncated
<1>g. \A t \in Tasks : (Present(t) <=> o.snap[t] # Absent) /\ (Present(t)' <=> file'[t] # Absent)
  BY <1>t, <1>w, <1>f, TimeFacts DEF Present, Truncated
<1>h. \A t \in Tasks : /\ t \notin o.ids \/ o.kind = "mark" => (Present(t)' <=> Present(t))
                       /\ Removes(o, t) => ~Present(t)'
                       /\ o.kind = "add" /\ t \in o.ids => Present(t)' /\ t \notin created
  BY <1>c, <1>g, <1>t DEF Removes, OpOK
<1>1. LoadedOK'
  BY <1>u, <1>o DEF TasksOK, LoadedOK, Alive
<1>2. OpsOK'
  <2>1. ASSUME NEW z \in Sessions, NEW q \in ops'[z] PROVE OpOK(z, q)'
    <3>1. OpOK(z, q) /\ (z = s => q # o) /\ (SameOp(q, o) => z = s /\ q = o)
      BY <1>o DEF TasksOK, OpsOK
    <3>2. q.kind = "add" => created' = created
      <4> SUFFICES ASSUME q.kind = "add", NEW t \in Tasks, file'[t] # Absent PROVE t \in created
        BY <1>u
      <4>1. o.kind # "add"
        BY <3>1 DEF SameOp
      <4> QED
        BY <1>c, <1>t, <4>1 DEF OpOK
    <3> QED
      BY <1>u, <3>1, <3>2 DEF OpOK
  <2> QED
    BY <1>o, <2>1 DEF TasksOK, OpsOK, SameOp
<1>3. FileOK'
  <2>1. \A z \in Sessions : \A q \in ops'[z] : q.step = "open" => q.snap # Nothing
    BY <1>o, <1>t DEF TasksOK, FileOK, Truncated
  <2>2. \A z \in Sessions : \A q \in ops'[z] : q.step # "write"
    BY <1>f DEF Truncated
  <2> QED
    BY <2>1, <2>2 DEF FileOK
<1>4. KeptOK'
  <2> SUFFICES ASSUME NEW t \in Tasks
               PROVE  /\ Present(t)' \/ Seen(t)' > 0 => t \in created'
                      /\ t \in Recurring /\ t \in created' => Present(t)'
                      /\ t \in created' /\ Seen(t)' = 0 => Present(t)'
    BY DEF KeptOK
  <2>1. /\ Present(t) \/ Seen(t) > 0 => t \in created
        /\ t \in Recurring /\ t \in created => Present(t)
        /\ t \in created /\ Seen(t) = 0 => Present(t)
    BY DEF TasksOK, KeptOK
  <2>2. Seen(t)' = Seen(t)
    BY <1>u DEF Seen
  <2>3. Removes(o, t) => t \in OneShots /\ Seen(t) = 1
    BY <1>t DEF TasksOK, OnceOK, Removes, OpOK
  <2>4. CASE Removes(o, t)
    BY <1>u, <1>t, <1>g, <2>1, <2>2, <2>3, <2>4
  <2>5. CASE ~Removes(o, t)
    BY <1>u, <1>c, <1>g, <1>h, <2>1, <2>2, <2>5 DEF Removes
  <2> QED
    BY <2>4, <2>5
<1>5. OnceOK'
  <2> SUFFICES ASSUME NEW t \in OneShots
               PROVE  /\ Seen(t)' =< 1
                      /\ Seen(t)' = 1 /\ Present(t)' => \E z \in Sessions : \E q \in ops'[z] : Removes(q, t)
                      /\ \A z \in Sessions : \A q \in ops'[z] :
                           Removes(q, t) => Present(t)' /\ Seen(t)' = 1 /\ Guarded(z, t)'
    BY DEF OnceOK, Removes
  <2>1. /\ Seen(t) =< 1
        /\ Seen(t) = 1 /\ Present(t) => \E z \in Sessions : \E q \in ops[z] : Removes(q, t)
        /\ \A z \in Sessions : \A q \in ops[z] :
             Removes(q, t) => Present(t) /\ Seen(t) = 1 /\ Guarded(z, t)
    BY DEF TasksOK, OnceOK
  <2>2. Seen(t)' = Seen(t) /\ t \in Tasks /\ (Seen(t) = 1 => t \in created)
    BY <1>u, <1>t DEF Seen, TasksOK, KeptOK
  <2>3. ASSUME Seen(t)' = 1, Present(t)' PROVE \E z \in Sessions : \E q \in ops'[z] : Removes(q, t)
    <3>1. ~Removes(o, t) /\ (t \in o.ids => o.kind = "mark")
      BY <1>c, <1>h, <2>2, <2>3 DEF Removes
    <3>2. Present(t)
      BY <1>h, <2>2, <2>3, <3>1
    <3>3. PICK z \in Sessions : \E q \in ops[z] : Removes(q, t)
      BY <2>1, <2>2, <2>3, <3>2
    <3> QED
      BY <1>o, <3>1, <3>3
  <2>4. ASSUME NEW z \in Sessions, NEW q \in ops'[z], Removes(q, t)
        PROVE  Present(t)' /\ Guarded(z, t)'
    <3>1. q \in ops[z] /\ (z = s => q # o) /\ Present(t) /\ Guarded(z, t) /\ Seen(t) = 1
      BY <1>o, <2>1, <2>4
    <3>2. ~Removes(o, t)
      BY <2>4, <3>1 DEF TasksOK, OpsOK, SameOp, Removes
    <3>3. t \in o.ids => o.kind = "mark"
      BY <1>c, <1>h, <2>2, <3>1, <3>2 DEF Removes
    <3>4. Present(t)'
      BY <1>h, <2>2, <3>1, <3>3
    <3>5. Guarded(z, t)'
      BY <1>o, <1>u, <2>2, <2>4, <3>1 DEF Guarded, Infinity
    <3> QED
      BY <3>4, <3>5
  <2> QED
    BY <1>o, <2>1, <2>2, <2>3, <2>4
<1>6. MarkOK'
  <2> SUFFICES ASSUME NEW t \in Recurring
               PROVE  /\ fires'[t] =< 1 /\ asks'[t] = 0
                      /\ \A z \in Sessions : \A q \in ops'[z] :
                           Marks(q, t) => t \in inFlight'[z] /\ (fires'[t] = 1 => q.at = now')
                      /\ fires'[t] = 1 => Fresh(t)' \/ \E z \in Sessions : \E q \in ops'[z] : Marks(q, t)
                      /\ fires'[t] = 1 => \A z \in Sessions :
                           isOwner'[z] => nextFireAt'[z][t] = Unset \/ nextFireAt'[z][t] > now'
    BY DEF MarkOK, Marks
  <2>1. /\ fires[t] =< 1 /\ asks[t] = 0
        /\ \A z \in Sessions : \A q \in ops[z] :
             Marks(q, t) => t \in inFlight[z] /\ (fires[t] = 1 => q.at = now)
        /\ fires[t] = 1 => Fresh(t) \/ \E z \in Sessions : \E q \in ops[z] : Marks(q, t)
        /\ fires[t] = 1 => \A z \in Sessions :
             isOwner[z] => nextFireAt[z][t] = Unset \/ nextFireAt[z][t] > now
    BY DEF TasksOK, MarkOK
  <2>2. t \in Tasks /\ now \in Int
    BY <1>t DEF TypeOK
  <2>3. ASSUME fires[t] = 1 PROVE Fresh(t)' \/ \E z \in Sessions : \E q \in ops'[z] : Marks(q, t)
    <3>1. ~Fresh(t)' => file'[t] # Absent /\ ~(file'[t] >= now)
      BY <1>u, <1>f DEF Fresh, Truncated
    <3>2. CASE Marks(o, t)
      BY <1>c, <2>1, <2>2, <2>3, <3>1, <3>2 DEF Marks
    <3>3. CASE ~Marks(o, t)
      <4>1. t \notin o.ids
        BY <1>c, <1>t, <3>3 DEF Marks, OpOK
      <4>2. Fresh(t) => Fresh(t)'
        BY <1>c, <1>t, <2>2, <3>1, <4>1 DEF Fresh
      <4> QED
        BY <1>o, <2>1, <2>3, <3>3, <4>2
    <3> QED
      BY <3>2, <3>3
  <2> QED
    BY <1>o, <1>u, <2>1, <2>2, <2>3
<1> QED
  BY <1>1, <1>2, <1>3, <1>4, <1>5, <1>6 DEF TasksOK

-----------------------------------------------------------------------------
(* The invariant of the sessions, and what it is for.                      *)

LEMMA InitTasksInv == Init => TasksInv
<1> SUFFICES ASSUME Init PROVE TasksInv
  OBVIOUS
<1>t. OneShots \subseteq Tasks /\ Recurring \subseteq Tasks /\ OneShots \cap Recurring = {}
  BY TasksAssumption DEF Tasks
<1>1. LockInv
  BY InitLockInv DEF Init
<1>2. TypeOK
  <2>1. file \in Contents /\ Nothing \in Contents
    BY TimeFacts DEF Init, Contents
  <2> QED
    BY <1>1, <1>t, <2>1, TimeFacts DEF Init, TypeOK, LockInv
<1>3. \A z \in Sessions : ops[z] = {} /\ tasks[z] = Nothing /\ ~loaded[z] /\ ~isOwner[z]
                          /\ \A t \in Tasks : nextFireAt[z][t] = Unset
  BY DEF Init, LockInit
<1>4. \A t \in Tasks : /\ fires[t] = 0 /\ asks[t] = 0
                       /\ (file[t] # Absent <=> t \in created)
  BY TimeFacts DEF Init
<1>5. LoadedOK
  BY <1>t, <1>3 DEF LoadedOK
<1>6. OpsOK /\ FileOK
  BY <1>3 DEF OpsOK, FileOK
<1>7. KeptOK
  BY <1>3, <1>4 DEF KeptOK, Present, Seen
<1>8. OnceOK
  BY <1>t, <1>3, <1>4 DEF OnceOK, Seen
<1>9. MarkOK
  BY <1>t, <1>3, <1>4 DEF MarkOK
<1> QED
  BY <1>1, <1>2, <1>5, <1>6, <1>7, <1>8, <1>9 DEF TasksInv, TasksOK

LEMMA StepTasksInv == TasksInv /\ [Next]_vars => TasksInv'
<1> SUFFICES ASSUME TasksInv, [Next]_vars PROVE TasksInv'
  OBVIOUS
<1>i. TypeOK /\ LockInv /\ (Undisturbed => TasksOK)
  BY DEF TasksInv
<1>1. LockInv'
  <2>1. [LockNext]_lockVars
    BY LockSteps
  <2> QED
    BY <1>i, <2>1, StepTypeOK, StepCallersLive, StepFileIsTheirs DEF LockInv
<1>l. LockTypeOK'
  BY <1>1 DEF LockInv
<1>2. CASE UNCHANGED vars
  <2>u. UNCHANGED lockVars /\ UNCHANGED taskVars /\ UNCHANGED ghostVars
    BY <1>2 DEF vars
  <2>1. TypeOK'
    BY <1>i, <1>l, <2>u DEF TypeOK, taskVars, ghostVars
  <2>2. Undisturbed' => Undisturbed
    BY <2>u DEF Undisturbed, lockVars, ghostVars
  <2>3. ASSUME TasksOK PROVE TasksOK'
    <3>u. UNCHANGED <<mode, isOwner, now, file, tasks, nextFireAt, inFlight, loaded, ops, fires, asks, created>>
      BY <2>u DEF lockVars, taskVars, ghostVars
    <3>1. /\ OpsOK' /\ FileOK' /\ KeptOK'
          /\ \A t \in Tasks : Present(t)' <=> Present(t)
      BY <1>i, <2>3, <3>u, Plain
    <3>2. LoadedOK'
      BY <2>3, <3>u DEF TasksOK, LoadedOK, Alive
    <3>3. OnceOK'
      BY <2>3, <3>u DEF TasksOK, OnceOK, Seen, Present, Guarded, Infinity, Removes
    <3>4. MarkOK'
      BY <2>3, <3>u DEF TasksOK, MarkOK, Fresh, Marks
    <3> QED
      BY <3>1, <3>2, <3>3, <3>4 DEF TasksOK
  <2> QED
    BY <1>i, <1>1, <2>1, <2>2, <2>3 DEF TasksInv
<1>3. CASE Next
  <2>1. TypeOK'
    BY <1>i, <1>l, <1>3, TypeStep
  <2>2. ASSUME Undisturbed' PROVE TasksOK'
    <3>1. Undisturbed /\ (Tick \/ \E s \in Sessions : CleanStep(s))
      BY <1>i, <1>3, <2>2, Clean
    <3>i. TasksOK /\ ~raced
      BY <1>i, <3>1 DEF Undisturbed
    <3>2. CASE Tick
      BY <1>i, <3>i, <3>2, TickStep
    <3>3. ASSUME NEW s \in Sessions, CleanStep(s) PROVE TasksOK'
      <4>1. CASE Load(s) /\ ~Truncated /\ \A t \in Tasks : Missed(t) => Others(s) = {}
        BY <1>i, <3>i, <4>1, LoadStep
      <4>2. CASE Reload(s) /\ ~Truncated
        BY <1>i, <3>i, <4>2, ReloadStep
      <4>3. CASE Check(s) /\ \A t \in Due(s) : tasks[s][t] = file[t]
        BY <1>i, <3>i, <4>3, CheckStep
      <4>4. CASE Evict(s) /\ ops[s] = {}
        BY <1>i, <3>i, <4>4, EvictStep
      <4>5. CASE \E t \in OneShots : Add(s, t)
        BY <1>i, <3>i, <4>5, AddStep
      <4>6. ASSUME NEW o \in ops[s], OpRead(s, o), ~Truncated PROVE TasksOK'
        BY <1>i, <3>i, <4>6, ReadOverStep, ReadStep
      <4>7. ASSUME NEW o \in ops[s], OpOpen(s, o), file = o.snap PROVE TasksOK'
        BY <1>i, <3>i, <4>7, OpenStep
      <4>8. ASSUME NEW o \in ops[s], OpWrite(s, o), file = Nothing PROVE TasksOK'
        BY <1>i, <3>i, <4>8, WriteStep
      <4>9. CASE Lock(s)
        BY <1>i, <1>l, <3>i, <4>9, LockStepKeeps
      <4>10. CASE (StopTasks(s) \/ CrashTasks(s)) /\ ops[s] = {}
        BY <1>i, <3>i, <4>10, EndStep
      <4> QED
        BY <3>3, <4>1, <4>2, <4>3, <4>4, <4>5, <4>6, <4>7, <4>8, <4>9, <4>10 DEF CleanStep
    <3> QED
      BY <3>1, <3>2, <3>3
  <2> QED
    BY <1>1, <2>1, <2>2 DEF TasksInv
<1> QED
  BY <1>2, <1>3

\* The invariant holds in every state.
THEOREM TasksInvariant == Spec => []TasksInv
BY InitTasksInv, StepTasksInv, PTL DEF Spec

\* Each variable of the sessions keeps its type.
THEOREM TypeCorrect == Spec => []TypeOK
<1>1. TasksInv => TypeOK
  BY DEF TasksInv
<1> QED
  BY TasksInvariant, <1>1, PTL

\* Unless a session disturbs another, a one-shot task is fired once, or asked about
\* once, and a recurring task is fired once in each unit of time: by check and load,
\* through deaths, resumptions and changes of the owner.
THEOREM FiredOnce == Spec => []FiresOnce
<1>1. ASSUME TasksInv, Undisturbed, NEW t \in Tasks PROVE fires[t] + asks[t] =< 1
  <2>1. OnceOK /\ MarkOK /\ fires[t] \in Nat /\ asks[t] \in Nat
    BY <1>1 DEF TasksInv, TasksOK, TypeOK
  <2>2. CASE t \in OneShots
    BY <2>1, <2>2 DEF OnceOK, Seen
  <2>3. CASE t \in Recurring
    BY <2>1, <2>3 DEF MarkOK
  <2> QED
    BY <1>1, <2>2, <2>3 DEF Tasks
<1>2. TasksInv => FiresOnce
  BY <1>1 DEF FiresOnce
<1> QED
  BY TasksInvariant, <1>2, PTL

\* Unless a session disturbs another, a task that is neither fired nor asked about is
\* in the file, whatever the sessions write, once they have written.
THEOREM TasksAreKept == Spec => []NothingLost
<1>1. ASSUME TasksInv, Undisturbed, Quiet, NEW t \in created, file[t] = Absent
      PROVE  t \in OneShots /\ fires[t] + asks[t] > 0
  <2>1. KeptOK /\ t \in Tasks /\ fires[t] \in Nat /\ asks[t] \in Nat
    BY <1>1 DEF TasksInv, TasksOK, TypeOK
  <2>2. ~Present(t)
    BY <1>1 DEF Present, Quiet
  <2> QED
    BY <1>1, <2>1, <2>2 DEF KeptOK, Seen, Tasks
<1>2. TasksInv => NothingLost
  BY <1>1 DEF NothingLost
<1> QED
  BY TasksInvariant, <1>2, PTL
=============================================================================
