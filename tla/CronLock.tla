------------------------------ MODULE CronLock ------------------------------
(***************************************************************************)
(* The lock of the cron scheduler (src/claude/utils/cronTasksLock.ts), and *)
(* how a session's scheduler takes and releases it (cronScheduler.ts).     *)
(*                                                                         *)
(* The sessions of a project are processes that share a directory.  Only   *)
(* the owner of the lock file runs the project's tasks; the others probe   *)
(* the file, and take over when its owner has died.  Each step is one call *)
(* of the file system, and what the process does until the next.           *)
(***************************************************************************)
EXTENDS Integers

None == "none"

CONSTANTS
  Sessions,    \* sessions of one project; a session may die and be resumed
  MaxCrashes   \* bound on the deaths

ASSUME SessionsAssumption == None \notin Sessions
ASSUME CrashesAssumption == MaxCrashes \in Nat

VARIABLES
  lockFile,   \* the lock file: who opened it last, and whether that process has
              \* died, and whom it names
  mode,       \* for each session, what its scheduler does
  step,       \* for each session, its next call for the lock
  isOwner,
  crashes,
  raced       \* for the properties: whether a lock was taken from a live session

lockVars == <<lockFile, mode, step, isOwner, crashes, raced>>

\* A file that was opened names nobody until its content is written.
FileOf(s, owner) == [by |-> s, dead |-> FALSE, names |-> owner]
NoFile == FileOf(None, None)
Files == {NoFile} \cup [by : Sessions, dead : BOOLEAN, names : Sessions \cup {None}]

Modes == {"off", "enabling", "running", "stopped", "dead"}
Steps == {"idle", "create", "write", "read", "rewrite", "unlink", "recreate",
          "readOwn", "unlinkOwn"}

\* isProcessRunning.
Alive(s) == mode[s] \in {"enabling", "running", "stopped"}

\* The other sessions that are alive.
Others(s) == {z \in Sessions \ {s} : Alive(z)}

LockInit ==
  /\ lockFile = NoFile
  /\ mode = [s \in Sessions |-> "off"]
  /\ step = [s \in Sessions |-> "idle"]
  /\ isOwner = [s \in Sessions |-> FALSE]
  /\ crashes = 0
  /\ raced = FALSE

Goto(s, next) == step' = [step EXCEPT ![s] = next]

-----------------------------------------------------------------------------
(* tryAcquireSchedulerLock.                                                *)

\* It returns true.  A scheduler that was stopped meanwhile releases the lock.
Acquired(s) ==
  IF mode[s] = "stopped"
    THEN Goto(s, "readOwn") /\ UNCHANGED <<mode, isOwner>>
    ELSE /\ Goto(s, "idle")
         /\ isOwner' = [isOwner EXCEPT ![s] = TRUE]
         /\ mode' = [mode EXCEPT ![s] = "running"]

\* It returns false.
Refused(s) ==
  /\ Goto(s, "idle")
  /\ mode' = [mode EXCEPT ![s] = IF @ = "enabling" THEN "running" ELSE @]

\* (mutant: the file is written without the flag wx)
CreateOver(s) ==
  /\ step[s] \in {"create", "recreate"}
  /\ lockFile' = FileOf(s, None)
  /\ Goto(s, "write")
  /\ UNCHANGED <<mode, isOwner, crashes, raced>>

\* tryCreateExclusive: the file is created if there is none.
Create(s) ==
  /\ step[s] \in {"create", "recreate"}
  /\ \/ /\ lockFile = NoFile
        /\ lockFile' = FileOf(s, None)
        /\ Goto(s, "write")
        /\ UNCHANGED mode
     \/ /\ lockFile # NoFile
        /\ IF step[s] = "create" THEN Goto(s, "read") /\ UNCHANGED mode ELSE Refused(s)
        /\ UNCHANGED lockFile
  /\ UNCHANGED <<isOwner, crashes, raced>>

\* Its content is written, in vain if the file was replaced.
WriteOwner(s) ==
  /\ step[s] = "write"
  /\ lockFile' = IF lockFile.by = s THEN FileOf(s, s) ELSE lockFile
  /\ Acquired(s)
  /\ UNCHANGED <<crashes, raced>>

\* (mutant: the lock of a dead session is not stale)
ReadLockHeld(s) ==
  /\ step[s] = "read"
  /\ \/ lockFile.names = s /\ Goto(s, "rewrite") /\ UNCHANGED mode
     \/ lockFile.names \notin {s, None} /\ Refused(s)
     \/ lockFile.names = None /\ Goto(s, "unlink") /\ UNCHANGED mode
  /\ UNCHANGED <<lockFile, isOwner, crashes, raced>>

\* readLock and what follows it: the lock is one's own from before one was
\* resumed, the process that wrote it is alive, or it is stale, or its owner cannot
\* be read.
ReadLock(s) ==
  /\ step[s] = "read"
  /\ \/ lockFile.names = s /\ Goto(s, "rewrite") /\ UNCHANGED mode
     \/ lockFile.names \notin {s, None} /\ ~lockFile.dead /\ Refused(s)
     \/ /\ lockFile.names # s
        /\ lockFile.names = None \/ lockFile.dead
        /\ Goto(s, "unlink") /\ UNCHANGED mode
  /\ UNCHANGED <<lockFile, isOwner, crashes, raced>>

\* Whether the file is the lock of another session that is alive.
Taken(s) == lockFile.by \in Others(s) /\ ~lockFile.dead

\* The file is opened for writing, whatever it is by now.
Rewrite(s) ==
  /\ step[s] = "rewrite"
  /\ lockFile' = FileOf(s, None)
  /\ raced' = (raced \/ Taken(s))
  /\ Goto(s, "write")
  /\ UNCHANGED <<mode, isOwner, crashes>>

\* The stale lock is removed, or the lock that replaced it since it was read.
Unlink(s) ==
  /\ step[s] = "unlink"
  /\ lockFile' = NoFile
  /\ raced' = (raced \/ Taken(s))
  /\ Goto(s, "recreate")
  /\ UNCHANGED <<mode, isOwner, crashes>>

-----------------------------------------------------------------------------
(* releaseSchedulerLock.                                                   *)

ReadOwn(s) ==
  /\ step[s] = "readOwn"
  /\ Goto(s, IF lockFile.names = s THEN "unlinkOwn" ELSE "idle")
  /\ UNCHANGED <<lockFile, mode, isOwner, crashes, raced>>

UnlinkOwn(s) ==
  /\ step[s] = "unlinkOwn"
  /\ lockFile' = NoFile
  /\ raced' = (raced \/ Taken(s))
  /\ Goto(s, "idle")
  /\ UNCHANGED <<mode, isOwner, crashes>>

-----------------------------------------------------------------------------
(* The scheduler of a session.                                             *)

\* A session starts, or is resumed: enable.
Start(s) ==
  /\ mode[s] \in {"off", "dead"}
  /\ mode' = [mode EXCEPT ![s] = "enabling"]
  /\ Goto(s, "create")
  /\ UNCHANGED <<lockFile, isOwner, crashes, raced>>

\* lockProbeTimer of a scheduler that does not own the lock.
Probe(s) ==
  /\ mode[s] = "running" /\ ~isOwner[s]
  /\ step[s] = "idle"
  /\ Goto(s, "create")
  /\ UNCHANGED <<lockFile, mode, isOwner, crashes, raced>>

\* stop.
Stop(s) ==
  /\ mode[s] \in {"enabling", "running"}
  /\ mode' = [mode EXCEPT ![s] = "stopped"]
  /\ isOwner' = [isOwner EXCEPT ![s] = FALSE]
  /\ IF isOwner[s] THEN Goto(s, "readOwn") ELSE UNCHANGED step
  /\ UNCHANGED <<lockFile, crashes, raced>>

\* The process dies.
Crash(s) ==
  /\ Alive(s)
  /\ crashes < MaxCrashes
  /\ crashes' = crashes + 1
  /\ mode' = [mode EXCEPT ![s] = "dead"]
  /\ isOwner' = [isOwner EXCEPT ![s] = FALSE]
  /\ lockFile' = IF lockFile.by = s THEN [lockFile EXCEPT !.dead = TRUE] ELSE lockFile
  /\ Goto(s, "idle")
  /\ UNCHANGED raced

LockStep(s) ==
  \/ Create(s) \/ WriteOwner(s) \/ ReadLock(s) \/ Rewrite(s) \/ Unlink(s)
  \/ ReadOwn(s) \/ UnlinkOwn(s)

LockNext ==
  \E s \in Sessions : LockStep(s) \/ Start(s) \/ Probe(s) \/ Stop(s) \/ Crash(s)

LockSpec == LockInit /\ [][LockNext]_lockVars

-----------------------------------------------------------------------------
(* Properties.                                                             *)

\* The variables keep their types; only a running scheduler between calls is the owner.
LockTypeOK ==
  /\ lockFile \in Files
  /\ mode \in [Sessions -> Modes]
  /\ step \in [Sessions -> Steps]
  /\ isOwner \in [Sessions -> BOOLEAN]
  /\ \A s \in Sessions : isOwner[s] => mode[s] = "running" /\ step[s] = "idle"
  /\ crashes \in 0..MaxCrashes
  /\ raced \in BOOLEAN

Owners == {s \in Sessions : isOwner[s]}

\* "If two sessions race to recover a stale lock, only one create succeeds.": no
\* two sessions own the lock.
OneOwner == \A s, t \in Owners : s = t

\* Two sessions own the lock only after one of them took it from the other while
\* that was alive: it unlinked or rewrote the file that replaced the stale one it
\* had read, or read the file before its owner was written.
OneOwnerElse == OneOwner \/ raced

\* The owner's name is in the file until it stops or dies, unless it was taken.
OwnerIsNamed == \A s \in Sessions : isOwner[s] /\ ~raced => lockFile = FileOf(s, s)

\* "If the owner dies (PID no longer running), a passive session takes over": when
\* a scheduler runs, some scheduler owns the lock before long, or none runs any
\* more.
TakesOver ==
  (\E s \in Sessions : mode[s] = "running") ~>
    (Owners # {} \/ \A s \in Sessions : mode[s] # "running")
=============================================================================
