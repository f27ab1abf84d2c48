--------------------------- MODULE TaskList_proofs ---------------------------
(***************************************************************************)
(* Theorems about TaskList: what holds for any agents, tasks and jobs.     *)
(***************************************************************************)
EXTENDS TaskList, FiniteSetTheorems, SequenceTheorems, WellFoundedInduction, TLAPS

-----------------------------------------------------------------------------
(* What holds whatever gets into the way of a job.                         *)

Kept == Open \cup {"completed"}

\* The change u that a job of this kind makes.
ChangeOK(kind, u) ==
  \/ /\ kind = "claimed"
     /\ \/ u.fields = {"status"} /\ u.val.status = "in_progress"
        \/ u.fields = {"owner"} /\ u.val.owner = None
  \/ kind = "finish" /\ u.fields = {"status"} /\ u.val.status = "completed"
  \/ kind = "block" /\ u.fields \in {{"blocks"}, {"blockedBy"}}
  \/ /\ kind = "unassign" /\ u.fields = {"owner", "status"}
     /\ u.val.owner = None /\ u.val.status = "pending"
  \/ kind = "delete" /\ u.fields = {"blocks", "blockedBy"}

\* A job j of agent a: each kind has its steps.
JobOK(a, j) ==
  \/ j = NoJob
  \/ /\ j.kind = "claim" /\ j.id \in Ids
     /\ \/ j.step \in {"claim", "claimList"} /\ j.todo = <<>>
        \/ /\ j.step \in {"open", "write"} /\ j.seen.status \in Kept
           /\ j.todo = <<Update(j.id, {"owner"}, j.seen, [j.seen EXCEPT !.owner = a])>>
  \/ /\ j.kind \in {"claimed", "finish", "block", "unassign", "delete"}
     /\ j.step \in {"update", "open", "write"}
     /\ j.todo # <<>>
     /\ \A k \in DOMAIN j.todo : ChangeOK(j.kind, j.todo[k])
     /\ \A k, l \in DOMAIN j.todo : j.todo[k].id = j.todo[l].id => k = l
     /\ j.step # "update" => j.id = Head(j.todo).id /\ j.seen.status \in Kept
  \/ j.kind = "create" /\ j.step \in {"listLock", "highest"} /\ j.id = 0 /\ j.todo = <<>>
  \/ j.kind = "create" /\ j.step = "create" /\ j.id = 0 /\ j.todo = <<>> /\ j.left = {}
  \/ /\ j.kind = "delete" /\ j.id \in Ids /\ j.todo = <<>>
     /\ j.step \in {"readMark", "writeMark", "unlink", "sweep"}
  \/ j.kind = "reset" /\ j.step \in {"listLock", "reset"} /\ j.id = 0 /\ j.todo = <<>>

JobsOK == \A a \in Agents : JobOK(a, job[a]) /\ (job[a] # NoJob => alive[a])

LockSteps == {"claimList", "open", "write"}

\* Who is past the lock of a file, or of the list, holds it.
LocksOK ==
  \A a \in Agents :
    /\ job[a].step \in LockSteps => lock[job[a].id] = a
    /\ job[a].step \in {"highest", "create", "reset"} => listLock = a

\* A file that cannot be read is gone or torn; one whose task is being claimed or is
\* about to be opened is not torn.
FilesOK ==
  /\ \A i \in Ids : ~Readable(i) => file[i] \in {Gone, Torn}
  /\ \A a \in Agents : job[a].step \in {"claimList", "open"} => file[job[a].id] # Torn

\* Tasks are talked of only after their ids were given out.
Known(i) == given[i] >= 1
KnowsOnly(t) == \A i \in t.blocks \cup t.blockedBy : Known(i)

KnownOK ==
  /\ \A i \in Ids : (file[i] # Gone => Known(i)) /\ KnowsOnly(file[i])
  /\ \A a \in Agents :
       /\ job[a].id # 0 => Known(job[a].id)
       /\ KnowsOnly(job[a].seen)
       /\ \A k \in DOMAIN job[a].todo :
            Known(job[a].todo[k].id) /\ KnowsOnly(job[a].todo[k].val)

BaseInv == TypeOK /\ JobsOK /\ LocksOK /\ FilesOK /\ KnownOK
-----------------------------------------------------------------------------
(* The ids.                                                                *)

\* The id of a task that is gone is not above the mark.
MarkOK ==
  /\ \A i \in Ids : Known(i) /\ file[i] = Gone => i =< mark
  /\ \A a, b \in Agents : Deleting(a) /\ Deleting(b) => a = b
  /\ \A a \in Agents : job[a].step = "writeMark" => mark < job[a].id
  /\ \A a \in Agents : job[a].step = "unlink" => job[a].id =< mark

\* Whoever looks for the highest id has found each that was given out, or has still
\* to read where it is found.
HighestOK ==
  \A a \in Agents : job[a].step \in {"highest", "create"} =>
    \A i \in Ids : Known(i) =>
      \/ i =< job[a].n
      \/ "mark" \in job[a].left /\ i =< mark
      \/ "files" \in job[a].left /\ file[i] # Gone

IdInv ==
  Without({"overlap"}) =>
    (\A i \in Ids : given[i] =< 1) /\ MarkOK /\ HighestOK
-----------------------------------------------------------------------------
(* What a job that holds a lock has seen.                                  *)

SeenOK ==
  \A a \in Agents :
    LET j == job[a] IN
    /\ j.step = "claimList" =>
         Readable(j.id) /\ file[j.id].owner \in {None, a} /\ file[j.id].status # "completed"
    /\ j.step = "open" => Readable(j.id) /\ file[j.id] = j.seen
    /\ j.step = "write" => file[j.id] \in {Gone, Torn}
    /\ j.kind = "claim" /\ j.step \in {"open", "write"} =>
         j.seen.owner \in {None, a} /\ j.seen.status # "completed"

SeenInv == Without({"overlap"}) => SeenOK
-----------------------------------------------------------------------------
(* Completed tasks.                                                        *)

DoneOK ==
  /\ \A i \in done : file[i].status \in {"completed", "torn", "gone"}
  /\ \A a \in Agents :
       LET j == job[a] IN
       /\ j.kind = "claim" /\ j.step \in LockSteps => j.id \notin done
       /\ j.step \in {"open", "write"} /\ j.id \in done =>
            Changed(j.seen, Head(j.todo)).status = "completed"
       /\ \A k \in DOMAIN j.todo :
            "status" \in j.todo[k].fields /\ j.todo[k].id \in done =>
              j.todo[k].val.status = "completed"

DoneInv == Without({"late"}) => DoneOK
-----------------------------------------------------------------------------
(* Claimed tasks.                                                          *)

\* An owner that a job still has to remove is itself, or has left.
Owners(a) == IF job[a].kind = "claimed" THEN {a} ELSE {b \in Agents : ~alive[b]}
Releases(a, i) ==
  /\ job[a].kind \in {"claimed", "unassign"}
  /\ \E k \in DOMAIN job[a].todo :
       job[a].todo[k].id = i /\ "owner" \in job[a].todo[k].fields

HoldersOK ==
  /\ \A i \in Ids, a \in Agents : a \in holds[i] => alive[a]
  /\ \A a, b \in Agents : job[a].kind = "unassign" /\ job[b].kind = "unassign" => a = b

HoldsOK ==
  /\ \A i \in Ids : \A a, b \in holds[i] : a = b
  /\ \A i \in Ids : Readable(i) => holds[i] \subseteq {file[i].owner}
  /\ \A a \in Agents : job[a].step \in {"open", "write"} =>
       holds[job[a].id] \subseteq {job[a].seen.owner}
  /\ \A a \in Agents, i \in Ids : Releases(a, i) =>
       /\ holds[i] \subseteq Owners(a)
       /\ Readable(i) => file[i].owner \in Owners(a)
       /\ \A b \in Agents : job[b].step \in {"open", "write"} /\ job[b].id = i =>
            job[b].seen.owner \in Owners(a)

HoldInv == HoldersOK /\ (Without({"overlap"}) => HoldsOK)
-----------------------------------------------------------------------------
(* The blockers of claimed tasks.                                          *)

CompletedOK ==
  /\ \A i \in Ids : file[i].status = "completed" => i \in done
  /\ \A a \in Agents :
       job[a].step \in {"open", "write"} /\ job[a].seen.status = "completed" =>
         job[a].id \in done \/ file[job[a].id] = Gone

ReadyOK ==
  \A a \in Agents : job[a].kind = "claim" /\ job[a].step \in {"open", "write"} =>
    \A b \in job[a].seen.blockedBy : b \in done \/ file[b] = Gone

ReadyInv ==
  /\ Without({"overlap"}) => CompletedOK
  /\ Without({"blind", "overlap"}) => ReadyOK
-----------------------------------------------------------------------------
(* The two changes of a job that makes i block j.                          *)

BlocksChange(u, i, j) ==
  u.id = i /\ u.fields = {"blocks"} /\ u.val.blocks = u.base.blocks \cup {j}
BlockedChange(u, i, j) ==
  u.id = j /\ u.fields = {"blockedBy"} /\ u.val.blockedBy = u.base.blockedBy \cup {i}

IInv == BaseInv /\ IdInv /\ SeenInv /\ DoneInv /\ HoldInv /\ ReadyInv
-----------------------------------------------------------------------------
(* How a step changes the job of its agent.                                *)

UpdateKinds == {"claimed", "finish", "block", "unassign", "delete"}

\* Only the job of a changes, and becomes j.
Moves(a, j) ==
  /\ job' \in [Agents -> Jobs]
  /\ job'[a] = j
  /\ \A b \in Agents : b # a => job'[b] = job[b]

\* The job goes on with these changes.
After(j, todo) == IF todo = <<>> THEN NoJob ELSE [j EXCEPT !.step = "update", !.todo = todo]

LEMMA Basics ==
  /\ None \notin Agents /\ Ids \subseteq Nat /\ 0 \notin Ids
  /\ Gone \in Tasks /\ Torn \in Tasks /\ New \in Tasks /\ NoJob \in Jobs
  /\ Gone.status = "gone" /\ Torn.status = "torn" /\ New.status = "pending"
  /\ New.owner = None /\ New.blocks = {} /\ New.blockedBy = {}
  /\ Gone.blocks = {} /\ Gone.blockedBy = {} /\ Torn.blocks = {} /\ Torn.blockedBy = {}
<1>1. None \notin Agents /\ Ids \subseteq Nat /\ 0 \notin Ids
  BY AgentsAssumption, BoundsAssumption DEF Ids
<1>2. \A s \in Open \cup {"completed", "gone", "torn"} : Task(s, {}) \in Tasks
  BY DEF Task, Tasks
<1>3. Gone \in Tasks /\ Torn \in Tasks /\ New \in Tasks
  BY <1>2 DEF Gone, Torn, New, Open
<1>4. <<>> \in Seq(Changes) /\ 0 \in 0..MaxId
  BY BoundsAssumption
<1>5. NoJob \in Jobs
  BY <1>3, <1>4 DEF NoJob, Jobs
<1> QED
  BY <1>1, <1>3, <1>5 DEF Gone, Torn, New, Task

LEMMA MovesIf ==
  ASSUME TypeOK, NEW a \in Agents, NEW j \in Jobs, job' = [job EXCEPT ![a] = j]
  PROVE  Moves(a, j)
  BY DEF TypeOK, Moves

LEMMA FaultFacts ==
  ASSUME NEW kind, NEW c \in BOOLEAN, Fault(kind, c)
  PROVE  faults \subseteq faults' /\ (c => kind \in faults')
  BY DEF Fault

\* What the step of a job says of it.
LEMMA JobFacts ==
  ASSUME TypeOK, JobsOK, NEW a \in Agents
  PROVE  LET j == job[a] IN
         /\ j \in Jobs /\ JobOK(a, j) /\ (j # NoJob => alive[a])
         /\ j.step \in {"claim", "claimList"} => j.kind = "claim" /\ j.id \in Ids /\ j.todo = <<>>
         /\ j.step = "update" => j.kind \in UpdateKinds
         /\ j.step \in {"open", "write"} =>
              /\ j.kind \in UpdateKinds \cup {"claim"} /\ j.id \in Ids
              /\ j.seen.status \in Kept /\ Head(j.todo).id = j.id
         /\ j.step \in {"open", "write"} /\ j.kind = "claim" =>
              j.todo = <<Update(j.id, {"owner"}, j.seen, [j.seen EXCEPT !.owner = a])>>
         /\ j.step \in {"update", "open", "write"} =>
              j.todo # <<>> /\ Head(j.todo) \in Changes /\ Tail(j.todo) \in Seq(Changes)
         /\ j.step \in {"update", "open", "write"} /\ j.kind # "claim" =>
              /\ \A k \in DOMAIN j.todo : ChangeOK(j.kind, j.todo[k])
              /\ \A k, l \in DOMAIN j.todo : j.todo[k].id = j.todo[l].id => k = l
         /\ j.step = "listLock" => j.kind \in {"create", "reset"} /\ j.id = 0 /\ j.todo = <<>>
         /\ j.step = "highest" => j.kind = "create" /\ j.id = 0 /\ j.todo = <<>>
         /\ j.step = "create" => j.kind = "create" /\ j.id = 0 /\ j.todo = <<>> /\ j.left = {}
         /\ j.step = "reset" => j.kind = "reset" /\ j.id = 0 /\ j.todo = <<>>
         /\ j.step \in {"readMark", "writeMark", "unlink", "sweep"} =>
              j.kind = "delete" /\ j.id \in Ids /\ j.todo = <<>>
         /\ j.step = "none" => j = NoJob
<1> DEFINE j == job[a]
<1>1. j \in Jobs /\ JobOK(a, j) /\ (j # NoJob => alive[a])
  BY DEF TypeOK, JobsOK
<1>2. j.todo \in Seq(Changes) /\ j.id \in Ids \cup {0}
  BY <1>1 DEF Jobs
<1>3. j = NoJob => j.kind = "none" /\ j.step = "none" /\ j.todo = <<>>
  BY DEF NoJob
<1> HIDE DEF j
<1>4. j.todo # <<>> => Head(j.todo) \in Changes /\ Tail(j.todo) \in Seq(Changes)
  BY <1>2, HeadTailProperties
<1>5. \A i, f, b, v : Update(i, f, b, v).id = i
  BY DEF Update
<1>6. j.kind = "claim" /\ j.step \in {"open", "write"} =>
        j.todo # <<>> /\ Head(j.todo).id = j.id
        /\ j.todo = <<Update(j.id, {"owner"}, j.seen, [j.seen EXCEPT !.owner = a])>>
        /\ j.id \in Ids /\ j.seen.status \in Kept
  BY <1>1, <1>3, <1>5 DEF JobOK
<1>7. j.kind \in UpdateKinds /\ j.step \in {"update", "open", "write"} =>
        /\ j.todo # <<>>
        /\ \A k \in DOMAIN j.todo : ChangeOK(j.kind, j.todo[k])
        /\ \A k, l \in DOMAIN j.todo : j.todo[k].id = j.todo[l].id => k = l
        /\ j.step # "update" => j.id = Head(j.todo).id /\ j.seen.status \in Kept
  BY <1>1, <1>3 DEF JobOK, UpdateKinds
<1>8. j.step \in {"update", "open", "write"} =>
        j.kind \in UpdateKinds \cup (IF j.step = "update" THEN {} ELSE {"claim"})
  BY <1>1, <1>3 DEF JobOK, UpdateKinds
<1>9. Head(j.todo) \in Changes => Head(j.todo).id \in Ids
  BY DEF Changes
<1>10. /\ j.step \in {"claim", "claimList"} => j.kind = "claim" /\ j.id \in Ids /\ j.todo = <<>>
       /\ j.step = "listLock" => j.kind \in {"create", "reset"} /\ j.id = 0 /\ j.todo = <<>>
       /\ j.step = "highest" => j.kind = "create" /\ j.id = 0 /\ j.todo = <<>>
       /\ j.step = "create" => j.kind = "create" /\ j.id = 0 /\ j.todo = <<>> /\ j.left = {}
       /\ j.step = "reset" => j.kind = "reset" /\ j.id = 0 /\ j.todo = <<>>
       /\ j.step \in {"readMark", "writeMark", "unlink", "sweep"} =>
            j.kind = "delete" /\ j.id \in Ids /\ j.todo = <<>>
       /\ j.step = "none" => j = NoJob
  BY <1>1, <1>3 DEF JobOK
<1> QED
  BY <1>1, <1>4, <1>6, <1>7, <1>8, <1>9, <1>10 DEF j, UpdateKinds

\* The changes that are left after the first are as good.
LEMMA AfterFacts ==
  ASSUME NEW a \in Agents, NEW j \in Jobs, j.kind \in UpdateKinds, NEW todo \in Seq(Changes),
         \A k \in DOMAIN todo : ChangeOK(j.kind, todo[k]),
         \A k, l \in DOMAIN todo : todo[k].id = todo[l].id => k = l
  PROVE  /\ After(j, todo) \in Jobs /\ JobOK(a, After(j, todo))
         /\ todo # <<>> => /\ After(j, todo).kind = j.kind /\ After(j, todo).step = "update"
                           /\ After(j, todo).todo = todo /\ After(j, todo).id = j.id
                           /\ After(j, todo).seen = j.seen
         /\ todo = <<>> => After(j, todo) = NoJob
<1>1. CASE todo = <<>>
  BY <1>1, Basics DEF After, JobOK
<1>2. CASE todo # <<>>
  <2>1. After(j, todo) = [j EXCEPT !.step = "update", !.todo = todo]
    BY <1>2 DEF After
  <2>2. After(j, todo) \in Jobs
    BY <2>1 DEF Jobs
  <2>3. /\ After(j, todo).kind = j.kind /\ After(j, todo).step = "update"
        /\ After(j, todo).todo = todo /\ After(j, todo).id = j.id
        /\ After(j, todo).seen = j.seen
    BY <2>1 DEF Jobs
  <2>4. JobOK(a, After(j, todo))
    BY <1>2, <2>3 DEF JobOK, UpdateKinds
  <2> QED
    BY <1>2, <2>2, <2>3, <2>4
<1> QED
  BY <1>1, <1>2

LEMMA TailFacts ==
  ASSUME NEW s \in Seq(Changes), s # <<>>
  PROVE  /\ DOMAIN Tail(s) = 1..(Len(s) - 1) /\ Len(s) \in Nat \ {0}
         /\ \A k \in DOMAIN Tail(s) : k + 1 \in DOMAIN s /\ Tail(s)[k] = s[k + 1]
         /\ 1 \in DOMAIN s /\ Head(s) = s[1]
         /\ Tail(s) \in Seq(Changes)
  BY HeadTailProperties, LenProperties

-----------------------------------------------------------------------------
(* What each step does, as far as the proofs look at it.                   *)

LEMMA LessTodo ==
  ASSUME TypeOK, JobsOK, NEW a \in Agents, job[a].kind # "claim",
         job[a].step \in {"update", "open", "write"}
  PROVE  LET j == job[a]
             n == After(j, Tail(j.todo)) IN
         /\ n \in Jobs /\ JobOK(a, n)
         /\ n = NoJob \/ /\ n.kind = j.kind /\ n.step = "update" /\ n.id = j.id
                         /\ n.seen = j.seen /\ n.todo = Tail(j.todo)
<1> DEFINE j == job[a]
           todo == Tail(j.todo)
<1>1. /\ j \in Jobs /\ j.kind \in UpdateKinds /\ j.todo # <<>> /\ todo \in Seq(Changes)
      /\ \A k \in DOMAIN j.todo : ChangeOK(j.kind, j.todo[k])
      /\ \A k, l \in DOMAIN j.todo : j.todo[k].id = j.todo[l].id => k = l
      /\ j.todo \in Seq(Changes)
  BY JobFacts DEF Jobs
<1> HIDE DEF j
<1>2. /\ \A k \in DOMAIN todo : ChangeOK(j.kind, todo[k])
      /\ \A k, l \in DOMAIN todo : todo[k].id = todo[l].id => k = l
  <2>1. /\ DOMAIN todo = 1..(Len(j.todo) - 1) /\ Len(j.todo) \in Nat
        /\ \A k \in DOMAIN todo : k + 1 \in DOMAIN j.todo /\ todo[k] = j.todo[k + 1]
    BY <1>1, TailFacts
  <2> HIDE DEF todo
  <2>2. ASSUME NEW k \in DOMAIN todo, NEW l \in DOMAIN todo, todo[k].id = todo[l].id
        PROVE  k = l
    <3>1. k \in Nat /\ l \in Nat /\ k + 1 = l + 1
      BY <1>1, <2>1, <2>2
    <3> QED
      BY <3>1
  <2> QED
    BY <1>1, <2>1, <2>2
<1>3. /\ After(j, todo) \in Jobs /\ JobOK(a, After(j, todo))
      /\ todo # <<>> => /\ After(j, todo).kind = j.kind /\ After(j, todo).step = "update"
                        /\ After(j, todo).todo = todo /\ After(j, todo).id = j.id
                        /\ After(j, todo).seen = j.seen
      /\ todo = <<>> => After(j, todo) = NoJob
  <2> HIDE DEF todo
  <2> QED
    BY <1>1, <1>2, AfterFacts
<1> QED
  BY <1>3 DEF j

\* The changes that may follow a claim.
LEMMA ClaimedFacts ==
  ASSUME NEW a \in Agents, NEW j \in Jobs, NEW i \in Ids, NEW t \in Tasks,
         NEW todo \in AfterClaim(i, t)
  PROVE  LET n == After([j EXCEPT !.kind = "claimed"], todo) IN
         /\ n \in Jobs /\ JobOK(a, n)
         /\ \/ n = NoJob
            \/ /\ n.kind = "claimed" /\ n.step = "update" /\ n.id = j.id /\ n.seen = j.seen
               /\ n.todo = todo /\ DOMAIN todo = {1} /\ todo[1].id = i
               /\ todo[1].val.blocks = t.blocks /\ todo[1].val.blockedBy = t.blockedBy
               /\ \/ todo[1].fields = {"status"} /\ todo[1].val.status = "in_progress"
                  \/ todo[1].fields = {"owner"} /\ todo[1].val.owner = None
<1> DEFINE u1 == Update(i, {"status"}, t, [t EXCEPT !.status = "in_progress"])
           u2 == Update(i, {"owner"}, t, [t EXCEPT !.owner = None])
           jc == [j EXCEPT !.kind = "claimed"]
<1>1. /\ [t EXCEPT !.status = "in_progress"] \in Tasks /\ [t EXCEPT !.owner = None] \in Tasks
      /\ [t EXCEPT !.status = "in_progress"].status = "in_progress"
      /\ [t EXCEPT !.owner = None].owner = None
      /\ [t EXCEPT !.status = "in_progress"].blocks = t.blocks
      /\ [t EXCEPT !.owner = None].blocks = t.blocks
      /\ [t EXCEPT !.status = "in_progress"].blockedBy = t.blockedBy
      /\ [t EXCEPT !.owner = None].blockedBy = t.blockedBy
  BY DEF Tasks, Open
<1>2. u1 \in Changes /\ u2 \in Changes
  BY <1>1 DEF Changes, Update, Fields
<1>3. /\ u1.id = i /\ u1.fields = {"status"} /\ u1.val.status = "in_progress"
      /\ u1.val.blocks = t.blocks /\ u1.val.blockedBy = t.blockedBy
      /\ u2.id = i /\ u2.fields = {"owner"} /\ u2.val.owner = None
      /\ u2.val.blocks = t.blocks /\ u2.val.blockedBy = t.blockedBy
  BY <1>1 DEF Update
<1>4. jc \in Jobs /\ jc.kind = "claimed" /\ jc.id = j.id /\ jc.seen = j.seen
  BY DEF Jobs
<1>5. todo \in {<<u1>>, <<>>, <<u2>>}
  BY DEF AfterClaim
<1> HIDE DEF u1, u2, jc
<1>6. todo \in Seq(Changes) /\ (todo = <<>> \/ (DOMAIN todo = {1} /\ todo[1] \in {u1, u2} /\ todo # <<>>))
  <2>1. \A u \in Changes : <<u>> \in Seq(Changes) /\ DOMAIN <<u>> = {1} /\ <<u>>[1] = u /\ <<u>> # <<>>
    OBVIOUS
  <2>2. CASE todo = <<>>
    BY <2>2, EmptySeq
  <2>3. CASE todo = <<u1>>
    BY <1>2, <2>1, <2>3
  <2>4. CASE todo = <<u2>>
    BY <1>2, <2>1, <2>4
  <2> QED
    BY <1>5, <2>2, <2>3, <2>4
<1>7. /\ \A k \in DOMAIN todo : ChangeOK("claimed", todo[k])
      /\ \A k, l \in DOMAIN todo : todo[k].id = todo[l].id => k = l
  BY <1>3, <1>6 DEF ChangeOK
<1>8. jc.kind \in UpdateKinds
  BY <1>4 DEF UpdateKinds
<1>9. /\ After(jc, todo) \in Jobs /\ JobOK(a, After(jc, todo))
      /\ todo # <<>> => /\ After(jc, todo).kind = jc.kind /\ After(jc, todo).step = "update"
                        /\ After(jc, todo).todo = todo /\ After(jc, todo).id = jc.id
                        /\ After(jc, todo).seen = jc.seen
      /\ todo = <<>> => After(jc, todo) = NoJob
  BY <1>4, <1>6, <1>7, <1>8, AfterFacts
<1> QED
  BY <1>3, <1>4, <1>6, <1>9 DEF jc

\* What a job without a lock leaves alone.
Aside == UNCHANGED <<mark, listLock, alive, holds, given, done>> /\ jobs' \in 0..MaxJobs

\* The changes that a new job makes are of what it has read.
BeginsWith(j) ==
  \/ j.kind \in {"claim", "delete"} /\ j.id \in Listed /\ j.todo = <<>>
  \/ j.kind \in {"create", "reset"} /\ j.id = 0 /\ j.todo = <<>>
  \/ /\ j.kind = "finish" /\ j.id \in Listed
     /\ \A k \in DOMAIN j.todo : j.todo[k].id \in Listed /\ j.todo[k].val.status = "completed"
  \/ /\ j.kind = "block" /\ j.id \in Listed
     /\ \E m, n \in Listed :
          /\ m # n /\ n \notin file[m].blocks
          /\ \/ Len(j.todo) = 2 /\ BlocksChange(j.todo[1], m, n) /\ BlockedChange(j.todo[2], m, n)
             \/ Len(j.todo) = 1 /\ BlocksChange(j.todo[1], m, n) /\ m \in file[n].blockedBy
  \/ /\ j.kind = "unassign" /\ j.id = 0 /\ \A c \in Agents : job[c].kind # "unassign"
     /\ \E b \in Agents : ~alive[b] /\
          \A k \in DOMAIN j.todo :
            LET i == j.todo[k].id IN
            i \in Listed /\ file[i].owner = b /\ file[i].status # "completed"

Begins(a, j) ==
  /\ alive[a] /\ job[a] = NoJob
  /\ Moves(a, j) /\ j \in Jobs /\ JobOK(a, j) /\ BeginsWith(j) /\ j.seen = Gone
  /\ j.step \in {"claim", "update", "listLock", "readMark"}
  /\ \A k \in DOMAIN j.todo :
       LET u == j.todo[k] IN
       /\ u.id \in Listed /\ u.base = file[u.id]
       /\ u.val.blocks \subseteq u.base.blocks \cup Listed
       /\ u.val.blockedBy \subseteq u.base.blockedBy \cup Listed
  /\ UNCHANGED <<file, lock, faults>> /\ Aside

\* What is done when the lock of a file is asked for.
Skips(a) ==
  LET i == Head(job[a].todo).id IN
  /\ job[a].step = "update" /\ i \in Ids /\ ~Readable(i)
  /\ Moves(a, After(job[a], Tail(job[a].todo)))
  /\ UNCHANGED <<file, lock>> /\ Aside
  /\ faults \subseteq faults' /\ (file[i] = Torn => "missed" \in faults')

TakesLock(a) ==
  LET u == Head(job[a].todo) IN
  /\ job[a].step = "update" /\ u.id \in Ids /\ Readable(u.id)
  /\ Free(lock[u.id]) /\ lock' = [lock EXCEPT ![u.id] = a]
  /\ Moves(a, [job[a] EXCEPT !.step = "open", !.id = u.id, !.seen = file[u.id]])
  /\ UNCHANGED file /\ Aside
  /\ faults \subseteq faults'
  /\ (\E f \in u.fields \cap {"blocks", "blockedBy"} : file[u.id][f] # u.base[f]) =>
       "stale" \in faults'

GivesUp(a) ==
  /\ job[a].step \in {"update", "claim", "claimList"}
  /\ Moves(a, NoJob)
  /\ lock' \in [Ids -> Agents \cup {None}]
  /\ \A i \in Ids : lock'[i] = lock[i] \/ lock[i] = a \/ Free(lock[i])
  /\ UNCHANGED file /\ Aside
  /\ faults \subseteq faults' /\ (job[a].step = "update" => "missed" \in faults')

LEMMA LockDoes ==
  ASSUME TypeOK, JobsOK, NEW a \in Agents, Lock(a)
  PROVE  Skips(a) \/ TakesLock(a) \/ GivesUp(a)
<1>1. /\ job[a].step = "update" /\ job[a] \in Jobs /\ job[a].kind # "claim"
      /\ Head(job[a].todo) \in Changes /\ Head(job[a].todo).id \in Ids
  BY JobFacts DEF Lock, In, UpdateKinds, Changes
<1>2. Aside /\ UNCHANGED file
  BY DEF Lock, Aside, data, locks, TypeOK
<1> DEFINE u == Head(job[a].todo)
           i == u.id
<1>3. CASE /\ ~Readable(i) /\ Updates(a, Tail(job[a].todo)) /\ Fault("missed", file[i] = Torn)
           /\ UNCHANGED locks
  <2>1. After(job[a], Tail(job[a].todo)) \in Jobs
    BY <1>1, LessTodo
  <2>2. job' = [job EXCEPT ![a] = After(job[a], Tail(job[a].todo))]
    BY <1>3 DEF Updates, After, TypeOK
  <2>3. Moves(a, After(job[a], Tail(job[a].todo)))
    BY <2>1, <2>2, MovesIf
  <2>4. faults \subseteq faults' /\ (file[i] = Torn => "missed" \in faults')
    BY <1>3 DEF Fault
  <2> QED
    BY <1>1, <1>2, <1>3, <2>3, <2>4 DEF Skips, locks
<1>4. CASE /\ Readable(i) /\ Free(lock[i]) /\ lock' = [lock EXCEPT ![i] = a]
           /\ job' = [job EXCEPT ![a].step = "open", ![a].id = i, ![a].seen = file[i]]
           /\ Fault("stale", \E f \in u.fields \cap {"blocks", "blockedBy"} : file[i][f] # u.base[f])
  <2> DEFINE n == [job[a] EXCEPT !.step = "open", !.id = i, !.seen = file[i]]
  <2>1. file[i] \in Tasks
    BY <1>1 DEF TypeOK
  <2>2. n \in Jobs
    BY <1>1, <2>1 DEF Jobs
  <2>3. job' = [job EXCEPT ![a] = n]
    BY <1>4 DEF TypeOK
  <2>4. Moves(a, n)
    BY <2>2, <2>3, MovesIf
  <2>5. faults \subseteq faults' /\
        ((\E f \in u.fields \cap {"blocks", "blockedBy"} : file[i][f] # u.base[f]) =>
           "stale" \in faults')
    BY <1>4 DEF Fault
  <2> QED
    BY <1>1, <1>2, <1>4, <2>4, <2>5 DEF TakesLock
<1>5. CASE Readable(i) /\ Stale(lock[i]) /\ End(a) /\ Fault("missed", TRUE) /\ UNCHANGED locks
  <2>1. Moves(a, NoJob)
    BY <1>5, Basics, MovesIf DEF End
  <2> QED
    BY <1>1, <1>2, <1>5, <2>1 DEF GivesUp, locks, TypeOK, Fault
<1> QED
  BY <1>3, <1>4, <1>5 DEF Lock, Head1

ClaimStarts(a) ==
  LET i == job[a].id IN
  /\ job[a].step = "claim" /\ Readable(i) /\ Free(lock[i])
  /\ file[i].owner \in {None, a} /\ file[i].status # "completed"
  /\ lock' = [lock EXCEPT ![i] = a]
  /\ Moves(a, [job[a] EXCEPT !.step = "claimList"])
  /\ UNCHANGED <<file, faults>> /\ Aside

LEMMA ClaimLockDoes ==
  ASSUME TypeOK, JobsOK, NEW a \in Agents, ClaimLock(a)
  PROVE  GivesUp(a) \/ ClaimStarts(a)
<1> DEFINE i == job[a].id
<1>1. job[a].step = "claim" /\ job[a] \in Jobs /\ i \in Ids
  BY JobFacts DEF ClaimLock, In
<1>2. Aside /\ UNCHANGED file /\ faults' = faults
  BY DEF ClaimLock, Aside, data, ghosts, TypeOK
<1>3. CASE End(a) /\ (UNCHANGED lock \/ (Free(lock[i]) /\ lock' = [lock EXCEPT ![i] = None]))
  <2>1. Moves(a, NoJob)
    BY <1>3, Basics, MovesIf DEF End
  <2>2. /\ lock' \in [Ids -> Agents \cup {None}]
        /\ \A k \in Ids : lock'[k] = lock[k] \/ lock[k] = a \/ Free(lock[k])
    BY <1>1, <1>3 DEF TypeOK
  <2> QED
    BY <1>1, <1>2, <2>1, <2>2 DEF GivesUp
<1>4. CASE /\ Readable(i) /\ Free(lock[i])
           /\ file[i].owner \in {None, a} /\ file[i].status # "completed"
           /\ lock' = [lock EXCEPT ![i] = a] /\ Goto(a, "claimList")
  <2> DEFINE n == [job[a] EXCEPT !.step = "claimList"]
  <2>1. n \in Jobs
    BY <1>1 DEF Jobs
  <2>2. job' = [job EXCEPT ![a] = n]
    BY <1>4 DEF TypeOK, Goto
  <2>3. Moves(a, n)
    BY <2>1, <2>2, MovesIf
  <2> QED
    BY <1>1, <1>2, <1>4, <2>3 DEF ClaimStarts
<1> QED
  BY <1>3, <1>4 DEF ClaimLock

ClaimReads(a) ==
  LET i == job[a].id
      owned == [file[i] EXCEPT !.owner = a] IN
  /\ job[a].step = "claimList" /\ file[i] # Gone /\ ~Blocked(i)
  /\ Moves(a, [job[a] EXCEPT !.step = "open", !.seen = file[i],
                             !.todo = <<Update(i, {"owner"}, file[i], owned)>>])
  /\ UNCHANGED <<file, lock>> /\ Aside
  /\ faults \subseteq faults' /\ ((\E b \in file[i].blockedBy : file[b] = Torn) => "blind" \in faults')

ClaimsGone(a) ==
  LET i == job[a].id
      owned == [file[i] EXCEPT !.owner = a] IN
  /\ job[a].step = "claimList" /\ file[i] = Gone
  /\ \E todo \in AfterClaim(i, owned) : Moves(a, After([job[a] EXCEPT !.kind = "claimed"], todo))
  /\ lock' = [lock EXCEPT ![i] = None]
  /\ holds' = [holds EXCEPT ![i] = @ \cup {a}]
  /\ UNCHANGED <<file, mark, listLock, alive, given, done>> /\ jobs' \in 0..MaxJobs
  /\ faults \subseteq faults'

LEMMA ClaimListDoes ==
  ASSUME TypeOK, JobsOK, LocksOK, NEW a \in Agents, ClaimList(a)
  PROVE  GivesUp(a) \/ ClaimReads(a) \/ ClaimsGone(a)
<1> DEFINE i == job[a].id
           owned == [file[i] EXCEPT !.owner = a]
<1>1. job[a].step = "claimList" /\ job[a] \in Jobs /\ i \in Ids /\ lock[i] = a
  BY JobFacts DEF ClaimList, In, LocksOK, LockSteps
<1>2. /\ UNCHANGED <<file, mark, listLock, alive, given, done>> /\ jobs' \in 0..MaxJobs
      /\ faults \subseteq faults' /\ ((\E b \in file[i].blockedBy : file[b] = Torn) => "blind" \in faults')
  BY DEF ClaimList, data, TypeOK, Fault
<1>3. file[i] \in Tasks /\ owned \in Tasks
  <2>1. \A t \in Tasks : [t EXCEPT !.owner = a] \in Tasks
    BY DEF Tasks
  <2> QED
    BY <1>1, <2>1 DEF TypeOK
<1>4. CASE End(a) /\ lock' = [lock EXCEPT ![i] = None] /\ UNCHANGED holds
  <2>1. Moves(a, NoJob)
    BY <1>4, Basics, MovesIf DEF End
  <2>2. /\ lock' \in [Ids -> Agents \cup {None}]
        /\ \A k \in Ids : lock'[k] = lock[k] \/ lock[k] = a \/ Free(lock[k])
    BY <1>1, <1>4 DEF TypeOK
  <2> QED
    BY <1>1, <1>2, <1>4, <2>1, <2>2 DEF GivesUp, Aside
<1>5. CASE /\ file[i] # Gone /\ ~Blocked(i)
           /\ job' = [job EXCEPT ![a].step = "open", ![a].seen = file[i],
                                 ![a].todo = <<Update(i, {"owner"}, file[i], owned)>>]
           /\ UNCHANGED <<lock, holds>>
  <2> DEFINE u == Update(i, {"owner"}, file[i], owned)
             n == [job[a] EXCEPT !.step = "open", !.seen = file[i], !.todo = <<u>>]
  <2>1. u \in Changes
    BY <1>1, <1>3 DEF Changes, Update, Fields
  <2>2. <<u>> \in Seq(Changes)
    BY <2>1
  <2>3. job' = [job EXCEPT ![a] = n]
    BY <1>5 DEF TypeOK
  <2> HIDE DEF u
  <2>4. n \in Jobs
    BY <1>1, <1>3, <2>2 DEF Jobs
  <2>5. Moves(a, n)
    BY <2>3, <2>4, MovesIf
  <2> QED
    BY <1>1, <1>2, <1>5, <2>5 DEF ClaimReads, Aside, u
<1>6. CASE /\ file[i] = Gone /\ Claimed(a, i, owned)
           /\ lock' = [lock EXCEPT ![i] = None] /\ holds' = [holds EXCEPT ![i] = @ \cup {a}]
  <2>1. PICK todo \in AfterClaim(i, owned) :
          job' = [job EXCEPT ![a] = IF todo = <<>> THEN NoJob
                    ELSE [@ EXCEPT !.kind = "claimed", !.step = "update", !.todo = todo]]
    BY <1>6 DEF Claimed
  <2> DEFINE n == After([job[a] EXCEPT !.kind = "claimed"], todo)
  <2>2. n \in Jobs
    BY <1>1, <1>3, ClaimedFacts
  <2>3. job' = [job EXCEPT ![a] = n]
    BY <1>1, <2>1 DEF After, Jobs, TypeOK
  <2>4. Moves(a, n)
    BY <2>2, <2>3, MovesIf
  <2> QED
    BY <1>1, <1>2, <1>6, <2>4 DEF ClaimsGone
<1> QED
  BY <1>4, <1>5, <1>6 DEF ClaimList

\* A file is opened, and written.
Opens(a) ==
  /\ job[a].step = "open"
  /\ file' = [file EXCEPT ![job[a].id] = Torn]
  /\ Moves(a, [job[a] EXCEPT !.step = "write"])
  /\ UNCHANGED <<lock, faults>> /\ Aside

LEMMA OpenFileDoes ==
  ASSUME TypeOK, NEW a \in Agents, OpenFile(a)
  PROVE  Opens(a)
<1> DEFINE n == [job[a] EXCEPT !.step = "write"]
<1>0. job[a] \in Jobs
  BY DEF TypeOK
<1>1. n \in Jobs
  BY <1>0 DEF Jobs
<1>2. job' = [job EXCEPT ![a] = n]
  BY DEF OpenFile, Goto, TypeOK
<1>3. Moves(a, n)
  BY <1>1, <1>2, MovesIf
<1> QED
  BY <1>3 DEF OpenFile, Opens, In, Aside, locks, ghosts, TypeOK

Written(a) == Changed(job[a].seen, Head(job[a].todo))
Finishes(a) == job[a].seen.status # "completed" /\ Written(a).status = "completed"

\* The first change of a job that is not a claim is made.
WritesOther(a) ==
  /\ job[a].kind # "claim"
  /\ Moves(a, After(job[a], Tail(job[a].todo)))
  /\ holds' = [holds EXCEPT ![job[a].id] =
                 IF Finishes(a) THEN {}
                 ELSE IF "owner" \in Head(job[a].todo).fields THEN @ \ {a} ELSE @]

WritesClaim(a) ==
  /\ job[a].kind = "claim"
  /\ \E todo \in AfterClaim(job[a].id, Written(a)) :
       Moves(a, After([job[a] EXCEPT !.kind = "claimed"], todo))
  /\ holds' = [holds EXCEPT ![job[a].id] = @ \cup {a}]

Writes(a) ==
  LET i == job[a].id IN
  /\ job[a].step = "write"
  /\ file' = [file EXCEPT ![i] = IF @ = Gone THEN Gone ELSE Written(a)]
  /\ lock' = [lock EXCEPT ![i] = None]
  /\ WritesOther(a) \/ WritesClaim(a)
  /\ done' = IF Finishes(a) /\ file[i] # Gone THEN done \cup {i} ELSE done
  /\ UNCHANGED <<mark, listLock, alive, given>> /\ jobs' \in 0..MaxJobs
  /\ faults \subseteq faults' /\ (Finishes(a) /\ Decided(a, i) => "late" \in faults')

\* What is written is a task.
LEMMA WrittenFacts ==
  ASSUME TypeOK, JobsOK, NEW a \in Agents, job[a].step \in {"open", "write"}
  PROVE  LET j == job[a]
             u == Head(j.todo)
             t == Written(a) IN
         /\ t \in Tasks /\ t.status \in Kept
         /\ t.owner = IF "owner" \in u.fields THEN u.val.owner ELSE j.seen.owner
         /\ t.status = IF "status" \in u.fields THEN u.val.status ELSE j.seen.status
         /\ t.blocks = IF "blocks" \in u.fields THEN u.val.blocks ELSE j.seen.blocks
         /\ t.blockedBy = IF "blockedBy" \in u.fields THEN u.val.blockedBy ELSE j.seen.blockedBy
         /\ j.kind = "claim" =>
              u.fields = {"owner"} /\ u.val.owner = a /\ u.val.blocks = j.seen.blocks
              /\ u.val.blockedBy = j.seen.blockedBy
         /\ j.kind # "claim" => ChangeOK(j.kind, u)
<1> DEFINE j == job[a]
           u == Head(j.todo)
<1>1. j.seen \in Tasks /\ u \in Changes /\ j.seen.status \in Kept
  BY JobFacts DEF Jobs
<1>2. u.val \in Tasks
  BY <1>1 DEF Changes
<1>3. j.kind # "claim" => ChangeOK(j.kind, u)
  <2>1. j.kind # "claim" => 1 \in DOMAIN j.todo /\ u = j.todo[1]
    BY JobFacts, TailFacts DEF Jobs
  <2> QED
    BY <2>1, JobFacts
<1>4. j.kind = "claim" =>
        u.fields = {"owner"} /\ u.val.owner = a /\ u.val.blocks = j.seen.blocks
        /\ u.val.blockedBy = j.seen.blockedBy
  <2> SUFFICES ASSUME j.kind = "claim"
               PROVE  u.fields = {"owner"} /\ u.val.owner = a /\ u.val.blocks = j.seen.blocks
                      /\ u.val.blockedBy = j.seen.blockedBy
    OBVIOUS
  <2>1. j.todo = <<Update(j.id, {"owner"}, j.seen, [j.seen EXCEPT !.owner = a])>>
    BY JobFacts
  <2>2. u = Update(j.id, {"owner"}, j.seen, [j.seen EXCEPT !.owner = a])
    BY <2>1
  <2>3. \A t \in Tasks : /\ [t EXCEPT !.owner = a].owner = a
                         /\ [t EXCEPT !.owner = a].blocks = t.blocks
                         /\ [t EXCEPT !.owner = a].blockedBy = t.blockedBy
    BY DEF Tasks
  <2>4. u.fields = {"owner"} /\ u.val = [j.seen EXCEPT !.owner = a]
    BY <2>2 DEF Update
  <2> QED
    BY <1>1, <2>3, <2>4
<1>5. "status" \in u.fields => u.val.status \in Kept
  BY <1>3, <1>4 DEF ChangeOK, Kept, Open
<1>6. \A t \in Tasks, v \in Changes :
        v.val \in Tasks =>
          /\ Changed(t, v) \in Tasks
          /\ Changed(t, v).owner = IF "owner" \in v.fields THEN v.val.owner ELSE t.owner
          /\ Changed(t, v).status = IF "status" \in v.fields THEN v.val.status ELSE t.status
          /\ Changed(t, v).blocks = IF "blocks" \in v.fields THEN v.val.blocks ELSE t.blocks
          /\ Changed(t, v).blockedBy = IF "blockedBy" \in v.fields THEN v.val.blockedBy
                                      ELSE t.blockedBy
  <2> SUFFICES ASSUME NEW t \in Tasks, NEW v \in Changes, v.val \in Tasks
               PROVE  /\ Changed(t, v) \in Tasks
                      /\ Changed(t, v).owner = IF "owner" \in v.fields THEN v.val.owner ELSE t.owner
                      /\ Changed(t, v).status = IF "status" \in v.fields THEN v.val.status ELSE t.status
                      /\ Changed(t, v).blocks = IF "blocks" \in v.fields THEN v.val.blocks ELSE t.blocks
                      /\ Changed(t, v).blockedBy = IF "blockedBy" \in v.fields THEN v.val.blockedBy
                                                  ELSE t.blockedBy
    OBVIOUS
  <2>1. \A w \in {t, v.val} :
          /\ w.owner \in Agents \cup {None} /\ w.status \in Open \cup {"completed", "gone", "torn"}
          /\ w.blocks \in SUBSET Ids /\ w.blockedBy \in SUBSET Ids
    BY DEF Tasks
  <2> QED
    BY <2>1 DEF Changed, Tasks
<1> QED
  BY <1>1, <1>2, <1>3, <1>4, <1>5, <1>6 DEF Written

LEMMA WriteDoes ==
  ASSUME TypeOK, JobsOK, LocksOK, NEW a \in Agents, Write(a)
  PROVE  Writes(a)
<1> DEFINE j == job[a]
           i == j.id
<1>1. j.step = "write" /\ j \in Jobs /\ i \in Ids /\ lock[i] = a /\ Head1(a).id = i
  BY JobFacts DEF Write, In, LocksOK, LockSteps, Head1
<1>2. /\ file' = [file EXCEPT ![i] = IF @ = Gone THEN Gone ELSE Written(a)]
      /\ lock' = [lock EXCEPT ![i] = None]
      /\ done' = IF Finishes(a) /\ file[i] # Gone THEN done \cup {i} ELSE done
      /\ UNCHANGED <<mark, listLock, alive, given>> /\ jobs' \in 0..MaxJobs
      /\ holds' = [holds EXCEPT ![i] =
                     IF j.kind = "claim" THEN @ \cup {a}
                     ELSE IF Finishes(a) THEN {}
                     ELSE IF "owner" \in Head1(a).fields THEN @ \ {a} ELSE @]
      /\ Fault("late", Finishes(a) /\ Decided(a, i))
  BY <1>1 DEF Write, Written, Finishes, Head1, TypeOK
<1>3. faults \subseteq faults' /\ (Finishes(a) /\ Decided(a, i) => "late" \in faults')
  BY <1>2 DEF Fault
<1>4. CASE j.kind # "claim"
  <2>1. job' = [job EXCEPT ![a] = After(j, Tail(j.todo))]
    BY <1>4 DEF Write, Updates, After, TypeOK
  <2>2. After(j, Tail(j.todo)) \in Jobs
    BY <1>1, <1>4, LessTodo
  <2>3. WritesOther(a)
    BY <1>2, <1>4, <2>1, <2>2, MovesIf DEF WritesOther, Head1
  <2> QED
    BY <1>1, <1>2, <1>3, <2>3 DEF Writes
<1>5. CASE j.kind = "claim"
  <2>1. Claimed(a, i, Written(a)) /\ Written(a) \in Tasks
    BY <1>1, <1>5, WrittenFacts DEF Write, Written, Head1
  <2>2. PICK todo \in AfterClaim(i, Written(a)) :
          job' = [job EXCEPT ![a] = IF todo = <<>> THEN NoJob
                    ELSE [@ EXCEPT !.kind = "claimed", !.step = "update", !.todo = todo]]
    BY <2>1 DEF Claimed
  <2> DEFINE n == After([j EXCEPT !.kind = "claimed"], todo)
  <2>3. n \in Jobs
    BY <1>1, <2>1, ClaimedFacts
  <2>4. job' = [job EXCEPT ![a] = n]
    BY <1>1, <2>2 DEF After, Jobs, TypeOK
  <2>5. Moves(a, n)
    BY <2>3, <2>4, MovesIf
  <2>6. WritesClaim(a)
    BY <1>2, <1>5, <2>5 DEF WritesClaim
  <2> QED
    BY <1>1, <1>2, <1>3, <2>6 DEF Writes
<1> QED
  BY <1>4, <1>5

\* The steps of creating, deleting and clearing.
ListLocks(a) ==
  /\ job[a].step = "listLock" /\ Free(listLock) /\ listLock' = a
  /\ \/ /\ job[a].kind = "create"
        /\ Moves(a, [job[a] EXCEPT !.step = "highest", !.left = {"files", "mark"}])
     \/ job[a].kind = "reset" /\ Moves(a, [job[a] EXCEPT !.step = "reset"])
  /\ UNCHANGED <<file, mark, lock, alive, holds, given, done, faults>> /\ jobs' \in 0..MaxJobs

LEMMA ListLockDoes ==
  ASSUME TypeOK, JobsOK, NEW a \in Agents, ListLock(a)
  PROVE  ListLocks(a)
<1>1. job[a].step = "listLock" /\ job[a] \in Jobs /\ job[a].kind \in {"create", "reset"}
  BY JobFacts DEF ListLock, In
<1> DEFINE n == [job[a] EXCEPT !.step = "highest", !.left = {"files", "mark"}]
           m == [job[a] EXCEPT !.step = "reset"]
<1>2. n \in Jobs /\ m \in Jobs
  BY <1>1 DEF Jobs
<1>3. \/ job[a].kind = "create" /\ job' = [job EXCEPT ![a] = n]
      \/ job[a].kind = "reset" /\ job' = [job EXCEPT ![a] = m]
  BY <1>1 DEF ListLock, Goto, TypeOK
<1>4. \/ job[a].kind = "create" /\ Moves(a, n)
      \/ job[a].kind = "reset" /\ Moves(a, m)
  BY <1>2, <1>3, MovesIf
<1> QED
  BY <1>1, <1>4 DEF ListLock, ListLocks, data, ghosts, TypeOK

\* Only what has been read is known to whoever looks for the highest id.
Reads(a) ==
  /\ job[a].step = "highest"
  /\ \E source \in job[a].left, n \in 0..MaxId :
       /\ Moves(a, [job[a] EXCEPT !.left = @ \ {source}, !.n = n,
                      !.step = IF job[a].left = {source} THEN "create" ELSE "highest"])
       /\ job[a].n =< n
       /\ source = "mark" => mark =< n
       /\ source = "files" => \A i \in Ids : file[i] # Gone => i =< n
  /\ UNCHANGED <<file, lock, faults>> /\ Aside

LEMMA HasHighest ==
  ASSUME NEW S \in SUBSET (0..MaxId), S # {}
  PROVE  \E n \in S : \A m \in S : m =< n
<1>1. IsWellFoundedOn(OpToRel(<, Nat), Nat)
  BY NatLessThanWellFounded
<1> DEFINE T == {MaxId - x : x \in S}
<1>2. T \in SUBSET Nat /\ T # {}
  <2>1. \A x \in 0..MaxId : MaxId - x \in Nat
    BY BoundsAssumption
  <2> QED
    BY <2>1
<1> HIDE DEF T
<1>3. PICK x \in T : \A y \in T : ~(<<y, x>> \in OpToRel(<, Nat))
  BY <1>1, <1>2, WFMin
<1>4. \A y \in T : ~(y < x)
  BY <1>2, <1>3 DEF OpToRel
<1>5. PICK n \in S : x = MaxId - n
  BY DEF T
<1>6. \A m \in S : ~(MaxId - m < MaxId - n)
  BY <1>4, <1>5 DEF T
<1> QED
  BY <1>6, BoundsAssumption

LEMMA ReadHighestDoes ==
  ASSUME TypeOK, JobsOK, NEW a \in Agents, ReadHighest(a)
  PROVE  Reads(a)
<1> DEFINE j == job[a]
           found(source) == IF source = "mark" THEN {mark} ELSE {i \in Ids : file[i] # Gone}
           highest(source) == CHOOSE n \in found(source) \cup {j.n} :
                                \A m \in found(source) \cup {j.n} : m =< n
           next(source) == [j EXCEPT !.left = @ \ {source}, !.n = highest(source),
                              !.step = IF j.left = {source} THEN "create" ELSE "highest"]
<1>1. j.step = "highest" /\ j \in Jobs /\ j.n \in 0..MaxId /\ j.left \in SUBSET {"files", "mark"}
  BY JobFacts DEF ReadHighest, In, Jobs
<1>2. PICK source \in j.left : job' = [job EXCEPT ![a] = next(source)]
  <2>1. PICK source \in j.left :
          job' = [job EXCEPT ![a].left = @ \ {source}, ![a].n = highest(source),
                             ![a].step = IF j.left = {source} THEN "create" ELSE "highest"]
    BY DEF ReadHighest
  <2> HIDE DEF highest
  <2>2. job' = [job EXCEPT ![a] = next(source)]
    BY <2>1 DEF TypeOK
  <2> QED
    BY <2>2
<1>3. found(source) \cup {j.n} \in SUBSET (0..MaxId)
  BY <1>1, Basics, BoundsAssumption DEF TypeOK, Ids
<1>4. /\ highest(source) \in found(source) \cup {j.n}
      /\ \A m \in found(source) \cup {j.n} : m =< highest(source)
  <2> DEFINE S == found(source) \cup {j.n}
  <2>1. \E n \in S : \A m \in S : m =< n
    BY <1>3, HasHighest
  <2>2. highest(source) = CHOOSE n \in S : \A m \in S : m =< n
    OBVIOUS
  <2> HIDE DEF S
  <2>3. highest(source) \in S /\ \A m \in S : m =< highest(source)
    BY <2>1, <2>2
  <2> QED
    BY <2>3 DEF S
<1>5. PICK n : n = highest(source)
  OBVIOUS
<1>6. n \in 0..MaxId /\ j.n =< n
  BY <1>3, <1>4, <1>5
<1>7. /\ source = "mark" => mark =< n
      /\ source = "files" => \A i \in Ids : file[i] # Gone => i =< n
  BY <1>4, <1>5
<1> HIDE DEF highest
<1>8. next(source) = [j EXCEPT !.left = @ \ {source}, !.n = n,
                        !.step = IF j.left = {source} THEN "create" ELSE "highest"]
  BY <1>5
<1> HIDE DEF j
<1>9. next(source) \in Jobs
  BY <1>1, <1>6, <1>8 DEF Jobs
<1> HIDE DEF next
<1>10. Moves(a, next(source))
  BY <1>2, <1>9, MovesIf
<1>11. UNCHANGED <<file, lock, faults>> /\ Aside
  BY DEF ReadHighest, Aside, data, locks, ghosts, TypeOK
<1>12. Moves(a, [job[a] EXCEPT !.left = @ \ {source}, !.n = n,
                  !.step = IF job[a].left = {source} THEN "create" ELSE "highest"])
  BY <1>8, <1>10 DEF j
<1> QED
  BY <1>1, <1>2, <1>6, <1>7, <1>11, <1>12 DEF Reads, j

Creates(a) ==
  LET i == job[a].n + 1 IN
  /\ job[a].step = "create" /\ i \in Ids
  /\ file' = [file EXCEPT ![i] = New]
  /\ given' = [given EXCEPT ![i] = @ + 1]
  /\ holds' = [holds EXCEPT ![i] = {}]
  /\ done' = done \ {i}
  /\ listLock' = None
  /\ Moves(a, NoJob)
  /\ UNCHANGED <<mark, lock, alive, faults>> /\ jobs' \in 0..MaxJobs

Resets(a) ==
  /\ job[a].step = "reset"
  /\ mark' \in 0..MaxId /\ mark =< mark' /\ \A i \in Ids : file[i] # Gone => i =< mark'
  /\ file' = [i \in Ids |-> Gone]
  /\ holds' = [i \in Ids |-> {}]
  /\ done' = {}
  /\ listLock' = None
  /\ Moves(a, NoJob)
  /\ UNCHANGED <<lock, alive, given>> /\ jobs' \in 0..MaxJobs
  /\ faults \subseteq faults'
  /\ (\E b \in Agents \ {a} : Deleting(b) \/ job[b].step \in {"open", "claimList"}) =>
       "overlap" \in faults'

ReadsMark(a) ==
  /\ job[a].step = "readMark"
  /\ Moves(a, [job[a] EXCEPT !.step = IF job[a].id > mark THEN "writeMark" ELSE "unlink"])
  /\ UNCHANGED <<file, lock>> /\ Aside
  /\ faults \subseteq faults' /\ ((\E b \in Agents : Deleting(b)) => "overlap" \in faults')

WritesMark(a) ==
  /\ job[a].step = "writeMark"
  /\ mark' = job[a].id
  /\ Moves(a, [job[a] EXCEPT !.step = "unlink"])
  /\ UNCHANGED <<file, lock, listLock, alive, holds, given, done, faults>> /\ jobs' \in 0..MaxJobs

Unlinks(a) ==
  LET i == job[a].id IN
  /\ job[a].step = "unlink"
  /\ file' = [file EXCEPT ![i] = Gone]
  /\ \/ file[i] = Gone /\ Moves(a, NoJob)
     \/ file[i] # Gone /\ Moves(a, [job[a] EXCEPT !.step = "sweep"])
  /\ holds' = [holds EXCEPT ![i] = {}]
  /\ done' = done \ {i}
  /\ UNCHANGED <<mark, lock, listLock, alive, given>> /\ jobs' \in 0..MaxJobs
  /\ faults \subseteq faults'
  /\ (lock[i] # None \/ \E b \in Agents : job[b].step = "highest") => "overlap" \in faults'

LEMMA WriteNewDoes ==
  ASSUME TypeOK, NEW a \in Agents, WriteNew(a)
  PROVE  Creates(a)
<1>1. Moves(a, NoJob)
  BY Basics, MovesIf DEF WriteNew, End
<1> QED
  BY <1>1 DEF WriteNew, Creates, In, TypeOK

LEMMA ResetDoes ==
  ASSUME TypeOK, NEW a \in Agents, Reset(a)
  PROVE  Resets(a)
<1> DEFINE S == {0} \cup {i \in Ids : file[i] # Gone}
           highest == CHOOSE n \in Ids \cup {0} :
                        /\ n = 0 \/ file[n] # Gone
                        /\ \A m \in Ids : file[m] # Gone => m =< n
<1>1. S \in SUBSET (0..MaxId) /\ S # {}
  BY BoundsAssumption DEF Ids
<1>2. PICK n \in S : \A m \in S : m =< n
  BY <1>1, HasHighest
<1>3. \E k \in Ids \cup {0} : /\ k = 0 \/ file[k] # Gone
                              /\ \A m \in Ids : file[m] # Gone => m =< k
  BY <1>2
<1>4. highest \in Ids \cup {0} /\ \A m \in Ids : file[m] # Gone => m =< highest
  BY <1>3
<1>5. mark' = IF highest > mark THEN highest ELSE mark
  BY DEF Reset
<1> HIDE DEF highest
<1>6. mark' \in 0..MaxId /\ mark =< mark' /\ \A i \in Ids : file[i] # Gone => i =< mark'
  BY <1>4, <1>5, BoundsAssumption DEF TypeOK, Ids
<1>7. Moves(a, NoJob)
  BY Basics, MovesIf DEF Reset, End
<1> QED
  BY <1>6, <1>7 DEF Reset, Resets, In, Fault, TypeOK

LEMMA ReadMarkDoes ==
  ASSUME TypeOK, NEW a \in Agents, ReadMark(a)
  PROVE  ReadsMark(a)
<1> DEFINE n == [job[a] EXCEPT !.step = IF job[a].id > mark THEN "writeMark" ELSE "unlink"]
<1>1. job[a] \in Jobs
  BY DEF TypeOK
<1>2. n \in Jobs
  BY <1>1 DEF Jobs
<1>3. job' = [job EXCEPT ![a] = n]
  BY DEF ReadMark, Goto, TypeOK
<1>4. Moves(a, n)
  BY <1>2, <1>3, MovesIf
<1> QED
  BY <1>4 DEF ReadMark, ReadsMark, In, Aside, Fault, data, locks, TypeOK

LEMMA WriteMarkDoes ==
  ASSUME TypeOK, NEW a \in Agents, WriteMark(a)
  PROVE  WritesMark(a)
<1> DEFINE n == [job[a] EXCEPT !.step = "unlink"]
<1>1. job[a] \in Jobs
  BY DEF TypeOK
<1>2. n \in Jobs
  BY <1>1 DEF Jobs
<1>3. job' = [job EXCEPT ![a] = n]
  BY DEF WriteMark, Goto, TypeOK
<1>4. Moves(a, n)
  BY <1>2, <1>3, MovesIf
<1> QED
  BY <1>4 DEF WriteMark, WritesMark, In, locks, ghosts, TypeOK

LEMMA UnlinkDoes ==
  ASSUME TypeOK, NEW a \in Agents, Unlink(a)
  PROVE  Unlinks(a)
<1> DEFINE n == [job[a] EXCEPT !.step = "sweep"]
<1>1. job[a] \in Jobs
  BY DEF TypeOK
<1>2. n \in Jobs
  BY <1>1 DEF Jobs
<1>3. \/ file[job[a].id] = Gone /\ job' = [job EXCEPT ![a] = NoJob]
      \/ file[job[a].id] # Gone /\ job' = [job EXCEPT ![a] = n]
  BY DEF Unlink, Goto, End, TypeOK
<1>4. \/ file[job[a].id] = Gone /\ Moves(a, NoJob)
      \/ file[job[a].id] # Gone /\ Moves(a, n)
  BY <1>2, <1>3, Basics, MovesIf
<1> QED
  BY <1>4 DEF Unlink, Unlinks, In, Fault, locks, TypeOK

Sweeps(a) ==
  /\ job[a].step = "sweep"
  /\ \E todo \in Seq(Changes) :
       /\ Moves(a, After(job[a], todo))
       /\ JobOK(a, After(job[a], todo)) /\ After(job[a], todo) \in Jobs
       /\ \A k \in DOMAIN todo :
            LET u == todo[k] IN
            /\ u.id \in Listed /\ u.fields = {"blocks", "blockedBy"} /\ u.base = file[u.id]
            /\ u.val.blocks = u.base.blocks \ {job[a].id}
            /\ u.val.blockedBy = u.base.blockedBy \ {job[a].id}
  /\ UNCHANGED <<file, lock, faults>> /\ Aside

\* A sequence of changes, one of each task that is in order.
LEMMA OrderedChanges ==
  ASSUME NEW S \in SUBSET Ids, NEW order \in Orders(S), NEW u, u \in [S -> Changes],
         \A i \in S : u[i].id = i,
         NEW todo, todo = [k \in DOMAIN order |-> u[order[k]]]
  PROVE  /\ todo \in Seq(Changes)
         /\ \A k \in DOMAIN todo : todo[k].id \in S /\ todo[k] = u[todo[k].id]
         /\ \A k, l \in DOMAIN todo : todo[k].id = todo[l].id => k = l
<1>1. IsFiniteSet(S) /\ Cardinality(S) \in Nat
  <2>1. IsFiniteSet(Ids)
    BY FS_Interval, BoundsAssumption, 1 \in Int DEF Ids
  <2> QED
    BY <2>1, FS_Subset, FS_CardinalityType
<1> DEFINE n == Cardinality(S)
<1>2. /\ order \in [1..n -> S] /\ \A k, l \in 1..n : order[k] = order[l] => k = l
  BY DEF Orders
<1> HIDE DEF n
<1>3. DOMAIN todo = 1..n /\ \A k \in 1..n : todo[k] = u[order[k]] /\ order[k] \in S
  BY <1>2
<1>4. \A k \in 1..n : todo[k] \in Changes /\ todo[k].id = order[k]
  BY <1>3
<1>5. todo \in [1..n -> Changes]
  BY <1>2, <1>4
<1>6. n \in Nat
  BY <1>1 DEF n
<1> QED
  BY <1>2, <1>3, <1>4, <1>5, <1>6

LEMMA SweepDoes ==
  ASSUME TypeOK, JobsOK, NEW a \in Agents, Sweep(a)
  PROVE  Sweeps(a)
<1> DEFINE j == job[a]
           changed == {m \in Listed : j.id \in file[m].blocks \cup file[m].blockedBy}
           without(m) == Update(m, {"blocks", "blockedBy"}, file[m],
                                [file[m] EXCEPT !.blocks = @ \ {j.id}, !.blockedBy = @ \ {j.id}])
           u == [m \in changed |-> without(m)]
<1>1. j.step = "sweep" /\ j \in Jobs /\ j.kind = "delete"
  BY JobFacts DEF Sweep, In
<1>2. changed \in SUBSET Ids
  BY DEF Listed
<1>3. ASSUME NEW m \in changed
      PROVE  /\ u[m] \in Changes /\ u[m].id = m /\ u[m].fields = {"blocks", "blockedBy"}
             /\ u[m].base = file[m]
             /\ u[m].val.blocks = file[m].blocks \ {j.id}
             /\ u[m].val.blockedBy = file[m].blockedBy \ {j.id}
  <2>1. m \in Ids /\ file[m] \in Tasks
    BY <1>2 DEF TypeOK
  <2>2. \A x : \A t \in Tasks :
          LET v == [t EXCEPT !.blocks = @ \ {x}, !.blockedBy = @ \ {x}] IN
          v \in Tasks /\ v.blocks = t.blocks \ {x} /\ v.blockedBy = t.blockedBy \ {x}
    BY DEF Tasks
  <2>3. u[m] = without(m)
    OBVIOUS
  <2> QED
    BY <2>1, <2>2, <2>3 DEF Update, Changes, Fields
<1>4. PICK order \in Orders(changed) : Updates(a, [k \in DOMAIN order |-> without(order[k])])
  BY DEF Sweep
<1> DEFINE todo == [k \in DOMAIN order |-> u[order[k]]]
<1>5. [k \in DOMAIN order |-> without(order[k])] = todo
  BY DEF Orders
<1> HIDE DEF u, changed, todo, j
<1>6. u \in [changed -> Changes] /\ \A m \in changed : u[m].id = m
  BY <1>3 DEF u
<1>7. /\ todo \in Seq(Changes)
      /\ \A k \in DOMAIN todo : todo[k].id \in changed /\ todo[k] = u[todo[k].id]
      /\ \A k, l \in DOMAIN todo : todo[k].id = todo[l].id => k = l
  BY <1>2, <1>6, OrderedChanges DEF todo
<1>8. \A k \in DOMAIN todo : ChangeOK(j.kind, todo[k])
  BY <1>1, <1>3, <1>7 DEF ChangeOK
<1>9. After(j, todo) \in Jobs /\ JobOK(a, After(j, todo))
  BY <1>1, <1>7, <1>8, AfterFacts DEF UpdateKinds
<1>10. job' = [job EXCEPT ![a] = After(j, todo)]
  BY <1>4, <1>5 DEF Updates, After, TypeOK, j
<1>11. Moves(a, After(j, todo))
  BY <1>9, <1>10, MovesIf
<1>12. UNCHANGED <<file, lock, faults>> /\ Aside
  BY DEF Sweep, Aside, data, locks, ghosts, TypeOK
<1>13. \A k \in DOMAIN todo :
         LET c == todo[k] IN
         /\ c.id \in Listed /\ c.fields = {"blocks", "blockedBy"} /\ c.base = file[c.id]
         /\ c.val.blocks = c.base.blocks \ {j.id} /\ c.val.blockedBy = c.base.blockedBy \ {j.id}
  BY <1>3, <1>7 DEF changed
<1> QED
  BY <1>1, <1>7, <1>9, <1>11, <1>12, <1>13 DEF Sweeps, j

Exits(a) ==
  /\ alive[a] /\ alive' = [alive EXCEPT ![a] = FALSE]
  /\ Moves(a, NoJob)
  /\ holds' = [i \in Ids |-> holds[i] \ {a}]
  /\ UNCHANGED <<file, mark, lock, listLock, given, done>> /\ jobs' \in 0..MaxJobs
  /\ faults \subseteq faults' /\ (job[a] # NoJob => "died" \in faults')

LEMMA ExitDoes ==
  ASSUME TypeOK, NEW a \in Agents, Exit(a)
  PROVE  Exits(a)
<1>1. Moves(a, NoJob)
  BY Basics, MovesIf DEF Exit, End
<1> QED
  BY <1>1 DEF Exit, Exits, Fault, data, locks, TypeOK

-----------------------------------------------------------------------------
(* How a job begins.                                                       *)

NewJob(kind, step, i, todo) ==
  [NoJob EXCEPT !.kind = kind, !.step = step, !.id = i, !.todo = todo]

BegunKinds == {"claim", "finish", "block", "unassign", "create", "delete", "reset"}
BegunSteps == {"claim", "update", "listLock", "readMark"}
BegunIds == Ids \cup {0}

LEMMA NewJobFacts ==
  ASSUME NEW kind \in BegunKinds, NEW step \in BegunSteps,
         NEW i \in BegunIds, NEW todo \in Seq(Changes)
  PROVE  LET j == NewJob(kind, step, i, todo) IN
         /\ j \in Jobs /\ j.kind = kind /\ j.step = step /\ j.id = i /\ j.todo = todo
         /\ j.seen = Gone
<1>1. Gone \in Tasks /\ <<>> \in Seq(Changes) /\ 0 \in 0..MaxId
  BY Basics, BoundsAssumption
<1> QED
  BY <1>1 DEF NewJob, NoJob, Jobs, BegunKinds, BegunSteps, BegunIds

LEMMA BeginDoes ==
  ASSUME TypeOK, NEW a \in Agents,
         NEW kind \in BegunKinds, NEW step \in BegunSteps,
         NEW i \in BegunIds, NEW todo \in Seq(Changes), Begin(a, kind, step, i, todo),
         JobOK(a, NewJob(kind, step, i, todo)), BeginsWith(NewJob(kind, step, i, todo)),
         \A k \in DOMAIN todo :
           /\ todo[k].id \in Listed /\ todo[k].base = file[todo[k].id]
           /\ todo[k].val.blocks \subseteq todo[k].base.blocks \cup Listed
           /\ todo[k].val.blockedBy \subseteq todo[k].base.blockedBy \cup Listed
  PROVE  \E j \in Jobs : Begins(a, j)
<1> DEFINE j == NewJob(kind, step, i, todo)
<1>1. /\ j \in Jobs /\ j.kind = kind /\ j.step = step /\ j.id = i /\ j.todo = todo
      /\ j.seen = Gone
  BY NewJobFacts
<1>2. job' = [job EXCEPT ![a] = j]
  BY DEF Begin, NewJob, TypeOK
<1>3. JobOK(a, j) /\ BeginsWith(j)
  OBVIOUS
<1> HIDE DEF j
<1>4. Moves(a, j)
  BY <1>1, <1>2, MovesIf
<1>5. alive[a] /\ job[a] = NoJob /\ UNCHANGED <<file, lock, faults>> /\ Aside
  BY BoundsAssumption DEF Begin, Aside, data, locks, ghosts, TypeOK
<1>6. Begins(a, j)
  BY <1>1, <1>3, <1>4, <1>5 DEF Begins, BegunSteps
<1> QED
  BY <1>1, <1>6

LEMMA OneChange ==
  ASSUME NEW u \in Changes
  PROVE  /\ <<u>> \in Seq(Changes) /\ Len(<<u>>) = 1 /\ DOMAIN <<u>> = {1} /\ <<u>>[1] = u
         /\ <<u>> # <<>> /\ Head(<<u>>) = u
  OBVIOUS

LEMMA TwoChanges ==
  ASSUME NEW u \in Changes, NEW v \in Changes
  PROVE  /\ <<u, v>> \in Seq(Changes) /\ Len(<<u, v>>) = 2 /\ DOMAIN <<u, v>> = {1, 2}
         /\ <<u, v>>[1] = u /\ <<u, v>>[2] = v /\ <<u, v>> # <<>>
  OBVIOUS

\* A job without changes begins.
LEMMA PlainBegins ==
  ASSUME TypeOK, NEW a \in Agents, Find(a) \/ Create(a) \/ Delete(a) \/ Clear(a)
  PROVE  \E j \in Jobs : Begins(a, j)
<1>1. PICK kind \in {"claim", "create", "delete", "reset"},
           step \in {"claim", "listLock", "readMark"}, i \in BegunIds :
        /\ Begin(a, kind, step, i, <<>>)
        /\ \/ kind = "claim" /\ step = "claim" /\ i \in Listed
           \/ kind = "delete" /\ step = "readMark" /\ i \in Listed
           \/ kind \in {"create", "reset"} /\ step = "listLock" /\ i = 0
  BY DEF Find, Create, Delete, Clear, Listed, BegunIds
<1>e. PICK todo \in Seq(Changes) : todo = <<>>
  BY EmptySeq
<1> DEFINE j == NewJob(kind, step, i, todo)
<1>k. kind \in BegunKinds /\ step \in BegunSteps
  BY <1>1 DEF BegunKinds, BegunSteps
<1>2. j.kind = kind /\ j.step = step /\ j.id = i /\ j.todo = todo
  BY <1>k, NewJobFacts
<1>3. i \in Listed => i \in Ids
  BY DEF Listed
<1>4. JobOK(a, j) /\ BeginsWith(j)
  <2> HIDE DEF j
  <2> QED
    BY <1>1, <1>e, <1>2, <1>3 DEF JobOK, BeginsWith
<1>5. Begin(a, kind, step, i, todo) /\ DOMAIN todo = {}
  BY <1>1, <1>e
<1>6. \A k \in DOMAIN todo :
        /\ todo[k].id \in Listed /\ todo[k].base = file[todo[k].id]
        /\ todo[k].val.blocks \subseteq todo[k].base.blocks \cup Listed
        /\ todo[k].val.blockedBy \subseteq todo[k].base.blockedBy \cup Listed
  BY <1>5
<1> QED
  BY <1>k, <1>4, <1>5, <1>6, BeginDoes

\* The tasks with one field changed.
LEMMA TaskFields ==
  ASSUME NEW t \in Tasks, NEW s \in SUBSET Ids
  PROVE  /\ t.owner \in Agents \cup {None} /\ t.blocks \in SUBSET Ids /\ t.blockedBy \in SUBSET Ids
         /\ t.status \in Open \cup {"completed", "gone", "torn"}
         /\ LET c == [t EXCEPT !.status = "completed"] IN
            c \in Tasks /\ c.status = "completed" /\ c.blocks = t.blocks /\ c.blockedBy = t.blockedBy
         /\ LET c == [t EXCEPT !.blocks = s] IN
            c \in Tasks /\ c.blocks = s /\ c.blockedBy = t.blockedBy
         /\ LET c == [t EXCEPT !.blockedBy = s] IN
            c \in Tasks /\ c.blocks = t.blocks /\ c.blockedBy = s
         /\ LET c == [t EXCEPT !.owner = None, !.status = "pending"] IN
            /\ c \in Tasks /\ c.owner = None /\ c.status = "pending"
            /\ c.blocks = t.blocks /\ c.blockedBy = t.blockedBy
  BY DEF Tasks, Open

LEMMA FinishBegins ==
  ASSUME TypeOK, NEW a \in Agents, Finish(a)
  PROVE  \E j \in Jobs : Begins(a, j)
<1>1. PICK i \in Unresolved :
        Begin(a, "finish", "update", i,
              <<Update(i, {"status"}, file[i], [file[i] EXCEPT !.status = "completed"])>>)
  BY DEF Finish
<1> DEFINE u == Update(i, {"status"}, file[i], [file[i] EXCEPT !.status = "completed"])
<1>2. i \in Ids /\ i \in Listed /\ file[i] \in Tasks
  BY DEF Unresolved, Listed, TypeOK
<1>3. /\ u \in Changes /\ u.id = i /\ u.fields = {"status"} /\ u.base = file[i]
      /\ u.val.status = "completed"
      /\ u.val.blocks = file[i].blocks /\ u.val.blockedBy = file[i].blockedBy
  BY <1>2, TaskFields DEF Update, Changes, Fields
<1> HIDE DEF u
<1>e. PICK todo \in Seq(Changes) : todo = <<u>>
  BY <1>3, OneChange
<1> DEFINE j == NewJob("finish", "update", i, todo)
<1>k. "finish" \in BegunKinds /\ "update" \in BegunSteps /\ i \in BegunIds
  BY <1>2 DEF BegunKinds, BegunSteps, BegunIds
<1>4. j.kind = "finish" /\ j.step = "update" /\ j.id = i /\ j.todo = todo
  BY <1>k, NewJobFacts
<1> HIDE DEF j
<1>5. DOMAIN todo = {1} /\ todo[1] = u /\ todo # <<>>
  BY <1>3, <1>e, OneChange
<1>6. JobOK(a, j)
  BY <1>3, <1>4, <1>5 DEF JobOK, ChangeOK
<1>7. BeginsWith(j)
  BY <1>2, <1>3, <1>4, <1>5 DEF BeginsWith
<1>8. Begin(a, "finish", "update", i, todo)
  BY <1>1, <1>e DEF u
<1>9. \A k \in DOMAIN todo :
        /\ todo[k].id \in Listed /\ todo[k].base = file[todo[k].id]
        /\ todo[k].val.blocks \subseteq todo[k].base.blocks \cup Listed
        /\ todo[k].val.blockedBy \subseteq todo[k].base.blockedBy \cup Listed
  BY <1>2, <1>3, <1>5
<1> QED
  BY <1>k, <1>6, <1>7, <1>8, <1>9, BeginDoes DEF j

LEMMA BlockBegins ==
  ASSUME TypeOK, NEW a \in Agents, Block(a)
  PROVE  \E j \in Jobs : Begins(a, j)
<1> DEFINE first(m, n) == Update(m, {"blocks"}, file[m], [file[m] EXCEPT !.blocks = @ \cup {n}])
           second(m, n) == Update(n, {"blockedBy"}, file[n], [file[n] EXCEPT !.blockedBy = @ \cup {m}])
<1>1. PICK m \in Listed, n \in Listed :
        /\ m < n /\ n \notin file[m].blocks
        /\ Begin(a, "block", "update", m,
                 IF m \in file[n].blockedBy THEN <<first(m, n)>> ELSE <<first(m, n), second(m, n)>>)
  BY DEF Block
<1>2. m \in Ids /\ n \in Ids /\ file[m] \in Tasks /\ file[n] \in Tasks /\ m # n
  BY <1>1, Basics DEF Listed, TypeOK
<1>3. /\ first(m, n) \in Changes /\ BlocksChange(first(m, n), m, n)
      /\ first(m, n).base = file[m] /\ first(m, n).val.blockedBy = file[m].blockedBy
  <2>1. \A t \in Tasks : LET c == [t EXCEPT !.blocks = @ \cup {n}] IN
          c \in Tasks /\ c.blocks = t.blocks \cup {n} /\ c.blockedBy = t.blockedBy
    BY <1>2 DEF Tasks
  <2> QED
    BY <1>2, <2>1 DEF Update, Changes, Fields, BlocksChange
<1>4. /\ second(m, n) \in Changes /\ BlockedChange(second(m, n), m, n)
      /\ second(m, n).base = file[n] /\ second(m, n).val.blocks = file[n].blocks
  <2>1. \A t \in Tasks : LET c == [t EXCEPT !.blockedBy = @ \cup {m}] IN
          c \in Tasks /\ c.blockedBy = t.blockedBy \cup {m} /\ c.blocks = t.blocks
    BY <1>2 DEF Tasks
  <2> QED
    BY <1>2, <2>1 DEF Update, Changes, Fields, BlockedChange
<1> PICK u \in Changes : u = first(m, n)
  BY <1>3
<1> PICK v \in Changes : v = second(m, n)
  BY <1>4
<1> HIDE DEF first, second
<1>5. PICK todo : todo = IF m \in file[n].blockedBy THEN <<u>> ELSE <<u, v>>
  OBVIOUS
<1>6. /\ todo \in Seq(Changes) /\ todo # <<>>
      /\ \A k \in DOMAIN todo : todo[k] \in {u, v}
      /\ \A k, l \in DOMAIN todo : todo[k].id = todo[l].id => k = l
      /\ \/ Len(todo) = 2 /\ todo[1] = u /\ todo[2] = v
         \/ Len(todo) = 1 /\ todo[1] = u /\ m \in file[n].blockedBy
  <2>1. u.id # v.id
    BY <1>2, <1>3, <1>4 DEF BlocksChange, BlockedChange
  <2> QED
    BY <1>5, <2>1, OneChange, TwoChanges
<1> DEFINE j == NewJob("block", "update", m, todo)
<1>k. "block" \in BegunKinds /\ "update" \in BegunSteps /\ m \in BegunIds
  BY <1>2 DEF BegunKinds, BegunSteps, BegunIds
<1>7. j.kind = "block" /\ j.step = "update" /\ j.id = m /\ j.todo = todo
  BY <1>k, <1>6, NewJobFacts
<1> HIDE DEF j
<1>8. \A k \in DOMAIN todo :
        /\ todo[k].id \in Listed /\ todo[k].base = file[todo[k].id]
        /\ todo[k].val.blocks \subseteq todo[k].base.blocks \cup Listed
        /\ todo[k].val.blockedBy \subseteq todo[k].base.blockedBy \cup Listed
  BY <1>3, <1>4, <1>6 DEF BlocksChange, BlockedChange
<1>9. \A k \in DOMAIN todo : ChangeOK("block", todo[k])
  BY <1>3, <1>4, <1>6 DEF BlocksChange, BlockedChange, ChangeOK
<1>10. JobOK(a, j)
  BY <1>6, <1>7, <1>9 DEF JobOK
<1>11. BeginsWith(j)
  BY <1>1, <1>2, <1>3, <1>4, <1>6, <1>7 DEF BeginsWith
<1>12. Begin(a, "block", "update", m, todo)
  BY <1>1, <1>3, <1>4, <1>5
<1> QED
  BY <1>k, <1>6, <1>8, <1>10, <1>11, <1>12, BeginDoes DEF j

LEMMA UnassignBegins ==
  ASSUME TypeOK, NEW a \in Agents, Unassign(a)
  PROVE  \E j \in Jobs : Begins(a, j)
<1> DEFINE owned(b) == {i \in Unresolved : file[i].owner = b}
           release(i) == Update(i, {"owner", "status"}, file[i],
                                [file[i] EXCEPT !.owner = None, !.status = "pending"])
<1>1. PICK b \in Agents, order \in Seq(Ids) \cup UNION {Orders(S) : S \in SUBSET Ids} :
        /\ \A c \in Agents : job[c].kind # "unassign"
        /\ ~alive[b] /\ owned(b) # {} /\ order \in Orders(owned(b))
        /\ Begin(a, "unassign", "update", 0, [k \in DOMAIN order |-> release(order[k])])
  BY DEF Unassign, Unresolved, Listed
<1> DEFINE S == owned(b)
           u == [i \in S |-> release(i)]
           todo == [k \in DOMAIN order |-> u[order[k]]]
           j == NewJob("unassign", "update", 0, todo)
<1>2. S \in SUBSET Ids /\ S # {}
  BY <1>1 DEF Unresolved, Listed
<1>3. ASSUME NEW i \in S
      PROVE  /\ i \in Listed /\ file[i].owner = b /\ file[i].status # "completed"
             /\ u[i] \in Changes /\ u[i].id = i /\ u[i].fields = {"owner", "status"}
             /\ u[i].base = file[i] /\ u[i].val.owner = None /\ u[i].val.status = "pending"
             /\ u[i].val.blocks = file[i].blocks /\ u[i].val.blockedBy = file[i].blockedBy
  <2>1. i \in Ids /\ file[i] \in Tasks /\ u[i] = release(i)
    BY <1>2 DEF TypeOK
  <2> QED
    BY <2>1, TaskFields DEF Update, Changes, Fields, Unresolved
<1>4. todo = [k \in DOMAIN order |-> release(order[k])]
  BY <1>1 DEF Orders
<1>5. Begin(a, "unassign", "update", 0, todo)
  BY <1>1, <1>4
<1>6. order \in Orders(S)
  BY <1>1
<1>7. todo # <<>>
  <2> HIDE DEF S
  <2>0. IsFiniteSet(Ids)
    BY FS_Interval, BoundsAssumption, 1 \in Int DEF Ids
  <2>1. IsFiniteSet(S)
    BY <1>2, <2>0, FS_Subset
  <2>2. Cardinality(S) \in Nat \ {0}
    BY <1>2, <2>1, FS_CardinalityType, FS_EmptySet
  <2>3. DOMAIN todo = 1..Cardinality(S)
    BY <1>6 DEF Orders
  <2>4. 1 \in DOMAIN todo
    BY <2>2, <2>3
  <2> HIDE DEF todo
  <2>5. todo = <<>> => DOMAIN todo = {}
    OBVIOUS
  <2> QED
    BY <2>4, <2>5
<1>8. u \in [S -> Changes] /\ \A i \in S : u[i].id = i
  BY <1>3
<1> HIDE DEF S, u, j
<1>9. /\ todo \in Seq(Changes)
      /\ \A k \in DOMAIN todo : todo[k].id \in S /\ todo[k] = u[todo[k].id]
      /\ \A k, l \in DOMAIN todo : todo[k].id = todo[l].id => k = l
  BY <1>2, <1>6, <1>8, OrderedChanges
<1> HIDE DEF todo
<1>k. "unassign" \in BegunKinds /\ "update" \in BegunSteps /\ 0 \in BegunIds
  BY DEF BegunKinds, BegunSteps, BegunIds
<1>10. j.kind = "unassign" /\ j.step = "update" /\ j.id = 0 /\ j.todo = todo
  BY <1>k, <1>9, NewJobFacts DEF j
<1>11. \A k \in DOMAIN todo :
         /\ todo[k].id \in Listed /\ todo[k].base = file[todo[k].id]
         /\ todo[k].val.blocks \subseteq todo[k].base.blocks \cup Listed
         /\ todo[k].val.blockedBy \subseteq todo[k].base.blockedBy \cup Listed
  BY <1>3, <1>9
<1>12. \A k \in DOMAIN todo : ChangeOK("unassign", todo[k])
  BY <1>3, <1>9 DEF ChangeOK
<1>13. JobOK(a, j)
  BY <1>7, <1>9, <1>10, <1>12 DEF JobOK
<1>14. BeginsWith(j)
  <2>1. \A k \in DOMAIN todo :
          /\ todo[k].id \in Listed /\ file[todo[k].id].owner = b
          /\ file[todo[k].id].status # "completed"
    BY <1>3, <1>9
  <2>2. ~alive[b] /\ \A c \in Agents : job[c].kind # "unassign"
    BY <1>1
  <2> QED
    BY <1>10, <2>1, <2>2 DEF BeginsWith
<1> QED
  BY <1>k, <1>5, <1>9, <1>11, <1>13, <1>14, BeginDoes DEF j

Does(a) ==
  \/ \E j \in Jobs : Begins(a, j)
  \/ Skips(a) \/ TakesLock(a) \/ GivesUp(a) \/ Opens(a) \/ Writes(a)
  \/ ClaimStarts(a) \/ ClaimReads(a) \/ ClaimsGone(a)
  \/ ListLocks(a) \/ Reads(a) \/ Creates(a) \/ Resets(a)
  \/ ReadsMark(a) \/ WritesMark(a) \/ Unlinks(a) \/ Sweeps(a) \/ Exits(a)

LEMMA StepCases ==
  ASSUME TypeOK, JobsOK, LocksOK, Next
  PROVE  \E a \in Agents : Does(a)
<1>1. PICK a \in Agents : Job(a) \/ Step(a) \/ Exit(a)
  BY DEF Next
<1>2. Job(a) => \E j \in Jobs : Begins(a, j)
  BY PlainBegins, FinishBegins, BlockBegins, UnassignBegins DEF Job
<1>3. Step(a) => \/ Skips(a) \/ TakesLock(a) \/ GivesUp(a) \/ Opens(a) \/ Writes(a)
                 \/ ClaimStarts(a) \/ ClaimReads(a) \/ ClaimsGone(a)
                 \/ ListLocks(a) \/ Reads(a) \/ Creates(a) \/ Resets(a)
                 \/ ReadsMark(a) \/ WritesMark(a) \/ Unlinks(a) \/ Sweeps(a)
  BY LockDoes, OpenFileDoes, WriteDoes, ClaimLockDoes, ClaimListDoes, ListLockDoes,
     ReadHighestDoes, WriteNewDoes, ResetDoes, ReadMarkDoes, WriteMarkDoes, UnlinkDoes,
     SweepDoes DEF Step
<1> QED
  BY <1>1, <1>2, <1>3, ExitDoes DEF Does

-----------------------------------------------------------------------------
(* What holds whatever gets into the way of a job is kept.                 *)

LEMMA TypeStep ==
  ASSUME TypeOK, JobsOK, LocksOK, NEW a \in Agents, Does(a), faults' \subseteq faults \cup
           {"missed", "stale", "late", "blind", "overlap", "died"}
  PROVE  TypeOK'
<1>1. /\ file[job[a].id] \in Tasks \/ job[a].id = 0
      /\ job[a] \in Jobs /\ job[a].id \in Ids \cup {0}
      /\ alive[a] \in BOOLEAN
  BY DEF TypeOK, Jobs
<1>2. job' \in [Agents -> Jobs]
  BY DEF Does, Begins, Skips, TakesLock, GivesUp, Opens, Writes, WritesOther, WritesClaim,
         ClaimStarts, ClaimReads, ClaimsGone, ListLocks, Reads, Creates, Resets, ReadsMark,
         WritesMark, Unlinks, Sweeps, Exits, Moves
<1>3. jobs' \in 0..MaxJobs
  BY DEF Does, Begins, Skips, TakesLock, GivesUp, Opens, Writes, ClaimStarts, ClaimReads,
         ClaimsGone, ListLocks, Reads, Creates, Resets, ReadsMark, WritesMark, Unlinks, Sweeps,
         Exits, Aside
<1>4. file' \in [Ids -> Tasks]
  <2>1. CASE Opens(a)
    BY <2>1, Basics DEF Opens, TypeOK
  <2>2. CASE Writes(a)
    <3>1. Written(a) \in Tasks
      BY <2>2, WrittenFacts DEF Writes
    <3> QED
      BY <2>2, <3>1, Basics DEF Writes, TypeOK
  <2>3. CASE Creates(a) \/ Resets(a) \/ Unlinks(a)
    BY <2>3, Basics DEF Creates, Resets, Unlinks, TypeOK
  <2> QED
    BY <2>1, <2>2, <2>3 DEF Does, Begins, Skips, TakesLock, GivesUp, ClaimStarts, ClaimReads,
       ClaimsGone, ListLocks, Reads, ReadsMark, WritesMark, Sweeps, Exits, TypeOK
<1>5. mark' \in 0..MaxId
  <2>1. CASE WritesMark(a)
    BY <1>1, <2>1, BoundsAssumption DEF WritesMark, Ids
  <2> QED
    BY <2>1 DEF Does, Begins, Skips, TakesLock, GivesUp, Opens, Writes, ClaimStarts, ClaimReads,
       ClaimsGone, ListLocks, Reads, Creates, Resets, ReadsMark, Unlinks, Sweeps, Exits, Aside,
       TypeOK
<1>6. listLock' \in Agents \cup {None}
  BY DEF Does, Begins, Skips, TakesLock, GivesUp, Opens, Writes, ClaimStarts, ClaimReads,
     ClaimsGone, ListLocks, Reads, Creates, Resets, ReadsMark, WritesMark, Unlinks, Sweeps,
     Exits, Aside, TypeOK
<1>7. lock' \in [Ids -> Agents \cup {None}]
  <2>1. CASE TakesLock(a) \/ GivesUp(a) \/ Writes(a) \/ ClaimStarts(a) \/ ClaimsGone(a)
    BY <2>1 DEF TakesLock, GivesUp, Writes, ClaimStarts, ClaimsGone, TypeOK
  <2>2. CASE UNCHANGED lock
    BY <2>2 DEF TypeOK
  <2> QED
    BY <2>1, <2>2 DEF Does, Begins, Skips, Opens, ClaimReads, ListLocks, Reads, Creates, Resets,
       ReadsMark, WritesMark, Unlinks, Sweeps, Exits
<1>8. alive' \in [Agents -> BOOLEAN]
  BY DEF Does, Begins, Skips, TakesLock, GivesUp, Opens, Writes, ClaimStarts, ClaimReads,
     ClaimsGone, ListLocks, Reads, Creates, Resets, ReadsMark, WritesMark, Unlinks, Sweeps,
     Exits, Aside, TypeOK
<1>9. holds' \in [Ids -> SUBSET Agents]
  <2>1. CASE Writes(a)
    BY <2>1 DEF Writes, WritesOther, WritesClaim, TypeOK
  <2>2. CASE ClaimsGone(a) \/ Creates(a) \/ Resets(a) \/ Unlinks(a) \/ Exits(a)
    BY <2>2 DEF ClaimsGone, Creates, Resets, Unlinks, Exits, TypeOK
  <2> QED
    BY <2>1, <2>2 DEF Does, Begins, Skips, TakesLock, GivesUp, Opens, ClaimStarts, ClaimReads,
       ListLocks, Reads, ReadsMark, WritesMark, Sweeps, Aside, TypeOK
<1>10. given' \in [Ids -> Nat]
  <2>1. CASE Creates(a)
    BY <2>1 DEF Creates, TypeOK
  <2>2. CASE UNCHANGED given
    BY <2>2 DEF TypeOK
  <2> QED
    BY <2>1, <2>2 DEF Does, Begins, Skips, TakesLock, GivesUp, Opens, Writes, ClaimStarts,
       ClaimReads, ClaimsGone, ListLocks, Reads, Resets, ReadsMark, WritesMark, Unlinks, Sweeps,
       Exits, Aside
<1>11. done' \subseteq Ids
  <2>1. CASE Writes(a)
    <3>1. job[a].id \in Ids
      BY <2>1, JobFacts DEF Writes
    <3> QED
      BY <2>1, <3>1 DEF Writes, TypeOK
  <2> QED
    BY <2>1 DEF Does, Begins, Skips, TakesLock, GivesUp, Opens, ClaimStarts, ClaimReads,
       ClaimsGone, ListLocks, Reads, Creates, Resets, ReadsMark, WritesMark, Unlinks, Sweeps,
       Exits, Aside, TypeOK
<1>12. faults' \subseteq {"missed", "stale", "late", "blind", "overlap", "died"}
  BY DEF TypeOK
<1> QED
  BY <1>2, <1>3, <1>4, <1>5, <1>6, <1>7, <1>8, <1>9, <1>10, <1>11, <1>12 DEF TypeOK

KnowsThen(t) == \A i \in t.blocks \cup t.blockedBy : given'[i] >= 1

\* The step of a in which its job becomes n respects the locks, and knows what it names.
Keeps(a, n) ==
  /\ Moves(a, n) /\ JobOK(a, n) /\ (n # NoJob => alive[a])
  /\ \A b \in Agents : alive'[b] = alive[b] \/ (b = a /\ n = NoJob)
  /\ \A i \in Ids : lock'[i] = lock[i] \/ lock[i] = a \/ Free(lock[i])
  /\ listLock' = listLock \/ listLock = a \/ Free(listLock)
  /\ n.step \in LockSteps => lock'[n.id] = a
  /\ n.step \in {"highest", "create", "reset"} => listLock' = a
  /\ \A i \in Ids :
       \/ file'[i] = file[i] \/ file'[i] = Gone
       \/ file'[i] = Torn /\ job[a].step = "open" /\ job[a].id = i
       \/ file'[i].status \in Kept /\ given'[i] >= 1 /\ KnowsThen(file'[i])
  /\ n.step \in {"claimList", "open"} => file'[n.id] # Torn
  /\ \A i \in Ids : Known(i) => given'[i] >= 1
  /\ n.id # 0 => given'[n.id] >= 1
  /\ KnowsThen(n.seen)
  /\ \A k \in DOMAIN n.todo : given'[n.todo[k].id] >= 1 /\ KnowsThen(n.todo[k].val)

LEMMA Busy ==
  ASSUME BaseInv, NEW a \in Agents, job[a].step # "none"
  PROVE  alive[a] /\ job[a] \in Jobs /\ JobOK(a, job[a])
<1>1. job[a] # NoJob
  BY DEF NoJob
<1> QED
  BY <1>1 DEF BaseInv, JobsOK, TypeOK

LEMMA Locked ==
  ASSUME BaseInv, NEW a \in Agents, job[a].step \in LockSteps
  PROVE  job[a].id \in Ids /\ lock[job[a].id] = a
<1>1. job[a].id \in Ids
  BY JobFacts DEF BaseInv, LockSteps
<1> QED
  BY <1>1 DEF BaseInv, LocksOK

LEMMA KeepsFrame ==
  ASSUME BaseInv, TypeOK', NEW a \in Agents, NEW n \in Jobs, Keeps(a, n)
  PROVE  BaseInv'
<1> USE DEF BaseInv
<1>1. job'[a] = n /\ \A b \in Agents : b # a => job'[b] = job[b]
  BY DEF Keeps, Moves
<1>2. ASSUME NEW b \in Agents, b # a, job[b].step # "none"
      PROVE  alive[b] /\ alive'[b] = alive[b] /\ b # None /\ ~Free(b)
  BY <1>2, Basics, JobFacts DEF JobsOK, NoJob, Free, Stale, Keeps, TypeOK
<1>3. JobsOK'
  BY <1>1 DEF JobsOK, Keeps
<1>4. ASSUME NEW b \in Agents
      PROVE  /\ job'[b].step \in LockSteps => lock'[job'[b].id] = b
             /\ job'[b].step \in {"highest", "create", "reset"} => listLock' = b
  <2>1. CASE b = a
    BY <1>1, <2>1 DEF Keeps
  <2>2. CASE b # a /\ job[b].step \in LockSteps
    <3>1. job[b].id \in Ids /\ lock[job[b].id] = b /\ ~Free(b)
      BY <1>2, <2>2, JobFacts DEF LocksOK, LockSteps
    <3> QED
      BY <1>1, <2>2, <3>1 DEF Keeps, LockSteps
  <2>3. CASE b # a /\ job[b].step \in {"highest", "create", "reset"}
    <3>1. listLock = b /\ ~Free(b)
      BY <1>2, <2>3 DEF LocksOK
    <3> QED
      BY <1>1, <2>3, <3>1 DEF Keeps, LockSteps
  <2> QED
    BY <1>1, <2>1, <2>2, <2>3
<1>5. LocksOK'
  BY <1>4 DEF LocksOK
<1>6. ASSUME NEW i \in Ids, file'[i].status \in {"gone", "torn"}
      PROVE  file'[i] \in {Gone, Torn}
  BY <1>6 DEF FilesOK, Readable, Keeps, Kept, Open
<1>7. ASSUME NEW b \in Agents, job'[b].step \in {"claimList", "open"}
      PROVE  file'[job'[b].id] # Torn
  <2>1. CASE b = a
    BY <1>1, <1>7, <2>1 DEF Keeps
  <2>2. CASE b # a
    <3>1. job'[b] = job[b] /\ job[b].id \in Ids /\ lock[job[b].id] = b /\ file[job[b].id] # Torn
      BY <1>1, <1>7, <2>2, JobFacts DEF LocksOK, LockSteps, FilesOK
    <3>2. job[a].step = "open" => lock[job[a].id] = a
      BY DEF LocksOK, LockSteps
    <3>3. Gone # Torn /\ Torn.status \notin Kept
      BY Basics DEF Kept, Open
    <3> QED
      BY <2>2, <3>1, <3>2, <3>3 DEF Keeps
  <2> QED
    BY <2>1, <2>2
<1>8. FilesOK'
  BY <1>6, <1>7 DEF FilesOK, Readable
<1>9. ASSUME NEW t \in Tasks, KnowsOnly(t)
      PROVE  KnowsThen(t)
  BY <1>9 DEF KnowsOnly, KnowsThen, Keeps, Tasks, Known
<1>10. ASSUME NEW i \in Ids
       PROVE  (file'[i] # Gone => given'[i] >= 1) /\ KnowsThen(file'[i])
  <2>1. file[i] \in Tasks /\ KnowsOnly(file[i]) /\ (file[i] # Gone => Known(i))
    BY DEF TypeOK, KnownOK
  <2>2. KnowsThen(Gone) /\ KnowsThen(Torn)
    BY Basics DEF KnowsThen
  <2>3. job[a].step = "open" /\ job[a].id = i => Known(i)
    BY Basics DEF KnownOK
  <2> QED
    BY <1>9, <2>1, <2>2, <2>3 DEF Keeps, Known
<1>11. ASSUME NEW b \in Agents
       PROVE  /\ job'[b].id # 0 => given'[job'[b].id] >= 1
              /\ KnowsThen(job'[b].seen)
              /\ \A k \in DOMAIN job'[b].todo :
                   given'[job'[b].todo[k].id] >= 1 /\ KnowsThen(job'[b].todo[k].val)
  <2>1. CASE b = a
    BY <1>1, <2>1 DEF Keeps
  <2>2. CASE b # a
    <3>1. job[b] \in Jobs /\ job[b].seen \in Tasks /\ job[b].id \in Ids \cup {0}
      BY DEF TypeOK, Jobs
    <3>2. ASSUME NEW k \in DOMAIN job[b].todo
          PROVE  job[b].todo[k].val \in Tasks /\ job[b].todo[k].id \in Ids
      <4>1. job[b].todo \in Seq(Changes)
        BY <3>1 DEF Jobs
      <4>2. job[b].todo[k] \in Changes
        BY <4>1, ElementOfSeq, LenProperties
      <4> QED
        BY <4>2 DEF Changes
    <3> QED
      BY <1>1, <1>9, <2>2, <3>1, <3>2 DEF KnownOK, Keeps, Known
  <2> QED
    BY <2>1, <2>2
<1>12. KnownOK'
  BY <1>10, <1>11 DEF KnownOK, Known, KnowsOnly, KnowsThen
<1> QED
  BY <1>3, <1>5, <1>8, <1>12

\* What was known stays known.
LEMMA StillKnown ==
  ASSUME BaseInv, \A i \in Ids : Known(i) => given'[i] >= 1
  PROVE  /\ \A i \in Ids : (file[i] # Gone => given'[i] >= 1) /\ KnowsThen(file[i])
         /\ KnowsThen(Gone)
         /\ NoJob.id = 0 /\ KnowsThen(NoJob.seen) /\ DOMAIN NoJob.todo = {}
         /\ NoJob.step = "none"
         /\ \A a \in Agents :
              /\ job[a].id # 0 => given'[job[a].id] >= 1
              /\ KnowsThen(job[a].seen)
              /\ \A k \in DOMAIN job[a].todo :
                   given'[job[a].todo[k].id] >= 1 /\ KnowsThen(job[a].todo[k].val)
<1>1. ASSUME NEW t \in Tasks, KnowsOnly(t)
      PROVE  KnowsThen(t)
  BY <1>1 DEF KnowsOnly, KnowsThen, Tasks, Known
<1>2. \A i \in Ids : file[i] \in Tasks /\ KnowsOnly(file[i]) /\ (file[i] # Gone => Known(i))
  BY DEF BaseInv, TypeOK, KnownOK
<1>3. ASSUME NEW a \in Agents
      PROVE  /\ job[a].id # 0 => given'[job[a].id] >= 1
             /\ KnowsThen(job[a].seen)
             /\ \A k \in DOMAIN job[a].todo :
                  given'[job[a].todo[k].id] >= 1 /\ KnowsThen(job[a].todo[k].val)
  <2>1. job[a] \in Jobs /\ job[a].seen \in Tasks /\ job[a].id \in Ids \cup {0}
    BY DEF BaseInv, TypeOK, Jobs
  <2>2. ASSUME NEW k \in DOMAIN job[a].todo
        PROVE  job[a].todo[k].val \in Tasks /\ job[a].todo[k].id \in Ids
    <3>1. job[a].todo \in Seq(Changes)
      BY <2>1 DEF Jobs
    <3>2. job[a].todo[k] \in Changes
      BY <3>1, ElementOfSeq, LenProperties
    <3> QED
      BY <3>2 DEF Changes
  <2> QED
    BY <1>1, <2>1, <2>2 DEF BaseInv, KnownOK, Known
<1>4. KnowsThen(Gone)
  BY Basics DEF KnowsThen
<1>5. NoJob.id = 0 /\ NoJob.seen = Gone /\ DOMAIN NoJob.todo = {} /\ NoJob.step = "none"
  BY DEF NoJob
<1> QED
  BY <1>1, <1>2, <1>3, <1>4, <1>5

LEMMA BeginsKeeps ==
  ASSUME BaseInv, NEW a \in Agents, NEW j \in Jobs, Begins(a, j)
  PROVE  Keeps(a, j)
<1>1. given' = given /\ UNCHANGED <<alive, lock, file, listLock>>
  BY DEF Begins, Aside
<1>2. ASSUME NEW i \in Listed
      PROVE  i \in Ids /\ given'[i] >= 1 /\ KnowsThen(file[i]) /\ file[i] \in Tasks
  <2>1. i \in Ids /\ file[i] # Gone
    BY Basics DEF Listed, Readable
  <2> QED
    BY <1>1, <2>1, StillKnown DEF Known, BaseInv, TypeOK
<1>3. ASSUME NEW k \in DOMAIN j.todo
      PROVE  given'[j.todo[k].id] >= 1 /\ KnowsThen(j.todo[k].val)
  <2>1. /\ j.todo[k].id \in Listed /\ j.todo[k].base = file[j.todo[k].id]
        /\ j.todo[k].val.blocks \subseteq j.todo[k].base.blocks \cup Listed
        /\ j.todo[k].val.blockedBy \subseteq j.todo[k].base.blockedBy \cup Listed
    BY DEF Begins
  <2> QED
    BY <1>2, <2>1 DEF KnowsThen
<1>4. j.id # 0 => given'[j.id] >= 1
  BY <1>2 DEF Begins, BeginsWith
<1>5. KnowsThen(j.seen)
  BY <1>1, StillKnown DEF Begins, Known
<1>6. j.step \notin LockSteps \cup {"highest", "create", "reset", "claimList", "open"}
  BY DEF Begins, LockSteps
<1> QED
  BY <1>1, <1>3, <1>4, <1>5, <1>6 DEF Begins, Keeps, Known

\* The changes after the first are of tasks that are known.
LEMMA AfterKnows ==
  ASSUME BaseInv, NEW a \in Agents, job[a].kind # "claim",
         job[a].step \in {"update", "open", "write"}, given' = given
  PROVE  LET n == After(job[a], Tail(job[a].todo)) IN
         /\ n \in Jobs /\ JobOK(a, n) /\ n.step \in {"none", "update"}
         /\ n.id # 0 => given'[n.id] >= 1
         /\ KnowsThen(n.seen)
         /\ \A k \in DOMAIN n.todo : given'[n.todo[k].id] >= 1 /\ KnowsThen(n.todo[k].val)
<1> DEFINE n == After(job[a], Tail(job[a].todo))
<1>1. /\ n \in Jobs /\ JobOK(a, n)
      /\ n = NoJob \/ /\ n.kind = job[a].kind /\ n.step = "update" /\ n.id = job[a].id
                      /\ n.seen = job[a].seen /\ n.todo = Tail(job[a].todo)
  BY LessTodo DEF BaseInv
<1>2. job[a].todo \in Seq(Changes) /\ job[a].todo # <<>>
  BY JobFacts DEF BaseInv, Jobs
<1>3. \A k \in DOMAIN Tail(job[a].todo) : k + 1 \in DOMAIN job[a].todo /\
        Tail(job[a].todo)[k] = job[a].todo[k + 1]
  BY <1>2, TailFacts
<1> HIDE DEF n
<1> QED
  BY <1>1, <1>3, StillKnown DEF Known, n

LEMMA SkipsKeeps ==
  ASSUME BaseInv, NEW a \in Agents, Skips(a)
  PROVE  \E n \in Jobs : Keeps(a, n)
<1> DEFINE n == After(job[a], Tail(job[a].todo))
<1>1. job[a].step = "update" /\ job[a].kind # "claim" /\ alive[a]
  <2>1. job[a].step = "update" /\ job[a].kind \in UpdateKinds
    BY JobFacts DEF Skips, BaseInv
  <2> QED
    BY <2>1, Busy DEF UpdateKinds
<1>2. given' = given /\ UNCHANGED <<alive, lock, file, listLock>> /\ Moves(a, n)
  BY DEF Skips, Aside
<1>3. /\ n \in Jobs /\ JobOK(a, n) /\ n.step \in {"none", "update"}
      /\ n.id # 0 => given'[n.id] >= 1
      /\ KnowsThen(n.seen)
      /\ \A k \in DOMAIN n.todo : given'[n.todo[k].id] >= 1 /\ KnowsThen(n.todo[k].val)
  BY <1>1, <1>2, AfterKnows
<1> HIDE DEF n
<1> QED
  BY <1>1, <1>2, <1>3 DEF Keeps, LockSteps, Known

LEMMA TakesLockKeeps ==
  ASSUME BaseInv, NEW a \in Agents, TakesLock(a)
  PROVE  \E n \in Jobs : Keeps(a, n)
<1> DEFINE i == Head(job[a].todo).id
           j == job[a]
           n == [j EXCEPT !.step = "open", !.id = i, !.seen = file[i]]
<1>1. /\ j.step = "update" /\ j.kind \in UpdateKinds /\ alive[a] /\ i \in Ids /\ Readable(i)
      /\ j \in Jobs /\ j.todo # <<>>
      /\ \A k \in DOMAIN j.todo : ChangeOK(j.kind, j.todo[k])
      /\ \A k, l \in DOMAIN j.todo : j.todo[k].id = j.todo[l].id => k = l
  <2>1. j.step = "update" /\ i \in Ids /\ Readable(i)
    BY DEF TakesLock
  <2>2. j.kind \in UpdateKinds /\ j.kind # "claim" /\ j.todo # <<>>
    BY <2>1, JobFacts DEF BaseInv, UpdateKinds
  <2>3. /\ \A k \in DOMAIN j.todo : ChangeOK(j.kind, j.todo[k])
        /\ \A k, l \in DOMAIN j.todo : j.todo[k].id = j.todo[l].id => k = l
    BY <2>1, <2>2, JobFacts DEF BaseInv
  <2> HIDE DEF i
  <2> QED
    BY <2>1, <2>2, <2>3, Busy
<1>2. /\ given' = given /\ UNCHANGED <<alive, file, listLock>> /\ Moves(a, n)
      /\ lock' = [lock EXCEPT ![i] = a] /\ Free(lock[i])
  BY DEF TakesLock, Aside
<1>3. file[i] \in Tasks /\ file[i].status \in Kept /\ file[i] # Gone /\ file[i] # Torn
  BY <1>1, Basics DEF BaseInv, TypeOK, Tasks, Kept, Readable
<1>4. /\ n \in Jobs /\ n.step = "open" /\ n.id = i /\ n.seen = file[i] /\ n.todo = j.todo
      /\ n.kind = j.kind
  BY <1>1, <1>3 DEF Jobs
<1> HIDE DEF n, i
<1>5. JobOK(a, n)
  BY <1>1, <1>3, <1>4 DEF JobOK, UpdateKinds, i
<1>6. KnowsThen(n.seen) /\ given'[n.id] >= 1 /\
      \A k \in DOMAIN n.todo : given'[n.todo[k].id] >= 1 /\ KnowsThen(n.todo[k].val)
  BY <1>1, <1>2, <1>3, <1>4, StillKnown DEF Known
<1>7. lock'[i] = a /\ \A m \in Ids : lock'[m] = lock[m] \/ Free(lock[m])
  BY <1>1, <1>2 DEF BaseInv, TypeOK
<1> HIDE DEF j
<1>8. Keeps(a, n)
  BY <1>1, <1>2, <1>3, <1>4, <1>5, <1>6, <1>7 DEF Keeps, LockSteps, Known
<1> QED
  BY <1>4, <1>8

LEMMA GivesUpKeeps ==
  ASSUME BaseInv, NEW a \in Agents, GivesUp(a)
  PROVE  \E n \in Jobs : Keeps(a, n)
<1>1. Keeps(a, NoJob)
  BY StillKnown DEF GivesUp, Aside, Keeps, JobOK, LockSteps, Known
<1> QED
  BY <1>1, Basics

LEMMA OpensKeeps ==
  ASSUME BaseInv, NEW a \in Agents, Opens(a)
  PROVE  \E n \in Jobs : Keeps(a, n)
<1> DEFINE j == job[a]
           n == [j EXCEPT !.step = "write"]
<1>1. j.step = "open" /\ j \in Jobs /\ JobOK(a, j) /\ alive[a] /\ j.id \in Ids /\ lock[j.id] = a
  BY Busy, Locked DEF Opens, LockSteps
<1>2. n \in Jobs /\ n = [j EXCEPT !.step = "write"]
  BY <1>1 DEF Jobs
<1>3. n.step = "write" /\ n.id = j.id /\ n.seen = j.seen /\ n.todo = j.todo /\ n.kind = j.kind
  BY <1>1 DEF Jobs
<1>4. /\ given' = given /\ UNCHANGED <<alive, lock, listLock>> /\ Moves(a, n)
      /\ file' = [file EXCEPT ![j.id] = Torn]
  BY DEF Opens, Aside
<1>5. \A i \in Ids : file'[i] = file[i] \/ (file'[i] = Torn /\ j.id = i)
  BY <1>4 DEF BaseInv, TypeOK
<1>6. KnowsThen(n.seen) /\ (n.id # 0 => given'[n.id] >= 1) /\
      \A k \in DOMAIN n.todo : given'[n.todo[k].id] >= 1 /\ KnowsThen(n.todo[k].val)
  BY <1>3, <1>4, StillKnown DEF Known
<1> HIDE DEF n
<1>7. JobOK(a, n)
  BY <1>1, <1>3 DEF JobOK, NoJob
<1>8. Keeps(a, n)
  BY <1>1, <1>3, <1>4, <1>5, <1>6, <1>7 DEF Keeps, LockSteps, Known
<1> QED
  BY <1>2, <1>8

LEMMA WritesKeeps ==
  ASSUME BaseInv, NEW a \in Agents, Writes(a)
  PROVE  \E n \in Jobs : Keeps(a, n)
<1> DEFINE j == job[a]
           i == j.id
           t == Written(a)
<1>1. j.step = "write" /\ j \in Jobs /\ alive[a] /\ i \in Ids /\ lock[i] = a
  BY Busy, Locked DEF Writes, LockSteps
<1>2. /\ given' = given /\ UNCHANGED <<alive, listLock>>
      /\ lock' = [lock EXCEPT ![i] = None]
      /\ file' = [file EXCEPT ![i] = IF @ = Gone THEN Gone ELSE t]
  BY DEF Writes
<1>3. /\ t \in Tasks /\ t.status \in Kept
      /\ t.blocks = j.seen.blocks \/ t.blocks = Head(j.todo).val.blocks
      /\ t.blockedBy = j.seen.blockedBy \/ t.blockedBy = Head(j.todo).val.blockedBy
  BY <1>1, WrittenFacts DEF BaseInv
<1>4. KnowsThen(t) /\ given'[i] >= 1
  <2>1. KnowsThen(j.seen) /\ (j.id # 0 => given'[j.id] >= 1)
    BY <1>2, StillKnown DEF Known
  <2>2. 1 \in DOMAIN j.todo /\ Head(j.todo) = j.todo[1]
    BY <1>1, JobFacts, TailFacts DEF BaseInv, Jobs
  <2>3. KnowsThen(Head(j.todo).val)
    BY <1>2, <2>2, StillKnown DEF Known
  <2> QED
    BY <1>1, <1>3, <2>1, <2>3, Basics DEF KnowsThen
<1>5. PICK n \in Jobs :
        /\ Moves(a, n) /\ JobOK(a, n) /\ n.step \in {"none", "update"}
        /\ n.id # 0 => given'[n.id] >= 1
        /\ KnowsThen(n.seen)
        /\ \A k \in DOMAIN n.todo : given'[n.todo[k].id] >= 1 /\ KnowsThen(n.todo[k].val)
  <2>1. CASE WritesOther(a)
    <3> DEFINE n == After(j, Tail(j.todo))
    <3>1. /\ n \in Jobs /\ JobOK(a, n) /\ n.step \in {"none", "update"}
          /\ n.id # 0 => given'[n.id] >= 1
          /\ KnowsThen(n.seen)
          /\ \A k \in DOMAIN n.todo : given'[n.todo[k].id] >= 1 /\ KnowsThen(n.todo[k].val)
      BY <1>1, <1>2, <2>1, AfterKnows DEF WritesOther
    <3>2. Moves(a, n)
      BY <2>1 DEF WritesOther
    <3> HIDE DEF n
    <3> QED
      BY <3>1, <3>2
  <2>2. CASE WritesClaim(a)
    <3>1. PICK todo \in AfterClaim(i, t) : Moves(a, After([j EXCEPT !.kind = "claimed"], todo))
      BY <2>2 DEF WritesClaim
    <3> DEFINE n == After([j EXCEPT !.kind = "claimed"], todo)
    <3>2. /\ n \in Jobs /\ JobOK(a, n)
          /\ \/ n = NoJob
             \/ /\ n.step = "update" /\ n.id = i /\ n.seen = j.seen
                /\ n.todo = todo /\ DOMAIN todo = {1} /\ todo[1].id = i
                /\ todo[1].val.blocks = t.blocks /\ todo[1].val.blockedBy = t.blockedBy
      BY <1>1, <1>3, ClaimedFacts
    <3>3. Moves(a, n)
      BY <3>1
    <3> HIDE DEF n
    <3>4. n # NoJob => KnowsThen(n.seen)
      BY <1>2, <3>2, StillKnown DEF Known
    <3> QED
      BY <1>2, <1>4, <3>2, <3>3, <3>4, StillKnown DEF KnowsThen, Known
  <2> QED
    BY <2>1, <2>2 DEF Writes
<1>6. \A m \in Ids : file'[m] = file[m] \/ file'[m] = Gone
                     \/ (file'[m].status \in Kept /\ given'[m] >= 1 /\ KnowsThen(file'[m]))
  BY <1>2, <1>3, <1>4 DEF BaseInv, TypeOK
<1>7. \A m \in Ids : lock'[m] = lock[m] \/ lock[m] = a
  BY <1>1, <1>2 DEF BaseInv, TypeOK
<1>8. Keeps(a, n)
  BY <1>1, <1>2, <1>5, <1>6, <1>7 DEF Keeps, LockSteps, Known
<1> QED
  BY <1>5, <1>8

\* A job that goes on to another step, with nothing new to name.
LEMMA SameKeeps ==
  ASSUME BaseInv, NEW a \in Agents, NEW n \in Jobs, Moves(a, n), JobOK(a, n),
         job[a].step # "none",
         n.id = job[a].id, n.seen = job[a].seen, n.todo = job[a].todo,
         \A i \in Ids : file'[i] = file[i] \/ file'[i] = Gone,
         \A i \in Ids : lock'[i] = lock[i] \/ lock[i] = a \/ Free(lock[i]),
         listLock' = listLock \/ listLock = a \/ Free(listLock),
         n.step \in LockSteps => lock'[n.id] = a,
         n.step \in {"highest", "create", "reset"} => listLock' = a,
         n.step \in {"claimList", "open"} => file'[n.id] # Torn,
         given' = given, alive' = alive
  PROVE  Keeps(a, n)
<1>1. alive[a]
  BY DEF BaseInv, JobsOK, NoJob
<1>2. KnowsThen(n.seen) /\ (n.id # 0 => given'[n.id] >= 1) /\
      \A k \in DOMAIN n.todo : given'[n.todo[k].id] >= 1 /\ KnowsThen(n.todo[k].val)
  BY StillKnown DEF Known
<1> QED
  BY <1>1, <1>2 DEF Keeps, Known

LEMMA ClaimStartsKeeps ==
  ASSUME BaseInv, NEW a \in Agents, ClaimStarts(a)
  PROVE  \E n \in Jobs : Keeps(a, n)
<1> DEFINE j == job[a]
           i == j.id
           n == [j EXCEPT !.step = "claimList"]
<1>1. j.step = "claim" /\ j \in Jobs /\ i \in Ids /\ j.kind = "claim" /\ j.todo = <<>>
  BY JobFacts DEF ClaimStarts, BaseInv
<1>2. /\ n \in Jobs /\ n.step = "claimList" /\ n.id = i /\ n.seen = j.seen /\ n.todo = j.todo
      /\ n.kind = j.kind
  BY <1>1 DEF Jobs
<1>3. /\ UNCHANGED <<file, listLock, alive, given>> /\ Moves(a, n)
      /\ lock' = [lock EXCEPT ![i] = a] /\ Free(lock[i]) /\ Readable(i)
  BY DEF ClaimStarts, Aside
<1> HIDE DEF n
<1>4. JobOK(a, n)
  BY <1>1, <1>2 DEF JobOK
<1>5. lock'[i] = a /\ \A m \in Ids : lock'[m] = lock[m] \/ Free(lock[m])
  BY <1>1, <1>3 DEF BaseInv, TypeOK
<1>6. file'[i] # Torn
  BY <1>3, Basics DEF Readable
<1>7. Keeps(a, n)
  BY <1>1, <1>2, <1>3, <1>4, <1>5, <1>6, SameKeeps
<1> QED
  BY <1>2, <1>7

LEMMA ClaimReadsKeeps ==
  ASSUME BaseInv, NEW a \in Agents, ClaimReads(a)
  PROVE  \E n \in Jobs : Keeps(a, n)
<1> DEFINE j == job[a]
           i == j.id
           u == Update(i, {"owner"}, file[i], [file[i] EXCEPT !.owner = a])
           n == [j EXCEPT !.step = "open", !.seen = file[i], !.todo = <<u>>]
<1>1. /\ j.step = "claimList" /\ j \in Jobs /\ i \in Ids /\ j.kind = "claim" /\ lock[i] = a
      /\ alive[a]
  <2>1. j.step = "claimList"
    BY DEF ClaimReads
  <2>2. j.kind = "claim"
    BY <2>1, JobFacts DEF BaseInv
  <2> QED
    BY <2>1, <2>2, Busy, Locked DEF LockSteps
<1>2. /\ UNCHANGED <<file, listLock, alive, given, lock>> /\ Moves(a, n) /\ file[i] # Gone
  BY DEF ClaimReads, Aside
<1>3. file[i] \in Tasks /\ file[i].status \in Kept /\ file[i] # Torn
  <2>1. file[i] \in Tasks /\ file[i] # Torn /\ (~Readable(i) => file[i] \in {Gone, Torn})
    BY <1>1 DEF BaseInv, TypeOK, FilesOK
  <2> QED
    BY <1>2, <2>1 DEF Readable, Tasks, Kept
<1>4. /\ u \in Changes /\ u.id = i /\ u.val.blocks = file[i].blocks
      /\ u.val.blockedBy = file[i].blockedBy
  <2>1. \A t \in Tasks : LET c == [t EXCEPT !.owner = a] IN
          c \in Tasks /\ c.blocks = t.blocks /\ c.blockedBy = t.blockedBy
    BY DEF Tasks
  <2> QED
    BY <1>1, <1>3, <2>1 DEF Update, Changes, Fields
<1> HIDE DEF u
<1>5. PICK todo \in Seq(Changes) : todo = <<u>> /\ DOMAIN todo = {1} /\ todo[1] = u
  BY <1>4, OneChange
<1>6. n = [j EXCEPT !.step = "open", !.seen = file[i], !.todo = todo]
  BY <1>5
<1> HIDE DEF n
<1>7. /\ n \in Jobs /\ n.step = "open" /\ n.id = i /\ n.seen = file[i] /\ n.todo = todo
      /\ n.kind = "claim"
  BY <1>1, <1>3, <1>6 DEF Jobs
<1>8. JobOK(a, n)
  BY <1>1, <1>3, <1>5, <1>7 DEF JobOK, u
<1>9. KnowsThen(n.seen) /\ given'[n.id] >= 1 /\
      \A k \in DOMAIN n.todo : given'[n.todo[k].id] >= 1 /\ KnowsThen(n.todo[k].val)
  BY <1>1, <1>2, <1>4, <1>5, <1>7, StillKnown DEF Known, KnowsThen
<1>10. Keeps(a, n)
  BY <1>1, <1>2, <1>3, <1>7, <1>8, <1>9 DEF Keeps, Known
<1> QED
  BY <1>7, <1>10

LEMMA ClaimsGoneKeeps ==
  ASSUME BaseInv, NEW a \in Agents, ClaimsGone(a)
  PROVE  \E n \in Jobs : Keeps(a, n)
<1> DEFINE j == job[a]
           i == j.id
           t == [file[i] EXCEPT !.owner = a]
<1>1. j.step = "claimList" /\ j \in Jobs /\ alive[a] /\ i \in Ids /\ lock[i] = a
  BY Busy, Locked DEF ClaimsGone, LockSteps
<1>2. /\ given' = given /\ UNCHANGED <<alive, listLock, file>>
      /\ lock' = [lock EXCEPT ![i] = None]
  BY DEF ClaimsGone
<1>3. /\ t \in Tasks /\ t.blocks = file[i].blocks /\ t.blockedBy = file[i].blockedBy
  <2>1. \A v \in Tasks : LET c == [v EXCEPT !.owner = a] IN
          c \in Tasks /\ c.blocks = v.blocks /\ c.blockedBy = v.blockedBy
    BY DEF Tasks
  <2> QED
    BY <1>1, <2>1 DEF BaseInv, TypeOK
<1>4. PICK todo \in AfterClaim(i, t) : Moves(a, After([j EXCEPT !.kind = "claimed"], todo))
  BY DEF ClaimsGone
<1> HIDE DEF t
<1> DEFINE n == After([j EXCEPT !.kind = "claimed"], todo)
<1>5. /\ n \in Jobs /\ JobOK(a, n)
      /\ \/ n = NoJob
         \/ /\ n.step = "update" /\ n.id = i /\ n.seen = j.seen
            /\ n.todo = todo /\ DOMAIN todo = {1} /\ todo[1].id = i
            /\ todo[1].val.blocks = t.blocks /\ todo[1].val.blockedBy = t.blockedBy
  BY <1>1, <1>3, ClaimedFacts
<1>6. Moves(a, n)
  BY <1>4
<1> HIDE DEF n
<1>7. n # NoJob => KnowsThen(n.seen)
  BY <1>2, <1>5, StillKnown DEF Known
<1>8. KnowsThen(file[i]) /\ given'[i] >= 1
  BY <1>1, <1>2, StillKnown, Basics DEF Known
<1>9. \A m \in Ids : lock'[m] = lock[m] \/ lock[m] = a
  BY <1>1, <1>2 DEF BaseInv, TypeOK
<1>10. /\ n.id # 0 => given'[n.id] >= 1
       /\ KnowsThen(n.seen)
       /\ \A k \in DOMAIN n.todo : given'[n.todo[k].id] >= 1 /\ KnowsThen(n.todo[k].val)
  BY <1>2, <1>3, <1>5, <1>7, <1>8, StillKnown DEF KnowsThen, Known
<1>11. Keeps(a, n)
  BY <1>1, <1>2, <1>5, <1>6, <1>9, <1>10, StillKnown DEF Keeps, LockSteps, Known
<1> QED
  BY <1>5, <1>11

LEMMA ListLocksKeeps ==
  ASSUME BaseInv, NEW a \in Agents, ListLocks(a)
  PROVE  \E n \in Jobs : Keeps(a, n)
<1> DEFINE j == job[a]
<1>1. j.step = "listLock" /\ j \in Jobs /\ j.id = 0 /\ j.todo = <<>>
  BY JobFacts DEF ListLocks, BaseInv
<1>2. PICK n \in Jobs :
        /\ Moves(a, n) /\ n.kind = j.kind /\ n.id = j.id /\ n.seen = j.seen /\ n.todo = j.todo
        /\ \/ j.kind = "create" /\ n.step = "highest"
           \/ j.kind = "reset" /\ n.step = "reset"
  <2>1. CASE /\ job[a].kind = "create"
             /\ Moves(a, [job[a] EXCEPT !.step = "highest", !.left = {"files", "mark"}])
    <3> DEFINE n == [j EXCEPT !.step = "highest", !.left = {"files", "mark"}]
    <3>1. /\ n \in Jobs /\ n.step = "highest" /\ n.id = j.id /\ n.seen = j.seen /\ n.todo = j.todo
          /\ n.kind = j.kind
      BY <1>1 DEF Jobs
    <3> QED
      BY <2>1, <3>1
  <2>2. CASE job[a].kind = "reset" /\ Moves(a, [job[a] EXCEPT !.step = "reset"])
    <3> DEFINE n == [j EXCEPT !.step = "reset"]
    <3>1. /\ n \in Jobs /\ n.step = "reset" /\ n.id = j.id /\ n.seen = j.seen /\ n.todo = j.todo
          /\ n.kind = j.kind
      BY <1>1 DEF Jobs
    <3> QED
      BY <2>2, <3>1
  <2> QED
    BY <2>1, <2>2 DEF ListLocks
<1>3. JobOK(a, n)
  BY <1>1, <1>2 DEF JobOK
<1>4. Keeps(a, n)
  BY <1>1, <1>2, <1>3, SameKeeps DEF ListLocks, LockSteps
<1> QED
  BY <1>4

LEMMA ReadsKeeps ==
  ASSUME BaseInv, NEW a \in Agents, Reads(a)
  PROVE  \E n \in Jobs : Keeps(a, n)
<1> DEFINE j == job[a]
<1>1. /\ j.step = "highest" /\ j \in Jobs /\ j.id = 0 /\ j.todo = <<>> /\ j.kind = "create"
      /\ listLock = a
  BY JobFacts DEF Reads, BaseInv, LocksOK
<1>2. PICK source \in j.left, m \in 0..MaxId :
        Moves(a, [j EXCEPT !.left = @ \ {source}, !.n = m,
                    !.step = IF j.left = {source} THEN "create" ELSE "highest"])
  BY DEF Reads
<1> DEFINE n == [j EXCEPT !.left = @ \ {source}, !.n = m,
                   !.step = IF j.left = {source} THEN "create" ELSE "highest"]
<1>3. /\ n \in Jobs /\ n.id = j.id /\ n.seen = j.seen /\ n.todo = j.todo
      /\ n.kind = j.kind
      /\ n.step = "highest" \/ (n.step = "create" /\ n.left = {})
  BY <1>1 DEF Jobs
<1>4. Moves(a, n)
  BY <1>2
<1> HIDE DEF n
<1>5. JobOK(a, n)
  BY <1>1, <1>3 DEF JobOK
<1>6. Keeps(a, n)
  BY <1>1, <1>3, <1>4, <1>5, SameKeeps DEF Reads, Aside, LockSteps
<1> QED
  BY <1>3, <1>6

LEMMA CreatesKeeps ==
  ASSUME BaseInv, NEW a \in Agents, Creates(a)
  PROVE  \E n \in Jobs : Keeps(a, n)
<1> DEFINE i == job[a].n + 1
<1>1. /\ job[a].step = "create" /\ listLock = a /\ i \in Ids
  BY DEF Creates, BaseInv, LocksOK
<1>2. /\ file' = [file EXCEPT ![i] = New] /\ given' = [given EXCEPT ![i] = @ + 1]
      /\ Moves(a, NoJob) /\ UNCHANGED <<lock, alive>>
  BY DEF Creates
<1> HIDE DEF i
<1>3. \A m \in Ids : Known(m) => given'[m] >= 1
  BY <1>1, <1>2 DEF BaseInv, TypeOK, Known
<1>4. given'[i] >= 1
  BY <1>1, <1>2 DEF BaseInv, TypeOK
<1>5. \A m \in Ids : file'[m] = file[m] \/ (m = i /\ file'[m] = New)
  BY <1>1, <1>2 DEF BaseInv, TypeOK
<1>6. New.status \in Kept /\ KnowsThen(New)
  BY Basics DEF Kept, Open, KnowsThen
<1>7. Keeps(a, NoJob)
  BY <1>1, <1>2, <1>3, <1>4, <1>5, <1>6, StillKnown DEF Keeps, JobOK, LockSteps
<1> QED
  BY <1>7, Basics

LEMMA ResetsKeeps ==
  ASSUME BaseInv, NEW a \in Agents, Resets(a)
  PROVE  \E n \in Jobs : Keeps(a, n)
<1>1. listLock = a /\ \A m \in Ids : file'[m] = Gone
  BY DEF Resets, BaseInv, LocksOK
<1>2. Keeps(a, NoJob)
  BY <1>1, StillKnown DEF Resets, Keeps, JobOK, LockSteps, Known
<1> QED
  BY <1>2, Basics

LEMMA DeletesKeeps ==
  ASSUME BaseInv, NEW a \in Agents, ReadsMark(a) \/ WritesMark(a)
  PROVE  \E n \in Jobs : Keeps(a, n)
<1> DEFINE j == job[a]
<1>1. /\ j \in Jobs /\ j.kind = "delete" /\ j.id \in Ids /\ j.todo = <<>> /\ j.step # "none"
  BY JobFacts DEF ReadsMark, WritesMark, BaseInv
<1>2. PICK step \in {"writeMark", "unlink"} : Moves(a, [j EXCEPT !.step = step])
  BY DEF ReadsMark, WritesMark
<1> DEFINE n == [j EXCEPT !.step = step]
<1>3. /\ n \in Jobs /\ n.id = j.id /\ n.seen = j.seen /\ n.todo = j.todo
      /\ n.kind = j.kind /\ n.step \in {"writeMark", "unlink"}
  BY <1>1 DEF Jobs
<1>4. Moves(a, n)
  BY <1>2
<1> HIDE DEF n
<1>5. JobOK(a, n)
  BY <1>1, <1>3 DEF JobOK
<1>6. UNCHANGED <<file, lock, listLock, given, alive>>
  BY DEF ReadsMark, WritesMark, Aside
<1>7. Keeps(a, n)
  BY <1>1, <1>3, <1>4, <1>5, <1>6, SameKeeps DEF LockSteps
<1> QED
  BY <1>3, <1>7

LEMMA UnlinksKeeps ==
  ASSUME BaseInv, NEW a \in Agents, Unlinks(a)
  PROVE  \E n \in Jobs : Keeps(a, n)
<1> DEFINE j == job[a]
           i == j.id
           n == [j EXCEPT !.step = "sweep"]
<1>1. /\ j \in Jobs /\ j.kind = "delete" /\ i \in Ids /\ j.todo = <<>> /\ j.step = "unlink"
  BY JobFacts DEF Unlinks, BaseInv
<1>2. \A m \in Ids : file'[m] = file[m] \/ file'[m] = Gone
  BY DEF Unlinks, BaseInv, TypeOK
<1>3. UNCHANGED <<lock, listLock, given, alive>>
  BY DEF Unlinks
<1>4. CASE Moves(a, NoJob)
  <2>1. Keeps(a, NoJob)
    BY <1>2, <1>3, <1>4, StillKnown DEF Keeps, JobOK, LockSteps, Known
  <2> QED
    BY <2>1, Basics
<1>5. CASE Moves(a, n)
  <2>1. /\ n \in Jobs /\ n.id = j.id /\ n.seen = j.seen /\ n.todo = j.todo
        /\ n.kind = j.kind /\ n.step = "sweep"
    BY <1>1 DEF Jobs
  <2> HIDE DEF n
  <2>2. JobOK(a, n)
    BY <1>1, <2>1 DEF JobOK
  <2>3. Keeps(a, n)
    BY <1>1, <1>2, <1>3, <1>5, <2>1, <2>2, SameKeeps DEF LockSteps
  <2> QED
    BY <2>1, <2>3
<1> QED
  BY <1>4, <1>5 DEF Unlinks

LEMMA SweepsKeeps ==
  ASSUME BaseInv, NEW a \in Agents, Sweeps(a)
  PROVE  \E n \in Jobs : Keeps(a, n)
<1> DEFINE j == job[a]
<1>1. /\ j \in Jobs /\ j.kind = "delete" /\ j.id \in Ids /\ j.step = "sweep" /\ alive[a]
  <2>1. j.step = "sweep"
    BY DEF Sweeps
  <2>2. j.kind = "delete" /\ j.id \in Ids
    BY <2>1, JobFacts DEF BaseInv
  <2> QED
    BY <2>1, <2>2, Busy
<1>2. PICK todo \in Seq(Changes) :
        /\ Moves(a, After(j, todo)) /\ JobOK(a, After(j, todo)) /\ After(j, todo) \in Jobs
        /\ \A k \in DOMAIN todo :
             LET u == todo[k] IN
             /\ u.id \in Listed /\ u.base = file[u.id]
             /\ u.val.blocks = u.base.blocks \ {j.id}
             /\ u.val.blockedBy = u.base.blockedBy \ {j.id}
  BY DEF Sweeps
<1> DEFINE n == After(j, todo)
<1>3. n = NoJob \/ (n.id = j.id /\ n.seen = j.seen /\ n.todo = todo /\ n.step = "update")
  BY <1>1 DEF After, Jobs
<1>4. Moves(a, n) /\ JobOK(a, n) /\ n \in Jobs
  BY <1>2
<1> HIDE DEF n
<1>5. UNCHANGED <<lock, listLock, given, alive, file>>
  BY DEF Sweeps, Aside
<1>6. ASSUME NEW k \in DOMAIN todo
      PROVE  given'[todo[k].id] >= 1 /\ KnowsThen(todo[k].val)
  <2>1. /\ todo[k].id \in Ids /\ file[todo[k].id] # Gone
        /\ todo[k].val.blocks \subseteq file[todo[k].id].blocks
        /\ todo[k].val.blockedBy \subseteq file[todo[k].id].blockedBy
    BY <1>2, Basics DEF Listed, Readable
  <2> QED
    BY <1>5, <2>1, StillKnown DEF KnowsThen, Known
<1>7. /\ n.id # 0 => given'[n.id] >= 1
      /\ KnowsThen(n.seen)
      /\ \A k \in DOMAIN n.todo : given'[n.todo[k].id] >= 1 /\ KnowsThen(n.todo[k].val)
  BY <1>3, <1>5, <1>6, StillKnown DEF Known
<1>8. n.step \in {"none", "update"}
  BY <1>3, StillKnown, <1>5 DEF Known
<1>9. Keeps(a, n)
  BY <1>1, <1>4, <1>5, <1>7, <1>8 DEF Keeps, LockSteps, Known
<1> QED
  BY <1>4, <1>9

LEMMA ExitsKeeps ==
  ASSUME BaseInv, NEW a \in Agents, Exits(a)
  PROVE  \E n \in Jobs : Keeps(a, n)
<1>1. \A b \in Agents : alive'[b] = alive[b] \/ b = a
  BY DEF Exits, BaseInv, TypeOK
<1>2. Keeps(a, NoJob)
  BY <1>1, StillKnown DEF Exits, Keeps, JobOK, LockSteps, Known
<1> QED
  BY <1>2, Basics

LEMMA FaultsStep ==
  ASSUME TypeOK, Next
  PROVE  faults' \subseteq faults \cup {"missed", "stale", "late", "blind", "overlap", "died"}
<1>1. PICK a \in Agents : Job(a) \/ Step(a) \/ Exit(a)
  BY DEF Next
<1>2. \A kind, c : Fault(kind, c) => faults' \subseteq faults \cup {kind}
  BY DEF Fault
<1>3. Job(a) => faults' = faults
  BY DEF Job, Find, Finish, Block, Unassign, Create, Delete, Clear, Begin, ghosts
<1>4. CASE UNCHANGED faults
  BY <1>4
<1>5. CASE Lock(a)
  BY <1>2, <1>5 DEF Lock
<1>6. CASE Write(a) \/ ClaimList(a)
  BY <1>2, <1>6 DEF Write, ClaimList
<1>7. CASE Reset(a) \/ ReadMark(a) \/ Unlink(a) \/ Exit(a)
  BY <1>2, <1>7 DEF Reset, ReadMark, Unlink, Exit
<1> QED
  BY <1>1, <1>3, <1>4, <1>5, <1>6, <1>7 DEF Step, OpenFile, ClaimLock, ListLock, ReadHighest,
     WriteNew, WriteMark, Sweep, ghosts

\* Each step is one of an agent, and keeps the invariant.
LEMMA BaseStep ==
  ASSUME BaseInv, Next
  PROVE  BaseInv' /\ \E a \in Agents : Does(a)
<1>1. PICK a \in Agents : Does(a)
  BY StepCases DEF BaseInv
<1>2. TypeOK'
  BY <1>1, TypeStep, FaultsStep DEF BaseInv
<1>3. \E n \in Jobs : Keeps(a, n)
  BY <1>1, BeginsKeeps, SkipsKeeps, TakesLockKeeps, GivesUpKeeps, OpensKeeps, WritesKeeps,
     ClaimStartsKeeps, ClaimReadsKeeps, ClaimsGoneKeeps, ListLocksKeeps, ReadsKeeps,
     CreatesKeeps, ResetsKeeps, DeletesKeeps, UnlinksKeeps, SweepsKeeps, ExitsKeeps DEF Does
<1> QED
  BY <1>1, <1>2, <1>3, KeepsFrame

-----------------------------------------------------------------------------
(* The ids stay fresh.                                                     *)

Others(a) == \A b \in Agents : b # a => job'[b] = job[b]

\* A step that neither looks for an id nor deletes.
Bystands(a) ==
  \/ \E j \in Jobs : Begins(a, j)
  \/ Skips(a) \/ TakesLock(a) \/ GivesUp(a) \/ Opens(a) \/ Writes(a)
  \/ ClaimStarts(a) \/ ClaimReads(a) \/ ClaimsGone(a) \/ Sweeps(a) \/ Exits(a)

LEMMA AfterStep ==
  ASSUME NEW j \in Jobs, NEW todo
  PROVE  After(j, todo).step \in {"none", "update"}
  BY DEF After, Jobs, NoJob

LEMMA BystandsStep ==
  ASSUME BaseInv, NEW a \in Agents, Bystands(a)
  PROVE  /\ Others(a) /\ mark' = mark /\ given' = given /\ faults \subseteq faults'
         /\ job'[a].step \notin {"highest", "create", "writeMark", "unlink", "sweep"}
         /\ \A i \in Ids : file'[i] = Gone => file[i] = Gone
<1>1. job[a] \in Jobs
  BY DEF BaseInv, TypeOK
<1>2. Others(a)
  BY DEF Others, Bystands, Moves, Begins, Skips, TakesLock, GivesUp, Opens, Writes, WritesOther,
     WritesClaim, ClaimStarts, ClaimReads, ClaimsGone, Sweeps, Exits
<1>3. mark' = mark /\ given' = given /\ faults \subseteq faults'
  BY DEF Bystands, Begins, Skips, TakesLock, GivesUp, Opens, Writes, ClaimStarts, ClaimReads,
     ClaimsGone, Sweeps, Exits, Aside
<1>4. job'[a].step \notin {"highest", "create", "writeMark", "unlink", "sweep"}
  <2>1. CASE \E j \in Jobs : Begins(a, j)
    BY <2>1 DEF Begins, Moves
  <2>2. CASE Skips(a) \/ Sweeps(a)
    BY <1>1, <2>2, AfterStep DEF Skips, Sweeps, Moves
  <2>3. CASE Writes(a) \/ ClaimsGone(a)
    <3>1. [job[a] EXCEPT !.kind = "claimed"] \in Jobs
      BY <1>1 DEF Jobs
    <3> QED
      BY <1>1, <2>3, <3>1, AfterStep DEF Writes, WritesOther, WritesClaim, ClaimsGone, Moves
  <2>4. CASE TakesLock(a) \/ Opens(a) \/ ClaimStarts(a)
    BY <1>1, <2>4 DEF TakesLock, Opens, ClaimStarts, Moves, Jobs
  <2>5. CASE ClaimReads(a)
    <3>1. \A s, t : [job[a] EXCEPT !.step = "open", !.seen = s, !.todo = t].step = "open"
      BY <1>1 DEF Jobs
    <3> QED
      BY <2>5, <3>1 DEF ClaimReads, Moves
  <2>6. CASE GivesUp(a) \/ Exits(a)
    BY <2>6 DEF GivesUp, Exits, Moves, NoJob
  <2> QED
    BY <2>1, <2>2, <2>3, <2>4, <2>5, <2>6 DEF Bystands
<1>5. \A i \in Ids : file'[i] = Gone => file[i] = Gone
  <2>1. CASE Opens(a)
    BY <2>1, Basics DEF Opens, BaseInv, TypeOK
  <2>2. CASE Writes(a)
    <3>1. Written(a).status \in Kept /\ Gone.status \notin Kept
      BY <2>2, WrittenFacts, Basics DEF Writes, BaseInv, Kept, Open
    <3> QED
      BY <2>2, <3>1 DEF Writes, BaseInv, TypeOK
  <2> QED
    BY <2>1, <2>2 DEF Bystands, Begins, Skips, TakesLock, GivesUp, ClaimStarts, ClaimReads,
       ClaimsGone, Sweeps, Exits
<1> QED
  BY <1>2, <1>3, <1>4, <1>5

LEMMA FaultsGrow ==
  ASSUME NEW a \in Agents, Does(a), BaseInv
  PROVE  faults \subseteq faults' /\ Others(a)
<1>1. faults \subseteq faults'
  BY DEF Does, Begins, Skips, TakesLock, GivesUp, Opens, Writes, ClaimStarts, ClaimReads,
     ClaimsGone, ListLocks, Reads, Creates, Resets, ReadsMark, WritesMark, Unlinks, Sweeps,
     Exits, Aside
<1>2. Others(a)
  BY DEF Others, Does, Moves, Begins, Skips, TakesLock, GivesUp, Opens, Writes, WritesOther,
     WritesClaim, ClaimStarts, ClaimReads, ClaimsGone, ListLocks, Reads, Creates, Resets,
     ReadsMark, WritesMark, Unlinks, Sweeps, Exits
<1> QED
  BY <1>1, <1>2

IdsOK == (\A i \in Ids : given[i] =< 1) /\ MarkOK /\ HighestOK

LEMMA IdStep ==
  ASSUME BaseInv, BaseInv', IdInv, NEW a \in Agents, Does(a)
  PROVE  IdInv'
<1> SUFFICES ASSUME Without({"overlap"})'
             PROVE  IdsOK'
  BY DEF IdInv, IdsOK
<1>1. faults \subseteq faults' /\ Others(a) /\ "overlap" \notin faults'
  BY FaultsGrow DEF Without
<1>2. IdsOK
  BY <1>1 DEF IdInv, IdsOK, Without
<1>t. /\ mark \in 0..MaxId /\ mark' \in 0..MaxId
      /\ given \in [Ids -> Nat] /\ given' \in [Ids -> Nat]
      /\ file \in [Ids -> Tasks] /\ job[a] \in Jobs /\ job'[a] \in Jobs
  BY DEF BaseInv, TypeOK
<1>i. /\ Ids \subseteq Int
      /\ \A b \in Agents : job[b].id \in Int /\ job[b].n \in Int /\ job'[b].n \in Int
  <2>1. Ids \subseteq Int /\ 0..MaxId \subseteq Int
    BY BoundsAssumption DEF Ids
  <2>2. ASSUME NEW j \in Jobs
        PROVE  j.id \in Int /\ j.n \in Int
    <3>1. j.id \in Ids \cup {0} /\ j.n \in 0..MaxId
      BY DEF Jobs
    <3> QED
      BY <3>1, BoundsAssumption DEF Ids
  <2> QED
    BY <2>1, <2>2 DEF BaseInv, TypeOK
<1>3. CASE Bystands(a)
  <2>1. /\ mark' = mark /\ given' = given
        /\ job'[a].step \notin {"highest", "create", "writeMark", "unlink"}
        /\ \A i \in Ids : file'[i] = Gone => file[i] = Gone
    BY <1>3, BystandsStep
  <2>2. \A b \in Agents : job'[b].step \in {"highest", "create", "writeMark", "unlink"} =>
          job'[b] = job[b]
    BY <1>1, <2>1 DEF Others
  <2>3. MarkOK'
    BY <1>2, <2>1, <2>2 DEF IdsOK, MarkOK, Known, Deleting
  <2>4. HighestOK'
    BY <1>2, <2>1, <2>2 DEF IdsOK, HighestOK, Known
  <2> QED
    BY <1>2, <2>1, <2>3, <2>4 DEF IdsOK
<1>4. CASE ListLocks(a)
  <2>1. /\ UNCHANGED <<file, mark, given>>
        /\ job'[a].step \in {"highest", "reset"}
        /\ job'[a].step = "highest" => job'[a].left = {"files", "mark"}
    BY <1>4, <1>t DEF ListLocks, Moves, Jobs
  <2>2. MarkOK'
    BY <1>1, <1>2, <2>1 DEF IdsOK, MarkOK, Known, Deleting, Others
  <2>3. HighestOK'
    BY <1>1, <1>2, <2>1 DEF IdsOK, MarkOK, HighestOK, Known, Others
  <2> QED
    BY <1>2, <2>1, <2>2, <2>3 DEF IdsOK
<1>5. CASE Reads(a)
  <2>1. PICK source \in job[a].left, n \in 0..MaxId :
          /\ Moves(a, [job[a] EXCEPT !.left = @ \ {source}, !.n = n,
                         !.step = IF job[a].left = {source} THEN "create" ELSE "highest"])
          /\ job[a].n =< n
          /\ source = "mark" => mark =< n
          /\ source = "files" => \A i \in Ids : file[i] # Gone => i =< n
    BY <1>5 DEF Reads
  <2>2. /\ UNCHANGED <<file, mark, given>> /\ job[a].step = "highest"
        /\ job'[a].left = job[a].left \ {source} /\ job'[a].n = n
        /\ job'[a].step \in {"create", "highest"}
    BY <1>5, <1>t, <2>1 DEF Reads, Aside, Moves, Jobs
  <2>3. MarkOK'
    BY <1>1, <1>2, <2>2 DEF IdsOK, MarkOK, Known, Deleting, Others
  <2>4. ASSUME NEW i \in Ids, Known(i)
        PROVE  \/ i =< job'[a].n
               \/ "mark" \in job'[a].left /\ i =< mark
               \/ "files" \in job'[a].left /\ file[i] # Gone
    BY <1>2, <1>t, <1>i, <2>1, <2>2, <2>4 DEF IdsOK, HighestOK
  <2>5. HighestOK'
    BY <1>1, <1>2, <2>2, <2>4 DEF IdsOK, HighestOK, Known, Others
  <2> QED
    BY <1>2, <2>2, <2>3, <2>5 DEF IdsOK
<1>6. CASE Creates(a)
  <2> DEFINE i == job[a].n + 1
  <2>1. /\ i \in Ids /\ file' = [file EXCEPT ![i] = New] /\ given' = [given EXCEPT ![i] = @ + 1]
        /\ mark' = mark /\ job'[a] = NoJob /\ NoJob.step = "none" /\ listLock = a
        /\ job[a].step = "create" /\ job[a].left = {}
    BY <1>6, JobFacts DEF Creates, Moves, NoJob, BaseInv, LocksOK
  <2>2. given[i] = 0
    BY <1>2, <1>t, <1>i, <2>1 DEF IdsOK, HighestOK, Known
  <2>3. \A k \in Ids : given'[k] =< 1
    BY <1>2, <1>t, <2>1, <2>2 DEF IdsOK
  <2>4. \A b \in Agents : job'[b].step \notin {"highest", "create"}
    BY <1>1, <2>1 DEF Others, BaseInv, LocksOK
  <2>5. \A k \in Ids : k # i => given'[k] = given[k] /\ file'[k] = file[k]
    BY <1>t, <2>1
  <2>6. file'[i] # Gone
    BY <1>t, <2>1, Basics
  <2> HIDE DEF i
  <2>7. MarkOK'
    BY <1>1, <1>2, <2>1, <2>5, <2>6 DEF IdsOK, MarkOK, Known, Deleting, Others
  <2> QED
    BY <2>3, <2>4, <2>7 DEF IdsOK, HighestOK
<1>7. CASE Resets(a)
  <2>1. /\ mark =< mark' /\ \A i \in Ids : file[i] # Gone => i =< mark'
        /\ given' = given /\ job'[a] = NoJob /\ NoJob.step = "none" /\ NoJob.kind = "none"
        /\ \A b \in Agents \ {a} : ~Deleting(b)
        /\ listLock = a
    BY <1>1, <1>7 DEF Resets, Moves, NoJob, BaseInv, LocksOK
  <2>2. \A b \in Agents : job'[b].step \notin {"highest", "create"}
    BY <1>1, <2>1 DEF Others, BaseInv, LocksOK
  <2>3. \A i \in Ids : Known(i) => i =< mark'
    <3>1. \A i \in Ids : Known(i) /\ file[i] = Gone => i =< mark
      BY <1>2 DEF IdsOK, MarkOK
    <3>2. mark \in Int /\ mark' \in Int
      BY <1>t
    <3>3. ASSUME NEW i \in Ids, Known(i)
          PROVE  i =< mark'
      <4>1. CASE file[i] = Gone
        <5>1. i \in Int /\ i =< mark /\ mark =< mark'
          BY <1>i, <2>1, <3>1, <3>3, <4>1
        <5> QED
          BY <3>2, <5>1
      <4>2. CASE file[i] # Gone
        BY <2>1, <4>2
      <4> QED
        BY <4>1, <4>2
    <3> QED
      BY <3>3
  <2>4. \A b \in Agents : ~Deleting(b)'
    BY <1>1, <2>1 DEF Others, Deleting
  <2>5. \A b \in Agents : job'[b].step \notin {"writeMark", "unlink"}
    <3>0. ASSUME NEW b \in Agents, NEW j, JobOK(b, j), j.step \in {"writeMark", "unlink"}
          PROVE  j.kind = "delete"
      BY <3>0 DEF JobOK, NoJob
    <3>1. \A b \in Agents : job'[b].step \in {"writeMark", "unlink"} => job'[b].kind = "delete"
      <4>1. \A b \in Agents : JobOK(b, job'[b])
        BY DEF BaseInv, JobsOK
      <4> QED
        BY <3>0, <4>1
    <3> QED
      BY <2>4, <3>1 DEF Deleting
  <2> QED
    BY <1>2, <2>1, <2>2, <2>3, <2>4, <2>5 DEF IdsOK, MarkOK, HighestOK, Known
<1>8. CASE ReadsMark(a)
  <2>1. /\ UNCHANGED <<file, mark, given>> /\ \A b \in Agents : ~Deleting(b)
        /\ job'[a].id = job[a].id
        /\ job'[a].step = IF job[a].id > mark THEN "writeMark" ELSE "unlink"
    BY <1>1, <1>8, <1>t DEF ReadsMark, Aside, Moves, Jobs
  <2>2. \A b \in Agents \ {a} : ~Deleting(b)' /\ job'[b].step \notin {"writeMark", "unlink"}
    <3>1. \A b \in Agents : job[b].step \in {"writeMark", "unlink"} => Deleting(b)
      BY JobFacts DEF BaseInv, Deleting
    <3> QED
      BY <1>1, <2>1, <3>1 DEF Others, Deleting
  <2>3. MarkOK'
    BY <1>2, <1>t, <1>i, <2>1, <2>2 DEF IdsOK, MarkOK, Known
  <2>4. HighestOK'
    BY <1>1, <1>2, <2>1 DEF IdsOK, HighestOK, Known, Others
  <2> QED
    BY <1>2, <2>1, <2>3, <2>4 DEF IdsOK
<1>9. CASE WritesMark(a)
  <2>1. /\ UNCHANGED <<file, given>> /\ mark' = job[a].id /\ mark < job[a].id
        /\ job'[a].id = job[a].id /\ job'[a].step = "unlink" /\ Deleting(a)
    BY <1>2, <1>9, <1>t, JobFacts DEF WritesMark, Moves, Jobs, IdsOK, MarkOK, Deleting, BaseInv
  <2>2. \A b \in Agents \ {a} : ~Deleting(b)' /\ job'[b].step \notin {"writeMark", "unlink"}
    <3>1. \A b \in Agents : job[b].step \in {"writeMark", "unlink"} => Deleting(b)
      BY JobFacts DEF BaseInv, Deleting
    <3>2. \A b \in Agents \ {a} : ~Deleting(b)
      BY <1>2, <2>1 DEF IdsOK, MarkOK
    <3> QED
      BY <1>1, <3>1, <3>2 DEF Others, Deleting
  <2>3. MarkOK'
    BY <1>2, <1>t, <1>i, <2>1, <2>2 DEF IdsOK, MarkOK, Known
  <2>4. HighestOK'
    BY <1>1, <1>2, <1>t, <1>i, <2>1 DEF IdsOK, HighestOK, Known, Others
  <2> QED
    BY <1>2, <2>1, <2>3, <2>4 DEF IdsOK
<1>10. CASE Unlinks(a)
  <2> DEFINE i == job[a].id
  <2>1. /\ file' = [file EXCEPT ![i] = Gone] /\ mark' = mark /\ given' = given
        /\ \A b \in Agents : job[b].step # "highest"
        /\ job'[a].step \in {"none", "sweep"} /\ i =< mark
    BY <1>1, <1>2, <1>10, <1>t DEF Unlinks, Moves, Jobs, NoJob, IdsOK, MarkOK
  <2>2. \A k \in Ids : k = i \/ file'[k] = file[k]
    BY <1>t, <2>1
  <2>3. MarkOK'
    BY <1>1, <1>2, <2>1, <2>2 DEF IdsOK, MarkOK, Known, Deleting, Others
  <2>4. \A b \in Agents : job[b].step = "create" => job[b].left = {}
    BY JobFacts DEF BaseInv
  <2>5. HighestOK'
    BY <1>1, <1>2, <2>1, <2>4 DEF IdsOK, HighestOK, Known, Others
  <2> QED
    BY <1>2, <2>1, <2>3, <2>5 DEF IdsOK
<1> QED
  BY <1>3, <1>4, <1>5, <1>6, <1>7, <1>8, <1>9, <1>10 DEF Does, Bystands

-----------------------------------------------------------------------------
(* What a job that holds a lock has seen is still there.                   *)

\* No file that is locked is changed by another, but for one that is being written when
\* the list is cleared.
LEMMA LockedFile ==
  ASSUME BaseInv, IdInv, IdInv', NEW a \in Agents, Does(a), "overlap" \notin faults',
         NEW b \in Agents, b # a, job[b].step \in LockSteps
  PROVE  \/ file'[job[b].id] = file[job[b].id]
         \/ job[b].step = "write" /\ file'[job[b].id] = Gone
<1> DEFINE i == job[b].id
<1>1. i \in Ids /\ lock[i] = b /\ Known(i) /\ b # None
  BY JobFacts, Basics DEF BaseInv, LockSteps, LocksOK, KnownOK
<1>t. file \in [Ids -> Tasks] /\ given \in [Ids -> Nat]
  BY DEF BaseInv, TypeOK
<1>2. CASE Opens(a) \/ Writes(a)
  <2>1. lock[job[a].id] = a
    BY <1>2 DEF Opens, Writes, BaseInv, LocksOK, LockSteps
  <2> QED
    BY <1>1, <1>2, <1>t, <2>1 DEF Opens, Writes
<1>3. CASE Creates(a)
  <2> DEFINE k == job[a].n + 1
  <2>1. k \in Ids /\ file' = [file EXCEPT ![k] = New] /\ given' = [given EXCEPT ![k] = @ + 1]
    BY <1>3 DEF Creates
  <2>2. given'[k] =< 1
    BY <2>1 DEF IdInv, Without
  <2>3. k # i
    BY <1>1, <1>t, <2>1, <2>2 DEF Known
  <2> QED
    BY <1>1, <1>t, <2>1, <2>3
<1>4. CASE Resets(a)
  BY <1>1, <1>4 DEF Resets, LockSteps
<1>5. CASE Unlinks(a)
  BY <1>1, <1>5, <1>t DEF Unlinks
<1> QED
  BY <1>1, <1>2, <1>3, <1>4, <1>5 DEF Does, Begins, Skips, TakesLock, GivesUp, ClaimStarts,
     ClaimReads, ClaimsGone, ListLocks, Reads, ReadsMark, WritesMark, Sweeps, Exits

\* How a job gets to hold a lock, or goes on holding it.
LEMMA LockStepMoves ==
  ASSUME BaseInv, NEW a \in Agents, Does(a), job'[a].step \in LockSteps
  PROVE  \/ /\ TakesLock(a) /\ job'[a].step = "open" /\ job'[a].id = Head(job[a].todo).id
            /\ job'[a].seen = file[Head(job[a].todo).id] /\ job'[a].kind = job[a].kind
            /\ job'[a].todo = job[a].todo /\ job[a].kind # "claim"
         \/ /\ Opens(a) /\ job'[a].step = "write" /\ job'[a].id = job[a].id
            /\ job'[a].seen = job[a].seen /\ job'[a].kind = job[a].kind
            /\ job'[a].todo = job[a].todo
         \/ /\ ClaimStarts(a) /\ job'[a].step = "claimList" /\ job'[a].id = job[a].id
            /\ job'[a].kind = "claim" /\ job'[a].todo = <<>>
         \/ /\ ClaimReads(a) /\ job'[a].step = "open" /\ job'[a].id = job[a].id
            /\ job'[a].seen = file[job[a].id] /\ job'[a].kind = "claim"
            /\ job'[a].todo = <<Update(job[a].id, {"owner"}, file[job[a].id],
                                       [file[job[a].id] EXCEPT !.owner = a])>>
<1>1. job[a] \in Jobs
  BY DEF BaseInv, TypeOK
<1>2. CASE TakesLock(a)
  <2>1. job[a].kind # "claim"
    BY <1>2, JobFacts DEF TakesLock, BaseInv, UpdateKinds
  <2> QED
    BY <1>1, <1>2, <2>1 DEF TakesLock, Moves, Jobs
<1>3. CASE Opens(a) \/ ClaimStarts(a)
  <2>1. ClaimStarts(a) => job[a].kind = "claim" /\ job[a].todo = <<>>
    BY JobFacts DEF ClaimStarts, BaseInv
  <2> QED
    BY <1>1, <1>3, <2>1 DEF Opens, ClaimStarts, Moves, Jobs
<1>4. CASE ClaimReads(a)
  <2>1. \A s, t : LET n == [job[a] EXCEPT !.step = "open", !.seen = s, !.todo = t] IN
          n.step = "open" /\ n.id = job[a].id /\ n.seen = s /\ n.todo = t /\ n.kind = job[a].kind
    BY <1>1 DEF Jobs
  <2>2. job[a].kind = "claim"
    BY <1>4, JobFacts DEF ClaimReads, BaseInv
  <2> QED
    BY <1>4, <2>1, <2>2 DEF ClaimReads, Moves
<1>5. CASE \E j \in Jobs : Begins(a, j)
  BY <1>5 DEF Begins, Moves, LockSteps
<1>6. CASE Skips(a) \/ Sweeps(a)
  BY <1>1, <1>6, AfterStep DEF Skips, Sweeps, Moves, LockSteps
<1>7. CASE Writes(a) \/ ClaimsGone(a)
  <2>1. [job[a] EXCEPT !.kind = "claimed"] \in Jobs
    BY <1>1 DEF Jobs
  <2> QED
    BY <1>1, <1>7, <2>1, AfterStep DEF Writes, WritesOther, WritesClaim, ClaimsGone, Moves,
       LockSteps
<1>8. CASE GivesUp(a) \/ Exits(a) \/ Creates(a) \/ Resets(a)
  BY <1>8 DEF GivesUp, Exits, Creates, Resets, Moves, NoJob, LockSteps
<1>9. CASE ListLocks(a) \/ ReadsMark(a) \/ WritesMark(a)
  BY <1>1, <1>9 DEF ListLocks, ReadsMark, WritesMark, Moves, Jobs, LockSteps
<1>10. CASE Unlinks(a)
  BY <1>1, <1>10 DEF Unlinks, Moves, Jobs, NoJob, LockSteps
<1>11. CASE Reads(a)
  <2>1. \A s, n, t : [job[a] EXCEPT !.left = s, !.n = n, !.step = t].step = t
    BY <1>1 DEF Jobs
  <2> QED
    BY <1>11, <2>1 DEF Reads, Moves, LockSteps
<1> QED
  BY <1>2, <1>3, <1>4, <1>5, <1>6, <1>7, <1>8, <1>9, <1>10, <1>11 DEF Does

SeenBy(a) ==
  LET j == job[a] IN
  /\ j.step = "claimList" =>
       Readable(j.id) /\ file[j.id].owner \in {None, a} /\ file[j.id].status # "completed"
  /\ j.step = "open" => Readable(j.id) /\ file[j.id] = j.seen
  /\ j.step = "write" => file[j.id] \in {Gone, Torn}
  /\ j.kind = "claim" /\ j.step \in {"open", "write"} =>
       j.seen.owner \in {None, a} /\ j.seen.status # "completed"

LEMMA SeenStep ==
  ASSUME BaseInv, IdInv, IdInv', SeenInv, NEW a \in Agents, Does(a)
  PROVE  SeenInv'
<1> SUFFICES ASSUME Without({"overlap"})', NEW b \in Agents
             PROVE  SeenBy(b)'
  BY DEF SeenInv, SeenOK, SeenBy
<1>1. faults \subseteq faults' /\ Others(a) /\ "overlap" \notin faults'
  BY FaultsGrow DEF Without
<1>2. SeenBy(a) /\ SeenBy(b)
  BY <1>1 DEF SeenInv, SeenOK, SeenBy, Without
<1>3. CASE b # a
  <2>1. job'[b] = job[b]
    BY <1>1, <1>3 DEF Others
  <2>2. CASE job[b].step \notin LockSteps
    BY <2>1, <2>2 DEF SeenBy, LockSteps
  <2>3. CASE job[b].step \in LockSteps
    <3>1. \/ file'[job[b].id] = file[job[b].id]
          \/ job[b].step = "write" /\ file'[job[b].id] = Gone
      BY <1>1, <1>3, <2>3, LockedFile
    <3> QED
      BY <1>2, <2>1, <3>1 DEF SeenBy, Readable
  <2> QED
    BY <2>2, <2>3
<1>4. CASE b = a /\ job'[a].step \in LockSteps
  <2>1. CASE TakesLock(a) /\ job'[a].step = "open" /\ job'[a].id = Head(job[a].todo).id
             /\ job'[a].seen = file[Head(job[a].todo).id] /\ job'[a].kind # "claim"
    BY <1>4, <2>1 DEF TakesLock, Readable, SeenBy
  <2>2. CASE Opens(a) /\ job'[a].step = "write" /\ job'[a].id = job[a].id
             /\ job'[a].seen = job[a].seen /\ job'[a].kind = job[a].kind
    <3>1. file'[job[a].id] = Torn
      BY <2>2, JobFacts DEF Opens, BaseInv, TypeOK
    <3> QED
      BY <1>2, <1>4, <2>2, <3>1 DEF SeenBy, Opens
  <2>3. CASE ClaimStarts(a) /\ job'[a].step = "claimList" /\ job'[a].id = job[a].id
    BY <1>4, <2>3 DEF ClaimStarts, Readable, SeenBy
  <2>4. CASE ClaimReads(a) /\ job'[a].step = "open" /\ job'[a].id = job[a].id
             /\ job'[a].seen = file[job[a].id]
    BY <1>2, <1>4, <2>4 DEF ClaimReads, Readable, SeenBy
  <2> QED
    BY <1>4, <2>1, <2>2, <2>3, <2>4, LockStepMoves
<1>5. CASE b = a /\ job'[a].step \notin LockSteps
  BY <1>5 DEF SeenBy, LockSteps
<1> QED
  BY <1>3, <1>4, <1>5

-----------------------------------------------------------------------------
(* Where the changes of a job come from.                                   *)

\* They were there before, but for the one that is done,
FromBefore(a, u) ==
  /\ job'[a].kind = job[a].kind
  /\ \E l \in DOMAIN job[a].todo : u = job[a].todo[l] /\ (Skips(a) \/ Writes(a) => l # 1)
\* or come with the job,
FromNewJob(a) == \E j \in Jobs : Begins(a, j) /\ job'[a] = j
\* or follow a claim that succeeded,
FromClaim(a, u) ==
  /\ Writes(a) \/ ClaimsGone(a)
  /\ job[a].kind = "claim" /\ job'[a].kind = "claimed" /\ u.id = job[a].id
  /\ \/ u.fields = {"status"} /\ u.val.status = "in_progress"
     \/ u.fields = {"owner"} /\ u.val.owner = None
\* or are the claim,
FromList(a, u) ==
  ClaimReads(a) /\ job'[a].kind = "claim" /\ u.id = job[a].id /\ u.fields = {"owner"}
\* or remove the references to a task that was deleted.
FromSweep(a, u) ==
  /\ Sweeps(a) /\ job'[a].kind = "delete"
  /\ u.id \in Listed /\ u.fields = {"blocks", "blockedBy"} /\ u.base = file[u.id]
  /\ u.val.blocks = u.base.blocks \ {job[a].id}
  /\ u.val.blockedBy = u.base.blockedBy \ {job[a].id}

LEMMA TailFrom ==
  ASSUME BaseInv, NEW a \in Agents, job[a].kind # "claim",
         job[a].step \in {"update", "open", "write"},
         NEW m, m = After(job[a], Tail(job[a].todo)), NEW k \in DOMAIN m.todo
  PROVE  m.kind = job[a].kind /\ \E l \in DOMAIN job[a].todo : m.todo[k] = job[a].todo[l] /\ l # 1
<1>1. m = NoJob \/ (m.kind = job[a].kind /\ m.todo = Tail(job[a].todo))
  BY LessTodo DEF BaseInv
<1>2. DOMAIN NoJob.todo = {}
  BY DEF NoJob
<1>3. job[a].todo \in Seq(Changes) /\ job[a].todo # <<>>
  BY JobFacts DEF BaseInv, Jobs
<1>4. /\ DOMAIN Tail(job[a].todo) = 1..(Len(job[a].todo) - 1) /\ Len(job[a].todo) \in Nat
      /\ \A l \in DOMAIN Tail(job[a].todo) :
           l + 1 \in DOMAIN job[a].todo /\ Tail(job[a].todo)[l] = job[a].todo[l + 1]
  BY <1>3, TailFacts
<1>5. k \in DOMAIN Tail(job[a].todo) /\ m.kind = job[a].kind /\ m.todo = Tail(job[a].todo)
  BY <1>1, <1>2
<1>6. k + 1 \in DOMAIN job[a].todo /\ m.todo[k] = job[a].todo[k + 1]
  BY <1>4, <1>5
<1>7. k + 1 # 1
  <2>1. k \in 1..(Len(job[a].todo) - 1) /\ Len(job[a].todo) \in Nat
    BY <1>4, <1>5
  <2> QED
    BY <2>1
<1> QED
  BY <1>5, <1>6, <1>7

LEMMA TodoFrom ==
  ASSUME BaseInv, NEW a \in Agents, Does(a), NEW k \in DOMAIN job'[a].todo,
         NEW u, u = job'[a].todo[k]
  PROVE  \/ FromBefore(a, u) \/ FromNewJob(a) \/ FromClaim(a, u) \/ FromList(a, u)
         \/ FromSweep(a, u)
<1> DEFINE m == job'[a]
<1>0. job[a] \in Jobs /\ DOMAIN NoJob.todo = {} /\ DOMAIN <<>> = {}
  BY DEF BaseInv, TypeOK, NoJob
<1>1. CASE \E j \in Jobs : Begins(a, j)
  BY <1>1 DEF FromNewJob, Begins, Moves
<1>2. CASE Skips(a)
  <2>1. job[a].kind # "claim" /\ job[a].step = "update" /\ m = After(job[a], Tail(job[a].todo))
    BY <1>2, JobFacts DEF Skips, BaseInv, UpdateKinds, Moves
  <2> QED
    BY <2>1, TailFrom DEF FromBefore
<1>3. CASE Writes(a) /\ WritesOther(a)
  <2>1. job[a].kind # "claim" /\ job[a].step = "write" /\ m = After(job[a], Tail(job[a].todo))
    BY <1>3 DEF Writes, WritesOther, Moves
  <2> QED
    BY <2>1, TailFrom DEF FromBefore
<1>4. ASSUME NEW i, i = job[a].id, i \in Ids, NEW t \in Tasks, NEW todo \in AfterClaim(i, t),
             Moves(a, After([job[a] EXCEPT !.kind = "claimed"], todo)),
             Writes(a) \/ ClaimsGone(a), job[a].kind = "claim"
      PROVE  FromClaim(a, u)
  <2>1. \/ m = NoJob
        \/ /\ m.kind = "claimed" /\ m.todo = todo /\ DOMAIN todo = {1} /\ todo[1].id = i
           /\ \/ todo[1].fields = {"status"} /\ todo[1].val.status = "in_progress"
              \/ todo[1].fields = {"owner"} /\ todo[1].val.owner = None
    BY <1>0, <1>4, ClaimedFacts DEF Moves
  <2> QED
    BY <1>0, <1>4, <2>1 DEF FromClaim
<1>5. CASE Writes(a) /\ WritesClaim(a)
  <2>1. job[a].id \in Ids /\ Written(a) \in Tasks /\ job[a].kind = "claim"
    BY <1>5, Locked, WrittenFacts DEF Writes, WritesClaim, LockSteps, BaseInv
  <2>2. PICK t \in Tasks : t = Written(a)
    BY <2>1
  <2>3. PICK todo \in AfterClaim(job[a].id, t) :
          Moves(a, After([job[a] EXCEPT !.kind = "claimed"], todo))
    BY <1>5, <2>2 DEF WritesClaim
  <2> QED
    BY <1>4, <1>5, <2>1, <2>3
<1>6. CASE ClaimsGone(a)
  <2>1. job[a].id \in Ids /\ job[a].kind = "claim" /\ file[job[a].id] \in Tasks
    BY <1>6, JobFacts DEF ClaimsGone, BaseInv, TypeOK
  <2>2. \A t \in Tasks : [t EXCEPT !.owner = a] \in Tasks
    BY DEF Tasks
  <2>3. PICK t \in Tasks : t = [file[job[a].id] EXCEPT !.owner = a]
    BY <2>1, <2>2
  <2>4. PICK todo \in AfterClaim(job[a].id, t) :
          Moves(a, After([job[a] EXCEPT !.kind = "claimed"], todo))
    BY <1>6, <2>3 DEF ClaimsGone
  <2> QED
    BY <1>4, <1>6, <2>1, <2>4
<1>7. CASE Sweeps(a)
  <2>1. PICK todo \in Seq(Changes) :
          /\ Moves(a, After(job[a], todo))
          /\ \A l \in DOMAIN todo :
               LET c == todo[l] IN
               /\ c.id \in Listed /\ c.fields = {"blocks", "blockedBy"} /\ c.base = file[c.id]
               /\ c.val.blocks = c.base.blocks \ {job[a].id}
               /\ c.val.blockedBy = c.base.blockedBy \ {job[a].id}
    BY <1>7 DEF Sweeps
  <2>2. m = NoJob \/ (m.todo = todo /\ m.kind = job[a].kind)
    BY <1>0, <2>1 DEF Moves, After, Jobs
  <2>3. job[a].kind = "delete"
    BY <1>7, JobFacts DEF Sweeps, BaseInv
  <2> QED
    BY <1>0, <1>7, <2>1, <2>2, <2>3 DEF FromSweep
<1>8. CASE TakesLock(a) \/ Opens(a) \/ ClaimStarts(a)
  <2>1. m.todo = job[a].todo /\ m.kind = job[a].kind /\ m.step \in LockSteps
    BY <1>0, <1>8 DEF TakesLock, Opens, ClaimStarts, Moves, Jobs, LockSteps
  <2>2. ~Skips(a) /\ ~Writes(a)
    <3>1. Skips(a) => m.step \in {"none", "update"}
      BY <1>0, AfterStep DEF Skips, Moves
    <3>2. Writes(a) => m.step \in {"none", "update"}
      <4>1. [job[a] EXCEPT !.kind = "claimed"] \in Jobs
        BY <1>0 DEF Jobs
      <4> QED
        BY <1>0, <4>1, AfterStep DEF Writes, WritesOther, WritesClaim, Moves
    <3> QED
      BY <2>1, <3>1, <3>2 DEF LockSteps
  <2> QED
    BY <2>1, <2>2 DEF FromBefore
<1>9. CASE ClaimReads(a)
  <2>1. \A s, t : LET n == [job[a] EXCEPT !.step = "open", !.seen = s, !.todo = t] IN
          n.todo = t /\ n.kind = job[a].kind
    BY <1>0 DEF Jobs
  <2>2. job[a].kind = "claim"
    BY <1>9, JobFacts DEF ClaimReads, BaseInv
  <2>3. PICK c : c = Update(job[a].id, {"owner"}, file[job[a].id],
                            [file[job[a].id] EXCEPT !.owner = a])
    OBVIOUS
  <2>4. c.id = job[a].id /\ c.fields = {"owner"}
    BY <2>3 DEF Update
  <2>5. m.todo = <<c>> /\ m.kind = "claim"
    BY <1>9, <2>1, <2>2, <2>3 DEF ClaimReads, Moves
  <2>6. u = c
    BY <2>5
  <2> QED
    BY <1>9, <2>4, <2>5, <2>6 DEF FromList
<1>10. CASE GivesUp(a) \/ Exits(a) \/ Creates(a) \/ Resets(a)
  BY <1>0, <1>10 DEF GivesUp, Exits, Creates, Resets, Moves
<1>11. CASE ListLocks(a) \/ Reads(a) \/ ReadsMark(a) \/ WritesMark(a) \/ Unlinks(a)
  <2>1. job[a].todo = <<>>
    BY <1>11, JobFacts DEF ListLocks, Reads, ReadsMark, WritesMark, Unlinks, BaseInv
  <2>2. m = NoJob \/ m.todo = job[a].todo
    <3>1. CASE ListLocks(a) \/ ReadsMark(a) \/ WritesMark(a)
      BY <1>0, <3>1 DEF ListLocks, ReadsMark, WritesMark, Moves, Jobs
    <3>2. CASE Unlinks(a)
      BY <1>0, <3>2 DEF Unlinks, Moves, Jobs
    <3>3. CASE Reads(a)
      <4>1. \A s, n, t : [job[a] EXCEPT !.left = s, !.n = n, !.step = t].todo = job[a].todo
        BY <1>0 DEF Jobs
      <4> QED
        BY <3>3, <4>1 DEF Reads, Moves
    <3> QED
      BY <1>11, <3>1, <3>2, <3>3
  <2> QED
    BY <1>0, <2>1, <2>2
<1> QED
  BY <1>1, <1>2, <1>3, <1>5, <1>6, <1>7, <1>8, <1>9, <1>10, <1>11 DEF Does, Writes

-----------------------------------------------------------------------------
(* Completed tasks stay completed.                                         *)

LEMMA ChangedFacts ==
  ASSUME NEW t, NEW u
  PROVE  /\ Changed(t, u).owner = IF "owner" \in u.fields THEN u.val.owner ELSE t.owner
         /\ Changed(t, u).status = IF "status" \in u.fields THEN u.val.status ELSE t.status
         /\ Changed(t, u).blocks = IF "blocks" \in u.fields THEN u.val.blocks ELSE t.blocks
         /\ Changed(t, u).blockedBy = IF "blockedBy" \in u.fields THEN u.val.blockedBy
                                      ELSE t.blockedBy
  BY DEF Changed

\* What is completed by a step.
LEMMA DoneGrows ==
  ASSUME BaseInv, NEW a \in Agents, Does(a), NEW i \in done', i \notin done
  PROVE  /\ Writes(a) /\ i = job[a].id /\ Finishes(a) /\ file'[i] = Written(a)
         /\ job[a].kind # "claim" /\ Written(a).status = "completed"
<1>1. Writes(a) /\ i = job[a].id /\ Finishes(a) /\ file[i] # Gone
  BY DEF Does, Begins, Skips, TakesLock, GivesUp, Opens, Writes, ClaimStarts, ClaimReads,
     ClaimsGone, ListLocks, Reads, Creates, Resets, ReadsMark, WritesMark, Unlinks, Sweeps,
     Exits, Aside
<1>2. job[a].kind # "claim"
  <2>1. /\ Written(a).status = IF "status" \in Head(job[a].todo).fields
                                 THEN Head(job[a].todo).val.status ELSE job[a].seen.status
        /\ job[a].kind = "claim" => Head(job[a].todo).fields = {"owner"}
    BY <1>1, WrittenFacts DEF BaseInv, Writes
  <2> QED
    BY <1>1, <2>1 DEF Finishes
<1>3. file'[i] = Written(a)
  <2>1. file \in [Ids -> Tasks] /\ i \in Ids
    BY <1>1, Locked DEF Writes, BaseInv, TypeOK, LockSteps
  <2> QED
    BY <1>1, <2>1 DEF Writes
<1> QED
  BY <1>1, <1>2, <1>3 DEF Finishes

DoneBy(a) ==
  LET j == job[a] IN
  /\ j.kind = "claim" /\ j.step \in LockSteps => j.id \notin done
  /\ j.step \in {"open", "write"} /\ j.id \in done =>
       Changed(j.seen, Head(j.todo)).status = "completed"
  /\ \A k \in DOMAIN j.todo :
       "status" \in j.todo[k].fields /\ j.todo[k].id \in done =>
         j.todo[k].val.status = "completed"

LEMMA DoneFiles ==
  ASSUME BaseInv, DoneOK, NEW a \in Agents, Does(a), NEW i \in done'
  PROVE  file'[i].status \in {"completed", "torn", "gone"}
<1>t. file \in [Ids -> Tasks] /\ i \in Ids \cup done'
  BY DEF BaseInv, TypeOK
<1>1. CASE i \notin done
  BY <1>1, DoneGrows
<1>2. CASE i \in done
  <2>1. i \in Ids /\ file[i].status \in {"completed", "torn", "gone"}
    BY <1>2 DEF DoneOK, BaseInv, TypeOK
  <2>2. CASE Opens(a)
    BY <1>t, <2>1, <2>2, Basics DEF Opens
  <2>3. CASE Writes(a)
    <3>1. job[a].id = i => Written(a).status = "completed"
      BY <1>2, <2>3 DEF DoneOK, Writes, Written
    <3> QED
      BY <1>t, <2>1, <2>3, <3>1, Basics DEF Writes
  <2>4. CASE Creates(a) \/ Resets(a) \/ Unlinks(a)
    BY <1>t, <2>1, <2>4, Basics DEF Creates, Resets, Unlinks
  <2> QED
    BY <2>1, <2>2, <2>3, <2>4 DEF Does, Begins, Skips, TakesLock, GivesUp, ClaimStarts,
       ClaimReads, ClaimsGone, ListLocks, Reads, ReadsMark, WritesMark, Sweeps, Exits
<1> QED
  BY <1>1, <1>2

\* The other agents: the task that was completed was locked, and nobody had decided on it.
LEMMA DoneOthers ==
  ASSUME BaseInv, DoneOK, NEW a \in Agents, Does(a), "late" \notin faults',
         NEW b \in Agents, b # a
  PROVE  DoneBy(b)'
<1>1. job'[b] = job[b] /\ DoneBy(b)
  BY FaultsGrow DEF Others, DoneOK, DoneBy
<1>2. ASSUME NEW i \in done', i \notin done
      PROVE  /\ job[b].step \in LockSteps => job[b].id # i
             /\ \A k \in DOMAIN job[b].todo :
                  job[b].todo[k].id = i => "status" \notin job[b].todo[k].fields
  <2>1. Writes(a) /\ i = job[a].id /\ Finishes(a)
    BY <1>2, DoneGrows
  <2>2. lock[i] = a
    BY <2>1, Locked DEF Writes, LockSteps
  <2>3. ~Decided(a, i)
    BY <2>1 DEF Writes
  <2> QED
    BY <2>2, <2>3, Locked DEF Decided
<1> QED
  BY <1>1, <1>2 DEF DoneBy, LockSteps

LEMMA DoneMoved ==
  ASSUME BaseInv, BaseInv', DoneOK, NEW a \in Agents, Does(a)
  PROVE  DoneBy(a)'
<1>0. DoneBy(a) /\ \A i \in done : file[i].status \in {"completed", "torn", "gone"}
  BY DEF DoneOK, DoneBy
<1>1. CASE job'[a].step \in LockSteps
  <2>1. done' \subseteq done
    <3>1. Writes(a) => job'[a].step \in {"none", "update"}
      <4>1. job[a] \in Jobs
        BY DEF BaseInv, TypeOK
      <4>2. [job[a] EXCEPT !.kind = "claimed"] \in Jobs
        BY <4>1 DEF Jobs
      <4> QED
        BY <4>1, <4>2, AfterStep DEF Writes, WritesOther, WritesClaim, Moves
    <3> QED
      BY <1>1, <3>1, DoneGrows DEF LockSteps
  <2>2. CASE /\ TakesLock(a) /\ job'[a].step = "open" /\ job'[a].id = Head(job[a].todo).id
             /\ job'[a].seen = file[Head(job[a].todo).id] /\ job'[a].kind = job[a].kind
             /\ job'[a].todo = job[a].todo /\ job[a].kind # "claim"
    <3>1. 1 \in DOMAIN job[a].todo /\ Head(job[a].todo) = job[a].todo[1]
      BY <2>2, JobFacts, TailFacts DEF TakesLock, BaseInv, Jobs
    <3>2. job'[a].id \in done => job'[a].seen.status = "completed"
      BY <1>0, <2>2 DEF TakesLock, Readable
    <3> QED
      BY <1>0, <2>1, <2>2, <3>1, <3>2, ChangedFacts DEF DoneBy
  <2>3. CASE /\ Opens(a) /\ job'[a].step = "write" /\ job'[a].id = job[a].id
             /\ job'[a].seen = job[a].seen /\ job'[a].kind = job[a].kind
             /\ job'[a].todo = job[a].todo
    <3>1. job[a].step = "open"
      BY <2>3 DEF Opens
    <3> QED
      BY <1>0, <2>1, <2>3, <3>1 DEF DoneBy, LockSteps
  <2>4. CASE /\ ClaimStarts(a) /\ job'[a].step = "claimList" /\ job'[a].id = job[a].id
             /\ job'[a].kind = "claim" /\ job'[a].todo = <<>>
    BY <1>0, <2>1, <2>4 DEF ClaimStarts, Readable, DoneBy
  <2>5. CASE /\ ClaimReads(a) /\ job'[a].step = "open" /\ job'[a].id = job[a].id
             /\ job'[a].kind = "claim"
             /\ job'[a].todo = <<Update(job[a].id, {"owner"}, file[job[a].id],
                                        [file[job[a].id] EXCEPT !.owner = a])>>
    <3>1. job[a].kind = "claim" /\ job[a].step = "claimList"
      BY <2>5, JobFacts DEF ClaimReads, BaseInv
    <3>2. job[a].id \notin done
      BY <1>0, <3>1 DEF DoneBy, LockSteps
    <3>3. \A k \in DOMAIN job'[a].todo : job'[a].todo[k].fields = {"owner"}
      <4>1. PICK c : c = Update(job[a].id, {"owner"}, file[job[a].id],
                                [file[job[a].id] EXCEPT !.owner = a])
        OBVIOUS
      <4>2. c.fields = {"owner"}
        BY <4>1 DEF Update
      <4>3. job'[a].todo = <<c>>
        BY <2>5, <4>1
      <4> QED
        BY <4>2, <4>3
    <3> QED
      BY <2>1, <2>5, <3>2, <3>3 DEF DoneBy
  <2> QED
    BY <1>1, <2>2, <2>3, <2>4, <2>5, LockStepMoves
<1>2. CASE job'[a].step \notin LockSteps
  <2> SUFFICES ASSUME NEW k \in DOMAIN job'[a].todo, "status" \in job'[a].todo[k].fields,
                      job'[a].todo[k].id \in done'
               PROVE  job'[a].todo[k].val.status = "completed"
    BY <1>2 DEF DoneBy, LockSteps
  <2> PICK u : u = job'[a].todo[k]
    OBVIOUS
  <2>1. CASE FromBefore(a, u)
    <3>1. PICK l \in DOMAIN job[a].todo : u = job[a].todo[l] /\ (Skips(a) \/ Writes(a) => l # 1)
      BY <2>1 DEF FromBefore
    <3>2. u.id \in done
      <4>1. SUFFICES ASSUME u.id \notin done
                     PROVE  FALSE
        OBVIOUS
      <4>2. Writes(a) /\ u.id = job[a].id /\ job[a].kind # "claim"
        BY <4>1, DoneGrows
      <4>3. /\ \A x, y \in DOMAIN job[a].todo : job[a].todo[x].id = job[a].todo[y].id => x = y
            /\ Head(job[a].todo).id = job[a].id /\ 1 \in DOMAIN job[a].todo
            /\ Head(job[a].todo) = job[a].todo[1]
        BY <4>2, JobFacts, TailFacts DEF Writes, BaseInv, Jobs
      <4> QED
        BY <3>1, <4>2, <4>3
    <3> QED
      BY <1>0, <3>1, <3>2 DEF DoneBy
  <2>2. CASE FromNewJob(a)
    <3>1. PICK j \in Jobs : Begins(a, j) /\ job'[a] = j
      BY <2>2 DEF FromNewJob
    <3>2. done' = done /\ u.id \in Listed
      BY <3>1 DEF Begins, Aside
    <3>3. file[u.id].status = "completed"
      BY <1>0, <3>2 DEF Listed, Readable
    <3>4. j.kind \in {"finish", "block", "unassign"} /\ ChangeOK(j.kind, u)
      <4>1. JobOK(a, j) /\ j.step \in {"claim", "update", "listLock", "readMark"} /\ BeginsWith(j)
        BY <3>1 DEF Begins
      <4>2. j.todo # <<>>
        BY <3>1
      <4>3. j.kind \in {"finish", "block", "unassign"}
        BY <4>1, <4>2 DEF BeginsWith
      <4> QED
        BY <3>1, <4>1, <4>2, <4>3 DEF JobOK, NoJob
    <3>5. j.kind = "unassign" => file[u.id].status # "completed"
      BY <3>1 DEF Begins, BeginsWith
    <3> QED
      BY <3>3, <3>4, <3>5 DEF ChangeOK
  <2>3. CASE FromClaim(a, u)
    <3>1. job[a].kind = "claim" /\ u.id = job[a].id /\ job[a].step \in LockSteps
      BY <2>3 DEF FromClaim, Writes, ClaimsGone, LockSteps
    <3>2. u.id \notin done
      BY <1>0, <3>1 DEF DoneBy
    <3> QED
      BY <3>1, <3>2, DoneGrows
  <2>4. CASE FromList(a, u) \/ FromSweep(a, u)
    BY <2>4 DEF FromList, FromSweep
  <2> QED
    BY <2>1, <2>2, <2>3, <2>4, TodoFrom
<1> QED
  BY <1>1, <1>2

LEMMA DoneStep ==
  ASSUME BaseInv, BaseInv', DoneInv, NEW a \in Agents, Does(a)
  PROVE  DoneInv'
<1> SUFFICES ASSUME "late" \notin faults'
             PROVE  DoneOK'
  BY DEF DoneInv, Without
<1>1. DoneOK
  BY FaultsGrow DEF DoneInv, Without
<1>2. \A i \in done' : file'[i].status \in {"completed", "torn", "gone"}
  BY <1>1, DoneFiles
<1>3. \A b \in Agents : DoneBy(b)'
  BY <1>1, DoneOthers, DoneMoved
<1> QED
  BY <1>2, <1>3 DEF DoneOK, DoneBy

-----------------------------------------------------------------------------
(* One agent works on a task.                                              *)

\* How the agents that work on a task change.
LEMMA HoldsChange ==
  ASSUME BaseInv, SeenOK, NEW a \in Agents, Does(a), NEW i \in Ids
  PROVE  \/ holds'[i] \subseteq holds[i]
         \/ /\ Writes(a) /\ job[a].kind = "claim" /\ i = job[a].id
            /\ holds'[i] = holds[i] \cup {a} /\ Written(a).owner = a
<1>t. holds \in [Ids -> SUBSET Agents]
  BY DEF BaseInv, TypeOK
<1>1. CASE Writes(a)
  <2>1. job[a].kind = "claim" => Written(a).owner = a
    BY <1>1, WrittenFacts DEF BaseInv, Writes
  <2> QED
    BY <1>t, <1>1, <2>1 DEF Writes, WritesOther, WritesClaim
<1>2. ~ClaimsGone(a)
  BY Basics DEF ClaimsGone, SeenOK, Readable
<1>3. CASE Creates(a) \/ Resets(a) \/ Unlinks(a) \/ Exits(a)
  BY <1>t, <1>3 DEF Creates, Resets, Unlinks, Exits
<1> QED
  BY <1>1, <1>2, <1>3 DEF Does, Begins, Skips, TakesLock, GivesUp, Opens, ClaimStarts,
     ClaimReads, ListLocks, Reads, ReadsMark, WritesMark, Sweeps, Aside

\* How a file that can be read changes.
LEMMA ReadableChange ==
  ASSUME BaseInv, IdInv', "overlap" \notin faults', NEW a \in Agents, Does(a), NEW i \in Ids,
         Readable(i)'
  PROVE  \/ file'[i] = file[i]
         \/ Writes(a) /\ i = job[a].id /\ file'[i] = Written(a)
         \/ /\ Creates(a) /\ file'[i] = New /\ ~Known(i) /\ holds'[i] = {} /\ i \notin done'
            /\ job'[a] = NoJob
<1>t. file \in [Ids -> Tasks] /\ given \in [Ids -> Nat] /\ holds \in [Ids -> SUBSET Agents]
  BY DEF BaseInv, TypeOK
<1>0. file'[i] # Torn /\ file'[i] # Gone
  BY Basics DEF Readable
<1>1. CASE Opens(a)
  BY <1>t, <1>0, <1>1 DEF Opens
<1>2. CASE Writes(a)
  BY <1>t, <1>0, <1>2 DEF Writes
<1>3. CASE Creates(a)
  <2> DEFINE k == job[a].n + 1
  <2>1. /\ k \in Ids /\ file' = [file EXCEPT ![k] = New] /\ given' = [given EXCEPT ![k] = @ + 1]
        /\ holds' = [holds EXCEPT ![k] = {}] /\ done' = done \ {k} /\ job'[a] = NoJob
    BY <1>3 DEF Creates, Moves
  <2>2. given'[k] =< 1
    BY <2>1 DEF IdInv, Without
  <2>3. ~Known(k)
    BY <1>t, <2>1, <2>2 DEF Known
  <2> QED
    BY <1>3, <1>t, <2>1, <2>3
<1>4. CASE Resets(a) \/ Unlinks(a)
  BY <1>t, <1>0, <1>4 DEF Resets, Unlinks
<1> QED
  BY <1>1, <1>2, <1>3, <1>4 DEF Does, Begins, Skips, TakesLock, GivesUp, ClaimStarts,
     ClaimReads, ClaimsGone, ListLocks, Reads, ReadsMark, WritesMark, Sweeps, Exits

\* The kind of a job that goes on.
LEMMA KindAfter ==
  ASSUME BaseInv, NEW a \in Agents, Does(a)
  PROVE  job'[a].kind \in {job[a].kind, "claimed", "none"} \/ FromNewJob(a)
<1>1. job[a] \in Jobs /\ NoJob.kind = "none"
  BY DEF BaseInv, TypeOK, NoJob
<1>2. \A j \in Jobs : \A todo : After(j, todo).kind \in {j.kind, "none"}
  BY <1>1 DEF After, Jobs
<1>3. CASE Writes(a) \/ ClaimsGone(a)
  <2>1. [job[a] EXCEPT !.kind = "claimed"] \in Jobs /\ [job[a] EXCEPT !.kind = "claimed"].kind = "claimed"
    BY <1>1 DEF Jobs
  <2> DEFINE jc == [job[a] EXCEPT !.kind = "claimed"]
  <2>2. WritesClaim(a) \/ ClaimsGone(a) => \E todo : job'[a] = After(jc, todo)
    BY DEF WritesClaim, ClaimsGone, Moves
  <2>3. WritesOther(a) => \E todo : job'[a] = After(job[a], todo)
    BY DEF WritesOther, Moves
  <2> HIDE DEF jc
  <2>4. WritesClaim(a) \/ WritesOther(a) \/ ClaimsGone(a)
    BY <1>3 DEF Writes
  <2>5. jc \in Jobs /\ jc.kind = "claimed"
    BY <2>1 DEF jc
  <2> QED
    BY <1>1, <1>2, <2>2, <2>3, <2>4, <2>5
<1>4. CASE Skips(a) \/ Sweeps(a)
  BY <1>1, <1>2, <1>4 DEF Skips, Sweeps, Moves
<1>5. CASE TakesLock(a) \/ Opens(a) \/ ClaimStarts(a) \/ ReadsMark(a) \/ WritesMark(a)
  BY <1>1, <1>5 DEF TakesLock, Opens, ClaimStarts, ReadsMark, WritesMark, Moves, Jobs
<1>6. CASE ListLocks(a) \/ Unlinks(a)
  BY <1>1, <1>6 DEF ListLocks, Unlinks, Moves, Jobs
<1>7. CASE Reads(a)
  <2>1. \A s, n, t : [job[a] EXCEPT !.left = s, !.n = n, !.step = t].kind = job[a].kind
    BY <1>1 DEF Jobs
  <2> QED
    BY <1>7, <2>1 DEF Reads, Moves
<1>8. CASE ClaimReads(a)
  <2>1. \A s, t : [job[a] EXCEPT !.step = "open", !.seen = s, !.todo = t].kind = job[a].kind
    BY <1>1 DEF Jobs
  <2> QED
    BY <1>8, <2>1 DEF ClaimReads, Moves
<1>9. CASE GivesUp(a) \/ Exits(a) \/ Creates(a) \/ Resets(a)
  BY <1>1, <1>9 DEF GivesUp, Exits, Creates, Resets, Moves
<1>10. (\E j \in Jobs : Begins(a, j)) => FromNewJob(a)
  BY DEF Begins, Moves, FromNewJob
<1> QED
  BY <1>3, <1>4, <1>5, <1>6, <1>7, <1>8, <1>9, <1>10 DEF Does

LEMMA HoldersStep ==
  ASSUME BaseInv, HoldersOK, NEW a \in Agents, Does(a)
  PROVE  HoldersOK'
<1>t. holds \in [Ids -> SUBSET Agents] /\ alive \in [Agents -> BOOLEAN]
  BY DEF BaseInv, TypeOK
<1>1. ASSUME NEW i \in Ids, NEW b \in Agents, b \in holds'[i]
      PROVE  alive'[b]
  <2>1. CASE Exits(a)
    BY <1>1, <1>t, <2>1 DEF Exits, HoldersOK
  <2>2. CASE Writes(a) \/ ClaimsGone(a)
    <3>1. alive[a] /\ alive' = alive
      BY <2>2, Busy DEF Writes, ClaimsGone
    <3>2. holds'[i] \subseteq holds[i] \cup {a}
      BY <1>t, <2>2 DEF Writes, WritesOther, WritesClaim, ClaimsGone
    <3> QED
      BY <1>1, <3>1, <3>2 DEF HoldersOK
  <2>3. CASE Creates(a) \/ Resets(a) \/ Unlinks(a)
    BY <1>1, <1>t, <2>3 DEF Creates, Resets, Unlinks, HoldersOK
  <2> QED
    BY <1>1, <2>1, <2>2, <2>3 DEF Does, Begins, Skips, TakesLock, GivesUp, Opens, ClaimStarts,
       ClaimReads, ListLocks, Reads, ReadsMark, WritesMark, Sweeps, Aside, HoldersOK
<1>2. ASSUME NEW b \in Agents, NEW c \in Agents, job'[b].kind = "unassign",
             job'[c].kind = "unassign"
      PROVE  b = c
  <2>1. \A d \in Agents : d # a => job'[d] = job[d]
    BY FaultsGrow DEF Others
  <2>2. CASE job[a].kind = "unassign" \/ job'[a].kind # "unassign"
    BY <1>2, <2>1, <2>2 DEF HoldersOK
  <2>3. CASE job[a].kind # "unassign" /\ job'[a].kind = "unassign"
    <3>1. PICK j \in Jobs : Begins(a, j) /\ j.kind = "unassign"
      BY <2>3, KindAfter DEF FromNewJob
    <3>2. \A d \in Agents : job[d].kind # "unassign"
      BY <3>1 DEF Begins, BeginsWith
    <3> QED
      BY <1>2, <2>1, <3>2
  <2> QED
    BY <2>2, <2>3
<1> QED
  BY <1>1, <1>2 DEF HoldersOK

\* A job that is to release a task and a job of another that writes it never disagree on
\* the owner.
LEMMA WriterOwner ==
  ASSUME BaseInv, HoldersOK, HoldsOK, SeenOK, NEW a \in Agents, NEW c \in Agents, c # a,
         Writes(a), Releases(c, job[a].id)
  PROVE  job[a].kind # "claim" /\ Written(a).owner \in Owners(c)
<1> DEFINE i == job[a].id
<1>1. /\ i \in Ids /\ alive[a] /\ job[a].step = "write" /\ lock[i] = a
  BY Busy, Locked DEF Writes, LockSteps
<1>2. job[a].seen.owner \in Owners(c)
  BY <1>1 DEF HoldsOK
<1>3. job[c].kind \in {"claimed", "unassign"} /\ alive[c] /\ None \notin Agents
  <2>1. job[c].kind \in {"claimed", "unassign"}
    BY DEF Releases
  <2> QED
    BY <2>1, AgentsAssumption DEF BaseInv, JobsOK, NoJob
<1>4. job[a].kind # "claim"
  <2> SUFFICES ASSUME job[a].kind = "claim"
               PROVE  FALSE
    OBVIOUS
  <2>1. job[a].seen.owner \in {None, a}
    BY <1>1 DEF SeenOK
  <2> QED
    BY <1>1, <1>2, <1>3, <2>1 DEF Owners
<1>5. /\ Written(a).owner = IF "owner" \in Head(job[a].todo).fields
                              THEN Head(job[a].todo).val.owner ELSE job[a].seen.owner
      /\ ChangeOK(job[a].kind, Head(job[a].todo))
  BY <1>1, <1>4, WrittenFacts DEF BaseInv
<1>6. "owner" \notin Head(job[a].todo).fields
  <2> SUFFICES ASSUME "owner" \in Head(job[a].todo).fields
               PROVE  FALSE
    OBVIOUS
  <2>1. job[a].kind \in {"claimed", "unassign"}
    BY <1>5 DEF ChangeOK
  <2>2. /\ Head(job[a].todo).id = i /\ 1 \in DOMAIN job[a].todo
        /\ Head(job[a].todo) = job[a].todo[1]
    BY <1>1, JobFacts, TailFacts DEF BaseInv, Jobs
  <2>3. Releases(a, i)
    BY <2>1, <2>2 DEF Releases
  <2>4. job[a].seen.owner \in Owners(a)
    BY <1>1, <2>3 DEF HoldsOK
  <2> QED
    BY <1>1, <1>2, <1>3, <2>1, <2>4 DEF Owners, HoldersOK
<1> QED
  BY <1>2, <1>4, <1>5, <1>6

LEMMA HoldsOne ==
  ASSUME BaseInv, IdInv', HoldersOK, HoldsOK, SeenOK, "overlap" \notin faults',
         NEW a \in Agents, Does(a), NEW i \in Ids
  PROVE  /\ \A b, c \in holds'[i] : b = c
         /\ Readable(i)' => holds'[i] \subseteq {file'[i].owner}
<1>t. /\ holds \in [Ids -> SUBSET Agents] /\ None \notin Agents /\ alive \in [Agents -> BOOLEAN]
      /\ file \in [Ids -> Tasks]
  BY AgentsAssumption DEF BaseInv, TypeOK
<1>0. \A b, c \in holds[i] : b = c
  BY DEF HoldsOK
<1>1. CASE /\ Writes(a) /\ job[a].kind = "claim" /\ i = job[a].id
           /\ holds'[i] = holds[i] \cup {a} /\ Written(a).owner = a
  <2>1. holds[i] \subseteq {job[a].seen.owner} /\ job[a].seen.owner \in {None, a}
    BY <1>1 DEF HoldsOK, SeenOK, Writes
  <2>2. holds'[i] = {a}
    BY <1>t, <1>1, <2>1
  <2>3. Readable(i)' => file'[i] = Written(a)
    BY <1>1, <1>t, Basics DEF Writes, Readable
  <2> QED
    BY <1>1, <2>2, <2>3
<1>2. CASE holds'[i] \subseteq holds[i]
  <2>1. \A b, c \in holds'[i] : b = c
    BY <1>0, <1>2
  <2>2. ASSUME Readable(i)'
        PROVE  holds'[i] \subseteq {file'[i].owner}
    <3>1. CASE file'[i] = file[i]
      BY <1>2, <2>2, <3>1 DEF HoldsOK, Readable
    <3>2. CASE holds'[i] = {}
      BY <3>2
    <3>3. CASE Writes(a) /\ i = job[a].id /\ file'[i] = Written(a)
      <4>1. holds[i] \subseteq {job[a].seen.owner} /\ job[a].step = "write"
        BY <3>3 DEF HoldsOK, Writes
      <4>2. CASE "owner" \notin Head(job[a].todo).fields
        <5>1. Written(a).owner = job[a].seen.owner
          BY <4>1, <4>2, WrittenFacts DEF BaseInv
        <5> QED
          BY <1>2, <3>3, <4>1, <5>1
      <4>3. CASE "owner" \in Head(job[a].todo).fields /\ job[a].kind = "claim"
        <5>1. Written(a).owner = a
          BY <4>1, <4>3, WrittenFacts DEF BaseInv
        <5>2. job[a].seen.owner \in {None, a}
          BY <4>1, <4>3 DEF SeenOK
        <5> QED
          BY <1>2, <1>t, <3>3, <4>1, <5>1, <5>2
      <4>4. CASE "owner" \in Head(job[a].todo).fields /\ job[a].kind # "claim"
        <5>1. job[a].kind \in {"claimed", "unassign"}
          BY <4>1, <4>4, WrittenFacts DEF ChangeOK, BaseInv
        <5>2. /\ Head(job[a].todo).id = i /\ 1 \in DOMAIN job[a].todo
              /\ Head(job[a].todo) = job[a].todo[1]
          BY <3>3, <4>1, JobFacts, TailFacts DEF BaseInv, Jobs
        <5>3. Releases(a, i)
          BY <4>4, <5>1, <5>2 DEF Releases
        <5>4. holds[i] \subseteq Owners(a) /\ \A b \in holds[i] : alive[b]
          BY <1>t, <5>3 DEF HoldsOK, HoldersOK
        <5>5. holds[i] \subseteq {a}
          BY <5>1, <5>4 DEF Owners
        <5>6. holds'[i] = {} \/ holds'[i] = holds[i] \ {a}
          BY <1>t, <3>3, <4>4 DEF Writes, WritesOther, WritesClaim
        <5> QED
          BY <5>5, <5>6
      <4> QED
        BY <4>2, <4>3, <4>4
    <3> QED
      BY <2>2, <3>1, <3>2, <3>3, ReadableChange
  <2> QED
    BY <2>1, <2>2
<1> QED
  BY <1>1, <1>2, HoldsChange

\* What a job that writes has seen, against what others hold.
LEMMA HoldsSeen ==
  ASSUME BaseInv, IdInv', HoldsOK, SeenOK, "overlap" \notin faults',
         NEW a \in Agents, Does(a), NEW b \in Agents, job'[b].step \in {"open", "write"}
  PROVE  holds'[job'[b].id] \subseteq {job'[b].seen.owner}
<1>1. CASE b # a
  <2>1. job'[b] = job[b]
    BY <1>1, FaultsGrow DEF Others
  <2>2. job[b].id \in Ids /\ lock[job[b].id] = b
    BY <2>1, Locked DEF LockSteps
  <2>3. ~(Writes(a) /\ job[b].id = job[a].id)
    <3>1. Writes(a) => lock[job[a].id] = a
      BY Locked DEF Writes, LockSteps
    <3> QED
      BY <1>1, <2>2, <3>1
  <2>4. holds'[job[b].id] \subseteq holds[job[b].id]
    BY <2>2, <2>3, HoldsChange
  <2> QED
    BY <2>1, <2>4 DEF HoldsOK
<1>2. CASE b = a
  <2>0. job'[a].step \in LockSteps /\ job'[a].step \in {"open", "write"}
    BY <1>2 DEF LockSteps
  <2>1. CASE /\ TakesLock(a) /\ job'[a].id = Head(job[a].todo).id
             /\ job'[a].seen = file[Head(job[a].todo).id]
    <3>1. holds' = holds
      BY <2>1 DEF TakesLock, Aside
    <3>2. Head(job[a].todo).id \in Ids /\ Readable(Head(job[a].todo).id)
      BY <2>1 DEF TakesLock
    <3> QED
      BY <1>2, <2>1, <3>1, <3>2 DEF HoldsOK
  <2>2. CASE Opens(a) /\ job'[a].id = job[a].id /\ job'[a].seen = job[a].seen
    BY <1>2, <2>2 DEF Opens, Aside, HoldsOK
  <2>3. CASE /\ ClaimReads(a) /\ job'[a].id = job[a].id /\ job'[a].seen = file[job[a].id]
    <3>1. holds' = holds /\ job[a].step = "claimList"
      BY <2>3 DEF ClaimReads, Aside
    <3>2. job[a].id \in Ids /\ Readable(job[a].id)
      BY <3>1, Locked DEF SeenOK, LockSteps
    <3> QED
      BY <1>2, <2>3, <3>1, <3>2 DEF HoldsOK
  <2> QED
    BY <2>0, <2>1, <2>2, <2>3, LockStepMoves
<1> QED
  BY <1>1, <1>2

\* What the release of i by c rests on.
ReleaseOK(c, i) ==
  /\ holds[i] \subseteq Owners(c)
  /\ Readable(i) => file[i].owner \in Owners(c)
  /\ \A b \in Agents : job[b].step \in {"open", "write"} /\ job[b].id = i =>
       job[b].seen.owner \in Owners(c)

\* What a job that writes has seen, against who is to be removed.
LEMMA SeenOwner ==
  ASSUME BaseInv, SeenOK, NEW a \in Agents, Does(a), NEW i \in Ids, NEW O,
         Readable(i) => file[i].owner \in O,
         \A b \in Agents : job[b].step \in {"open", "write"} /\ job[b].id = i =>
           job[b].seen.owner \in O,
         NEW b \in Agents, job'[b].step \in {"open", "write"}, job'[b].id = i
  PROVE  job'[b].seen.owner \in O
<1>1. CASE b # a
  BY <1>1, FaultsGrow DEF Others
<1>2. CASE b = a
  <2>0. job'[a].step \in LockSteps /\ job'[a].step \in {"open", "write"}
    BY <1>2 DEF LockSteps
  <2>1. CASE /\ TakesLock(a) /\ job'[a].id = Head(job[a].todo).id
             /\ job'[a].seen = file[Head(job[a].todo).id]
    BY <1>2, <2>1 DEF TakesLock
  <2>2. CASE Opens(a) /\ job'[a].id = job[a].id /\ job'[a].seen = job[a].seen
    BY <1>2, <2>2 DEF Opens
  <2>3. CASE /\ ClaimReads(a) /\ job'[a].id = job[a].id /\ job'[a].seen = file[job[a].id]
    BY <1>2, <2>3 DEF ClaimReads, SeenOK
  <2> QED
    BY <2>0, <2>1, <2>2, <2>3, LockStepMoves
<1> QED
  BY <1>1, <1>2

LEMMA ReleaseOther ==
  ASSUME BaseInv, IdInv', HoldersOK, HoldsOK, SeenOK, "overlap" \notin faults',
         NEW a \in Agents, Does(a), NEW c \in Agents, c # a, NEW i \in Ids, Releases(c, i)
  PROVE  ReleaseOK(c, i)'
<1>1. ReleaseOK(c, i)
  BY DEF HoldsOK, ReleaseOK
<1>2. job'[c] = job[c]
  BY FaultsGrow DEF Others
<1>3. Owners(c) \subseteq Owners(c)'
  <2>1. alive \in [Agents -> BOOLEAN] /\ \A b \in Agents : ~alive[b] => ~alive'[b]
    <3>1. alive \in [Agents -> BOOLEAN]
      BY DEF BaseInv, TypeOK
    <3>2. CASE Exits(a)
      BY <3>1, <3>2 DEF Exits
    <3>3. CASE alive' = alive
      BY <3>1, <3>3
    <3> QED
      BY <3>1, <3>2, <3>3 DEF Does, Begins, Skips, TakesLock, GivesUp, Opens, Writes,
         ClaimStarts, ClaimReads, ClaimsGone, ListLocks, Reads, Creates, Resets, ReadsMark,
         WritesMark, Unlinks, Sweeps, Aside
  <2> QED
    BY <1>2, <2>1 DEF Owners
<1>4. Writes(a) /\ job[a].id = i => job[a].kind # "claim" /\ Written(a).owner \in Owners(c)
  BY WriterOwner
<1>5. holds'[i] \subseteq Owners(c)
  BY <1>1, <1>4, HoldsChange DEF ReleaseOK
<1>6. Readable(i)' => file'[i].owner \in Owners(c)
  <2>1. Known(i)
    <3>1. job[c].todo \in Seq(Changes)
      BY DEF BaseInv, TypeOK, Jobs
    <3> QED
      BY <3>1 DEF Releases, BaseInv, KnownOK
  <2> SUFFICES ASSUME Readable(i)'
               PROVE  file'[i].owner \in Owners(c)
    OBVIOUS
  <2>2. file'[i] = file[i] \/ (Writes(a) /\ i = job[a].id /\ file'[i] = Written(a))
    BY <2>1, ReadableChange
  <2> QED
    BY <1>1, <1>4, <2>2 DEF ReleaseOK, Readable
<1>7. \A b \in Agents : job'[b].step \in {"open", "write"} /\ job'[b].id = i =>
        job'[b].seen.owner \in Owners(c)
  BY <1>1, SeenOwner DEF ReleaseOK
<1> QED
  BY <1>3, <1>5, <1>6, <1>7 DEF ReleaseOK

LEMMA ReleaseMoved ==
  ASSUME BaseInv, BaseInv', IdInv', HoldersOK, HoldsOK, SeenOK, "overlap" \notin faults',
         NEW a \in Agents, Does(a), NEW i \in Ids, Releases(a, i)'
  PROVE  ReleaseOK(a, i)'
<1>1. PICK k \in DOMAIN job'[a].todo : job'[a].todo[k].id = i /\ "owner" \in job'[a].todo[k].fields
  BY DEF Releases
<1>2. job'[a].kind \in {"claimed", "unassign"}
  BY DEF Releases
<1> PICK u : u = job'[a].todo[k]
  OBVIOUS
<1>a. alive' = alive
  <2>1. ~Exits(a)
    BY <1>2 DEF Exits, Moves, NoJob
  <2> QED
    BY <2>1 DEF Does, Begins, Skips, TakesLock, GivesUp, Opens, Writes, ClaimStarts, ClaimReads,
       ClaimsGone, ListLocks, Reads, Creates, Resets, ReadsMark, WritesMark, Unlinks, Sweeps,
       Aside
<1>3. CASE FromBefore(a, u)
  <2>1. PICK l \in DOMAIN job[a].todo : u = job[a].todo[l] /\ (Skips(a) \/ Writes(a) => l # 1)
    BY <1>3 DEF FromBefore
  <2>2. job'[a].kind = job[a].kind
    BY <1>3 DEF FromBefore
  <2>3. Releases(a, i)
    BY <1>1, <1>2, <2>1, <2>2 DEF Releases
  <2>4. ReleaseOK(a, i)
    BY <2>3 DEF HoldsOK, ReleaseOK
  <2>5. Owners(a)' = Owners(a)
    BY <2>2, <1>a DEF Owners
  <2>6. ~(Writes(a) /\ i = job[a].id)
    <3> SUFFICES ASSUME Writes(a), i = job[a].id
                 PROVE  FALSE
      OBVIOUS
    <3>1. /\ \A x, y \in DOMAIN job[a].todo : job[a].todo[x].id = job[a].todo[y].id => x = y
          /\ Head(job[a].todo).id = job[a].id /\ 1 \in DOMAIN job[a].todo
          /\ Head(job[a].todo) = job[a].todo[1]
      BY <1>2, <2>2, JobFacts, TailFacts DEF Writes, BaseInv, Jobs
    <3> QED
      BY <1>1, <2>1, <3>1
  <2>7. holds'[i] \subseteq Owners(a)
    BY <2>4, <2>6, HoldsChange DEF ReleaseOK
  <2>8. Readable(i)' => file'[i].owner \in Owners(a)
    <3>1. DOMAIN NoJob.todo = {}
      BY DEF NoJob
    <3> SUFFICES ASSUME Readable(i)'
                 PROVE  file'[i].owner \in Owners(a)
      OBVIOUS
    <3>2. job'[a] # NoJob
      BY <1>1, <3>1
    <3>3. file'[i] = file[i]
      BY <2>6, <3>2, ReadableChange
    <3> QED
      BY <2>4, <3>3 DEF ReleaseOK, Readable
  <2>9. \A b \in Agents : job'[b].step \in {"open", "write"} /\ job'[b].id = i =>
          job'[b].seen.owner \in Owners(a)
    BY <2>4, SeenOwner DEF ReleaseOK
  <2> QED
    BY <2>5, <2>7, <2>8, <2>9 DEF ReleaseOK
<1>4. CASE FromNewJob(a)
  <2>1. PICK j \in Jobs : Begins(a, j) /\ job'[a] = j
    BY <1>4 DEF FromNewJob
  <2>2. /\ UNCHANGED <<file, holds>> /\ BeginsWith(j) /\ j.step \notin {"open", "write"}
    BY <2>1 DEF Begins, Aside
  <2>3. j.kind = "unassign" /\ i \in Listed /\ ~alive[file[i].owner] /\ file[i].owner \in Agents
    BY <1>1, <1>2, <2>1, <2>2 DEF BeginsWith
  <2>4. Owners(a)' = {b \in Agents : ~alive[b]}
    BY <2>1, <2>3, <1>a DEF Owners
  <2>5. Readable(i)
    BY <2>3 DEF Listed
  <2>6. holds[i] \subseteq {file[i].owner}
    BY <2>5 DEF HoldsOK
  <2>7. ASSUME NEW b \in Agents, job'[b].step \in {"open", "write"}, job'[b].id = i
        PROVE  job'[b].seen.owner = file[i].owner
    <3>1. job'[b] = job[b]
      BY <2>1, <2>2, <2>7, FaultsGrow DEF Others
    <3> QED
      BY <2>5, <2>7, <3>1, Basics DEF SeenOK, Readable
  <2> QED
    BY <2>2, <2>3, <2>4, <2>6, <2>7 DEF ReleaseOK
<1>5. CASE FromClaim(a, u)
  <2>1. Writes(a) /\ job[a].kind = "claim" /\ i = job[a].id /\ job'[a].kind = "claimed"
    BY <1>1, <1>5, Basics DEF FromClaim, ClaimsGone, SeenOK, Readable
  <2>2. Owners(a)' = {a}
    BY <2>1 DEF Owners
  <2>3. Written(a).owner = a
    BY <2>1, WrittenFacts DEF BaseInv, Writes
  <2>4. Readable(i)' => file'[i] = Written(a)
    BY <2>1, Basics DEF Writes, Readable, BaseInv, TypeOK
  <2>5. holds'[i] \subseteq {a}
    <3>1. holds[i] \subseteq {job[a].seen.owner} /\ job[a].seen.owner \in {None, a}
      BY <2>1 DEF HoldsOK, SeenOK, Writes
    <3>2. holds[i] \subseteq {a} /\ holds'[i] = holds[i] \cup {a}
      BY <2>1, <3>1, AgentsAssumption DEF Writes, WritesOther, WritesClaim, BaseInv, TypeOK
    <3> QED
      BY <3>2
  <2>6. ASSUME NEW b \in Agents, job'[b].step \in {"open", "write"}, job'[b].id = i
        PROVE  FALSE
    <3>1. job'[a].step \in {"none", "update"}
      <4>1. job[a] \in Jobs
        BY DEF BaseInv, TypeOK
      <4>2. [job[a] EXCEPT !.kind = "claimed"] \in Jobs
        BY <4>1 DEF Jobs
      <4> QED
        BY <2>1, <4>1, <4>2, AfterStep DEF Writes, WritesOther, WritesClaim, Moves
    <3>2. b # a /\ job'[b] = job[b]
      BY <2>6, <3>1, FaultsGrow DEF Others
    <3>3. lock[i] = b /\ lock[i] = a
      BY <2>1, <2>6, <3>2, Locked DEF Writes, LockSteps
    <3> QED
      BY <3>2, <3>3
  <2> QED
    BY <2>2, <2>3, <2>4, <2>5, <2>6 DEF ReleaseOK
<1>6. CASE FromList(a, u) \/ FromSweep(a, u)
  BY <1>2, <1>6 DEF FromList, FromSweep
<1> QED
  BY <1>3, <1>4, <1>5, <1>6, TodoFrom

LEMMA HoldStep ==
  ASSUME BaseInv, BaseInv', IdInv', SeenInv, HoldInv, NEW a \in Agents, Does(a)
  PROVE  HoldInv'
<1>1. HoldersOK'
  BY HoldersStep DEF HoldInv
<1> SUFFICES ASSUME "overlap" \notin faults'
             PROVE  HoldsOK'
  BY <1>1 DEF HoldInv, Without
<1>2. HoldsOK /\ SeenOK /\ HoldersOK
  BY FaultsGrow DEF HoldInv, SeenInv, Without
<1>3. \A i \in Ids : /\ \A b, c \in holds'[i] : b = c
                     /\ Readable(i)' => holds'[i] \subseteq {file'[i].owner}
  BY <1>2, HoldsOne
<1>4. \A b \in Agents : job'[b].step \in {"open", "write"} =>
        holds'[job'[b].id] \subseteq {job'[b].seen.owner}
  BY <1>2, HoldsSeen
<1>5. ASSUME NEW c \in Agents, NEW i \in Ids, Releases(c, i)'
      PROVE  ReleaseOK(c, i)'
  <2>1. CASE c = a
    BY <1>2, <1>5, <2>1, ReleaseMoved
  <2>2. CASE c # a
    <3>1. Releases(c, i)
      BY <1>5, <2>2, FaultsGrow DEF Others, Releases
    <3> QED
      BY <1>2, <2>2, <3>1, ReleaseOther
  <2> QED
    BY <2>1, <2>2
<1> QED
  BY <1>3, <1>4, <1>5 DEF HoldsOK, ReleaseOK

-----------------------------------------------------------------------------
(* A claimed task has no open blocker.                                     *)

\* What is done stays so until it is removed.
LEMMA DoneOrGone ==
  ASSUME BaseInv, IdInv', SeenOK, "overlap" \notin faults', NEW a \in Agents, Does(a),
         NEW i \in Ids, Known(i), i \in done \/ file[i] = Gone
  PROVE  i \in done' \/ file'[i] = Gone
<1>t. file \in [Ids -> Tasks] /\ given \in [Ids -> Nat]
  BY DEF BaseInv, TypeOK
<1>1. CASE Opens(a)
  <2>1. job[a].id \in Ids /\ file[job[a].id] # Gone /\ done' = done
    BY <1>1, Locked, Basics DEF Opens, Aside, SeenOK, Readable, LockSteps
  <2> QED
    BY <1>t, <1>1, <2>1 DEF Opens
<1>2. CASE Writes(a)
  BY <1>t, <1>2 DEF Writes
<1>3. CASE Creates(a)
  <2> DEFINE k == job[a].n + 1
  <2>1. /\ k \in Ids /\ file' = [file EXCEPT ![k] = New] /\ given' = [given EXCEPT ![k] = @ + 1]
        /\ done' = done \ {k}
    BY <1>3 DEF Creates
  <2>2. given'[k] =< 1
    BY <2>1 DEF IdInv, Without
  <2>3. k # i
    BY <1>t, <2>1, <2>2 DEF Known
  <2> QED
    BY <1>t, <2>1, <2>3
<1>4. CASE Resets(a) \/ Unlinks(a)
  BY <1>t, <1>4 DEF Resets, Unlinks
<1> QED
  BY <1>1, <1>2, <1>3, <1>4 DEF Does, Begins, Skips, TakesLock, GivesUp, ClaimStarts,
     ClaimReads, ClaimsGone, ListLocks, Reads, ReadsMark, WritesMark, Sweeps, Exits, Aside

LEMMA CompletedStep ==
  ASSUME BaseInv, BaseInv', IdInv', SeenOK, CompletedOK, "overlap" \notin faults',
         NEW a \in Agents, Does(a)
  PROVE  CompletedOK'
<1>1. ASSUME NEW i \in Ids, file'[i].status = "completed"
      PROVE  i \in done'
  <2>1. Readable(i)' /\ file'[i] # Gone
    BY <1>1, Basics DEF Readable
  <2>2. CASE file'[i] = file[i]
    <3>1. i \in done /\ Known(i)
      BY <1>1, <2>1, <2>2 DEF CompletedOK, BaseInv, KnownOK
    <3> QED
      BY <2>1, <3>1, DoneOrGone
  <2>3. CASE Writes(a) /\ i = job[a].id /\ file'[i] = Written(a)
    <3>1. file[i] # Gone
      BY <2>1, <2>3 DEF Writes, BaseInv, TypeOK
    <3>2. CASE Finishes(a)
      BY <2>3, <3>1, <3>2 DEF Writes
    <3>3. CASE ~Finishes(a)
      <4>1. job[a].seen.status = "completed"
        BY <1>1, <2>3, <3>3 DEF Finishes
      <4>2. i \in done
        BY <2>3, <3>1, <4>1 DEF CompletedOK, Writes
      <4> QED
        BY <2>3, <4>2 DEF Writes
    <3> QED
      BY <3>2, <3>3
  <2>4. CASE file'[i] = New
    BY <1>1, <2>4, Basics
  <2> QED
    BY <2>1, <2>2, <2>3, <2>4, ReadableChange
<1>2. ASSUME NEW b \in Agents, job'[b].step \in {"open", "write"},
             job'[b].seen.status = "completed"
      PROVE  job'[b].id \in done' \/ file'[job'[b].id] = Gone
  <2>1. CASE b # a
    <3>1. job'[b] = job[b] /\ job[b].id \in Ids
      BY <1>2, <2>1, FaultsGrow, Locked DEF Others, LockSteps
    <3>2. job[b].id \in done \/ file[job[b].id] = Gone
      BY <1>2, <3>1 DEF CompletedOK
    <3>3. Known(job[b].id)
      BY <3>1, Basics DEF BaseInv, KnownOK
    <3> QED
      BY <3>1, <3>2, <3>3, DoneOrGone
  <2>2. CASE b = a
    <3>0. job'[a].step \in LockSteps /\ job'[a].step \in {"open", "write"}
      BY <1>2, <2>2 DEF LockSteps
    <3>1. ASSUME NEW i \in Ids, i = job'[a].id, job'[a].seen = file[i], done' = done
          PROVE  job'[a].id \in done'
      BY <1>2, <2>2, <3>1 DEF CompletedOK
    <3>2. CASE /\ TakesLock(a) /\ job'[a].id = Head(job[a].todo).id
               /\ job'[a].seen = file[Head(job[a].todo).id]
      BY <2>2, <3>1, <3>2 DEF TakesLock, Aside
    <3>3. CASE /\ Opens(a) /\ job'[a].id = job[a].id /\ job'[a].seen = job[a].seen
      <4>1. /\ done' = done /\ job[a].step = "open" /\ file[job[a].id] # Gone
        BY <3>3, Basics DEF Opens, Aside, SeenOK, Readable
      <4> QED
        BY <1>2, <2>2, <3>3, <4>1 DEF CompletedOK
    <3>4. CASE /\ ClaimReads(a) /\ job'[a].id = job[a].id /\ job'[a].seen = file[job[a].id]
      <4>1. job[a].id \in Ids /\ done' = done
        BY <3>4, Locked DEF ClaimReads, LockSteps, Aside
      <4> QED
        BY <2>2, <3>1, <3>4, <4>1
    <3> QED
      BY <3>0, <3>2, <3>3, <3>4, LockStepMoves
  <2> QED
    BY <2>1, <2>2
<1> QED
  BY <1>1, <1>2 DEF CompletedOK

LEMMA ReadyStep ==
  ASSUME BaseInv, BaseInv', IdInv', SeenInv, ReadyInv, NEW a \in Agents, Does(a)
  PROVE  ReadyInv'
<1>0. faults \subseteq faults' /\ Others(a)
  BY FaultsGrow
<1>1. ASSUME "overlap" \notin faults'
      PROVE  CompletedOK /\ SeenOK /\ CompletedOK'
  BY <1>0, <1>1, CompletedStep DEF ReadyInv, SeenInv, Without
<1>2. ASSUME "overlap" \notin faults', "blind" \notin faults'
      PROVE  ReadyOK'
  <2>1. ReadyOK /\ CompletedOK /\ SeenOK
    BY <1>0, <1>1, <1>2 DEF ReadyInv, Without
  <2>2. ASSUME NEW t \in Tasks, KnowsOnly(t), NEW b \in t.blockedBy, b \in done \/ file[b] = Gone
        PROVE  b \in done' \/ file'[b] = Gone
    <3>1. b \in Ids /\ Known(b)
      BY <2>2 DEF Tasks, KnowsOnly
    <3> QED
      BY <1>2, <2>1, <2>2, <3>1, DoneOrGone
  <2>3. ASSUME NEW c \in Agents, job'[c].kind = "claim", job'[c].step \in {"open", "write"},
               NEW b \in job'[c].seen.blockedBy
        PROVE  b \in done' \/ file'[b] = Gone
    <3>1. CASE \/ job'[c] = job[c]
               \/ /\ c = a /\ Opens(a) /\ job'[a].seen = job[a].seen /\ job'[a].kind = job[a].kind
      <4>1. /\ job[c].kind = "claim" /\ job[c].step \in {"open", "write"}
            /\ job'[c].seen = job[c].seen
        BY <2>3, <3>1 DEF Opens
      <4>2. job[c].seen \in Tasks /\ KnowsOnly(job[c].seen)
        BY DEF BaseInv, TypeOK, KnownOK, Jobs
      <4> QED
        BY <2>1, <2>2, <2>3, <4>1, <4>2 DEF ReadyOK
    <3>2. CASE c = a /\ ClaimReads(a) /\ job'[a].seen = file[job[a].id]
      <4> DEFINE i == job[a].id
      <4>1. /\ i \in Ids /\ ~Blocked(i) /\ UNCHANGED <<file, done>>
            /\ (\E d \in file[i].blockedBy : file[d] = Torn) => "blind" \in faults'
        BY <3>2, Locked DEF ClaimReads, Aside, LockSteps
      <4>2. b \in file[i].blockedBy /\ b \in Ids /\ file[b] # Torn
        BY <1>2, <2>3, <3>2, <4>1 DEF BaseInv, TypeOK, Tasks
      <4>3. CASE Readable(b)
        <5>1. file[b].status = "completed"
          BY <4>1, <4>2, <4>3 DEF Blocked, Unresolved, Listed
        <5> QED
          BY <2>1, <4>1, <4>2, <5>1 DEF CompletedOK
      <4>4. CASE ~Readable(b)
        BY <4>1, <4>2, <4>4 DEF BaseInv, FilesOK
      <4> QED
        BY <4>3, <4>4
    <3> QED
      <4>1. CASE c # a
        BY <1>0, <3>1, <4>1 DEF Others
      <4>2. CASE c = a
        <5>1. job'[a].step \in LockSteps
          BY <2>3, <4>2 DEF LockSteps
        <5> QED
          BY <2>3, <3>1, <3>2, <4>2, <5>1, LockStepMoves
      <4> QED
        BY <4>1, <4>2
  <2> QED
    BY <2>3 DEF ReadyOK
<1> QED
  BY <1>1, <1>2 DEF ReadyInv, Without

-----------------------------------------------------------------------------
(* The theorems.                                                           *)

\* Every part of the invariant holds at the start, when nothing was done.
LEMMA InitHolds ==
  ASSUME Init
  PROVE  IInv
<1>1. PICK before \in {{}, {1}} :
        file = [i \in Ids |->
                  IF i = 1 THEN [New EXCEPT !.blocks = {j \in Ids : j = 2 /\ before # {}}]
                  ELSE IF i = 2 THEN Task("pending", before) ELSE Gone]
  BY DEF Init
<1>2. /\ mark = 0 /\ listLock = None /\ lock = [i \in Ids |-> None]
      /\ job = [a \in Agents |-> NoJob] /\ alive = [a \in Agents |-> TRUE] /\ jobs = 0
      /\ holds = [i \in Ids |-> {}]
      /\ given = [i \in Ids |-> IF file[i] = Gone THEN 0 ELSE 1]
      /\ done = {} /\ faults = {}
  BY DEF Init
<1>3. ASSUME NEW i \in Ids
      PROVE  /\ file[i] \in Tasks /\ file[i].status \in {"pending", "gone"}
             /\ file[i].status = "gone" => file[i] = Gone
             /\ file[i].owner = None
             /\ \A j \in file[i].blocks \cup file[i].blockedBy : j \in Ids /\ file[j] # Gone
  <2>1. CASE i = 1
    <3> DEFINE S == {j \in Ids : j = 2 /\ before # {}}
    <3>1. file[i] = [New EXCEPT !.blocks = S]
      BY <1>1, <2>1
    <3>2. S \subseteq Ids
      OBVIOUS
    <3>3. \A j \in S : file[j] = Task("pending", before)
      BY <1>1
    <3> HIDE DEF S
    <3>4. \A j \in S : file[j] # Gone
      BY <3>3, Basics DEF Task
    <3>5. /\ file[i] \in Tasks /\ file[i].status = "pending" /\ file[i].owner = None
          /\ file[i].blocks = S /\ file[i].blockedBy = {}
      BY <3>1, <3>2 DEF New, Task, Tasks, Open
    <3> QED
      BY <3>2, <3>4, <3>5
  <2>2. CASE i = 2
    <3>1. file[i] = Task("pending", before) /\ 1 \in Ids
      BY <1>1, <2>2, BoundsAssumption DEF Ids
    <3>2. file[1].status = "pending"
      BY <1>1, <3>1 DEF New, Task
    <3>3. before \subseteq Ids /\ \A j \in before : file[j] # Gone
      BY <1>1, <3>1, <3>2, Basics
    <3> QED
      BY <3>1, <3>3 DEF Task, Tasks, Open
  <2>3. CASE i # 1 /\ i # 2
    <3>1. file[i] = Gone
      BY <1>1, <2>3
    <3> QED
      BY <3>1, Basics DEF Gone, Task
  <2> QED
    BY <2>1, <2>2, <2>3
<1>4. \A a \in Agents : job[a] = NoJob
  BY <1>2
<1>5. BaseInv
  <2>1. TypeOK
    <3>1. file \in [Ids -> Tasks]
      BY <1>1, <1>3
    <3>2. job \in [Agents -> Jobs]
      BY <1>2, Basics
    <3>3. mark \in 0..MaxId /\ jobs \in 0..MaxJobs /\ given \in [Ids -> Nat]
      BY <1>2, BoundsAssumption
    <3> QED
      BY <1>2, <3>1, <3>2, <3>3 DEF TypeOK
  <2>2. JobsOK
    BY <1>4 DEF JobsOK, JobOK
  <2>3. NoJob.step = "none"
    BY DEF NoJob
  <2>4. LocksOK
    BY <1>4, <2>3 DEF LocksOK, LockSteps
  <2>5. FilesOK
    BY <1>3, <1>4 DEF FilesOK, Readable, NoJob
  <2>6. KnownOK
    <3>1. \A i \in Ids : (file[i] # Gone => Known(i)) /\ KnowsOnly(file[i])
      BY <1>2, <1>3 DEF Known, KnowsOnly
    <3>2. KnowsOnly(NoJob.seen) /\ NoJob.id = 0 /\ NoJob.todo = <<>>
      BY Basics DEF NoJob, KnowsOnly
    <3> QED
      BY <1>4, <3>1, <3>2 DEF KnownOK
  <2> QED
    BY <2>1, <2>2, <2>4, <2>5, <2>6 DEF BaseInv
<1>6. IdInv
  <2>1. \A i \in Ids : given[i] =< 1 /\ (Known(i) => file[i] # Gone)
    BY <1>2 DEF Known
  <2>2. MarkOK /\ HighestOK
    BY <1>4, <2>1 DEF MarkOK, HighestOK, Deleting, NoJob
  <2> QED
    BY <2>1, <2>2 DEF IdInv
<1>7. SeenInv
  BY <1>4 DEF SeenInv, SeenOK, NoJob
<1>8. DoneInv
  BY <1>2, <1>4 DEF DoneInv, DoneOK, LockSteps, NoJob
<1>9. HoldInv
  <2>1. HoldersOK
    BY <1>2, <1>4 DEF HoldersOK, NoJob
  <2>2. HoldsOK
    BY <1>2, <1>4 DEF HoldsOK, Releases, NoJob
  <2> QED
    BY <2>1, <2>2 DEF HoldInv
<1>10. ReadyInv
  BY <1>3, <1>4 DEF ReadyInv, CompletedOK, ReadyOK, NoJob
<1> QED
  BY <1>5, <1>6, <1>7, <1>8, <1>9, <1>10 DEF IInv

LEMMA StepHolds ==
  ASSUME IInv, Next
  PROVE  IInv'
<1>1. BaseInv' /\ \E a \in Agents : Does(a)
  BY BaseStep DEF IInv
<1>2. PICK a \in Agents : Does(a)
  BY <1>1
<1>3. IdInv'
  BY <1>1, <1>2, IdStep DEF IInv
<1>4. SeenInv'
  BY <1>2, <1>3, SeenStep DEF IInv
<1>5. DoneInv'
  BY <1>1, <1>2, DoneStep DEF IInv
<1>6. HoldInv'
  BY <1>1, <1>2, <1>3, HoldStep DEF IInv
<1>7. ReadyInv'
  BY <1>1, <1>2, <1>3, ReadyStep DEF IInv
<1> QED
  BY <1>1, <1>3, <1>4, <1>5, <1>6, <1>7 DEF IInv

LEMMA StutterHolds ==
  ASSUME IInv, UNCHANGED vars
  PROVE  IInv'
<1> USE DEF vars, data, locks, ghosts
<1>1. BaseInv'
  <2>1. TypeOK'
    BY DEF IInv, BaseInv, TypeOK
  <2>2. JobsOK' /\ LocksOK'
    BY DEF IInv, BaseInv, JobsOK, LocksOK
  <2>3. FilesOK' /\ KnownOK'
    BY DEF IInv, BaseInv, FilesOK, KnownOK, Known, KnowsOnly, Readable
  <2> QED
    BY <2>1, <2>2, <2>3 DEF BaseInv
<1>2. IdInv'
  BY DEF IInv, IdInv, MarkOK, HighestOK, Known, Deleting, Without
<1>3. SeenInv'
  BY DEF IInv, SeenInv, SeenOK, Readable, Without
<1>4. DoneInv'
  BY DEF IInv, DoneInv, DoneOK, Without
<1>5. HoldInv'
  BY DEF IInv, HoldInv, HoldersOK, HoldsOK, Releases, Owners, Readable, Without
<1>6. ReadyInv'
  BY DEF IInv, ReadyInv, CompletedOK, ReadyOK, Without
<1> QED
  BY <1>1, <1>2, <1>3, <1>4, <1>5, <1>6 DEF IInv

\* The invariant holds in every state that the jobs of the agents can reach.
THEOREM Invariance == Spec => []IInv
<1>1. Init => IInv
  BY InitHolds
<1>2. IInv /\ [Next]_vars => IInv'
  BY StepHolds, StutterHolds
<1> QED
  BY <1>1, <1>2, PTL DEF Spec

\* The files, the locks and the jobs are what tasks.ts takes them for.
THEOREM TypeCorrect == Spec => []TypeOK
<1>1. IInv => TypeOK
  BY DEF IInv, BaseInv
<1> QED
  BY <1>1, Invariance, PTL

\* claimTask gives a task to one agent at a time, however many found it in the list.
THEOREM ClaimsExclude == Spec => []OneWinner
<1>1. IInv => OneWinner
  <2> SUFFICES ASSUME IInv, Without({"overlap"}), NEW i \in Ids
               PROVE  Cardinality(holds[i]) =< 1
    BY DEF OneWinner
  <2>1. \A a, b \in holds[i] : a = b
    BY DEF IInv, HoldInv, HoldsOK
  <2>2. CASE holds[i] = {}
    BY <2>2, FS_EmptySet
  <2>3. CASE holds[i] # {}
    <3>1. PICK a : a \in holds[i]
      BY <2>3
    <3>2. holds[i] = {a}
      BY <2>1, <3>1
    <3> QED
      BY <3>2, FS_Singleton
  <2> QED
    BY <2>2, <2>3
<1> QED
  BY <1>1, Invariance, PTL

\* createTask never gives out the id of an earlier task, although deleteTask takes no
\* lock.
THEOREM IdsAreFresh == Spec => []IdsFresh
<1>1. IInv => IdsFresh
  BY DEF IInv, IdInv, IdsFresh
<1> QED
  BY <1>1, Invariance, PTL

\* What is completed is not opened again by an update that was under way.
THEOREM CompletionIsKept == Spec => []CompletedStays
<1>1. IInv => CompletedStays
  BY DEF IInv, DoneInv, DoneOK, CompletedStays
<1> QED
  BY <1>1, Invariance, PTL

\* An agent that claims a task finds all its blockers completed, at the moment the
\* claim is written and not only when they were read.
THEOREM ClaimsAreFree == Spec => ClaimIsFree
<1> DEFINE OK == \A i \in Ids : (holds'[i] \ holds[i] # {} /\ Without({"blind", "late", "overlap"})) =>
                   \A b \in file'[i].blockedBy : file[b].status \notin Open
<1>1. IInv /\ Next => OK
  <2> SUFFICES ASSUME IInv, Next, NEW i \in Ids, holds'[i] \ holds[i] # {},
                      Without({"blind", "late", "overlap"}), NEW b \in file'[i].blockedBy
               PROVE  file[b].status \notin Open
    OBVIOUS
  <2>1. BaseInv /\ SeenOK /\ ReadyOK /\ DoneOK
    BY DEF IInv, SeenInv, ReadyInv, DoneInv, Without
  <2>2. PICK a \in Agents : Does(a)
    BY <2>1, BaseStep
  <2>3. Writes(a) /\ job[a].kind = "claim" /\ i = job[a].id
    BY <2>1, <2>2, HoldsChange
  <2>4. /\ file \in [Ids -> Tasks] /\ job[a].step = "write"
        /\ file'[i] = IF file[i] = Gone THEN Gone ELSE Written(a)
    BY <2>1, <2>3 DEF Writes, BaseInv, TypeOK
  <2>5. b \in job[a].seen.blockedBy
    BY <2>1, <2>3, <2>4, WrittenFacts, Basics DEF BaseInv
  <2>6. b \in done \/ file[b] = Gone
    BY <2>1, <2>3, <2>4, <2>5 DEF ReadyOK
  <2> QED
    BY <2>1, <2>6, Basics DEF DoneOK, Open
<1>2. UNCHANGED vars => OK
  BY DEF vars, ghosts
<1>3. IInv /\ [Next]_vars => OK
  BY <1>1, <1>2
<1> QED
  BY <1>3, Invariance, PTL DEF Spec, ClaimIsFree

-----------------------------------------------------------------------------
(* What blocks and what is blocked.                                        *)

Clean == Without({"stale", "missed", "died", "overlap"})

\* What a task holds, once whoever writes its file has written it.
Writing(a, i) == job[a].step = "write" /\ job[a].id = i
Held(i) == IF file[i] = Torn THEN Written(CHOOSE a \in Agents : Writing(a, i)) ELSE file[i]

\* The change u of a task removes the references to d, and does no more.
DropsOnly(u, d) ==
  /\ u.fields = {"blocks", "blockedBy"}
  /\ u.val.blocks = u.base.blocks \ {d} /\ u.val.blockedBy = u.base.blockedBy \ {d}

\* m has been told that it blocks n, if both are still there.
Linked(m, n) == file[m] = Gone \/ file[n] = Gone \/ n \in Held(m).blocks

\* A torn file has a writer.
TornOK == \A i \in Ids : file[i] = Torn => \E a \in Agents : Writing(a, i)

\* A delete removes the references to a task that is gone for good.
SweepOK(a) ==
  /\ job[a].step = "sweep" => file[job[a].id] = Gone
  /\ job[a].kind = "delete" /\ job[a].todo # <<>> =>
       \E d \in Ids : /\ Known(d) /\ file[d] = Gone
                      /\ \A k \in DOMAIN job[a].todo : DropsOnly(job[a].todo[k], d)

\* A job that makes m block n tells m, then n.
BlockOK(a) ==
  job[a].kind = "block" =>
    \E m, n \in Ids :
      /\ Known(m) /\ Known(n)
      /\ \/ /\ Len(job[a].todo) = 2
            /\ BlocksChange(job[a].todo[1], m, n) /\ BlockedChange(job[a].todo[2], m, n)
            /\ job[a].step = "write" => Linked(m, n)
         \/ Len(job[a].todo) = 1 /\ BlockedChange(job[a].todo[1], m, n) /\ Linked(m, n)

\* A change is made to the fields that it was computed from.
FreshOK(a) ==
  job[a].step = "open" =>
    LET u == Head(job[a].todo) IN
    /\ "blocks" \in u.fields => job[a].seen.blocks = u.base.blocks
    /\ "blockedBy" \in u.fields => job[a].seen.blockedBy = u.base.blockedBy

\* A job is still to tell j that i blocks it.
Pending(i, j) ==
  \E a \in Agents :
    /\ job[a].kind = "block"
    /\ \E k \in DOMAIN job[a].todo :
         BlockedChange(job[a].todo[k], i, j) /\ (job[a].step = "write" => k # 1)

PairOK(i, j) ==
  file[i] # Gone /\ file[j] # Gone =>
    /\ j \in Held(i).blocks => i \in Held(j).blockedBy \/ Pending(i, j)
    /\ i \in Held(j).blockedBy => j \in Held(i).blocks

AgreeOK ==
  /\ TornOK
  /\ \A a \in Agents : SweepOK(a) /\ BlockOK(a) /\ FreshOK(a)
  /\ \A i, j \in Ids : PairOK(i, j)

AgreeInv == Clean => AgreeOK

LEMMA HeldWriter ==
  ASSUME BaseInv, NEW a \in Agents, NEW i \in Ids, Writing(a, i), file[i] = Torn
  PROVE  Held(i) = Written(a)
<1>1. ASSUME NEW b \in Agents, Writing(b, i)
      PROVE  b = a
  BY <1>1 DEF Writing, BaseInv, LocksOK, LockSteps
<1>2. (CHOOSE b \in Agents : Writing(b, i)) = a
  BY <1>1
<1> QED
  BY <1>2 DEF Held

LEMMA HeldWriterThen ==
  ASSUME BaseInv', NEW a \in Agents, NEW i \in Ids, Writing(a, i)', file'[i] = Torn
  PROVE  Held(i)' = Written(a)'
<1>1. ASSUME NEW b \in Agents, Writing(b, i)'
      PROVE  b = a
  BY <1>1 DEF Writing, BaseInv, LocksOK, LockSteps
<1>2. (CHOOSE b \in Agents : Writing(b, i)') = a
  BY <1>1
<1> QED
  BY <1>2 DEF Held

\* What a task holds is known.
LEMMA HeldKnown ==
  ASSUME BaseInv, TornOK, NEW i \in Ids
  PROVE  /\ Held(i).blocks \subseteq Ids /\ Held(i).blockedBy \subseteq Ids
         /\ \A j \in Held(i).blocks \cup Held(i).blockedBy : Known(j)
<1>1. CASE file[i] = Torn
  <2>1. PICK a \in Agents : Writing(a, i)
    BY <1>1 DEF TornOK
  <2>2. Held(i) = Written(a) /\ job[a].step = "write"
    BY <1>1, <2>1, HeldWriter DEF Writing
  <2>3. /\ Written(a) \in Tasks
        /\ Written(a).blocks \in {job[a].seen.blocks, Head(job[a].todo).val.blocks}
        /\ Written(a).blockedBy \in {job[a].seen.blockedBy, Head(job[a].todo).val.blockedBy}
    BY <2>2, WrittenFacts DEF BaseInv
  <2>4. 1 \in DOMAIN job[a].todo /\ Head(job[a].todo) = job[a].todo[1]
    BY <2>2, JobFacts, TailFacts DEF BaseInv, Jobs
  <2>5. KnowsOnly(job[a].seen) /\ KnowsOnly(Head(job[a].todo).val)
    BY <2>4 DEF BaseInv, KnownOK
  <2>6. Written(a).blocks \subseteq Ids /\ Written(a).blockedBy \subseteq Ids
    BY <2>3 DEF Tasks
  <2> QED
    BY <2>2, <2>3, <2>5, <2>6 DEF KnowsOnly
<1>2. CASE file[i] # Torn
  <2>1. Held(i) = file[i] /\ file[i] \in Tasks /\ KnowsOnly(file[i])
    BY <1>2 DEF Held, BaseInv, TypeOK, KnownOK
  <2> QED
    BY <2>1 DEF KnowsOnly, Tasks
<1> QED
  BY <1>1, <1>2

\* A task that is gone stays gone, since what is created gets a fresh id.
LEMMA GoneStays ==
  ASSUME BaseInv, IdInv', SeenInv, NEW a \in Agents, Does(a), Clean', NEW d \in Ids
  PROVE  /\ Known(d) /\ file[d] = Gone => file'[d] = Gone
         /\ Known(d) => Known(d)'
         /\ Creates(a) => ~Known(job[a].n + 1)
<1>1. faults \subseteq faults' /\ "overlap" \notin faults' /\ SeenOK
  BY FaultsGrow DEF Clean, Without, SeenInv
<1>t. file \in [Ids -> Tasks] /\ given \in [Ids -> Nat]
  BY DEF BaseInv, TypeOK
<1>2. Creates(a) => ~Known(job[a].n + 1)
  <2> SUFFICES ASSUME Creates(a) PROVE ~Known(job[a].n + 1)
    OBVIOUS
  <2>1. PICK k \in Ids : k = job[a].n + 1
    BY DEF Creates
  <2>2. given' = [given EXCEPT ![k] = @ + 1] /\ given'[k] =< 1
    BY <1>1, <2>1 DEF Creates, IdInv, Without
  <2>3. ~(given[k] >= 1)
    BY <1>t, <2>2
  <2> QED
    BY <2>1, <2>3 DEF Known
<1>3. Known(d) => Known(d)'
  <2>1. given' = given \/ Creates(a)
    BY DEF Does, Begins, Skips, TakesLock, GivesUp, Opens, Writes, ClaimStarts, ClaimReads,
       ClaimsGone, ListLocks, Reads, Resets, ReadsMark, WritesMark, Unlinks, Sweeps, Exits, Aside
  <2>2. CASE Creates(a)
    <3>1. PICK k \in Ids : k = job[a].n + 1 /\ given' = [given EXCEPT ![k] = @ + 1]
      BY <2>2 DEF Creates
    <3> QED
      BY <1>t, <3>1 DEF Known
  <2> QED
    BY <2>1, <2>2 DEF Known
<1>4. ASSUME Known(d), file[d] = Gone
      PROVE  file'[d] = Gone
  <2>1. CASE Opens(a)
    <3>1. Readable(job[a].id)
      BY <1>1, <2>1 DEF Opens, SeenOK
    <3>2. job[a].id # d
      BY <1>4, <3>1, Basics DEF Readable
    <3> QED
      BY <1>4, <1>t, <2>1, <3>2 DEF Opens
  <2>2. CASE Writes(a)
    BY <1>4, <1>t, <2>2 DEF Writes
  <2>3. CASE Creates(a)
    <3>1. PICK k \in Ids : k = job[a].n + 1 /\ file' = [file EXCEPT ![k] = New]
      BY <2>3 DEF Creates
    <3>2. k # d
      BY <1>2, <1>4, <2>3, <3>1
    <3> QED
      BY <1>4, <1>t, <3>1, <3>2
  <2>4. CASE Resets(a) \/ Unlinks(a)
    BY <1>4, <1>t, <2>4 DEF Resets, Unlinks
  <2> QED
    BY <1>4, <2>1, <2>2, <2>3, <2>4 DEF Does, Begins, Skips, TakesLock, GivesUp, ClaimStarts,
       ClaimReads, ClaimsGone, ListLocks, Reads, ReadsMark, WritesMark, Sweeps, Exits
<1> QED
  BY <1>2, <1>3, <1>4

\* Whoever writes a torn file ends by writing it.
LEMMA TornWritten ==
  ASSUME BaseInv, NEW a \in Agents, Does(a), Clean', NEW i \in Ids, file[i] = Torn, Writing(a, i)
  PROVE  file'[i] # Torn
<1>1. job[a].step = "write" /\ job[a].id = i /\ job[a] # NoJob
  BY DEF Writing, NoJob
<1>2. ~Exits(a)
  BY <1>1 DEF Exits, Clean, Without
<1>3. Writes(a)
  BY <1>1, <1>2 DEF Does, Begins, Skips, TakesLock, GivesUp, Opens, ClaimStarts, ClaimReads,
     ClaimsGone, ListLocks, Reads, Creates, Resets, ReadsMark, WritesMark, Unlinks, Sweeps
<1>4. file'[i] = Written(a) /\ Written(a).status \in Kept
  BY <1>1, <1>3, WrittenFacts, Basics DEF Writes, BaseInv, TypeOK
<1> QED
  BY <1>4, Basics DEF Kept, Open

\* What a task holds is not changed by whoever leaves its file alone.
LEMMA HeldSame ==
  ASSUME BaseInv, BaseInv', TornOK, NEW a \in Agents, Does(a), Clean', NEW i \in Ids,
         file'[i] = file[i]
  PROVE  Held(i)' = Held(i)
<1>1. CASE file[i] = Torn
  <2>1. PICK w \in Agents : Writing(w, i)
    BY <1>1 DEF TornOK
  <2>2. w # a
    BY <1>1, <2>1, TornWritten
  <2>3. job'[w] = job[w]
    BY <2>2, FaultsGrow DEF Others
  <2>4. Held(i) = Written(w)
    BY <1>1, <2>1, HeldWriter
  <2>5. Writing(w, i)'
    BY <2>1, <2>3 DEF Writing
  <2>6. Held(i)' = Written(w)'
    BY <1>1, <2>5, HeldWriterThen
  <2> QED
    BY <2>3, <2>4, <2>6 DEF Written
<1>2. CASE file[i] # Torn
  BY <1>2 DEF Held
<1> QED
  BY <1>1, <1>2

\* How a step leaves what a task holds: as it was,
Stays(i) ==
  file[i] # Gone /\ Held(i)'.blocks = Held(i).blocks /\ Held(i)'.blockedBy = Held(i).blockedBy
\* new,
Comes(i) == ~Known(i) /\ Held(i)'.blocks = {} /\ Held(i)'.blockedBy = {}
\* with a task that it blocks, and that is still to be told,
Tells(i) ==
  /\ file[i] # Gone
  /\ \E n \in Ids : Held(i)'.blocks = Held(i).blocks \cup {n} /\ Pending(i, n)'
  /\ Held(i)'.blockedBy = Held(i).blockedBy
\* with a task that blocks it, and that was told before,
Learns(i) ==
  /\ file[i] # Gone
  /\ \E m \in Ids :
       Held(i)'.blockedBy = Held(i).blockedBy \cup {m} /\ Known(m) /\ Linked(m, i)
  /\ Held(i)'.blocks = Held(i).blocks
\* or without a task that is gone.
Drops(i) ==
  /\ file[i] # Gone
  /\ \E d \in Ids :
       /\ Known(d) /\ file[d] = Gone
       /\ Held(i)'.blocks = Held(i).blocks \ {d} /\ Held(i)'.blockedBy = Held(i).blockedBy \ {d}

LEMMA OpenLinks ==
  ASSUME BaseInv, BaseInv', SeenOK, AgreeOK, NEW a \in Agents, Opens(a),
         NEW i \in Ids, i = job[a].id
  PROVE  Stays(i) \/ Tells(i) \/ Learns(i) \/ Drops(i)
<1>1. /\ job[a].step = "open" /\ job[a] \in Jobs /\ file[i] = job[a].seen /\ Readable(i)
      /\ file[i] # Gone /\ file[i] # Torn
  BY Basics DEF Opens, SeenOK, BaseInv, TypeOK, Readable
<1>2. /\ job'[a].step = "write" /\ job'[a].id = i /\ job'[a].seen = job[a].seen
      /\ job'[a].kind = job[a].kind /\ job'[a].todo = job[a].todo
  BY <1>1 DEF Opens, Moves, Jobs
<1>3. file'[i] = Torn
  BY DEF Opens, BaseInv, TypeOK
<1> PICK u : u = Head(job[a].todo)
  OBVIOUS
<1>4. Held(i) = job[a].seen /\ Held(i)' = Written(a)
  <2>1. Held(i)' = Written(a)'
    BY <1>2, <1>3, HeldWriterThen DEF Writing
  <2> QED
    BY <1>1, <1>2, <2>1 DEF Held, Written
<1>5. /\ Held(i)'.blocks = IF "blocks" \in u.fields THEN u.val.blocks ELSE job[a].seen.blocks
      /\ Held(i)'.blockedBy = IF "blockedBy" \in u.fields THEN u.val.blockedBy
                              ELSE job[a].seen.blockedBy
      /\ job[a].kind = "claim" => u.fields = {"owner"}
      /\ job[a].kind # "claim" => ChangeOK(job[a].kind, u)
  BY <1>1, <1>4, WrittenFacts DEF BaseInv
<1>6. u.id = i /\ job[a].todo # <<>> /\ u = job[a].todo[1] /\ 1 \in DOMAIN job[a].todo
      /\ job[a].todo \in Seq(Changes)
  BY <1>1, JobFacts, TailFacts DEF BaseInv, Jobs
<1>7. /\ "blocks" \in u.fields => job[a].seen.blocks = u.base.blocks
      /\ "blockedBy" \in u.fields => job[a].seen.blockedBy = u.base.blockedBy
  BY <1>1 DEF AgreeOK, FreshOK
<1>8. CASE job[a].kind \notin {"block", "delete"}
  <2>1. "blocks" \notin u.fields /\ "blockedBy" \notin u.fields
    BY <1>5, <1>8 DEF ChangeOK
  <2> QED
    BY <1>1, <1>4, <1>5, <2>1 DEF Stays
<1>9. CASE job[a].kind = "delete"
  <2>1. PICK d \in Ids : Known(d) /\ file[d] = Gone /\ DropsOnly(u, d)
    BY <1>6, <1>9 DEF AgreeOK, SweepOK
  <2> QED
    BY <1>1, <1>4, <1>5, <1>7, <2>1 DEF Drops, DropsOnly
<1>10. CASE job[a].kind = "block"
  <2>1. PICK m \in Ids, n \in Ids :
          /\ Known(m) /\ Known(n)
          /\ \/ /\ Len(job[a].todo) = 2
                /\ BlocksChange(job[a].todo[1], m, n) /\ BlockedChange(job[a].todo[2], m, n)
             \/ Len(job[a].todo) = 1 /\ BlockedChange(job[a].todo[1], m, n) /\ Linked(m, n)
    BY <1>10 DEF AgreeOK, BlockOK
  <2>2. CASE /\ Len(job[a].todo) = 2
             /\ BlocksChange(job[a].todo[1], m, n) /\ BlockedChange(job[a].todo[2], m, n)
    <3>1. m = i /\ u.fields = {"blocks"} /\ u.val.blocks = u.base.blocks \cup {n}
      BY <1>6, <2>2 DEF BlocksChange
    <3>2. 2 \in DOMAIN job'[a].todo /\ BlockedChange(job'[a].todo[2], i, n)
      BY <1>2, <1>6, <2>2, <3>1, LenProperties
    <3>3. Pending(i, n)'
      BY <1>2, <1>10, <3>2 DEF Pending
    <3>4. Held(i)'.blocks = Held(i).blocks \cup {n} /\ Held(i)'.blockedBy = Held(i).blockedBy
      BY <1>4, <1>5, <1>7, <3>1
    <3> QED
      BY <1>1, <3>3, <3>4 DEF Tells
  <2>3. CASE Len(job[a].todo) = 1 /\ BlockedChange(job[a].todo[1], m, n) /\ Linked(m, n)
    <3>1. n = i /\ u.fields = {"blockedBy"} /\ u.val.blockedBy = u.base.blockedBy \cup {m}
      BY <1>6, <2>3 DEF BlockedChange
    <3>2. Held(i)'.blockedBy = Held(i).blockedBy \cup {m} /\ Held(i)'.blocks = Held(i).blocks
      BY <1>4, <1>5, <1>7, <3>1
    <3> QED
      BY <1>1, <2>1, <2>3, <3>1, <3>2 DEF Learns
  <2> QED
    BY <2>1, <2>2, <2>3
<1> QED
  BY <1>8, <1>9, <1>10

LEMMA LinkStep ==
  ASSUME BaseInv, BaseInv', IdInv', SeenInv, AgreeOK, NEW a \in Agents, Does(a), Clean',
         NEW i \in Ids
  PROVE  file'[i] = Gone \/ Stays(i) \/ Comes(i) \/ Tells(i) \/ Learns(i) \/ Drops(i)
<1>1. SeenOK /\ TornOK
  BY FaultsGrow DEF Clean, Without, SeenInv, AgreeOK
<1>t. file \in [Ids -> Tasks]
  BY DEF BaseInv, TypeOK
<1>2. CASE file'[i] = file[i]
  BY <1>1, <1>2, HeldSame DEF Stays
<1>3. CASE Opens(a) /\ file'[i] # file[i]
  <2>1. i = job[a].id
    BY <1>3, <1>t DEF Opens
  <2> QED
    BY <1>1, <1>3, <2>1, OpenLinks
<1>4. CASE Writes(a) /\ file'[i] # file[i]
  <2>1. i = job[a].id /\ job[a].step = "write" /\ file[i] # Gone /\ file'[i] = Written(a)
    BY <1>4, <1>t DEF Writes
  <2>2. file[i] = Torn /\ Written(a).status \in Kept
    BY <1>1, <2>1, WrittenFacts DEF SeenOK, BaseInv
  <2>3. Held(i) = Written(a)
    BY <2>1, <2>2, HeldWriter DEF Writing
  <2>4. file'[i] # Torn
    BY <2>1, <2>2, Basics DEF Kept, Open
  <2>5. Held(i)' = file'[i]
    BY <2>4 DEF Held
  <2> QED
    BY <2>1, <2>3, <2>5 DEF Stays
<1>5. CASE Creates(a) /\ file'[i] # file[i]
  <2>1. i = job[a].n + 1 /\ file'[i] = New
    BY <1>5, <1>t DEF Creates
  <2>2. ~Known(i)
    BY <1>5, <2>1, GoneStays
  <2>3. Held(i)' = New
    BY <2>1, Basics DEF Held
  <2> QED
    BY <2>2, <2>3, Basics DEF Comes
<1>6. CASE Resets(a) \/ Unlinks(a)
  BY <1>2, <1>6, <1>t DEF Resets, Unlinks
<1> QED
  BY <1>2, <1>3, <1>4, <1>5, <1>6 DEF Does, Begins, Skips, TakesLock, GivesUp, ClaimStarts,
     ClaimReads, ClaimsGone, ListLocks, Reads, ReadsMark, WritesMark, Sweeps, Exits

\* Two tasks that were told of each other stay so, as long as both are there.
LEMMA LinkedStep ==
  ASSUME BaseInv, BaseInv', IdInv', SeenInv, AgreeOK, NEW a \in Agents, Does(a), Clean',
         NEW m \in Ids, NEW n \in Ids, Known(m), Known(n)
  PROVE  /\ Linked(m, n) => Linked(m, n)'
         /\ m \in Held(n).blockedBy => \/ file'[m] = Gone \/ file'[n] = Gone
                                       \/ m \in Held(n)'.blockedBy
<1>1. /\ file[m] = Gone => file'[m] = Gone
      /\ file[n] = Gone => file'[n] = Gone
  BY GoneStays
<1>2. ASSUME n \in Held(m).blocks
      PROVE  Linked(m, n)'
  <2>1. file'[m] = Gone \/ Stays(m) \/ Tells(m) \/ Learns(m) \/ Drops(m)
    BY LinkStep DEF Comes
  <2> QED
    BY <1>1, <1>2, <2>1 DEF Linked, Stays, Tells, Learns, Drops
<1>3. ASSUME m \in Held(n).blockedBy, file'[n] # Gone, file'[m] # Gone
      PROVE  m \in Held(n)'.blockedBy
  <2>1. Stays(n) \/ Tells(n) \/ Learns(n) \/ Drops(n)
    BY <1>3, LinkStep DEF Comes
  <2> QED
    BY <1>1, <1>3, <2>1 DEF Stays, Tells, Learns, Drops
<1> QED
  BY <1>1, <1>2, <1>3 DEF Linked

\* A file that is opened holds what will be written.
LEMMA OpenHolds ==
  ASSUME BaseInv, BaseInv', NEW a \in Agents, Opens(a), NEW i \in Ids, i = job[a].id
  PROVE  /\ Held(i)' = Written(a)
         /\ job'[a].step = "write" /\ job'[a].id = i /\ job'[a].kind = job[a].kind
         /\ job'[a].todo = job[a].todo
<1>1. job[a] \in Jobs
  BY DEF BaseInv, TypeOK
<1>2. /\ job'[a].step = "write" /\ job'[a].id = i /\ job'[a].seen = job[a].seen
      /\ job'[a].kind = job[a].kind /\ job'[a].todo = job[a].todo
  BY <1>1 DEF Opens, Moves, Jobs
<1>3. file'[i] = Torn
  BY DEF Opens, BaseInv, TypeOK
<1>4. Held(i)' = Written(a)'
  BY <1>2, <1>3, HeldWriterThen DEF Writing
<1> QED
  BY <1>2, <1>4 DEF Written

\* How a job that has changes to make goes on.
LEMMA UpdaterSteps ==
  ASSUME BaseInv, NEW a \in Agents, Does(a), Clean', job[a].kind \in {"block", "delete"},
         job[a].todo # <<>>
  PROVE  \/ /\ Skips(a) \/ Writes(a)
            /\ job'[a] = After(job[a], Tail(job[a].todo))
            /\ \/ job'[a] = NoJob /\ Tail(job[a].todo) = <<>>
               \/ /\ job'[a].kind = job[a].kind /\ job'[a].step = "update"
                  /\ job'[a].todo = Tail(job[a].todo)
         \/ /\ TakesLock(a) /\ job'[a].step = "open" /\ job'[a].kind = job[a].kind
            /\ job'[a].todo = job[a].todo
         \/ Opens(a)
<1>1. /\ job[a] \in Jobs /\ JobOK(a, job[a]) /\ job[a] # NoJob
      /\ job[a].step \in {"update", "open", "write"}
  <2>1. job[a] \in Jobs /\ JobOK(a, job[a]) /\ job[a] # NoJob
    BY DEF BaseInv, TypeOK, JobsOK, NoJob
  <2> QED
    BY <2>1 DEF JobOK
<1>2. \/ Skips(a) \/ TakesLock(a) \/ Opens(a) \/ Writes(a)
      \/ (GivesUp(a) /\ job[a].step = "update") \/ Exits(a)
  BY <1>1 DEF Does, Begins, ClaimStarts, ClaimReads, GivesUp,
     ClaimsGone, ListLocks, Reads, Creates, Resets, ReadsMark, WritesMark, Unlinks, Sweeps
<1>3. ~(GivesUp(a) /\ job[a].step = "update") /\ ~Exits(a)
  BY <1>1 DEF GivesUp, Exits, Clean, Without
<1>4. CASE Skips(a) \/ Writes(a)
  <2>1. job'[a] = After(job[a], Tail(job[a].todo))
    BY <1>4 DEF Skips, Writes, WritesOther, WritesClaim, Moves
  <2>2. Tail(job[a].todo) = <<>> => job'[a] = NoJob
    BY <2>1 DEF After
  <2>3. Tail(job[a].todo) # <<>> =>
          /\ job'[a].kind = job[a].kind /\ job'[a].step = "update"
          /\ job'[a].todo = Tail(job[a].todo)
    BY <1>1, <2>1 DEF After, Jobs
  <2> QED
    BY <1>4, <2>1, <2>2, <2>3
<1>5. CASE TakesLock(a)
  BY <1>1, <1>5 DEF TakesLock, Moves, Jobs
<1> QED
  BY <1>2, <1>3, <1>4, <1>5

\* A task that is still to be told is told, or gone, or still to be told.
LEMMA PendingStep ==
  ASSUME BaseInv, BaseInv', NEW a \in Agents, Does(a), Clean', NEW i \in Ids, NEW j \in Ids,
         Pending(i, j)
  PROVE  Pending(i, j)' \/ file'[j] = Gone \/ i \in Held(j)'.blockedBy
<1>b. PICK b \in Agents :
        /\ job[b].kind = "block"
        /\ \E k \in DOMAIN job[b].todo :
             BlockedChange(job[b].todo[k], i, j) /\ (job[b].step = "write" => k # 1)
  BY DEF Pending
<1>1. PICK k \in DOMAIN job[b].todo :
        /\ job[b].kind = "block" /\ BlockedChange(job[b].todo[k], i, j)
        /\ job[b].step = "write" => k # 1
  BY <1>b
<1>2. CASE b # a
  <2>1. job'[b] = job[b]
    BY <1>2, FaultsGrow DEF Others
  <2> QED
    BY <1>1, <2>1 DEF Pending
<1>3. CASE b = a
  <2>1. job[a].todo \in Seq(Changes) /\ job[a].todo # <<>>
    BY <1>1, <1>3 DEF BaseInv, TypeOK, Jobs
  <2>2. CASE /\ k # 1
             /\ job'[a].kind = job[a].kind /\ job'[a].step = "update"
             /\ job'[a].todo = Tail(job[a].todo)
    <3> PICK t \in Seq(Changes) : t = job[a].todo
      BY <2>1
    <3>1. /\ DOMAIN Tail(t) = 1..(Len(t) - 1) /\ Len(t) \in Nat /\ DOMAIN t = 1..Len(t)
          /\ \A l \in DOMAIN Tail(t) : Tail(t)[l] = t[l + 1]
      BY <2>1, TailFacts, LenProperties
    <3>2. k - 1 \in DOMAIN Tail(t) /\ (k - 1) + 1 = k
      BY <1>1, <1>3, <2>2, <3>1
    <3>3. job'[a].todo[k - 1] = job[a].todo[k] /\ k - 1 \in DOMAIN job'[a].todo
      BY <2>2, <3>1, <3>2
    <3> QED
      BY <1>1, <1>3, <2>2, <3>3 DEF Pending
  <2>3. CASE job'[a].kind = job[a].kind /\ job'[a].step = "open" /\ job'[a].todo = job[a].todo
    BY <1>1, <1>3, <2>3 DEF Pending
  <2>4. k # 1 => Tail(job[a].todo) # <<>>
    <3> PICK t \in Seq(Changes) : t = job[a].todo
      BY <2>1
    <3>1. Len(t) \in Nat /\ DOMAIN t = 1..Len(t) /\ DOMAIN Tail(t) = 1..(Len(t) - 1)
      BY <2>1, TailFacts, LenProperties
    <3>2. k # 1 => 1 \in DOMAIN Tail(t)
      BY <1>1, <1>3, <3>1
    <3>3. 1 \notin DOMAIN <<>>
      OBVIOUS
    <3>4. k # 1 => Tail(t) # <<>>
      BY <3>2, <3>3
    <3> QED
      BY <3>4
  <2>5. CASE Skips(a) /\ k = 1
    <3>1. Head(job[a].todo) = job[a].todo[1] /\ job[a].todo[1].id = j
      BY <1>1, <1>3, <2>1, <2>5, TailFacts DEF BlockedChange
    <3>2. ~Readable(j) /\ file[j] # Torn /\ file' = file
      BY <2>5, <3>1 DEF Skips, Clean, Without
    <3> QED
      BY <3>2 DEF BaseInv, FilesOK
  <2>6. CASE Opens(a)
    <3>1. job[a].id \in Ids
      BY <2>6, JobFacts DEF Opens, BaseInv
    <3>2. CASE k = 1
      <4>1. Head(job[a].todo) = job[a].todo[1] /\ job[a].todo[1].id = j
        BY <1>1, <1>3, <2>1, <3>2, TailFacts DEF BlockedChange
      <4>2. job[a].id = j
        BY <2>6, <4>1, JobFacts DEF Opens, BaseInv
      <4>3. Written(a).blockedBy = Head(job[a].todo).val.blockedBy
        BY <1>1, <1>3, <2>6, <3>2, <4>1, WrittenFacts DEF Opens, BaseInv, BlockedChange
      <4>4. Held(j)' = Written(a)
        BY <2>6, <4>2, OpenHolds
      <4> QED
        BY <1>1, <1>3, <3>2, <4>1, <4>3, <4>4 DEF BlockedChange
    <3>3. CASE k # 1
      <4>1. job'[a].kind = job[a].kind /\ job'[a].todo = job[a].todo
        BY <2>6, <3>1, OpenHolds
      <4> QED
        BY <1>1, <1>3, <3>3, <4>1 DEF Pending
    <3> QED
      BY <3>2, <3>3
  <2>7. Writes(a) => k # 1
    BY <1>1, <1>3 DEF Writes
  <2>8. \/ /\ Skips(a) \/ Writes(a)
           /\ job'[a] = After(job[a], Tail(job[a].todo))
           /\ \/ job'[a] = NoJob /\ Tail(job[a].todo) = <<>>
              \/ /\ job'[a].kind = job[a].kind /\ job'[a].step = "update"
                 /\ job'[a].todo = Tail(job[a].todo)
        \/ /\ TakesLock(a) /\ job'[a].step = "open" /\ job'[a].kind = job[a].kind
           /\ job'[a].todo = job[a].todo
        \/ Opens(a)
    BY <1>1, <1>3, <2>1, UpdaterSteps
  <2> QED
    BY <2>2, <2>3, <2>4, <2>5, <2>6, <2>7, <2>8
<1> QED
  BY <1>2, <1>3

\* A task whose file is torn goes on having a writer.
LEMMA TornStep ==
  ASSUME BaseInv, BaseInv', TornOK, NEW a \in Agents, Does(a), Clean'
  PROVE  TornOK'
<1> SUFFICES ASSUME NEW i \in Ids, file'[i] = Torn
             PROVE  \E w \in Agents : Writing(w, i)'
  BY DEF TornOK
<1>t. file \in [Ids -> Tasks]
  BY DEF BaseInv, TypeOK
<1>1. CASE file[i] = Torn
  <2>1. PICK w \in Agents : Writing(w, i)
    BY <1>1 DEF TornOK
  <2>2. w # a
    BY <1>1, <2>1, TornWritten
  <2>3. job'[w] = job[w]
    BY <2>2, FaultsGrow DEF Others
  <2> QED
    BY <2>1, <2>3 DEF Writing
<1>2. CASE file[i] # Torn
  <2>1. CASE Opens(a)
    <3>1. i = job[a].id
      BY <1>2, <1>t, <2>1 DEF Opens
    <3> QED
      BY <2>1, <3>1, OpenHolds DEF Writing
  <2>2. CASE Writes(a)
    <3>1. Written(a).status \in Kept /\ file'[i] \in {file[i], Gone, Written(a)}
      BY <1>t, <2>2, WrittenFacts DEF Writes, BaseInv
    <3> QED
      BY <1>2, <3>1, Basics DEF Kept, Open
  <2>3. CASE Creates(a)
    <3>1. file'[i] \in {file[i], New}
      BY <1>t, <2>3 DEF Creates
    <3> QED
      BY <1>2, <3>1, Basics
  <2>4. CASE Resets(a) \/ Unlinks(a)
    <3>1. file'[i] \in {file[i], Gone}
      BY <1>t, <2>4 DEF Resets, Unlinks
    <3> QED
      BY <1>2, <3>1, Basics
  <2> QED
    BY <1>2, <2>1, <2>2, <2>3, <2>4 DEF Does, Begins, Skips, TakesLock, GivesUp, ClaimStarts,
       ClaimReads, ClaimsGone, ListLocks, Reads, ReadsMark, WritesMark, Sweeps, Exits
<1> QED
  BY <1>1, <1>2

\* What is opened holds what the change was computed from, or else it is stale.
LEMMA FreshStep ==
  ASSUME BaseInv, AgreeOK, NEW a \in Agents, Does(a), Clean', NEW b \in Agents
  PROVE  FreshOK(b)'
<1>1. CASE b # a
  BY <1>1, FaultsGrow DEF Others, AgreeOK, FreshOK
<1>2. CASE b = a
  <2> SUFFICES ASSUME job'[a].step = "open"
               PROVE  LET u == Head(job'[a].todo) IN
                      /\ "blocks" \in u.fields => job'[a].seen.blocks = u.base.blocks
                      /\ "blockedBy" \in u.fields => job'[a].seen.blockedBy = u.base.blockedBy
    BY <1>2 DEF FreshOK
  <2>1. CASE /\ TakesLock(a) /\ job'[a].seen = file[Head(job[a].todo).id]
             /\ job'[a].todo = job[a].todo
    <3> PICK u : u = Head(job[a].todo)
      OBVIOUS
    <3>1. ~(\E f \in u.fields \cap {"blocks", "blockedBy"} : file[u.id][f] # u.base[f])
      BY <2>1 DEF TakesLock, Clean, Without
    <3> QED
      BY <2>1, <3>1
  <2>2. CASE job'[a].todo = <<Update(job[a].id, {"owner"}, file[job[a].id],
                                     [file[job[a].id] EXCEPT !.owner = a])>>
    <3>1. Head(job'[a].todo).fields = {"owner"}
      BY <2>2 DEF Update
    <3> QED
      BY <3>1
  <2> QED
    BY <2>1, <2>2, LockStepMoves DEF LockSteps
<1> QED
  BY <1>1, <1>2

\* The references that a delete removes are to a task that is gone for good.
LEMMA SweepStep ==
  ASSUME BaseInv, BaseInv', IdInv', SeenInv, AgreeOK, NEW a \in Agents, Does(a), Clean', NEW b \in Agents
  PROVE  SweepOK(b)'
<1>1. CASE b # a
  <2>1. job'[b] = job[b] /\ SweepOK(b)
    BY <1>1, FaultsGrow DEF Others, AgreeOK
  <2>2. job[b].step = "sweep" => file'[job[b].id] = Gone
    <3> SUFFICES ASSUME job[b].step = "sweep" PROVE file'[job[b].id] = Gone
      OBVIOUS
    <3>1. job[b].id \in Ids
      BY JobFacts DEF BaseInv
    <3>2. Known(job[b].id) /\ file[job[b].id] = Gone
      BY <2>1, <3>1, Basics DEF SweepOK, BaseInv, KnownOK
    <3> QED
      BY <3>1, <3>2, GoneStays
  <2>3. ASSUME NEW d \in Ids, Known(d), file[d] = Gone
        PROVE  Known(d)' /\ file'[d] = Gone
    BY <2>3, GoneStays
  <2> QED
    BY <2>1, <2>2, <2>3 DEF SweepOK
<1>2. CASE b = a
  <2>t. job[a] \in Jobs /\ file \in [Ids -> Tasks] /\ DOMAIN <<>> = {}
    BY DEF BaseInv, TypeOK
  <2>1. job'[a].step = "sweep" => file'[job'[a].id] = Gone
    <3> SUFFICES ASSUME job'[a].step = "sweep" PROVE file'[job'[a].id] = Gone
      OBVIOUS
    <3>1. Unlinks(a) /\ job'[a] = [job[a] EXCEPT !.step = "sweep"] /\ job[a].id \in Ids
      <4>2. ~Bystands(a)
        BY BystandsStep
      <4>3. ~Creates(a) /\ ~Resets(a)
        BY DEF Creates, Resets, Moves, NoJob
      <4>4. ~ListLocks(a) /\ ~ReadsMark(a) /\ ~WritesMark(a)
        BY <2>t DEF ListLocks, ReadsMark, WritesMark, Moves, Jobs
      <4>5. ~Reads(a)
        <5>1. \A s, n, t : [job[a] EXCEPT !.left = s, !.n = n, !.step = t].step = t
          BY <2>t DEF Jobs
        <5> QED
          BY <5>1 DEF Reads, Moves
      <4>6. Unlinks(a)
        BY <4>2, <4>3, <4>4, <4>5 DEF Does, Bystands
      <4>7. job[a].id \in Ids
        BY <4>6, JobFacts DEF Unlinks, BaseInv
      <4> QED
        BY <4>6, <4>7 DEF Unlinks, Moves, NoJob
    <3>2. job'[a].id = job[a].id
      BY <2>t, <3>1 DEF Jobs
    <3> QED
      BY <2>t, <3>1, <3>2 DEF Unlinks
  <2>2. ASSUME job'[a].kind = "delete", job'[a].todo # <<>>
        PROVE  \E d \in Ids : /\ Known(d)' /\ file'[d] = Gone
                              /\ \A k \in DOMAIN job'[a].todo : DropsOnly(job'[a].todo[k], d)
    <3>1. ~FromNewJob(a)
      BY <2>2 DEF FromNewJob, Begins, BeginsWith
    <3>2. ASSUME NEW k \in DOMAIN job'[a].todo
          PROVE  FromBefore(a, job'[a].todo[k]) \/ FromSweep(a, job'[a].todo[k])
      BY <2>2, <3>1, <3>2, TodoFrom DEF FromClaim, FromList
    <3>3. CASE Sweeps(a)
      <4>1. PICK d \in Ids : d = job[a].id /\ job[a].todo = <<>> /\ job[a].step = "sweep"
        BY <3>3, JobFacts DEF Sweeps, BaseInv
      <4>2. Known(d) /\ file[d] = Gone
        BY <4>1, Basics DEF BaseInv, KnownOK, AgreeOK, SweepOK
      <4>3. \A k \in DOMAIN job'[a].todo : DropsOnly(job'[a].todo[k], d)
        BY <2>t, <3>2, <4>1 DEF FromBefore, FromSweep, DropsOnly
      <4> QED
        BY <4>2, <4>3, GoneStays
    <3>4. CASE ~Sweeps(a)
      <4>0. job'[a].todo \in Seq(Changes)
        BY DEF BaseInv, TypeOK, Jobs
      <4>1. PICK k \in DOMAIN job'[a].todo : TRUE
        BY <2>2, <4>0, TailFacts
      <4>2. job[a].kind = "delete" /\ job[a].todo # <<>>
        BY <2>2, <2>t, <3>2, <3>4, <4>1 DEF FromBefore, FromSweep
      <4>3. PICK d \in Ids : /\ Known(d) /\ file[d] = Gone
                             /\ \A l \in DOMAIN job[a].todo : DropsOnly(job[a].todo[l], d)
        BY <4>2 DEF AgreeOK, SweepOK
      <4>4. \A l \in DOMAIN job'[a].todo : DropsOnly(job'[a].todo[l], d)
        BY <3>2, <3>4, <4>3 DEF FromBefore, FromSweep
      <4> QED
        BY <4>3, <4>4, GoneStays
    <3> QED
      BY <3>3, <3>4
  <2> QED
    BY <1>2, <2>1, <2>2 DEF SweepOK
<1> QED
  BY <1>1, <1>2

\* A job that makes a task block another has told the one before it tells the other.
LEMMA BlockStep ==
  ASSUME BaseInv, BaseInv', IdInv', SeenInv, AgreeOK, NEW a \in Agents, Does(a), Clean',
         NEW b \in Agents
  PROVE  BlockOK(b)'
<1>1. ASSUME NEW m \in Ids, NEW n \in Ids, Known(m), Known(n)
      PROVE  Known(m)' /\ Known(n)' /\ (Linked(m, n) => Linked(m, n)')
  BY <1>1, GoneStays, LinkedStep
<1>2. CASE b # a
  <2>1. job'[b] = job[b] /\ BlockOK(b)
    BY <1>2, FaultsGrow DEF Others, AgreeOK
  <2> SUFFICES ASSUME job[b].kind = "block"
               PROVE  BlockOK(b)'
    BY <2>1 DEF BlockOK
  <2>2. PICK m \in Ids, n \in Ids :
          /\ Known(m) /\ Known(n)
          /\ \/ /\ Len(job[b].todo) = 2
                /\ BlocksChange(job[b].todo[1], m, n) /\ BlockedChange(job[b].todo[2], m, n)
                /\ job[b].step = "write" => Linked(m, n)
             \/ Len(job[b].todo) = 1 /\ BlockedChange(job[b].todo[1], m, n) /\ Linked(m, n)
    BY <2>1 DEF BlockOK
  <2>3. Known(m)' /\ Known(n)' /\ (Linked(m, n) => Linked(m, n)')
    BY <1>1, <2>2
  <2> QED
    BY <2>1, <2>2, <2>3 DEF BlockOK
<1>3. CASE b = a /\ FromNewJob(a)
  <2> SUFFICES ASSUME job'[a].kind = "block"
               PROVE  BlockOK(a)'
    BY <1>3 DEF BlockOK
  <2>1. PICK m \in Listed, n \in Listed :
          /\ n \notin file[m].blocks
          /\ \/ /\ Len(job'[a].todo) = 2
                /\ BlocksChange(job'[a].todo[1], m, n) /\ BlockedChange(job'[a].todo[2], m, n)
             \/ m \in file[n].blockedBy
    BY <1>3 DEF FromNewJob, Begins, BeginsWith
  <2>2. job'[a].step # "write"
    BY <1>3 DEF FromNewJob, Begins
  <2>3. /\ m \in Ids /\ n \in Ids /\ file[m] # Gone /\ file[n] # Gone
        /\ file[m] # Torn /\ file[n] # Torn
    BY <2>1, Basics DEF Listed, Readable
  <2>4. Held(m) = file[m] /\ Held(n) = file[n]
    BY <2>3 DEF Held
  <2>5. m \notin file[n].blockedBy
    BY <2>1, <2>3, <2>4 DEF AgreeOK, PairOK
  <2>6. Known(m)' /\ Known(n)'
    BY <1>1, <2>3 DEF BaseInv, KnownOK
  <2> QED
    BY <2>1, <2>2, <2>3, <2>5, <2>6 DEF BlockOK
<1>4. CASE b = a /\ job[a].kind = "block" /\ job[a].todo # <<>>
  <2> SUFFICES ASSUME job'[a].kind = "block"
               PROVE  BlockOK(a)'
    BY <1>4 DEF BlockOK
  <2>1. PICK m \in Ids, n \in Ids :
          /\ Known(m) /\ Known(n)
          /\ \/ /\ Len(job[a].todo) = 2
                /\ BlocksChange(job[a].todo[1], m, n) /\ BlockedChange(job[a].todo[2], m, n)
                /\ job[a].step = "write" => Linked(m, n)
             \/ Len(job[a].todo) = 1 /\ BlockedChange(job[a].todo[1], m, n) /\ Linked(m, n)
    BY <1>4 DEF AgreeOK, BlockOK
  <2>2. Known(m)' /\ Known(n)' /\ (Linked(m, n) => Linked(m, n)')
    BY <1>1, <2>1
  <2> PICK t \in Seq(Changes) : t = job[a].todo
    BY DEF BaseInv, TypeOK, Jobs
  <2>3. t # <<>> /\ Head(t) = t[1] /\ Len(Tail(t)) = Len(t) - 1
        /\ \A l \in DOMAIN Tail(t) : Tail(t)[l] = t[l + 1]
        /\ DOMAIN Tail(t) = 1..(Len(t) - 1)
    BY <1>4, TailFacts, HeadTailProperties
  <2>4. CASE Tail(t) # <<>> /\ job'[a].step = "update" /\ job'[a].todo = Tail(t)
             /\ (Skips(a) \/ Writes(a))
    <3>1. Len(t) = 2
      <4>1. Len(t) = 1 => Tail(t) = <<>>
        BY <2>3, HeadTailProperties, EmptySeq
      <4> QED
        BY <2>1, <2>4, <4>1
    <3>2. Len(Tail(t)) = 1 /\ Tail(t)[1] = t[2]
      BY <2>3, <3>1
    <3>3. Linked(m, n)'
      <4>1. CASE Writes(a)
        BY <2>1, <2>2, <3>1, <4>1 DEF Writes
      <4>2. CASE Skips(a)
        <5>1. Head(t).id = m
          BY <2>1, <2>3, <3>1 DEF BlocksChange
        <5>2. ~Readable(m) /\ file[m] # Torn /\ file' = file
          BY <4>2, <5>1 DEF Skips, Clean, Without
        <5>3. file'[m] = Gone
          BY <5>2 DEF BaseInv, FilesOK
        <5> QED
          BY <5>3 DEF Linked
      <4> QED
        BY <2>4, <4>1, <4>2
    <3> QED
      BY <2>1, <2>2, <2>4, <3>1, <3>2, <3>3 DEF BlockOK
  <2>5. CASE job'[a].step = "open" /\ job'[a].todo = t
    BY <2>1, <2>2, <2>5 DEF BlockOK
  <2>6. CASE Opens(a)
    <3>1. PICK i \in Ids : i = job[a].id /\ i = Head(t).id
      BY <2>6, JobFacts DEF Opens, BaseInv
    <3>2. Held(i)' = Written(a) /\ job'[a].todo = t
      BY <2>6, <3>1, OpenHolds
    <3>3. CASE Len(t) = 2
      <4>1. i = m /\ Head(t).fields = {"blocks"} /\ n \in Head(t).val.blocks
        BY <2>1, <2>3, <3>1, <3>3 DEF BlocksChange
      <4>2. Written(a).blocks = Head(t).val.blocks
        BY <2>6, <4>1, WrittenFacts DEF Opens, BaseInv
      <4>3. Linked(m, n)'
        BY <3>2, <4>1, <4>2 DEF Linked
      <4> QED
        BY <2>1, <2>2, <3>2, <3>3, <4>3 DEF BlockOK
    <3>4. CASE Len(t) # 2
      BY <2>1, <2>2, <3>2, <3>4 DEF BlockOK
    <3> QED
      BY <3>3, <3>4
  <2>7. job'[a] # NoJob
    BY DEF NoJob
  <2>8. \/ /\ Skips(a) \/ Writes(a)
           /\ job'[a] = After(job[a], Tail(job[a].todo))
           /\ \/ job'[a] = NoJob /\ Tail(job[a].todo) = <<>>
              \/ /\ job'[a].kind = job[a].kind /\ job'[a].step = "update"
                 /\ job'[a].todo = Tail(job[a].todo)
        \/ /\ TakesLock(a) /\ job'[a].step = "open" /\ job'[a].kind = job[a].kind
           /\ job'[a].todo = job[a].todo
        \/ Opens(a)
    BY <1>4, UpdaterSteps
  <2>9. Tail(t) = <<>> => After(job[a], Tail(job[a].todo)) = NoJob
    BY DEF After
  <2> QED
    BY <2>4, <2>5, <2>6, <2>7, <2>8, <2>9
<1>5. CASE b = a /\ job'[a].kind = "block"
  <2>1. job'[a].todo # <<>> /\ job'[a].todo \in Seq(Changes)
    <3>1. job'[a] \in Jobs /\ JobOK(a, job'[a]) /\ job'[a] # NoJob
      BY <1>5 DEF BaseInv, TypeOK, JobsOK, NoJob
    <3> QED
      BY <1>5, <3>1 DEF JobOK, Jobs
  <2>2. PICK k \in DOMAIN job'[a].todo : TRUE
    BY <2>1, TailFacts
  <2>3. FromBefore(a, job'[a].todo[k]) \/ FromNewJob(a)
    BY <1>5, TodoFrom DEF FromClaim, FromList, FromSweep
  <2>4. FromBefore(a, job'[a].todo[k]) => job[a].kind = "block" /\ job[a].todo # <<>>
    BY <1>5 DEF FromBefore
  <2> QED
    BY <1>3, <1>4, <1>5, <2>3, <2>4
<1> QED
  BY <1>2, <1>5 DEF BlockOK

\* What two tasks hold of each other agrees, but for what is still to be told.
LEMMA PairStep ==
  ASSUME BaseInv, BaseInv', IdInv', SeenInv, AgreeOK, NEW a \in Agents, Does(a), Clean',
         NEW i \in Ids, NEW j \in Ids
  PROVE  PairOK(i, j)'
<1> SUFFICES ASSUME file'[i] # Gone, file'[j] # Gone
             PROVE  /\ j \in Held(i)'.blocks => i \in Held(j)'.blockedBy \/ Pending(i, j)'
                    /\ i \in Held(j)'.blockedBy => j \in Held(i)'.blocks
  BY DEF PairOK
<1>1. TornOK /\ PairOK(i, j)
  BY DEF AgreeOK
<1>2. /\ Stays(i) \/ Comes(i) \/ Tells(i) \/ Learns(i) \/ Drops(i)
      /\ Stays(j) \/ Comes(j) \/ Tells(j) \/ Learns(j) \/ Drops(j)
  BY LinkStep
<1>3. /\ Known(i) /\ file[i] = Gone => file'[i] = Gone
      /\ Known(j) /\ file[j] = Gone => file'[j] = Gone
  BY GoneStays
<1>4. ASSUME j \in Held(i).blocks, Known(i)
      PROVE  i \in Held(j)'.blockedBy \/ Pending(i, j)'
  <2>1. Known(j) /\ file[i] # Gone /\ file[j] # Gone
    BY <1>1, <1>3, <1>4, HeldKnown
  <2>2. i \in Held(j).blockedBy \/ Pending(i, j)
    BY <1>1, <1>4, <2>1 DEF PairOK
  <2> QED
    BY <1>4, <2>1, <2>2, LinkedStep, PendingStep
<1>5. ASSUME j \in Held(i)'.blocks
      PROVE  i \in Held(j)'.blockedBy \/ Pending(i, j)'
  <2>1. CASE Comes(i)
    BY <1>5, <2>1 DEF Comes
  <2>2. CASE file[i] # Gone
    <3>1. Known(i)
      BY <2>2 DEF BaseInv, KnownOK
    <3>2. j \in Held(i).blocks \/ Pending(i, j)'
      BY <1>2, <1>5, <2>1 DEF Stays, Tells, Learns, Drops, Comes
    <3> QED
      BY <1>4, <3>1, <3>2
  <2> QED
    BY <1>2, <2>1, <2>2 DEF Stays, Tells, Learns, Drops
<1>6. ASSUME Known(i), Known(j), Linked(i, j)
      PROVE  j \in Held(i)'.blocks
  BY <1>6, LinkedStep DEF Linked
<1>7. ASSUME i \in Held(j)'.blockedBy
      PROVE  j \in Held(i)'.blocks
  <2>1. CASE Comes(j)
    BY <1>7, <2>1 DEF Comes
  <2>2. CASE file[j] # Gone
    <3>1. Known(j)
      BY <2>2 DEF BaseInv, KnownOK
    <3>2. CASE i \in Held(j).blockedBy
      <4>1. Known(i)
        BY <1>1, <3>2, HeldKnown
      <4>2. j \in Held(i).blocks
        BY <1>1, <1>3, <2>2, <3>2, <4>1 DEF PairOK
      <4> QED
        BY <1>6, <3>1, <4>1, <4>2 DEF Linked
    <3>3. CASE i \notin Held(j).blockedBy
      <4>1. Learns(j)
        BY <1>2, <1>7, <2>2, <3>3, <2>1 DEF Stays, Tells, Drops, Comes
      <4>2. Known(i) /\ Linked(i, j)
        BY <1>7, <3>3, <4>1 DEF Learns
      <4> QED
        BY <1>6, <3>1, <4>2
    <3> QED
      BY <3>2, <3>3
  <2> QED
    BY <1>2, <2>1, <2>2 DEF Stays, Tells, Learns, Drops
<1> QED
  BY <1>5, <1>7

LEMMA AgreeStep ==
  ASSUME IInv, IInv', AgreeInv, Next
  PROVE  AgreeInv'
<1> SUFFICES ASSUME Clean'
             PROVE  AgreeOK'
  BY DEF AgreeInv
<1>1. BaseInv /\ BaseInv' /\ IdInv' /\ SeenInv
  BY DEF IInv
<1>2. PICK a \in Agents : Does(a)
  BY <1>1, BaseStep
<1>3. AgreeOK
  BY <1>1, <1>2, FaultsGrow DEF AgreeInv, Clean, Without
<1>4. TornOK'
  BY <1>1, <1>2, <1>3, TornStep DEF AgreeOK
<1>5. \A b \in Agents : SweepOK(b)' /\ BlockOK(b)' /\ FreshOK(b)'
  BY <1>1, <1>2, <1>3, SweepStep, BlockStep, FreshStep
<1>6. \A i, j \in Ids : PairOK(i, j)'
  BY <1>1, <1>2, <1>3, PairStep
<1> QED
  BY <1>4, <1>5, <1>6 DEF AgreeOK

\* At the start no job has begun, and the two tasks agree.
LEMMA AgreeInit ==
  ASSUME Init
  PROVE  AgreeInv
<1>1. PICK before \in {{}, {1}} :
        file = [i \in Ids |->
                  IF i = 1 THEN [New EXCEPT !.blocks = {j \in Ids : j = 2 /\ before # {}}]
                  ELSE IF i = 2 THEN Task("pending", before) ELSE Gone]
  BY DEF Init
<1>2. \A a \in Agents : job[a] = NoJob
  BY DEF Init
<1>3. \A a \in Agents : SweepOK(a) /\ BlockOK(a) /\ FreshOK(a)
  BY <1>2 DEF SweepOK, BlockOK, FreshOK, NoJob
<1>4. ASSUME NEW i \in Ids
      PROVE  /\ file[i].status \in {"pending", "gone"}
             /\ file[i].blocks = IF i = 1 THEN {j \in Ids : j = 2 /\ before # {}} ELSE {}
             /\ file[i].blockedBy = IF i = 2 THEN before ELSE {}
  BY <1>1 DEF New, Gone, Task
<1>5. \A i \in Ids : file[i] # Torn /\ Held(i) = file[i]
  BY <1>4, Basics DEF Held
<1>6. TornOK
  BY <1>5 DEF TornOK
<1>7. ASSUME NEW i \in Ids, NEW j \in Ids
      PROVE  PairOK(i, j)
  <2>1. j \in file[i].blocks <=> i = 1 /\ j = 2 /\ before # {}
    <3>1. file[i].blocks = IF i = 1 THEN {k \in Ids : k = 2 /\ before # {}} ELSE {}
      BY <1>4
    <3>2. CASE i = 1
      BY <3>1, <3>2
    <3>3. CASE i # 1
      BY <3>1, <3>3
    <3> QED
      BY <3>2, <3>3
  <2>2. i \in file[j].blockedBy <=> i = 1 /\ j = 2 /\ before # {}
    <3>1. file[j].blockedBy = IF j = 2 THEN before ELSE {}
      BY <1>4
    <3>2. i \in before <=> i = 1 /\ before # {}
      BY <1>1
    <3> QED
      BY <3>1, <3>2
  <2> QED
    BY <1>5, <2>1, <2>2 DEF PairOK
<1> QED
  BY <1>3, <1>6, <1>7 DEF AgreeInv, AgreeOK

LEMMA AgreeStutter ==
  ASSUME AgreeInv, UNCHANGED vars
  PROVE  AgreeInv'
<1> USE DEF vars, data, locks, ghosts
<1>1. \A i \in Ids : Held(i)' = Held(i)
  BY DEF Held, Writing, Written
<1>2. Clean' = Clean /\ TornOK' = TornOK
  BY DEF Clean, Without, TornOK, Writing
<1>3. \A i, j \in Ids : Linked(i, j)' = Linked(i, j) /\ PairOK(i, j)' = PairOK(i, j)
  BY <1>1 DEF Linked, PairOK, Pending
<1>4. \A a \in Agents : SweepOK(a)' = SweepOK(a) /\ FreshOK(a)' = FreshOK(a)
  BY DEF SweepOK, FreshOK, Known
<1>5. \A a \in Agents : BlockOK(a)' = BlockOK(a)
  BY <1>3 DEF BlockOK, Known
<1> QED
  BY <1>2, <1>3, <1>4, <1>5 DEF AgreeInv, AgreeOK

\* What two tasks hold of each other agrees whenever nobody is at work on the list.
THEOREM BlocksDoAgree == Spec => []BlocksAgree
<1>1. AgreeInv => BlocksAgree
  <2> SUFFICES ASSUME AgreeInv, Clean, \A a \in Agents : job[a] = NoJob,
                      NEW i \in Listed, NEW j \in Listed
               PROVE  j \in file[i].blocks <=> i \in file[j].blockedBy
    BY DEF BlocksAgree, Clean
  <2>1. /\ i \in Ids /\ j \in Ids /\ file[i] # Gone /\ file[j] # Gone
        /\ file[i] # Torn /\ file[j] # Torn
    BY Basics DEF Listed, Readable
  <2>2. Held(i) = file[i] /\ Held(j) = file[j]
    BY <2>1 DEF Held
  <2>3. ~Pending(i, j)
    BY DEF Pending, NoJob
  <2> QED
    BY <2>1, <2>2, <2>3 DEF AgreeInv, AgreeOK, PairOK
<1>2. Init => AgreeInv
  BY AgreeInit
<1>3. IInv /\ IInv' /\ AgreeInv /\ [Next]_vars => AgreeInv'
  BY AgreeStep, AgreeStutter
<1> QED
  BY <1>1, <1>2, <1>3, Invariance, PTL DEF Spec
=============================================================================
