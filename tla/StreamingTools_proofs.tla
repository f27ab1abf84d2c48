----------------------- MODULE StreamingTools_proofs -----------------------
(***************************************************************************)
(* Proofs about StreamingToolExecutor, for every set of tools, every       *)
(* message and every number of permits: first its streaming side           *)
(* (StreamingTools), then execute_batch (BatchExecution); they share no    *)
(* variable.                                                               *)
(***************************************************************************)
EXTENDS StreamingTools, BatchExecution, FiniteSetTheorems, SequenceTheorems,
        WellFoundedInduction, TLAPS

-----------------------------------------------------------------------------
(* The inductive invariant.                                                *)

\* Positions in self._tools are distinct and none is beyond the last one, so
\* the next position is new.
ArrivalsOK ==
  /\ \A t \in Tools : arrival[t] =< Cardinality(Added)
  /\ \A t, u \in Added : arrival[t] = arrival[u] => t = u

\* How a tool's status, its task and its registration go together.
TaskOK(t) ==
  /\ status[t] = "absent" <=> arrival[t] = 0
  /\ status[t] \in {"absent", "pending"} => task[t] = "none"
  /\ status[t] = "running" => task[t] # "none" /\ (task[t] = "done" => Halted)
  /\ Live(t) => status[t] = "running" /\ t \in registered
  /\ t \in registered => task[t] # "none"
  /\ t \in cancelReq => Live(t) /\ Halted

TasksOK == \A t \in Tools : TaskOK(t)

\* At most one exclusive tool has status running.
OneExclusive ==
  \A x, y \in Exclusive : status[x] = "running" /\ status[y] = "running" => x = y

IInv == TypeOK /\ ArrivalsOK /\ TasksOK /\ OneExclusive /\ OneOutcome
-----------------------------------------------------------------------------
(* Helpers.                                                                *)

\* Appending to a sequence of one element.
LEMMA AppendToOne ==
  ASSUME NEW S, NEW a \in S, NEW b \in S
  PROVE  Append(<<a>>, b) = <<a, b>>
<1> DEFINE s == Append(<<a>>, b)
           u == <<a, b>>
<1>1. <<a>> \in Seq(S) /\ Len(<<a>>) = 1 /\ <<a>>[1] = a
  OBVIOUS
<1>2. u \in Seq(S) /\ Len(u) = 2 /\ u[1] = a /\ u[2] = b
  OBVIOUS
<1>3. s \in Seq(S) /\ Len(s) = 2 /\ s[1] = a /\ s[2] = b
  BY <1>1, AppendProperties
<1> HIDE DEF s, u
<1>4. \A i \in 1 .. Len(s) : s[i] = u[i]
  BY <1>2, <1>3
<1>5. s = u
  BY <1>2, <1>3, <1>4, SeqEqual
<1> QED
  BY <1>5 DEF s, u

\* Among tools with distinct positions at most one is first.
LEMMA FirstIsUnique ==
  ASSUME arrival \in [Tools -> Nat], NEW S \in SUBSET Tools,
         \A t, u \in S : arrival[t] = arrival[u] => t = u
  PROVE  /\ First(S) \subseteq S
         /\ \A t, u \in First(S) : t = u
  BY DEF First

\* The end of a tool hands over to at most one tool, a pending exclusive one,
\* and only if nothing runs and the executor was not stopped.
LEMMA NextExclusiveFacts ==
  ASSUME arrival \in [Tools -> Nat], NEW st \in [Tools -> Statuses], NEW halted \in BOOLEAN,
         \A t, u \in Pending(st) : arrival[t] = arrival[u] => t = u
  PROVE  LET S == NextExclusive(st, halted)
         IN /\ S \subseteq Pending(st) \ Safe
            /\ \A t, u \in S : t = u
            /\ S # {} => ~halted /\ ~HasRunning(st)
<1>1. Pending(st) \ Safe \in SUBSET Tools
  BY DEF Pending
<1>2. /\ First(Pending(st) \ Safe) \subseteq Pending(st) \ Safe
      /\ \A t, u \in First(Pending(st) \ Safe) : t = u
  BY <1>1, FirstIsUnique
<1> QED
  BY <1>2 DEF NextExclusive

\* A scheduling pass starts pending tools, at most one of them exclusive and
\* that one only when nothing runs and no safe tool is started with it.
LEMMA SchedulableFacts ==
  ASSUME TypeOK, ArrivalsOK, TasksOK
  PROVE  /\ Schedulable \subseteq Pending(status)
         /\ Schedulable # {} => ~Halted
         /\ \A x \in Schedulable \ Safe :
              ~HasRunning(status) /\ \A y \in Schedulable : y = x
<1>1. Pending(status) \ Safe \in SUBSET Tools
  BY DEF Pending
<1>2. \A t, u \in Pending(status) \ Safe : arrival[t] = arrival[u] => t = u
  BY DEF Pending, ArrivalsOK, TasksOK, TaskOK, Added
<1>3. /\ First(Pending(status) \ Safe) \subseteq Pending(status) \ Safe
      /\ \A t, u \in First(Pending(status) \ Safe) : t = u
  BY <1>1, <1>2, FirstIsUnique DEF TypeOK
<1> QED
  BY <1>3 DEF Schedulable

-----------------------------------------------------------------------------
THEOREM InitIInv == Init => IInv
<1> SUFFICES ASSUME Init PROVE IInv
  OBVIOUS
<1>1. TypeOK
  <2>1. <<>> \in Seq(Statuses)
    OBVIOUS
  <2>2. emitted \in [Tools -> Seq(Statuses)]
    BY <2>1 DEF Init
  <2> QED
    BY <2>2, LoopAssumption DEF Init, TypeOK, Statuses, Stages
<1>2. ArrivalsOK
  <2>1. Added = {}
    BY DEF Init, Added
  <2> QED
    BY <2>1, FS_EmptySet DEF Init, ArrivalsOK
<1>3. TasksOK
  BY DEF Init, TasksOK, TaskOK, Live
<1>4. OneExclusive
  BY DEF Init, OneExclusive, Exclusive
<1>5. OneOutcome
  BY DEF Init, OneOutcome, Holding, Body
<1> QED
  BY <1>1, <1>2, <1>3, <1>4, <1>5 DEF IInv
-----------------------------------------------------------------------------
(* The stretches of code several actions share.                            *)

\* A step that leaves the tools and the two stop flags alone.
LEMMA FrameStep ==
  ASSUME IInv, UNCHANGED <<arrival, status, task, registered, cancelReq, emitted, hasErrored, discarded>>,
         unread' \in Nat, aborted' \in BOOLEAN, loopUp' \in BOOLEAN, deferred' \subseteq Tools,
         consumer' \in {"idle", "stream", "wait", "gather", "returned"},
         gathered' \subseteq Tools
  PROVE  IInv'
<1>1. TypeOK'
  BY DEF IInv, TypeOK
<1>2. ArrivalsOK'
  <2>1. Added' = Added
    BY DEF Added
  <2> QED
    BY <2>1 DEF IInv, ArrivalsOK
<1>3. TasksOK'
  BY DEF IInv, TasksOK, TaskOK, Live, Halted
<1>4. OneExclusive'
  BY DEF IInv, OneExclusive
<1>5. OneOutcome'
  BY DEF IInv, OneOutcome
<1> QED
  BY <1>1, <1>2, <1>3, <1>4, <1>5 DEF IInv

\* Positions stay in order when no tool is added.
LEMMA ArrivalsStay == ArrivalsOK /\ UNCHANGED arrival => ArrivalsOK'
<1> SUFFICES ASSUME ArrivalsOK, UNCHANGED arrival PROVE ArrivalsOK'
  OBVIOUS
<1>1. Added' = Added
  BY DEF Added
<1> QED
  BY <1>1 DEF ArrivalsOK

\* A tool's final stretch.
LEMMA SettleStep ==
  ASSUME IInv, NEW t \in Tools, NEW outcome \in {"error", "completed"}, Settle(t, outcome),
         task[t] \in Holding \/ (task[t] = "created" /\ outcome = "error"),
         hasErrored' \in BOOLEAN, aborted' \in BOOLEAN, discarded' = discarded,
         hasErrored => hasErrored',
         \/ cancelReq' = cancelReq
         \/ hasErrored' /\ cancelReq' \subseteq cancelReq \cup {u \in registered : Live(u)},
         t \notin cancelReq'
  PROVE  IInv'
<1> DEFINE marked == [status EXCEPT ![t] = outcome]
           next == NextExclusive(marked, Halted')
<1>0. Live(t) /\ status[t] = "running"
  BY DEF IInv, TasksOK, TaskOK, Live, Holding, Body
<1>1. marked \in [Tools -> Statuses] /\ Halted' \in BOOLEAN
  BY DEF IInv, TypeOK, Statuses, Terminal, Halted
<1>2. Pending(marked) = Pending(status)
  BY <1>0 DEF Pending, IInv, TypeOK
<1>3. \A u, v \in Pending(marked) : arrival[u] = arrival[v] => u = v
  BY <1>2 DEF Pending, IInv, ArrivalsOK, TasksOK, TaskOK, Added
<1>4. /\ next \subseteq Pending(marked) \ Safe
      /\ \A u, v \in next : u = v
      /\ next # {} => ~Halted' /\ ~HasRunning(marked)
  BY <1>1, <1>3, NextExclusiveFacts DEF IInv, TypeOK
<1>5. next \subseteq Tools /\ t \notin next /\ \A u \in next : status[u] = "pending"
  BY <1>0, <1>2, <1>4 DEF Pending
<1>6. /\ status' = Started(marked, next)
      /\ task' = Spawned([task EXCEPT ![t] = "done"], next)
      /\ registered' = (registered \ {t}) \cup next
      /\ emitted' = [emitted EXCEPT ![t] = Append(@, outcome)]
      /\ unread' = unread + 1
      /\ UNCHANGED <<arrival, loopUp, deferred, consumer, gathered>>
  BY DEF Settle, loopVars, consumerVars
<1> HIDE DEF marked, next
<1>7. /\ status'[t] = outcome
      /\ \A u \in next : status'[u] = "running"
      /\ \A u \in Tools \ (next \cup {t}) : status'[u] = status[u]
  BY <1>5, <1>6 DEF Started, marked, IInv, TypeOK
<1>8. /\ task'[t] = "done"
      /\ \A u \in next : task'[u] = "created"
      /\ \A u \in Tools \ (next \cup {t}) : task'[u] = task[u]
  BY <1>5, <1>6 DEF Spawned, IInv, TypeOK
<1>9. Halted => Halted'
  BY DEF Halted
<1>10. TypeOK'
  <2>1. status' \in [Tools -> Statuses] /\ task' \in [Tools -> Stages]
    BY <1>1, <1>6 DEF Started, Spawned, IInv, TypeOK, Statuses, Stages
  <2>2. emitted' \in [Tools -> Seq(Statuses)]
    BY <1>6 DEF IInv, TypeOK, Statuses, Terminal
  <2>3. registered' \subseteq Tools /\ cancelReq' \subseteq Tools /\ unread' \in Nat
    BY <1>5, <1>6 DEF IInv, TypeOK
  <2> QED
    BY <2>1, <2>2, <2>3, <1>6 DEF IInv, TypeOK
<1>11. ArrivalsOK'
  BY <1>6, ArrivalsStay DEF IInv
<1>12. TasksOK'
  <2> SUFFICES ASSUME NEW u \in Tools PROVE TaskOK(u)'
    BY DEF TasksOK
  <2>1. CASE u = t
    BY <2>1, <1>0, <1>5, <1>6, <1>7, <1>8 DEF IInv, TasksOK, TaskOK, Live
  <2>2. CASE u \in next
    <3>1. u \notin cancelReq'
      BY <2>2, <1>4, <1>5, <1>9 DEF IInv, TasksOK, TaskOK, Live
    <3> QED
      BY <2>2, <3>1, <1>5, <1>6, <1>7, <1>8 DEF IInv, TasksOK, TaskOK, Live
  <2>3. CASE u \notin next \cup {t}
    <3>1. status'[u] = status[u] /\ task'[u] = task[u] /\ (u \in registered' <=> u \in registered)
      BY <2>3, <1>6, <1>7, <1>8
    <3>2. u \in cancelReq' => Live(u) /\ Halted'
      BY <1>9 DEF IInv, TasksOK, TaskOK, Halted
    <3> QED
      BY <3>1, <3>2, <1>6, <1>9 DEF IInv, TasksOK, TaskOK, Live
  <2> QED
    BY <2>1, <2>2, <2>3
<1>13. OneExclusive'
  <2> SUFFICES ASSUME NEW x \in Exclusive, NEW y \in Exclusive,
                      status'[x] = "running", status'[y] = "running"
               PROVE  x = y
    BY DEF OneExclusive
  <2>1. x # t /\ y # t
    BY <1>7
  <2>2. CASE next = {}
    BY <2>1, <2>2, <1>7 DEF IInv, OneExclusive, Exclusive
  <2>3. CASE next # {}
    <3>1. \A u \in Tools \ {t} : status[u] # "running"
      BY <2>3, <1>4 DEF HasRunning, marked, IInv, TypeOK
    <3>2. x \in next /\ y \in next
      BY <2>1, <3>1, <1>7 DEF Exclusive
    <3> QED
      BY <3>2, <1>4
  <2> QED
    BY <2>2, <2>3
<1>14. OneOutcome'
  <2>1. \/ emitted'[t] = <<"error">> /\ outcome = "error"
        \/ emitted'[t] = <<"running", outcome>>
    <3>1. emitted'[t] = Append(emitted[t], outcome)
      BY <1>6 DEF IInv, TypeOK
    <3>2. CASE task[t] = "created"
      <4>1. emitted[t] = <<>> /\ outcome = "error"
        BY <3>2 DEF IInv, OneOutcome, Holding, Body
      <4> QED
        BY <3>1, <4>1
    <3>3. CASE task[t] \in Holding
      <4>1. emitted[t] = <<"running">>
        BY <3>3 DEF IInv, OneOutcome
      <4>2. Append(<<"running">>, outcome) = <<"running", outcome>>
        BY AppendToOne, "running" \in Statuses, outcome \in Statuses DEF Statuses, Terminal
      <4> QED
        BY <3>1, <4>1, <4>2
    <3> QED
      BY <3>2, <3>3
  <2>2. \A u \in Tools \ {t} : emitted'[u] = emitted[u]
    BY <1>6 DEF IInv, TypeOK
  <2>3. \A u \in next : emitted[u] = <<>>
    BY <1>5 DEF IInv, OneOutcome
  <2> SUFFICES ASSUME NEW u \in Tools
               PROVE  /\ status'[u] \in {"absent", "pending", "discarded"} => emitted'[u] = <<>>
                      /\ task'[u] \in {"created", "sem"} => emitted'[u] = <<>>
                      /\ task'[u] \in Holding => emitted'[u] = <<"running">>
                      /\ status'[u] = "running" => emitted'[u] \in {<<>>, <<"running">>}
                      /\ status'[u] = "error" => emitted'[u] \in {<<"error">>, <<"running", "error">>}
                      /\ status'[u] = "completed" => emitted'[u] = <<"running", "completed">>
    BY DEF OneOutcome
  <2>4. CASE u = t
    BY <2>1, <2>4, <1>7, <1>8 DEF Holding, Body
  <2>5. CASE u \in next
    BY <2>2, <2>3, <2>5, <1>5, <1>7, <1>8 DEF Holding, Body
  <2>6. CASE u \notin next \cup {t}
    BY <2>2, <2>6, <1>7, <1>8 DEF IInv, OneOutcome
  <2> QED
    BY <2>4, <2>5, <2>6
<1> QED
  BY <1>10, <1>11, <1>12, <1>13, <1>14 DEF IInv
\* The stretch that takes a permit and announces the tool.
LEMMA EnterBodyStep ==
  ASSUME IInv, NEW t \in Tools, EnterBody(t), task[t] \in {"created", "sem"},
         UNCHANGED <<cancelReq, stopVars, loopVars, consumerVars>>
  PROVE  IInv'
<1>1. Live(t) /\ status[t] = "running" /\ emitted[t] = <<>>
  BY DEF IInv, TasksOK, TaskOK, Live, OneOutcome
<1>2. /\ task' = [task EXCEPT ![t] = "request"]
      /\ emitted' = [emitted EXCEPT ![t] = <<"running">>]
      /\ unread' \in Nat
      /\ UNCHANGED <<arrival, status, registered, cancelReq, hasErrored, discarded,
                     aborted, loopUp, deferred, consumer, gathered>>
  <2>1. Append(<<>>, "running") = <<"running">>
    OBVIOUS
  <2> QED
    BY <1>1, <2>1 DEF EnterBody, IInv, TypeOK, stopVars, loopVars, consumerVars
<1>3. TypeOK'
  <2>1. <<"running">> \in Seq(Statuses)
    BY DEF Statuses
  <2>2. emitted' \in [Tools -> Seq(Statuses)]
    BY <1>2, <2>1 DEF IInv, TypeOK
  <2> QED
    BY <1>2, <2>2 DEF IInv, TypeOK, Stages, Holding, Body
<1>4. ArrivalsOK'
  BY <1>2, ArrivalsStay DEF IInv
<1>5. TasksOK'
  <2> SUFFICES ASSUME NEW u \in Tools PROVE TaskOK(u)'
    BY DEF TasksOK
  <2> QED
    BY <1>1, <1>2 DEF IInv, TypeOK, TasksOK, TaskOK, Live, Halted
<1>6. OneExclusive'
  BY <1>2 DEF IInv, OneExclusive
<1>7. OneOutcome'
  BY <1>1, <1>2 DEF IInv, TypeOK, OneOutcome, Holding, Body
<1> QED
  BY <1>3, <1>4, <1>5, <1>6, <1>7 DEF IInv

\* A scheduling pass.
LEMMA ScheduleStep ==
  ASSUME IInv, SchedulePending, unread' \in Nat,
         consumer' \in {"idle", "stream", "wait", "gather", "returned"},
         gathered' \subseteq Tools
  PROVE  IInv'
<1> DEFINE S == Schedulable
<1>1. /\ S \subseteq Pending(status)
      /\ S # {} => ~Halted
      /\ \A x \in S \ Safe : ~HasRunning(status) /\ \A y \in S : y = x
  BY SchedulableFacts DEF IInv
<1>2. /\ status' = Started(status, S)
      /\ task' = Spawned(task, S)
      /\ registered' = registered \cup S
      /\ UNCHANGED <<arrival, cancelReq, emitted, hasErrored, discarded, aborted, loopUp, deferred>>
  BY DEF SchedulePending, stopVars, loopVars
<1> HIDE DEF S
<1>3. S \subseteq Tools /\ \A u \in S : status[u] = "pending"
  BY <1>1 DEF Pending
<1>4. /\ \A u \in S : status'[u] = "running" /\ task'[u] = "created"
      /\ \A u \in Tools \ S : status'[u] = status[u] /\ task'[u] = task[u]
  BY <1>2, <1>3 DEF Started, Spawned
<1>5. TypeOK'
  <2>1. status' \in [Tools -> Statuses] /\ task' \in [Tools -> Stages]
    BY <1>2 DEF Started, Spawned, IInv, TypeOK, Statuses, Stages
  <2> QED
    BY <2>1, <1>2, <1>3 DEF IInv, TypeOK
<1>6. ArrivalsOK'
  BY <1>2, ArrivalsStay DEF IInv
<1>7. TasksOK'
  <2> SUFFICES ASSUME NEW u \in Tools PROVE TaskOK(u)'
    BY DEF TasksOK
  <2>1. CASE u \in S
    BY <2>1, <1>1, <1>2, <1>3, <1>4 DEF IInv, TasksOK, TaskOK, Live
  <2>2. CASE u \notin S
    BY <2>2, <1>2, <1>4 DEF IInv, TasksOK, TaskOK, Live, Halted
  <2> QED
    BY <2>1, <2>2
<1>8. OneExclusive'
  <2> SUFFICES ASSUME NEW x \in Exclusive, NEW y \in Exclusive,
                      status'[x] = "running", status'[y] = "running"
               PROVE  x = y
    BY DEF OneExclusive
  <2>1. CASE x \in S \/ y \in S
    BY <2>1, <1>1, <1>4 DEF HasRunning, Exclusive
  <2>2. CASE x \notin S /\ y \notin S
    BY <2>2, <1>4 DEF IInv, OneExclusive, Exclusive
  <2> QED
    BY <2>1, <2>2
<1>9. OneOutcome'
  <2>1. \A u \in S : emitted'[u] = <<>>
    BY <1>2, <1>3 DEF IInv, OneOutcome
  <2> QED
    BY <2>1, <1>2, <1>4 DEF IInv, OneOutcome, Holding, Body
<1> QED
  BY <1>5, <1>6, <1>7, <1>8, <1>9 DEF IInv

\* A step of one task that ends nothing and reports nothing.
LEMMA TaskMoves ==
  ASSUME IInv, NEW t \in Tools, NEW to \in Stages,
         \/ task[t] = "created" /\ to = "sem"
         \/ task[t] \in Holding /\ to \in Holding,
         task' = [task EXCEPT ![t] = to],
         UNCHANGED <<arrival, status, registered, cancelReq, emitted, unread,
                     hasErrored, discarded, aborted, loopUp, deferred, consumer, gathered>>
  PROVE  IInv'
<1>1. TypeOK'
  BY DEF IInv, TypeOK
<1>2. ArrivalsOK'
  BY ArrivalsStay DEF IInv
<1>3. TasksOK'
  BY DEF IInv, TypeOK, TasksOK, TaskOK, Live, Halted, Holding, Body
<1>4. OneExclusive'
  BY DEF IInv, OneExclusive
<1>5. OneOutcome'
  BY DEF IInv, TypeOK, OneOutcome, Holding, Body
<1> QED
  BY <1>1, <1>2, <1>3, <1>4, <1>5 DEF IInv

-----------------------------------------------------------------------------
(* The actions that are more than one of those stretches.                  *)

LEMMA AddToolStep ==
  ASSUME IInv, NEW t \in Tools, AddTool(t)
  PROVE  IInv'
<1> DEFINE start == IF StartsOnAdd(t) THEN {t} ELSE {}
<1>0. status[t] = "absent" /\ task[t] = "none" /\ arrival[t] = 0 /\ t \notin Added
      /\ t \notin registered /\ t \notin cancelReq /\ emitted[t] = <<>>
  BY DEF AddTool, IInv, TasksOK, TaskOK, Live, Added, OneOutcome
<1>1. /\ arrival' = [arrival EXCEPT ![t] = Cardinality(Added) + 1]
      /\ status' = Started([status EXCEPT ![t] = "pending"], start)
      /\ task' = Spawned(task, start)
      /\ registered' = registered \cup start
      /\ deferred' \in {deferred, deferred \cup {t}}
      /\ UNCHANGED <<cancelReq, emitted, unread, hasErrored, discarded, aborted, loopUp, consumer, gathered>>
  BY DEF AddTool, stopVars, consumerVars
<1>2. start \subseteq {t} /\ (start # {} => ~Halted /\ (t \in Safe \/ ~HasRunning(status)))
  BY DEF StartsOnAdd
<1> HIDE DEF start
<1>3. /\ status'[t] = IF t \in start THEN "running" ELSE "pending"
      /\ task'[t] = IF t \in start THEN "created" ELSE "none"
      /\ \A u \in Tools \ {t} : status'[u] = status[u] /\ task'[u] = task[u] /\ arrival'[u] = arrival[u]
  BY <1>0, <1>1, <1>2 DEF Started, Spawned, IInv, TypeOK
<1> DEFINE last == Cardinality(Added)
<1>4. IsFiniteSet(Added) /\ last \in Nat
  BY ToolsAssumption, FS_Subset, FS_CardinalityType DEF Added
<1>5. arrival' = [arrival EXCEPT ![t] = last + 1] /\ arrival'[t] = last + 1
  BY <1>1 DEF IInv, TypeOK
<1>5a. /\ \A u \in Tools : arrival[u] =< last
       /\ \A u, v \in Added : arrival[u] = arrival[v] => u = v
  BY DEF IInv, ArrivalsOK
<1>5b. Added' = Added \cup {t} /\ Cardinality(Added') = last + 1
  <2> HIDE DEF last
  <2>1. Added' = Added \cup {t}
    BY <1>4, <1>5 DEF Added, IInv, TypeOK
  <2> QED
    BY <2>1, <1>0, <1>4, FS_AddElement DEF last
<1> HIDE DEF last
<1>6. TypeOK'
  <2>1. status' \in [Tools -> Statuses] /\ task' \in [Tools -> Stages]
    BY <1>1 DEF Started, Spawned, IInv, TypeOK, Statuses, Stages
  <2>2. arrival' \in [Tools -> Nat]
    BY <1>4, <1>5 DEF IInv, TypeOK
  <2> QED
    BY <2>1, <2>2, <1>1, <1>2 DEF IInv, TypeOK
<1>7. ArrivalsOK'
  <2>1. \A u \in Tools : arrival'[u] =< Cardinality(Added')
    <3> SUFFICES ASSUME NEW u \in Tools PROVE arrival'[u] =< Cardinality(Added')
      OBVIOUS
    <3>1. arrival[u] \in Nat /\ arrival[u] =< last
      BY <1>5a DEF IInv, TypeOK
    <3>2. arrival'[u] \in {arrival[u], last + 1}
      BY <1>3, <1>5
    <3>3. arrival'[u] =< last + 1
      BY <3>1, <3>2, <1>4
    <3> QED
      BY <3>3, <1>5b
  <2>2. ASSUME NEW u \in Added', NEW v \in Added', arrival'[u] = arrival'[v] PROVE u = v
    <3>1. u \in Tools /\ v \in Tools /\ u \in Added \cup {t} /\ v \in Added \cup {t}
      BY <2>2, <1>5b DEF Added
    <3> QED
      BY <2>2, <3>1, <1>3, <1>4, <1>5, <1>5a DEF IInv, TypeOK
  <2> QED
    BY <2>1, <2>2 DEF ArrivalsOK
<1>8. TasksOK'
  <2> SUFFICES ASSUME NEW u \in Tools PROVE TaskOK(u)'
    BY DEF TasksOK
  <2>1. CASE u = t
    BY <2>1, <1>0, <1>1, <1>2, <1>3, <1>4, <1>5 DEF TaskOK, Live, IInv, TasksOK
  <2>2. CASE u # t
    BY <2>2, <1>1, <1>2, <1>3 DEF IInv, TasksOK, TaskOK, Live, Halted
  <2> QED
    BY <2>1, <2>2
<1>9. OneExclusive'
  <2> SUFFICES ASSUME NEW x \in Exclusive, NEW y \in Exclusive,
                      status'[x] = "running", status'[y] = "running"
               PROVE  x = y
    BY DEF OneExclusive
  <2> QED
    BY <1>2, <1>3 DEF IInv, OneExclusive, Exclusive, HasRunning
<1>10. OneOutcome'
  BY <1>0, <1>1, <1>3 DEF IInv, OneOutcome, Holding, Body
<1> QED
  BY <1>6, <1>7, <1>8, <1>9, <1>10 DEF IInv

LEMMA DiscardStep ==
  ASSUME IInv, Discard
  PROVE  IInv'
<1>1. /\ discarded' = TRUE /\ aborted' = TRUE /\ hasErrored' = hasErrored
      /\ status' = [t \in Tools |-> IF status[t] = "pending" THEN "discarded" ELSE status[t]]
      /\ cancelReq' = cancelReq \cup {t \in registered : Live(t)}
      /\ UNCHANGED <<arrival, task, registered, emitted, unread, loopUp, deferred, consumer, gathered>>
  BY DEF Discard, consumerVars, loopVars
<1>2. Halted'
  BY <1>1 DEF Halted
<1>3. TypeOK'
  BY <1>1 DEF IInv, TypeOK, Statuses, Terminal
<1>4. ArrivalsOK'
  BY <1>1, ArrivalsStay DEF IInv
<1>5. TasksOK'
  BY <1>1, <1>2 DEF IInv, TypeOK, TasksOK, TaskOK, Live
<1>6. OneExclusive'
  BY <1>1 DEF IInv, OneExclusive, Exclusive
<1>7. OneOutcome'
  BY <1>1 DEF IInv, OneOutcome, TasksOK, TaskOK, Holding, Body
<1> QED
  BY <1>3, <1>4, <1>5, <1>6, <1>7 DEF IInv

\* A cancelled task is running, so its end starts no other tool.
LEMMA CancelledStep ==
  ASSUME IInv, NEW t \in Tools, Cancelled(t)
  PROVE  IInv'
<1>1. t \in cancelReq /\ Live(t) /\ Halted /\ status[t] = "running"
  BY DEF Cancelled, IInv, TasksOK, TaskOK
<1>2. NextExclusive(status, Halted) = {}
  BY <1>1 DEF NextExclusive
<1>3. /\ cancelReq' = cancelReq \ {t}
      /\ registered' \in {registered, registered \ {t}}
      /\ status' = status
      /\ task' = [task EXCEPT ![t] = "done"]
      /\ UNCHANGED <<arrival, emitted, unread, hasErrored, discarded, aborted, loopUp, deferred, consumer, gathered>>
  BY <1>2 DEF Cancelled, Started, Spawned, IInv, TypeOK, stopVars, loopVars, consumerVars
<1>4. TypeOK'
  BY <1>3 DEF IInv, TypeOK, Stages
<1>5. ArrivalsOK'
  BY <1>3, ArrivalsStay DEF IInv
<1>6. TasksOK'
  BY <1>1, <1>3 DEF IInv, TypeOK, TasksOK, TaskOK, Live, Halted
<1>7. OneExclusive'
  BY <1>3 DEF IInv, OneExclusive
<1>8. OneOutcome'
  BY <1>1, <1>3 DEF IInv, TypeOK, OneOutcome, Holding, Body
<1> QED
  BY <1>4, <1>5, <1>6, <1>7, <1>8 DEF IInv
-----------------------------------------------------------------------------
(* The step, one case per action.                                          *)

THEOREM StepIInv == IInv /\ [Next]_vars => IInv'
<1> SUFFICES ASSUME IInv, [Next]_vars PROVE IInv'
  OBVIOUS
<1> USE DEF toolVars, stopVars, loopVars, consumerVars
<1>0. /\ unread \in Nat /\ aborted \in BOOLEAN /\ loopUp \in BOOLEAN /\ deferred \subseteq Tools
      /\ hasErrored \in BOOLEAN /\ discarded \in BOOLEAN
      /\ consumer \in {"idle", "stream", "wait", "gather", "returned"}
      /\ gathered \subseteq Tools /\ registered \subseteq Tools
  BY DEF IInv, TypeOK
<1>1. CASE UNCHANGED vars
  BY <1>0, <1>1, FrameStep DEF vars
<1>2. ASSUME NEW t \in Tools, AddTool(t) PROVE IInv'
  BY <1>2, AddToolStep
<1>3. CASE StartLoop
  BY <1>0, <1>3, FrameStep DEF StartLoop
<1>4. CASE Discard
  BY <1>4, DiscardStep
<1>5. CASE AbortParent
  BY <1>0, <1>5, FrameStep DEF AbortParent
<1>6. CASE OpenStream
  BY <1>0, <1>6, ScheduleStep DEF OpenStream
<1>7. CASE OpenWait
  BY <1>0, <1>7, FrameStep DEF OpenWait
<1>8. CASE TakeResult
  <2>1. unread' \in Nat
    BY <1>0, <1>8 DEF TakeResult
  <2> QED
    BY <1>0, <1>8, <2>1, FrameStep DEF TakeResult
<1>9. CASE EndStream
  BY <1>0, <1>9, FrameStep DEF EndStream
<1>10. CASE WaitRound
  <2>1. registered' \subseteq Tools
    BY <1>0, <1>10, SchedulableFacts DEF WaitRound, SchedulePending, Pending, IInv
  <2> QED
    BY <1>0, <1>10, <2>1, ScheduleStep DEF WaitRound
<1>11. CASE GatherDone
  BY <1>0, <1>11, FrameStep DEF GatherDone
<1>12. ASSUME NEW t \in Tools, TaskStep(t) PROVE IInv'
  <2>1. CASE BeginAborted(t)
    BY <1>0, <2>1, SettleStep DEF BeginAborted, Ready
  <2>2. CASE Begin(t)
    <3>1. CASE PermitFree
      BY <2>2, <3>1, EnterBodyStep DEF Begin, Ready
    <3>2. CASE ~PermitFree
      <4>1. /\ task[t] = "created" /\ task' = [task EXCEPT ![t] = "sem"]
            /\ UNCHANGED <<arrival, status, registered, cancelReq, emitted, unread,
                           hasErrored, discarded, aborted, loopUp, deferred, consumer, gathered>>
        BY <2>2, <3>2 DEF Begin, Ready
      <4> QED
        BY <4>1, TaskMoves DEF Stages
    <3> QED
      BY <3>1, <3>2
  <2>3. CASE AcquirePermit(t)
    BY <2>3, EnterBodyStep DEF AcquirePermit, Ready
  <2>4. ASSUME NEW from \in Body, NEW to \in Holding, Advance(t, from, to) PROVE IInv'
    <3>1. /\ task[t] \in Holding /\ task' = [task EXCEPT ![t] = to]
          /\ UNCHANGED <<arrival, status, registered, cancelReq, emitted, unread,
                         hasErrored, discarded, aborted, loopUp, deferred, consumer, gathered>>
      BY <2>4 DEF Advance, Ready, Holding
    <3>2. to \in Stages
      BY DEF Stages
    <3> QED
      BY <3>1, <3>2, TaskMoves
  <2>5. CASE \/ RequestAllowed(t) \/ PermissionGranted(t) \/ PermissionDenied(t)
             \/ CallTool(t) \/ CallReturned(t) \/ Raise(t)
    BY <2>4, <2>5 DEF RequestAllowed, PermissionGranted, PermissionDenied, CallTool,
                      CallReturned, Raise, Body, Holding
  <2>6. CASE Refuse(t)
    BY <1>0, <2>6, SettleStep DEF Refuse, Ready, Holding, Body
  <2>7. CASE Complete(t)
    BY <1>0, <2>7, SettleStep DEF Complete, Ready, Holding, Body
  <2>8. CASE FailureHooksDone(t)
    BY <1>0, <2>8, SettleStep DEF FailureHooksDone, Ready, Holding, Body
  <2>9. CASE AbortSiblings(t)
    <3>1. task[t] \in Holding
      BY <2>9 DEF AbortSiblings, Ready, Holding, Body
    <3> QED
      BY <1>0, <2>9, <3>1, SettleStep DEF AbortSiblings
  <2>10. CASE Cancelled(t)
    BY <2>10, CancelledStep
  <2> QED
    BY <1>12, <2>1, <2>2, <2>3, <2>5, <2>6, <2>7, <2>8, <2>9, <2>10 DEF TaskStep
<1> QED
  BY <1>1, <1>2, <1>3, <1>4, <1>5, <1>6, <1>7, <1>8, <1>9, <1>10, <1>11, <1>12
     DEF Next, ConsumerStep

\* The invariant holds of every behaviour of the executor.
THEOREM SpecIInv == Spec => []IInv
<1> QED
  BY InitIInv, StepIInv, PTL DEF Spec

\* The types of the executor's state.
THEOREM TypeCorrect == Spec => []TypeOK
<1>1. IInv => TypeOK
  BY DEF IInv
<1> QED
  BY <1>1, SpecIInv, PTL

\* Exclusive tools never execute together, whatever starts them and however
\* the executor is stopped.
THEOREM ExclusivesNeverOverlap == Spec => []ExclusivesApart
<1>1. IInv => ExclusivesApart
  BY DEF IInv, OneExclusive, ExclusivesApart, TasksOK, TaskOK, Exclusive
<1> QED
  BY <1>1, SpecIInv, PTL

\* Each tool reports nothing, then running, then one result that is its status.
THEOREM ExactlyOneOutcome == Spec => []OneOutcome
<1>1. IInv => OneOutcome
  BY DEF IInv
<1> QED
  BY <1>1, SpecIInv, PTL

\* A running tool without a registered live task exists only after a stop.
THEOREM RunningHasTask == Spec => []RunningIsLive
<1>1. IInv => RunningIsLive
  BY DEF IInv, TasksOK, TaskOK, RunningIsLive, Live
<1> QED
  BY <1>1, SpecIInv, PTL
-----------------------------------------------------------------------------
(* The executor implements the abstract life cycle of a tool call.         *)

\* The phase of a tool, read from its status and its task.
LEMMA PhaseFacts ==
  ASSUME TypeOK
  PROVE  /\ Phase \in [Tools -> Lifecycle!Phases]
         /\ \A t \in Tools :
              /\ Phase[t] = "absent" <=> status[t] = "absent"
              /\ Phase[t] = "queued" <=> status[t] = "pending"
              /\ Phase[t] = "active" <=> status[t] = "running" /\ Live(t)
              /\ Phase[t] = "lost" <=> status[t] = "running" /\ ~Live(t)
              /\ Phase[t] = "settled" <=> status[t] \in {"completed", "error"}
              /\ Phase[t] = "dropped" <=> status[t] = "discarded"
  BY DEF TypeOK, Statuses, Terminal, Phase, Lifecycle!Phases

\* The same after a step.
LEMMA PhaseFactsNext ==
  ASSUME TypeOK'
  PROVE  /\ Phase' \in [Tools -> Lifecycle!Phases]
         /\ \A t \in Tools :
              /\ Phase'[t] = "absent" <=> status'[t] = "absent"
              /\ Phase'[t] = "queued" <=> status'[t] = "pending"
              /\ Phase'[t] = "active" <=> status'[t] = "running" /\ Live(t)'
              /\ Phase'[t] = "lost" <=> status'[t] = "running" /\ ~Live(t)'
              /\ Phase'[t] = "settled" <=> status'[t] \in {"completed", "error"}
              /\ Phase'[t] = "dropped" <=> status'[t] = "discarded"
  BY DEF TypeOK, Statuses, Terminal, Phase, Lifecycle!Phases, Live

\* A tool whose status and task stay keeps its phase.
LEMMA PhaseStays ==
  ASSUME TypeOK, TypeOK', NEW t \in Tools, status'[t] = status[t],
         Live(t)' <=> Live(t)
  PROVE  Phase'[t] = Phase[t]
  BY PhaseFacts, PhaseFactsNext DEF TypeOK, Statuses, Terminal

\* A step that changes no status, ends no task and stops nothing is invisible.
LEMMA Invisible ==
  ASSUME UNCHANGED status, \A t \in Tools : Live(t)' <=> Live(t), Halted' <=> Halted,
         TypeOK, TypeOK'
  PROVE  UNCHANGED <<Phase, Halted>>
<1>1. \A t \in Tools : Phase'[t] = Phase[t]
  BY PhaseStays
<1>2. Phase \in [Tools -> Lifecycle!Phases] /\ Phase' \in [Tools -> Lifecycle!Phases]
  BY PhaseFacts, PhaseFactsNext
<1>3. Phase' = Phase
  BY <1>1, <1>2
<1> QED
  BY <1>3 DEF Halted, TypeOK

\* Starting a set of pending tools activates their calls.
LEMMA StartActivates ==
  ASSUME NEW S, NEW ph \in [Tools -> Lifecycle!Phases], TypeOK',
         \A u \in S : status'[u] = "running" /\ task'[u] = "created",
         \A u \in Tools \ S : Phase'[u] = ph[u]
  PROVE  Phase' = Lifecycle!Activate(ph, S)
<1>1. \A u \in Tools : Phase'[u] = IF u \in S THEN "active" ELSE ph[u]
  BY DEF Phase, Live
<1>2. Phase' \in [Tools -> Lifecycle!Phases]
  BY PhaseFacts, PhaseFactsNext
<1> QED
  BY <1>1, <1>2 DEF Lifecycle!Activate

LEMMA SettleRefines ==
  ASSUME IInv, IInv', NEW t \in Tools, NEW outcome \in {"error", "completed"}, Settle(t, outcome),
         task[t] \in Holding \cup {"created"}, Halted => Halted'
  PROVE  Lifecycle!Settle(t)
<1> DEFINE marked == [status EXCEPT ![t] = outcome]
           next == NextExclusive(marked, Halted')
           settled == [Phase EXCEPT ![t] = "settled"]
<1>0. Live(t) /\ status[t] = "running" /\ TypeOK /\ TypeOK'
  BY DEF IInv, TasksOK, TaskOK, Live, Holding, Body
<1>1. marked \in [Tools -> Statuses] /\ Halted' \in BOOLEAN
  BY DEF IInv, TypeOK, Statuses, Terminal, Halted
<1>2. Pending(marked) = Pending(status)
  BY <1>0 DEF Pending, IInv, TypeOK
<1>3. \A u, v \in Pending(marked) : arrival[u] = arrival[v] => u = v
  BY <1>2 DEF Pending, IInv, ArrivalsOK, TasksOK, TaskOK, Added
<1>4. /\ next \subseteq Pending(marked) \ Safe
      /\ \A u, v \in next : u = v
      /\ next # {} => ~Halted' /\ ~HasRunning(marked)
  BY <1>1, <1>3, NextExclusiveFacts DEF IInv, TypeOK
<1>5. /\ status' = Started(marked, next)
      /\ task' = Spawned([task EXCEPT ![t] = "done"], next)
  BY DEF Settle
<1> HIDE DEF next
<1>6. next \subseteq Tools \ {t} /\ \A u \in next : status[u] = "pending"
  BY <1>0, <1>2, <1>4 DEF Pending
<1>7. Phase[t] = "active" /\ Phase \in [Tools -> Lifecycle!Phases]
      /\ settled \in [Tools -> Lifecycle!Phases]
  BY <1>0, PhaseFacts, PhaseFactsNext DEF Lifecycle!Phases
<1>8. /\ \A u \in next : status'[u] = "running" /\ task'[u] = "created"
      /\ status'[t] = outcome
      /\ \A u \in Tools \ (next \cup {t}) : status'[u] = status[u] /\ task'[u] = task[u]
  BY <1>0, <1>5, <1>6 DEF Started, Spawned, TypeOK
<1>9. \A u \in Tools \ next : Phase'[u] = settled[u]
  <2> SUFFICES ASSUME NEW u \in Tools \ next PROVE Phase'[u] = settled[u]
    OBVIOUS
  <2>1. CASE u = t
    BY <2>1, <1>0, <1>7, <1>8, PhaseFacts, PhaseFactsNext
  <2>2. CASE u # t
    BY <2>2, <1>0, <1>7, <1>8, PhaseStays DEF Live
  <2> QED
    BY <2>1, <2>2
<1>10. Phase' = Lifecycle!Activate(settled, next)
  BY <1>0, <1>7, <1>8, <1>9, StartActivates
<1>11. next \in Lifecycle!Startable(settled, Halted')
  <2>1. CASE next = {}
    BY <2>1 DEF Lifecycle!Startable, Lifecycle!MayActivate
  <2>2. CASE next # {}
    <3>1. \A u \in Tools \ {t} : status[u] # "running"
      BY <2>2, <1>0, <1>4 DEF HasRunning, TypeOK
    <3>2. \A u \in Tools : settled[u] # "active"
      BY <3>1, <1>0, <1>7, PhaseFacts, PhaseFactsNext
    <3>3. \A u \in next : settled[u] = "queued"
      BY <1>0, <1>6, <1>7, PhaseFacts, PhaseFactsNext
    <3> QED
      BY <2>2, <3>2, <3>3, <1>4, <1>6
         DEF Lifecycle!Startable, Lifecycle!MayActivate, Lifecycle!Exclusive
  <2> QED
    BY <2>1, <2>2
<1>12. Halted' \in {Halted, TRUE}
  BY <1>1 DEF Halted
<1> QED
  BY <1>7, <1>10, <1>11, <1>12 DEF Lifecycle!Settle

LEMMA ScheduleRefines ==
  ASSUME IInv, IInv', SchedulePending
  PROVE  Lifecycle!Schedule
<1> DEFINE S == Schedulable
<1>0. TypeOK /\ TypeOK'
  BY DEF IInv
<1>1. /\ S \subseteq Pending(status)
      /\ S # {} => ~Halted
      /\ \A x \in S \ Safe : ~HasRunning(status) /\ \A y \in S : y = x
  BY SchedulableFacts DEF IInv
<1>2. status' = Started(status, S) /\ task' = Spawned(task, S) /\ Halted' = Halted
  BY DEF SchedulePending, stopVars, Halted
<1> HIDE DEF S
<1>3. S \subseteq Tools /\ \A u \in S : status[u] = "pending"
  BY <1>1 DEF Pending
<1>4. /\ \A u \in S : status'[u] = "running" /\ task'[u] = "created"
      /\ \A u \in Tools \ S : status'[u] = status[u] /\ task'[u] = task[u]
  BY <1>2, <1>3 DEF Started, Spawned
<1>5. \A u \in Tools \ S : Phase'[u] = Phase[u]
  BY <1>0, <1>4, PhaseStays DEF Live
<1>6. Phase' = Lifecycle!Activate(Phase, S)
  BY <1>0, <1>4, <1>5, PhaseFacts, PhaseFactsNext, StartActivates
<1>7. S \in Lifecycle!Startable(Phase, Halted)
  <2>1. \A u \in S : Phase[u] = "queued"
    BY <1>0, <1>3, PhaseFacts, PhaseFactsNext
  <2>2. \A x \in S \ Safe : \A y \in Tools : Phase[y] # "active"
    BY <1>0, <1>1, PhaseFacts, PhaseFactsNext DEF HasRunning
  <2> QED
    BY <2>1, <2>2, <1>1, <1>3
       DEF Lifecycle!Startable, Lifecycle!MayActivate, Lifecycle!Exclusive
<1> QED
  BY <1>2, <1>6, <1>7 DEF Lifecycle!Schedule

LEMMA AddToolRefines ==
  ASSUME IInv, IInv', NEW t \in Tools, AddTool(t)
  PROVE  Lifecycle!Submit(t)
<1> DEFINE start == IF StartsOnAdd(t) THEN {t} ELSE {}
           queued == [Phase EXCEPT ![t] = "queued"]
<1>0. status[t] = "absent" /\ task[t] = "none" /\ TypeOK /\ TypeOK'
  BY DEF AddTool, IInv, TasksOK, TaskOK
<1>1. /\ status' = Started([status EXCEPT ![t] = "pending"], start)
      /\ task' = Spawned(task, start)
      /\ Halted' = Halted
  BY DEF AddTool, stopVars, Halted
<1>2. start \subseteq {t} /\ (start # {} => ~Halted /\ (t \in Safe \/ ~HasRunning(status)))
  BY DEF StartsOnAdd
<1> HIDE DEF start
<1>3. /\ \A u \in start : status'[u] = "running" /\ task'[u] = "created"
      /\ t \notin start => status'[t] = "pending"
      /\ \A u \in Tools \ {t} : status'[u] = status[u] /\ task'[u] = task[u]
  BY <1>0, <1>1, <1>2 DEF Started, Spawned, TypeOK
<1>4. /\ Phase[t] = "absent" /\ Phase \in [Tools -> Lifecycle!Phases]
      /\ queued \in [Tools -> Lifecycle!Phases]
  BY <1>0, PhaseFacts, PhaseFactsNext DEF Lifecycle!Phases
<1>5. \A u \in Tools \ start : Phase'[u] = queued[u]
  <2> SUFFICES ASSUME NEW u \in Tools \ start PROVE Phase'[u] = queued[u]
    OBVIOUS
  <2>1. CASE u = t
    BY <2>1, <1>0, <1>3, <1>4, PhaseFacts, PhaseFactsNext
  <2>2. CASE u # t
    BY <2>2, <1>0, <1>3, <1>4, PhaseStays DEF Live
  <2> QED
    BY <2>1, <2>2
<1>6. Phase' = Lifecycle!Activate(queued, start)
  BY <1>0, <1>3, <1>4, <1>5, StartActivates
<1>7. start \in Lifecycle!Startable(queued, Halted)
  <2>1. t \in Safe \/ start = {} \/ \A y \in Tools : queued[y] # "active"
    BY <1>0, <1>2, <1>4, PhaseFacts, PhaseFactsNext DEF HasRunning
  <2> QED
    BY <2>1, <1>2, <1>4 DEF Lifecycle!Startable, Lifecycle!MayActivate, Lifecycle!Exclusive
<1> QED
  BY <1>1, <1>2, <1>4, <1>6, <1>7 DEF Lifecycle!Submit

LEMMA DiscardRefines ==
  ASSUME IInv, IInv', Discard
  PROVE  Lifecycle!Close
<1>1. /\ Halted' = TRUE
      /\ status' = [t \in Tools |-> IF status[t] = "pending" THEN "discarded" ELSE status[t]]
      /\ task' = task /\ TypeOK /\ TypeOK'
  BY DEF Discard, Halted, IInv
<1>2. \A t \in Tools : Phase'[t] = IF Phase[t] = "queued" THEN "dropped" ELSE Phase[t]
  <2> SUFFICES ASSUME NEW t \in Tools
               PROVE  Phase'[t] = IF Phase[t] = "queued" THEN "dropped" ELSE Phase[t]
    OBVIOUS
  <2>1. CASE status[t] = "pending"
    BY <2>1, <1>1, PhaseFacts, PhaseFactsNext
  <2>2. CASE status[t] # "pending"
    BY <2>2, <1>1, PhaseFacts, PhaseFactsNext, PhaseStays DEF Live
  <2> QED
    BY <2>1, <2>2
<1>3. Phase' \in [Tools -> Lifecycle!Phases]
  BY <1>1, PhaseFacts, PhaseFactsNext
<1> QED
  BY <1>1, <1>2, <1>3 DEF Lifecycle!Close

LEMMA CancelledRefines ==
  ASSUME IInv, IInv', NEW t \in Tools, Cancelled(t)
  PROVE  Lifecycle!Lose(t)
<1>1. Live(t) /\ Halted /\ status[t] = "running" /\ TypeOK /\ TypeOK'
  BY DEF Cancelled, IInv, TasksOK, TaskOK
<1>2. NextExclusive(status, Halted) = {}
  BY <1>1 DEF NextExclusive
<1>3. status' = status /\ task' = [task EXCEPT ![t] = "done"] /\ Halted' = Halted
  BY <1>2 DEF Cancelled, Started, Spawned, IInv, TypeOK, stopVars, Halted
<1>4. Phase[t] = "active" /\ Phase'[t] = "lost"
  BY <1>1, <1>3, PhaseFacts, PhaseFactsNext DEF Live, TypeOK
<1>5. \A u \in Tools \ {t} : Phase'[u] = Phase[u]
  BY <1>1, <1>3, PhaseStays DEF Live, TypeOK
<1>6. Phase \in [Tools -> Lifecycle!Phases] /\ Phase' \in [Tools -> Lifecycle!Phases]
  BY <1>1, PhaseFacts, PhaseFactsNext
<1> QED
  BY <1>1, <1>3, <1>4, <1>5, <1>6 DEF Lifecycle!Lose
LEMMA InitRefines == Init => Lifecycle!Init
  BY DEF Init, Lifecycle!Init, Phase, Halted

LEMMA StepRefines ==
  IInv /\ IInv' /\ [Next]_vars => [Lifecycle!Next]_<<Phase, Halted>>
<1> SUFFICES ASSUME IInv, IInv', [Next]_vars
             PROVE  Lifecycle!Next \/ UNCHANGED <<Phase, Halted>>
  OBVIOUS
<1>0. TypeOK /\ TypeOK'
  BY DEF IInv
<1>1. CASE UNCHANGED <<status, task, hasErrored, discarded>>
  BY <1>0, <1>1, Invisible DEF Live, Halted
<1>2. ASSUME NEW t \in Tools, AddTool(t) PROVE Lifecycle!Next
  BY <1>2, AddToolRefines DEF Lifecycle!Next
<1>3. CASE Discard
  BY <1>3, DiscardRefines DEF Lifecycle!Next
<1>4. CASE OpenStream \/ WaitRound
  BY <1>4, ScheduleRefines DEF OpenStream, WaitRound, Lifecycle!Next
<1>5. ASSUME NEW t \in Tools, TaskStep(t)
      PROVE  Lifecycle!Next \/ UNCHANGED <<Phase, Halted>>
  <2>1. ASSUME NEW outcome \in {"error", "completed"}, Settle(t, outcome),
               task[t] \in Holding \cup {"created"}, Halted => Halted'
        PROVE  Lifecycle!Next
    BY <2>1, SettleRefines DEF Lifecycle!Next
  <2>2. CASE BeginAborted(t)
    BY <2>1, <2>2 DEF BeginAborted, Ready, stopVars, Halted
  <2>3. CASE Refuse(t) \/ Complete(t) \/ FailureHooksDone(t)
    BY <2>1, <2>3 DEF Refuse, Complete, FailureHooksDone, Ready, Holding, Body, stopVars, Halted
  <2>4. CASE AbortSiblings(t)
    BY <2>1, <2>4 DEF AbortSiblings, Ready, Holding, Body, Halted
  <2>5. CASE Cancelled(t)
    BY <2>5, CancelledRefines DEF Lifecycle!Next
  <2>6. ASSUME NEW to \in Stages \ {"none", "done"}, Live(t), task' = [task EXCEPT ![t] = to],
               UNCHANGED <<status, hasErrored, discarded>>
        PROVE  UNCHANGED <<Phase, Halted>>
    <3>1. \A u \in Tools : Live(u)' <=> Live(u)
      BY <2>6, <1>0 DEF Live, TypeOK
    <3> QED
      BY <2>6, <3>1, <1>0, Invisible DEF Halted
  <2>7. CASE Begin(t) \/ AcquirePermit(t)
    BY <2>6, <2>7 DEF Begin, AcquirePermit, EnterBody, Ready, Live, Stages, Holding, Body, stopVars
  <2>8. ASSUME NEW from \in Body, NEW to \in Holding, Advance(t, from, to)
        PROVE  UNCHANGED <<Phase, Halted>>
    <3>1. to \in Stages \ {"none", "done"} /\ Live(t)
      BY <2>8 DEF Advance, Ready, Live, Stages, Holding, Body
    <3> QED
      BY <2>6, <2>8, <3>1 DEF Advance, stopVars
  <2>9. CASE \/ RequestAllowed(t) \/ PermissionGranted(t) \/ PermissionDenied(t)
             \/ CallTool(t) \/ CallReturned(t) \/ Raise(t)
    BY <2>8, <2>9 DEF RequestAllowed, PermissionGranted, PermissionDenied, CallTool,
                      CallReturned, Raise, Body, Holding
  <2> QED
    BY <1>5, <2>2, <2>3, <2>4, <2>5, <2>7, <2>9 DEF TaskStep
<1>6. CASE UNCHANGED vars \/ StartLoop \/ AbortParent \/ OpenWait \/ TakeResult \/ EndStream \/ GatherDone
  BY <1>1, <1>6 DEF vars, toolVars, stopVars, StartLoop, AbortParent, OpenWait, TakeResult,
                    EndStream, GatherDone
<1> QED
  BY <1>2, <1>3, <1>4, <1>5, <1>6 DEF Next, ConsumerStep

\* The executor implements ToolLifecycle: calls pass through the phases in
\* order, exclusive ones are never active together, nothing becomes active
\* after a stop and only a stop loses an active call.
THEOREM ImplementsToolLifecycle == Spec => ImplementsLifecycle
<1> QED
  BY InitRefines, StepRefines, SpecIInv, PTL DEF Spec, ImplementsLifecycle, Lifecycle!Spec

-----------------------------------------------------------------------------
(* What a step may never do.                                               *)

\* The steps that may start tools or end one leave the other tasks alone: a
\* task only moves to a stage inside the body by a step of its own.
LEMMA SpawnedTask ==
  ASSUME NEW tk \in [Tools -> Stages], NEW S, NEW u \in Tools, Spawned(tk, S)[u] # "created"
  PROVE  Spawned(tk, S)[u] = tk[u]
  BY DEF Spawned

\* No step enters a callable while the abort controller is aborted.
THEOREM NoCallAfterAbort == Spec => AbortStopsCalls
<1>1. IInv /\ [Next]_vars =>
        [\A t \in Tools : task[t] # "call" /\ task'[t] = "call" => ~aborted]_vars
  <2> SUFFICES ASSUME IInv, Next, NEW u \in Tools, task[u] # "call", task'[u] = "call"
               PROVE  ~aborted
    BY DEF vars
  <2>0. task \in [Tools -> Stages]
    BY DEF IInv, TypeOK
  <2>1. ASSUME NEW t \in Tools, NEW S, task' = Spawned([task EXCEPT ![t] = "done"], S)
        PROVE  FALSE
    <3>1. [task EXCEPT ![t] = "done"] \in [Tools -> Stages]
      BY <2>0 DEF Stages
    <3> QED
      BY <2>0, <2>1, <3>1, SpawnedTask
  <2>2. ASSUME NEW S, task' = Spawned(task, S) PROVE FALSE
    BY <2>0, <2>2, SpawnedTask
  <2>3. ASSUME NEW t \in Tools, AddTool(t) PROVE FALSE
    BY <2>2, <2>3 DEF AddTool
  <2>4. CASE OpenStream \/ WaitRound
    BY <2>2, <2>4 DEF OpenStream, WaitRound, SchedulePending
  <2>5. ASSUME NEW t \in Tools, TaskStep(t) PROVE ~aborted
    <3>1. CASE \E outcome \in {"error", "completed"} : Settle(t, outcome)
      BY <2>1, <3>1 DEF Settle
    <3>2. CASE Cancelled(t)
      BY <2>1, <3>2 DEF Cancelled
    <3>3. CASE Begin(t) \/ AcquirePermit(t)
      BY <2>0, <3>3 DEF Begin, AcquirePermit, EnterBody
    <3>4. CASE CallTool(t)
      BY <3>4 DEF CallTool
    <3>5. CASE \/ RequestAllowed(t) \/ PermissionGranted(t) \/ PermissionDenied(t)
               \/ CallReturned(t) \/ Raise(t)
      BY <2>0, <3>5 DEF RequestAllowed, PermissionGranted, PermissionDenied,
                        CallReturned, Raise, Advance
    <3> QED
      BY <2>5, <3>1, <3>2, <3>3, <3>4, <3>5
         DEF TaskStep, BeginAborted, Refuse, Complete, FailureHooksDone, AbortSiblings
  <2>6. CASE StartLoop \/ Discard \/ AbortParent \/ OpenWait \/ TakeResult \/ EndStream \/ GatherDone
    BY <2>6 DEF toolVars, StartLoop, Discard, AbortParent, OpenWait, TakeResult, EndStream, GatherDone
  <2> QED
    BY <2>3, <2>4, <2>5, <2>6 DEF Next, ConsumerStep
<1> QED
  BY <1>1, SpecIInv, PTL DEF Spec, AbortStopsCalls

\* No step starts a tool once a sibling abort or a discard has happened, not
\* even the step in which it happens.
THEOREM NoStartAfterHalt == Spec => HaltStopsStarts
<1>1. IInv /\ [Next]_vars =>
        [\A t \in Tools : status[t] # "running" /\ status'[t] = "running" => ~Halted']_vars
  <2> SUFFICES ASSUME IInv, Next, NEW u \in Tools, status[u] # "running", status'[u] = "running"
               PROVE  ~Halted'
    BY DEF vars
  <2>0. status \in [Tools -> Statuses]
    BY DEF IInv, TypeOK
  <2>1. ASSUME NEW st \in [Tools -> Statuses], NEW S, status' = Started(st, S), st[u] # "running"
        PROVE  S # {}
    BY <2>1 DEF Started
  <2>2. ASSUME NEW t \in Tools, AddTool(t) PROVE ~Halted'
    <3>1. StartsOnAdd(t)
      BY <2>0, <2>2 DEF AddTool, Started
    <3> QED
      BY <2>2, <3>1 DEF AddTool, StartsOnAdd, stopVars, Halted
  <2>3. CASE OpenStream \/ WaitRound
    BY <2>0, <2>1, <2>3 DEF OpenStream, WaitRound, SchedulePending, Schedulable, stopVars, Halted
  <2>4. ASSUME NEW t \in Tools, NEW outcome \in {"error", "completed"}, Settle(t, outcome)
        PROVE  ~Halted'
    <3> DEFINE marked == [status EXCEPT ![t] = outcome]
    <3>1. marked \in [Tools -> Statuses] /\ marked[u] # "running"
      BY <2>0 DEF Statuses, Terminal
    <3>2. NextExclusive(marked, Halted') # {}
      BY <2>1, <2>4, <3>1 DEF Settle
    <3> QED
      BY <3>2 DEF NextExclusive
  <2>5. ASSUME NEW t \in Tools, Cancelled(t) PROVE ~Halted'
    BY <2>0, <2>1, <2>5 DEF Cancelled, NextExclusive, stopVars, Halted
  <2>6. ASSUME NEW t \in Tools, TaskStep(t) PROVE ~Halted'
    <3>1. CASE UNCHANGED status
      BY <3>1
    <3>2. CASE Begin(t) \/ AcquirePermit(t)
      BY <3>1, <3>2 DEF Begin, AcquirePermit, EnterBody
    <3>3. CASE \/ RequestAllowed(t) \/ PermissionGranted(t) \/ PermissionDenied(t)
               \/ CallTool(t) \/ CallReturned(t) \/ Raise(t)
      BY <3>1, <3>3 DEF RequestAllowed, PermissionGranted, PermissionDenied, CallTool,
                        CallReturned, Raise, Advance
    <3> QED
      BY <2>4, <2>5, <2>6, <3>2, <3>3
         DEF TaskStep, BeginAborted, Refuse, Complete, FailureHooksDone, AbortSiblings
  <2>7. CASE Discard
    BY <2>0, <2>7 DEF Discard
  <2>8. CASE StartLoop \/ AbortParent \/ OpenWait \/ TakeResult \/ EndStream \/ GatherDone
    BY <2>8 DEF toolVars, StartLoop, AbortParent, OpenWait, TakeResult, EndStream, GatherDone
  <2> QED
    BY <2>2, <2>3, <2>6, <2>7, <2>8 DEF Next, ConsumerStep
<1> QED
  BY <1>1, SpecIInv, PTL DEF Spec, HaltStopsStarts

\* Among tools with distinct positions the first one is before every other.
LEMMA FirstIsBefore ==
  ASSUME TypeOK, ArrivalsOK, TasksOK, NEW st \in [Tools -> Statuses],
         \A u \in Pending(st) : status[u] = "pending",
         NEW x \in First(Pending(st) \ Safe), NEW y \in Pending(st) \ Safe, y # x
  PROVE  arrival[x] < arrival[y]
<1>1. /\ x \in Pending(st) \ Safe /\ arrival[x] =< arrival[y]
      /\ x \in Tools /\ y \in Tools
  BY DEF First, Pending
<1>2. x \in Added /\ y \in Added
  BY <1>1 DEF TasksOK, TaskOK, Added
<1>3. arrival[x] # arrival[y] /\ arrival[x] \in Nat /\ arrival[y] \in Nat
  BY <1>1, <1>2 DEF ArrivalsOK, TypeOK
<1> QED
  BY <1>1, <1>3

\* A set of tools that have positions has a first member.
LEMMA FirstExists ==
  ASSUME arrival \in [Tools -> Nat], NEW S \in SUBSET Tools, S # {}
  PROVE  First(S) # {}
<1> DEFINE places == {arrival[t] : t \in S}
<1>1. places \subseteq Nat /\ places # {}
  OBVIOUS
<1> HIDE DEF places
<1>2. PICK n \in places : \A m \in places : ~(<<m, n>> \in OpToRel(<, Nat))
  BY <1>1, NatLessThanWellFounded, WFMin
<1>2a. \A m \in places : ~(m < n)
  BY <1>1, <1>2 DEF OpToRel
<1>3. \A m \in places : n =< m
  BY <1>1, <1>2a
<1>4. PICK t \in S : n = arrival[t]
  BY DEF places
<1>5. \A u \in S : arrival[t] =< arrival[u]
  BY <1>3, <1>4 DEF places
<1> QED
  BY <1>5 DEF First

\* An exclusive tool that waits although its add_tool found the loop running waits
\* for a tool that runs, until the executor is stopped.  This is why add_tool, which
\* only looks at what is running, does not overtake it.
WaitersCovered ==
  \A y \in Exclusive \ deferred : status[y] = "pending" => Halted \/ HasRunning(status)

LEMMA InitWaiters == Init => WaitersCovered
BY DEF Init, WaitersCovered, Exclusive

LEMMA StepWaiters ==
  ASSUME IInv, WaitersCovered, [Next]_vars
  PROVE  WaitersCovered'
<1> SUFFICES ASSUME NEW y \in Exclusive, y \notin deferred', status'[y] = "pending", ~Halted'
             PROVE  HasRunning(status)'
  BY DEF WaitersCovered
<1>0. /\ status \in [Tools -> Statuses] /\ y \in Tools \ Safe
      /\ TypeOK /\ ArrivalsOK /\ TasksOK
  BY DEF IInv, TypeOK, Exclusive
<1>1. CASE UNCHANGED <<status, deferred, hasErrored, discarded>>
  BY <1>1 DEF WaitersCovered, Halted, HasRunning
<1>2. ASSUME NEW t \in Tools, AddTool(t) PROVE HasRunning(status)'
  <2>0. status[t] = "absent" /\ ~Halted
    BY <1>0, <1>2 DEF AddTool, TasksOK, TaskOK, Halted, stopVars
  <2>1. \A u \in Tools \ {t} : status'[u] = status[u]
    BY <1>0, <1>2 DEF AddTool, Started
  <2>2. HasRunning(status)
    <3>1. CASE y = t
      <4>1. loopUp
        BY <1>2, <3>1 DEF AddTool
      <4>2. ~StartsOnAdd(t)
        BY <1>0, <1>2, <3>1 DEF AddTool, Started
      <4> QED
        BY <1>0, <2>0, <3>1, <4>1, <4>2 DEF StartsOnAdd
    <3>2. CASE y # t
      BY <1>0, <1>2, <2>0, <2>1, <3>2 DEF AddTool, WaitersCovered
    <3> QED
      BY <3>1, <3>2
  <2> QED
    BY <2>0, <2>1, <2>2 DEF HasRunning
<1>3. CASE OpenStream \/ WaitRound
  <2>1. /\ status' = Started(status, Schedulable) /\ ~Halted
        /\ deferred' = deferred
    BY <1>3 DEF OpenStream, WaitRound, SchedulePending, stopVars, loopVars, Halted
  <2>2. status[y] = "pending"
    BY <1>0, <2>1 DEF Started
  <2>3. HasRunning(status)
    BY <2>1, <2>2 DEF WaitersCovered
  <2> QED
    BY <2>1, <2>3 DEF HasRunning, Started
<1>4. ASSUME NEW t \in Tools, NEW outcome \in {"error", "completed"}, Settle(t, outcome)
      PROVE  HasRunning(status)'
  <2> DEFINE marked == [status EXCEPT ![t] = outcome]
  <2>1. status' = Started(marked, NextExclusive(marked, Halted'))
    BY <1>4 DEF Settle
  <2> HIDE DEF marked
  <2>2. marked[y] = "pending"
    BY <1>0, <2>1 DEF Started
  <2>3. CASE HasRunning(marked)
    BY <2>1, <2>3 DEF HasRunning, Started
  <2>4. CASE ~HasRunning(marked)
    <3>1. y \in Pending(marked) \ Safe /\ Pending(marked) \ Safe \in SUBSET Tools
      BY <1>0, <2>2 DEF Pending
    <3>2. First(Pending(marked) \ Safe) # {}
      BY <1>0, <3>1, FirstExists DEF TypeOK
    <3>3. PICK x \in First(Pending(marked) \ Safe) : TRUE
      BY <3>2
    <3>4. x \in Tools /\ x \in NextExclusive(marked, Halted')
      BY <2>4, <3>3 DEF NextExclusive, First, Pending
    <3> QED
      BY <2>1, <3>4 DEF HasRunning, Started
  <2> QED
    BY <2>3, <2>4
<1>5. ASSUME NEW t \in Tools, Cancelled(t) PROVE HasRunning(status)'
  <2>1. Halted
    BY <1>5 DEF Cancelled, TasksOK, TaskOK, IInv
  <2> QED
    BY <1>5, <2>1 DEF Cancelled, stopVars, Halted
<1>6. ASSUME NEW t \in Tools, TaskStep(t) PROVE HasRunning(status)'
  <2>2. CASE Begin(t) \/ AcquirePermit(t)
    BY <1>1, <2>2 DEF Begin, AcquirePermit, EnterBody, loopVars, stopVars
  <2>3. CASE \/ RequestAllowed(t) \/ PermissionGranted(t) \/ PermissionDenied(t)
             \/ CallTool(t) \/ CallReturned(t) \/ Raise(t)
    BY <1>1, <2>3 DEF RequestAllowed, PermissionGranted, PermissionDenied, CallTool,
                      CallReturned, Raise, Advance, loopVars, stopVars
  <2> QED
    BY <1>4, <1>5, <1>6, <2>2, <2>3
       DEF TaskStep, BeginAborted, Refuse, Complete, FailureHooksDone, AbortSiblings
<1>7. CASE Discard
  BY <1>7 DEF Discard, Halted
<1>8. CASE StartLoop \/ AbortParent \/ OpenWait \/ TakeResult \/ EndStream \/ GatherDone
  BY <1>1, <1>8 DEF toolVars, stopVars, loopVars, StartLoop, AbortParent, OpenWait, TakeResult,
                    EndStream, GatherDone
<1>9. CASE UNCHANGED vars
  BY <1>1, <1>9 DEF vars, toolVars, stopVars, loopVars
<1> QED
  BY <1>2, <1>3, <1>6, <1>7, <1>8, <1>9 DEF Next, ConsumerStep

\* Nothing starts an exclusive tool before one that was added earlier and still waits:
\* not a scheduling pass, not the end of a tool (_try_start_next_non_concurrent) or a
\* cancellation, and not add_tool, unless the tools it overtakes were added before the
\* loop ran.
THEOREM ExclusivesStartInOrder == Spec => ExclusivesInOrder
<1>1. IInv /\ WaitersCovered /\ [Next]_vars =>
        [\A x, y \in Exclusive :
           status[x] # "running" /\ status'[x] = "running" /\ x # y /\ status[y] = "pending" =>
             arrival'[x] < arrival[y] \/ (status[x] = "absent" /\ y \in deferred)]_vars
  <2> SUFFICES ASSUME IInv, WaitersCovered, Next,
                      NEW x \in Exclusive, NEW y \in Exclusive, x # y,
                      status[x] # "running", status'[x] = "running", status[y] = "pending"
               PROVE  arrival'[x] < arrival[y] \/ (status[x] = "absent" /\ y \in deferred)
    BY DEF vars
  <2>0. /\ status \in [Tools -> Statuses] /\ TypeOK /\ ArrivalsOK /\ TasksOK
        /\ x \in Tools \ Safe /\ y \in Tools \ Safe /\ x # y
    BY DEF IInv, TypeOK, Exclusive
  <2>1. ASSUME NEW st \in [Tools -> Statuses], NEW halted \in BOOLEAN,
               Pending(st) = Pending(status), st[x] # "running",
               status' = Started(st, NextExclusive(st, halted)), arrival' = arrival
        PROVE  arrival'[x] < arrival[y]
    <3>1. x \in NextExclusive(st, halted)
      BY <2>0, <2>1 DEF Started
    <3>2. x \in First(Pending(st) \ Safe)
      BY <3>1 DEF NextExclusive
    <3>3. y \in Pending(st) \ Safe /\ \A u \in Pending(st) : status[u] = "pending"
      BY <2>0, <2>1 DEF Pending
    <3> QED
      BY <2>0, <2>1, <3>2, <3>3, FirstIsBefore
  <2>2. ASSUME NEW t \in Tools, AddTool(t) PROVE status[x] = "absent" /\ y \in deferred
    <3>1. x = t
      BY <2>0, <2>2 DEF AddTool, Started
    <3>2. status[x] = "absent"
      BY <2>0, <2>2, <3>1 DEF AddTool, TasksOK, TaskOK
    <3>3. StartsOnAdd(t)
      BY <2>0, <2>2, <3>1 DEF AddTool, Started
    <3> QED
      BY <2>0, <3>1, <3>2, <3>3 DEF StartsOnAdd, WaitersCovered
  <2>3. CASE OpenStream \/ WaitRound
    <3>1. x \in Schedulable
      BY <2>0, <2>3 DEF OpenStream, WaitRound, SchedulePending, Started
    <3>2. x \in First(Pending(status) \ Safe)
      BY <2>0, <3>1 DEF Schedulable
    <3>3. y \in Pending(status) \ Safe /\ \A u \in Pending(status) : status[u] = "pending"
      BY <2>0 DEF Pending
    <3>4. arrival' = arrival
      BY <2>3 DEF OpenStream, WaitRound, SchedulePending
    <3> QED
      BY <2>0, <3>2, <3>3, <3>4, FirstIsBefore
  <2>4. ASSUME NEW t \in Tools, NEW outcome \in {"error", "completed"}, Settle(t, outcome),
               status[t] = "running"
        PROVE  arrival'[x] < arrival[y]
    <3> DEFINE marked == [status EXCEPT ![t] = outcome]
    <3>1. marked \in [Tools -> Statuses] /\ marked[x] # "running"
      BY <2>0 DEF Statuses, Terminal
    <3>2. Pending(marked) = Pending(status)
      BY <2>0, <2>4 DEF Pending
    <3>3. status' = Started(marked, NextExclusive(marked, Halted')) /\ Halted' \in BOOLEAN
          /\ arrival' = arrival
      BY <2>4 DEF Settle, Halted
    <3> QED
      BY <2>1, <3>1, <3>2, <3>3
  <2>5. ASSUME NEW t \in Tools, Cancelled(t) PROVE arrival'[x] < arrival[y]
    <3>1. Halted \in BOOLEAN
      BY DEF Halted
    <3>2. CASE task[t] # "created"
      <4>1. status' = Started(status, NextExclusive(status, Halted)) /\ arrival' = arrival
        BY <2>5, <3>2 DEF Cancelled
      <4> QED
        BY <2>0, <2>1, <3>1, <4>1
    <3>3. CASE task[t] = "created"
      BY <2>0, <2>5, <3>3 DEF Cancelled, Started
    <3> QED
      BY <3>2, <3>3
  <2>6. ASSUME NEW t \in Tools, TaskStep(t) PROVE arrival'[x] < arrival[y]
    <3>1. CASE UNCHANGED status
      BY <3>1
    <3>2. CASE Begin(t) \/ AcquirePermit(t)
      BY <3>1, <3>2 DEF Begin, AcquirePermit, EnterBody
    <3>3. CASE \/ RequestAllowed(t) \/ PermissionGranted(t) \/ PermissionDenied(t)
               \/ CallTool(t) \/ CallReturned(t) \/ Raise(t)
      BY <3>1, <3>3 DEF RequestAllowed, PermissionGranted, PermissionDenied, CallTool,
                        CallReturned, Raise, Advance
    <3>4. CASE \/ BeginAborted(t) \/ Refuse(t) \/ Complete(t) \/ FailureHooksDone(t)
               \/ AbortSiblings(t)
      <4>1. PICK outcome \in {"error", "completed"} : Settle(t, outcome)
        BY <3>4 DEF BeginAborted, Refuse, Complete, FailureHooksDone, AbortSiblings
      <4>2. Live(t)
        BY <3>4 DEF BeginAborted, Refuse, Complete, FailureHooksDone, AbortSiblings, Ready, Live,
                    Body
      <4>3. status[t] = "running"
        BY <2>0, <4>2 DEF TasksOK, TaskOK
      <4> QED
        BY <2>4, <4>1, <4>3
    <3> QED
      BY <2>5, <2>6, <3>2, <3>3, <3>4 DEF TaskStep
  <2>7. CASE Discard
    BY <2>0, <2>7 DEF Discard
  <2>8. CASE StartLoop \/ AbortParent \/ OpenWait \/ TakeResult \/ EndStream \/ GatherDone
    BY <2>8 DEF toolVars, StartLoop, AbortParent, OpenWait, TakeResult, EndStream, GatherDone
  <2> QED
    BY <2>2, <2>3, <2>6, <2>7, <2>8 DEF Next, ConsumerStep
<1> QED
  BY <1>1, InitWaiters, StepWaiters, SpecIInv, PTL DEF Spec, ExclusivesInOrder

-----------------------------------------------------------------------------
(* execute_batch.  What makes its inductive invariant: the batches cut the  *)
(* message into runs of calls that follow one another, the batches before   *)
(* the one in progress are answered, those after it untouched, and until    *)
(* the sort the results are the calls answered so far, in order.            *)

\* The last call of batch b, or 0 before the first batch.
Upto(bs, b) == IF b = 0 THEN 0 ELSE bs[b][Len(bs[b])]

\* The batches follow one another without a gap, and one of several calls is safe.
Parts(bs) ==
  \A b \in 1 .. Len(bs) :
    /\ bs[b] # <<>>
    /\ \A k \in 1 .. Len(bs[b]) : bs[b][k] = Upto(bs, b - 1) + k
    /\ Len(bs[b]) = 1 \/ \A k \in 1 .. Len(bs[b]) : IsConcurrentSafe(bs[b][k])

\* The open batch goes on where they end, up to the call last walked over.
CutOK ==
  /\ Parts(batches)
  /\ \A k \in 1 .. Len(open) :
       open[k] = Upto(batches, Len(batches)) + k /\ IsConcurrentSafe(open[k])
  /\ placed = Upto(batches, Len(batches)) + Len(open)
  /\ main = "partitions" => batchNo = 0
  /\ main # "partitions" => open = <<>> /\ placed = Len(kind)

\* The last call of the batches that are through.
Past == IF batchNo = 0 THEN 0 ELSE Upto(batches, batchNo - 1)

\* How far the calls and the results have got.
RunOK ==
  /\ \A c \in Calls : c =< Past => stage[c] \in Answered
  /\ \A c \in Calls : c > Upto(batches, batchNo) => stage[c] = "none"
  /\ main # "returned" => Len(results) = Past /\ \A k \in 1 .. Past : results[k] = k

BatchInv == BatchTypeOK /\ CutOK /\ RunOK /\ ReturnsAnswers

\* The calls are 1 .. Len(kind).
LEMMA CallsAre ==
  ASSUME kind \in Seq(Kinds)
  PROVE  Len(kind) \in Nat /\ Calls = 1 .. Len(kind) /\ IsFiniteSet(Calls)
<1>1. Len(kind) \in Nat /\ Calls = 1 .. Len(kind)
  BY LenProperties DEF Calls
<1> QED
  BY <1>1, FS_Interval

\* Where a batch of a partition ends is a number, and the batches before it end earlier.
LEMMA UptoType ==
  ASSUME NEW bs \in Seq(Seq(Nat)), Parts(bs), NEW b \in 0 .. Len(bs)
  PROVE  /\ Upto(bs, b) \in Nat
         /\ b # 0 => /\ Len(bs[b]) \in Nat \ {0}
                     /\ bs[b] \in Seq(Nat)
                     /\ Upto(bs, b) = Upto(bs, b - 1) + Len(bs[b])
<1>0. Len(bs) \in Nat
  BY LenProperties
<1>1. CASE b = 0
  BY <1>1 DEF Upto
<1>2. CASE b # 0
  <2>1. b \in 1 .. Len(bs)
    BY <1>0, <1>2
  <2>2. bs[b] \in Seq(Nat)
    BY <2>1, ElementOfSeq
  <2>3. bs[b] # <<>> /\ Len(bs[b]) \in Nat \ {0}
    BY <2>1, <2>2, EmptySeq DEF Parts
  <2>4. bs[b][Len(bs[b])] \in Nat
    BY <2>2, <2>3, ElementOfSeq
  <2>5. Upto(bs, b) = bs[b][Len(bs[b])]
    BY <1>2 DEF Upto
  <2>6. bs[b][Len(bs[b])] = Upto(bs, b - 1) + Len(bs[b])
    BY <2>1, <2>3 DEF Parts
  <2> QED
    BY <2>2, <2>3, <2>4, <2>5, <2>6
<1> QED
  BY <1>1, <1>2

\* A batch holds the calls after the batch before it, up to its last.
LEMMA PartRange ==
  ASSUME NEW bs \in Seq(Seq(Nat)), Parts(bs), NEW b \in 1 .. Len(bs)
  PROVE  Range(bs[b]) = (Upto(bs, b - 1) + 1) .. Upto(bs, b)
<1>0. Len(bs) \in Nat
  BY LenProperties
<1>1. b \in 0 .. Len(bs) /\ b - 1 \in 0 .. Len(bs) /\ b # 0
  BY <1>0
<1>2. /\ Upto(bs, b - 1) \in Nat /\ Upto(bs, b) \in Nat
      /\ Len(bs[b]) \in Nat /\ bs[b] \in Seq(Nat)
      /\ Upto(bs, b) = Upto(bs, b - 1) + Len(bs[b])
  BY <1>1, UptoType
<1>3. DOMAIN bs[b] = 1 .. Len(bs[b])
  BY <1>2, LenProperties
<1>4. \A k \in 1 .. Len(bs[b]) : bs[b][k] = Upto(bs, b - 1) + k
  BY DEF Parts
<1>5. ASSUME NEW c \in Range(bs[b])
      PROVE  c \in (Upto(bs, b - 1) + 1) .. Upto(bs, b)
  <2>1. PICK k \in 1 .. Len(bs[b]) : c = bs[b][k]
    BY <1>3, <1>5 DEF Range
  <2>2. c = Upto(bs, b - 1) + k
    BY <2>1, <1>4
  <2> QED
    BY <2>2, <1>2
<1>6. ASSUME NEW c \in (Upto(bs, b - 1) + 1) .. Upto(bs, b)
      PROVE  c \in Range(bs[b])
  <2>1. c - Upto(bs, b - 1) \in 1 .. Len(bs[b])
    BY <1>2
  <2>2. bs[b][c - Upto(bs, b - 1)] = c
    BY <2>1, <1>2, <1>4
  <2> QED
    BY <2>1, <2>2, <1>3 DEF Range
<1> QED
  BY <1>5, <1>6

\* A partition stays one when the calls that follow it are appended, as a single
\* call or as several safe ones.
LEMMA PartAppended ==
  ASSUME NEW bs \in Seq(Seq(Nat)), Parts(bs),
         NEW s \in Seq(Nat), s # <<>>,
         \A k \in 1 .. Len(s) : s[k] = Upto(bs, Len(bs)) + k,
         Len(s) = 1 \/ \A k \in 1 .. Len(s) : IsConcurrentSafe(s[k])
  PROVE  /\ Append(bs, s) \in Seq(Seq(Nat))
         /\ Parts(Append(bs, s))
         /\ Len(Append(bs, s)) = Len(bs) + 1
         /\ Upto(Append(bs, s), Len(bs) + 1) = Upto(bs, Len(bs)) + Len(s)
<1> DEFINE cs == Append(bs, s)
<1>1. /\ cs \in Seq(Seq(Nat)) /\ Len(cs) = Len(bs) + 1
      /\ \A b \in 1 .. Len(bs) : cs[b] = bs[b]
      /\ cs[Len(bs) + 1] = s
  BY AppendProperties
<1> HIDE DEF cs
<1>2. Len(bs) \in Nat /\ Len(s) \in Nat \ {0}
  BY LenProperties, EmptySeq
<1>3. \A b \in 0 .. Len(bs) : Upto(cs, b) = Upto(bs, b)
  BY <1>1, <1>2 DEF Upto
<1>4. Upto(cs, Len(bs) + 1) = Upto(bs, Len(bs)) + Len(s)
  <2>1. Len(bs) + 1 # 0 /\ Len(s) \in 1 .. Len(s)
    BY <1>2
  <2> QED
    BY <1>1, <2>1 DEF Upto
<1>5. ASSUME NEW b \in 1 .. Len(cs)
      PROVE  /\ cs[b] # <<>>
             /\ \A k \in 1 .. Len(cs[b]) : cs[b][k] = Upto(cs, b - 1) + k
             /\ Len(cs[b]) = 1 \/ \A k \in 1 .. Len(cs[b]) : IsConcurrentSafe(cs[b][k])
  <2>1. CASE b = Len(bs) + 1
    <3>1. b - 1 = Len(bs) /\ Len(bs) \in 0 .. Len(bs)
      BY <2>1, <1>2
    <3>2. cs[b] = s /\ Upto(cs, b - 1) = Upto(bs, Len(bs))
      BY <2>1, <3>1, <1>1, <1>3
    <3> QED
      BY <3>2, Zenon
  <2>2. CASE b # Len(bs) + 1
    <3>1. b \in 1 .. Len(bs) /\ b - 1 \in 0 .. Len(bs)
      BY <2>2, <1>1, <1>2
    <3>2. cs[b] = bs[b] /\ Upto(cs, b - 1) = Upto(bs, b - 1)
      BY <3>1, <1>1, <1>3
    <3>3. /\ bs[b] # <<>>
          /\ \A k \in 1 .. Len(bs[b]) : bs[b][k] = Upto(bs, b - 1) + k
          /\ Len(bs[b]) = 1 \/ \A k \in 1 .. Len(bs[b]) : IsConcurrentSafe(bs[b][k])
      BY <3>1 DEF Parts
    <3> QED
      BY <3>2, <3>3, Zenon
  <2> QED
    BY <2>1, <2>2
<1>6. Parts(cs)
  BY <1>5 DEF Parts
<1> QED
  BY <1>1, <1>4, <1>6 DEF cs

\* The last call of the batches so far is a number.
LEMMA UptoOfBatches ==
  ASSUME batches \in Seq(Seq(Calls)), kind \in Seq(Kinds), Parts(batches)
  PROVE  Upto(batches, Len(batches)) \in Nat
<1>1. Calls \subseteq Nat
  BY CallsAre
<1>2. Seq(Calls) \subseteq Seq(Nat)
  BY <1>1, SeqMonotonic
<1>3. batches \in Seq(Seq(Nat))
  BY <1>2, SeqMonotonic
<1>4. Len(batches) \in 0 .. Len(batches)
  BY <1>3, LenProperties
<1> QED
  BY <1>3, <1>4, UptoType

\* With the open batch flushed, the batches are a partition of the calls walked over.
LEMMA FlushedParts ==
  ASSUME BatchTypeOK, CutOK
  PROVE  /\ Flushed \in Seq(Seq(Calls)) /\ Flushed \in Seq(Seq(Nat))
         /\ Parts(Flushed)
         /\ Upto(Flushed, Len(Flushed)) = placed
         /\ Len(batches) =< Len(Flushed)
<1>0. /\ batches \in Seq(Seq(Calls)) /\ open \in Seq(Calls) /\ placed \in Nat
      /\ kind \in Seq(Kinds)
  BY CallsAre DEF BatchTypeOK
<1>1. Seq(Calls) \subseteq Seq(Nat) /\ Seq(Seq(Calls)) \subseteq Seq(Seq(Nat))
  <2>1. Calls \subseteq Nat
    BY <1>0, CallsAre
  <2>2. Seq(Calls) \subseteq Seq(Nat)
    BY <2>1, SeqMonotonic
  <2>3. Seq(Seq(Calls)) \subseteq Seq(Seq(Nat))
    BY <2>2, SeqMonotonic
  <2> QED
    BY <2>2, <2>3
<1>2. /\ batches \in Seq(Seq(Nat)) /\ open \in Seq(Nat)
      /\ Len(batches) \in Nat /\ Len(open) \in Nat
  BY <1>0, <1>1, LenProperties
<1>3. /\ Parts(batches)
      /\ \A k \in 1 .. Len(open) :
           open[k] = Upto(batches, Len(batches)) + k /\ IsConcurrentSafe(open[k])
      /\ placed = Upto(batches, Len(batches)) + Len(open)
  BY DEF CutOK
<1>4. Upto(batches, Len(batches)) \in Nat
  <2>1. Len(batches) \in 0 .. Len(batches)
    BY <1>2
  <2> QED
    BY <2>1, <1>2, <1>3, UptoType
<1>5. CASE open = <<>>
  <2>1. Flushed = batches /\ Len(open) = 0
    BY <1>5, EmptySeq DEF Flushed
  <2> QED
    BY <2>1, <1>0, <1>2, <1>3, <1>4
<1>6. CASE open # <<>>
  <2>1. Flushed = Append(batches, open)
    BY <1>6 DEF Flushed
  <2>2. /\ Append(batches, open) \in Seq(Seq(Calls))
        /\ Len(Append(batches, open)) = Len(batches) + 1
    BY <1>0, AppendProperties
  <2>3. /\ Append(batches, open) \in Seq(Seq(Nat))
        /\ Parts(Append(batches, open))
        /\ Upto(Append(batches, open), Len(batches) + 1)
             = Upto(batches, Len(batches)) + Len(open)
    BY <1>2, <1>3, <1>6, PartAppended
  <2> QED
    BY <2>1, <2>2, <2>3, <1>2, <1>3
<1> QED
  BY <1>5, <1>6

\* The batch in progress holds the calls between Past and its last.
LEMMA CurrentBatch ==
  ASSUME BatchTypeOK, CutOK
  PROVE  /\ Past \in Nat /\ Upto(batches, batchNo) \in Nat
         /\ Batch \in Seq(Calls)
         /\ Len(Batch) = Upto(batches, batchNo) - Past
         /\ \A k \in 1 .. Len(Batch) : Batch[k] = Past + k
         /\ InBatch = (Past + 1) .. Upto(batches, batchNo)
         /\ Len(Batch) =< 1 \/ \A c \in InBatch : IsConcurrentSafe(c)
<1>0. /\ batches \in Seq(Seq(Calls)) /\ kind \in Seq(Kinds) /\ Parts(batches)
      /\ batchNo \in 0 .. Len(batches)
  BY DEF BatchTypeOK, CutOK
<1>1. batches \in Seq(Seq(Nat)) /\ Len(batches) \in Nat /\ DOMAIN batches = 1 .. Len(batches)
  <2>1. Calls \subseteq Nat
    BY <1>0, CallsAre
  <2>2. Seq(Calls) \subseteq Seq(Nat)
    BY <2>1, SeqMonotonic
  <2>3. batches \in Seq(Seq(Nat))
    BY <2>2, <1>0, SeqMonotonic
  <2> QED
    BY <2>3, LenProperties
<1>2. CASE batchNo = 0
  <2>1. Batch = <<>> /\ Past = 0 /\ Upto(batches, batchNo) = 0
    BY <1>1, <1>2 DEF Batch, Past, Upto
  <2>2. InBatch = {} /\ Len(Batch) = 0
    BY <2>1, EmptySeq DEF InBatch, Range
  <2> QED
    BY <2>1, <2>2, EmptySeq
<1>3. CASE batchNo # 0
  <2>1. batchNo \in 1 .. Len(batches) /\ batchNo - 1 \in 0 .. Len(batches)
    BY <1>0, <1>1, <1>3
  <2>2. Batch = batches[batchNo] /\ Past = Upto(batches, batchNo - 1)
    BY <2>1, <1>1, <1>3 DEF Batch, Past
  <2>3. /\ Past \in Nat /\ Upto(batches, batchNo) \in Nat /\ Len(Batch) \in Nat
        /\ Batch \in Seq(Nat)
        /\ Upto(batches, batchNo) = Past + Len(Batch)
    BY <2>1, <2>2, <1>0, <1>1, <1>3, UptoType
  <2>4. Batch \in Seq(Calls)
    BY <2>1, <2>2, <1>0, ElementOfSeq
  <2>5. InBatch = (Past + 1) .. Upto(batches, batchNo)
    BY <2>1, <2>2, <1>0, <1>1, PartRange DEF InBatch
  <2>6. \A k \in 1 .. Len(Batch) : Batch[k] = Past + k
    BY <2>1, <2>2, <1>0 DEF Parts
  <2>7. Len(Batch) = 1 \/ \A k \in 1 .. Len(Batch) : IsConcurrentSafe(Batch[k])
    BY <2>1, <2>2, <1>0 DEF Parts
  <2>8. ASSUME \A k \in 1 .. Len(Batch) : IsConcurrentSafe(Batch[k])
        PROVE  \A c \in InBatch : IsConcurrentSafe(c)
    BY <2>8, <2>3, LenProperties DEF InBatch, Range
  <2> QED
    BY <2>3, <2>4, <2>5, <2>6, <2>7, <2>8
<1> QED
  BY <1>2, <1>3

\* A call that has begun and has no answer is in the batch in progress, so the
\* partition is made.
LEMMA BegunInBatch ==
  ASSUME BatchInv, NEW c \in Calls, stage[c] \notin Answered \cup {"none"}
  PROVE  c \in InBatch /\ main # "partitions" /\ main # "returned"
<1>1. /\ c \in Nat \ {0} /\ c > Past /\ c =< Upto(batches, batchNo)
  <2>1. kind \in Seq(Kinds) /\ Past \in Nat /\ Upto(batches, batchNo) \in Nat
    BY CurrentBatch DEF BatchInv, BatchTypeOK
  <2>2. c \in Nat \ {0}
    BY <2>1, CallsAre
  <2>3. ~(c =< Past) /\ ~(c > Upto(batches, batchNo))
    BY DEF BatchInv, RunOK
  <2> QED
    BY <2>1, <2>2, <2>3
<1>2. c \in InBatch
  BY <1>1, CurrentBatch DEF BatchInv
<1>3. main # "partitions"
  <2>1. batchNo # 0
    BY <1>1 DEF Upto
  <2> QED
    BY <2>1 DEF BatchInv, CutOK
<1>4. main # "returned"
  BY DEF BatchInv, ReturnsAnswers
<1> QED
  BY <1>2, <1>3, <1>4

\* It holds initially.
LEMMA BatchInitInv == BatchInit => BatchInv
<1> SUFFICES ASSUME BatchInit
             PROVE  BatchInv
  OBVIOUS
<1>1. PICK n \in 0 .. MaxCalls : kind \in [1 .. n -> Kinds]
  BY DEF BatchInit
<1>2. n \in Nat /\ kind \in Seq(Kinds) /\ Len(kind) = n /\ Calls = 1 .. n
  BY <1>1, MaxCallsAssumption DEF Calls
<1>3. /\ placed = 0 /\ open = <<>> /\ batches = <<>> /\ batchNo = 0 /\ asked = {}
      /\ results = <<>> /\ main = "partitions"
      /\ stage = [c \in Calls |-> "none"]
  BY DEF BatchInit
<1>4. Len(batches) = 0 /\ Len(open) = 0 /\ Len(results) = 0
  BY <1>3
<1>5. Upto(batches, 0) = 0 /\ Past = 0
  BY <1>3 DEF Upto, Past
<1>6. InBatch = {}
  BY <1>3 DEF InBatch, Batch, Range
<1>7. Cardinality({c \in InBatch : stage[c] = "running"}) =< Permits
  <2>1. {c \in InBatch : stage[c] = "running"} = {}
    BY <1>6
  <2> QED
    BY <2>1, FS_EmptySet, BatchPermitsAssumption
<1>8. BatchTypeOK
  <2>1. open \in Seq(Calls) /\ batches \in Seq(Seq(Calls)) /\ results \in Seq(Calls)
    BY <1>3, EmptySeq
  <2>2. stage \in [Calls -> CallStages]
    BY <1>3 DEF CallStages
  <2>3. Len(kind) =< MaxCalls /\ placed \in 0 .. Len(kind) /\ batchNo \in 0 .. Len(batches)
    BY <1>2, <1>3, <1>4, MaxCallsAssumption
  <2> QED
    BY <1>2, <1>3, <1>7, <2>1, <2>2, <2>3 DEF BatchTypeOK
<1>9. CutOK
  BY <1>3, <1>4, <1>5 DEF CutOK, Parts
<1>10. RunOK
  BY <1>3, <1>4, <1>5 DEF RunOK
<1> QED
  BY <1>3, <1>8, <1>9, <1>10 DEF BatchInv, ReturnsAnswers

\* Before the first batch nothing is in progress.
LEMMA NoBatchYet ==
  ASSUME batchNo = 0, batches \in Seq(Seq(Calls))
  PROVE  InBatch = {} /\ Cardinality({c \in InBatch : stage[c] = "running"}) =< Permits
<1>1. DOMAIN batches = 1 .. Len(batches) /\ Len(batches) \in Nat
  BY LenProperties
<1>2. Batch = <<>>
  BY <1>1 DEF Batch
<1>3. InBatch = {}
  BY <1>2 DEF InBatch, Range
<1>4. {c \in InBatch : stage[c] = "running"} = {}
  BY <1>3
<1> QED
  BY <1>3, <1>4, FS_EmptySet, BatchPermitsAssumption

\* The same of the state a step leads to.
LEMMA NoBatchYetThen ==
  ASSUME batchNo' = 0, batches' \in Seq(Seq(Calls'))
  PROVE  InBatch' = {} /\ Cardinality({c \in InBatch' : stage'[c] = "running"}) =< Permits
<1>1. DOMAIN batches' = 1 .. Len(batches') /\ Len(batches') \in Nat
  BY LenProperties
<1>2. Batch' = <<>>
  BY <1>1 DEF Batch
<1>3. InBatch' = {}
  BY <1>2 DEF InBatch, Range
<1>4. {c \in InBatch' : stage'[c] = "running"} = {}
  BY <1>3
<1> QED
  BY <1>3, <1>4, FS_EmptySet, BatchPermitsAssumption

\* Each step preserves the invariant.  Walking over a call extends the partition.
LEMMA PlaceStep ==
  ASSUME BatchInv, Place
  PROVE  BatchInv'
<1> DEFINE c == placed + 1
<1>0. /\ BatchTypeOK /\ CutOK /\ RunOK
      /\ kind \in Seq(Kinds) /\ placed \in Nat /\ open \in Seq(Calls)
      /\ batches \in Seq(Seq(Calls)) /\ Len(batches) \in Nat /\ Len(open) \in Nat
  BY CallsAre, LenProperties DEF BatchInv, BatchTypeOK
<1>1. /\ main = "partitions" /\ c \in Calls /\ placed' = c
      /\ kind' = kind /\ batchNo' = batchNo /\ stage' = stage /\ asked' = asked
      /\ results' = results /\ main' = main
  BY DEF Place
<1>2. Calls' = Calls /\ Calls = 1 .. Len(kind) /\ Len(kind) \in Nat /\ Calls \subseteq Nat
  BY <1>0, <1>1, CallsAre DEF Calls
<1>3. batchNo = 0 /\ Past = 0 /\ Past' = 0 /\ Upto(batches, batchNo) = 0
      /\ Upto(batches, batchNo)' = 0
  BY <1>0, <1>1 DEF CutOK, Past, Upto
<1>4. /\ Parts(batches)
      /\ \A k \in 1 .. Len(open) :
           open[k] = Upto(batches, Len(batches)) + k /\ IsConcurrentSafe(open[k])
      /\ placed = Upto(batches, Len(batches)) + Len(open)
  BY <1>0 DEF CutOK
<1>5. \A x : IsConcurrentSafe(x)' = IsConcurrentSafe(x)
  BY <1>1 DEF IsConcurrentSafe
<1>6. \A bs : Parts(bs)' = Parts(bs)
  BY <1>5 DEF Parts
<1>7. /\ open' \in Seq(Calls) /\ batches' \in Seq(Seq(Calls))
      /\ Parts(batches')
      /\ \A k \in 1 .. Len(open') :
           open'[k] = Upto(batches', Len(batches')) + k /\ IsConcurrentSafe(open'[k])
      /\ c = Upto(batches', Len(batches')) + Len(open')
  <2>1. CASE IsConcurrentSafe(c) /\ open' = Append(open, c) /\ UNCHANGED batches
    <3>1. /\ open' \in Seq(Calls) /\ Len(open') = Len(open) + 1
          /\ \A k \in 1 .. Len(open) : open'[k] = open[k]
          /\ open'[Len(open) + 1] = c
      BY <2>1, <1>0, <1>1, AppendProperties
    <3>2. Upto(batches, Len(batches)) \in Nat
      BY <1>0, <1>4, UptoOfBatches
    <3>3. ASSUME NEW k \in 1 .. Len(open')
          PROVE  open'[k] = Upto(batches, Len(batches)) + k /\ IsConcurrentSafe(open'[k])
      <4>1. CASE k = Len(open) + 1
        BY <4>1, <3>1, <3>2, <2>1, <1>0, <1>4
      <4>2. CASE k # Len(open) + 1
        <5>1. k \in 1 .. Len(open)
          BY <4>2, <3>1, <1>0
        <5> QED
          BY <5>1, <3>1, <1>4
      <4> QED
        BY <4>1, <4>2
    <3> QED
      BY <2>1, <3>1, <3>2, <3>3, <1>0, <1>4
  <2>2. CASE ~IsConcurrentSafe(c) /\ batches' = Append(Flushed, <<c>>) /\ open' = <<>>
    <3>1. /\ Flushed \in Seq(Seq(Calls)) /\ Flushed \in Seq(Seq(Nat))
          /\ Parts(Flushed) /\ Upto(Flushed, Len(Flushed)) = placed
      BY <1>0, FlushedParts
    <3>2. /\ <<c>> \in Seq(Nat) /\ <<c>> \in Seq(Calls) /\ <<c>> # <<>>
          /\ Len(<<c>>) = 1 /\ <<c>>[1] = c
      BY <1>1, <1>2
    <3>3. \A k \in 1 .. Len(<<c>>) : <<c>>[k] = Upto(Flushed, Len(Flushed)) + k
      BY <3>1, <3>2
    <3>4. /\ Parts(Append(Flushed, <<c>>))
          /\ Len(Append(Flushed, <<c>>)) = Len(Flushed) + 1
          /\ Upto(Append(Flushed, <<c>>), Len(Flushed) + 1)
               = Upto(Flushed, Len(Flushed)) + Len(<<c>>)
      BY <3>1, <3>2, <3>3, PartAppended
    <3>5. batches' \in Seq(Seq(Calls)) /\ open' \in Seq(Calls) /\ Len(open') = 0
      BY <2>2, <3>1, <3>2, AppendProperties, EmptySeq
    <3>6. Upto(batches', Len(batches')) = c
      BY <2>2, <3>1, <3>2, <3>4
    <3> QED
      BY <2>2, <3>4, <3>5, <3>6, <1>0
  <2> QED
    BY <2>1, <2>2 DEF Place
<1>8. BatchTypeOK'
  <2>1. batches' \in Seq(Seq(Calls')) /\ batchNo' = 0
    BY <1>1, <1>2, <1>3, <1>7
  <2>2. Cardinality({x \in InBatch' : stage'[x] = "running"}) =< Permits
    BY <2>1, NoBatchYetThen
  <2>3. placed' \in 0 .. Len(kind') /\ batchNo' \in 0 .. Len(batches')
    BY <1>0, <1>1, <1>2, <1>7, <2>1, LenProperties
  <2> QED
    BY <1>0, <1>1, <1>2, <1>7, <2>1, <2>2, <2>3 DEF BatchTypeOK
<1>9. CutOK'
  BY <1>1, <1>3, <1>5, <1>6, <1>7 DEF CutOK, Upto
<1>10. RunOK'
  BY <1>0, <1>1, <1>2, <1>3 DEF RunOK
<1>11. ReturnsAnswers'
  BY <1>1 DEF ReturnsAnswers
<1> QED
  BY <1>8, <1>9, <1>10, <1>11 DEF BatchInv

\* Ending the walk makes the partition one of the whole message.
LEMMA EndPartitionStep ==
  ASSUME BatchInv, EndPartition
  PROVE  BatchInv'
<1>0. /\ BatchTypeOK /\ CutOK /\ RunOK
      /\ kind \in Seq(Kinds) /\ Len(kind) \in Nat
  BY CallsAre DEF BatchInv, BatchTypeOK
<1>1. /\ main = "partitions" /\ placed = Len(kind) /\ placed' = placed
      /\ batches' = Flushed /\ open' = <<>> /\ main' = "runs"
      /\ kind' = kind /\ batchNo' = batchNo /\ stage' = stage /\ asked' = asked
      /\ results' = results
  BY DEF EndPartition
<1>2. Calls' = Calls /\ Calls = 1 .. Len(kind) /\ Calls \subseteq Nat
  BY <1>0, <1>1, CallsAre DEF Calls
<1>3. batchNo = 0 /\ Past = 0 /\ Past' = 0 /\ Upto(batches, batchNo) = 0
      /\ Upto(batches, batchNo)' = 0
  BY <1>0, <1>1 DEF CutOK, Past, Upto
<1>4. \A bs : Parts(bs)' = Parts(bs)
  <2>1. \A x : IsConcurrentSafe(x)' = IsConcurrentSafe(x)
    BY <1>1 DEF IsConcurrentSafe
  <2> QED
    BY <2>1 DEF Parts
<1>5. /\ batches' \in Seq(Seq(Calls)) /\ Parts(batches')
      /\ Upto(batches', Len(batches')) = placed
  BY <1>0, <1>1, FlushedParts
<1>6. BatchTypeOK'
  <2>1. batches' \in Seq(Seq(Calls')) /\ batchNo' = 0
    BY <1>1, <1>2, <1>3, <1>5
  <2>2. Cardinality({x \in InBatch' : stage'[x] = "running"}) =< Permits
    BY <2>1, NoBatchYetThen
  <2>3. placed' \in 0 .. Len(kind') /\ batchNo' \in 0 .. Len(batches')
    BY <1>0, <1>1, <2>1, LenProperties
  <2>4. open' \in Seq(Calls')
    BY <1>1, EmptySeq
  <2> QED
    BY <1>0, <1>1, <1>2, <2>1, <2>2, <2>3, <2>4 DEF BatchTypeOK
<1>7. CutOK'
  <2>1. Len(open') = 0
    BY <1>1, EmptySeq
  <2>2. placed' = Upto(batches', Len(batches')) + Len(open')
    BY <1>0, <1>1, <1>5, <2>1
  <2> QED
    BY <1>1, <1>4, <1>5, <2>1, <2>2 DEF CutOK, Upto
<1>8. RunOK'
  BY <1>0, <1>1, <1>2, <1>3 DEF RunOK
<1>9. ReturnsAnswers'
  BY <1>1 DEF ReturnsAnswers
<1> QED
  BY <1>6, <1>7, <1>8, <1>9 DEF BatchInv

\* A step that leaves the partition and the batch in progress alone.
LEMMA SameBatch ==
  ASSUME BatchInv, UNCHANGED <<kind, partVars, batchNo>>,
         main # "partitions", main' # "partitions"
  PROVE  /\ CutOK'
         /\ Calls' = Calls /\ Past' = Past /\ InBatch' = InBatch
         /\ Upto(batches, batchNo)' = Upto(batches, batchNo)
<1>1. /\ kind' = kind /\ placed' = placed /\ open' = open /\ batches' = batches
      /\ batchNo' = batchNo
  BY DEF partVars
<1>2. \A x : IsConcurrentSafe(x)' = IsConcurrentSafe(x)
  BY <1>1 DEF IsConcurrentSafe
<1>3. \A bs, b : Upto(bs, b)' = Upto(bs, b)
  BY DEF Upto
<1>4. Parts(batches)' = Parts(batches)
  BY <1>1, <1>2 DEF Parts, Upto
<1>5. Upto(batches, batchNo)' = Upto(batches, batchNo)
      /\ Upto(batches, Len(batches))' = Upto(batches, Len(batches))
  BY <1>1 DEF Upto
<1>6. CutOK'
  BY <1>1, <1>2, <1>4, <1>5 DEF CutOK, BatchInv
<1>7. Calls' = Calls /\ Past' = Past
  BY <1>1 DEF Calls, Past, Upto
<1>8. InBatch' = InBatch
  BY <1>1 DEF InBatch, Batch
<1> QED
  BY <1>5, <1>6, <1>7, <1>8

\* A call of the batch in progress goes on to another stage.
LEMMA StageStep ==
  ASSUME BatchInv, NEW c \in Calls, stage[c] \notin Answered \cup {"none"},
         NEW to \in CallStages \ {"none"},
         stage' = [stage EXCEPT ![c] = to],
         Cardinality({x \in InBatch : stage'[x] = "running"}) =< Permits,
         UNCHANGED <<kind, partVars, batchNo, asked, results>>,
         main' \in {main, "raised"}
  PROVE  BatchInv'
<1>0. BatchTypeOK /\ CutOK /\ RunOK
  BY DEF BatchInv
<1>1. c \in InBatch /\ main # "partitions" /\ main # "returned"
  BY BegunInBatch
<1>2. main' # "partitions" /\ main' # "returned"
  BY <1>1
<1>3. /\ CutOK'
      /\ Calls' = Calls /\ Past' = Past /\ InBatch' = InBatch
      /\ Upto(batches, batchNo)' = Upto(batches, batchNo)
  BY <1>1, <1>2, SameBatch
<1>4. Past \in Nat /\ Upto(batches, batchNo) \in Nat
      /\ InBatch = (Past + 1) .. Upto(batches, batchNo)
  BY <1>0, CurrentBatch
<1>5. c \in Nat /\ c > Past /\ c =< Upto(batches, batchNo)
  BY <1>1, <1>4
<1>6. stage \in [Calls -> CallStages]
  BY <1>0 DEF BatchTypeOK
<1>7. stage' \in [Calls -> CallStages]
      /\ \A x \in Calls : x # c => stage'[x] = stage[x]
  BY <1>6
<1>8. BatchTypeOK'
  BY <1>0, <1>1, <1>3, <1>7 DEF BatchTypeOK, partVars
<1>9. RunOK'
  <2>1. \A x \in Calls : x =< Past => x # c
    BY <1>4, <1>5
  <2>2. \A x \in Calls : x > Upto(batches, batchNo) => x # c
    BY <1>4, <1>5
  <2> QED
    BY <2>1, <2>2, <1>0, <1>1, <1>3, <1>7 DEF RunOK
<1>10. ReturnsAnswers'
  BY <1>2 DEF ReturnsAnswers
<1> QED
  BY <1>3, <1>8, <1>9, <1>10 DEF BatchInv

\* The calls of the batch in progress that run are finitely many, and a call that
\* stops running or stays out does not add to them.
LEMMA RunningCount ==
  ASSUME BatchInv, NEW c \in Calls, NEW to \in CallStages \ {"running"},
         stage' = [stage EXCEPT ![c] = to]
  PROVE  Cardinality({x \in InBatch : stage'[x] = "running"}) =< Permits
<1> DEFINE R == {x \in InBatch : stage[x] = "running"}
           Q == {x \in InBatch : stage'[x] = "running"}
<1>1. stage \in [Calls -> CallStages] /\ InBatch \subseteq Calls /\ IsFiniteSet(Calls)
      /\ Cardinality(R) =< Permits
  <2>1. Batch \in Seq(Calls) /\ kind \in Seq(Kinds)
    BY CurrentBatch DEF BatchInv, BatchTypeOK
  <2>2. InBatch \subseteq Calls
    BY <2>1, LenProperties, ElementOfSeq DEF InBatch, Range
  <2> QED
    BY <2>1, <2>2, CallsAre DEF BatchInv, BatchTypeOK
<1>2. IsFiniteSet(R) /\ Q \subseteq R
  <2>1. R \subseteq Calls
    BY <1>1
  <2>2. Q \subseteq R
    BY <1>1
  <2> QED
    BY <2>1, <2>2, <1>1, FS_Subset
<1>3. Cardinality(Q) =< Cardinality(R) /\ Cardinality(R) \in Nat /\ Cardinality(Q) \in Nat
  BY <1>2, FS_Subset, FS_CardinalityType
<1> QED
  BY <1>1, <1>3, BatchPermitsAssumption

\* A call takes a permit.
LEMMA EnterStep ==
  ASSUME BatchInv, NEW c \in Calls, Enter(c)
  PROVE  BatchInv'
<1> DEFINE R == {x \in InBatch : stage[x] = "running"}
           Q == {x \in InBatch : stage'[x] = "running"}
<1>1. /\ stage[c] = "queued" /\ PermitLeft /\ stage' = [stage EXCEPT ![c] = "running"]
      /\ UNCHANGED <<kind, partVars, batchNo, asked, results>> /\ main' = main
  BY DEF Enter
<1>2. stage \in [Calls -> CallStages] /\ InBatch \subseteq Calls /\ IsFiniteSet(Calls)
  <2>1. Batch \in Seq(Calls) /\ kind \in Seq(Kinds)
    BY CurrentBatch DEF BatchInv, BatchTypeOK
  <2>2. InBatch \subseteq Calls
    BY <2>1, LenProperties, ElementOfSeq DEF InBatch, Range
  <2> QED
    BY <2>1, <2>2, CallsAre DEF BatchInv, BatchTypeOK
<1>3. IsFiniteSet(R)
  <2>1. R \subseteq Calls
    BY <1>2
  <2> QED
    BY <2>1, <1>2, FS_Subset
<1>4. Cardinality(R) < Permits /\ Cardinality(R) \in Nat
  BY <1>1, <1>3, FS_CardinalityType DEF PermitLeft
<1>5. Q \subseteq R \cup {c}
  BY <1>1, <1>2
<1>6. IsFiniteSet(R \cup {c}) /\ Cardinality(R \cup {c}) =< Cardinality(R) + 1
      /\ Cardinality(R \cup {c}) \in Nat
  <2> HIDE DEF R
  <2>1. /\ IsFiniteSet(R \cup {c})
        /\ Cardinality(R \cup {c}) = IF c \in R THEN Cardinality(R) ELSE Cardinality(R) + 1
    BY <1>3, FS_AddElement
  <2> QED
    BY <2>1, <1>4
<1>7. Cardinality(Q) =< Cardinality(R \cup {c}) /\ Cardinality(Q) \in Nat
  BY <1>5, <1>6, FS_Subset, FS_CardinalityType
<1>8. Cardinality(Q) =< Permits
  BY <1>4, <1>6, <1>7, BatchPermitsAssumption
<1>9. /\ stage[c] \notin Answered \cup {"none"} /\ "running" \in CallStages \ {"none"}
      /\ main' \in {main, "raised"}
  BY <1>1 DEF Answered, CallStages
<1> QED
  BY <1>1, <1>8, <1>9, StageStep

\* A call has its answer.
LEMMA FinishStep ==
  ASSUME BatchInv, NEW c \in Calls, Finish(c)
  PROVE  BatchInv'
<1>1. PICK end \in Answered : stage' = [stage EXCEPT ![c] = end]
  BY DEF Finish
<1>2. /\ stage[c] = "running"
      /\ UNCHANGED <<kind, partVars, batchNo, asked, results>> /\ main' \in {main, "raised"}
  BY DEF Finish
<1>3. /\ end \in CallStages \ {"running"} /\ end \in CallStages \ {"none"}
      /\ stage[c] \notin Answered \cup {"none"}
  BY <1>2 DEF Answered, Ended, CallStages
<1>4. Cardinality({x \in InBatch : stage'[x] = "running"}) =< Permits
  BY <1>1, <1>3, RunningCount
<1> QED
  BY <1>1, <1>2, <1>3, <1>4, StageStep

\* A call ends with CancelledError.
LEMMA CancelledOutStep ==
  ASSUME BatchInv, NEW c \in Calls, CancelledOut(c)
  PROVE  BatchInv'
<1>1. /\ stage[c] \in {"queued", "running"} /\ stage' = [stage EXCEPT ![c] = "cancelled"]
      /\ UNCHANGED <<kind, partVars, batchNo, asked, results>> /\ main' \in {main, "raised"}
  BY DEF CancelledOut
<1>2. /\ "cancelled" \in CallStages \ {"running"} /\ "cancelled" \in CallStages \ {"none"}
      /\ stage[c] \notin Answered \cup {"none"}
  BY <1>1 DEF Answered, Ended, CallStages
<1>3. Cardinality({x \in InBatch : stage'[x] = "running"}) =< Permits
  BY <1>1, <1>2, RunningCount
<1> QED
  BY <1>1, <1>2, <1>3, StageStep

\* Requests to cancel, and the CancelledError that follows when no call is left.
LEMMA AskStep ==
  ASSUME BatchInv, CancelCaller \/ GatherCancelled
  PROVE  BatchInv'
<1>0. BatchTypeOK /\ CutOK /\ RunOK
  BY DEF BatchInv
<1>1. InBatch \subseteq Calls
  <2>1. Batch \in Seq(Calls)
    BY <1>0, CurrentBatch
  <2> QED
    BY <2>1, LenProperties, ElementOfSeq DEF InBatch, Range
<1>2. /\ main = "runs" /\ main' \in {"runs", "raised"} /\ asked' \subseteq Calls
      /\ stage' = stage /\ results' = results
      /\ UNCHANGED <<kind, partVars, batchNo>>
  <2>1. asked \subseteq Calls
    BY <1>0 DEF BatchTypeOK
  <2>2. CASE CancelCaller
    BY <2>1, <2>2, <1>1 DEF CancelCaller
  <2>3. CASE GatherCancelled
    BY <2>1, <2>3 DEF GatherCancelled
  <2> QED
    BY <2>2, <2>3
<1>3. main # "partitions" /\ main' # "partitions" /\ main' # "returned"
  BY <1>2
<1>4. /\ CutOK'
      /\ Calls' = Calls /\ Past' = Past /\ InBatch' = InBatch
      /\ Upto(batches, batchNo)' = Upto(batches, batchNo)
  BY <1>2, <1>3, SameBatch
<1>5. BatchTypeOK'
  BY <1>0, <1>2, <1>4 DEF BatchTypeOK, partVars
<1>6. RunOK'
  BY <1>0, <1>2, <1>4 DEF RunOK
<1>7. ReturnsAnswers'
  BY <1>3 DEF ReturnsAnswers
<1> QED
  BY <1>4, <1>5, <1>6, <1>7 DEF BatchInv

\* When the batch in progress is done, every call up to its last has an answer.
LEMMA DoneSoFar ==
  ASSUME BatchInv, BatchDone
  PROVE  /\ \A c \in Calls : c =< Upto(batches, batchNo) => stage[c] \in Answered
         /\ main # "returned" =>
              /\ results \o Batch \in Seq(Calls)
              /\ Len(results \o Batch) = Upto(batches, batchNo)
              /\ \A k \in 1 .. Upto(batches, batchNo) : (results \o Batch)[k] = k
<1>0. /\ BatchTypeOK /\ CutOK /\ RunOK
      /\ kind \in Seq(Kinds) /\ results \in Seq(Calls)
  BY DEF BatchInv, BatchTypeOK
<1>1. /\ Past \in Nat /\ Upto(batches, batchNo) \in Nat
      /\ Batch \in Seq(Calls)
      /\ Len(Batch) = Upto(batches, batchNo) - Past
      /\ \A k \in 1 .. Len(Batch) : Batch[k] = Past + k
      /\ InBatch = (Past + 1) .. Upto(batches, batchNo)
  BY <1>0, CurrentBatch
<1>2. ASSUME NEW c \in Calls, c =< Upto(batches, batchNo)
      PROVE  stage[c] \in Answered
  <2>1. c \in Nat
    BY <1>0, CallsAre
  <2>2. CASE c =< Past
    BY <2>2, <1>0 DEF RunOK
  <2>3. CASE ~(c =< Past)
    <3>1. c \in InBatch
      BY <2>1, <2>3, <1>1, <1>2
    <3> QED
      BY <3>1 DEF BatchDone
  <2> QED
    BY <2>2, <2>3
<1>3. ASSUME main # "returned"
      PROVE  /\ results \o Batch \in Seq(Calls)
             /\ Len(results \o Batch) = Upto(batches, batchNo)
             /\ \A k \in 1 .. Upto(batches, batchNo) : (results \o Batch)[k] = k
  <2>1. Len(results) = Past /\ \A k \in 1 .. Past : results[k] = k
    BY <1>0, <1>3 DEF RunOK
  <2>2. /\ results \o Batch \in Seq(Calls)
        /\ Len(results \o Batch) = Len(results) + Len(Batch)
        /\ \A k \in 1 .. Len(results) + Len(Batch) :
             (results \o Batch)[k] =
               IF k =< Len(results) THEN results[k] ELSE Batch[k - Len(results)]
    BY <1>0, <1>1, ConcatProperties
  <2>3. Len(results) + Len(Batch) = Upto(batches, batchNo)
    BY <2>1, <1>1
  <2>4. ASSUME NEW k \in 1 .. Upto(batches, batchNo)
        PROVE  (results \o Batch)[k] = k
    <3>1. (results \o Batch)[k] = IF k =< Past THEN results[k] ELSE Batch[k - Past]
      BY <2>1, <2>2, <2>3, <2>4
    <3>2. CASE k =< Past
      BY <3>1, <3>2, <2>1, <1>1
    <3>3. CASE ~(k =< Past)
      <4>1. k - Past \in 1 .. Len(Batch)
        BY <3>3, <1>1
      <4>2. Batch[k - Past] = Past + (k - Past)
        BY <4>1, <1>1
      <4> QED
        BY <3>1, <3>3, <4>2, <1>1
    <3> QED
      BY <3>2, <3>3
  <2> QED
    BY <2>2, <2>3, <2>4
<1> QED
  BY <1>2, <1>3

\* The next batch begins where the last one ended.
LEMMA NextBatchStep ==
  ASSUME BatchInv, NextBatch
  PROVE  BatchInv'
<1> DEFINE n == batchNo + 1
<1>0. /\ BatchTypeOK /\ CutOK /\ RunOK /\ Parts(batches)
      /\ kind \in Seq(Kinds) /\ stage \in [Calls -> CallStages]
      /\ batches \in Seq(Seq(Calls)) /\ batchNo \in 0 .. Len(batches)
  BY DEF BatchInv, BatchTypeOK, CutOK
<1>1. /\ main = "runs" /\ main' = "runs" /\ BatchDone /\ batchNo < Len(batches)
      /\ batchNo' = n /\ results' = results \o Batch /\ asked' = {}
      /\ stage' = [c \in Calls |->
                     IF c \in Range(batches[n]) THEN FirstStage(c) ELSE stage[c]]
      /\ kind' = kind /\ placed' = placed /\ open' = open /\ batches' = batches
  BY DEF NextBatch, partVars
<1>2. /\ batches \in Seq(Seq(Nat)) /\ Len(batches) \in Nat
      /\ DOMAIN batches = 1 .. Len(batches)
      /\ n \in 1 .. Len(batches) /\ n - 1 = batchNo
  <2>1. Calls \subseteq Nat
    BY <1>0, CallsAre
  <2>2. Seq(Calls) \subseteq Seq(Nat)
    BY <2>1, SeqMonotonic
  <2>3. batches \in Seq(Seq(Nat))
    BY <2>2, <1>0, SeqMonotonic
  <2> QED
    BY <2>3, <1>0, <1>1, LenProperties
<1>3. /\ Upto(batches, batchNo) \in Nat /\ Upto(batches, n) \in Nat
      /\ Upto(batches, batchNo) =< Upto(batches, n)
      /\ Range(batches[n]) = (Upto(batches, batchNo) + 1) .. Upto(batches, n)
  <2>1. n \in 0 .. Len(batches) /\ n # 0
    BY <1>2
  <2>2. /\ Upto(batches, n) \in Nat /\ Len(batches[n]) \in Nat
        /\ Upto(batches, n) = Upto(batches, n - 1) + Len(batches[n])
    BY <2>1, <1>0, <1>2, UptoType
  <2>3. Upto(batches, batchNo) \in Nat
    BY <1>0, CurrentBatch
  <2>4. Range(batches[n]) = (Upto(batches, n - 1) + 1) .. Upto(batches, n)
    BY <1>0, <1>2, PartRange
  <2> QED
    BY <2>2, <2>3, <2>4, <1>2
<1>4. /\ Calls' = Calls /\ Calls \subseteq Nat
      /\ Past' = Upto(batches, batchNo) /\ Upto(batches, batchNo)' = Upto(batches, n)
      /\ Batch' = batches[n] /\ InBatch' = Range(batches[n])
  <2>1. Calls' = Calls /\ Calls \subseteq Nat
    BY <1>0, <1>1, CallsAre DEF Calls
  <2>2. Past' = Upto(batches', batchNo' - 1)
    BY <1>1, <1>2 DEF Past, Upto
  <2>3. Past' = Upto(batches, batchNo)
    BY <2>2, <1>1, <1>2
  <2>4. Batch' = batches[n]
    BY <1>1, <1>2 DEF Batch
  <2>5. Upto(batches, batchNo)' = Upto(batches, n)
    BY <1>1 DEF Upto
  <2> QED
    BY <2>1, <2>3, <2>4, <2>5 DEF InBatch
<1>5. \A x : IsConcurrentSafe(x)' = IsConcurrentSafe(x)
  BY <1>1 DEF IsConcurrentSafe
<1>6. CutOK'
  <2>1. Parts(batches)' /\ Upto(batches, Len(batches))' = Upto(batches, Len(batches))
    BY <1>0, <1>1, <1>5 DEF Parts, Upto
  <2> QED
    BY <2>1, <1>0, <1>1, <1>5 DEF CutOK
<1>7. stage' \in [Calls -> CallStages]
  <2>1. ASSUME NEW c \in Calls PROVE FirstStage(c) \in CallStages
    <3>1. kind[c] \in Kinds
      BY <1>0, CallsAre, ElementOfSeq
    <3> QED
      BY <3>1 DEF FirstStage, Kinds, CallStages, Ended, Answered
  <2> QED
    BY <2>1, <1>0, <1>1
<1>8. /\ \A c \in Calls : c =< Upto(batches, batchNo) => stage[c] \in Answered
      /\ results \o Batch \in Seq(Calls)
      /\ Len(results \o Batch) = Upto(batches, batchNo)
      /\ \A k \in 1 .. Upto(batches, batchNo) : (results \o Batch)[k] = k
  BY <1>1, DoneSoFar
<1>9. RunOK'
  <2>1. ASSUME NEW c \in Calls, c =< Upto(batches, batchNo)
        PROVE  stage'[c] \in Answered
    <3>1. c \notin Range(batches[n])
      BY <2>1, <1>3, <1>4
    <3> QED
      BY <3>1, <2>1, <1>1, <1>8
  <2>2. ASSUME NEW c \in Calls, c > Upto(batches, n)
        PROVE  stage'[c] = "none"
    <3>1. c \notin Range(batches[n]) /\ c > Upto(batches, batchNo)
      BY <2>2, <1>3, <1>4
    <3> QED
      BY <3>1, <1>0, <1>1 DEF RunOK
  <2> QED
    BY <2>1, <2>2, <1>1, <1>4, <1>8 DEF RunOK
<1>10. Cardinality({x \in InBatch' : stage'[x] = "running"}) =< Permits
  <2> DEFINE Q == {x \in InBatch' : stage'[x] = "running"}
  <2>1. Len(batches[n]) = 1 \/ \A k \in 1 .. Len(batches[n]) : IsConcurrentSafe(batches[n][k])
    BY <1>0, <1>2 DEF Parts
  <2>2. batches[n] \in Seq(Calls)
    BY <1>0, <1>2, ElementOfSeq
  <2>3. DOMAIN batches[n] = 1 .. Len(batches[n]) /\ Range(batches[n]) \subseteq Calls
    BY <2>2, LenProperties, ElementOfSeq DEF Range
  <2>4. CASE Len(batches[n]) = 1
    <3>1. Range(batches[n]) = {batches[n][1]}
      BY <2>3, <2>4 DEF Range
    <3>2. Q \subseteq {batches[n][1]}
      BY <3>1, <1>4
    <3>3. IsFiniteSet({batches[n][1]}) /\ Cardinality({batches[n][1]}) = 1
      BY FS_Singleton
    <3>4. Cardinality(Q) =< 1 /\ Cardinality(Q) \in Nat
      BY <3>2, <3>3, FS_Subset, FS_CardinalityType
    <3> QED
      BY <3>4, BatchPermitsAssumption
  <2>5. CASE \A k \in 1 .. Len(batches[n]) : IsConcurrentSafe(batches[n][k])
    <3>1. \A c \in Range(batches[n]) : kind[c] = "safe"
      BY <2>3, <2>5 DEF Range, IsConcurrentSafe
    <3>2. \A c \in Range(batches[n]) : stage'[c] = "queued"
      BY <3>1, <2>3, <1>1 DEF FirstStage
    <3>3. Q = {}
      BY <3>2, <1>4
    <3> QED
      BY <3>3, FS_EmptySet, BatchPermitsAssumption
  <2> QED
    BY <2>1, <2>4, <2>5
<1>11. BatchTypeOK'
  <2>1. batchNo' \in 0 .. Len(batches')
    BY <1>1, <1>2
  <2> QED
    BY <2>1, <1>0, <1>1, <1>4, <1>7, <1>8, <1>10 DEF BatchTypeOK
<1>12. ReturnsAnswers'
  BY <1>1 DEF ReturnsAnswers
<1> QED
  BY <1>6, <1>9, <1>11, <1>12 DEF BatchInv

\* Sorting a sequence of calls keeps its length and its calls.
LEMMA SortKeeps ==
  ASSUME NEW S, NEW s \in Seq(S), NEW r \in SortedById(s)
  PROVE  r \in Seq(S) /\ Len(r) = Len(s) /\ Range(r) = Range(s)
<1>1. DOMAIN s = 1 .. Len(s) /\ Len(s) \in Nat /\ \A k \in DOMAIN s : s[k] \in S
  BY LenProperties, ElementOfSeq
<1>2. PICK p \in Bijection(DOMAIN s, DOMAIN s) : r = [k \in DOMAIN s |-> s[p[k]]]
  BY DEF SortedById
<1>3. /\ p \in [DOMAIN s -> DOMAIN s]
      /\ \A l \in DOMAIN s : \E k \in DOMAIN s : p[k] = l
  BY <1>2 DEF Bijection, Injection, Surjection
<1>4. r \in [1 .. Len(s) -> S]
  BY <1>1, <1>2, <1>3
<1>5. r \in Seq(S) /\ Len(r) = Len(s)
  BY <1>1, <1>4
<1>6. Range(r) = Range(s)
  BY <1>2, <1>3 DEF Range
<1> QED
  BY <1>5, <1>6

\* The results of all batches, sorted, are returned.
LEMMA ReturnStep ==
  ASSUME BatchInv, Return
  PROVE  BatchInv'
<1> DEFINE s == results \o Batch
<1>0. /\ BatchTypeOK /\ CutOK /\ RunOK
      /\ kind \in Seq(Kinds) /\ batches \in Seq(Seq(Calls))
  BY DEF BatchInv, BatchTypeOK
<1>1. /\ main = "runs" /\ main' = "returned" /\ BatchDone /\ batchNo = Len(batches)
      /\ results' \in SortedById(s)
      /\ stage' = stage /\ asked' = asked
      /\ UNCHANGED <<kind, partVars, batchNo>>
  BY DEF Return
<1>2. main # "partitions" /\ main' # "partitions"
  BY <1>1
<1>3. /\ CutOK'
      /\ Calls' = Calls /\ Past' = Past /\ InBatch' = InBatch
      /\ Upto(batches, batchNo)' = Upto(batches, batchNo)
  BY <1>1, <1>2, SameBatch
<1>4. Upto(batches, batchNo) = Len(kind) /\ Len(kind) \in Nat /\ Calls = 1 .. Len(kind)
  <2>1. open = <<>> /\ placed = Len(kind)
    BY <1>0, <1>2 DEF CutOK
  <2>2. Len(open) = 0
    BY <2>1, EmptySeq
  <2>3. placed = Upto(batches, Len(batches)) + Len(open) /\ Parts(batches)
    BY <1>0 DEF CutOK
  <2>4. Upto(batches, Len(batches)) \in Nat
    BY <2>3, <1>0, UptoOfBatches
  <2> QED
    BY <2>1, <2>2, <2>3, <2>4, <1>0, <1>1, CallsAre
<1>5. /\ \A c \in Calls : c =< Upto(batches, batchNo) => stage[c] \in Answered
      /\ s \in Seq(Calls) /\ Len(s) = Len(kind)
      /\ \A k \in 1 .. Len(kind) : s[k] = k
  BY <1>1, <1>4, DoneSoFar
<1>6. results' \in Seq(Calls) /\ Len(results') = Len(kind) /\ Range(results') = Calls
  <2> HIDE DEF s
  <2>1. DOMAIN s = 1 .. Len(kind)
    BY <1>5, LenProperties
  <2>2. Range(s) = Calls
    BY <2>1, <1>4, <1>5 DEF Range
  <2> QED
    BY <2>2, <1>1, <1>5, SortKeeps
<1>7. BatchTypeOK'
  BY <1>0, <1>1, <1>3, <1>6 DEF BatchTypeOK, partVars
<1>8. RunOK'
  BY <1>0, <1>1, <1>3 DEF RunOK
<1>9. ReturnsAnswers'
  <2>1. \A c \in Calls : stage[c] \in Answered
    BY <1>4, <1>5
  <2>2. Len(kind') = Len(kind)
    BY <1>1
  <2> QED
    BY <2>1, <2>2, <1>1, <1>3, <1>6 DEF ReturnsAnswers
<1> QED
  BY <1>3, <1>7, <1>8, <1>9 DEF BatchInv

\* Every step preserves the invariant.
LEMMA BatchStep == BatchInv /\ [BatchNext]_batchVars => BatchInv'
<1> SUFFICES ASSUME BatchInv, [BatchNext]_batchVars
             PROVE  BatchInv'
  OBVIOUS
<1>1. CASE Place
  BY <1>1, PlaceStep
<1>2. CASE EndPartition
  BY <1>2, EndPartitionStep
<1>3. CASE NextBatch
  BY <1>3, NextBatchStep
<1>4. CASE Return
  BY <1>4, ReturnStep
<1>5. CASE CancelCaller \/ GatherCancelled
  BY <1>5, AskStep
<1>6. ASSUME NEW c \in Calls, Enter(c) \/ Finish(c) \/ CancelledOut(c)
      PROVE  BatchInv'
  BY <1>6, EnterStep, FinishStep, CancelledOutStep
<1>7. CASE UNCHANGED batchVars
  <2>1. /\ kind' = kind /\ placed' = placed /\ open' = open /\ batches' = batches
        /\ batchNo' = batchNo /\ stage' = stage /\ asked' = asked /\ results' = results
        /\ main' = main
    BY <1>7 DEF batchVars, partVars
  <2>2. Calls' = Calls /\ InBatch' = InBatch /\ Past' = Past
    BY <2>1 DEF Calls, InBatch, Batch, Past, Upto
  <2>3. BatchTypeOK'
    BY <2>1, <2>2 DEF BatchInv, BatchTypeOK
  <2>4. CutOK'
    BY <2>1 DEF BatchInv, CutOK, Parts, Upto, IsConcurrentSafe
  <2>5. RunOK' /\ ReturnsAnswers'
    BY <2>1, <2>2 DEF BatchInv, RunOK, ReturnsAnswers, Upto
  <2> QED
    BY <2>3, <2>4, <2>5 DEF BatchInv
<1> QED
  BY <1>1, <1>2, <1>3, <1>4, <1>5, <1>6, <1>7 DEF BatchNext

\* It holds throughout.
LEMMA BatchAlways == BatchSpec => []BatchInv
  BY BatchInitInv, BatchStep, PTL DEF BatchSpec

\* Two calls of one batch are both safe, and the batches before it are done.
LEMMA InvBarrier == BatchInv => ExclusiveIsBarrier
<1> SUFFICES ASSUME BatchInv, NEW i \in Calls, NEW j \in Calls, i < j,
                    ~IsConcurrentSafe(i) \/ ~IsConcurrentSafe(j), stage[j] # "none"
             PROVE  stage[i] \in Ended
  BY DEF ExclusiveIsBarrier
<1>1. /\ BatchTypeOK /\ CutOK /\ RunOK /\ Calls \subseteq Nat
  BY CallsAre DEF BatchInv, BatchTypeOK
<1>2. /\ Past \in Nat /\ Upto(batches, batchNo) \in Nat
      /\ Len(Batch) = Upto(batches, batchNo) - Past
      /\ InBatch = (Past + 1) .. Upto(batches, batchNo)
      /\ Len(Batch) =< 1 \/ \A c \in InBatch : IsConcurrentSafe(c)
  BY <1>1, CurrentBatch
<1>3. ~(j > Upto(batches, batchNo))
  BY <1>1 DEF RunOK
<1>4. i =< Past
  <2> SUFFICES ASSUME ~(i =< Past)
               PROVE  FALSE
    OBVIOUS
  <2>1. i \in InBatch /\ j \in InBatch /\ Len(Batch) > 1
    BY <1>1, <1>2, <1>3
  <2> QED
    BY <2>1, <1>2
<1> QED
  BY <1>1, <1>4 DEF RunOK, Ended

\* The variables of execute_batch keep their types, and never do more calls of a
\* batch run than its semaphore has permits.
THEOREM BatchTypesHold == BatchSpec => []BatchTypeOK
<1>1. BatchInv => BatchTypeOK
  BY DEF BatchInv
<1> QED
  BY <1>1, BatchAlways, PTL

\* An exclusive call is a barrier: it starts after all that come before it in the
\* message have ended, and all that come after it start when it has.
THEOREM ExclusiveIsABarrier == BatchSpec => []ExclusiveIsBarrier
  BY InvBarrier, BatchAlways, PTL

\* What execute_batch returns has one result for each call of the message.
THEOREM BatchReturnsAnswers == BatchSpec => []ReturnsAnswers
<1>1. BatchInv => ReturnsAnswers
  BY DEF BatchInv
<1> QED
  BY <1>1, BatchAlways, PTL

=============================================================================
