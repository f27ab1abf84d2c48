------------------------ MODULE ToolExecutor_proofs ------------------------
(***************************************************************************)
(* Theorems about ToolExecutor: what holds for every response, whatever    *)
(* its calls are.                                                          *)
(***************************************************************************)
EXTENDS ToolExecutor, FiniteSetTheorems, SequenceTheorems, WellFoundedInduction, TLAPS

(* The inductive invariant, part by part.                                  *)

Statuses == {"absent", "queued", "executing", "completed", "yielded"}

\* The calls ks are what their slots allow, and one without a definition never
\* runs.
KindsOK(ks, st) ==
  /\ ks \in Seq(KindType) /\ Len(ks) =< MaxTools
  /\ st \in [Slots -> Statuses]
  /\ \A i \in Slots : st[i] = "absent" <=> i \notin DOMAIN ks
  /\ \A i \in DOMAIN ks :
       /\ ks[i] \in Kinds[i]
       /\ ~ks[i].known => st[i] \in {"completed", "yielded"}

\* An exclusive tool executes alone.
AloneOK(ks, st) ==
  \A i, j \in DOMAIN ks :
    st[i] = "executing" /\ ~ks[i].safe /\ st[j] = "executing" => i = j

Started(ks, st, i) == ks[i].known /\ st[i] \in {"executing", "completed", "yielded"}

\* What has started was received after no exclusive tool that has not ended.
OrderOK(ks, st) ==
  \A i, j \in DOMAIN ks :
    i < j /\ ~ks[i].safe /\ Started(ks, st, j) => st[i] \in {"completed", "yielded"}

CallsOK(ks, st) == KindsOK(ks, st) /\ AloneOK(ks, st) /\ OrderOK(ks, st)

\* A pass that goes on at n has left no exclusive tool in the queue behind it.
PassAt(ks, st, n) ==
  /\ n =< Len(ks) + 1
  /\ \A i \in DOMAIN ks : i < n /\ st[i] = "queued" => ks[i].safe

PassOK == \A p \in Passes : pass[p] # 0 => PassAt(kinds, status, pass[p])

\* Only a tool that has started reports progress.
ProgressOK == \A i \in Slots : progress[i] > 0 => i \in Added /\ Started(kinds, status, i)

YieldedOK ==
  \A i \in Slots : status[i] = "yielded" => \E m \in DOMAIN delivered : delivered[m] = i

\* Some missing call between i and j was yielded.
Passed(i, j) ==
  \E m \in DOMAIN delivered :
    i < delivered[m] /\ delivered[m] < j /\ ~kinds[delivered[m]].known

\* A scan has gone past an exclusive tool that is not yielded only for a missing
\* call behind it.
ScanOK ==
  consumer \in {"streamScan", "scan"} =>
    /\ 0 < scan
    /\ \A i \in Added : i < scan => kinds[i].safe \/ status[i] = "yielded" \/ Passed(i, scan)

\* The executor is discarded just when the query loop has dropped it.
DiscardOK == discarded <=> consumer = "dropped"

\* While the messages of a tool that has ended are consumed no other tool ends.
SoleSettled ==
  \A i, j \in Slots : body[i] = "settled" /\ j # i => body[j] # "settled" /\ updates[j] = <<>>

\* Only a tool that executes has messages to consume.
UpdatesOK == \A i \in Slots : body[i] = "none" => updates[i] = <<>>

\* The messages u of a tool that has ended: its answer is still to come.
AnswerToCome(u) ==
  \E m \in DOMAIN u :
    /\ \A l \in 1..(m - 1) : u[l] = "progress"
    /\ u[m] \in {"ok", "error"}
    /\ Len(u) = m \/ (Len(u) = m + 1 /\ u[m + 1] = "note")

\* The messages r of a tool: its answer first, and no other.
OneAnswer(r) == r # <<>> /\ r[1] \in Answers /\ \A n \in 2..Len(r) : r[n] \notin Answers

\* A tool that has not ended has no answer; one that has ended has its own, or it
\* is still to come.  One that succeeded is not to be cancelled.
AnswerAt(i) ==
  /\ status[i] \in {"absent", "queued"} => results[i] = <<>> /\ ~errored[i]
  /\ body[i] = "io" =>
       /\ results[i] = <<>> /\ ~errored[i]
       /\ \A n \in DOMAIN updates[i] : updates[i][n] = "progress"
  /\ body[i] = "settled" =>
       \/ results[i] = <<>> /\ ~errored[i] /\ AnswerToCome(updates[i])
       \/ /\ OneAnswer(results[i])
          /\ updates[i] \in {<<>>, <<"note">>}
          /\ updates[i] # <<>> /\ ~errored[i] => AbortReason(kinds[i]) = "none"
  /\ status[i] \in {"completed", "yielded"} => OneAnswer(results[i])

AnswersOK == ~discarded => \A i \in Slots : AnswerAt(i)

OrderInv ==
  /\ TypeOK /\ CallsOK(kinds, status) /\ PassOK /\ InterruptibleIsAccurate
  /\ ProgressOK /\ YieldedOK /\ ScanOK /\ ExclusiveYieldedFirst

AnswerInv == DiscardOK /\ SoleSettled /\ UpdatesOK /\ AnswersOK

IInv == OrderInv /\ AnswerInv
-----------------------------------------------------------------------------
(* The calls and the passes over them.                                     *)

LEMMA FirstIsLeast ==
  ASSUME NEW S \in SUBSET Nat, S # {}
  PROVE  First(S) \in S /\ \A j \in S : First(S) =< j
<1>1. IsWellFoundedOn(OpToRel(<, Nat), Nat)
  BY NatLessThanWellFounded
<1>2. PICK x \in S : \A y \in S : ~(<<y, x>> \in OpToRel(<, Nat))
  BY <1>1, WFMin
<1>3. \A y \in S : ~(y < x)
  BY <1>2 DEF OpToRel
<1>4. \A y \in S : x =< y
  BY <1>3
<1> QED
  BY <1>4 DEF First

LEMMA SlotKinds ==
  ASSUME NEW i \in Slots, NEW k \in Kinds[i]
  PROVE  k \in KindType /\ (~k.known => k.safe) /\ (k.quick => ~k.safe)
  BY KindsAssumption DEF Slots

LEMMA CallFacts ==
  ASSUME NEW ks, NEW st, KindsOK(ks, st)
  PROVE  /\ DOMAIN ks = 1..Len(ks) /\ Len(ks) \in Nat
         /\ DOMAIN ks \subseteq Slots
         /\ \A i \in DOMAIN ks : /\ ks[i] \in KindType /\ st[i] \in Statuses \ {"absent"}
                                 /\ ~ks[i].known => ks[i].safe
                                 /\ ks[i].quick => ~ks[i].safe
<1>1. ks \in Seq(KindType)
  BY DEF KindsOK
<1>2. DOMAIN ks = 1..Len(ks) /\ Len(ks) \in Nat
  BY <1>1, LenProperties
<1>3. DOMAIN ks \subseteq Slots
  BY <1>2, BoundsAssumption DEF KindsOK, Slots
<1> QED
  BY <1>2, <1>3, SlotKinds DEF KindsOK

\* What a pass starts is queued and may execute, and no exclusive tool waits
\* between where the pass went on and it.
LEMMA NextStartFacts ==
  ASSUME NEW ks, NEW st, KindsOK(ks, st), NEW n \in Nat \ {0}, NextStart(ks, st, n) # 0
  PROVE  LET i == NextStart(ks, st, n) IN
         /\ i \in DOMAIN ks /\ n =< i /\ st[i] = "queued"
         /\ CanExecute(ks, st, i)
         /\ \A j \in DOMAIN ks : n =< j /\ j < i /\ st[j] = "queued" => ks[j].safe
<1> DEFINE queued == {i \in n..Len(ks) : st[i] = "queued"}
           able == {i \in queued : CanExecute(ks, st, i)}
           stops == able \cup {i \in queued : ~ks[i].safe}
<1>1. DOMAIN ks = 1..Len(ks) /\ Len(ks) \in Nat
  BY CallFacts
<1>2. stops # {} /\ First(stops) \in able /\ NextStart(ks, st, n) = First(stops)
  BY DEF NextStart
<1>3. stops \in SUBSET Nat
  BY <1>1
<1>4. \A j \in stops : First(stops) =< j
  BY <1>2, <1>3, FirstIsLeast
<1>5. First(stops) \in n..Len(ks) /\ st[First(stops)] = "queued" /\ CanExecute(ks, st, First(stops))
  BY <1>2
<1>6. ASSUME NEW j \in DOMAIN ks, n =< j, j < First(stops), st[j] = "queued"
      PROVE  ks[j].safe
  <2>1. j \notin stops
    BY <1>1, <1>4, <1>5, <1>6
  <2>2. j \in queued
    BY <1>1, <1>6
  <2> QED
    BY <2>1, <2>2
<1> QED
  BY <1>1, <1>2, <1>5, <1>6

\* A start keeps the calls in order.
LEMMA StartOK ==
  ASSUME NEW ks, NEW st, CallsOK(ks, st), NEW n \in Nat \ {0}, PassAt(ks, st, n),
         NextStart(ks, st, n) # 0, NEW s \in {"executing", "completed"}
  PROVE  LET i == NextStart(ks, st, n) IN
         /\ i \in DOMAIN ks /\ st[i] = "queued" /\ i \in Slots
         /\ CallsOK(ks, [st EXCEPT ![i] = s])
         /\ PassAt(ks, [st EXCEPT ![i] = s], i + 1)
<1> DEFINE i == NextStart(ks, st, n)
           su == [st EXCEPT ![i] = s]
<1>1. /\ i \in DOMAIN ks /\ n =< i /\ st[i] = "queued"
      /\ CanExecute(ks, st, i)
      /\ \A j \in DOMAIN ks : n =< j /\ j < i /\ st[j] = "queued" => ks[j].safe
  BY NextStartFacts DEF CallsOK
<1>2. /\ DOMAIN ks = 1..Len(ks) /\ Len(ks) \in Nat /\ DOMAIN ks \subseteq Slots
      /\ \A j \in DOMAIN ks : ks[j] \in KindType /\ st[j] \in Statuses \ {"absent"}
  BY CallFacts DEF CallsOK
<1>3. st \in [Slots -> Statuses] /\ i \in Slots
  BY <1>1, <1>2 DEF CallsOK, KindsOK
<1> HIDE DEF i
<1>4. su \in [Slots -> Statuses] /\ su[i] = s /\ \A j \in Slots : j # i => su[j] = st[j]
  BY <1>3 DEF Statuses
<1>5. \A j \in DOMAIN ks : j < i /\ st[j] = "queued" => ks[j].safe
  <2> SUFFICES ASSUME NEW j \in DOMAIN ks, j < i, st[j] = "queued" PROVE ks[j].safe
    OBVIOUS
  <2>1. CASE j < n
    BY <2>1 DEF PassAt
  <2>2. CASE n =< j
    BY <2>2, <1>1
  <2> QED
    BY <2>1, <2>2, <1>2
<1>6. ASSUME NEW j \in DOMAIN ks, st[j] = "executing"
      PROVE  ks[i].safe /\ ks[j].safe
  BY <1>1, <1>6 DEF CanExecute
<1>7. KindsOK(ks, su)
  <2>1. ks[i].known
    BY <1>1 DEF CallsOK, KindsOK
  <2> QED
    BY <1>1, <1>2, <1>3, <1>4, <2>1 DEF CallsOK, KindsOK
<1> HIDE DEF su
<1>8. AloneOK(ks, su)
  BY <1>1, <1>2, <1>4, <1>6 DEF CallsOK, AloneOK
<1>9. OrderOK(ks, su)
  <2> SUFFICES ASSUME NEW j \in DOMAIN ks, NEW l \in DOMAIN ks,
                      j < l, ~ks[j].safe, Started(ks, su, l)
               PROVE  su[j] \in {"completed", "yielded"}
    BY DEF OrderOK
  <2>1. CASE l = i
    <3>1. j # i /\ su[j] = st[j] /\ st[j] # "queued" /\ st[j] # "executing"
      BY <2>1, <1>2, <1>4, <1>5, <1>6
    <3> QED
      BY <3>1, <1>2 DEF Statuses
  <2>2. CASE l # i
    <3>1. Started(ks, st, l)
      BY <2>2, <1>2, <1>4 DEF Started
    <3>2. st[j] \in {"completed", "yielded"}
      BY <3>1 DEF CallsOK, OrderOK
    <3> QED
      BY <3>2, <1>1, <1>2, <1>4
  <2> QED
    BY <2>1, <2>2
<1>10. PassAt(ks, su, i + 1)
  <2>1. \A j \in DOMAIN ks : j < i + 1 => j = i \/ j < i
    BY <1>1, <1>2
  <2> QED
    BY <1>1, <1>2, <1>4, <1>5, <2>1 DEF PassAt
<1> QED
  BY <1>1, <1>3, <1>7, <1>8, <1>9, <1>10 DEF CallsOK, su, i
\* So does the end of a tool, and that it is yielded.
LEMMA EndOK ==
  ASSUME NEW ks, NEW st, CallsOK(ks, st), NEW i \in DOMAIN ks,
         NEW s \in {"completed", "yielded"}, st[i] \notin {"absent", "queued"}
  PROVE  /\ CallsOK(ks, [st EXCEPT ![i] = s])
         /\ \A n \in Nat : PassAt(ks, st, n) => PassAt(ks, [st EXCEPT ![i] = s], n)
<1> DEFINE su == [st EXCEPT ![i] = s]
<1>1. DOMAIN ks \subseteq Slots
  BY CallFacts DEF CallsOK
<1>2. st \in [Slots -> Statuses]
  BY DEF CallsOK, KindsOK
<1>3. su \in [Slots -> Statuses] /\ su[i] = s /\ \A j \in Slots : j # i => su[j] = st[j]
  BY <1>1, <1>2 DEF Statuses
<1> HIDE DEF su
<1>4. KindsOK(ks, su)
  BY <1>1, <1>3 DEF CallsOK, KindsOK
<1>5. AloneOK(ks, su)
  BY <1>1, <1>3 DEF CallsOK, AloneOK
<1>6. \A j \in DOMAIN ks : Started(ks, su, j) => Started(ks, st, j)
  BY <1>1, <1>2, <1>3 DEF Started, Statuses
<1>7. OrderOK(ks, su)
  BY <1>1, <1>3, <1>6 DEF CallsOK, OrderOK
<1>8. \A n \in Nat : PassAt(ks, st, n) => PassAt(ks, su, n)
  BY <1>1, <1>3 DEF PassAt
<1> QED
  BY <1>4, <1>5, <1>7, <1>8 DEF CallsOK, su

\* The calls ks with statuses st become kn with statuses su: i is new and the last.
Grows(ks, st, i, kn, su) ==
  /\ CallsOK(kn, su)
  /\ \A n \in Nat : PassAt(ks, st, n) => PassAt(kn, su, n)
  /\ DOMAIN kn = DOMAIN ks \cup {i} /\ i \notin DOMAIN ks
  /\ \A j \in DOMAIN ks : kn[j] = ks[j]
  /\ Len(kn) = i /\ kn \in Seq(KindType)

\* So does a new call, which no pass has gone past.
LEMMA AddOK ==
  ASSUME NEW ks, NEW st, CallsOK(ks, st), NEW i, i = Len(ks) + 1, i \in Slots,
         NEW k \in Kinds[i], NEW s \in {"queued", "completed"}, s = "completed" <=> ~k.known,
         NEW kn, kn = Append(ks, k), NEW su, su = [st EXCEPT ![i] = s]
  PROVE  Grows(ks, st, i, kn, su)
<1>1. DOMAIN ks = 1..Len(ks) /\ Len(ks) \in Nat /\ DOMAIN ks \subseteq Slots
  BY CallFacts DEF CallsOK
<1>2. ks \in Seq(KindType) /\ st \in [Slots -> Statuses] /\ st[i] = "absent"
  BY <1>1 DEF CallsOK, KindsOK
<1>3. k \in KindType /\ (~k.known => k.safe)
  BY SlotKinds
<1>4. su \in [Slots -> Statuses] /\ su[i] = s /\ \A j \in Slots : j # i => su[j] = st[j]
  BY <1>2 DEF Statuses
<1>5. /\ kn \in Seq(KindType) /\ Len(kn) = i
      /\ kn[i] = k /\ \A j \in 1..Len(ks) : kn[j] = ks[j]
  BY <1>1, <1>2, <1>3, AppendProperties
<1>6. DOMAIN kn = 1..i
  BY <1>5, LenProperties
<1>7. DOMAIN kn = DOMAIN ks \cup {i} /\ i \notin DOMAIN ks
  BY <1>1, <1>6
<1>8. \A j \in DOMAIN ks : kn[j] = ks[j] /\ su[j] = st[j] /\ j < i
  BY <1>1, <1>4, <1>5
<1>9. KindsOK(kn, su)
  <2>1. Len(kn) =< MaxTools
    BY <1>5, BoundsAssumption DEF Slots
  <2>2. \A j \in Slots : su[j] = "absent" <=> j \notin DOMAIN kn
    BY <1>4, <1>7 DEF CallsOK, KindsOK
  <2>3. \A j \in DOMAIN kn :
          kn[j] \in Kinds[j] /\ (~kn[j].known => su[j] \in {"completed", "yielded"})
    <3> SUFFICES ASSUME NEW j \in DOMAIN kn
                 PROVE  kn[j] \in Kinds[j] /\ (~kn[j].known => su[j] \in {"completed", "yielded"})
      OBVIOUS
    <3>1. CASE j = i
      BY <3>1, <1>4, <1>5
    <3>2. CASE j \in DOMAIN ks
      BY <3>2, <1>8 DEF CallsOK, KindsOK
    <3> QED
      BY <3>1, <3>2, <1>7
  <2> QED
    BY <1>4, <1>5, <2>1, <2>2, <2>3 DEF KindsOK
<1>10. su[i] # "executing" /\ ~Started(kn, su, i)
  BY <1>4, <1>5 DEF Started
<1>11. AloneOK(kn, su)
  BY <1>7, <1>8, <1>10 DEF CallsOK, AloneOK
<1>12. \A j \in DOMAIN ks : Started(kn, su, j) <=> Started(ks, st, j)
  BY <1>8 DEF Started
<1>13. OrderOK(kn, su)
  <2> SUFFICES ASSUME NEW a \in DOMAIN kn, NEW b \in DOMAIN kn,
                      a < b, ~kn[a].safe, Started(kn, su, b)
               PROVE  su[a] \in {"completed", "yielded"}
    BY DEF OrderOK
  <2>1. b \in DOMAIN ks /\ a # i
    BY <1>1, <1>6, <1>7, <1>8, <1>10
  <2> QED
    BY <2>1, <1>7, <1>8, <1>12 DEF CallsOK, OrderOK
<1>14. \A n \in Nat : PassAt(ks, st, n) => PassAt(kn, su, n)
  <2> SUFFICES ASSUME NEW n \in Nat, PassAt(ks, st, n) PROVE PassAt(kn, su, n)
    OBVIOUS
  <2>1. n =< i /\ n =< Len(kn) + 1
    BY <1>1, <1>5 DEF PassAt
  <2> QED
    BY <2>1, <1>1, <1>7, <1>8 DEF PassAt
<1> QED
  BY <1>5, <1>7, <1>8, <1>9, <1>11, <1>13, <1>14 DEF CallsOK, Grows
PassesOK(ks, st) ==
  /\ pass \in [Passes -> 0..(MaxTools + 1)]
  /\ \A p \in Passes : pass[p] # 0 => PassAt(ks, st, pass[p])

\* Pass starts the queued tool i of ks, or completes it in its place.
Starts(i, s, ks, st) ==
  /\ i \in DOMAIN ks /\ st[i] = "queued" /\ s \in {"executing", "completed"}
  /\ status' = [st EXCEPT ![i] = s]
  /\ s = "executing" => body' = [body EXCEPT ![i] = "io"] /\ UNCHANGED results
  /\ s = "completed" => /\ AbortReason(ks[i]) # "none"
                        /\ results' = [results EXCEPT ![i] = <<AbortReason(ks[i])>>]
                        /\ UNCHANGED body

\* A pass ends or starts a tool, and leaves calls and passes in order.
LEMMA RunPassFacts ==
  ASSUME NEW ks, NEW st, CallsOK(ks, st), NEW p \in Passes, NEW n \in Nat \ {0},
         PassAt(ks, st, n), PassesOK(ks, st), interruptible = Interruptible(ks, st),
         RunPass(p, n, ks, st)
  PROVE  /\ CallsOK(ks, status')
         /\ pass' \in [Passes -> 0..(MaxTools + 1)]
         /\ \A q \in Passes : pass'[q] # 0 => PassAt(ks, status', pass'[q])
         /\ interruptible' = Interruptible(ks, status')
         /\ \/ status' = st /\ UNCHANGED <<body, results>>
            \/ \E i \in Slots, s \in {"executing", "completed"} : Starts(i, s, ks, st)
<1> DEFINE i == NextStart(ks, st, n)
<1>1. /\ DOMAIN ks = 1..Len(ks) /\ Len(ks) \in Nat /\ DOMAIN ks \subseteq Slots
  BY CallFacts DEF CallsOK
<1>2. CASE i = 0
  <2>1. status' = st /\ pass' = [pass EXCEPT ![p] = 0]
        /\ UNCHANGED <<body, results, interruptible>>
    BY <1>2 DEF RunPass
  <2>2. pass' \in [Passes -> 0..(MaxTools + 1)]
    BY <2>1, BoundsAssumption DEF PassesOK
  <2>3. \A q \in Passes : pass'[q] # 0 => pass'[q] = pass[q]
    BY <2>1 DEF PassesOK
  <2>4. \A q \in Passes : pass'[q] # 0 => PassAt(ks, status', pass'[q])
    BY <2>1, <2>3 DEF PassesOK
  <2> QED
    BY <2>1, <2>2, <2>4
<1>3. CASE i # 0
  <2>1. /\ i \in DOMAIN ks /\ st[i] = "queued" /\ i \in Slots
        /\ \A s \in {"executing", "completed"} :
             CallsOK(ks, [st EXCEPT ![i] = s]) /\ PassAt(ks, [st EXCEPT ![i] = s], i + 1)
    BY <1>3, StartOK
  <2>2. PICK s \in {"executing", "completed"} :
          /\ Starts(i, s, ks, st)
          /\ \/ pass' = [pass EXCEPT ![p] = i + 1, ![<<"done", i>>] = 1]
             \/ pass' = [pass EXCEPT ![p] = i + 1]
          /\ interruptible' = Interruptible(ks, status')
    <3>1. CASE AbortReason(ks[i]) # "none"
      BY <1>3, <2>1, <3>1 DEF RunPass, Starts
    <3>2. CASE AbortReason(ks[i]) = "none"
      BY <1>3, <2>1, <3>2 DEF RunPass, Starts
    <3> QED
      BY <3>1, <3>2
  <2> HIDE DEF i
  <2>3. status' = [st EXCEPT ![i] = s]
    BY <2>2 DEF Starts
  <2>4. st \in [Slots -> Statuses]
    BY DEF CallsOK, KindsOK
  <2>5. \A m \in Nat : PassAt(ks, st, m) => PassAt(ks, status', m)
    <3>1. \A j \in DOMAIN ks : status'[j] = "queued" => st[j] = "queued"
      BY <1>1, <2>1, <2>3, <2>4
    <3> QED
      BY <3>1 DEF PassAt
  <2>6. PassAt(ks, status', i + 1) /\ PassAt(ks, status', 1)
    <3>1. PassAt(ks, status', i + 1)
      BY <2>1, <2>3
    <3>2. PassAt(ks, status', 1)
      BY <1>1 DEF PassAt
    <3> QED
      BY <3>1, <3>2
  <2>7. i + 1 \in 0..(MaxTools + 1) /\ 1 \in 0..(MaxTools + 1)
    BY <2>1, BoundsAssumption DEF Slots
  <2>8. pass' \in [Passes -> 0..(MaxTools + 1)]
    BY <2>2, <2>7 DEF PassesOK
  <2>9. \A q \in Passes : pass'[q] \in {pass[q], i + 1, 1}
    BY <2>2 DEF PassesOK
  <2>10. \A q \in Passes : pass[q] \in Nat
    BY BoundsAssumption DEF PassesOK
  <2>11. \A q \in Passes : pass'[q] # 0 => PassAt(ks, status', pass'[q])
    BY <2>5, <2>6, <2>9, <2>10 DEF PassesOK
  <2> QED
    BY <2>1, <2>2, <2>3, <2>8, <2>11
<1> QED
  BY <1>2, <1>3
-----------------------------------------------------------------------------
(* Initially, and whatever leaves the calls and what was yielded alone.    *)

LEMMA AddedFacts ==
  ASSUME TypeOK
  PROVE  /\ Added = 1..Len(kinds) /\ Len(kinds) \in Nat
         /\ Added \subseteq Slots /\ Slots \subseteq Nat \ {0}
         /\ \A n \in DOMAIN delivered : delivered[n] \in Added
         /\ DOMAIN delivered = 1..Len(delivered) /\ Len(delivered) \in Nat
<1>1. kinds \in Seq(KindType) /\ Len(kinds) =< MaxTools /\ delivered \in Seq(Added)
  BY DEF TypeOK
<1>2. Added = 1..Len(kinds) /\ Len(kinds) \in Nat
  BY <1>1, LenProperties DEF Added
<1>3. DOMAIN delivered = 1..Len(delivered) /\ Len(delivered) \in Nat
  BY <1>1, LenProperties
<1>4. \A n \in DOMAIN delivered : delivered[n] \in Added
  BY <1>1, <1>3, ElementOfSeq
<1>5. Added \subseteq Slots /\ Slots \subseteq Nat \ {0}
  BY <1>1, <1>2, BoundsAssumption DEF Slots
<1> QED
  BY <1>2, <1>3, <1>4, <1>5

LEMMA InitIInv == Init => IInv
<1> SUFFICES ASSUME Init PROVE IInv
  OBVIOUS
<1>1. kinds = <<>> /\ Added = {} /\ Len(kinds) = 0 /\ kinds \in Seq(KindType)
  BY DEF Init, Added
<1>2. delivered = <<>> /\ DOMAIN delivered = {} /\ delivered \in Seq(Added)
  BY DEF Init
<1>3. TypeOK
  <2>1. \A S : [i \in Slots |-> <<>>] \in [Slots -> Seq(S)]
    OBVIOUS
  <2>2. [i \in Slots |-> 0] \in [Slots -> Nat]
    OBVIOUS
  <2>3. [p \in Passes |-> 0] \in [Passes -> 0..(MaxTools + 1)]
    BY BoundsAssumption
  <2>4. progressed \in 0..MaxProgress /\ scan \in 0..(MaxTools + 1) /\ Len(kinds) =< MaxTools
    BY <1>1, BoundsAssumption DEF Init
  <2> QED
    BY <1>1, <1>2, <2>1, <2>2, <2>3, <2>4 DEF Init, TypeOK
<1>4. CallsOK(kinds, status)
  <2>1. \A i \in Slots : status[i] = "absent" <=> i \notin DOMAIN kinds
    BY <1>1 DEF Init
  <2> QED
    BY <1>1, <1>3, <2>1 DEF CallsOK, KindsOK, AloneOK, OrderOK, TypeOK, Statuses, Added
<1>5. PassOK /\ ProgressOK /\ YieldedOK /\ ScanOK /\ ExclusiveYieldedFirst
  BY <1>2 DEF Init, PassOK, ProgressOK, YieldedOK, ScanOK, ExclusiveYieldedFirst
<1>6. InterruptibleIsAccurate
  BY <1>1 DEF Init, InterruptibleIsAccurate, Interruptible, Added
<1>7. AnswerInv
  BY DEF Init, AnswerInv, DiscardOK, SoleSettled, UpdatesOK, AnswersOK, AnswerAt
<1> QED
  BY <1>3, <1>4, <1>5, <1>6, <1>7 DEF IInv, OrderInv

\* The collected results, the scan and what was yielded stay as they are.
LEMMA DeliveredStays ==
  ASSUME TypeOK, YieldedOK, ScanOK, ExclusiveYieldedFirst, delivered' = delivered,
         \A i \in Slots : status'[i] = "yielded" <=> status[i] = "yielded",
         \A i \in Added : i \in Added' /\ kinds'[i] = kinds[i],
         \/ consumer' \notin {"streamScan", "scan"}
         \/ UNCHANGED <<kinds, consumer, scan>>
  PROVE  YieldedOK' /\ ScanOK' /\ ExclusiveYieldedFirst'
<1>1. /\ Added = 1..Len(kinds) /\ Len(kinds) \in Nat /\ Added \subseteq Slots
      /\ \A n \in DOMAIN delivered : delivered[n] \in Added
  BY AddedFacts
<1>2. YieldedOK'
  BY DEF YieldedOK
<1>3. ScanOK'
  <2>1. CASE consumer' \notin {"streamScan", "scan"}
    BY <2>1 DEF ScanOK
  <2>2. CASE UNCHANGED <<kinds, consumer, scan>>
    <3>1. \A i, j : Passed(i, j)' <=> Passed(i, j)
      BY <2>2 DEF Passed
    <3>2. Added' = Added
      BY <2>2 DEF Added
    <3> QED
      BY <1>1, <2>2, <3>1, <3>2 DEF ScanOK
  <2> QED
    BY <2>1, <2>2
<1>4. ExclusiveYieldedFirst'
  <2> SUFFICES ASSUME NEW n \in DOMAIN delivered, kinds'[delivered[n]].known,
                      NEW i \in 1..(delivered[n] - 1), ~kinds'[i].safe
               PROVE  \E m \in 1..(n - 1) :
                        \/ delivered[m] = i
                        \/ /\ delivered[m] \in (i + 1)..(delivered[n] - 1)
                           /\ ~kinds'[delivered[m]].known
    BY DEF ExclusiveYieldedFirst
  <2>1. delivered[n] \in Added /\ i \in Added
    BY <1>1
  <2>2. kinds[delivered[n]].known /\ ~kinds[i].safe
    BY <2>1
  <2>3. PICK m \in 1..(n - 1) :
          \/ delivered[m] = i
          \/ delivered[m] \in (i + 1)..(delivered[n] - 1) /\ ~kinds[delivered[m]].known
    BY <2>2 DEF ExclusiveYieldedFirst
  <2>4. m \in DOMAIN delivered
    BY <2>3, AddedFacts
  <2>5. kinds'[delivered[m]] = kinds[delivered[m]]
    BY <2>4, <1>1
  <2> QED
    BY <2>3, <2>5
<1> QED
  BY <1>2, <1>3, <1>4

\* The calls, the passes over them and the interruptible state stay as they are.
LEMMA CallsStay ==
  ASSUME CallsOK(kinds, status), PassOK, InterruptibleIsAccurate,
         UNCHANGED <<kinds, status, pass, interruptible>>
  PROVE  CallsOK(kinds, status)' /\ PassOK' /\ InterruptibleIsAccurate'
  BY DEF CallsOK, KindsOK, AloneOK, OrderOK, Started, PassOK, PassAt,
         InterruptibleIsAccurate, Interruptible
-----------------------------------------------------------------------------
(* Passes.                                                                 *)

\* The calls ks with statuses st are those of this.tools, or one more is queued.
Extends(ks, st) ==
  /\ \A i \in Added : i \in DOMAIN ks /\ ks[i] = kinds[i]
  /\ \A i \in Slots : st[i] = status[i] \/ (i \notin Added /\ i \in DOMAIN ks /\ st[i] = "queued")

\* What a pass leaves alone, and when the query loop goes on.
PassFrame ==
  /\ UNCHANGED <<updates, progressed, progress, errored, stopVars, scan, raced, delivered>>
  /\ \/ UNCHANGED <<kinds, consumer>>
     \/ /\ consumer' \in {"stream", "pass"}
        /\ consumer # "dropped"

LEMMA PassOrder ==
  ASSUME OrderInv, NEW ks, NEW st, CallsOK(ks, st), NEW p \in Passes, NEW n \in Nat \ {0},
         PassAt(ks, st, n), PassesOK(ks, st), interruptible = Interruptible(ks, st),
         RunPass(p, n, ks, st), kinds' = ks, Extends(ks, st), PassFrame, UpdatesOK
  PROVE  OrderInv'
<1>1. /\ CallsOK(ks, status')
      /\ pass' \in [Passes -> 0..(MaxTools + 1)]
      /\ \A q \in Passes : pass'[q] # 0 => PassAt(ks, status', pass'[q])
      /\ interruptible' = Interruptible(ks, status')
      /\ \/ status' = st /\ UNCHANGED <<body, results>>
         \/ \E i \in Slots, s \in {"executing", "completed"} : Starts(i, s, ks, st)
  BY RunPassFacts
<1>2. /\ Added = 1..Len(kinds) /\ Len(kinds) \in Nat /\ Added \subseteq Slots
  BY AddedFacts DEF OrderInv
<1>3. st \in [Slots -> Statuses] /\ status \in [Slots -> Statuses]
  BY DEF CallsOK, KindsOK, OrderInv
<1>4. \A i \in Slots :
        \/ status'[i] = st[i] /\ body'[i] = body[i] /\ results'[i] = results[i]
        \/ st[i] = "queued" /\ status'[i] \in {"executing", "completed"}
  BY <1>1, <1>3 DEF Starts, OrderInv, TypeOK
<1>5. \A i \in Slots : status'[i] # status[i] =>
                        status'[i] \in {"queued", "executing", "completed"}
                        /\ status[i] \in {"absent", "queued"}
  BY <1>3, <1>4 DEF Extends, OrderInv, CallsOK, KindsOK, Added
<1>6. CallsOK(kinds, status)' /\ PassOK' /\ InterruptibleIsAccurate'
  BY <1>1 DEF PassOK, InterruptibleIsAccurate
<1>7. TypeOK'
  <2>1. body' \in [Slots -> {"none", "io", "settled"}] /\ results' \in [Slots -> Seq(Sorts)]
    <3>1. body \in [Slots -> {"none", "io", "settled"}] /\ results \in [Slots -> Seq(Sorts)]
      BY DEF OrderInv, TypeOK
    <3>2. CASE UNCHANGED <<body, results>>
      BY <3>1, <3>2
    <3>3. CASE \E i \in Slots, s \in {"executing", "completed"} : Starts(i, s, ks, st)
      <4>1. PICK i \in Slots, s \in {"executing", "completed"} : Starts(i, s, ks, st)
        BY <3>3
      <4>2. AbortReason(ks[i]) # "none" => AbortReason(ks[i]) \in Sorts
        BY DEF AbortReason, Sorts, Answers
      <4>3. AbortReason(ks[i]) # "none" => <<AbortReason(ks[i])>> \in Seq(Sorts)
        BY <4>2
      <4> QED
        BY <3>1, <4>1, <4>3 DEF Starts
    <3> QED
      BY <1>1, <3>2, <3>3
  <2>2. \A i \in Slots : body'[i] # "none" <=> status'[i] = "executing"
    <3> SUFFICES ASSUME NEW i \in Slots PROVE body'[i] # "none" <=> status'[i] = "executing"
      OBVIOUS
    <3>1. body[i] # "none" <=> st[i] = "executing"
      BY <1>3 DEF OrderInv, TypeOK, Extends
    <3>2. CASE status'[i] = st[i] /\ body'[i] = body[i]
      BY <3>1, <3>2
    <3>3. CASE st[i] = "queued" /\ status'[i] \in {"executing", "completed"}
      <4>1. PICK j \in Slots, s \in {"executing", "completed"} : Starts(j, s, ks, st)
        BY <1>1, <3>3
      <4>2. j = i
        BY <1>3, <3>3, <4>1 DEF Starts
      <4> QED
        BY <1>3, <3>1, <3>3, <4>1, <4>2, <2>1 DEF Starts, OrderInv, TypeOK
    <3> QED
      BY <1>4, <3>2, <3>3
  <2>3. Added \subseteq Added'
    BY DEF Extends, Added
  <2>4. delivered' \in Seq(Added') /\ raced' \subseteq Added'
    <3>1. delivered \in Seq(Added) /\ raced \subseteq Added /\ delivered' = delivered /\ raced' = raced
      BY DEF OrderInv, TypeOK, PassFrame
    <3> QED
      BY <2>3, <3>1, SeqMonotonic
  <2>5. kinds' \in Seq(KindType) /\ Len(kinds') =< MaxTools
        /\ status' \in [Slots -> {"absent", "queued", "executing", "completed", "yielded"}]
        /\ \A i \in Slots : status'[i] = "absent" <=> i \notin Added'
    BY <1>1 DEF CallsOK, KindsOK, Statuses, Added
  <2>6. interruptible' \in BOOLEAN
    BY <1>1 DEF Interruptible
  <2>7. consumer' \in {"stream", "streamScan", "dropped", "loop", "pass", "scan", "wait",
                      "returned"}
    BY DEF OrderInv, TypeOK, PassFrame
  <2>8. TypeOK /\ UNCHANGED <<updates, progressed, progress, errored, hasErrored, discarded,
                             aborted, scan>>
    BY DEF OrderInv, PassFrame, stopVars
  <2> QED
    BY <1>1, <2>1, <2>2, <2>4, <2>5, <2>6, <2>7, <2>8 DEF TypeOK
<1>8. ProgressOK'
  <2>1. \A i \in Slots : progress'[i] > 0 =>
           i \in Added /\ Started(kinds, status, i) /\ kinds'[i] = kinds[i] /\ i \in Added'
    BY DEF OrderInv, ProgressOK, PassFrame, Extends, Added
  <2>2. \A i \in Slots : Started(kinds, status, i) => status'[i] = status[i]
    BY <1>5 DEF Started
  <2> QED
    BY <2>1, <2>2 DEF ProgressOK, Started
<1>9. YieldedOK' /\ ScanOK' /\ ExclusiveYieldedFirst'
  <2>1. \A i \in Slots : status'[i] = "yielded" <=> status[i] = "yielded"
    BY <1>5
  <2>2. \A i \in Added : i \in Added' /\ kinds'[i] = kinds[i]
    BY DEF Extends, Added
  <2>3. delivered' = delivered /\ (\/ consumer' \notin {"streamScan", "scan"}
                                  \/ UNCHANGED <<kinds, consumer, scan>>)
    BY DEF PassFrame
  <2> QED
    BY <2>1, <2>2, <2>3, DeliveredStays DEF OrderInv
<1> QED
  BY <1>6, <1>7, <1>8, <1>9 DEF OrderInv
LEMMA PassAnswers ==
  ASSUME IInv, NEW ks, NEW st, CallsOK(ks, st), NEW p \in Passes, NEW n \in Nat \ {0},
         PassAt(ks, st, n), PassesOK(ks, st), interruptible = Interruptible(ks, st),
         RunPass(p, n, ks, st), kinds' = ks, Extends(ks, st), PassFrame
  PROVE  AnswerInv'
<1>1. \/ status' = st /\ UNCHANGED <<body, results>>
      \/ \E i \in Slots, s \in {"executing", "completed"} : Starts(i, s, ks, st)
  BY RunPassFacts
<1>2. TypeOK /\ UNCHANGED <<updates, errored, hasErrored, discarded, aborted>>
  BY DEF IInv, OrderInv, PassFrame, stopVars
<1>3. DiscardOK'
  BY DEF IInv, AnswerInv, DiscardOK, PassFrame, stopVars
<1>4. \A i \in Slots : body'[i] # body[i] => body'[i] = "io" /\ body[i] = "none"
  <2>1. \A i \in Slots : st[i] = "queued" => body[i] = "none"
    BY <1>2 DEF TypeOK, Extends
  <2> QED
    BY <1>1, <1>2, <2>1 DEF Starts, TypeOK
<1>5. SoleSettled'
  BY <1>2, <1>4 DEF IInv, AnswerInv, SoleSettled
<1>6. UpdatesOK'
  BY <1>2, <1>4 DEF IInv, AnswerInv, UpdatesOK
<1>7. AnswersOK'
  <2> SUFFICES ASSUME ~discarded, NEW i \in Slots PROVE AnswerAt(i)'
    BY <1>2 DEF AnswersOK
  <2>1. AnswerAt(i)
    BY DEF IInv, AnswerInv, AnswersOK
  <2>2. body[i] # "none" => AbortReason(kinds[i])' = AbortReason(kinds[i])
    <3>1. body[i] # "none" => kinds'[i] = kinds[i]
      BY <1>2 DEF TypeOK, Extends
    <3> QED
      BY <1>2, <3>1 DEF AbortReason
  <2>3. CASE status'[i] = st[i] /\ body'[i] = body[i] /\ results'[i] = results[i]
    <3>1. status'[i] = status[i] \/ (status[i] = "absent" /\ status'[i] = "queued")
      BY <1>2, <2>3 DEF Extends, TypeOK
    <3> QED
      BY <1>2, <2>1, <2>2, <2>3, <3>1 DEF AnswerAt
  <2>4. CASE \E s \in {"executing", "completed"} : Starts(i, s, ks, st)
    <3>1. PICK s \in {"executing", "completed"} : Starts(i, s, ks, st)
      BY <2>4
    <3>2. status'[i] = s
      BY <3>1 DEF Starts, CallsOK, KindsOK
    <3>3. st[i] = "queued" /\ status[i] \in {"absent", "queued"}
      BY <1>2, <3>1 DEF Starts, Extends, TypeOK
    <3>4. results[i] = <<>> /\ ~errored[i] /\ body[i] = "none" /\ updates[i] = <<>>
      BY <1>2, <2>1, <3>3 DEF AnswerAt, TypeOK, IInv, AnswerInv, UpdatesOK
    <3>5. CASE s = "executing"
      <4>1. body'[i] = "io" /\ results'[i] = results[i]
        BY <1>2, <3>1, <3>5 DEF Starts, TypeOK
      <4> QED
        BY <1>2, <3>2, <3>4, <3>5, <4>1 DEF AnswerAt
    <3>6. CASE s = "completed"
      <4>1. body'[i] = "none" /\ AbortReason(ks[i]) # "none"
            /\ results'[i] = <<AbortReason(ks[i])>>
        BY <1>2, <3>1, <3>4, <3>6 DEF Starts, TypeOK
      <4>2. AbortReason(ks[i]) \in Answers
        BY <4>1 DEF AbortReason, Answers
      <4>3. OneAnswer(results'[i])
        BY <4>1, <4>2 DEF OneAnswer
      <4> QED
        BY <3>2, <3>6, <4>1, <4>3 DEF AnswerAt
    <3> QED
      BY <3>5, <3>6
  <2>5. \/ status'[i] = st[i] /\ body'[i] = body[i] /\ results'[i] = results[i]
        \/ \E s \in {"executing", "completed"} : Starts(i, s, ks, st)
    BY <1>1, <1>2 DEF Starts, TypeOK, CallsOK, KindsOK
  <2> QED
    BY <2>3, <2>4, <2>5
<1> QED
  BY <1>3, <1>5, <1>6, <1>7 DEF AnswerInv

\* The pass p goes on at n over this.tools.
LEMMA PassStep ==
  ASSUME IInv, NEW p \in Passes, NEW n \in Nat \ {0}, PassAt(kinds, status, n),
         RunPass(p, n, kinds, status), kinds' = kinds, PassFrame
  PROVE  IInv'
<1>1. CallsOK(kinds, status) /\ PassesOK(kinds, status)
  BY DEF IInv, OrderInv, PassOK, PassesOK, TypeOK
<1>2. interruptible = Interruptible(kinds, status) /\ Extends(kinds, status) /\ UpdatesOK
  BY DEF IInv, AnswerInv, OrderInv, InterruptibleIsAccurate, Extends, Added
<1>3. OrderInv' /\ AnswerInv'
  BY <1>1, <1>2, PassOrder, PassAnswers DEF IInv
<1> QED
  BY <1>3 DEF IInv

LEMMA PassAtFirst ==
  ASSUME TypeOK PROVE PassAt(kinds, status, 1)
  BY AddedFacts DEF PassAt, Added

LEMMA ResumePassStep == IInv /\ (\E p \in Passes : ResumePass(p)) => IInv'
<1> SUFFICES ASSUME IInv, NEW p \in Passes, ResumePass(p) PROVE IInv'
  OBVIOUS
<1>1. pass[p] \in Nat \ {0} /\ PassAt(kinds, status, pass[p])
  BY BoundsAssumption DEF ResumePass, IInv, OrderInv, TypeOK, PassOK
<1> QED
  BY <1>1, PassStep DEF ResumePass, PassFrame, consumerVars

LEMMA LoopPassStep == IInv /\ LoopPass => IInv'
<1> SUFFICES ASSUME IInv, LoopPass PROVE IInv'
  OBVIOUS
<1>1. Collect \in Passes
  BY DEF Collect, Passes
<1>2. PassAt(kinds, status, 1) /\ PassFrame
  BY PassAtFirst DEF IInv, OrderInv, LoopPass, PassFrame
<1> QED
  BY <1>1, <1>2, PassStep DEF LoopPass

LEMMA AddToolStep ==
  ASSUME IInv, NEW k, AddTool(k)
  PROVE  IInv'
<1> DEFINE i == Len(kinds) + 1
           ks == Append(kinds, k)
           s == IF k.known THEN "queued" ELSE "completed"
           st == [status EXCEPT ![i] = s]
<1>1. i \in Slots /\ k \in Kinds[i] /\ kinds' = ks /\ consumer = "stream"
  BY DEF AddTool
<1>2. /\ Added = 1..Len(kinds) /\ Len(kinds) \in Nat /\ Added \subseteq Slots
      /\ \A n \in DOMAIN delivered : delivered[n] \in Added
  BY AddedFacts DEF IInv, OrderInv
<1>3. TypeOK /\ CallsOK(kinds, status) /\ OrderInv /\ AnswerInv
  BY DEF IInv, OrderInv
<1>4. Grows(kinds, status, i, ks, st)
  <2>1. /\ i = Len(kinds) + 1
        /\ s \in {"queued", "completed"} /\ (s = "completed" <=> ~k.known)
        /\ ks = Append(kinds, k) /\ st = [status EXCEPT ![i] = s]
    OBVIOUS
  <2> HIDE DEF i, s, ks, st
  <2> QED
    BY <1>1, <1>3, <2>1, AddOK
<1>5. status[i] = "absent" /\ body[i] = "none" /\ st[i] = s
      /\ \A j \in Slots : j # i => st[j] = status[j]
  BY <1>1, <1>3, <1>4 DEF TypeOK, Added, Grows
<1>6. \A j \in Slots : st[j] = "executing" <=> status[j] = "executing"
  BY <1>5
<1> HIDE DEF i, ks, s, st
<1>7. Interruptible(ks, st) = interruptible
  <2>1. {j \in DOMAIN ks : st[j] = "executing"} = {j \in DOMAIN kinds : status[j] = "executing"}
    BY <1>1, <1>2, <1>4, <1>5, <1>6 DEF Added, Grows
  <2>2. \A j \in {j \in DOMAIN kinds : status[j] = "executing"} : ks[j].cancel = kinds[j].cancel
    BY <1>4 DEF Grows
  <2> QED
    BY <1>3, <2>1, <2>2 DEF Interruptible, OrderInv, InterruptibleIsAccurate
<1>8. PassesOK(ks, st) /\ (k.known => Extends(ks, st))
  <2>1. k.known => s = "queued"
    BY DEF s
  <2>2. \A q \in Passes : pass[q] \in Nat
    BY <1>3, BoundsAssumption DEF TypeOK
  <2>3. PassesOK(ks, st)
    BY <1>3, <1>4, <2>2 DEF OrderInv, TypeOK, PassOK, PassesOK, Grows
  <2> QED
    BY <1>1, <1>4, <1>5, <2>1, <2>3 DEF Extends, Added, Grows
<1>9. CASE k.known
  <2>1. <<"add", i>> \in Passes
    BY <1>1 DEF Passes
  <2>2. RunPass(<<"add", i>>, 1, ks, st)
    BY <1>9 DEF AddTool, i, ks, st, s
  <2>3. PassFrame
    BY <1>1 DEF AddTool, PassFrame, consumerVars
  <2>4. PassAt(ks, st, 1)
    BY <1>2, <1>3, <1>4, PassAtFirst DEF Grows
  <2>5. Extends(ks, st) /\ PassesOK(ks, st) /\ UpdatesOK
    BY <1>3, <1>8, <1>9 DEF AnswerInv
  <2>6. OrderInv'
    BY <1>1, <1>3, <1>4, <1>7, <2>1, <2>2, <2>3, <2>4, <2>5, PassOrder DEF Grows
  <2>7. AnswerInv'
    BY <1>1, <1>3, <1>4, <1>7, <2>1, <2>2, <2>3, <2>4, <2>5, PassAnswers DEF Grows
  <2> QED
    BY <2>6, <2>7 DEF IInv
<1>10. CASE ~k.known
  <2>1. /\ status' = st /\ results' = [results EXCEPT ![i] = <<"error">>]
        /\ UNCHANGED <<body, interruptible, pass>> /\ s = "completed"
    BY <1>10 DEF AddTool, st, s, i
  <2>2. UNCHANGED <<updates, progressed, progress, errored, hasErrored, discarded, aborted,
                    consumer, scan, raced, delivered>>
    BY DEF AddTool, stopVars, consumerVars
  <2>3. /\ Added' = Added \cup {i} /\ i \notin Added
        /\ \A j \in Added : kinds'[j] = kinds[j]
    BY <1>1, <1>4 DEF Added, Grows
  <2>4. CallsOK(kinds, status)' /\ PassOK' /\ InterruptibleIsAccurate'
    BY <1>1, <1>3, <1>4, <1>7, <1>8, <2>1
       DEF PassesOK, PassOK, InterruptibleIsAccurate, OrderInv, Grows
  <2>5. TypeOK'
    <3>1. results' \in [Slots -> Seq(Sorts)]
      <4>1. <<"error">> \in Seq(Sorts)
        BY DEF Sorts, Answers
      <4> QED
        BY <1>3, <2>1, <4>1 DEF TypeOK
    <3>2. delivered' \in Seq(Added') /\ raced' \subseteq Added'
      BY <1>3, <2>2, <2>3, SeqMonotonic DEF TypeOK
    <3>3. \A j \in Slots : body'[j] # "none" <=> status'[j] = "executing"
      BY <1>3, <1>6, <2>1 DEF TypeOK
    <3>4. /\ kinds' \in Seq(KindType) /\ Len(kinds') =< MaxTools
          /\ status' \in [Slots -> {"absent", "queued", "executing", "completed", "yielded"}]
          /\ \A j \in Slots : status'[j] = "absent" <=> j \notin Added'
      BY <2>4 DEF CallsOK, KindsOK, Statuses, Added
    <3> QED
      BY <1>3, <2>1, <2>2, <3>1, <3>2, <3>3, <3>4 DEF TypeOK
  <2>6. ProgressOK'
    <3>1. \A j \in Slots : progress'[j] > 0 => j \in Added /\ Started(kinds, status, j)
      BY <1>3, <2>2 DEF OrderInv, ProgressOK
    <3> QED
      BY <1>5, <2>1, <2>3, <3>1 DEF ProgressOK, Started
  <2>7. YieldedOK' /\ ScanOK' /\ ExclusiveYieldedFirst'
    <3>1. \A j \in Slots : status'[j] = "yielded" <=> status[j] = "yielded"
      BY <1>5, <2>1
    <3> QED
      BY <1>1, <1>3, <2>2, <2>3, <3>1, DeliveredStays DEF OrderInv
  <2>8. AnswersOK'
    <3> SUFFICES ASSUME ~discarded, NEW j \in Slots PROVE AnswerAt(j)'
      BY <2>2 DEF AnswersOK
    <3>1. AnswerAt(j)
      BY <1>3 DEF AnswerInv, AnswersOK
    <3>2. CASE j = i
      <4>1. results'[i] = <<"error">> /\ status'[i] = "completed" /\ body'[i] = "none"
        BY <1>1, <1>3, <1>5, <2>1 DEF TypeOK
      <4>2. OneAnswer(<<"error">>)
        BY DEF OneAnswer, Answers
      <4> QED
        BY <3>2, <4>1, <4>2 DEF AnswerAt
    <3>3. CASE j # i
      <4>1. results'[j] = results[j] /\ status'[j] = status[j] /\ body'[j] = body[j]
        BY <1>3, <1>5, <2>1, <3>3 DEF TypeOK
      <4>2. body[j] # "none" => AbortReason(kinds[j])' = AbortReason(kinds[j])
        BY <1>3, <2>2, <2>3 DEF AbortReason, TypeOK
      <4> QED
        BY <2>2, <3>1, <4>1, <4>2 DEF AnswerAt
    <3> QED
      BY <3>2, <3>3
  <2>9. DiscardOK' /\ SoleSettled' /\ UpdatesOK'
    BY <1>3, <2>1, <2>2 DEF AnswerInv, DiscardOK, SoleSettled, UpdatesOK
  <2> QED
    BY <2>4, <2>5, <2>6, <2>7, <2>8, <2>9 DEF IInv, OrderInv, AnswerInv
<1> QED
  BY <1>9, <1>10
-----------------------------------------------------------------------------
(* Scans.                                                                  *)

\* What a scan yields of next, and what it finds before.
LEMMA NextYieldFacts ==
  ASSUME TypeOK, NEW n \in Nat \ {0}, NEW i, i = NextYield(n), i # 0
  PROVE  /\ i \in Added /\ n =< i
         /\ progress[i] > 0 \/ status[i] = "completed"
         /\ \A j \in Added : n =< j /\ j < i =>
              status[j] # "completed" /\ (status[j] = "executing" => kinds[j].safe)
<1> DEFINE some == {j \in n..Len(kinds) : progress[j] > 0 \/ status[j] = "completed"}
           ends == {j \in n..Len(kinds) : status[j] = "executing" /\ ~kinds[j].safe}
<1>1. Added = 1..Len(kinds) /\ Len(kinds) \in Nat
  BY AddedFacts
<1>2. some # {} /\ First(some) = First(some \cup ends) /\ i = First(some)
  BY DEF NextYield
<1>3. some \in SUBSET Nat /\ (some \cup ends) \in SUBSET Nat
  BY <1>1
<1>4. i \in some
  BY <1>2, <1>3, FirstIsLeast
<1>5. \A j \in some \cup ends : i =< j
  <2> HIDE DEF some, ends
  <2> QED
    BY <1>2, <1>3, FirstIsLeast
<1>6. ASSUME NEW j \in Added, n =< j, j < i
      PROVE  j \notin some /\ j \notin ends /\ j \in n..Len(kinds)
  <2>1. j \in n..Len(kinds) /\ ~(i =< j)
    BY <1>1, <1>4, <1>6
  <2> QED
    BY <1>5, <2>1
<1> QED
  BY <1>1, <1>4, <1>6

\* An exclusive tool that the scan goes past is yielded, or it goes past it for a
\* missing call.
LEMMA ScanPasses ==
  ASSUME IInv, NEW n \in Nat \ {0}, NEW i, i = NextYield(n), i # 0,
         NEW j \in Added, n =< j, j < i, ~kinds[j].safe
  PROVE  \/ status[j] = "yielded"
         \/ progress[i] = 0 /\ status[i] = "completed" /\ ~kinds[i].known
<1>1. TypeOK /\ KindsOK(kinds, status) /\ OrderOK(kinds, status) /\ ProgressOK
  BY DEF IInv, OrderInv, CallsOK
<1>2. /\ i \in Added
      /\ progress[i] > 0 \/ status[i] = "completed"
      /\ status[j] # "completed" /\ status[j] # "executing"
  BY <1>1, NextYieldFacts
<1>3. Started(kinds, status, i) => status[j] = "yielded"
  BY <1>1, <1>2 DEF OrderOK, Added
<1>4. progress[i] > 0 => Started(kinds, status, i)
  BY <1>1, <1>2, AddedFacts DEF ProgressOK
<1>5. status[i] = "completed" /\ kinds[i].known => Started(kinds, status, i)
  BY DEF Started
<1>6. progress[i] \in Nat
  BY <1>1, <1>2, AddedFacts DEF TypeOK
<1> QED
  BY <1>2, <1>3, <1>4, <1>5, <1>6

Scanned(n) == \A i \in Added : i < n => kinds[i].safe \/ status[i] = "yielded" \/ Passed(i, n)

LEMMA ScanOrder ==
  ASSUME IInv, NEW n \in Nat \ {0}, NEW i, i = NextYield(n), NEW here \in {"streamScan", "scan"},
         NEW next \in {"stream", "wait", "loop"}, ScanTo(n, here, next), Scanned(n),
         UNCHANGED Unscanned, raced' \in SUBSET Added
  PROVE  OrderInv'
<1>1. /\ TypeOK /\ OrderInv
      /\ UNCHANGED <<kinds, body, updates, progressed, results, errored, hasErrored, discarded,
                     aborted, interruptible, pass>>
  BY DEF IInv, OrderInv, Unscanned, stopVars
<1>2. /\ Added = 1..Len(kinds) /\ Len(kinds) \in Nat /\ Added \subseteq Slots
      /\ \A m \in DOMAIN delivered : delivered[m] \in Added
      /\ DOMAIN delivered = 1..Len(delivered) /\ Len(delivered) \in Nat
      /\ Added' = Added
  BY <1>1, AddedFacts DEF Added
<1>3. CASE i = 0
  <2>1. /\ consumer' = next /\ scan' = 0
        /\ UNCHANGED <<status, progress, delivered>>
    BY <1>3 DEF ScanTo
  <2>2. CallsOK(kinds, status)' /\ PassOK' /\ InterruptibleIsAccurate'
    BY <1>1, <2>1, CallsStay DEF OrderInv
  <2>3. YieldedOK' /\ ScanOK' /\ ExclusiveYieldedFirst'
    BY <1>1, <1>2, <2>1, DeliveredStays DEF OrderInv
  <2>4. TypeOK'
    BY <1>1, <1>2, <2>1, BoundsAssumption DEF TypeOK
  <2>5. ProgressOK'
    BY <1>1, <1>2, <2>1 DEF OrderInv, ProgressOK, Started
  <2> QED
    BY <2>2, <2>3, <2>4, <2>5 DEF OrderInv
<1>4. ASSUME i # 0
      PROVE  /\ i \in Added /\ i \in Slots /\ n =< i /\ i \in Nat \ {0}
             /\ progress[i] > 0 \/ status[i] = "completed"
  BY <1>1, <1>2, <1>4, NextYieldFacts, AddedFacts
<1>5. ASSUME i # 0, NEW j \in Added, j < i
      PROVE  \/ kinds[j].safe \/ status[j] = "yielded" \/ Passed(j, i)
             \/ progress[i] = 0 /\ status[i] = "completed" /\ ~kinds[i].known
  <2>1. CASE j < n
    <3>1. Passed(j, n) => Passed(j, i)
      <4>1. n =< i /\ i \in Nat
        BY <1>4, <1>5
      <4>2. \A m \in DOMAIN delivered : delivered[m] \in Nat
        BY <1>2
      <4> QED
        BY <4>1, <4>2 DEF Passed
    <3> QED
      BY <1>5, <2>1, <3>1 DEF Scanned
  <2>2. CASE n =< j
    BY <1>5, <2>2, ScanPasses
  <2> QED
    BY <1>2, <2>1, <2>2
<1>6. CASE i # 0 /\ progress[i] > 0
  <2>1. /\ consumer' = here /\ progress' = [progress EXCEPT ![i] = 0] /\ scan' = i
        /\ UNCHANGED <<status, delivered>>
    BY <1>6 DEF ScanTo
  <2>2. CallsOK(kinds, status)' /\ PassOK' /\ InterruptibleIsAccurate'
    BY <1>1, <2>1, CallsStay DEF OrderInv
  <2>3. ScanOK'
    <3>1. \A j : Passed(j, i)' <=> Passed(j, i)
      BY <1>1, <2>1 DEF Passed
    <3>2. \A j \in Added : j < i => kinds[j].safe \/ status[j] = "yielded" \/ Passed(j, i)
      BY <1>5, <1>6
    <3> QED
      BY <1>1, <1>2, <1>4, <1>6, <2>1, <3>1, <3>2 DEF ScanOK
  <2>4. TypeOK'
    <3>1. scan' \in 0..(MaxTools + 1)
      BY <1>4, <1>6, <2>1, BoundsAssumption DEF Slots
    <3>2. progress' \in [Slots -> Nat]
      BY <1>1, <2>1 DEF TypeOK
    <3> QED
      BY <1>1, <1>2, <2>1, <3>1, <3>2 DEF TypeOK
  <2>5. ProgressOK'
    <3>1. \A j \in Slots : progress'[j] > 0 => progress[j] > 0
      BY <1>1, <2>1 DEF TypeOK
    <3> QED
      BY <1>1, <1>2, <2>1, <3>1 DEF OrderInv, ProgressOK, Started
  <2>6. YieldedOK' /\ ExclusiveYieldedFirst'
    BY <1>1, <2>1 DEF OrderInv, YieldedOK, ExclusiveYieldedFirst
  <2> QED
    BY <2>2, <2>3, <2>4, <2>5, <2>6 DEF OrderInv
<1>7. CASE i # 0 /\ ~(progress[i] > 0)
  <2>1. /\ consumer' = here /\ status' = [status EXCEPT ![i] = "yielded"]
        /\ delivered' = Append(delivered, i) /\ scan' = i + 1
        /\ UNCHANGED progress
    BY <1>7 DEF ScanTo
  <2>2. status[i] = "completed" /\ i \in Added /\ i \in Slots /\ progress[i] = 0
    BY <1>1, <1>4, <1>7 DEF TypeOK
  <2>3. /\ CallsOK(kinds, status')
        /\ \A m \in Nat : PassAt(kinds, status, m) => PassAt(kinds, status', m)
    BY <1>1, <2>1, <2>2, EndOK DEF OrderInv, Added
  <2>4. status'[i] = "yielded" /\ \A j \in Slots : j # i => status'[j] = status[j]
    BY <1>1, <2>1, <2>2 DEF TypeOK
  <2>5. /\ delivered' \in Seq(Added) /\ Len(delivered') = Len(delivered) + 1
        /\ delivered'[Len(delivered) + 1] = i
        /\ \A m \in DOMAIN delivered : delivered'[m] = delivered[m]
        /\ DOMAIN delivered' = DOMAIN delivered \cup {Len(delivered) + 1}
        /\ Len(delivered) + 1 \notin DOMAIN delivered
    <3>1. delivered \in Seq(Added)
      BY <1>1 DEF TypeOK
    <3>2. /\ delivered' \in Seq(Added) /\ Len(delivered') = Len(delivered) + 1
          /\ delivered'[Len(delivered) + 1] = i
          /\ \A m \in 1..Len(delivered) : delivered'[m] = delivered[m]
      BY <2>1, <2>2, <3>1, AppendProperties
    <3>3. DOMAIN delivered' = 1..(Len(delivered) + 1)
      BY <3>2, LenProperties
    <3> QED
      BY <1>2, <3>2, <3>3
  <2>6. CallsOK(kinds, status)' /\ PassOK'
    <3>1. \A p \in Passes : pass[p] \in Nat
      BY <1>1, BoundsAssumption DEF TypeOK
    <3> QED
      BY <1>1, <2>3, <3>1 DEF OrderInv, PassOK
  <2>7. InterruptibleIsAccurate'
    <3>1. {j \in DOMAIN kinds : status'[j] = "executing"} = {j \in DOMAIN kinds : status[j] = "executing"}
      BY <1>2, <2>2, <2>4 DEF Added
    <3> QED
      BY <1>1, <3>1 DEF OrderInv, InterruptibleIsAccurate, Interruptible
  <2>8. TypeOK'
    <3>1. scan' \in 0..(MaxTools + 1)
      BY <2>1, <2>2, BoundsAssumption DEF Slots
    <3>2. status' \in [Slots -> {"absent", "queued", "executing", "completed", "yielded"}]
      BY <1>1, <2>1 DEF TypeOK
    <3>3. \A j \in Slots : (status'[j] = "absent" <=> status[j] = "absent")
                         /\ (status'[j] = "executing" <=> status[j] = "executing")
      BY <2>2, <2>4
    <3> QED
      BY <1>1, <1>2, <2>1, <2>5, <3>1, <3>2, <3>3 DEF TypeOK
  <2>9. ProgressOK'
    <3>1. \A j \in Slots : Started(kinds, status, j) => Started(kinds, status', j)
      BY <2>4 DEF Started
    <3> QED
      BY <1>1, <1>2, <2>1, <3>1 DEF OrderInv, ProgressOK, Started
  <2>10. YieldedOK'
    BY <1>1, <2>4, <2>5 DEF OrderInv, YieldedOK
  <2>11. \A j, l : Passed(j, l) => Passed(j, l)'
    <3> SUFFICES ASSUME NEW j, NEW l, Passed(j, l) PROVE Passed(j, l)'
      OBVIOUS
    <3>1. PICK m \in DOMAIN delivered :
            j < delivered[m] /\ delivered[m] < l /\ ~kinds[delivered[m]].known
      BY DEF Passed
    <3>2. m \in DOMAIN delivered' /\ delivered'[m] = delivered[m]
      BY <2>5
    <3> QED
      BY <1>1, <3>1, <3>2 DEF Passed
  <2>12. ScanOK'
    <3> SUFFICES ASSUME NEW j \in Added, j < i + 1
                 PROVE  kinds[j].safe \/ status'[j] = "yielded" \/ Passed(j, i + 1)'
      BY <1>1, <1>2, <1>4, <1>7, <2>1 DEF ScanOK
    <3>1. CASE j = i
      BY <2>4, <3>1
    <3>2. CASE j < i /\ Passed(j, i)
      <4>1. PICK m \in DOMAIN delivered :
              j < delivered[m] /\ delivered[m] < i /\ ~kinds[delivered[m]].known
        BY <3>2 DEF Passed
      <4>2. m \in DOMAIN delivered' /\ delivered'[m] = delivered[m] /\ delivered[m] \in Nat
        BY <1>2, <2>5
      <4>3. delivered[m] < i + 1
        BY <1>4, <1>7, <4>1, <4>2
      <4> QED
        BY <1>1, <4>1, <4>2, <4>3 DEF Passed
    <3>3. CASE j < i /\ ~kinds[i].known
      <4>1. i < i + 1
        BY <1>4, <1>7
      <4>2. Len(delivered) + 1 \in DOMAIN delivered' /\ delivered'[Len(delivered) + 1] = i
        BY <2>5
      <4> QED
        BY <1>1, <3>3, <4>1, <4>2 DEF Passed
    <3>4. CASE j < i /\ (kinds[j].safe \/ status[j] = "yielded")
      BY <1>2, <2>4, <3>4
    <3>5. j = i \/ j < i
      BY <1>2, <1>4, <1>7
    <3> QED
      BY <1>5, <1>7, <3>1, <3>2, <3>3, <3>4, <3>5
  <2>13. ExclusiveYieldedFirst'
    <3> SUFFICES ASSUME NEW l \in DOMAIN delivered', kinds[delivered'[l]].known,
                        NEW j \in 1..(delivered'[l] - 1), ~kinds[j].safe
                 PROVE  \E m \in 1..(l - 1) :
                          \/ delivered'[m] = j
                          \/ /\ delivered'[m] \in (j + 1)..(delivered'[l] - 1)
                             /\ ~kinds[delivered'[m]].known
      BY <1>1 DEF ExclusiveYieldedFirst
    <3>1. CASE l \in DOMAIN delivered
      <4>1. delivered'[l] = delivered[l]
        BY <2>5, <3>1
      <4>2. PICK m \in 1..(l - 1) :
              \/ delivered[m] = j
              \/ delivered[m] \in (j + 1)..(delivered[l] - 1) /\ ~kinds[delivered[m]].known
        BY <1>1, <3>1, <4>1 DEF OrderInv, ExclusiveYieldedFirst
      <4>3. delivered'[m] = delivered[m]
        <5>1. l \in 1..Len(delivered) /\ Len(delivered) \in Nat
          BY <1>2, <3>1
        <5>2. m \in 1..Len(delivered)
          BY <5>1
        <5> QED
          BY <1>2, <2>5, <5>2
      <4> QED
        BY <4>1, <4>2, <4>3
    <3>2. CASE l = Len(delivered) + 1
      <4>1. delivered'[l] = i /\ kinds[i].known /\ j \in Added /\ j < i
        BY <1>2, <1>4, <1>7, <2>5, <3>2
      <4>2. status[j] = "yielded" \/ Passed(j, i)
        BY <1>5, <1>7, <4>1
      <4>3. CASE status[j] = "yielded"
        <5>1. PICK m \in DOMAIN delivered : delivered[m] = j
          BY <1>1, <1>2, <4>1, <4>3 DEF OrderInv, YieldedOK
        <5>2. m \in 1..(l - 1) /\ delivered'[m] = j
          BY <1>2, <2>5, <3>2, <5>1
        <5> QED
          BY <5>2
      <4>4. CASE Passed(j, i)
        <5>1. PICK m \in DOMAIN delivered :
                j < delivered[m] /\ delivered[m] < i /\ ~kinds[delivered[m]].known
          BY <4>4 DEF Passed
        <5>2. m \in 1..(l - 1) /\ delivered'[m] = delivered[m] /\ delivered[m] \in Nat
          BY <1>2, <2>5, <3>2, <5>1
        <5>3. delivered[m] \in (j + 1)..(i - 1)
          BY <1>4, <1>7, <5>1, <5>2
        <5> QED
          BY <4>1, <5>1, <5>2, <5>3
      <4> QED
        BY <4>2, <4>3, <4>4
    <3> QED
      BY <2>5, <3>1, <3>2
  <2> QED
    BY <2>6, <2>7, <2>8, <2>9, <2>10, <2>12, <2>13 DEF OrderInv
<1> QED
  BY <1>3, <1>6, <1>7

\* A scan does not touch what the tools have answered.
LEMMA ScanAnswers ==
  ASSUME IInv, NEW n \in Nat \ {0}, NEW here \in {"streamScan", "scan"},
         NEW next \in {"stream", "wait", "loop"}, ScanTo(n, here, next),
         UNCHANGED Unscanned, consumer # "dropped"
  PROVE  AnswerInv'
<1>1. /\ TypeOK /\ AnswerInv
      /\ UNCHANGED <<kinds, body, updates, progressed, results, errored, hasErrored, discarded,
                     aborted, interruptible, pass>>
  BY DEF IInv, OrderInv, Unscanned, stopVars
<1>2. consumer' # "dropped"
  BY DEF ScanTo
<1>3. \A i \in Slots : status'[i] = status[i] \/ (status[i] = "completed" /\ status'[i] = "yielded")
  <2>1. CASE UNCHANGED status
    BY <2>1
  <2>2. ASSUME NEW j, j = NextYield(n), j # 0, ~(progress[j] > 0)
        PROVE  status[j] = "completed"
    BY <1>1, <2>2, NextYieldFacts
  <2>3. status' = status \/ \E j : /\ j = NextYield(n) /\ j # 0 /\ ~(progress[j] > 0)
                                   /\ status' = [status EXCEPT ![j] = "yielded"]
    BY DEF ScanTo
  <2> QED
    BY <1>1, <2>2, <2>3 DEF TypeOK
<1>4. DiscardOK' /\ SoleSettled' /\ UpdatesOK'
  BY <1>1, <1>2 DEF AnswerInv, DiscardOK, SoleSettled, UpdatesOK
<1>5. AnswersOK'
  <2> SUFFICES ASSUME ~discarded, NEW i \in Slots PROVE AnswerAt(i)'
    BY <1>1 DEF AnswersOK
  <2>1. AnswerAt(i)
    BY <1>1 DEF AnswerInv, AnswersOK
  <2>2. AbortReason(kinds[i])' = AbortReason(kinds[i])
    BY <1>1 DEF AbortReason
  <2> QED
    BY <1>1, <1>3, <2>1, <2>2 DEF AnswerAt
<1> QED
  BY <1>4, <1>5 DEF AnswerInv

LEMMA StreamScanStep == IInv /\ StreamScan => IInv'
<1> SUFFICES ASSUME IInv, StreamScan PROVE IInv'
  OBVIOUS
<1>1. PICK n \in {1, scan} :
        /\ ScanTo(n, "streamScan", "stream")
        /\ n = 1 \/ consumer = "streamScan"
        /\ consumer # "dropped"
  BY DEF StreamScan
<1>2. n \in Nat \ {0} /\ Scanned(n)
  BY <1>1, AddedFacts, BoundsAssumption
     DEF IInv, OrderInv, TypeOK, ScanOK, Scanned
<1>3. UNCHANGED Unscanned /\ raced' \in SUBSET Added
  BY DEF StreamScan, IInv, OrderInv, TypeOK
<1>4. OrderInv'
  BY <1>1, <1>2, <1>3, ScanOrder
<1>5. AnswerInv'
  BY <1>1, <1>2, <1>3, ScanAnswers
<1> QED
  BY <1>4, <1>5 DEF IInv

LEMMA LoopScanStep == IInv /\ LoopScan => IInv'
<1> SUFFICES ASSUME IInv, LoopScan PROVE IInv'
  OBVIOUS
<1>1. PICK n \in {1, scan} :
        /\ ScanTo(n, "scan", AfterScan)
        /\ n = 1 \/ consumer = "scan"
        /\ consumer # "dropped"
  BY DEF LoopScan
<1>2. n \in Nat \ {0} /\ Scanned(n)
  BY <1>1, AddedFacts, BoundsAssumption
     DEF IInv, OrderInv, TypeOK, ScanOK, Scanned
<1>3. UNCHANGED Unscanned /\ raced' \in SUBSET Added
  BY DEF LoopScan, Executing
<1>4. AfterScan \in {"stream", "wait", "loop"}
  BY DEF AfterScan
<1>5. OrderInv'
  BY <1>1, <1>2, <1>3, <1>4, ScanOrder
<1>6. AnswerInv'
  BY <1>1, <1>2, <1>3, <1>4, ScanAnswers
<1> QED
  BY <1>5, <1>6 DEF IInv
-----------------------------------------------------------------------------
(* Tools that execute.                                                     *)

LEMMA CompleteStep ==
  ASSUME IInv, NEW i \in Added, body[i] # "none", NEW rs \in Seq(Sorts), Complete(i, rs),
         ~discarded => OneAnswer(rs),
         UNCHANGED <<progress, errored, discarded, aborted, consumerVars>>
  PROVE  IInv'
<1>1. /\ TypeOK /\ OrderInv /\ AnswerInv
      /\ status' = [status EXCEPT ![i] = "completed"]
      /\ body' = [body EXCEPT ![i] = "none"]
      /\ updates' = [updates EXCEPT ![i] = <<>>]
      /\ results' = [results EXCEPT ![i] = rs]
      /\ pass' = [pass EXCEPT ![<<"done", i>>] = 1]
      /\ interruptible' = Interruptible(kinds, status')
      /\ UNCHANGED <<kinds, progressed, progress, errored, hasErrored, discarded, aborted,
                     consumer, scan, raced, delivered>>
  BY DEF IInv, OrderInv, Complete, consumerVars
<1>2. /\ Added = 1..Len(kinds) /\ Len(kinds) \in Nat /\ Added \subseteq Slots
      /\ Added' = Added
  BY <1>1, AddedFacts DEF Added
<1>3. i \in Slots /\ status[i] = "executing"
  BY <1>1, <1>2 DEF TypeOK
<1>4. /\ status'[i] = "completed" /\ body'[i] = "none" /\ updates'[i] = <<>> /\ results'[i] = rs
      /\ \A j \in Slots : j # i => /\ status'[j] = status[j] /\ body'[j] = body[j]
                                  /\ updates'[j] = updates[j] /\ results'[j] = results[j]
  BY <1>1, <1>3 DEF TypeOK
<1>5. /\ CallsOK(kinds, status')
      /\ \A n \in Nat : PassAt(kinds, status, n) => PassAt(kinds, status', n)
  BY <1>1, <1>3, EndOK DEF OrderInv, Added
<1>6. CallsOK(kinds, status)' /\ InterruptibleIsAccurate'
  BY <1>1, <1>5 DEF InterruptibleIsAccurate
<1>7. PassOK'
  <2>1. \A p \in Passes : pass[p] \in Nat /\ pass'[p] \in {pass[p], 1}
    BY <1>1, BoundsAssumption DEF TypeOK
  <2>2. PassAt(kinds, status', 1)
    BY <1>1, <1>5, PassAtFirst
  <2> QED
    BY <1>1, <1>5, <2>1, <2>2 DEF OrderInv, PassOK
<1>8. TypeOK'
  <2>1. \A j \in Slots : (status'[j] = "absent" <=> status[j] = "absent")
                       /\ (body'[j] # "none" <=> status'[j] = "executing")
    BY <1>1, <1>3, <1>4 DEF TypeOK
  <2>2. pass' \in [Passes -> 0..(MaxTools + 1)]
    <3>1. pass \in [Passes -> 0..(MaxTools + 1)] /\ 1 \in 0..(MaxTools + 1)
      BY <1>1, BoundsAssumption DEF TypeOK
    <3>2. pass' = [pass EXCEPT ![<<"done", i>>] = 1]
      BY <1>1
    <3> QED
      BY <3>1, <3>2
  <2>3. interruptible' \in BOOLEAN
    BY <1>1 DEF Interruptible
  <2>4. /\ status' \in [Slots -> {"absent", "queued", "executing", "completed", "yielded"}]
        /\ body' \in [Slots -> {"none", "io", "settled"}]
        /\ updates' \in [Slots -> Seq({"progress", "ok", "error", "note"})]
        /\ results' \in [Slots -> Seq(Sorts)]
    <3>1. /\ status \in [Slots -> {"absent", "queued", "executing", "completed", "yielded"}]
          /\ body \in [Slots -> {"none", "io", "settled"}]
          /\ updates \in [Slots -> Seq({"progress", "ok", "error", "note"})]
          /\ results \in [Slots -> Seq(Sorts)]
          /\ <<>> \in Seq({"progress", "ok", "error", "note"})
      BY <1>1 DEF TypeOK
    <3>2. /\ status' = [status EXCEPT ![i] = "completed"]
          /\ body' = [body EXCEPT ![i] = "none"]
          /\ updates' = [updates EXCEPT ![i] = <<>>]
          /\ results' = [results EXCEPT ![i] = rs]
      BY <1>1
    <3> QED
      BY <3>1, <3>2
  <2>5. TypeOK /\ Added' = Added
        /\ UNCHANGED <<kinds, progressed, progress, errored, hasErrored, discarded, aborted,
                      consumer, scan, raced, delivered>>
    BY <1>1, <1>2
  <2> QED
    BY <2>1, <2>2, <2>3, <2>4, <2>5 DEF TypeOK
<1>9. ProgressOK'
  <2>1. \A j \in Slots : Started(kinds, status, j) => Started(kinds, status', j)
    BY <1>4 DEF Started
  <2> QED
    BY <1>1, <1>2, <2>1 DEF OrderInv, ProgressOK, Started
<1>10. YieldedOK' /\ ScanOK' /\ ExclusiveYieldedFirst'
  <2>1. \A j \in Slots : status'[j] = "yielded" <=> status[j] = "yielded"
    BY <1>3, <1>4
  <2> QED
    BY <1>1, <1>2, <2>1, DeliveredStays DEF OrderInv
<1>11. DiscardOK' /\ SoleSettled' /\ UpdatesOK'
  BY <1>1, <1>4 DEF AnswerInv, DiscardOK, SoleSettled, UpdatesOK
<1>12. AnswersOK'
  <2> SUFFICES ASSUME ~discarded, NEW j \in Slots PROVE AnswerAt(j)'
    BY <1>1 DEF AnswersOK
  <2>1. AnswerAt(j)
    BY <1>1 DEF AnswerInv, AnswersOK
  <2>2. AbortReason(kinds[j])' = AbortReason(kinds[j])
    BY <1>1 DEF AbortReason
  <2>3. CASE j = i
    BY <1>4, <2>3 DEF AnswerAt
  <2>4. CASE j # i
    BY <1>1, <1>4, <2>1, <2>2, <2>4 DEF AnswerAt
  <2> QED
    BY <2>3, <2>4
<1> QED
  BY <1>6, <1>7, <1>8, <1>9, <1>10, <1>11, <1>12 DEF IInv, OrderInv, AnswerInv

LEMMA FinishStep ==
  ASSUME IInv, NEW i \in Added, Finish(i)
  PROVE  IInv'
<1>1. TypeOK /\ i \in Slots
  BY AddedFacts DEF IInv, OrderInv
<1>2. body[i] = "settled" /\ updates[i] = <<>> /\ results[i] \in Seq(Sorts)
  BY <1>1 DEF Finish, TypeOK
<1>3. ~discarded => OneAnswer(results[i])
  <2>1. ~AnswerToCome(<<>>)
    BY DEF AnswerToCome
  <2> QED
    BY <1>1, <1>2, <2>1 DEF IInv, AnswerInv, AnswersOK, AnswerAt
<1> QED
  BY <1>2, <1>3, CompleteStep DEF Finish

LEMMA ConsumeCancelledStep ==
  ASSUME IInv, NEW i \in Added, ConsumeCancelled(i)
  PROVE  IInv'
<1> DEFINE rs == Append(results[i], AbortReason(kinds[i]))
<1>1. TypeOK /\ i \in Slots /\ results[i] \in Seq(Sorts)
  BY AddedFacts DEF IInv, OrderInv, TypeOK
<1>2. /\ body[i] \in {"io", "settled"} /\ updates[i] # <<>>
      /\ AbortReason(kinds[i]) # "none" /\ ~errored[i]
  BY <1>1 DEF ConsumeCancelled, MustCancel, TypeOK
<1>3. AbortReason(kinds[i]) \in Answers /\ AbortReason(kinds[i]) \in Sorts
  BY <1>2 DEF AbortReason, Answers, Sorts
<1>4. rs \in Seq(Sorts)
  BY <1>1, <1>3, AppendProperties
<1>5. ~discarded => OneAnswer(rs)
  <2> SUFFICES ASSUME ~discarded PROVE OneAnswer(rs)
    OBVIOUS
  <2>1. results[i] = <<>>
    BY <1>1, <1>2 DEF IInv, AnswerInv, AnswersOK, AnswerAt
  <2>2. rs = <<AbortReason(kinds[i])>>
    BY <2>1
  <2> QED
    BY <1>3, <2>2 DEF OneAnswer
<1> QED
  BY <1>2, <1>4, <1>5, CompleteStep DEF ConsumeCancelled
\* Neither calls and passes nor what was yielded change.
LEMMA OrderKept ==
  ASSUME OrderInv, TypeOK', UNCHANGED <<kinds, status, pass, interruptible, delivered>>,
         \A i \in Slots : progress'[i] > 0 => progress[i] > 0 \/ status[i] = "executing",
         \/ consumer' \notin {"streamScan", "scan"}
         \/ UNCHANGED <<consumer, scan>>
  PROVE  OrderInv'
<1>1. CallsOK(kinds, status)' /\ PassOK' /\ InterruptibleIsAccurate'
  BY CallsStay DEF OrderInv
<1>2. YieldedOK' /\ ScanOK' /\ ExclusiveYieldedFirst'
  BY DeliveredStays DEF OrderInv, Added
<1>3. ProgressOK'
  <2>1. \A i \in Slots : status[i] = "executing" => i \in Added /\ Started(kinds, status, i)
    BY DEF OrderInv, TypeOK, CallsOK, KindsOK, Started, Added
  <2> QED
    BY <2>1 DEF OrderInv, ProgressOK, Started, Added
<1> QED
  BY <1>1, <1>2, <1>3 DEF OrderInv

Update == {"progress", "ok", "error", "note"}

\* Of the messages of a tool that has ended the first is progress or the answer.
LEMMA TakeAnswer ==
  ASSUME NEW u \in Seq(Update), AnswerToCome(u)
  PROVE  \/ Head(u) = "progress" /\ AnswerToCome(Tail(u))
         \/ Head(u) \in {"ok", "error"} /\ Tail(u) \in {<<>>, <<"note">>}
<1>1. PICK m \in DOMAIN u :
        /\ \A l \in 1..(m - 1) : u[l] = "progress"
        /\ u[m] \in {"ok", "error"}
        /\ Len(u) = m \/ (Len(u) = m + 1 /\ u[m + 1] = "note")
  BY DEF AnswerToCome
<1>2. DOMAIN u = 1..Len(u) /\ Len(u) \in Nat
  BY LenProperties
<1>3. u # <<>> /\ Head(u) = u[1]
  BY <1>1, <1>2
<1>4. /\ Tail(u) \in Seq(Update) /\ Len(Tail(u)) = Len(u) - 1
      /\ \A l \in 1..Len(Tail(u)) : Tail(u)[l] = u[l + 1]
  BY <1>3, HeadTailProperties
<1>5. DOMAIN Tail(u) = 1..(Len(u) - 1)
  BY <1>4, LenProperties
<1>6. CASE m = 1
  <2>1. CASE Len(u) = m
    BY <1>1, <1>3, <1>4, <1>6, <2>1, EmptySeq
  <2>2. CASE Len(u) = m + 1 /\ u[m + 1] = "note"
    <3>1. Len(Tail(u)) = 1 /\ Tail(u)[1] = "note"
      BY <1>4, <1>6, <2>2
    <3>2. Len(<<"note">>) = 1 /\ <<"note">>[1] = "note" /\ <<"note">> \in Seq(Update)
      BY DEF Update
    <3>3. \A l \in 1..1 : Tail(u)[l] = <<"note">>[l]
      BY <3>1, <3>2
    <3>4. Tail(u) = <<"note">>
      BY <1>4, <3>1, <3>2, <3>3, SeqEqual
    <3> QED
      BY <1>1, <1>3, <1>6, <3>4
  <2> QED
    BY <1>1, <2>1, <2>2
<1>7. CASE m # 1
  <2>1. m - 1 \in DOMAIN Tail(u) /\ m \in Nat /\ 1 < m
    BY <1>1, <1>2, <1>5, <1>7
  <2>2. Head(u) = "progress"
    BY <1>1, <1>3, <2>1
  <2>3. \A l \in 1..(m - 2) : Tail(u)[l] = "progress"
    <3> SUFFICES ASSUME NEW l \in 1..(m - 2) PROVE Tail(u)[l] = "progress"
      OBVIOUS
    <3>1. l + 1 \in 1..(m - 1) /\ l \in 1..Len(Tail(u))
      BY <1>2, <1>4, <1>5, <2>1
    <3> QED
      BY <1>1, <1>4, <3>1
  <2>4. Tail(u)[m - 1] = u[m]
    BY <1>4, <1>5, <2>1
  <2>5. Len(Tail(u)) = m - 1 \/ (Len(Tail(u)) = (m - 1) + 1 /\ Tail(u)[(m - 1) + 1] = "note")
    <3>1. CASE Len(u) = m
      BY <1>4, <3>1
    <3>2. CASE Len(u) = m + 1 /\ u[m + 1] = "note"
      <4>1. Len(Tail(u)) = m /\ m \in 1..Len(Tail(u))
        BY <1>4, <2>1, <3>2
      <4>2. Tail(u)[m] = "note"
        BY <1>4, <3>2, <4>1
      <4> QED
        BY <2>1, <4>1, <4>2
    <3> QED
      BY <1>1, <3>1, <3>2
  <2>6. \A l \in 1..((m - 1) - 1) : Tail(u)[l] = "progress"
    BY <2>1, <2>3
  <2>7. AnswerToCome(Tail(u))
    BY <1>1, <2>1, <2>4, <2>5, <2>6 DEF AnswerToCome
  <2> QED
    BY <2>2, <2>7
<1> QED
  BY <1>6, <1>7

\* A tool ends: its answer is to come after its progress.
LEMMA PutAnswer ==
  ASSUME NEW u \in Seq(Update), \A n \in DOMAIN u : u[n] = "progress",
         NEW sort \in {"ok", "error"}, NEW w, w \in {<<sort>>, <<sort, "note">>}
  PROVE  AnswerToCome(u \o w) /\ u \o w \in Seq(Update)
<1>1. w \in Seq(Update) /\ Len(w) \in {1, 2} /\ w[1] = sort /\ (Len(w) = 2 => w[2] = "note")
  <2>1. CASE w = <<sort>>
    BY <2>1 DEF Update
  <2>2. CASE w = <<sort, "note">>
    BY <2>2 DEF Update
  <2> QED
    BY <2>1, <2>2
<1>2. /\ u \o w \in Seq(Update) /\ Len(u \o w) = Len(u) + Len(w)
      /\ \A i \in 1..Len(u \o w) :
           (u \o w)[i] = IF i =< Len(u) THEN u[i] ELSE w[i - Len(u)]
  BY <1>1, ConcatProperties
<1>3. Len(u) \in Nat /\ DOMAIN u = 1..Len(u)
  BY LenProperties
<1>4. DOMAIN (u \o w) = 1..(Len(u) + Len(w))
  BY <1>2, LenProperties
<1> DEFINE m == Len(u) + 1
<1>5. m \in DOMAIN (u \o w) /\ m \in 1..Len(u \o w) /\ m \in Nat
  BY <1>1, <1>2, <1>3, <1>4
<1>6. (u \o w)[m] = sort
  BY <1>1, <1>2, <1>3, <1>5
<1>7. \A l \in 1..(m - 1) : (u \o w)[l] = "progress"
  <2> SUFFICES ASSUME NEW l \in 1..(m - 1) PROVE (u \o w)[l] = "progress"
    OBVIOUS
  <2>1. l \in DOMAIN u /\ l \in 1..Len(u \o w) /\ l =< Len(u)
    BY <1>1, <1>2, <1>3
  <2> QED
    BY <1>2, <2>1
<1>8. Len(u \o w) = m \/ (Len(u \o w) = m + 1 /\ (u \o w)[m + 1] = "note")
  <2>1. CASE Len(w) = 1
    BY <1>2, <1>3, <2>1
  <2>2. CASE Len(w) = 2
    <3>1. Len(u \o w) = m + 1 /\ m + 1 \in 1..Len(u \o w) /\ ~(m + 1 =< Len(u))
          /\ m + 1 - Len(u) = 2
      BY <1>2, <1>3, <2>2
    <3>2. (u \o w)[m + 1] = w[2]
      BY <1>2, <3>1
    <3> QED
      BY <1>1, <2>2, <3>1, <3>2
  <2> QED
    BY <1>1, <2>1, <2>2
<1> HIDE DEF m
<1>9. AnswerToCome(u \o w)
  BY <1>5, <1>6, <1>7, <1>8 DEF AnswerToCome
<1> QED
  BY <1>2, <1>9
LEMMA ConsumeStep ==
  ASSUME IInv, NEW i \in Added, Consume(i)
  PROVE  IInv'
<1> DEFINE sort == Head(updates[i])
<1>1. TypeOK /\ OrderInv /\ AnswerInv /\ i \in Slots
  BY AddedFacts DEF IInv, OrderInv
<1>2. /\ body[i] \in {"io", "settled"} /\ updates[i] # <<>> /\ ~MustCancel(i)
      /\ updates' = [updates EXCEPT ![i] = Tail(updates[i])]
      /\ errored' = [errored EXCEPT ![i] = errored[i] \/ sort = "error"]
      /\ hasErrored' = (hasErrored \/ (sort = "error" /\ kinds[i].bash))
      /\ IF sort = "progress"
           THEN progress' = [progress EXCEPT ![i] = @ + 1] /\ UNCHANGED results
           ELSE results' = [results EXCEPT ![i] = Append(results[i], sort)] /\ UNCHANGED progress
      /\ UNCHANGED <<kinds, status, body, progressed, discarded, aborted, interruptible, pass,
                     consumer, scan, raced, delivered>>
  BY <1>1 DEF Consume, TypeOK, consumerVars
<1>3. /\ updates[i] \in Seq(Update) /\ sort \in Update /\ Tail(updates[i]) \in Seq(Update)
      /\ results[i] \in Seq(Sorts) /\ updates \in [Slots -> Seq(Update)]
      /\ Len(Tail(updates[i])) = Len(updates[i]) - 1 /\ Len(updates[i]) \in Nat
      /\ \A n \in 1..Len(Tail(updates[i])) : Tail(updates[i])[n] = updates[i][n + 1]
  <2>1. updates \in [Slots -> Seq(Update)] /\ updates[i] \in Seq(Update) /\ results[i] \in Seq(Sorts)
    BY <1>1 DEF TypeOK, Update
  <2> QED
    BY <1>2, <2>1, HeadTailProperties, LenProperties
<1>4. updates[i][1] = sort /\ 1 \in DOMAIN updates[i]
  <2>1. Len(updates[i]) # 0 /\ DOMAIN updates[i] = 1..Len(updates[i])
    BY <1>2, <1>3, EmptySeq, LenProperties
  <2> QED
    BY <1>3, <2>1
<1> HIDE DEF sort
<1>5. TypeOK'
  <2>1. updates' \in [Slots -> Seq({"progress", "ok", "error", "note"})]
    <3>1. updates' \in [Slots -> Seq(Update)]
      BY <1>2, <1>3
    <3> QED
      BY <3>1 DEF Update
  <2>2. results' \in [Slots -> Seq(Sorts)]
    <3>1. results \in [Slots -> Seq(Sorts)]
      BY <1>1 DEF TypeOK
    <3>2. sort # "progress" => Append(results[i], sort) \in Seq(Sorts)
      BY <1>3, AppendProperties DEF Update, Sorts, Answers
    <3> QED
      BY <1>2, <3>1, <3>2
  <2>3. progress' \in [Slots -> Nat]
    <3>1. progress \in [Slots -> Nat]
      BY <1>1 DEF TypeOK
    <3> QED
      BY <1>1, <1>2, <3>1
  <2>4. errored' \in [Slots -> BOOLEAN] /\ hasErrored' \in BOOLEAN
    <3>1. errored \in [Slots -> BOOLEAN] /\ hasErrored \in BOOLEAN
      BY <1>1 DEF TypeOK
    <3>2. (errored[i] \/ sort = "error") \in BOOLEAN
      OBVIOUS
    <3>3. errored' = [errored EXCEPT ![i] = errored[i] \/ sort = "error"]
      BY <1>2
    <3>4. errored' \in [Slots -> BOOLEAN]
      BY <3>1, <3>2, <3>3
    <3>5. hasErrored' = (hasErrored \/ (sort = "error" /\ kinds[i].bash))
      BY <1>2
    <3>6. hasErrored' \in BOOLEAN
      BY <3>5
    <3> QED
      BY <3>4, <3>6
  <2>5. Added' = Added
    BY <1>2 DEF Added
  <2> QED
    BY <1>1, <1>2, <2>1, <2>2, <2>3, <2>4, <2>5 DEF TypeOK
<1>6. OrderInv'
  <2>1. \A j \in Slots : progress'[j] > 0 => progress[j] > 0 \/ status[j] = "executing"
    <3>1. status[i] = "executing"
      BY <1>1, <1>2 DEF TypeOK
    <3>2. \A j \in Slots : j # i => progress'[j] = progress[j]
      BY <1>1, <1>2 DEF TypeOK
    <3> QED
      BY <3>1, <3>2
  <2> QED
    BY <1>1, <1>2, <1>5, <2>1, OrderKept
<1>7. /\ updates'[i] = Tail(updates[i])
      /\ \A j \in Slots : j # i => /\ updates'[j] = updates[j] /\ errored'[j] = errored[j]
                                  /\ results'[j] = results[j]
  BY <1>1, <1>2, <1>3 DEF TypeOK
<1>8. errored'[i] <=> (errored[i] \/ sort = "error")
  BY <1>1, <1>2 DEF TypeOK
<1>9. DiscardOK' /\ SoleSettled' /\ UpdatesOK'
  BY <1>1, <1>2, <1>7 DEF AnswerInv, DiscardOK, SoleSettled, UpdatesOK
<1>10. AnswersOK'
  <2> SUFFICES ASSUME ~discarded, NEW j \in Slots PROVE AnswerAt(j)'
    BY <1>2 DEF AnswersOK
  <2>1. AnswerAt(j) /\ AnswerAt(i)
    BY <1>1 DEF AnswerInv, AnswersOK
  <2>2. CASE j # i
    <3>1. body[j] # "settled"
      BY <1>1, <1>2, <2>2 DEF AnswerInv, SoleSettled
    <3> QED
      BY <1>2, <1>7, <2>1, <2>2, <3>1 DEF AnswerAt
  <2>3. CASE j = i /\ body[i] = "io"
    <3>1. results[i] = <<>> /\ ~errored[i] /\ \A n \in DOMAIN updates[i] : updates[i][n] = "progress"
      BY <2>1, <2>3 DEF AnswerAt
    <3>2. sort = "progress"
      BY <1>4, <3>1
    <3>3. results'[i] = <<>> /\ ~errored'[i]
      BY <1>2, <1>8, <3>1, <3>2
    <3>4. \A n \in DOMAIN Tail(updates[i]) : Tail(updates[i])[n] = "progress"
      <4>1. /\ DOMAIN Tail(updates[i]) = 1..Len(Tail(updates[i]))
            /\ DOMAIN updates[i] = 1..Len(updates[i])
        BY <1>3, LenProperties
      <4> QED
        BY <1>3, <3>1, <4>1
    <3>5. status'[i] = "executing" /\ body'[i] = "io"
      BY <1>1, <1>2, <2>3 DEF TypeOK
    <3>6. \A n \in DOMAIN updates'[i] : updates'[i][n] = "progress"
      BY <1>7, <3>4
    <3> QED
      BY <2>3, <3>3, <3>5, <3>6 DEF AnswerAt
  <2>4. CASE j = i /\ body[i] = "settled"
    <3>1. \/ results[i] = <<>> /\ ~errored[i] /\ AnswerToCome(updates[i])
          \/ OneAnswer(results[i]) /\ updates[i] = <<"note">>
      BY <1>2, <2>1, <2>4 DEF AnswerAt
    <3>2. status'[i] = "executing" /\ body'[i] = "settled"
      BY <1>1, <1>2, <2>4 DEF TypeOK
    <3>3. CASE results[i] = <<>> /\ ~errored[i] /\ sort = "progress" /\ AnswerToCome(Tail(updates[i]))
      BY <1>2, <1>7, <1>8, <2>4, <3>2, <3>3 DEF AnswerAt
    <3>4. CASE /\ results[i] = <<>> /\ ~errored[i] /\ sort \in {"ok", "error"}
               /\ Tail(updates[i]) \in {<<>>, <<"note">>}
      <4>1. results'[i] = <<sort>>
        BY <1>1, <1>2, <3>4 DEF TypeOK
      <4>2. OneAnswer(<<sort>>)
        BY <3>4 DEF OneAnswer, Answers
      <4>3. ~errored'[i] => AbortReason(kinds[i])' = "none"
        <5>1. AbortReason(kinds[i]) = "none"
          BY <1>2, <3>4 DEF MustCancel
        <5>2. ~errored'[i] => hasErrored' = hasErrored
          BY <1>1, <1>2, <1>8 DEF TypeOK
        <5> QED
          BY <1>2, <5>1, <5>2 DEF AbortReason
      <4> QED
        BY <1>7, <2>4, <3>2, <3>4, <4>1, <4>2, <4>3 DEF AnswerAt
    <3>5. CASE OneAnswer(results[i]) /\ updates[i] = <<"note">>
      <4>1. sort = "note" /\ Tail(updates[i]) = <<>>
        BY <3>5 DEF sort
      <4>2. results'[i] = Append(results[i], "note")
        BY <1>1, <1>2, <4>1 DEF TypeOK
      <4>3. OneAnswer(Append(results[i], "note"))
        <5> DEFINE r == results[i]
        <5>1. /\ "note" \in Sorts /\ r \in Seq(Sorts) /\ Len(r) \in Nat /\ r # <<>>
              /\ Len(r) # 0
          BY <1>3, <3>5, EmptySeq, LenProperties DEF Sorts, OneAnswer
        <5>2. /\ Len(Append(r, "note")) = Len(r) + 1 /\ Append(r, "note") # <<>>
              /\ Append(r, "note")[Len(r) + 1] = "note"
              /\ \A n \in 1..Len(r) : Append(r, "note")[n] = r[n]
          BY <5>1, AppendProperties
        <5>3. \A n \in 2..(Len(r) + 1) : n = Len(r) + 1 \/ n \in 2..Len(r)
          BY <5>1
        <5>4. 1 \in 1..Len(r) /\ \A n \in 2..Len(r) : n \in 1..Len(r)
          BY <5>1
        <5> HIDE DEF r
        <5>5. "note" \notin Answers /\ OneAnswer(r)
          BY <3>5 DEF r, Answers
        <5> QED
          BY <5>2, <5>3, <5>4, <5>5 DEF OneAnswer, r
      <4> QED
        BY <1>7, <2>4, <3>2, <4>1, <4>2, <4>3 DEF AnswerAt
    <3>6. ASSUME AnswerToCome(updates[i])
          PROVE  \/ sort = "progress" /\ AnswerToCome(Tail(updates[i]))
                 \/ sort \in {"ok", "error"} /\ Tail(updates[i]) \in {<<>>, <<"note">>}
      BY <1>3, <3>6, TakeAnswer DEF sort
    <3> QED
      BY <3>1, <3>3, <3>4, <3>5, <3>6
  <2> QED
    BY <1>2, <2>2, <2>3, <2>4
<1> QED
  BY <1>6, <1>9, <1>10 DEF IInv, AnswerInv
\* When only what the tools answer is at stake, the tool i produces messages w.
LEMMA ProduceStep ==
  ASSUME IInv, NEW i \in Added, body[i] = "io", NEW w \in Seq(Update), Produce(i, w),
         NEW b \in {"io", "settled"}, body' = [body EXCEPT ![i] = b],
         \A j \in Slots : j # i => updates[j] = <<>> /\ body[j] # "settled",
         b = "io" => \A n \in DOMAIN w : w[n] = "progress",
         b = "settled" => \E sort \in {"ok", "error"} : w \in {<<sort>>, <<sort, "note">>},
         progressed' \in 0..MaxProgress,
         UNCHANGED <<kinds, status, progress, results, errored, stopVars, interruptible, pass,
                     consumerVars>>
  PROVE  IInv'
<1>1. /\ TypeOK /\ OrderInv /\ AnswerInv /\ i \in Slots /\ Added' = Added
      /\ UNCHANGED <<kinds, status, progress, results, errored, hasErrored, discarded, aborted,
                     interruptible, pass, consumer, scan, raced, delivered>>
  BY AddedFacts DEF IInv, OrderInv, Added, stopVars, consumerVars
<1>2. updates \in [Slots -> Seq(Update)] /\ updates[i] \in Seq(Update)
      /\ body \in [Slots -> {"none", "io", "settled"}] /\ status[i] = "executing"
  BY <1>1 DEF TypeOK, Update
<1>3. updates[i] \o w \in Seq(Update)
  BY <1>2, ConcatProperties
<1>4. updates' = [updates EXCEPT ![i] = updates[i] \o w]
  BY DEF Produce
<1>5. /\ updates'[i] = updates[i] \o w /\ body'[i] = b
      /\ \A j \in Slots : j # i => updates'[j] = updates[j] /\ body'[j] = body[j]
      /\ updates' \in [Slots -> Seq(Update)] /\ body' \in [Slots -> {"none", "io", "settled"}]
  BY <1>1, <1>2, <1>3, <1>4
<1>6. TypeOK'
  <2>1. \A j \in Slots : body'[j] # "none" <=> status'[j] = "executing"
    BY <1>1, <1>2, <1>5 DEF TypeOK
  <2>2. updates' \in [Slots -> Seq({"progress", "ok", "error", "note"})]
    BY <1>5 DEF Update
  <2> QED
    BY <1>1, <1>5, <2>1, <2>2 DEF TypeOK
<1>7. OrderInv'
  BY <1>1, <1>6, OrderKept
<1>8. DiscardOK' /\ SoleSettled' /\ UpdatesOK'
  BY <1>1, <1>5 DEF AnswerInv, DiscardOK, SoleSettled, UpdatesOK
<1>9. AnswersOK'
  <2> SUFFICES ASSUME ~discarded, NEW j \in Slots PROVE AnswerAt(j)'
    BY <1>1 DEF AnswersOK
  <2>1. AnswerAt(j)
    BY <1>1 DEF AnswerInv, AnswersOK
  <2>2. CASE j # i
    <3>1. body'[j] # "settled"
      BY <1>5, <2>2
    <3> QED
      BY <1>1, <1>5, <2>1, <2>2, <3>1 DEF AnswerAt
  <2>3. CASE j = i
    <3>1. /\ results'[i] = <<>> /\ ~errored'[i] /\ status'[i] = "executing"
          /\ \A n \in DOMAIN updates[i] : updates[i][n] = "progress"
      BY <1>1, <1>2, <2>1, <2>3 DEF AnswerAt
    <3>2. CASE b = "io"
      <4>1. \A n \in DOMAIN (updates[i] \o w) : (updates[i] \o w)[n] = "progress"
        <5> DEFINE u == updates[i]
        <5>1. /\ u \in Seq(Update) /\ Len(u) \in Nat /\ DOMAIN u = 1..Len(u)
              /\ Len(w) \in Nat /\ DOMAIN w = 1..Len(w)
          BY <1>2, LenProperties
        <5>2. /\ u \o w \in Seq(Update) /\ Len(u \o w) = Len(u) + Len(w)
              /\ \A n \in 1..Len(u \o w) :
                   (u \o w)[n] = IF n =< Len(u) THEN u[n] ELSE w[n - Len(u)]
          BY <5>1, ConcatProperties
        <5>3. DOMAIN (u \o w) = 1..(Len(u) + Len(w))
          BY <5>2, LenProperties
        <5>4. \A n \in 1..(Len(u) + Len(w)) : n \in DOMAIN u \/ n - Len(u) \in DOMAIN w
          BY <5>1
        <5>5. \A n \in DOMAIN u : u[n] = "progress"
          BY <3>1
        <5> HIDE DEF u
        <5>6. \A n \in DOMAIN (u \o w) : (u \o w)[n] = "progress"
          <6> SUFFICES ASSUME NEW n \in DOMAIN (u \o w) PROVE (u \o w)[n] = "progress"
            OBVIOUS
          <6>1. CASE n =< Len(u)
            BY <5>1, <5>2, <5>3, <5>5, <6>1
          <6>2. CASE ~(n =< Len(u))
            BY <3>2, <5>1, <5>2, <5>3, <6>2
          <6> QED
            BY <6>1, <6>2
        <5> QED
          BY <5>6 DEF u
      <4> QED
        BY <1>5, <2>3, <3>1, <3>2, <4>1 DEF AnswerAt
    <3>3. CASE b = "settled"
      <4>1. PICK sort \in {"ok", "error"} : w \in {<<sort>>, <<sort, "note">>}
        BY <3>3
      <4>2. AnswerToCome(updates[i] \o w)
        BY <1>2, <3>1, <4>1, PutAnswer
      <4> QED
        BY <1>5, <2>3, <3>1, <3>3, <4>2 DEF AnswerAt
    <3> QED
      BY <3>2, <3>3
  <2> QED
    BY <2>2, <2>3
<1> QED
  BY <1>7, <1>8, <1>9 DEF IInv, AnswerInv

LEMMA QuietFacts ==
  ASSUME TypeOK, UpdatesOK, Quiet
  PROVE  \A j \in Slots : updates[j] = <<>> /\ body[j] # "settled"
  BY DEF TypeOK, UpdatesOK, Quiet

LEMMA ProgressStep ==
  ASSUME IInv, NEW i \in Added, Progress(i)
  PROVE  IInv'
<1>1. TypeOK /\ UpdatesOK /\ i \in Slots
  BY AddedFacts DEF IInv, OrderInv, AnswerInv
<1>2. body[i] = "io" /\ body' = [body EXCEPT ![i] = "io"]
  BY <1>1 DEF Progress, TypeOK
<1>3. progressed' \in 0..MaxProgress
  BY <1>1, BoundsAssumption DEF Progress, TypeOK
<1>4. <<"progress">> \in Seq(Update) /\ \A n \in DOMAIN <<"progress">> : <<"progress">>[n] = "progress"
  BY DEF Update
<1>5. \A j \in Slots : updates[j] = <<>> /\ body[j] # "settled"
  BY <1>1, QuietFacts DEF Progress
<1>6. /\ Produce(i, <<"progress">>)
      /\ UNCHANGED <<kinds, status, progress, results, errored, stopVars, interruptible, pass,
                     consumerVars>>
  BY DEF Progress
<1> QED
  BY <1>2, <1>3, <1>4, <1>5, <1>6, ProduceStep

LEMMA SettleStep ==
  ASSUME IInv, NEW i \in Added, Settle(i)
  PROVE  IInv'
<1>1. TypeOK /\ UpdatesOK /\ i \in Slots /\ CallsOK(kinds, status)
  BY AddedFacts DEF IInv, OrderInv, AnswerInv
<1>2. /\ body[i] = "io" /\ body' = [body EXCEPT ![i] = "settled"]
      /\ progressed' \in 0..MaxProgress
      /\ UNCHANGED <<kinds, status, progress, results, errored, stopVars, interruptible, pass,
                     consumerVars>>
  BY <1>1 DEF Settle, TypeOK
<1>3. \A j \in Slots : j # i => updates[j] = <<>> /\ body[j] # "settled"
  <2>1. CASE Quiet
    BY <1>1, <2>1, QuietFacts
  <2>2. CASE kinds[i].quick
    <3>1. ~kinds[i].safe /\ status[i] = "executing"
      BY <1>1, <1>2, <2>2, CallFacts DEF CallsOK, Added, TypeOK
    <3>2. \A j \in Slots : j # i => body[j] = "none"
      BY <1>1, <3>1 DEF CallsOK, AloneOK, TypeOK, Added
    <3> QED
      BY <1>1, <3>2 DEF UpdatesOK
  <2> QED
    BY <2>1, <2>2 DEF Settle
<1>4. PICK sort \in {"ok", "error"} : \E w \in {<<sort>>, <<sort, "note">>} : Produce(i, w)
  <2>1. CASE Produce(i, <<"error">>)
    BY <2>1
  <2>2. CASE \E sort \in {"ok", "error"}, more \in {<<>>, <<"note">>} : Produce(i, <<sort>> \o more)
    <3>1. PICK sort \in {"ok", "error"}, more \in {<<>>, <<"note">>} : Produce(i, <<sort>> \o more)
      BY <2>2
    <3>2. <<sort>> \in Seq(Update) /\ <<"note">> \in Seq(Update) /\ <<sort, "note">> \in Seq(Update)
      BY DEF Update
    <3>3. <<sort>> \o <<>> = <<sort>>
      BY <3>2, ConcatEmptySeq
    <3>4. <<sort>> \o <<"note">> = <<sort, "note">>
      <4> DEFINE c == <<sort>> \o <<"note">>
                 d == <<sort, "note">>
      <4>1. /\ c \in Seq(Update) /\ Len(c) = Len(<<sort>>) + Len(<<"note">>)
            /\ \A n \in 1..Len(c) :
                 c[n] = IF n =< Len(<<sort>>) THEN <<sort>>[n] ELSE <<"note">>[n - Len(<<sort>>)]
        BY <3>2, ConcatProperties
      <4>2. Len(<<sort>>) = 1 /\ Len(<<"note">>) = 1 /\ <<sort>>[1] = sort /\ <<"note">>[1] = "note"
        OBVIOUS
      <4>3. d \in Seq(Update) /\ Len(d) = 2 /\ d[1] = sort /\ d[2] = "note"
        BY <3>2
      <4> HIDE DEF c, d
      <4>4. Len(c) = 2 /\ c[1] = sort /\ c[2] = "note"
        BY <4>1, <4>2
      <4>5. \A n \in 1..2 : c[n] = d[n]
        <5>1. \A n \in 1..2 : n = 1 \/ n = 2
          OBVIOUS
        <5> QED
          BY <4>3, <4>4, <5>1
      <4>6. c = d
        BY <4>1, <4>3, <4>4, <4>5, SeqEqual
      <4> QED
        BY <4>6 DEF c, d
    <3> QED
      BY <3>1, <3>3, <3>4
  <2> QED
    BY <2>1, <2>2 DEF Settle
<1>5. PICK w \in {<<sort>>, <<sort, "note">>} : Produce(i, w)
  BY <1>4
<1>6. w \in Seq(Update)
  <2>1. <<sort>> \in Seq(Update) /\ <<sort, "note">> \in Seq(Update)
    BY DEF Update
  <2> QED
    BY <2>1
<1> QED
  BY <1>2, <1>3, <1>5, <1>6, ProduceStep
-----------------------------------------------------------------------------
(* The query loop, and every step.                                         *)

\* The query loop moves on, or it is stopped.
LEMMA LoopStep ==
  ASSUME IInv, UNCHANGED <<kinds, status, body, updates, progressed, progress, results, errored,
                           hasErrored, interruptible, pass, delivered>>,
         \/ consumer' \in {"loop", "returned", "dropped"} /\ aborted' = aborted
         \/ /\ UNCHANGED consumer /\ aborted' \in {"interrupt", "cancel"}
            /\ \A j \in Slots : body[j] # "settled",
         discarded' = (consumer' = "dropped"), discarded => discarded',
         scan' = scan, raced' \in SUBSET Added
  PROVE  IInv'
<1>1. TypeOK /\ OrderInv /\ AnswerInv /\ Added' = Added
  BY DEF IInv, OrderInv, Added
<1>2. TypeOK'
  <2>1. discarded' \in BOOLEAN
    OBVIOUS
  <2>2. aborted' \in {"no", "interrupt", "cancel"}
    BY <1>1 DEF TypeOK
  <2>3. consumer' \in {"stream", "streamScan", "dropped", "loop", "pass", "scan", "wait",
                      "returned"}
    BY <1>1 DEF TypeOK
  <2> QED
    BY <1>1, <2>1, <2>2, <2>3 DEF TypeOK
<1>3. OrderInv'
  BY <1>1, <1>2, OrderKept
<1>4. DiscardOK' /\ SoleSettled' /\ UpdatesOK'
  BY <1>1 DEF AnswerInv, DiscardOK, SoleSettled, UpdatesOK
<1>5. AnswersOK'
  <2> SUFFICES ASSUME ~discarded', NEW j \in Slots PROVE AnswerAt(j)'
    BY DEF AnswersOK
  <2>1. AnswerAt(j)
    BY <1>1 DEF AnswerInv, AnswersOK
  <2>2. CASE aborted' = aborted
    <3>1. AbortReason(kinds[j])' = AbortReason(kinds[j])
      BY <1>1, <2>2 DEF AbortReason, AnswerInv, DiscardOK
    <3> QED
      BY <2>1, <3>1 DEF AnswerAt
  <2>3. CASE \A l \in Slots : body[l] # "settled"
    BY <2>1, <2>3 DEF AnswerAt
  <2> QED
    BY <2>2, <2>3
<1> QED
  BY <1>3, <1>4, <1>5 DEF IInv, AnswerInv

LEMMA StepIInv == IInv /\ [Next]_vars => IInv'
<1> SUFFICES ASSUME IInv, [Next]_vars PROVE IInv'
  OBVIOUS
<1> USE DEF stopVars, toolVars, consumerVars, Unscanned
<1>1. /\ TypeOK /\ UpdatesOK /\ raced \in SUBSET Added
      /\ discarded \in BOOLEAN /\ (discarded <=> consumer = "dropped")
  BY DEF IInv, OrderInv, AnswerInv, DiscardOK, TypeOK
<1>2. ASSUME NEW k, AddTool(k) PROVE IInv'
  BY <1>2, AddToolStep
<1>3. CASE \E p \in Passes : ResumePass(p)
  BY <1>3, ResumePassStep
<1>4. ASSUME NEW i \in Added, Progress(i) PROVE IInv'
  BY <1>4, ProgressStep
<1>5. ASSUME NEW i \in Added, Settle(i) PROVE IInv'
  BY <1>5, SettleStep
<1>6. ASSUME NEW i \in Added, ConsumeCancelled(i) PROVE IInv'
  BY <1>6, ConsumeCancelledStep
<1>7. ASSUME NEW i \in Added, Consume(i) PROVE IInv'
  BY <1>7, ConsumeStep
<1>8. ASSUME NEW i \in Added, Finish(i) PROVE IInv'
  BY <1>8, FinishStep
<1>9. CASE StreamScan
  BY <1>9, StreamScanStep
<1>10. CASE LoopPass
  BY <1>10, LoopPassStep
<1>11. CASE LoopScan
  BY <1>11, LoopScanStep
<1>12. ASSUME NEW i \in Added, Reject(i) PROVE IInv'
  BY <1>1, <1>12, QuietFacts, LoopStep DEF Reject
<1>13. ASSUME NEW reason \in {"interrupt", "cancel"}, UserAborts(reason) PROVE IInv'
  BY <1>1, <1>13, QuietFacts, LoopStep DEF UserAborts
<1>14. CASE Discard
  BY <1>1, <1>14, LoopStep DEF Discard
<1>15. CASE BeginCollect
  BY <1>1, <1>15, LoopStep DEF BeginCollect
<1>16. CASE LoopEnds
  BY <1>1, <1>16, LoopStep DEF LoopEnds
<1>17. CASE WaitEnds
  BY <1>1, <1>17, LoopStep DEF WaitEnds
<1>18. CASE UNCHANGED vars
  <2>1. UNCHANGED <<kinds, status, body, updates, progressed, progress, results, errored,
                    hasErrored, discarded, aborted, interruptible, pass, consumer, scan, raced,
                    delivered>>
    BY <1>18 DEF vars
  <2>2. TypeOK'
    BY <1>1, <2>1 DEF TypeOK, Added
  <2>3. OrderInv'
    BY <2>1, <2>2, OrderKept DEF IInv
  <2>4. \A i \in Slots : AnswerAt(i) => AnswerAt(i)'
    BY <2>1 DEF AnswerAt, AbortReason
  <2>5. AnswerInv'
    BY <2>1, <2>4 DEF IInv, AnswerInv, DiscardOK, SoleSettled, UpdatesOK, AnswersOK
  <2> QED
    BY <2>3, <2>5 DEF IInv
<1> QED
  BY <1>2, <1>3, <1>4, <1>5, <1>6, <1>7, <1>8, <1>9, <1>10, <1>11, <1>12, <1>13, <1>14, <1>15,
     <1>16, <1>17, <1>18 DEF Next, ToolStep, CollectStep
LEMMA SpecIInv == Spec => []IInv
<1> QED
  BY InitIInv, StepIInv, PTL DEF Spec

-----------------------------------------------------------------------------
(* The theorems.                                                           *)

\* The variables keep their types, whatever the calls of the response are.
THEOREM TypeCorrect == Spec => []TypeOK
<1>1. IInv => TypeOK
  BY DEF IInv, OrderInv
<1> QED
  BY SpecIInv, <1>1, PTL

\* An exclusive tool executes alone, whichever of the passes over the queue
\* (processQueue) that overlap at their awaits starts it.
THEOREM ExclusiveExecutesAlone == Spec => []ExclusiveAlone
<1>1. IInv => ExclusiveAlone
  BY DEF IInv, OrderInv, CallsOK, AloneOK, ExclusiveAlone, Executing, Added
<1> QED
  BY SpecIInv, <1>1, PTL

\* A call that is completed has one tool_result: its own, or the synthetic one of
\* an error of a sibling, of an interruption or of a fallback.
THEOREM OneResultForEach == Spec => []ResultForEach
<1>1. IInv => ResultForEach
  <2> SUFFICES ASSUME IInv, ~discarded, NEW i \in Added, status[i] \in {"completed", "yielded"}
               PROVE  Cardinality(ToolResults(i)) = 1
    BY DEF ResultForEach
  <2>1. i \in Slots /\ results[i] \in Seq(Sorts)
    BY AddedFacts DEF IInv, OrderInv, TypeOK
  <2>2. OneAnswer(results[i])
    BY <2>1 DEF IInv, AnswerInv, AnswersOK, AnswerAt
  <2>3. DOMAIN results[i] = 1..Len(results[i]) /\ Len(results[i]) \in Nat /\ Len(results[i]) # 0
    BY <2>1, <2>2, LenProperties, EmptySeq DEF OneAnswer
  <2>4. \A n \in DOMAIN results[i] : n = 1 \/ n \in 2..Len(results[i])
    BY <2>3
  <2>5. ToolResults(i) = {1}
    BY <2>2, <2>3, <2>4 DEF ToolResults, OneAnswer
  <2> QED
    BY <2>5, FS_Singleton
<1> QED
  BY SpecIInv, <1>1, PTL

\* What an exclusive tool returns is yielded before what was received after it,
\* but for the scan that a missing call behind it lets go past it.
THEOREM ExclusiveResultsFirst == Spec => []ExclusiveYieldedFirst
<1>1. IInv => ExclusiveYieldedFirst
  BY DEF IInv, OrderInv
<1> QED
  BY SpecIInv, <1>1, PTL

\* The flag given to setHasInterruptibleToolInProgress is right at every await.
THEOREM InterruptibleAlways == Spec => []InterruptibleIsAccurate
<1>1. IInv => InterruptibleIsAccurate
  BY DEF IInv, OrderInv
<1> QED
  BY SpecIInv, <1>1, PTL

-----------------------------------------------------------------------------
(* The executor implements ToolAnswers.                                    *)

LEMMA PhaseFacts ==
  ASSUME TypeOK
  PROVE  /\ Phase \in [Slots -> {"absent", "pending", "answered", "reported"}]
         /\ \A i \in Slots :
              /\ Phase[i] = "absent" <=> status[i] = "absent"
              /\ Phase[i] = "pending" <=> status[i] \in {"queued", "executing"}
              /\ Phase[i] = "answered" <=> status[i] = "completed"
              /\ Phase[i] = "reported" <=> status[i] = "yielded"
  BY DEF TypeOK, Phase

LEMMA PhaseFactsNext ==
  ASSUME TypeOK'
  PROVE  /\ Phase' \in [Slots -> {"absent", "pending", "answered", "reported"}]
         /\ \A i \in Slots :
              /\ Phase'[i] = "absent" <=> status'[i] = "absent"
              /\ Phase'[i] = "pending" <=> status'[i] \in {"queued", "executing"}
              /\ Phase'[i] = "answered" <=> status'[i] = "completed"
              /\ Phase'[i] = "reported" <=> status'[i] = "yielded"
  BY DEF TypeOK, Phase

LEMMA SamePhase ==
  ASSUME TypeOK, TypeOK', NEW j \in Slots, status'[j] = status[j]
  PROVE  Phase'[j] = Phase[j]
<1>1. /\ Phase[j] \in {"absent", "pending", "answered", "reported"}
      /\ Phase'[j] \in {"absent", "pending", "answered", "reported"}
  BY PhaseFacts, PhaseFactsNext
<1>2. /\ Phase[j] = "absent" <=> Phase'[j] = "absent"
      /\ Phase[j] = "pending" <=> Phase'[j] = "pending"
      /\ Phase[j] = "answered" <=> Phase'[j] = "answered"
      /\ Phase[j] = "reported" <=> Phase'[j] = "reported"
  BY PhaseFacts, PhaseFactsNext
<1> QED
  BY <1>1, <1>2

\* The phase of one call changes.
LEMMA PhaseMoves ==
  ASSUME TypeOK, TypeOK', NEW i \in Slots, NEW s, status' = [status EXCEPT ![i] = s]
  PROVE  Phase' = [Phase EXCEPT ![i] = Phase'[i]]
<1>1. \A j \in Slots : j # i => status'[j] = status[j]
  BY DEF TypeOK
<1>2. \A j \in Slots : j # i => Phase'[j] = Phase[j]
  BY <1>1, SamePhase
<1> QED
  BY <1>2, PhaseFacts, PhaseFactsNext

LEMMA PassRefines ==
  ASSUME IInv, IInv', Mode' = Mode, UNCHANGED kinds,
         \/ status' = status
         \/ \E i \in Slots, s \in {"executing", "completed"} : Starts(i, s, kinds, status)
  PROVE  [Abstract!Next]_<<Phase, Mode>>
<1>1. TypeOK /\ TypeOK'
  BY DEF IInv, OrderInv
<1>2. CASE status' = status
  BY <1>2 DEF Phase
<1>3. ASSUME NEW i \in Slots, NEW s \in {"executing", "completed"}, Starts(i, s, kinds, status)
      PROVE  [Abstract!Next]_<<Phase, Mode>>
  <2>1. status' = [status EXCEPT ![i] = s] /\ status[i] = "queued" /\ status'[i] = s
    BY <1>1, <1>3 DEF Starts, TypeOK
  <2>2. Phase' = [Phase EXCEPT ![i] = Phase'[i]] /\ Phase[i] = "pending"
    BY <1>1, <2>1, PhaseMoves, PhaseFacts
  <2>3. CASE s = "executing"
    <3>1. Phase'[i] = "pending"
      BY <1>1, <2>1, <2>3, PhaseFactsNext
    <3>2. Phase' = Phase
      BY <1>1, <2>2, <3>1, PhaseFacts
    <3> QED
      BY <3>2
  <2>4. CASE s = "completed"
    <3>1. Phase'[i] = "answered"
      BY <1>1, <2>1, <2>4, PhaseFactsNext
    <3>2. Abstract!Answer(i)
      BY <2>2, <3>1 DEF Abstract!Answer
    <3> QED
      BY <3>2 DEF Abstract!Next, Abstract!Slots, Slots
  <2> QED
    BY <2>3, <2>4
<1> QED
  BY <1>2, <1>3

LEMMA CompleteRefines ==
  ASSUME IInv, IInv', Mode' = Mode, NEW i \in Slots, body[i] # "none",
         status' = [status EXCEPT ![i] = "completed"]
  PROVE  Abstract!Next
<1>1. TypeOK /\ TypeOK'
  BY DEF IInv, OrderInv
<1>2. status[i] = "executing" /\ status'[i] = "completed"
  BY <1>1 DEF TypeOK
<1>3. Phase' = [Phase EXCEPT ![i] = "answered"] /\ Phase[i] = "pending"
  BY <1>1, <1>2, PhaseMoves, PhaseFacts, PhaseFactsNext
<1> QED
  BY <1>3 DEF Abstract!Next, Abstract!Answer, Abstract!Slots, Slots

LEMMA ScanRefines ==
  ASSUME IInv, IInv', NEW n \in Nat \ {0}, NEW here \in {"streamScan", "scan"},
         NEW next \in {"stream", "wait", "loop"}, ScanTo(n, here, next),
         UNCHANGED discarded, consumer \notin {"returned", "dropped"}
  PROVE  [Abstract!Next]_<<Phase, Mode>>
<1>1. TypeOK /\ TypeOK' /\ ~discarded
  BY DEF IInv, OrderInv, AnswerInv, DiscardOK
<1>2. consumer' \notin {"returned", "dropped"}
  BY DEF ScanTo
<1>3. Mode = "open" /\ Mode' = "open"
  BY <1>1, <1>2 DEF Mode
<1>4. CASE status' = status
  BY <1>3, <1>4 DEF Phase
<1>5. ASSUME NEW i, i = NextYield(n), i # 0, ~(progress[i] > 0),
             status' = [status EXCEPT ![i] = "yielded"]
      PROVE  Abstract!Next
  <2>1. i \in Slots /\ status[i] = "completed"
    BY <1>1, <1>5, NextYieldFacts, AddedFacts
  <2>2. status'[i] = "yielded"
    BY <1>1, <1>5, <2>1 DEF TypeOK
  <2>3. Phase' = [Phase EXCEPT ![i] = "reported"] /\ Phase[i] = "answered"
    BY <1>1, <1>5, <2>1, <2>2, PhaseMoves, PhaseFacts, PhaseFactsNext
  <2> QED
    BY <1>3, <2>1, <2>3 DEF Abstract!Next, Abstract!Report, Abstract!Slots, Slots
<1>6. \/ status' = status
      \/ \E i : /\ i = NextYield(n) /\ i # 0 /\ ~(progress[i] > 0)
               /\ status' = [status EXCEPT ![i] = "yielded"]
  BY DEF ScanTo
<1> QED
  BY <1>4, <1>5, <1>6

LEMMA AddToolRefines ==
  ASSUME IInv, IInv', NEW k, AddTool(k)
  PROVE  Abstract!Next
<1> DEFINE i == Len(kinds) + 1
           s == IF k.known THEN "queued" ELSE "completed"
           st == [status EXCEPT ![i] = s]
<1>1. TypeOK /\ TypeOK' /\ ~discarded /\ consumer = "stream"
      /\ UNCHANGED <<discarded, consumer>>
  BY DEF IInv, OrderInv, AnswerInv, DiscardOK, AddTool, stopVars, consumerVars
<1>2. Mode = "open" /\ Mode' = "open"
  BY <1>1 DEF Mode
<1>3. i \in Slots /\ Added = 1..Len(kinds) /\ Len(kinds) \in Nat
  BY <1>1, AddedFacts DEF AddTool
<1>4. Phase[i] = "absent" /\ \A j \in 1..(i - 1) : Phase[j] # "absent"
  <2>1. i \notin Added /\ \A j \in 1..(i - 1) : j \in Added
    BY <1>3
  <2>2. \A j \in Added : j \in Slots
    BY <1>1, AddedFacts
  <2> HIDE DEF i
  <2>3. status[i] = "absent"
    BY <1>1, <1>3, <2>1 DEF TypeOK
  <2>4. Phase[i] = "absent"
    BY <1>1, <1>3, <2>3, PhaseFacts
  <2>5. \A j \in 1..(i - 1) : j \in Slots /\ status[j] # "absent"
    BY <1>1, <2>1, <2>2 DEF TypeOK
  <2> QED
    BY <1>1, <2>4, <2>5, PhaseFacts
<1>5. \/ status' = st
      \/ \E l \in Slots, t \in {"executing", "completed"} :
           st[l] = "queued" /\ status' = [st EXCEPT ![l] = t]
  <2>1. CASE ~k.known
    BY <2>1 DEF AddTool
  <2>2. CASE k.known
    <3>1. RunPass(<<"add", i>>, 1, Append(kinds, k), st)
      BY <2>2 DEF AddTool
    <3>2. KindsOK(Append(kinds, k), st)
      <4>1. Len(kinds) + 1 = i /\ s \in {"queued", "completed"} /\ (s = "completed" <=> ~k.known)
            /\ k \in Kinds[i] /\ st = [status EXCEPT ![i] = s] /\ CallsOK(kinds, status)
        BY DEF AddTool, IInv, OrderInv
      <4> HIDE DEF i, s, st
      <4>2. PICK kn : kn = Append(kinds, k)
        OBVIOUS
      <4>3. Grows(kinds, status, i, kn, st)
        BY <1>3, <4>1, <4>2, AddOK
      <4> QED
        BY <4>2, <4>3 DEF Grows, CallsOK
    <3> HIDE DEF i, st
    <3> SUFFICES ASSUME NEW ks, ks = Append(kinds, k), NEW sq, sq = st
                 PROVE  \/ status' = sq
                        \/ \E l \in Slots, t \in {"executing", "completed"} :
                             sq[l] = "queued" /\ status' = [sq EXCEPT ![l] = t]
      OBVIOUS
    <3>3. KindsOK(ks, sq) /\ RunPass(<<"add", i>>, 1, ks, sq)
      BY <3>1, <3>2
    <3>4. PICK l : l = NextStart(ks, sq, 1)
      OBVIOUS
    <3>5. l # 0 => l \in DOMAIN ks /\ sq[l] = "queued"
      BY <3>3, <3>4, NextStartFacts, 1 \in Nat \ {0}
    <3>6. DOMAIN ks \subseteq Slots
      BY <3>3, CallFacts
    <3>7. \/ l = 0 /\ status' = sq
          \/ l # 0 /\ \E t \in {"executing", "completed"} : status' = [sq EXCEPT ![l] = t]
      BY <3>3, <3>4 DEF RunPass
    <3> QED
      BY <3>5, <3>6, <3>7
  <2> QED
    BY <2>1, <2>2
<1>6. \E S \in SUBSET (Abstract!Pending \cup {i}) :
        Phase' = [j \in Slots |-> IF j \in S THEN "answered"
                                 ELSE IF j = i THEN "pending" ELSE Phase[j]]
  <2> SUFFICES \E S \in SUBSET (Abstract!Pending \cup {i}) :
                 \A j \in Slots : Phase'[j] = IF j \in S THEN "answered"
                                            ELSE IF j = i THEN "pending" ELSE Phase[j]
    BY <1>1, PhaseFactsNext
  <2> DEFINE S == {j \in Slots : status'[j] = "completed" /\ status[j] # "completed"}
  <2>0. /\ s \in {"queued", "completed"} /\ st = [status EXCEPT ![i] = s]
        /\ status \in [Slots -> {"absent", "queued", "executing", "completed", "yielded"}]
        /\ i \in Slots /\ status[i] = "absent"
    BY <1>1, <1>3, <1>4, PhaseFacts DEF TypeOK
  <2> HIDE DEF i, s, st
  <2>1. /\ st[i] = s /\ s \in {"queued", "completed"} /\ status[i] = "absent"
        /\ \A j \in Slots : j # i => st[j] = status[j]
        /\ st \in [Slots -> {"absent", "queued", "executing", "completed", "yielded"}]
    BY <2>0
  <2>2. \A j \in Slots :
          \/ status'[j] = st[j]
          \/ st[j] = "queued" /\ status'[j] \in {"executing", "completed"}
    BY <1>5, <2>1
  <2>3. S \in SUBSET (Abstract!Pending \cup {i})
    <3> SUFFICES ASSUME NEW j \in S, j # i PROVE j \in Abstract!Pending
      OBVIOUS
    <3>1. status[j] = "queued"
      BY <2>1, <2>2
    <3> QED
      BY <1>1, <3>1, PhaseFacts DEF Abstract!Pending, Abstract!Slots, Slots
  <2>4. ASSUME NEW j \in Slots
        PROVE  Phase'[j] = IF j \in S THEN "answered" ELSE IF j = i THEN "pending" ELSE Phase[j]
    <3>1. CASE j \in S
      BY <1>1, <3>1, PhaseFactsNext
    <3>2. CASE j \notin S /\ j = i
      <4>1. status'[j] \in {"queued", "executing"}
        BY <2>1, <2>2, <3>2
      <4> QED
        BY <1>1, <3>2, <4>1, PhaseFactsNext
    <3>3. CASE j \notin S /\ j # i
      <4>1. status'[j] = status[j] \/ (status[j] = "queued" /\ status'[j] = "executing")
        BY <2>1, <2>2, <3>3
      <4>2. CASE status'[j] = status[j]
        BY <1>1, <3>3, <4>2, SamePhase
      <4>3. CASE status[j] = "queued" /\ status'[j] = "executing"
        <5>1. Phase[j] = "pending" /\ Phase'[j] = "pending"
          BY <1>1, <4>3, PhaseFacts, PhaseFactsNext
        <5> QED
          BY <3>3, <5>1
      <4> QED
        BY <4>1, <4>2, <4>3
    <3> QED
      BY <3>1, <3>2, <3>3
  <2> QED
    BY <2>3, <2>4
<1>7. Abstract!Give(i)
  <2> HIDE DEF i
  <2> QED
    BY <1>2, <1>4, <1>6 DEF Abstract!Give, Abstract!Slots, Slots
<1> QED
  BY <1>3, <1>7 DEF Abstract!Next, Abstract!Slots, Slots

LEMMA StepRefines == IInv /\ IInv' /\ [Next]_vars => [Abstract!Next]_<<Phase, Mode>>
<1> SUFFICES ASSUME IInv, IInv', [Next]_vars PROVE [Abstract!Next]_<<Phase, Mode>>
  OBVIOUS
<1> USE DEF stopVars, toolVars, consumerVars
<1>1. /\ TypeOK /\ TypeOK' /\ (discarded <=> consumer = "dropped")
      /\ Added \subseteq Slots /\ Added \in SUBSET Slots
  BY AddedFacts DEF IInv, OrderInv, AnswerInv, DiscardOK
<1>2. CASE status' = status /\ Mode' = Mode
  BY <1>2 DEF Phase
<1>3. ASSUME NEW k, AddTool(k) PROVE Abstract!Next
  BY <1>3, AddToolRefines
<1>4. ASSUME NEW p \in Passes, NEW n \in Nat \ {0}, PassAt(kinds, status, n),
             RunPass(p, n, kinds, status), UNCHANGED kinds, Mode' = Mode
      PROVE  [Abstract!Next]_<<Phase, Mode>>
  <2>1. /\ CallsOK(kinds, status) /\ PassesOK(kinds, status)
        /\ interruptible = Interruptible(kinds, status)
    BY DEF IInv, OrderInv, PassOK, PassesOK, TypeOK, InterruptibleIsAccurate
  <2>2. \/ status' = status
        \/ \E i \in Slots, s \in {"executing", "completed"} : Starts(i, s, kinds, status)
    BY <1>4, <2>1, RunPassFacts
  <2> QED
    BY <1>4, <2>2, PassRefines
<1>5. ASSUME NEW p \in Passes, ResumePass(p) PROVE [Abstract!Next]_<<Phase, Mode>>
  <2>1. pass[p] \in Nat \ {0} /\ PassAt(kinds, status, pass[p])
    BY <1>5, BoundsAssumption DEF ResumePass, IInv, OrderInv, TypeOK, PassOK
  <2>2. Mode' = Mode
    BY <1>5 DEF ResumePass, Mode
  <2> QED
    BY <1>4, <1>5, <2>1, <2>2 DEF ResumePass
<1>6. CASE LoopPass
  <2>1. Collect \in Passes /\ PassAt(kinds, status, 1)
    BY <1>1, PassAtFirst DEF Collect, Passes
  <2>2. Mode' = Mode
    BY <1>1, <1>6 DEF LoopPass, Mode
  <2> QED
    BY <1>4, <1>6, <2>1, <2>2 DEF LoopPass
<1>7. ASSUME NEW i \in Added, ConsumeCancelled(i) \/ Finish(i) PROVE Abstract!Next
  <2>1. body[i] # "none" /\ status' = [status EXCEPT ![i] = "completed"] /\ i \in Slots
    BY <1>1, <1>7 DEF ConsumeCancelled, Finish, Complete
  <2>2. Mode' = Mode
    BY <1>7 DEF ConsumeCancelled, Finish, Mode
  <2> QED
    BY <2>1, <2>2, CompleteRefines
<1>8. ASSUME NEW i \in Added, Progress(i) \/ Reject(i) \/ Settle(i) \/ Consume(i)
      PROVE  [Abstract!Next]_<<Phase, Mode>>
  <2>1. status' = status /\ UNCHANGED <<consumer, discarded>>
    BY <1>8 DEF Progress, Reject, Settle, Consume
  <2> QED
    BY <1>2, <2>1 DEF Mode
<1>9. CASE (\E reason \in {"interrupt", "cancel"} : UserAborts(reason)) \/ UNCHANGED vars
  <2>1. status' = status /\ UNCHANGED <<consumer, discarded>>
    BY <1>9 DEF UserAborts, vars
  <2> QED
    BY <1>2, <2>1 DEF Mode
<1>10. CASE StreamScan
  <2>1. PICK n \in {1, scan} :
          /\ ScanTo(n, "streamScan", "stream")
          /\ n = 1 \/ consumer = "streamScan"
          /\ consumer \notin {"returned", "dropped"} /\ UNCHANGED discarded
    BY <1>10 DEF StreamScan, Unscanned
  <2>2. n \in Nat \ {0}
    BY <1>1, <2>1, BoundsAssumption DEF IInv, OrderInv, TypeOK, ScanOK
  <2> QED
    BY <2>1, <2>2, ScanRefines
<1>11. CASE LoopScan
  <2>1. PICK n \in {1, scan} :
          /\ ScanTo(n, "scan", AfterScan)
          /\ n = 1 \/ consumer = "scan"
          /\ consumer \notin {"returned", "dropped"} /\ UNCHANGED discarded
    BY <1>11 DEF LoopScan, Unscanned
  <2>2. n \in Nat \ {0}
    BY <1>1, <2>1, BoundsAssumption DEF IInv, OrderInv, TypeOK, ScanOK
  <2>3. AfterScan \in {"stream", "wait", "loop"}
    BY DEF AfterScan
  <2> QED
    BY <2>1, <2>2, <2>3, ScanRefines
<1>12. CASE BeginCollect \/ WaitEnds
  <2>1. status' = status /\ Mode' = Mode
    BY <1>1, <1>12 DEF BeginCollect, WaitEnds, Mode, Unscanned
  <2> QED
    BY <1>2, <2>1
<1>13. CASE LoopEnds
  <2>1. status' = status /\ consumer = "loop" /\ consumer' = "returned" /\ UNCHANGED discarded
    BY <1>13 DEF LoopEnds, Unscanned
  <2>2. Mode = "open" /\ Mode' = "closed" /\ Phase' = Phase
    BY <1>1, <2>1 DEF Mode, Phase
  <2>3. \A i \in Slots : status[i] \in {"absent", "yielded"}
    BY <1>1, <1>13 DEF LoopEnds, HasUnfinishedTools, TypeOK
  <2>4. \A i \in Slots : Phase[i] \in {"absent", "reported"}
    BY <1>1, <2>3, PhaseFacts
  <2> QED
    BY <2>2, <2>4 DEF Abstract!Next, Abstract!Close, Abstract!Slots, Slots
<1>14. CASE Discard
  <2>1. status' = status /\ consumer = "stream" /\ consumer' = "dropped" /\ discarded'
    BY <1>14 DEF Discard
  <2>2. Mode = "open" /\ Mode' = "discarded" /\ Phase' = Phase
    BY <1>1, <2>1 DEF Mode, Phase
  <2> QED
    BY <2>2 DEF Abstract!Next, Abstract!Discard
<1> QED
  BY <1>3, <1>5, <1>6, <1>7, <1>8, <1>9, <1>10, <1>11, <1>12, <1>13, <1>14
     DEF Next, ToolStep, CollectStep

LEMMA InitRefines == Init => Abstract!Init
  BY DEF Init, Abstract!Init, Phase, Mode, Abstract!Slots, Slots

\* The executor implements ToolAnswers: every call is answered once, by its tool or
\* in its place, each answer is reported once, the collection ends only when all
\* are, and nothing is reported after a discard.
THEOREM ImplementsToolAnswers == Spec => ImplementsAnswers
<1> QED
  BY InitRefines, StepRefines, SpecIInv, PTL
     DEF Spec, ImplementsAnswers, Abstract!Spec, Abstract!vars
=============================================================================
