------------------------ MODULE EventUploader_proofs ------------------------
(***************************************************************************)
(* Theorems about the uploader of events, for any bounds on calls, events, *)
(* batches, queue and lost answers, and any settings: what the channel     *)
(* that it implements promises, and that it implements it.                 *)
(***************************************************************************)
EXTENDS EventUploader, FiniteSetTheorems, SequenceTheorems, TLAPS

-----------------------------------------------------------------------------
(* The channel: what is received through it is in order.                   *)

Ascending(s) == Channel!Ascending(s)

\* An event that may still be sent comes after everything that was received, unless
\* it was received before what is later than it.
Behind(q, s) ==
  \A e \in Elements(q) : \A i \in DOMAIN s :
    s[i] > e => \E m \in 1..(i - 1) : s[m] = e

\* A later event is never received before the first time an earlier one is.
Ordered(s) ==
  \A j \in DOMAIN s : \A i \in 1..(j - 1) :
    s[i] > s[j] => \E m \in 1..(i - 1) : s[m] = s[j]

\* Receiving the front of the queue leaves what was received in order, whatever of it is
\* sent again later.
LEMMA ReceiveFront ==
  ASSUME NEW n \in Nat, NEW q \in Seq(1..n), NEW s \in Seq(1..n),
         Ascending(q), Behind(q, s), Ordered(s), NEW k \in 0..Len(q),
         NEW later \in Seq(Elements(q))
  PROVE  LET got == s \o SubSeq(q, 1, k)
         IN  got \in Seq(1..n) /\ later \in Seq(1..n) /\ Behind(later, got) /\ Ordered(got)
<1>1. /\ DOMAIN q = 1..Len(q) /\ Len(q) \in Nat /\ \A i \in DOMAIN q : q[i] \in 1..n
      /\ DOMAIN s = 1..Len(s) /\ Len(s) \in Nat
  BY LenProperties
<1>2. PICK front, got, l : front = SubSeq(q, 1, k) /\ got = s \o front /\ l = Len(s)
  OBVIOUS
<1>3. /\ front \in Seq(1..n) /\ Len(front) = k
      /\ \A i \in 1..k : front[i] = q[i] /\ i \in DOMAIN q
  <2>1. k \in Nat /\ \A i \in 1..k : i \in DOMAIN q /\ q[i] \in 1..n
    BY <1>1
  <2>2. /\ SubSeq(q, 1, k) \in Seq(1..n)
        /\ Len(SubSeq(q, 1, k)) = IF 1 =< k THEN k - 1 + 1 ELSE 0
        /\ \A i \in 1..(k - 1 + 1) : SubSeq(q, 1, k)[i] = q[1 + i - 1]
    BY <2>1, SubSeqProperties, 1 \in Int, k \in Int
  <2> QED
    BY <1>2, <2>1, <2>2
<1>4. /\ got \in Seq(1..n) /\ DOMAIN got = 1..(l + k) /\ l \in Nat /\ DOMAIN s = 1..l
      /\ \A i \in 1..l : got[i] = s[i]
      /\ \A i \in 1..k : got[l + i] = q[i]
  <2>1. /\ got \in Seq(1..n) /\ Len(got) = l + k
        /\ \A i \in 1..(l + k) : got[i] = IF i =< l THEN s[i] ELSE front[i - l]
    <3>1. /\ s \o front \in Seq(1..n)
          /\ Len(s \o front) = Len(s) + Len(front)
          /\ \A i \in 1..(Len(s) + Len(front)) :
               (s \o front)[i] = IF i =< Len(s) THEN s[i] ELSE front[i - Len(s)]
      BY <1>3, ConcatProperties
    <3> QED
      BY <1>2, <1>3, <3>1
  <2>2. DOMAIN got = 1..(l + k)
    BY <2>1, LenProperties
  <2>3. \A i \in 1..l : got[i] = s[i]
    BY <1>1, <1>2, <2>1
  <2>4. \A i \in 1..k : l + i \in 1..(l + k) /\ ~(l + i =< l) /\ l + i - l = i
    BY <1>1, <1>2
  <2> QED
    BY <1>1, <1>2, <1>3, <2>1, <2>2, <2>3, <2>4
<1>5. ASSUME NEW e \in Elements(q), NEW i \in 1..(l + k), got[i] > e
      PROVE  \E m \in 1..(i - 1) : got[m] = e
  <2>1. CASE i \in 1..l
    <3>1. PICK m \in 1..(i - 1) : s[m] = e
      BY <1>4, <1>5, <2>1 DEF Behind
    <3>2. m \in 1..l
      BY <1>4, <2>1
    <3> QED
      BY <1>4, <3>1, <3>2
  <2>2. CASE i \in (l + 1)..(l + k)
    <3>1. PICK p \in DOMAIN q : q[p] = e
      BY DEF Elements
    <3>2. i - l \in 1..k /\ l + (i - l) = i
      BY <1>4, <2>2
    <3>3. got[i] = q[i - l] /\ i - l \in DOMAIN q
      BY <1>3, <1>4, <3>2
    <3>4. p \in 1..Len(q) /\ i - l \in 1..Len(q) /\ q[p] \in Int /\ q[i - l] \in Int
      BY <1>1, <3>1, <3>3
    <3>5. p < i - l
      <4>1. CASE p = i - l
        BY <1>5, <3>1, <3>3, <3>4, <4>1
      <4>2. CASE i - l < p
        BY <1>5, <3>1, <3>3, <3>4, <4>2 DEF Ascending, Channel!Ascending
      <4> QED
        BY <1>1, <3>4, <4>1, <4>2
    <3>6. p \in 1..k /\ l + p \in 1..(i - 1)
      <4>1. k \in Int /\ l \in Nat /\ i \in Int /\ p \in Int /\ p >= 1 /\ i - l =< k
        BY <1>1, <1>4, <2>2, <3>4
      <4> QED
        BY <3>5, <4>1
    <3>7. got[l + p] = e
      BY <1>4, <3>1, <3>6
    <3> QED
      BY <3>6, <3>7
  <2> QED
    BY <1>4, <2>1, <2>2
<1>6. Elements(q) \subseteq 1..n /\ later \in Seq(1..n) /\ Elements(later) \subseteq Elements(q)
  <2>1. Elements(q) \subseteq 1..n
    BY <1>1 DEF Elements
  <2>2. Elements(later) \subseteq Elements(q)
    BY ElementOfSeq, LenProperties DEF Elements
  <2> QED
    BY <2>1, <2>2, SeqMonotonic
<1>7. Behind(later, got)
  BY <1>4, <1>5, <1>6 DEF Behind
<1>8. Ordered(got)
  <2> SUFFICES ASSUME NEW j \in 1..(l + k), NEW i \in 1..(j - 1), got[i] > got[j]
               PROVE  \E m \in 1..(i - 1) : got[m] = got[j]
    BY <1>4 DEF Ordered
  <2>1. CASE j \in 1..l
    <3>1. i \in 1..l /\ got[i] = s[i] /\ got[j] = s[j]
      BY <1>4, <2>1
    <3>2. PICK m \in 1..(i - 1) : s[m] = s[j]
      BY <1>4, <2>1, <3>1 DEF Ordered
    <3>3. m \in 1..l
      BY <1>4, <3>1
    <3> QED
      BY <1>4, <3>1, <3>2, <3>3
  <2>2. CASE j \in (l + 1)..(l + k)
    <3>1. j - l \in 1..k /\ l + (j - l) = j
      BY <1>4, <2>2
    <3>2. got[j] \in Elements(q)
      BY <1>3, <1>4, <3>1 DEF Elements
    <3>3. i \in 1..(l + k)
      BY <1>4
    <3> QED
      BY <1>5, <3>2, <3>3
  <2> QED
    BY <1>4, <2>1, <2>2
<1> QED
  BY <1>2, <1>4, <1>6, <1>7, <1>8

\* So does accepting events and forgetting some.
LEMMA AcceptMore ==
  ASSUME NEW n \in Nat, NEW q \in Seq(1..n), NEW s \in Seq(1..n),
         Behind(q, s), NEW more \in Nat, more >= n,
         NEW later \in Seq(Elements(q) \cup (n + 1)..more)
  PROVE  s \in Seq(1..more) /\ later \in Seq(1..more) /\ Behind(later, s)
<1>1. Elements(q) \subseteq 1..n /\ \A i \in DOMAIN s : s[i] \in 1..n
  BY LenProperties DEF Elements
<1>2. Elements(q) \cup (n + 1)..more \subseteq 1..more /\ 1..n \subseteq 1..more
  BY <1>1
<1>3. s \in Seq(1..more) /\ later \in Seq(1..more)
  BY <1>2, SeqMonotonic
<1>4. Elements(later) \subseteq Elements(q) \cup (n + 1)..more
  BY ElementOfSeq, LenProperties DEF Elements
<1>5. Behind(later, s)
  <2> SUFFICES ASSUME NEW e \in Elements(later), NEW i \in DOMAIN s, s[i] > e
               PROVE  \E m \in 1..(i - 1) : s[m] = e
    BY DEF Behind
  <2>1. s[i] \in 1..n
    BY <1>1
  <2>2. e \in Elements(q)
    BY <1>4, <2>1
  <2> QED
    BY <2>2 DEF Behind
<1> QED
  BY <1>3, <1>5

\* The state of a channel that accepted n events, has q queued and has given s.
InChannel(n, q, s) ==
  /\ n \in Nat /\ q \in Seq(1..n) /\ s \in Seq(1..n)
  /\ Ascending(q) /\ Behind(q, s) /\ Ordered(s)

ChannelInv == InChannel(count, batch \o pending, server)

\* Through repetition and loss, an event is received for the first time before every later
\* one: what HybridTransport and CCRClient rely on when they hand events to an uploader.
THEOREM ReceivedInOrder == Channel!Spec => []Channel!InOrder
<1>1. Channel!Init => ChannelInv
  <2> SUFFICES ASSUME Channel!Init PROVE ChannelInv
    OBVIOUS
  <2>1. count = 0 /\ batch \o pending = <<>> /\ server = <<>> /\ DOMAIN <<>> = {}
    BY DEF Channel!Init
  <2> QED
    BY <2>1, EmptySeq DEF ChannelInv, InChannel, Ascending, Channel!Ascending, Behind, Ordered, Elements
<1>2. ChannelInv /\ [Channel!Next]_(Channel!channelVars) => ChannelInv'
  <2> SUFFICES ASSUME ChannelInv, [Channel!Next]_(Channel!channelVars) PROVE ChannelInv'
    OBVIOUS
  <2>0. PICK n, q, s, n2, q2, s2 :
          /\ n = count /\ q = batch \o pending /\ s = server
          /\ n2 = count' /\ q2 = (batch \o pending)' /\ s2 = server'
    OBVIOUS
  <2>1. /\ n \in Nat /\ q \in Seq(1..n) /\ s \in Seq(1..n)
        /\ Ascending(q) /\ Behind(q, s) /\ Ordered(s)
    BY <2>0 DEF ChannelInv, InChannel
  <2>s. ChannelInv' <=> InChannel(n2, q2, s2)
    BY <2>0 DEF ChannelInv
  <2>2. CASE Channel!Accept
    <3>1. /\ n2 \in Nat /\ n2 >= n /\ s2 = s
          /\ q2 \in Seq(Elements(q) \cup (n + 1)..n2) /\ Ascending(q2)
      BY <2>0, <2>2 DEF Channel!Accept, Channel!QueuedOf, Channel!Queued, Elements, Ascending
    <3>2. s2 \in Seq(1..n2) /\ q2 \in Seq(1..n2) /\ Behind(q2, s2)
      BY <2>1, <3>1, AcceptMore
    <3> QED
      BY <2>0, <2>1, <3>1, <3>2, <2>s DEF InChannel
  <2>3. ASSUME NEW k \in 0..Len(batch \o pending), Channel!Receive(k)
        PROVE  ChannelInv'
    <3>1. /\ n2 = n /\ s2 = s \o SubSeq(q, 1, k) /\ k \in 0..Len(q)
          /\ q2 \in Seq(Elements(q)) /\ Ascending(q2)
      BY <2>0, <2>3 DEF Channel!Receive, Channel!QueuedOf, Channel!Queued, Elements, Ascending
    <3>2. s2 \in Seq(1..n2) /\ q2 \in Seq(1..n2) /\ Behind(q2, s2) /\ Ordered(s2)
      BY <2>1, <3>1, ReceiveFront
    <3> QED
      BY <2>0, <2>1, <3>1, <3>2, <2>s DEF InChannel
  <2>4. CASE UNCHANGED Channel!channelVars
    <3>1. n2 = n /\ q2 = q /\ s2 = s
      BY <2>0, <2>4 DEF Channel!channelVars
    <3> QED
      BY <2>0, <2>1, <3>1, <2>s DEF InChannel
  <2> QED
    BY <2>2, <2>3, <2>4 DEF Channel!Next
<1>3. ChannelInv => Channel!InOrder
  BY DEF ChannelInv, InChannel, Ordered, Channel!InOrder
<1> QED
  BY <1>1, <1>2, <1>3, PTL DEF Channel!Spec

-----------------------------------------------------------------------------
(* Facts about the operators.                                              *)

LEMMA ElementsOfSeq ==
  ASSUME NEW S, NEW s \in Seq(S)
  PROVE  /\ Elements(s) \subseteq S /\ s \in Seq(Elements(s))
         /\ s = <<>> => Elements(s) = {}
         /\ \A T : Elements(s) \subseteq T => s \in Seq(T)
<1>1. DOMAIN s = 1..Len(s) /\ Len(s) \in Nat /\ s \in [1..Len(s) -> S]
  BY LenProperties
<1>2. Elements(s) \subseteq S
  BY <1>1 DEF Elements
<1>3. s \in [1..Len(s) -> Elements(s)]
  BY <1>1 DEF Elements
<1>4. s \in Seq(Elements(s))
  BY <1>1, <1>3
<1>5. s = <<>> => Elements(s) = {}
  BY <1>1, EmptySeq DEF Elements
<1> QED
  BY <1>2, <1>4, <1>5, SeqMonotonic

LEMMA ConcatElements ==
  ASSUME NEW S, NEW s \in Seq(S), NEW t \in Seq(S)
  PROVE  /\ s \o t \in Seq(S) /\ Elements(s \o t) = Elements(s) \cup Elements(t)
<1>1. PICK u : u = s \o t
  OBVIOUS
<1>2. /\ u \in Seq(S) /\ Len(u) = Len(s) + Len(t)
      /\ \A i \in 1..(Len(s) + Len(t)) : u[i] = IF i =< Len(s) THEN s[i] ELSE t[i - Len(s)]
  BY <1>1, ConcatProperties
<1>3. /\ DOMAIN s = 1..Len(s) /\ Len(s) \in Nat /\ DOMAIN t = 1..Len(t) /\ Len(t) \in Nat
      /\ DOMAIN u = 1..(Len(s) + Len(t))
  BY <1>2, LenProperties
<1>4. Elements(u) \subseteq Elements(s) \cup Elements(t)
  <2> SUFFICES ASSUME NEW i \in DOMAIN u PROVE u[i] \in Elements(s) \cup Elements(t)
    BY DEF Elements
  <2>1. CASE i =< Len(s)
    BY <1>2, <1>3, <2>1 DEF Elements
  <2>2. CASE i > Len(s)
    <3>1. i - Len(s) \in DOMAIN t /\ u[i] = t[i - Len(s)]
      BY <1>2, <1>3, <2>2
    <3> QED
      BY <3>1 DEF Elements
  <2> QED
    BY <1>3, <2>1, <2>2
<1>5. Elements(s) \subseteq Elements(u)
  <2>1. \A i \in DOMAIN s : i \in DOMAIN u /\ u[i] = s[i]
    BY <1>2, <1>3
  <2> QED
    BY <2>1 DEF Elements
<1>6. Elements(t) \subseteq Elements(u)
  <2>1. \A i \in DOMAIN t : Len(s) + i \in DOMAIN u /\ u[Len(s) + i] = t[i]
    BY <1>2, <1>3
  <2> QED
    BY <2>1 DEF Elements
<1> QED
  BY <1>1, <1>2, <1>4, <1>5, <1>6

\* What comes behind has larger numbers.
LEMMA ConcatAscending ==
  ASSUME NEW s \in Seq(Nat), NEW t \in Seq(Nat)
  PROVE  Ascending(s \o t) <=>
           /\ Ascending(s) /\ Ascending(t)
           /\ \A i \in DOMAIN s, j \in DOMAIN t : s[i] < t[j]
<1>1. PICK u : u = s \o t
  OBVIOUS
<1>2. /\ u \in Seq(Nat) /\ Len(u) = Len(s) + Len(t)
      /\ \A i \in 1..(Len(s) + Len(t)) : u[i] = IF i =< Len(s) THEN s[i] ELSE t[i - Len(s)]
  BY <1>1, ConcatProperties
<1>3. /\ DOMAIN s = 1..Len(s) /\ Len(s) \in Nat /\ DOMAIN t = 1..Len(t) /\ Len(t) \in Nat
      /\ DOMAIN u = 1..(Len(s) + Len(t))
  BY <1>2, LenProperties
<1>4. /\ \A i \in DOMAIN s : i \in DOMAIN u /\ u[i] = s[i]
      /\ \A i \in DOMAIN t : Len(s) + i \in DOMAIN u /\ u[Len(s) + i] = t[i]
  <2>1. \A i \in DOMAIN s : i \in DOMAIN u /\ u[i] = s[i]
    BY <1>2, <1>3
  <2>2. \A i \in DOMAIN t : Len(s) + i \in DOMAIN u /\ u[Len(s) + i] = t[i]
    <3> SUFFICES ASSUME NEW i \in DOMAIN t
                 PROVE  Len(s) + i \in DOMAIN u /\ u[Len(s) + i] = t[i]
      OBVIOUS
    <3>1. /\ Len(s) + i \in 1..(Len(s) + Len(t)) /\ ~(Len(s) + i =< Len(s))
          /\ Len(s) + i - Len(s) = i
      BY <1>3
    <3> QED
      BY <1>2, <1>3, <3>1
  <2> QED
    BY <2>1, <2>2
<1>5. ASSUME Ascending(u)
      PROVE  /\ Ascending(s) /\ Ascending(t)
             /\ \A i \in DOMAIN s, j \in DOMAIN t : s[i] < t[j]
  <2>1. Ascending(s)
    BY <1>4, <1>5 DEF Ascending, Channel!Ascending
  <2>2. ASSUME NEW i \in DOMAIN t, NEW j \in DOMAIN t, i < j PROVE t[i] < t[j]
    <3>1. Len(s) + i < Len(s) + j
      BY <1>3, <2>2
    <3> QED
      BY <1>4, <1>5, <3>1 DEF Ascending, Channel!Ascending
  <2>3. ASSUME NEW i \in DOMAIN s, NEW j \in DOMAIN t PROVE s[i] < t[j]
    <3>1. i < Len(s) + j
      BY <1>3
    <3> QED
      BY <1>4, <1>5, <3>1 DEF Ascending, Channel!Ascending
  <2> QED
    BY <2>1, <2>2, <2>3 DEF Ascending, Channel!Ascending
<1>6. ASSUME Ascending(s), Ascending(t), \A i \in DOMAIN s, j \in DOMAIN t : s[i] < t[j]
      PROVE  Ascending(u)
  <2> SUFFICES ASSUME NEW i \in DOMAIN u, NEW j \in DOMAIN u, i < j PROVE u[i] < u[j]
    BY DEF Ascending, Channel!Ascending
  <2>1. CASE j =< Len(s)
    BY <1>2, <1>3, <1>6, <2>1 DEF Ascending, Channel!Ascending
  <2>2. CASE i =< Len(s) /\ j > Len(s)
    <3>1. i \in DOMAIN s /\ j - Len(s) \in DOMAIN t /\ u[i] = s[i] /\ u[j] = t[j - Len(s)]
      BY <1>2, <1>3, <2>2
    <3> QED
      BY <1>6, <3>1
  <2>3. CASE i > Len(s)
    <3>1. /\ i - Len(s) \in DOMAIN t /\ j - Len(s) \in DOMAIN t /\ i - Len(s) < j - Len(s)
          /\ ~(i =< Len(s)) /\ ~(j =< Len(s))
      BY <1>3, <2>3
    <3>2. u[i] = t[i - Len(s)] /\ u[j] = t[j - Len(s)]
      BY <1>2, <1>3, <3>1
    <3>3. t[i - Len(s)] < t[j - Len(s)]
      BY <1>6, <3>1 DEF Ascending, Channel!Ascending
    <3> QED
      BY <3>2, <3>3
  <2> QED
    BY <1>3, <2>1, <2>2, <2>3
<1> QED
  BY <1>1, <1>5, <1>6

\* The calls that return, and nothing else about them, change.
LEMMA Returns ==
  ASSUME NEW calls \in Seq(CallType), NEW cs
  PROVE  /\ Return(calls, cs) \in Seq(CallType)
         /\ Len(Return(calls, cs)) = Len(calls)
         /\ DOMAIN Return(calls, cs) = DOMAIN calls
         /\ \A c \in DOMAIN calls :
              /\ Return(calls, cs)[c].op = calls[c].op
              /\ Return(calls, cs)[c].size = calls[c].size
              /\ Return(calls, cs)[c].mark = calls[c].mark
              /\ Return(calls, cs)[c].status = IF c \in cs THEN "returned" ELSE calls[c].status
<1>1. DOMAIN calls = 1..Len(calls) /\ Len(calls) \in Nat /\ calls \in [1..Len(calls) -> CallType]
  BY LenProperties
<1>2. PICK r : r = Return(calls, cs)
  OBVIOUS
<1>3. /\ DOMAIN r = 1..Len(calls)
      /\ \A c \in 1..Len(calls) : r[c] = IF c \in cs THEN [calls[c] EXCEPT !.status = "returned"]
                                         ELSE calls[c]
  BY <1>1, <1>2 DEF Return
<1>4. \A x \in CallType : LET y == [x EXCEPT !.status = "returned"]
                          IN  /\ y \in CallType /\ y.op = x.op /\ y.size = x.size
                              /\ y.mark = x.mark /\ y.status = "returned"
  BY DEF CallType
<1>5. \A c \in 1..Len(calls) : /\ r[c] \in CallType /\ r[c].op = calls[c].op
                               /\ r[c].size = calls[c].size /\ r[c].mark = calls[c].mark
                               /\ r[c].status = IF c \in cs THEN "returned" ELSE calls[c].status
  <2> SUFFICES ASSUME NEW c \in 1..Len(calls)
               PROVE  /\ r[c] \in CallType /\ r[c].op = calls[c].op
                      /\ r[c].size = calls[c].size /\ r[c].mark = calls[c].mark
                      /\ r[c].status = IF c \in cs THEN "returned" ELSE calls[c].status
    OBVIOUS
  <2>1. calls[c] \in CallType
    BY <1>1
  <2>2. CASE c \in cs
    <3>1. r[c] = [calls[c] EXCEPT !.status = "returned"]
      BY <1>3, <2>2
    <3> QED
      BY <1>4, <2>1, <2>2, <3>1
  <2>3. CASE c \notin cs
    BY <1>3, <2>1, <2>3
  <2> QED
    BY <2>2, <2>3
<1>6. r = [c \in 1..Len(calls) |-> r[c]]
  <2>1. Return(calls, cs) = [c \in DOMAIN calls |->
           IF c \in cs THEN [calls[c] EXCEPT !.status = "returned"] ELSE calls[c]]
    BY DEF Return
  <2> QED
    BY <1>1, <1>2, <2>1
<1>7. r \in [1..Len(calls) -> CallType]
  BY <1>5, <1>6
<1>8. r \in Seq(CallType) /\ Len(r) = Len(calls)
  <2>1. r \in Seq(CallType)
    BY <1>1, <1>7
  <2> QED
    BY <1>1, <1>3, <2>1, LenProperties
<1> QED
  BY <1>1, <1>2, <1>3, <1>5, <1>8

\* What takeBatch makes of a queue: the events at some positions of its front, in order,
\* are taken, and the rest stays.
LEMMA TakesInOrder ==
  ASSUME NEW S \in SUBSET Nat, NEW events \in Seq(S), Ascending(events),
         NEW k \in 0..Len(events), NEW A \in SUBSET (1..k), NEW p \in Enumerations(A)
  PROVE  LET front == [m \in DOMAIN p |-> events[p[m]]]
             rest == SubSeq(events, k + 1, Len(events))
         IN  /\ front \in Seq(S) /\ rest \in Seq(S) /\ Ascending(front \o rest)
             /\ A # {} => front # <<>>
             /\ \A i \in DOMAIN events :
                  /\ i \in A => events[i] \in Elements(front)
                  /\ i > k => events[i] \in Elements(rest)
<1>1. PICK front, rest, l, a : /\ front = [m \in DOMAIN p |-> events[p[m]]]
                               /\ rest = SubSeq(events, k + 1, Len(events))
                               /\ l = Len(events) /\ a = Cardinality(A)
  OBVIOUS
<1>2. /\ DOMAIN events = 1..l /\ l \in Nat /\ \A i \in 1..l : events[i] \in S
  BY <1>1, LenProperties
<1>3. k \in Nat /\ k =< l /\ A \subseteq 1..l /\ IsFiniteSet(A) /\ a \in Nat
  <2>1. k \in Nat /\ k =< l
    BY <1>1, <1>2
  <2>2. IsFiniteSet(1..k)
    BY <2>1, FS_Interval
  <2>3. IsFiniteSet(A)
    BY <2>2, FS_Subset
  <2>4. a \in Nat
    BY <1>1, <2>3, FS_CardinalityType
  <2>5. A \subseteq 1..l
    BY <1>2, <2>1
  <2> QED
    BY <2>1, <2>3, <2>4, <2>5
<1>4. /\ p \in [1..a -> A] /\ DOMAIN p = 1..a
      /\ \A m, n \in 1..a : m < n => p[m] < p[n]
  BY <1>1 DEF Enumerations
<1>5. \A i \in A : \E m \in 1..a : p[m] = i
  <2>1. IsFiniteSet(1..a) /\ Cardinality(1..a) = a
    BY <1>3, FS_Interval
  <2>2. p \in Injection(1..a, A)
    <3>0. \A m \in 1..a : p[m] \in Int
      <4>1. \A m \in 1..a : p[m] \in A
        BY <1>4
      <4>2. \A i \in A : i \in Int
        BY <1>2, <1>3
      <4> QED
        BY <4>1, <4>2
    <3>1. \A m, n \in 1..a : p[m] = p[n] => ~(m < n) /\ ~(n < m)
      BY <1>4, <3>0
    <3>2. \A m, n \in 1..a : ~(m < n) /\ ~(n < m) => m = n
      BY <1>3
    <3> QED
      BY <1>4, <3>1, <3>2 DEF Injection, IsInjective
  <2>3. p \in Surjection(1..a, A)
    BY <1>1, <1>3, <2>1, <2>2, FS_Injection
  <2> QED
    BY <2>3 DEF Surjection
<1>6. /\ front \in Seq(S) /\ DOMAIN front = 1..a /\ \A m \in 1..a : front[m] = events[p[m]]
  <2>1. \A m \in 1..a : events[p[m]] \in S
    BY <1>2, <1>3, <1>4
  <2>2. front = [m \in 1..a |-> events[p[m]]]
    BY <1>1, <1>4
  <2>3. front \in [1..a -> S]
    BY <2>1, <2>2
  <2> QED
    BY <1>3, <2>2, <2>3
<1>7. /\ rest \in Seq(S) /\ DOMAIN rest = 1..(l - k) /\ \A i \in 1..(l - k) : rest[i] = events[k + i]
  <2>1. /\ SubSeq(events, k + 1, l) \in Seq(S)
        /\ Len(SubSeq(events, k + 1, l)) = IF k + 1 =< l THEN l - (k + 1) + 1 ELSE 0
        /\ \A i \in 1..(l - (k + 1) + 1) : SubSeq(events, k + 1, l)[i] = events[k + 1 + i - 1]
    <3>1. k + 1 \in Int /\ l \in Int /\ \A i \in (k + 1)..l : events[i] \in S
      BY <1>2, <1>3
    <3> QED
      BY <3>1, SubSeqProperties
  <2>2. rest \in Seq(S) /\ Len(rest) = l - k
    BY <1>1, <1>3, <1>2, <2>1
  <2>3. \A i \in 1..(l - k) : i \in 1..(l - (k + 1) + 1) /\ k + 1 + i - 1 = k + i
    BY <1>2, <1>3
  <2> QED
    BY <1>1, <2>1, <2>2, <2>3, LenProperties
<1>8. Ascending(front \o rest)
  <2>1. front \in Seq(Nat) /\ rest \in Seq(Nat)
    BY <1>6, <1>7, SeqMonotonic
  <2>2. Ascending(front)
    <3> SUFFICES ASSUME NEW m \in 1..a, NEW n \in 1..a, m < n PROVE events[p[m]] < events[p[n]]
      BY <1>6 DEF Ascending, Channel!Ascending
    <3> QED
      BY <1>2, <1>3, <1>4 DEF Ascending, Channel!Ascending
  <2>3. Ascending(rest)
    <3> SUFFICES ASSUME NEW m \in 1..(l - k), NEW n \in 1..(l - k), m < n
                 PROVE  events[k + m] < events[k + n]
      BY <1>7 DEF Ascending, Channel!Ascending
    <3>1. k + m \in 1..l /\ k + n \in 1..l /\ k + m < k + n
      BY <1>2, <1>3
    <3> QED
      BY <1>2, <3>1 DEF Ascending, Channel!Ascending
  <2>4. ASSUME NEW m \in 1..a, NEW n \in 1..(l - k) PROVE events[p[m]] < events[k + n]
    <3>1. p[m] \in 1..l /\ k + n \in 1..l /\ p[m] < k + n
      <4>1. p[m] \in 1..k
        BY <1>4
      <4> QED
        BY <1>2, <1>3, <4>1
    <3> QED
      BY <1>2, <3>1 DEF Ascending, Channel!Ascending
  <2>5. \A i \in DOMAIN front, j \in DOMAIN rest : front[i] < rest[j]
    BY <1>6, <1>7, <2>4
  <2> QED
    BY <2>1, <2>2, <2>3, <2>5, ConcatAscending
<1>9. A # {} => front # <<>>
  <2>1. A # {} => DOMAIN front # {}
    BY <1>5, <1>6
  <2>2. DOMAIN <<>> = {}
    OBVIOUS
  <2> QED
    BY <2>1, <2>2
<1>10. ASSUME NEW i \in DOMAIN events
       PROVE  /\ i \in A => events[i] \in Elements(front)
              /\ i > k => events[i] \in Elements(rest)
  <2>1. i \in A => events[i] \in Elements(front)
    BY <1>5, <1>6 DEF Elements
  <2>2. ASSUME i > k PROVE events[i] \in Elements(rest)
    <3>1. i - k \in 1..(l - k) /\ k + (i - k) = i
      BY <1>2, <1>3, <2>2
    <3> QED
      BY <1>7, <3>1 DEF Elements
  <2> QED
    BY <2>1, <2>2
<1> QED
  BY <1>1, <1>6, <1>7, <1>8, <1>9, <1>10

\* One pass of the drain loop: the queue is split in order, only what cannot be
\* serialized is lost, the loop goes on while the queue is not empty, and the flushes
\* return if nothing is left.
LEMMA DrainSplits ==
  ASSUME NEW n \in Nat, NEW events \in Seq(1..n), Ascending(events), NEW calls, NEW notGood,
         NEW isClosed, Drain(events, calls, notGood, isClosed)
  PROVE  /\ batch' \in Seq(Elements(events)) /\ pending' \in Seq(Elements(events))
         /\ Ascending(batch' \o pending')
         /\ Elements(events) \subseteq Elements(batch') \cup Elements(pending') \cup notGood
         /\ draining' \in {"no", "sending"} /\ (draining' = "sending" <=> batch' # <<>>)
         /\ ~isClosed => (pending' # <<>> => draining' # "no")
         /\ \/ call' = calls /\ flushResolvers' = flushResolvers
            \/ /\ call' = Return(calls, flushResolvers) /\ flushResolvers' = {}
               /\ pending' = <<>> /\ batch' = <<>>
<1> DEFINE
      Ends == /\ draining' = "no" /\ batch' = <<>>
              /\ IF pending' = <<>>
                   THEN call' = Return(calls, flushResolvers) /\ flushResolvers' = {}
                   ELSE call' = calls /\ UNCHANGED flushResolvers
      S == Elements(events)
<1>1. /\ S \in SUBSET Nat /\ events \in Seq(S) /\ DOMAIN events = 1..Len(events)
      /\ Len(events) \in Nat
  BY ElementsOfSeq, LenProperties
<1>2. <<>> \in Seq(S) /\ Ascending(<<>>) /\ Elements(<<>>) = {} /\ <<>> \o events = events
      /\ <<>> \o <<>> = <<>>
  BY <1>1, EmptySeq, ConcatEmptySeq DEF Ascending, Channel!Ascending, Elements
<1>3. CASE (events = <<>> \/ isClosed) /\ pending' = events /\ Ends
  BY <1>1, <1>2, <1>3
<1>4. ASSUME events # <<>>, NEW k \in Cuts(events, notGood),
             pending' = SubSeq(events, k + 1, Len(events)),
             Taken(events, k, notGood) = {}, Ends
      PROVE  /\ pending' = <<>> /\ batch' = <<>> /\ S \subseteq notGood
  <2>1. Len(events) > 0 /\ maxBatchSize \in Nat /\ maxBatchSize > 0
    BY <1>1, <1>4, EmptySeq, BoundsAssumption
  <2>2. CASE ~config.bytes
    <3>1. k \in Nat /\ k > 0
      BY <1>1, <2>1, <2>2 DEF Cuts
    <3>2. 1 \in Taken(events, k, notGood)
      BY <2>2, <3>1 DEF Taken
    <3> QED
      BY <1>4, <3>2
  <2>3. CASE config.bytes
    <3>1. Cardinality(Taken(events, k, notGood)) = 0
      BY <1>4, FS_EmptySet
    <3>2. k = Len(events)
      BY <2>1, <2>3, <3>1 DEF Cuts
    <3>3. \A i \in 1..Len(events) : events[i] \in notGood
      BY <1>4, <2>3, <3>2 DEF Taken
    <3>4. pending' = <<>>
      BY <1>1, <1>4, <3>2, SubSeqEmpty
    <3> QED
      BY <1>1, <1>4, <3>3, <3>4 DEF Elements
  <2> QED
    BY <2>2, <2>3
<1>5. ASSUME NEW k \in Cuts(events, notGood), NEW p \in Enumerations(Taken(events, k, notGood)),
             pending' = SubSeq(events, k + 1, Len(events)),
             Taken(events, k, notGood) # {},
             batch' = [m \in DOMAIN p |-> events[p[m]]]
      PROVE  /\ batch' \in Seq(S) /\ pending' \in Seq(S) /\ batch' # <<>>
             /\ Ascending(batch' \o pending')
             /\ S \subseteq Elements(batch') \cup Elements(pending') \cup notGood
  <2>1. k \in 0..Len(events) /\ Taken(events, k, notGood) \in SUBSET (1..k)
    BY <1>1, BoundsAssumption DEF Cuts, Taken
  <2>2. /\ batch' \in Seq(S) /\ pending' \in Seq(S) /\ batch' # <<>>
        /\ Ascending(batch' \o pending')
        /\ \A i \in DOMAIN events :
             /\ i \in Taken(events, k, notGood) => events[i] \in Elements(batch')
             /\ i > k => events[i] \in Elements(pending')
    BY <1>1, <1>5, <2>1, TakesInOrder
  <2>3. ASSUME NEW i \in DOMAIN events
        PROVE  events[i] \in Elements(batch') \cup Elements(pending') \cup notGood
    <3>1. i > k \/ i \in 1..k
      BY <1>1, <2>1
    <3>2. i \in 1..k => i \in Taken(events, k, notGood) \/ events[i] \in notGood
      BY DEF Taken
    <3> QED
      BY <2>2, <3>1, <3>2
  <2> QED
    BY <2>2, <2>3 DEF Elements
<1>6. \/ (events = <<>> \/ isClosed) /\ pending' = events /\ Ends
      \/ /\ ~(events = <<>> \/ isClosed)
         /\ \E k \in Cuts(events, notGood) :
              /\ pending' = SubSeq(events, k + 1, Len(events))
              /\ \/ Taken(events, k, notGood) = {} /\ Ends
                 \/ /\ Taken(events, k, notGood) # {}
                    /\ \E p \in Enumerations(Taken(events, k, notGood)) :
                         batch' = [m \in DOMAIN p |-> events[p[m]]]
                    /\ draining' = "sending" /\ call' = calls /\ UNCHANGED flushResolvers
  BY DEF Drain
<1>7. CASE \E k \in Cuts(events, notGood) :
             /\ pending' = SubSeq(events, k + 1, Len(events))
             /\ events # <<>> /\ Taken(events, k, notGood) = {} /\ Ends
  <2>1. pending' = <<>> /\ batch' = <<>> /\ S \subseteq notGood /\ Ends
    BY <1>4, <1>7
  <2> QED
    BY <1>2, <2>1
<1>8. CASE \E k \in Cuts(events, notGood) :
             /\ pending' = SubSeq(events, k + 1, Len(events))
             /\ Taken(events, k, notGood) # {}
             /\ \E p \in Enumerations(Taken(events, k, notGood)) :
                  batch' = [m \in DOMAIN p |-> events[p[m]]]
             /\ draining' = "sending" /\ call' = calls /\ UNCHANGED flushResolvers
  <2>1. /\ batch' \in Seq(S) /\ pending' \in Seq(S) /\ batch' # <<>>
        /\ Ascending(batch' \o pending')
        /\ S \subseteq Elements(batch') \cup Elements(pending') \cup notGood
    BY <1>5, <1>8
  <2> QED
    BY <1>8, <2>1
<1> QED
  BY <1>3, <1>6, <1>7, <1>8

-----------------------------------------------------------------------------
(* The invariant.                                                          *)

\* The calls cs, when n events were accepted, those in received (or given up, or
\* impossible to send) need no more sending, and the callers in held wait to enqueue.
CallsGood(cs, n, received, held, isClosed) ==
  /\ cs \in Seq(CallType)
  /\ \A c \in DOMAIN cs : cs[c].op = "flush" =>
       /\ cs[c].mark =< n
       /\ cs[c].status = "returned" /\ ~isClosed => 1..cs[c].mark \subseteq received
  /\ \A c \in held : c \in DOMAIN cs /\ cs[c].op = "enqueue"

\* The queue and the batch: in order, not stranded, and nothing is missing.
Uploading(n, queue, sent, where, received, isClosed) ==
  /\ n \in Nat /\ queue \in Seq(1..n) /\ sent \in Seq(1..n)
  /\ Ascending(sent \o queue)
  /\ where \in {"no", "sending", "sleeping"}
  /\ ~isClosed => (queue # <<>> => where # "no")
  /\ where = "sending" <=> sent # <<>>
  /\ ~isClosed => 1..n \subseteq received \cup Elements(queue) \cup Elements(sent)

Received == Elements(server) \cup dropped \cup refused \cup bad
Held == Elements(backpressureResolvers) \cup Elements(resumed)

UploaderInv ==
  /\ closed \in BOOLEAN
  /\ backpressureResolvers \in Seq(Nat) /\ resumed \in Seq(Nat)
  /\ server \in Seq(1..count) /\ bad \subseteq 1..count /\ dropped \subseteq 1..count
  /\ Uploading(count, pending, batch, draining, Received, closed)
  /\ CallsGood(call, count, Received, Held, closed)

\* More events, more of them received, fewer callers held, or the end of the uploader.
LEMMA CallsStayGood ==
  ASSUME NEW cs, NEW n \in Nat, NEW D, NEW W, NEW isClosed \in BOOLEAN,
         CallsGood(cs, n, D, W, isClosed),
         NEW n2 \in Nat, n2 >= n, NEW D2, D \subseteq D2, NEW W2 \in SUBSET W,
         NEW isClosed2 \in BOOLEAN, isClosed => isClosed2
  PROVE  CallsGood(cs, n2, D2, W2, isClosed2)
<1>1. \A c \in DOMAIN cs : cs[c].mark \in Nat
  <2>1. cs \in Seq(CallType)
    BY DEF CallsGood
  <2>2. \A c \in DOMAIN cs : cs[c] \in CallType
    BY <2>1, LenProperties
  <2> QED
    BY <2>2 DEF CallType
<1> QED
  BY <1>1 DEF CallsGood

\* Calls may return that only enqueue, and all if nothing needs sending any more.
LEMMA CallsReturnGood ==
  ASSUME NEW cs, NEW n \in Nat, NEW D, NEW W, NEW isClosed, CallsGood(cs, n, D, W, isClosed),
         NEW R,
         \/ isClosed
         \/ 1..n \subseteq D
         \/ R \subseteq W
  PROVE  CallsGood(Return(cs, R), n, D, W, isClosed)
<1>1. cs \in Seq(CallType)
  BY DEF CallsGood
<1>2. PICK r : r = Return(cs, R)
  OBVIOUS
<1>3. /\ r \in Seq(CallType) /\ DOMAIN r = DOMAIN cs
      /\ \A c \in DOMAIN cs :
           /\ r[c].op = cs[c].op /\ r[c].mark = cs[c].mark
           /\ r[c].status = IF c \in R THEN "returned" ELSE cs[c].status
  BY <1>1, <1>2, Returns
<1>4. \A c \in DOMAIN cs : cs[c].mark \in Nat
  <2>1. \A c \in DOMAIN cs : cs[c] \in CallType
    BY <1>1, LenProperties
  <2> QED
    BY <2>1 DEF CallType
<1>5. ASSUME NEW c \in DOMAIN r, r[c].op = "flush"
      PROVE  /\ r[c].mark =< n
             /\ r[c].status = "returned" /\ ~isClosed => 1..r[c].mark \subseteq D
  <2>1. r[c].mark =< n /\ r[c].mark = cs[c].mark /\ cs[c].op = "flush"
    BY <1>3, <1>5 DEF CallsGood
  <2>2. CASE isClosed
    BY <2>1, <2>2
  <2>3. CASE 1..n \subseteq D
    <3>1. 1..r[c].mark \subseteq 1..n
      BY <1>3, <1>4, <2>1
    <3> QED
      BY <2>1, <2>3, <3>1
  <2>4. CASE R \subseteq W
    <3>1. c \notin R
      BY <1>3, <2>1, <2>4 DEF CallsGood
    <3> QED
      BY <1>3, <2>1, <3>1 DEF CallsGood
  <2> QED
    BY <2>2, <2>3, <2>4
<1>6. \A c \in W : c \in DOMAIN r /\ r[c].op = "enqueue"
  BY <1>3 DEF CallsGood
<1>7. CallsGood(r, n, D, W, isClosed)
  BY <1>3, <1>5, <1>6 DEF CallsGood
<1> QED
  BY <1>2, <1>7

\* A new call.
LEMMA CallsGrowGood ==
  ASSUME NEW cs, NEW n \in Nat, NEW D, NEW W, NEW isClosed, CallsGood(cs, n, D, W, isClosed),
         NEW r \in CallType, NEW W2,
         r.op = "flush" => /\ r.mark =< n /\ W2 = W
                           /\ r.status = "returned" /\ ~isClosed => 1..r.mark \subseteq D,
         W2 = W \/ W2 = W \cup {Len(cs) + 1}
  PROVE  CallsGood(Append(cs, r), n, D, W2, isClosed)
<1>1. cs \in Seq(CallType)
  BY DEF CallsGood
<1>2. PICK a, l : a = Append(cs, r) /\ l = Len(cs)
  OBVIOUS
<1>3. /\ a \in Seq(CallType) /\ l \in Nat /\ DOMAIN cs = 1..l /\ DOMAIN a = 1..(l + 1)
      /\ \A c \in 1..l : a[c] = cs[c]
      /\ a[l + 1] = r
  BY <1>1, <1>2, AppendProperties, LenProperties
<1>4. \A c \in DOMAIN a : c \in DOMAIN cs \/ c = l + 1
  BY <1>3
<1>5. \A c \in DOMAIN cs : c \in DOMAIN a /\ a[c] = cs[c]
  BY <1>3
<1>6. l + 1 \in DOMAIN a /\ a[l + 1] = r
  BY <1>3
<1>7. r.op # "flush" => r.op = "enqueue"
  BY DEF CallType
<1>8. \A c \in DOMAIN a : a[c].op = "flush" =>
        /\ a[c].mark =< n
        /\ a[c].status = "returned" /\ ~isClosed => 1..a[c].mark \subseteq D
  BY <1>4, <1>5, <1>6 DEF CallsGood
<1>9. \A c \in W : c \in DOMAIN a /\ a[c].op = "enqueue"
  BY <1>5 DEF CallsGood
<1>10. CASE W2 = W
  BY <1>2, <1>3, <1>8, <1>9, <1>10 DEF CallsGood
<1>11. CASE W2 = W \cup {Len(cs) + 1} /\ r.op = "enqueue"
  <2>1. \A c \in W2 : c \in DOMAIN a /\ a[c].op = "enqueue"
    BY <1>2, <1>6, <1>9, <1>11
  <2> QED
    BY <1>2, <1>3, <1>8, <2>1 DEF CallsGood
<1> QED
  BY <1>7, <1>10, <1>11

\* What one pass of the drain loop makes of a queue from which nothing is missing.
LEMMA DrainKeeps ==
  ASSUME NEW n \in Nat, NEW events \in Seq(1..n), Ascending(events), NEW calls, NEW notGood,
         NEW isClosed, NEW D, notGood \subseteq D,
         ~isClosed => 1..n \subseteq D \cup Elements(events),
         NEW W, CallsGood(calls, n, D, W, isClosed),
         Drain(events, calls, notGood, isClosed)
  PROVE  /\ Uploading(n, pending', batch', draining', D, isClosed)
         /\ CallsGood(call', n, D, W, isClosed)
         /\ batch' \o pending' \in Seq(Elements(events))
<1>1. /\ batch' \in Seq(Elements(events)) /\ pending' \in Seq(Elements(events))
      /\ Ascending(batch' \o pending')
      /\ Elements(events) \subseteq Elements(batch') \cup Elements(pending') \cup notGood
      /\ draining' \in {"no", "sending"} /\ (draining' = "sending" <=> batch' # <<>>)
      /\ ~isClosed => (pending' # <<>> => draining' # "no")
      /\ \/ call' = calls /\ flushResolvers' = flushResolvers
         \/ /\ call' = Return(calls, flushResolvers) /\ flushResolvers' = {}
            /\ pending' = <<>> /\ batch' = <<>>
  BY DrainSplits
<1>2. Elements(events) \subseteq 1..n /\ Elements(<<>>) = {}
  BY ElementsOfSeq DEF Elements
<1>3. batch' \in Seq(1..n) /\ pending' \in Seq(1..n)
  BY <1>1, <1>2, SeqMonotonic
<1>4. batch' \o pending' \in Seq(Elements(events))
  BY <1>1, ConcatElements
<1>5. Uploading(n, pending', batch', draining', D, isClosed)
  BY <1>1, <1>3 DEF Uploading
<1>6. CASE pending' = <<>> /\ batch' = <<>>
  <2>1. isClosed \/ 1..n \subseteq D
    BY <1>1, <1>2, <1>6
  <2>2. CallsGood(Return(calls, flushResolvers), n, D, W, isClosed)
    BY <2>1, CallsReturnGood
  <2> QED
    BY <1>1, <1>4, <1>5, <2>2
<1> QED
  BY <1>1, <1>4, <1>5, <1>6

\* The numbers of the events of a call.
LEMMA Numbers ==
  ASSUME NEW n \in Nat, NEW m \in Nat
  PROVE  LET new == [k \in 1..m |-> n + k]
         IN  /\ new \in Seq((n + 1)..(n + m)) /\ Ascending(new)
             /\ Elements(new) = (n + 1)..(n + m)
             /\ {n + k : k \in DOMAIN new} = (n + 1)..(n + m)
<1>1. PICK new : new = [k \in 1..m |-> n + k]
  OBVIOUS
<1>2. DOMAIN new = 1..m /\ \A k \in 1..m : new[k] = n + k /\ n + k \in (n + 1)..(n + m)
  BY <1>1
<1>3. new \in Seq((n + 1)..(n + m))
  <2>1. new \in [1..m -> (n + 1)..(n + m)]
    BY <1>1, <1>2
  <2> QED
    BY <2>1
<1>4. Ascending(new)
  BY <1>2 DEF Ascending, Channel!Ascending
<1>5. \A e \in (n + 1)..(n + m) : e - n \in 1..m /\ n + (e - n) = e
  OBVIOUS
<1>6. \A e \in (n + 1)..(n + m) : \E k \in DOMAIN new : n + k = e /\ new[k] = e
  BY <1>2, <1>5
<1>7. \A k \in DOMAIN new : n + k \in (n + 1)..(n + m) /\ new[k] = n + k
  BY <1>2
<1>8. {n + k : k \in DOMAIN new} = (n + 1)..(n + m)
  BY <1>6, <1>7, ZenonT(30)
<1>9. Elements(new) = (n + 1)..(n + m)
  BY <1>6, <1>7, ZenonT(30) DEF Elements
<1> QED
  BY <1>1, <1>3, <1>4, <1>8, <1>9

\* The events of a call come behind those that wait, and the loop runs then.
LEMMA PushKeeps ==
  ASSUME UploaderInv, ~closed, NEW c, NEW calls, NEW W,
         CallsGood(calls, count, Received, W, closed), c \in W, c \in Nat, Push(c, calls)
  PROVE  /\ count' \in Nat /\ count' >= count /\ bad \subseteq bad' /\ bad' \subseteq 1..count'
         /\ Uploading(count', pending', batch', draining', Received \cup bad', closed)
         /\ CallsGood(call', count', Received \cup bad', W, closed)
         /\ batch' \o pending' \in
              Seq(Elements(batch \o pending) \cup (count + 1)..count')
<1>1. PICK n, m, new, notGood, D, b, q, S, events :
        /\ n = count /\ m = calls[c].size /\ new = [k \in 1..m |-> n + k]
        /\ notGood = (IF calls[c].good THEN bad ELSE bad \cup {n + k : k \in DOMAIN new})
        /\ D = Received \cup notGood /\ b = batch /\ q = pending
        /\ S = Elements(b \o q) \cup (n + 1)..(n + m)
        /\ events = q \o new
  OBVIOUS
<1>2. /\ n \in Nat /\ q \in Seq(1..n) /\ b \in Seq(1..n) /\ Ascending(b \o q)
      /\ draining \in {"no", "sending", "sleeping"}
      /\ q # <<>> => draining # "no"
      /\ draining = "sending" <=> b # <<>>
      /\ 1..n \subseteq Received \cup Elements(q) \cup Elements(b)
      /\ bad \subseteq 1..n
  BY <1>1 DEF UploaderInv, Uploading
<1>3. m \in Nat
  <2>1. calls[c] \in CallType
    <3>1. calls \in Seq(CallType) /\ c \in DOMAIN calls
      BY DEF CallsGood
    <3> QED
      BY <3>1, LenProperties
  <2>2. 1..MaxEvents \subseteq Nat
    OBVIOUS
  <2> QED
    BY <1>1, <2>1, <2>2 DEF CallType
<1>4. /\ new \in Seq((n + 1)..(n + m)) /\ Ascending(new)
      /\ Elements(new) = (n + 1)..(n + m)
      /\ {n + k : k \in DOMAIN new} = (n + 1)..(n + m)
  BY <1>1, <1>2, <1>3, Numbers
<1>5. /\ n + m \in Nat /\ n + m >= n /\ 1..n \subseteq 1..(n + m)
      /\ (n + 1)..(n + m) \subseteq 1..(n + m)
      /\ 1..(n + m) = 1..n \cup (n + 1)..(n + m)
      /\ \A i \in 1..n, j \in (n + 1)..(n + m) : i < j
  BY <1>2, <1>3
<1>6. notGood \subseteq 1..(n + m) /\ bad \subseteq notGood /\ Received \subseteq D /\ notGood \subseteq D
  BY <1>1, <1>2, <1>4, <1>5
<1>7. /\ b \in Seq(1..(n + m)) /\ q \in Seq(1..(n + m)) /\ new \in Seq(1..(n + m))
      /\ 1..(n + m) \subseteq Nat
  BY <1>2, <1>4, <1>5, SeqMonotonic
<1>8. /\ events \in Seq(1..(n + m)) /\ Elements(events) = Elements(q) \cup (n + 1)..(n + m)
      /\ Elements(b \o q) = Elements(b) \cup Elements(q)
  <2>1. q \o new \in Seq(1..(n + m)) /\ Elements(q \o new) = Elements(q) \cup Elements(new)
    BY <1>7, ConcatElements
  <2>2. Elements(b \o q) = Elements(b) \cup Elements(q)
    BY <1>7, ConcatElements
  <2> QED
    BY <1>1, <1>4, <2>1, <2>2
<1>9. /\ b \o events = (b \o q) \o new /\ b \o q \in Seq(1..n)
      /\ b \o events \in Seq(S)
  <2>1. (b \o q) \o new = b \o events
    <3>1. (b \o q) \o new = b \o (q \o new)
      BY <1>7, ConcatAssociative
    <3>2. events = q \o new
      BY <1>1
    <3> QED
      BY <3>1, <3>2
  <2>2. b \o q \in Seq(1..n)
    BY <1>2, ConcatElements
  <2>3. b \o q \in Seq(S) /\ new \in Seq(S)
    <3>1. S = Elements(b \o q) \cup (n + 1)..(n + m)
      BY <1>1
    <3>2. b \o q \in Seq(Elements(b \o q))
      BY <2>2, ElementsOfSeq
    <3>3. b \o q \in Seq(S)
      BY <3>1, <3>2, SeqMonotonic
    <3>4. new \in Seq(S)
      BY <1>4, <3>1, SeqMonotonic
    <3> QED
      BY <3>3, <3>4
  <2> QED
    BY <2>1, <2>2, <2>3, ConcatElements
<1>10. Ascending(b \o events) /\ Ascending(events)
  <2>1. ASSUME NEW s, s \in Seq(1..n), Ascending(s) PROVE Ascending(s \o new)
    <3>1. s \in Seq(Nat) /\ new \in Seq(Nat)
      BY <1>4, <1>5, <1>7, <2>1, SeqMonotonic
    <3>2. \A i \in DOMAIN s : s[i] \in 1..n
      BY <2>1, LenProperties
    <3>3. \A i \in DOMAIN new : new[i] \in (n + 1)..(n + m)
      BY <1>4, LenProperties
    <3>4. \A i \in DOMAIN s, j \in DOMAIN new : s[i] < new[j]
      BY <1>5, <3>2, <3>3
    <3> QED
      BY <1>4, <2>1, <3>1, <3>4, ConcatAscending
  <2>2. Ascending(q)
    <3>1. b \in Seq(Nat) /\ q \in Seq(Nat)
      BY <1>2, SeqMonotonic, 1..n \subseteq Nat
    <3> QED
      BY <1>2, <3>1, ConcatAscending
  <2> QED
    BY <1>1, <1>2, <1>9, <2>1, <2>2
<1>11. CallsGood(calls, n + m, D, W, closed)
  BY <1>1, <1>2, <1>5, <1>6, CallsStayGood DEF UploaderInv
<1>12. PICK done : done = Return(calls, {c})
  OBVIOUS
<1>13. CallsGood(done, n + m, D, W, closed)
  BY <1>5, <1>11, <1>12, CallsReturnGood
<1>14. /\ count' = n + m /\ bad' = notGood /\ D = Received \cup bad'
       /\ \/ draining = "no" /\ Drain(events, done, notGood, closed)
          \/ /\ draining # "no" /\ pending' = events /\ call' = done
             /\ UNCHANGED <<batch, draining>>
  BY <1>1, <1>12 DEF Push
<1>15. CASE draining = "no" /\ Drain(events, done, notGood, closed)
  <2>1. b = <<>> /\ Elements(b) = {}
    BY <1>2, <1>15, ElementsOfSeq
  <2>2. ~closed => 1..(n + m) \subseteq D \cup Elements(events)
    BY <1>2, <1>5, <1>6, <1>8, <2>1
  <2>3. /\ Uploading(n + m, pending', batch', draining', D, closed)
        /\ CallsGood(call', n + m, D, W, closed)
        /\ batch' \o pending' \in Seq(Elements(events))
    <3>1. PICK isClosed : isClosed = closed
      OBVIOUS
    <3> QED
      BY <1>5, <1>6, <1>8, <1>10, <1>13, <1>15, <2>2, <3>1, DrainKeeps
  <2>4. batch' \o pending' \in Seq(S)
    BY <1>1, <1>8, <2>3, SeqMonotonic
  <2> QED
    BY <1>1, <1>5, <1>6, <1>14, <2>3, <2>4
<1>16. CASE /\ draining # "no" /\ pending' = events /\ call' = done
            /\ UNCHANGED <<batch, draining>>
  <2>1. Uploading(n + m, events, b, draining, D, closed)
    BY <1>2, <1>5, <1>6, <1>7, <1>8, <1>10, <1>16 DEF Uploading
  <2> QED
    BY <1>1, <1>5, <1>6, <1>9, <1>13, <1>14, <1>16, <2>1
<1> QED
  BY <1>14, <1>15, <1>16

-----------------------------------------------------------------------------
(* Steps.                                                                  *)

\* The channel may forget events, and what is sent is the front of its queue.
LEMMA ChannelSteps ==
  ASSUME UploaderInv, count' = count,
         batch' \o pending' \in Seq(Elements(batch \o pending)), Ascending(batch' \o pending'),
         server' = server \/ server' = server \o batch
  PROVE  Channel!Next
<1>1. PICK b, q, s, n, u : /\ b = batch /\ q = pending /\ s = server /\ n = count
                           /\ u = batch \o pending
  OBVIOUS
<1>2. /\ n \in Nat /\ b \in Seq(1..n) /\ q \in Seq(1..n) /\ s \in Seq(1..n)
  BY <1>1 DEF UploaderInv, Uploading
<1>3. /\ Len(b) \in Nat /\ Len(q) \in Nat
      /\ u \in Seq(1..n) /\ Len(u) = Len(b) + Len(q) /\ DOMAIN u = 1..(Len(b) + Len(q))
      /\ \A i \in 1..Len(b) : i \in DOMAIN u /\ u[i] = b[i] /\ u[i] \in 1..n
  <2>1. Len(b) \in Nat /\ Len(q) \in Nat
    BY <1>2, LenProperties
  <2>2. /\ u \in Seq(1..n) /\ Len(u) = Len(b) + Len(q)
        /\ \A i \in 1..(Len(b) + Len(q)) : u[i] = IF i =< Len(b) THEN b[i] ELSE q[i - Len(b)]
    BY <1>1, <1>2, ConcatProperties
  <2>3. DOMAIN u = 1..(Len(b) + Len(q)) /\ \A i \in DOMAIN u : u[i] \in 1..n
    BY <2>2, LenProperties
  <2>4. \A i \in 1..Len(b) : i \in 1..(Len(b) + Len(q)) /\ i =< Len(b)
    BY <2>1
  <2>5. \A i \in 1..Len(b) : i \in DOMAIN u /\ u[i] = b[i] /\ u[i] \in 1..n
    BY <2>2, <2>3, <2>4
  <2> QED
    BY <2>1, <2>2, <2>3, <2>5
<1>4. SubSeq(u, 1, Len(b)) = b
  <2>1. PICK v, l : v = SubSeq(u, 1, Len(b)) /\ l = Len(b)
    OBVIOUS
  <2>2. /\ v \in Seq(1..n) /\ Len(v) = (IF 1 =< l THEN l - 1 + 1 ELSE 0)
        /\ \A i \in 1..(l - 1 + 1) : v[i] = u[1 + i - 1]
    BY <1>3, <2>1, SubSeqProperties, 1 \in Int, l \in Int
  <2>3. Len(v) = l /\ \A i \in 1..l : i \in 1..(l - 1 + 1) /\ 1 + i - 1 = i
    BY <1>3, <2>1, <2>2
  <2>4. \A i \in 1..Len(v) : v[i] = b[i]
    BY <1>3, <2>1, <2>2, <2>3
  <2> QED
    BY <1>2, <2>1, <2>2, <2>3, <2>4, SeqEqual
<1>5. SubSeq(u, 1, 0) = <<>> /\ s \o <<>> = s
  BY <1>2, SubSeqEmpty, ConcatEmptySeq
<1>6. Channel!QueuedOf(Channel!Queued)
  BY DEF Channel!QueuedOf, Channel!Queued, Elements, Ascending
<1>7. CASE server' = server
  <2>1. Channel!Receive(0)
    BY <1>1, <1>5, <1>6, <1>7 DEF Channel!Receive
  <2>2. 0 \in 0..Len(batch \o pending)
    BY <1>1, <1>3
  <2> QED
    BY <2>1, <2>2 DEF Channel!Next
<1>8. CASE server' = server \o batch
  <2>1. Channel!Receive(Len(batch))
    BY <1>1, <1>4, <1>6, <1>8 DEF Channel!Receive
  <2>2. Len(batch) \in 0..Len(batch \o pending)
    BY <1>1, <1>3
  <2> QED
    BY <2>1, <2>2 DEF Channel!Next
<1> QED
  BY <1>7, <1>8

Moved == UploaderInv' /\ [Channel!Next]_(Channel!channelVars)

\* A call of enqueue that is let in, is held back, or comes too late.
LEMMA EnqueueMoves ==
  ASSUME UploaderInv, NEW c \in Nat, NEW calls,
         CallsGood(calls, count, Received, Held \cup {c}, closed),
         closed' = closed, UNCHANGED serverVars,
         resumed' \in Seq(Nat), Elements(resumed') \subseteq Elements(resumed),
         \/ /\ closed /\ call' = Return(calls, {c})
            /\ UNCHANGED <<queueVars, backpressureResolvers, ghostVars>>
         \/ /\ ~closed /\ call' = calls
            /\ backpressureResolvers' = Append(backpressureResolvers, c)
            /\ UNCHANGED <<queueVars, ghostVars>>
         \/ ~closed /\ Push(c, calls) /\ UNCHANGED <<backpressureResolvers, dropped, refused>>
  PROVE  Moved
<1>1. PICK W, W2 : W = Held /\ W2 = Held \cup {c}
  OBVIOUS
<1>2. /\ backpressureResolvers \in Seq(Nat) /\ server \in Seq(1..count)
      /\ bad \subseteq 1..count /\ dropped \subseteq 1..count /\ closed \in BOOLEAN
      /\ count \in Nat
      /\ Uploading(count, pending, batch, draining, Received, closed)
  BY DEF UploaderInv, Uploading
<1>3. UNCHANGED <<server, lost>> /\ closed' \in BOOLEAN /\ W \in SUBSET W2
  BY <1>1, <1>2 DEF serverVars
<1>4. CASE /\ UNCHANGED <<queueVars, ghostVars>>
           /\ \/ closed /\ call' = Return(calls, {c}) /\ UNCHANGED backpressureResolvers
              \/ /\ call' = calls
                 /\ backpressureResolvers' = Append(backpressureResolvers, c)
  <2>1. UNCHANGED <<count, pending, batch, draining, bad, dropped, refused, server>>
    BY <1>3, <1>4 DEF queueVars, ghostVars
  <2>2. ASSUME CallsGood(call', count, Received, Held', closed),
               backpressureResolvers' \in Seq(Nat)
        PROVE  Moved
    <3>1. Received' = Received
      BY <2>1 DEF Received
    <3>2. UploaderInv'
      BY <1>2, <1>3, <2>1, <2>2, <3>1 DEF UploaderInv
    <3> QED
      BY <2>1, <3>2 DEF Moved, Channel!channelVars
  <2>3. CASE closed /\ call' = Return(calls, {c}) /\ UNCHANGED backpressureResolvers
    <3>1. CallsGood(call', count, Received, W2, closed)
      BY <1>1, <1>2, <2>3, CallsReturnGood
    <3>2. Held' \in SUBSET W2
      BY <1>1, <2>3 DEF Held
    <3>3. CallsGood(call', count, Received, Held', closed)
      BY <1>2, <3>1, <3>2, CallsStayGood
    <3> QED
      BY <1>2, <2>2, <2>3, <3>3
  <2>4. CASE call' = calls /\ backpressureResolvers' = Append(backpressureResolvers, c)
    <3>1. /\ backpressureResolvers' \in Seq(Nat)
          /\ Elements(backpressureResolvers') \subseteq Elements(backpressureResolvers) \cup {c}
      <4>1. PICK s, t, l : /\ s = backpressureResolvers /\ t = backpressureResolvers'
                           /\ l = Len(s)
        OBVIOUS
      <4>2. /\ t \in Seq(Nat) /\ DOMAIN t = 1..(l + 1) /\ DOMAIN s = 1..l /\ l \in Nat
            /\ \A i \in 1..l : t[i] = s[i]
            /\ t[l + 1] = c
        BY <1>2, <2>4, <4>1, AppendProperties, LenProperties
      <4>3. \A i \in DOMAIN t : (i \in DOMAIN s /\ t[i] = s[i]) \/ t[i] = c
        BY <4>2
      <4>4. Elements(t) \subseteq Elements(s) \cup {c}
        BY <4>3 DEF Elements
      <4> QED
        BY <4>1, <4>2, <4>4
    <3>2. Held' \in SUBSET W2
      BY <1>1, <3>1 DEF Held
    <3>3. CallsGood(call', count, Received, Held', closed)
      BY <1>1, <1>2, <2>4, <3>2, CallsStayGood
    <3> QED
      BY <2>2, <3>1, <3>3
  <2> QED
    BY <1>4, <2>3, <2>4
<1>5. CASE ~closed /\ Push(c, calls) /\ UNCHANGED <<backpressureResolvers, dropped, refused>>
  <2>1. /\ count' \in Nat /\ count' >= count /\ bad \subseteq bad' /\ bad' \subseteq 1..count'
        /\ Uploading(count', pending', batch', draining', Received \cup bad', closed)
        /\ CallsGood(call', count', Received \cup bad', W2, closed)
        /\ batch' \o pending' \in Seq(Elements(batch \o pending) \cup (count + 1)..count')
    BY <1>1, <1>5, PushKeeps
  <2>2. Received' = Received \cup bad'
    BY <1>3, <1>5, <2>1 DEF Received
  <2>3. Held' \in SUBSET W2
    BY <1>1, <1>5 DEF Held
  <2>4. CallsGood(call', count', Received', Held', closed)
    BY <1>2, <2>1, <2>2, <2>3, CallsStayGood
  <2>5. 1..count \subseteq 1..count'
    BY <1>2, <2>1
  <2>6. server' \in Seq(1..count') /\ dropped' \subseteq 1..count'
    BY <1>2, <1>3, <1>5, <2>5, SeqMonotonic
  <2>7. UploaderInv'
    BY <1>2, <1>3, <1>5, <2>1, <2>2, <2>4, <2>6 DEF UploaderInv
  <2>8. Ascending(batch' \o pending')
    BY <2>1 DEF Uploading
  <2>9. Channel!Accept
    BY <1>3, <2>1, <2>8 DEF Channel!Accept, Channel!QueuedOf, Channel!Queued, Elements, Ascending
  <2> QED
    BY <2>7, <2>9 DEF Moved, Channel!Next
<1> QED
  BY <1>4, <1>5

\* The loop goes on once its batch was received, given up, or put back.
LEMMA DrainMoves ==
  ASSUME UploaderInv, UNCHANGED <<count, bad, closed>>,
         server' = server \/ server' = server \o batch,
         dropped \subseteq dropped', dropped' \subseteq 1..count, refused \subseteq refused',
         Elements(batch) \subseteq Elements(server') \cup dropped' \cup refused',
         backpressureResolvers' \in Seq(Nat), resumed' \in Seq(Nat), Held' \subseteq Held,
         Drain(pending, call, bad, closed)
  PROVE  Moved
<1>1. PICK n, b, q, cs, notGood, isClosed, D, W, W2 :
        /\ n = count /\ b = batch /\ q = pending /\ cs = call /\ notGood = bad
        /\ isClosed = closed /\ D = Received' /\ W = Held /\ W2 = Held'
  OBVIOUS
<1>2. /\ n \in Nat /\ b \in Seq(1..n) /\ q \in Seq(1..n) /\ Ascending(b \o q)
      /\ server \in Seq(1..n) /\ bad \subseteq 1..n /\ closed \in BOOLEAN
      /\ ~closed => 1..n \subseteq Received \cup Elements(q) \cup Elements(b)
      /\ CallsGood(cs, n, Received, W, isClosed)
  BY <1>1 DEF UploaderInv, Uploading
<1>3. /\ server \o batch \in Seq(1..n) /\ Elements(server \o batch) = Elements(server) \cup Elements(batch)
      /\ batch \o pending \in Seq(1..n) /\ Elements(batch \o pending) = Elements(batch) \cup Elements(pending)
  <2>1. PICK s : s = server
    OBVIOUS
  <2>2. s \in Seq(1..n)
    BY <1>2, <2>1
  <2>3. s \o b \in Seq(1..n) /\ Elements(s \o b) = Elements(s) \cup Elements(b)
    BY <1>2, <2>2, ConcatElements
  <2>4. b \o q \in Seq(1..n) /\ Elements(b \o q) = Elements(b) \cup Elements(q)
    BY <1>2, ConcatElements
  <2> QED
    BY <1>1, <2>1, <2>3, <2>4
<1>4. server' \in Seq(1..n) /\ Elements(server) \subseteq Elements(server')
  BY <1>2, <1>3
<1>5. /\ Received \subseteq D /\ notGood \subseteq D /\ Elements(b) \subseteq D
      /\ D = Elements(server') \cup dropped' \cup refused' \cup bad'
  BY <1>1, <1>4 DEF Received
<1>6. Ascending(q)
  <2>1. b \in Seq(Nat) /\ q \in Seq(Nat)
    BY <1>2, SeqMonotonic, 1..n \subseteq Nat
  <2> QED
    BY <1>2, <2>1, ConcatAscending
<1>7. ~isClosed => 1..n \subseteq D \cup Elements(q)
  BY <1>1, <1>2, <1>5
<1>8. CallsGood(cs, n, D, W, isClosed)
  <2>1. PICK R : R = Received
    OBVIOUS
  <2>2. CallsGood(cs, n, R, W, isClosed) /\ R \subseteq D /\ isClosed \in BOOLEAN
    BY <1>1, <1>2, <1>5, <2>1
  <2>3. n >= n /\ W \in SUBSET W
    BY <1>2
  <2> QED
    BY <1>2, <2>2, <2>3, CallsStayGood
<1>9. Drain(q, cs, notGood, isClosed)
  BY <1>1
<1>10. /\ Uploading(n, pending', batch', draining', D, isClosed)
       /\ CallsGood(call', n, D, W, isClosed)
       /\ batch' \o pending' \in Seq(Elements(q))
  BY <1>2, <1>5, <1>6, <1>7, <1>8, <1>9, DrainKeeps
<1>11. CallsGood(call', n, D, W2, isClosed)
  BY <1>1, <1>2, <1>10, CallsStayGood
<1>12. UploaderInv'
  <2>1. dropped' \subseteq 1..n /\ bad' \subseteq 1..n /\ closed' \in BOOLEAN
    BY <1>1, <1>2
  <2> QED
    BY <1>1, <1>4, <1>10, <1>11, <2>1 DEF UploaderInv
<1>13. batch' \o pending' \in Seq(Elements(batch \o pending))
  BY <1>1, <1>3, <1>10, SeqMonotonic
<1>14. Ascending(batch' \o pending')
  BY <1>10 DEF Uploading
<1>15. Channel!Next
  BY <1>13, <1>14, ChannelSteps
<1> QED
  BY <1>12, <1>15 DEF Moved

\* Resolved promises are promises that were waited for.
LEMMA Releases ==
  ASSUME UploaderInv, ReleaseBackpressure
  PROVE  backpressureResolvers' \in Seq(Nat) /\ resumed' \in Seq(Nat) /\ Held' \subseteq Held
<1>1. PICK s, t : s = resumed /\ t = backpressureResolvers
  OBVIOUS
<1>2. s \in Seq(Nat) /\ t \in Seq(Nat)
  BY <1>1 DEF UploaderInv
<1>3. s \o t \in Seq(Nat) /\ Elements(s \o t) = Elements(s) \cup Elements(t)
  BY <1>2, ConcatElements
<1>4. <<>> \in Seq(Nat) /\ Elements(<<>>) = {}
  BY DEF Elements
<1>5. backpressureResolvers' = <<>> /\ resumed' = s \o t
  BY <1>1 DEF ReleaseBackpressure
<1> QED
  BY <1>1, <1>3, <1>4, <1>5 DEF Held

LEMMA EnqueueStep ==
  ASSUME UploaderInv, NEW k \in 1..MaxEvents, NEW good \in BOOLEAN, Enqueue(k, good)
  PROVE  Moved
<1>1. PICK r, c, cs, calls, n, D, W, isClosed :
        /\ r = [op |-> "enqueue", size |-> k, good |-> good, status |-> "waiting",
                mark |-> 0, late |-> closed]
        /\ c = Len(call) + 1 /\ cs = call /\ calls = Append(call, r)
        /\ n = count /\ D = Received /\ W = Held /\ isClosed = closed
  OBVIOUS
<1>2. /\ n \in Nat /\ closed \in BOOLEAN /\ resumed \in Seq(Nat)
      /\ CallsGood(cs, n, D, W, isClosed)
  BY <1>1 DEF UploaderInv, Uploading
<1>3. r \in CallType /\ r.op = "enqueue"
  BY <1>1, <1>2 DEF CallType
<1>4. c \in Nat
  <2>1. cs \in Seq(CallType)
    BY <1>2 DEF CallsGood
  <2>2. Len(cs) \in Nat
    BY <2>1, LenProperties
  <2> QED
    BY <1>1, <2>2
<1>5. CallsGood(Append(cs, r), n, D, W \cup {Len(cs) + 1}, isClosed)
  BY <1>2, <1>3, CallsGrowGood
<1>6. CallsGood(calls, count, Received, Held \cup {c}, closed)
  BY <1>1, <1>5
<1>7. /\ \/ /\ closed /\ call' = Return(calls, {c})
            /\ UNCHANGED <<queueVars, backpressureResolvers, ghostVars>>
         \/ /\ ~closed /\ call' = calls
            /\ backpressureResolvers' = Append(backpressureResolvers, c)
            /\ UNCHANGED <<queueVars, ghostVars>>
         \/ ~closed /\ Push(c, calls) /\ UNCHANGED <<backpressureResolvers, dropped, refused>>
      /\ UNCHANGED <<closed, resumed, serverVars>>
  BY <1>1 DEF Enqueue
<1>8. resumed' = resumed
  BY <1>7
<1>9. resumed' \in Seq(Nat) /\ Elements(resumed') \subseteq Elements(resumed)
  BY <1>2, <1>8
<1> QED
  BY <1>4, <1>6, <1>7, <1>9, EnqueueMoves

LEMMA ResumeStep ==
  ASSUME UploaderInv, Resume
  PROVE  Moved
<1>1. PICK c, calls, s : c = Head(resumed) /\ calls = call /\ s = resumed
  OBVIOUS
<1>2. s \in Seq(Nat) /\ s # <<>> /\ resumed' = Tail(s)
  BY <1>1 DEF UploaderInv, Resume
<1>3. c \in Nat /\ c \in Elements(s) /\ Tail(s) \in Seq(Nat) /\ Elements(Tail(s)) \subseteq Elements(s)
  <2>1. /\ Len(s) \in Nat /\ Len(s) > 0 /\ DOMAIN s = 1..Len(s) /\ c = s[1]
    BY <1>1, <1>2, LenProperties, EmptySeq
  <2>2. /\ Tail(s) \in Seq(Nat) /\ Len(Tail(s)) = Len(s) - 1
        /\ \A i \in 1..Len(Tail(s)) : Tail(s)[i] = s[i + 1]
    BY <1>2, HeadTailProperties
  <2>3. DOMAIN Tail(s) = 1..(Len(s) - 1)
    BY <2>2, LenProperties
  <2>4. \A i \in DOMAIN Tail(s) : i + 1 \in DOMAIN s /\ Tail(s)[i] = s[i + 1]
    BY <2>1, <2>2, <2>3
  <2>5. 1 \in DOMAIN s /\ s[1] \in Nat
    BY <1>2, <2>1, ElementOfSeq
  <2> QED
    BY <2>1, <2>2, <2>4, <2>5 DEF Elements
<1>4. CallsGood(calls, count, Received, Held \cup {c}, closed)
  <2>1. Held \cup {c} = Held
    BY <1>1, <1>3 DEF Held
  <2> QED
    BY <1>1, <2>1 DEF UploaderInv
<1>5. /\ \/ /\ closed /\ call' = Return(calls, {c})
            /\ UNCHANGED <<queueVars, backpressureResolvers, ghostVars>>
         \/ /\ ~closed /\ call' = calls
            /\ backpressureResolvers' = Append(backpressureResolvers, c)
            /\ UNCHANGED <<queueVars, ghostVars>>
         \/ ~closed /\ Push(c, calls) /\ UNCHANGED <<backpressureResolvers, dropped, refused>>
      /\ UNCHANGED <<closed, serverVars>>
  BY <1>1 DEF Resume
<1>6. resumed' \in Seq(Nat) /\ Elements(resumed') \subseteq Elements(resumed)
  BY <1>1, <1>2, <1>3
<1> QED
  BY <1>3, <1>4, <1>5, <1>6, EnqueueMoves

LEMMA FlushStep ==
  ASSUME UploaderInv, Flush
  PROVE  Moved
<1>1. PICK r, cs, n, D, W, isClosed :
        /\ r = [op |-> "flush", size |-> 1, good |-> TRUE,
                status |-> IF pending = <<>> /\ draining = "no" THEN "returned" ELSE "waiting",
                mark |-> count, late |-> closed]
        /\ cs = call /\ n = count /\ D = Received /\ W = Held /\ isClosed = closed
  OBVIOUS
<1>2. /\ n \in Nat /\ closed \in BOOLEAN /\ CallsGood(cs, n, D, W, isClosed)
      /\ draining = "sending" <=> batch # <<>>
      /\ ~closed => 1..n \subseteq D \cup Elements(pending) \cup Elements(batch)
  BY <1>1 DEF UploaderInv, Uploading
<1>3. r \in CallType /\ r.op = "flush" /\ r.mark = n
  <2>1. 1 \in 1..MaxEvents
    BY BoundsAssumption
  <2> QED
    BY <1>1, <1>2, <2>1 DEF CallType
<1>4. r.status = "returned" /\ ~isClosed => 1..n \subseteq D
  <2>1. r.status = "returned" => pending = <<>> /\ draining = "no"
    BY <1>1
  <2>2. Elements(<<>>) = {}
    BY DEF Elements
  <2> QED
    BY <1>1, <1>2, <2>1, <2>2
<1>5. CallsGood(Append(cs, r), n, D, W, isClosed)
  <2>1. r.op = "flush" => /\ r.mark =< n /\ W = W
                          /\ r.status = "returned" /\ ~isClosed => 1..r.mark \subseteq D
    BY <1>2, <1>3, <1>4
  <2>2. W = W \/ W = W \cup {Len(cs) + 1}
    OBVIOUS
  <2> QED
    BY <1>2, <1>3, <2>1, <2>2, CallsGrowGood
<1>6. /\ UNCHANGED <<pending, batch, draining, closed, backpressureResolvers, resumed>>
      /\ UNCHANGED server /\ UNCHANGED <<count, bad, dropped, refused>>
      /\ call' = Append(cs, r)
  BY <1>1 DEF Flush, serverVars, ghostVars
<1>7. Received' = Received /\ Held' = Held
  BY <1>6 DEF Received, Held
<1>8. UploaderInv'
  BY <1>1, <1>5, <1>6, <1>7 DEF UploaderInv
<1> QED
  BY <1>6, <1>8 DEF Moved, Channel!channelVars

LEMMA SendSucceedsStep ==
  ASSUME UploaderInv, SendSucceeds
  PROVE  Moved
<1>1. /\ backpressureResolvers' \in Seq(Nat) /\ resumed' \in Seq(Nat) /\ Held' \subseteq Held
  BY Releases DEF SendSucceeds
<1>2. Elements(server \o batch) = Elements(server) \cup Elements(batch)
  <2>1. PICK s, b, n : s = server /\ b = batch /\ n = count
    OBVIOUS
  <2>2. s \in Seq(1..n) /\ b \in Seq(1..n)
    BY <2>1 DEF UploaderInv, Uploading
  <2>3. Elements(s \o b) = Elements(s) \cup Elements(b)
    BY <2>2, ConcatElements
  <2> QED
    BY <2>1, <2>3
<1>3. /\ UNCHANGED <<count, bad, closed>> /\ UNCHANGED <<dropped, refused>> /\ server' = server \o batch
      /\ Drain(pending, call, bad, closed)
  BY DEF SendSucceeds
<1>4. /\ dropped \subseteq dropped' /\ dropped' \subseteq 1..count /\ refused \subseteq refused'
      /\ Elements(batch) \subseteq Elements(server') \cup dropped' \cup refused'
  BY <1>2, <1>3 DEF UploaderInv
<1> QED
  BY <1>1, <1>3, <1>4, DrainMoves

LEMMA SendRefusedStep ==
  ASSUME UploaderInv, SendRefused
  PROVE  Moved
<1>1. /\ backpressureResolvers' \in Seq(Nat) /\ resumed' \in Seq(Nat) /\ Held' \subseteq Held
  BY Releases DEF SendRefused
<1>2. /\ UNCHANGED <<count, bad, closed, dropped>> /\ server' = server
      /\ refused' = refused \cup Elements(batch)
      /\ Drain(pending, call, bad, closed)
  BY DEF SendRefused, serverVars, Elements
<1>3. /\ dropped \subseteq dropped' /\ dropped' \subseteq 1..count /\ refused \subseteq refused'
      /\ Elements(batch) \subseteq Elements(server') \cup dropped' \cup refused'
  BY <1>2 DEF UploaderInv
<1> QED
  BY <1>1, <1>2, <1>3, DrainMoves

LEMMA SendFailsStep ==
  ASSUME UploaderInv, SendFails
  PROVE  Moved
<1>1. PICK n, b, q, s, isClosed : /\ n = count /\ b = batch /\ q = pending /\ s = server
                                  /\ isClosed = closed
  OBVIOUS
<1>2. /\ n \in Nat /\ b \in Seq(1..n) /\ q \in Seq(1..n) /\ s \in Seq(1..n) /\ Ascending(b \o q)
      /\ closed \in BOOLEAN /\ dropped \subseteq 1..n /\ bad \subseteq 1..n
      /\ draining = "sending" <=> batch # <<>>
      /\ ~closed => 1..n \subseteq Received \cup Elements(q) \cup Elements(b)
      /\ backpressureResolvers \in Seq(Nat) /\ resumed \in Seq(Nat)
      /\ CallsGood(call, count, Received, Held, closed)
  BY <1>1 DEF UploaderInv, Uploading
<1>3. /\ s \o b \in Seq(1..n) /\ Elements(s \o b) = Elements(s) \cup Elements(b)
      /\ b \o q \in Seq(1..n) /\ Elements(b \o q) = Elements(b) \cup Elements(q)
      /\ b \o q \in Seq(Elements(b \o q))
      /\ <<>> \o (b \o q) = b \o q /\ Elements(<<>>) = {} /\ <<>> \in Seq(1..n)
      /\ Elements(b) \subseteq 1..n
  <2>1. s \o b \in Seq(1..n) /\ Elements(s \o b) = Elements(s) \cup Elements(b)
    BY <1>2, ConcatElements
  <2>2. b \o q \in Seq(1..n) /\ Elements(b \o q) = Elements(b) \cup Elements(q)
    BY <1>2, ConcatElements
  <2>3. b \o q \in Seq(Elements(b \o q)) /\ Elements(b) \subseteq 1..n
    BY <1>2, <2>2, ElementsOfSeq
  <2>4. <<>> \o (b \o q) = b \o q
    BY <2>2, ConcatEmptySeq
  <2>5. Elements(<<>>) = {} /\ <<>> \in Seq(1..n)
    BY DEF Elements
  <2> QED
    BY <2>1, <2>2, <2>3, <2>4, <2>5
<1>4. /\ UNCHANGED <<count, bad, closed, refused>> /\ draining = "sending"
      /\ server' = server \/ server' = server \o batch
      /\ \/ /\ dropped' = dropped \cup {batch[k] : k \in DOMAIN batch}
            /\ ReleaseBackpressure /\ Drain(pending, call, bad, closed)
         \/ /\ pending' = batch \o pending /\ batch' = <<>> /\ draining' = "sleeping"
            /\ UNCHANGED <<call, flushResolvers, backpressureResolvers, resumed, dropped>>
  BY DEF SendFails, serverVars
<1>5. CASE /\ dropped' = dropped \cup {batch[k] : k \in DOMAIN batch}
           /\ ReleaseBackpressure /\ Drain(pending, call, bad, closed)
  <2>1. backpressureResolvers' \in Seq(Nat) /\ resumed' \in Seq(Nat) /\ Held' \subseteq Held
    BY <1>5, Releases
  <2>2. dropped' = dropped \cup Elements(batch)
    BY <1>5 DEF Elements
  <2>3. /\ dropped \subseteq dropped' /\ dropped' \subseteq 1..count /\ refused \subseteq refused'
        /\ Elements(batch) \subseteq Elements(server') \cup dropped' \cup refused'
    BY <1>1, <1>2, <1>3, <1>4, <2>2
  <2> QED
    BY <1>4, <1>5, <2>1, <2>3, DrainMoves
<1>6. CASE /\ pending' = batch \o pending /\ batch' = <<>> /\ draining' = "sleeping"
           /\ UNCHANGED <<call, flushResolvers, backpressureResolvers, resumed, dropped>>
  <2>1. server' \in Seq(1..n) /\ Elements(server) \subseteq Elements(server')
    BY <1>1, <1>2, <1>3, <1>4
  <2>2. PICK D, D2, W, cs : D = Received /\ D2 = Received' /\ W = Held /\ cs = call
    OBVIOUS
  <2>3. D \subseteq D2
    BY <1>4, <1>6, <2>1, <2>2 DEF Received
  <2>4. W \in SUBSET W /\ Held' = W /\ n >= n
    BY <1>2, <1>6, <2>2 DEF Held
  <2>5. CallsGood(cs, n, D, W, isClosed) /\ isClosed \in BOOLEAN
    BY <1>1, <1>2, <2>2
  <2>6. CallsGood(cs, n, D2, W, isClosed)
    BY <1>2, <2>3, <2>4, <2>5, CallsStayGood
  <2>7. Uploading(n, b \o q, <<>>, "sleeping", D2, isClosed)
    BY <1>1, <1>2, <1>3, <2>2, <2>3 DEF Uploading
  <2>8. Uploading(count', pending', batch', draining', Received', closed')
    BY <1>1, <1>4, <1>6, <2>2, <2>7
  <2>9. CallsGood(call', count', Received', Held', closed')
    BY <1>1, <1>4, <1>6, <2>2, <2>4, <2>6
  <2>10. UploaderInv'
    <3>1. /\ closed' \in BOOLEAN
          /\ backpressureResolvers' \in Seq(Nat) /\ resumed' \in Seq(Nat)
          /\ server' \in Seq(1..count') /\ bad' \subseteq 1..count' /\ dropped' \subseteq 1..count'
      BY <1>1, <1>2, <1>4, <1>6, <2>1
    <3> QED
      BY <2>8, <2>9, <3>1 DEF UploaderInv
  <2>11. batch' \o pending' = b \o q
    BY <1>1, <1>3, <1>6
  <2>12. batch' \o pending' \in Seq(Elements(batch \o pending)) /\ Ascending(batch' \o pending')
    BY <1>1, <1>2, <1>3, <2>11
  <2>13. Channel!Next
    BY <1>4, <2>12, ChannelSteps
  <2> QED
    BY <2>10, <2>13 DEF Moved
<1> QED
  BY <1>4, <1>5, <1>6

LEMMA RetryStep ==
  ASSUME UploaderInv, Retry
  PROVE  Moved
<1>1. /\ UNCHANGED <<count, bad, closed>>
      /\ UNCHANGED <<server, backpressureResolvers, resumed, dropped, refused>>
      /\ draining = "sleeping" /\ Drain(pending, call, bad, closed)
  BY DEF Retry, serverVars, ghostVars
<1>2. batch = <<>> /\ Elements(<<>>) = {} /\ dropped \subseteq 1..count
      /\ backpressureResolvers \in Seq(Nat) /\ resumed \in Seq(Nat)
  BY <1>1 DEF UploaderInv, Uploading, Elements
<1>3. /\ backpressureResolvers' \in Seq(Nat) /\ resumed' \in Seq(Nat) /\ Held' \subseteq Held
      /\ dropped \subseteq dropped' /\ dropped' \subseteq 1..count /\ refused \subseteq refused'
      /\ Elements(batch) \subseteq Elements(server') \cup dropped' \cup refused'
  BY <1>1, <1>2 DEF Held
<1> QED
  BY <1>1, <1>3, DrainMoves

LEMMA CloseStep ==
  ASSUME UploaderInv, Close
  PROVE  Moved
<1>1. PICK n, b, q, cs, D, W, W2, R, isClosed :
        /\ n = count /\ b = batch /\ q = pending /\ cs = call /\ D = Received /\ W = Held
        /\ W2 = Held' /\ R = flushResolvers /\ isClosed = closed
  OBVIOUS
<1>2. /\ n \in Nat /\ b \in Seq(1..n) /\ q \in Seq(1..n) /\ Ascending(b \o q)
      /\ isClosed \in BOOLEAN /\ CallsGood(cs, n, D, W, isClosed)
      /\ server \in Seq(1..n) /\ bad \subseteq 1..n /\ dropped \subseteq 1..n
      /\ draining \in {"no", "sending", "sleeping"}
      /\ draining = "sending" <=> batch # <<>>
  BY <1>1 DEF UploaderInv, Uploading
<1>3. /\ backpressureResolvers' \in Seq(Nat) /\ resumed' \in Seq(Nat) /\ W2 \in SUBSET W
  BY <1>1, Releases DEF Close
<1>4. /\ closed' = TRUE /\ pending' = <<>> /\ call' = Return(cs, R)
      /\ UNCHANGED <<batch, draining>> /\ UNCHANGED server /\ UNCHANGED <<count, bad, dropped, refused>>
  BY <1>1 DEF Close, serverVars, ghostVars
<1>5. CallsGood(cs, n, D, W2, TRUE)
  <2>1. n >= n /\ D \subseteq D /\ TRUE \in BOOLEAN /\ (isClosed => TRUE)
    BY <1>2
  <2> QED
    BY <1>2, <1>3, <2>1, CallsStayGood
<1>6. CallsGood(Return(cs, R), n, D, W2, TRUE)
  BY <1>2, <1>5, CallsReturnGood
<1>7. b \o <<>> = b /\ <<>> \in Seq(1..n) /\ Ascending(b) /\ b \in Seq(Elements(b \o q))
  <2>1. b \in Seq(Nat) /\ q \in Seq(Nat)
    BY <1>2, SeqMonotonic, 1..n \subseteq Nat
  <2>2. Ascending(b)
    BY <1>2, <2>1, ConcatAscending
  <2>3. Elements(b \o q) = Elements(b) \cup Elements(q) /\ b \in Seq(Elements(b))
    BY <1>2, ConcatElements, ElementsOfSeq
  <2>4. b \in Seq(Elements(b \o q))
    BY <2>3, SeqMonotonic
  <2> QED
    BY <1>2, <2>2, <2>4, ConcatEmptySeq, EmptySeq
<1>8. Uploading(n, <<>>, b, draining, D, TRUE)
  BY <1>1, <1>2, <1>7 DEF Uploading
<1>9. Received' = D
  BY <1>1, <1>4 DEF Received
<1>10. UploaderInv'
  <2>1. /\ closed' \in BOOLEAN /\ server' \in Seq(1..count')
        /\ bad' \subseteq 1..count' /\ dropped' \subseteq 1..count'
    BY <1>1, <1>2, <1>4
  <2>2. Uploading(count', pending', batch', draining', Received', closed')
    BY <1>1, <1>4, <1>8, <1>9
  <2>3. CallsGood(call', count', Received', Held', closed')
    BY <1>1, <1>4, <1>6, <1>9
  <2> QED
    BY <1>3, <2>1, <2>2, <2>3 DEF UploaderInv
<1>11. batch' \o pending' \in Seq(Elements(batch \o pending)) /\ Ascending(batch' \o pending')
  BY <1>1, <1>4, <1>7
<1>12. Channel!Next
  BY <1>4, <1>11, ChannelSteps
<1> QED
  BY <1>10, <1>12 DEF Moved

-----------------------------------------------------------------------------
(* Theorems.                                                               *)

LEMMA InitHolds == Init => UploaderInv /\ Channel!Init
<1> SUFFICES ASSUME Init PROVE UploaderInv /\ Channel!Init
  OBVIOUS
<1>1. /\ call = <<>> /\ pending = <<>> /\ batch = <<>> /\ draining = "no" /\ closed = FALSE
      /\ backpressureResolvers = <<>> /\ resumed = <<>> /\ server = <<>>
      /\ count = 0 /\ bad = {} /\ dropped = {} /\ refused = {}
  BY DEF Init
<1>2. \A S : <<>> \in Seq(S)
  BY EmptySeq
<1>3. DOMAIN <<>> = {} /\ Elements(<<>>) = {} /\ <<>> \o <<>> = <<>>
  BY <1>2, ConcatEmptySeq DEF Elements
<1>4. Uploading(count, pending, batch, draining, Received, closed)
  BY <1>1, <1>2, <1>3 DEF Uploading, Ascending, Channel!Ascending
<1>5. CallsGood(call, count, Received, Held, closed)
  BY <1>1, <1>2, <1>3 DEF CallsGood, Held
<1>6. UploaderInv
  BY <1>1, <1>2, <1>4, <1>5 DEF UploaderInv
<1>7. Channel!Init
  BY <1>1, <1>3 DEF Channel!Init
<1> QED
  BY <1>6, <1>7

LEMMA StepMoves == UploaderInv /\ [Next]_vars => Moved
<1> SUFFICES ASSUME UploaderInv, [Next]_vars PROVE Moved
  OBVIOUS
<1>1. ASSUME NEW k \in 1..MaxEvents, NEW good \in BOOLEAN, Enqueue(k, good) PROVE Moved
  BY <1>1, EnqueueStep
<1>2. CASE Resume
  BY <1>2, ResumeStep
<1>3. CASE Flush
  BY <1>3, FlushStep
<1>4. CASE SendSucceeds
  BY <1>4, SendSucceedsStep
<1>5. CASE SendFails
  BY <1>5, SendFailsStep
<1>9. CASE SendRefused
  BY <1>9, SendRefusedStep
<1>6. CASE Retry
  BY <1>6, RetryStep
<1>7. CASE Close
  BY <1>7, CloseStep
<1>8. CASE UNCHANGED vars
  <2>1. /\ UNCHANGED <<call, pending, batch, draining, closed, backpressureResolvers, resumed>>
        /\ UNCHANGED <<server, count, bad, dropped, refused>>
    BY <1>8 DEF vars, queueVars, serverVars, ghostVars
  <2>2. Received' = Received /\ Held' = Held
    BY <2>1 DEF Received, Held
  <2>3. UploaderInv'
    BY <2>1, <2>2 DEF UploaderInv
  <2> QED
    BY <2>1, <2>3 DEF Moved, Channel!channelVars
<1> QED
  BY <1>1, <1>2, <1>3, <1>4, <1>5, <1>6, <1>7, <1>8, <1>9 DEF Next

\* Every event that was accepted by an open uploader is in the queue or in the batch that is
\* being sent, or has met its end: it was received, given up with its batch, or cannot be
\* serialized, or its batch was refused by a send that resolved although it delivered nothing.
THEOREM UploaderInvariant == Spec => []UploaderInv
<1>1. UploaderInv /\ [Next]_vars => UploaderInv'
  BY StepMoves DEF Moved
<1> QED
  BY InitHolds, <1>1, PTL DEF Spec

\* An open uploader that has events to send has a loop that sends them, however calls,
\* failures and the ends of the loop fall together: enqueue need not look at the queue
\* again after it found a loop running.
THEOREM LoopRunsForEvents == Spec => []NothingStranded
<1>1. UploaderInv => NothingStranded
  BY DEF UploaderInv, Uploading, NothingStranded
<1> QED
  BY <1>1, UploaderInvariant, PTL

\* Nothing is refused but where send may resolve undelivered.
RefusedSilently == config.silent \/ refused = {}

LEMMA RefusedOnlySilently == Spec => []RefusedSilently
<1>1. Init => RefusedSilently
  BY DEF Init, RefusedSilently
<1>2. RefusedSilently /\ [Next]_vars => RefusedSilently'
  <2> SUFFICES ASSUME RefusedSilently, [Next]_vars PROVE RefusedSilently'
    OBVIOUS
  <2>1. CASE UNCHANGED <<config, refused>>
    BY <2>1 DEF RefusedSilently
  <2>2. CASE SendRefused
    BY <2>2 DEF SendRefused, RefusedSilently
  <2>3. ASSUME NEW k \in 1..MaxEvents, NEW good \in BOOLEAN, Enqueue(k, good)
        PROVE  UNCHANGED <<config, refused>>
    BY <2>3 DEF Enqueue, ghostVars
  <2>4. Resume \/ Flush \/ Retry \/ Close => UNCHANGED <<config, refused>>
    BY DEF Resume, Flush, Retry, Close, ghostVars
  <2>5. SendSucceeds \/ SendFails => UNCHANGED <<config, refused>>
    BY DEF SendSucceeds, SendFails
  <2>6. UNCHANGED vars => UNCHANGED <<config, refused>>
    BY DEF vars, ghostVars
  <2> QED
    BY <2>1, <2>2, <2>3, <2>4, <2>5, <2>6 DEF Next
<1> QED
  BY <1>1, <1>2, PTL DEF Spec

\* "Block until all pending events have been sent": when a flush returns before close, no
\* event that was accepted before the call is still to be sent, neither in the queue nor in
\* the batch that was put back or is on its way.  With a send that rejects whenever it does
\* not deliver, as CCRClient's do, each of them was received, given up, or cannot be
\* serialized; with HybridTransport's it may also have been refused.
THEOREM FlushesDeliver == Spec => []FlushDelivers
<1>1. UploaderInv /\ RefusedSilently => FlushDelivers
  <2> SUFFICES ASSUME UploaderInv, RefusedSilently PROVE FlushDelivers
    OBVIOUS
  <2>1. CallsGood(call, count, Received, Held, closed)
    BY DEF UploaderInv
  <2>2. Received = Elements(server) \cup dropped \cup bad \cup (IF config.silent THEN refused ELSE {})
    BY DEF Received, RefusedSilently
  <2>3. \A c \in DOMAIN call : call[c].op = "flush" /\ call[c].status = "returned" /\ ~closed =>
          1..call[c].mark \subseteq Received
    BY <2>1 DEF CallsGood
  <2> QED
    BY <2>2, <2>3 DEF FlushDelivers
<1> QED
  BY <1>1, UploaderInvariant, RefusedOnlySilently, PTL

\* The uploader is a channel: batches that are put back, lost answers, events that are given
\* up or cannot be serialized, and close are all ways to accept, to receive the front of the
\* queue, and to forget.
THEOREM ImplementsChannel == Spec => KeepsOrder
<1>1. Init => Channel!Init
  BY InitHolds
<1>2. UploaderInv /\ [Next]_vars => [Channel!Next]_(Channel!channelVars)
  BY StepMoves DEF Moved
<1> QED
  BY <1>1, <1>2, UploaderInvariant, PTL DEF Spec, KeepsOrder, Channel!Spec

\* So the server gets every event, for the first time, before all later ones.
THEOREM ServerReceivesInOrder == Spec => []Channel!InOrder
  BY ImplementsChannel, ReceivedInOrder, PTL DEF KeepsOrder
=============================================================================
