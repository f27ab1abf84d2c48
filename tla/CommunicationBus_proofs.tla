---------------------- MODULE CommunicationBus_proofs ----------------------
(***************************************************************************)
(* The communication bus uses its circuit breaker as module CircuitBreaker *)
(* describes it: Spec implies Breaker!Spec, for any agents, senders and    *)
(* thresholds.                                                             *)
(*                                                                         *)
(* The invariant needed is small: a sender is inside the breaker exactly   *)
(* while one of its sends is between two awaits.  Each action then either  *)
(* leaves the breaker and the callers alone, or is one step of them.       *)
(*                                                                         *)
(* Then a broadcast covers the room, and last come the theorems about the  *)
(* breaker by itself.                                                      *)
(***************************************************************************)
EXTENDS CommunicationBus, SequenceTheorems, TLAPS

InBreaker == {"call", "probe"}

SendersAligned ==
  /\ caller \in [Senders -> {"idle"} \cup InBreaker]
  /\ DOMAIN sending = Senders
  /\ \A s \in Senders : {"step", "queued"} \subseteq DOMAIN sending[s]
  /\ \A s \in Senders : IF sending[s].step = "none" THEN caller[s] = "idle"
                                                    ELSE caller[s] \in InBreaker

\* The step of the breaker, or a stutter.
BreakerStep == Breaker!Next \/ UNCHANGED <<cb, caller>>

LEMMA InitAligned == Init => SendersAligned /\ Breaker!Init
  BY DEF Init, SendersAligned, NotSending, Breaker!Init

\* Asking the breaker is the admission or the refusal of the caller.
LEMMA AttemptSteps ==
  ASSUME SendersAligned, NEW s \in Senders, NEW a, sending[s].step = "none", Attempt(s, a)
  PROVE  SendersAligned' /\ BreakerStep
  <1>1. caller[s] = "idle"
    BY DEF SendersAligned
  <1>2. CASE Breaker!Admits(Breaker!Read(cb))
    <2>1. caller' = [caller EXCEPT ![s] =
                       IF Breaker!Read(cb).state = "closed" THEN "call" ELSE "probe"]
      BY <1>2 DEF Attempt
    <2>2. Breaker!Admit(s)
      BY <1>1, <1>2, <2>1 DEF Attempt, Breaker!Admit, Breaker!Goto
    <2>3. SendersAligned'
      BY <1>2, <2>1 DEF SendersAligned, InBreaker, Attempt
    <2>4. QED
      BY <2>2, <2>3 DEF BreakerStep, Breaker!Next
  <1>3. CASE ~Breaker!Admits(Breaker!Read(cb))
    <2>1. caller' = [caller EXCEPT ![s] = "idle"]
      BY <1>1, <1>3 DEF Attempt
    <2>2. Breaker!Block(s)
      BY <1>1, <1>3, <2>1 DEF Attempt, Breaker!Block, Breaker!Goto, Breaker!AfterRefusal
    <2>3. SendersAligned'
      BY <1>3, <2>1 DEF SendersAligned, InBreaker, Attempt
    <2>4. QED
      BY <2>2, <2>3 DEF BreakerStep, Breaker!Next
  <1>4. QED
    BY <1>2, <1>3

\* A reply takes the sender out of the breaker.
LEMMA ReplyAligned ==
  ASSUME SendersAligned, NEW s \in Senders, NEW reply, Reply(s, reply)
  PROVE  SendersAligned' /\ caller' = [caller EXCEPT ![s] = "idle"]
  BY DEF SendersAligned, InBreaker, Reply, NotSending

\* A step that moves a send from one await to another stays in the breaker.
LEMMA MoveAligned ==
  ASSUME SendersAligned, NEW s \in Senders, UNCHANGED <<cb, caller>>,
         sending[s].step # "none",
         DOMAIN sending' = Senders, sending'[s].step # "none",
         {"step", "queued"} \subseteq DOMAIN sending'[s],
         \A r \in Senders \ {s} : sending'[r] = sending[r]
  PROVE  SendersAligned' /\ BreakerStep
  BY DEF SendersAligned, InBreaker, BreakerStep

\* A step that leaves senders and breaker alone.
LEMMA StutterAligned ==
  ASSUME SendersAligned, UNCHANGED <<cb, caller, sending>>
  PROVE  SendersAligned' /\ BreakerStep
  BY DEF SendersAligned, BreakerStep

\* Every step keeps the senders aligned and is a step of the breaker.
LEMMA StepAligned ==
  ASSUME SendersAligned, [Next]_vars
  PROVE  SendersAligned' /\ BreakerStep
  <1>1. ASSUME NEW a \in Agents,
               \/ RegisterAgent(a) \/ UnregisterAgent(a) \/ Subscribe(a)
               \/ JoinRoom(a) \/ LeaveRoom(a) \/ Receive(a)
        PROVE  SendersAligned' /\ BreakerStep
    BY <1>1, StutterAligned
    DEF RegisterAgent, UnregisterAgent, Subscribe, JoinRoom, LeaveRoom, Receive
  <1>2. ASSUME NEW s \in Senders, Put(s)
        PROVE  SendersAligned' /\ BreakerStep
    <2>1. /\ UNCHANGED <<cb, caller>> /\ sending[s].step # "none"
          /\ DOMAIN sending' = Senders /\ sending'[s].step # "none"
          /\ {"step", "queued"} \subseteq DOMAIN sending'[s]
          /\ \A r \in Senders \ {s} : sending'[r] = sending[r]
      <3>1. /\ UNCHANGED <<cb, caller>> /\ sending[s].step = "put"
            /\ \/ sending' = [sending EXCEPT ![s] = [sending[s] EXCEPT !.queued = TRUE,
                       !.step = IF sending[s].to \in handlers THEN "handlers" ELSE "answer"]]
               \/ sending' = [sending EXCEPT ![s] = [sending[s] EXCEPT !.step = "answer"]]
        BY <1>2 DEF Put
      <3>2. DOMAIN sending = Senders
        BY DEF SendersAligned
      <3>3. CASE sending' = [sending EXCEPT ![s] = [sending[s] EXCEPT !.queued = TRUE,
                       !.step = IF sending[s].to \in handlers THEN "handlers" ELSE "answer"]]
        <4>1. sending'[s].step = IF sending[s].to \in handlers THEN "handlers" ELSE "answer"
          BY <3>2, <3>3 DEF SendersAligned
        <4>2. DOMAIN sending'[s] = DOMAIN sending[s]
          BY <3>2, <3>3
        <4>3. DOMAIN sending' = Senders /\ \A r \in Senders \ {s} : sending'[r] = sending[r]
          BY <3>2, <3>3
        <4>4. QED
          BY <3>1, <4>1, <4>2, <4>3 DEF SendersAligned
      <3>4. CASE sending' = [sending EXCEPT ![s] = [sending[s] EXCEPT !.step = "answer"]]
        BY <3>1, <3>2, <3>4 DEF SendersAligned
      <3>5. QED
        BY <3>1, <3>3, <3>4
    <2>2. QED
      BY <2>1, MoveAligned
  <1>3. ASSUME NEW s \in Senders, HandlersDone(s)
        PROVE  SendersAligned' /\ BreakerStep
    <2>1. /\ UNCHANGED <<cb, caller>> /\ sending[s].step # "none"
          /\ DOMAIN sending' = Senders /\ sending'[s].step # "none"
          /\ {"step", "queued"} \subseteq DOMAIN sending'[s]
          /\ \A r \in Senders \ {s} : sending'[r] = sending[r]
      BY <1>3 DEF HandlersDone, SendersAligned
    <2>2. QED
      BY <2>1, MoveAligned
  <1>4. ASSUME NEW s \in Senders, Answer(s)
        PROVE  SendersAligned' /\ BreakerStep
    <2>1. SendersAligned' /\ caller' = [caller EXCEPT ![s] = "idle"]
      BY <1>4, ReplyAligned DEF Answer
    <2>2. caller[s] \in InBreaker
      BY <1>4 DEF Answer, SendersAligned
    <2>3. Breaker!Succeed(s)
      BY <1>4, <2>1, <2>2 DEF Answer, InBreaker, Breaker!Succeed, Breaker!Goto
    <2>4. QED
      BY <2>1, <2>3 DEF BreakerStep, Breaker!Next
  <1>5. ASSUME NEW s \in Senders, SendTimesOut(s)
        PROVE  SendersAligned' /\ BreakerStep
    <2>1. SendersAligned' /\ caller' = [caller EXCEPT ![s] = "idle"]
      BY <1>5, ReplyAligned DEF SendTimesOut
    <2>2. caller[s] \in InBreaker
      BY <1>5 DEF SendTimesOut, SendersAligned
    <2>3. Breaker!Fail(s)
      BY <1>5, <2>1, <2>2 DEF SendTimesOut, InBreaker, Breaker!Fail, Breaker!Goto
    <2>4. QED
      BY <2>1, <2>3 DEF BreakerStep, Breaker!Next
  <1>6. ASSUME NEW s \in Senders, CancelSender(s)
        PROVE  SendersAligned' /\ BreakerStep
    <2>1. caller[s] \in InBreaker
      BY <1>6 DEF CancelSender, SendersAligned
    <2>2. Breaker!Cancel(s)
      BY <1>6, <2>1 DEF CancelSender, InBreaker, Breaker!Cancel, Breaker!Goto
    <2>3. SendersAligned'
      BY <1>6 DEF CancelSender, SendersAligned, InBreaker, NotSending
    <2>4. QED
      BY <2>2, <2>3 DEF BreakerStep, Breaker!Next
  <1>7. ASSUME NEW s \in Senders, NEW a \in Agents, Send(s, a)
        PROVE  SendersAligned' /\ BreakerStep
    BY <1>7, AttemptSteps DEF Send, Idle
  <1>8. ASSUME NEW s \in Senders, NextSubscriber(s)
        PROVE  SendersAligned' /\ BreakerStep
    BY <1>8, AttemptSteps, StutterAligned DEF NextSubscriber
  <1>9. ASSUME NEW s \in Senders, EndBroadcast(s)
        PROVE  SendersAligned' /\ BreakerStep
    BY <1>9, StutterAligned DEF EndBroadcast
  <1>10. ASSUME NEW s \in Broadcasting, NEW a \in Agents, StartBroadcast(s, a)
         PROVE  SendersAligned' /\ BreakerStep
    BY <1>10, StutterAligned DEF StartBroadcast
  <1>11. CASE TimeoutElapses
    <2>1. Breaker!TimeoutElapses
      BY <1>11 DEF TimeoutElapses, Breaker!TimeoutElapses
    <2>2. QED
      BY <1>11, <2>1 DEF TimeoutElapses, SendersAligned, BreakerStep, Breaker!Next
  <1>12. CASE HealthCheck
    <2>1. Breaker!Observe
      BY <1>12 DEF HealthCheck, Breaker!Observe
    <2>2. QED
      BY <1>12, <2>1 DEF HealthCheck, SendersAligned, BreakerStep, Breaker!Next
  <1>13. CASE UNCHANGED vars
    BY <1>13, StutterAligned DEF vars
  <1>14. QED
    BY <1>1, <1>2, <1>3, <1>4, <1>5, <1>6, <1>7, <1>8, <1>9, <1>10, <1>11, <1>12, <1>13
    DEF Next, SenderStep

\* The bus implements the protocol of its circuit breaker: what is proved of
\* CircuitBreaker!Spec holds of the breaker inside the bus.
THEOREM BusUsesBreaker == Spec => ImplementsBreaker
  <1>1. Init => SendersAligned /\ Breaker!Init
    BY InitAligned
  <1>2. SendersAligned /\ [Next]_vars => SendersAligned' /\ [Breaker!Next]_(Breaker!vars)
    BY StepAligned DEF BreakerStep, Breaker!vars
  <1>3. QED
    BY <1>1, <1>2, PTL DEF Spec, ImplementsBreaker, Breaker!Spec

-----------------------------------------------------------------------------
(* A broadcast reaches everybody who stays in the room.                    *)

Distinct(list) == \A i, k \in DOMAIN list : list[i] = list[k] => i = k

\* An active broadcast has sent to the agents before its place in its list, and
\* its list still holds those that have stayed.
CoverOK(s) ==
  LET l == Subscribers(s)
      j == job[s]
  IN
  /\ j.active =>
       /\ Distinct(l) /\ j.next =< Len(l) + 1
       /\ \A i \in DOMAIN j.tried : \E k \in DOMAIN l : k < j.next /\ j.tried[i] = l[k]
       /\ \A k \in DOMAIN l : k < j.next /\ l[k] # j.from =>
            \E i \in DOMAIN j.tried : j.tried[i] = l[k]
       /\ \A b \in j.stayed : \E k \in DOMAIN l : l[k] = b
  /\ j.active \/ j.tried = <<>>
  /\ Distinct(j.tried)

RoomTypes ==
  /\ room \in Seq(Agents)
  /\ sending \in [Senders -> Sendings]
  /\ job \in [Senders -> Jobs]

RoomInv == RoomTypes /\ Distinct(room) /\ \A s \in Senders : CoverOK(s)

\* What is left of a room without duplicates when an agent leaves: everybody else.
LEMMA WithoutFacts ==
  ASSUME NEW list \in Seq(Agents), Distinct(list), NEW a
  PROVE  /\ Without(list, a) \in Seq(Agents) /\ Distinct(Without(list, a))
         /\ \A k \in DOMAIN list : list[k] # a =>
              \E l \in DOMAIN Without(list, a) : Without(list, a)[l] = list[k]
<1>1. CASE \A k \in DOMAIN list : list[k] # a
  BY <1>1 DEF Without
<1>2. CASE \E k \in DOMAIN list : list[k] = a
  <2> DEFINE at == CHOOSE k \in DOMAIN list : list[k] = a
             w == [k \in 1 .. (Len(list) - 1) |-> IF k < at THEN list[k] ELSE list[k + 1]]
  <2>1. at \in DOMAIN list /\ list[at] = a
    BY <1>2
  <2>2. Without(list, a) = w
    BY <1>2 DEF Without
  <2>3. /\ Len(list) \in Nat /\ DOMAIN list = 1 .. Len(list)
        /\ \A k \in DOMAIN list : list[k] \in Agents
    OBVIOUS
  <2> HIDE DEF at
  <2>4. Len(list) - 1 \in Nat
    BY <2>1, <2>3
  <2>5. w \in [1 .. (Len(list) - 1) -> Agents]
    BY <2>1, <2>3
  <2>6. w \in Seq(Agents) /\ DOMAIN w = 1 .. (Len(list) - 1)
    BY <2>4, <2>5, IsASeq
  <2>7. Distinct(w)
    BY <2>1, <2>3, <2>6 DEF Distinct
  <2>8. ASSUME NEW k \in DOMAIN list, list[k] # a
        PROVE  \E l \in DOMAIN w : w[l] = list[k]
    <3>1. CASE k < at
      <4>1. k \in DOMAIN w /\ w[k] = list[k]
        BY <2>1, <2>3, <2>6, <3>1
      <4> QED
        BY <4>1
    <3>2. CASE ~(k < at)
      <4>1. k > at /\ k - 1 \in DOMAIN w
        BY <2>1, <2>3, <2>6, <2>8, <3>2
      <4>2. w[k - 1] = list[k]
        BY <2>1, <2>3, <2>6, <4>1
      <4> QED
        BY <4>1, <4>2
    <3> QED
      BY <3>1, <3>2
  <2> QED
    BY <2>2, <2>6, <2>7, <2>8
<1> QED
  BY <1>1, <1>2

\* Nothing changes for a broadcast whose list and job are the same.
LEMMA CoverSame ==
  ASSUME NEW s \in Senders, CoverOK(s), job' \in [Senders -> Jobs],
         Subscribers(s)' = Subscribers(s), job'[s].active = job[s].active,
         job'[s].from = job[s].from, job'[s].next = job[s].next, job'[s].tried = job[s].tried,
         job'[s].stayed \subseteq job[s].stayed
  PROVE  CoverOK(s)'
  BY DEF CoverOK, Subscribers

LEMMA RoomStep ==
  ASSUME RoomInv, Next
  PROVE  RoomInv'
<1>t. /\ room \in Seq(Agents) /\ sending \in [Senders -> Sendings] /\ job \in [Senders -> Jobs]
      /\ Distinct(room) /\ \A s \in Senders : CoverOK(s) /\ job[s] \in Jobs
  BY DEF RoomInv, RoomTypes
<1>n. NoJob \in Jobs /\ NotSending \in Sendings
  <2>1. <<>> \in Seq(Agents) /\ 1 \in Nat \ {0}
    OBVIOUS
  <2> QED
    BY <2>1 DEF NoJob, NotSending, Jobs, Sendings
<1>1. CASE UNCHANGED <<room, job>> /\ sending' \in [Senders -> Sendings]
  <2>1. RoomTypes'
    BY <1>t, <1>1 DEF RoomTypes
  <2>2. \A s \in Senders : CoverOK(s)'
    BY <1>t, <1>1 DEF CoverOK, Subscribers
  <2> QED
    BY <1>t, <1>1, <2>1, <2>2 DEF RoomInv, Distinct
<1>2. ASSUME NEW a \in Agents, JoinRoom(a)
      PROVE  RoomInv'
  <2>1. /\ room' = Append(room, a) /\ UNCHANGED <<sending, job>>
        /\ \A i \in DOMAIN room : room[i] # a
    BY <1>2 DEF JoinRoom, Members
  <2>2. /\ room' \in Seq(Agents) /\ Len(room') = Len(room) + 1 /\ Len(room) \in Nat
        /\ DOMAIN room = 1 .. Len(room) /\ DOMAIN room' = 1 .. Len(room) + 1
        /\ \A i \in DOMAIN room : room'[i] = room[i]
        /\ room'[Len(room) + 1] = a
    BY <1>t, <2>1
  <2>3. Distinct(room')
    BY <1>t, <2>1, <2>2 DEF Distinct
  <2>4. ASSUME NEW s \in Senders, job[s].live
        PROVE  CoverOK(s)'
    <3>1. Subscribers(s) = room /\ Subscribers(s)' = room' /\ job'[s] = job[s]
      BY <2>1, <2>4 DEF Subscribers
    <3>2. job[s].next \in Nat
      BY <1>t DEF Jobs
    <3>3. CASE ~job[s].active
      BY <1>t, <3>1, <3>3 DEF CoverOK
    <3>4. CASE job[s].active
      <4>1. /\ job[s].next =< Len(room) + 1 /\ Distinct(job[s].tried)
            /\ \A i \in DOMAIN job[s].tried : \E k \in DOMAIN room : k < job[s].next /\ job[s].tried[i] = room[k]
            /\ \A k \in DOMAIN room : k < job[s].next /\ room[k] # job[s].from =>
                 \E i \in DOMAIN job[s].tried : job[s].tried[i] = room[k]
            /\ \A b \in job[s].stayed : \E k \in DOMAIN room : room[k] = b
        BY <1>t, <3>1, <3>4 DEF CoverOK
      <4>2. job[s].next =< Len(room') + 1
        BY <2>2, <3>2, <4>1
      <4>3. \A i \in DOMAIN job[s].tried : \E k \in DOMAIN room' : k < job[s].next /\ job[s].tried[i] = room'[k]
        BY <2>2, <4>1
      <4>4. \A k \in DOMAIN room' : k < job[s].next => k \in DOMAIN room
        BY <2>2, <3>2, <4>1
      <4>5. \A k \in DOMAIN room' : k < job[s].next /\ room'[k] # job[s].from =>
              \E i \in DOMAIN job[s].tried : job[s].tried[i] = room'[k]
        BY <2>2, <4>1, <4>4
      <4>6. \A b \in job[s].stayed : \E k \in DOMAIN room' : room'[k] = b
        BY <2>2, <4>1
      <4> QED
        BY <2>3, <3>1, <3>4, <4>1, <4>2, <4>3, <4>5, <4>6 DEF CoverOK
    <3> QED
      BY <3>3, <3>4
  <2>5. ASSUME NEW s \in Senders, ~job[s].live
        PROVE  CoverOK(s)'
    BY <1>t, <2>1, <2>5, CoverSame DEF Subscribers
  <2>6. RoomTypes'
    BY <1>t, <2>1, <2>2 DEF RoomTypes
  <2> QED
    BY <2>3, <2>4, <2>5, <2>6 DEF RoomInv
<1>3. ASSUME NEW a \in Agents, LeaveRoom(a)
      PROVE  RoomInv'
  <2>1. room' = Without(room, a) /\ UNCHANGED sending
    BY <1>3 DEF LeaveRoom
  <2>2. room' \in Seq(Agents) /\ Distinct(room')
    BY <1>t, <2>1, WithoutFacts
  <2>3. \A j \in Jobs : /\ [j EXCEPT !.live = FALSE, !.list = room, !.stayed = @ \ {a}] \in Jobs
                        /\ [j EXCEPT !.stayed = @ \ {a}] \in Jobs
    BY <1>t DEF Jobs
  <2>4. job' \in [Senders -> Jobs]
    BY <1>t, <1>3, <2>3 DEF LeaveRoom
  <2>5. ASSUME NEW s \in Senders
        PROVE  CoverOK(s)'
    <3>1. job'[s] = IF job[s].live
                    THEN [job[s] EXCEPT !.live = FALSE, !.list = room, !.stayed = @ \ {a}]
                    ELSE [job[s] EXCEPT !.stayed = @ \ {a}]
      BY <1>3 DEF LeaveRoom
    <3>2. /\ job'[s].active = job[s].active /\ job'[s].from = job[s].from
          /\ job'[s].next = job[s].next /\ job'[s].tried = job[s].tried
          /\ job'[s].stayed \subseteq job[s].stayed
          /\ ~job'[s].live /\ job'[s].list = Subscribers(s)
      BY <1>t, <3>1 DEF Jobs, Subscribers
    <3>3. Subscribers(s)' = Subscribers(s)
      BY <3>2 DEF Subscribers
    <3> QED
      BY <1>t, <2>4, <3>2, <3>3, CoverSame
  <2> QED
    BY <2>1, <2>2, <2>4, <2>5, <1>t DEF RoomInv, RoomTypes
<1>4. ASSUME NEW s \in Senders, NEW a \in Agents, StartBroadcast(s, a)
      PROVE  RoomInv'
  <2> DEFINE j == [active |-> TRUE, from |-> a, live |-> TRUE, list |-> <<>>, next |-> 1,
                   delivered |-> FALSE, tried |-> <<>>, stayed |-> Members]
  <2>1. job' = [job EXCEPT ![s] = j] /\ UNCHANGED <<room, sending>>
    BY <1>4 DEF StartBroadcast
  <2>2. <<>> \in Seq(Agents) /\ Members \subseteq Agents
    BY <1>t DEF Members
  <2>3. j \in Jobs
    BY <2>2 DEF Jobs
  <2>4. job' \in [Senders -> Jobs]
    BY <1>t, <2>1, <2>3
  <2>5. CoverOK(s)'
    <3>1. job'[s] = j /\ Subscribers(s)' = room
      BY <1>t, <2>1 DEF Subscribers
    <3>2. Distinct(<<>>) /\ Len(room) \in Nat
      BY <1>t DEF Distinct
    <3>3. \A b \in Members : \E k \in DOMAIN room : room[k] = b
      BY DEF Members
    <3>4. \A k \in DOMAIN room : ~(k < 1)
      BY <1>t
    <3> QED
      BY <1>t, <3>1, <3>2, <3>3, <3>4 DEF CoverOK
  <2>6. \A r \in Senders : r # s => CoverOK(r)'
    BY <1>t, <2>1, <2>4, CoverSame DEF Subscribers
  <2> QED
    BY <1>t, <2>1, <2>4, <2>5, <2>6 DEF RoomInv, RoomTypes
<1>5. ASSUME NEW s \in Senders, NextSubscriber(s)
      PROVE  RoomInv'
  <2> DEFINE l == Subscribers(s)
             j == job[s]
             b == l[j.next]
  <2>1. /\ j.active /\ j.next =< Len(l) /\ UNCHANGED room /\ j \in Jobs
        /\ l \in Seq(Agents) /\ j.next \in Nat \ {0}
    BY <1>t, <1>5 DEF NextSubscriber, Subscribers, Jobs
  <2>2. j.next \in DOMAIN l /\ b \in Agents /\ DOMAIN l = 1 .. Len(l) /\ Len(l) \in Nat
    BY <2>1
  <2>3. sending' \in [Senders -> Sendings]
    <3>1. CASE b = job[s].from /\ UNCHANGED sending
      BY <1>t, <3>1
    <3>2. CASE Attempt(s, b)
      <4>1. PICK c \in BOOLEAN :
              sending' = [sending EXCEPT ![s] =
                           [step |-> IF c THEN "put" ELSE "none", to |-> b, queued |-> FALSE,
                            reply |-> IF c THEN "none" ELSE "dict"]]
        BY <3>2 DEF Attempt, Breaker!Admits
      <4>2. [step |-> IF c THEN "put" ELSE "none", to |-> b, queued |-> FALSE,
             reply |-> IF c THEN "none" ELSE "dict"] \in Sendings
        BY <2>2 DEF Sendings
      <4> QED
        BY <1>t, <4>1, <4>2
    <3> QED
      BY <1>5, <3>1, <3>2 DEF NextSubscriber
  <2>4. CASE b = j.from /\ job' = [job EXCEPT ![s].next = @ + 1]
    <3>1. job'[s] = [j EXCEPT !.next = @ + 1]
      BY <1>t, <2>4
    <3>2. job'[s] \in Jobs
      <4>1. \A q \in Jobs : [q EXCEPT !.next = @ + 1] \in Jobs
        BY DEF Jobs
      <4> QED
        BY <2>1, <3>1, <4>1
    <3>3. job' \in [Senders -> Jobs]
      BY <1>t, <2>4, <3>1, <3>2
    <3>4. CoverOK(s)'
      <4>1. /\ Subscribers(s)' = l /\ job'[s].next = j.next + 1 /\ job'[s].tried = j.tried
            /\ job'[s].active /\ job'[s].from = j.from /\ job'[s].stayed = j.stayed
        BY <2>1, <3>1 DEF Subscribers, Jobs
      <4>2. CoverOK(s)
        BY <1>t
      <4> HIDE DEF l, j
      <4>3. \A k \in DOMAIN l : k < j.next + 1 => k = j.next \/ k < j.next
        BY <2>1, <2>2
      <4>4. j.next + 1 =< Len(l) + 1 /\ \A k \in DOMAIN l : k < j.next => k < j.next + 1
        BY <2>1, <2>2
      <4> QED
        BY <2>1, <2>4, <4>1, <4>2, <4>3, <4>4 DEF CoverOK, l, j
    <3>5. \A r \in Senders : r # s => CoverOK(r)'
      BY <1>t, <2>1, <2>4, <3>3, CoverSame DEF Subscribers
    <3> QED
      BY <1>t, <2>1, <2>3, <3>3, <3>4, <3>5 DEF RoomInv, RoomTypes
  <2>5. ASSUME b # j.from,
               job' = [job EXCEPT ![s].next = @ + 1, ![s].tried = Append(@, b),
                                  ![s].delivered = @ \/ sending'[s].reply = "dict"]
        PROVE  RoomInv'
    <3>1. job'[s] = [j EXCEPT !.next = @ + 1, !.tried = Append(@, b),
                              !.delivered = @ \/ sending'[s].reply = "dict"]
      BY <1>t, <2>5
    <3>2. Append(j.tried, b) \in Seq(Agents)
      BY <2>1, <2>2 DEF Jobs
    <3>3. job'[s] \in Jobs
      <4>1. \A q \in Jobs : [q EXCEPT !.next = @ + 1] \in Jobs
        BY DEF Jobs
      <4>2. \A q \in Jobs, t \in Seq(Agents) : [q EXCEPT !.tried = t] \in Jobs
        BY DEF Jobs
      <4>3. \A q \in Jobs, d \in BOOLEAN : [q EXCEPT !.delivered = d] \in Jobs
        BY DEF Jobs
      <4> DEFINE q1 == [j EXCEPT !.next = @ + 1]
                 q2 == [q1 EXCEPT !.tried = Append(j.tried, b)]
                 d == j.delivered \/ sending'[s].reply = "dict"
      <4>4. q1 \in Jobs
        BY <2>1, <4>1
      <4>5. q2 \in Jobs
        BY <3>2, <4>2, <4>4
      <4>6. [q2 EXCEPT !.delivered = d] \in Jobs
        BY <4>3, <4>5
      <4>7. job'[s] = [q2 EXCEPT !.delivered = d]
        BY <2>1, <3>1 DEF Jobs
      <4> QED
        BY <4>6, <4>7
    <3>4. job' \in [Senders -> Jobs]
      BY <1>t, <2>5, <3>1, <3>3
    <3>5. CoverOK(s)'
      <4>1. /\ Subscribers(s)' = l /\ job'[s].next = j.next + 1 /\ job'[s].tried = Append(j.tried, b)
            /\ job'[s].active /\ job'[s].from = j.from /\ job'[s].stayed = j.stayed
        BY <2>1, <3>1 DEF Subscribers, Jobs
      <4>2. CoverOK(s) /\ j.tried \in Seq(Agents)
        BY <1>t, <2>1 DEF Jobs
      <4>w. b = l[j.next] /\ b # j.from
        BY <2>5
      <4> HIDE DEF l, j, b
      <4>3. \A k \in DOMAIN l : k < j.next + 1 => k = j.next \/ k < j.next
        BY <2>1, <2>2
      <4>4. j.next + 1 =< Len(l) + 1 /\ \A k \in DOMAIN l : k < j.next => k < j.next + 1
        BY <2>1, <2>2
      <4> DEFINE t == job'[s].tried
                 n == Len(j.tried)
      <4>5. /\ n \in Nat /\ DOMAIN t = 1 .. n + 1 /\ DOMAIN j.tried = 1 .. n
            /\ t[n + 1] = b /\ \A i \in 1 .. n : t[i] = j.tried[i]
        BY <4>1, <4>2
      <4> HIDE DEF t, n
      <4>6. /\ Distinct(l) /\ Distinct(j.tried)
            /\ \A i \in DOMAIN j.tried : \E k \in DOMAIN l : k < j.next /\ j.tried[i] = l[k]
            /\ \A k \in DOMAIN l : k < j.next /\ l[k] # j.from =>
                 \E i \in DOMAIN j.tried : j.tried[i] = l[k]
            /\ \A c \in j.stayed : \E k \in DOMAIN l : l[k] = c
        BY <2>1, <4>2 DEF CoverOK, l, j
      <4>7. \A i \in 1 .. n : t[i] # b
        <5>1. \A k \in DOMAIN l : k < j.next => l[k] # b
          BY <2>1, <2>2, <4>w, <4>6 DEF Distinct
        <5> QED
          BY <4>5, <4>6, <5>1
      <4>8. Distinct(t)
        BY <4>5, <4>6, <4>7 DEF Distinct
      <4>9. \A i \in DOMAIN t : \E k \in DOMAIN l : k < j.next + 1 /\ t[i] = l[k]
        <5>1. j.next \in DOMAIN l /\ j.next < j.next + 1
          BY <2>1, <2>2
        <5>2. \A i \in DOMAIN t : i \in 1 .. n \/ i = n + 1
          BY <4>5
        <5> QED
          BY <4>4, <4>5, <4>6, <4>w, <5>1, <5>2
      <4>10. \A k \in DOMAIN l : k < j.next + 1 /\ l[k] # j.from => \E i \in DOMAIN t : t[i] = l[k]
        <5>1. \A i \in 1 .. n : i \in DOMAIN t
          BY <4>5
        <5>2. n + 1 \in DOMAIN t
          BY <4>5
        <5> QED
          BY <4>3, <4>5, <4>6, <4>w, <5>1, <5>2
      <4> QED
        BY <4>1, <4>4, <4>6, <4>8, <4>9, <4>10 DEF CoverOK, t
    <3>6. \A r \in Senders : r # s => CoverOK(r)'
      BY <1>t, <2>1, <2>5, <3>4, CoverSame DEF Subscribers
    <3> QED
      BY <1>t, <2>1, <2>3, <3>4, <3>5, <3>6 DEF RoomInv, RoomTypes
  <2> QED
    BY <1>5, <2>4, <2>5 DEF NextSubscriber
<1>6. ASSUME NEW s \in Senders, EndBroadcast(s) \/ CancelSender(s)
      PROVE  RoomInv'
  <2>1. /\ job' = [job EXCEPT ![s] = NoJob] /\ UNCHANGED room
        /\ sending' = sending \/ sending' = [sending EXCEPT ![s] = NotSending]
    BY <1>6 DEF EndBroadcast, CancelSender
  <2>2. job' \in [Senders -> Jobs] /\ sending' \in [Senders -> Sendings]
    BY <1>t, <1>n, <2>1
  <2>3. CoverOK(s)'
    <3>1. job'[s] = NoJob
      BY <1>t, <2>1
    <3> QED
      BY <3>1 DEF CoverOK, NoJob, Distinct
  <2>4. \A r \in Senders : r # s => CoverOK(r)'
    BY <1>t, <2>1, <2>2, CoverSame DEF Subscribers
  <2> QED
    BY <1>t, <2>1, <2>2, <2>3, <2>4 DEF RoomInv, RoomTypes
<1>7. ASSUME NEW s \in Senders, NEW reply \in {"true", "false", "dict"}, Reply(s, reply),
             UNCHANGED room
      PROVE  RoomInv'
  <2>1. sending' \in [Senders -> Sendings]
    <3>1. [NotSending EXCEPT !.queued = sending[s].queued, !.reply = reply] \in Sendings
      BY <1>t DEF NotSending, Sendings
    <3> QED
      BY <1>t, <1>7, <3>1 DEF Reply
  <2>2. job'[s] = [job[s] EXCEPT !.delivered = @ \/ (job[s].active /\ reply # "false")]
    BY <1>t, <1>7 DEF Reply
  <2>3. job'[s] \in Jobs
    BY <1>t, <2>2 DEF Jobs
  <2>4. job' \in [Senders -> Jobs]
    BY <1>t, <1>7, <2>2, <2>3 DEF Reply
  <2>5. \A r \in Senders : CoverOK(r)'
    <3>1. CoverOK(s)'
      <4>1. /\ job'[s].active = job[s].active /\ job'[s].from = job[s].from
            /\ job'[s].next = job[s].next /\ job'[s].tried = job[s].tried
            /\ job'[s].stayed = job[s].stayed /\ job'[s].live = job[s].live
            /\ job'[s].list = job[s].list
        BY <1>t, <2>2 DEF Jobs
      <4>2. Subscribers(s)' = Subscribers(s)
        BY <1>7, <4>1 DEF Subscribers
      <4> QED
        BY <1>t, <2>4, <4>1, <4>2, CoverSame
    <3>2. \A r \in Senders : r # s => CoverOK(r)'
      BY <1>t, <1>7, <2>4, CoverSame DEF Subscribers, Reply
    <3> QED
      BY <3>1, <3>2
  <2> QED
    BY <1>t, <1>7, <2>1, <2>4, <2>5 DEF RoomInv, RoomTypes
<1>8. ASSUME NEW s \in Senders, Answer(s) \/ SendTimesOut(s)
      PROVE  RoomInv'
  BY <1>7, <1>8 DEF Answer, SendTimesOut
<1>9. ASSUME NEW s \in Senders, Put(s) \/ HandlersDone(s)
      PROVE  RoomInv'
  <2>1. \A n \in Sendings : /\ [n EXCEPT !.queued = TRUE, !.step = "handlers"] \in Sendings
                            /\ [n EXCEPT !.queued = TRUE, !.step = "answer"] \in Sendings
                            /\ [n EXCEPT !.step = "answer"] \in Sendings
    BY DEF Sendings
  <2>2. PICK n \in Sendings : sending' = [sending EXCEPT ![s] = n]
    BY <1>t, <1>9, <2>1 DEF Put, HandlersDone
  <2>3. sending' \in [Senders -> Sendings]
    BY <1>t, <2>2
  <2> QED
    BY <1>1, <1>9, <2>3 DEF Put, HandlersDone
<1>10. ASSUME NEW s \in Senders, NEW a \in Agents, Send(s, a)
       PROVE  RoomInv'
  <2>1. PICK c \in BOOLEAN :
          sending' = [sending EXCEPT ![s] =
                       [step |-> IF c THEN "put" ELSE "none", to |-> a, queued |-> FALSE,
                        reply |-> IF c THEN "none" ELSE "dict"]]
    BY <1>10 DEF Send, Attempt, Breaker!Admits
  <2>2. [step |-> IF c THEN "put" ELSE "none", to |-> a, queued |-> FALSE,
         reply |-> IF c THEN "none" ELSE "dict"] \in Sendings
    BY DEF Sendings
  <2>3. sending' \in [Senders -> Sendings]
    BY <1>t, <2>1, <2>2
  <2> QED
    BY <1>1, <1>10, <2>3 DEF Send
<1>11. ASSUME NEW a \in Agents, RegisterAgent(a) \/ UnregisterAgent(a) \/ Subscribe(a) \/ Receive(a)
       PROVE  RoomInv'
  BY <1>t, <1>1, <1>11 DEF RegisterAgent, UnregisterAgent, Subscribe, Receive
<1>12. CASE TimeoutElapses \/ HealthCheck
  BY <1>t, <1>1, <1>12 DEF TimeoutElapses, HealthCheck
<1> QED
  BY SendersAssumption, <1>2, <1>3, <1>4, <1>5, <1>6, <1>8, <1>9, <1>10, <1>11, <1>12 DEF Next, SenderStep

\* A broadcast reaches every agent that stays in the room, and none twice, however many
\* agents join and leave between its sends.
THEOREM BroadcastsCoverRoom == Spec => []BroadcastCoversRoom
<1>1. Init => RoomInv
  <2> SUFFICES ASSUME Init
               PROVE  RoomInv
    OBVIOUS
  <2>1. <<>> \in Seq(Agents) /\ 1 \in Nat \ {0}
    OBVIOUS
  <2>2. RoomTypes
    BY <2>1 DEF Init, RoomTypes, NoJob, NotSending, Jobs, Sendings
  <2> QED
    BY <2>2 DEF Init, RoomInv, CoverOK, Distinct, NoJob
<1>2. RoomInv /\ [Next]_vars => RoomInv'
  <2>1. RoomInv /\ UNCHANGED vars => RoomInv'
    BY DEF vars, RoomInv, RoomTypes, CoverOK, Subscribers, Distinct
  <2> QED
    BY <2>1, RoomStep
<1>3. RoomInv => BroadcastCoversRoom
  <2> SUFFICES ASSUME RoomInv, NEW s \in Senders, job[s].active,
                      job[s].next > Len(Subscribers(s)),
                      NEW b \in job[s].stayed, b # job[s].from
               PROVE  \E i \in DOMAIN job[s].tried : job[s].tried[i] = b
    BY DEF RoomInv, CoverOK, Distinct, BroadcastCoversRoom
  <2>1. Subscribers(s) \in Seq(Agents) /\ job[s].next \in Nat
    BY DEF RoomInv, RoomTypes, Subscribers, Jobs
  <2>2. \A k \in DOMAIN Subscribers(s) : k < job[s].next
    BY <2>1
  <2> QED
    BY <2>2 DEF RoomInv, CoverOK
<1> QED
  BY <1>1, <1>2, <1>3, PTL DEF Spec

-----------------------------------------------------------------------------
(* The circuit breaker by itself, for every set of callers and every       *)
(* thresholds.  The methods are functions of the breaker record, so the    *)
(* work is in one lemma per method: it keeps GoodBreaker of the record.    *)
(* The steps of the callers only compose methods.                          *)

CONSTANTS Checked, HasFallback, Operated
VARIABLE healthy

Alone == INSTANCE CircuitBreaker WITH Callers <- Senders

\* The part of the invariants that is about the breaker record: its types and
\* the margin of a closed breaker.
GoodBreaker(b) == b \in Alone!Breakers /\ (b.state = "closed" => b.fails < FailureThreshold)

\* While probing, the admissions are compared with the successes alone.
CountsSuccesses(b) ==
  b.state = "half_open" => b.probes = b.oks /\ b.oks < SuccessThreshold

\* The counts of a new period are within their ranges.
LEMMA Ranges ==
  /\ 0 \in 0 .. FailureThreshold /\ 0 < FailureThreshold
  /\ 0 \in 0 .. SuccessThreshold /\ 0 < SuccessThreshold
  BY ThresholdsAssumption

\* A count that stops at its bound stays within it.
LEMMA UpToBounded ==
  ASSUME NEW n \in Nat, NEW bound \in Nat, n =< bound + 1
  PROVE  Alone!UpTo(n, bound) \in 0 .. bound
  BY DEF Alone!UpTo

\* A new breaker is good.
LEMMA NewIsGood == GoodBreaker(Alone!NewBreaker) /\ CountsSuccesses(Alone!NewBreaker)
  BY Ranges, ThresholdsAssumption DEF GoodBreaker, CountsSuccesses, Alone!NewBreaker, Alone!Breakers

\* Reading the state keeps a breaker good, and never closes it.
LEMMA ReadIsGood ==
  ASSUME NEW b, GoodBreaker(b)
  PROVE  /\ GoodBreaker(Alone!Read(b))
         /\ CountsSuccesses(b) => CountsSuccesses(Alone!Read(b))
         /\ b.state = "open" => Alone!Read(b).state # "closed"
  <1>1. CASE b.state = "open" /\ b.elapsed
    <2> DEFINE n == [b EXCEPT !.state = "half_open", !.probes = 0, !.oks = 0]
    <2>1. Alone!Read(b) = n
      BY <1>1 DEF Alone!Read
    <2>2. /\ n \in Alone!Breakers /\ n.state = "half_open"
          /\ n.probes = 0 /\ n.oks = 0
      BY Ranges, ThresholdsAssumption DEF GoodBreaker, Alone!Breakers
    <2>3. QED
      BY <2>1, <2>2, Ranges, ThresholdsAssumption DEF GoodBreaker, CountsSuccesses
  <1>2. CASE ~(b.state = "open" /\ b.elapsed)
    BY <1>2 DEF Alone!Read
  <1>3. QED
    BY <1>1, <1>2

\* Opening keeps a breaker good.
LEMMA OpenedIsGood ==
  ASSUME NEW b, GoodBreaker(b)
  PROVE  GoodBreaker(Alone!Opened(b)) /\ CountsSuccesses(Alone!Opened(b))
  BY DEF GoodBreaker, CountsSuccesses, Alone!Opened, Alone!Breakers

\* Recording a success keeps a breaker good, and closes it at the threshold.
LEMMA SuccessIsGood ==
  ASSUME NEW b, GoodBreaker(b)
  PROVE  /\ GoodBreaker(Alone!RecordSuccess(b))
         /\ CountsSuccesses(b) => CountsSuccesses(Alone!RecordSuccess(b))
         /\ b.state = "open" => Alone!RecordSuccess(b).state = "open"
  <1> DEFINE n == [b EXCEPT !.oks = Alone!UpTo(@ + 1, SuccessThreshold), !.fails = 0]
  <1>1. Alone!UpTo(b.oks + 1, SuccessThreshold) \in 0 .. SuccessThreshold
    BY UpToBounded, Ranges, ThresholdsAssumption DEF GoodBreaker, Alone!Breakers
  <1>2. n \in Alone!Breakers /\ n.fails = 0 /\ n.state = b.state /\ n.probes = b.probes
        /\ n.oks = Alone!UpTo(b.oks + 1, SuccessThreshold)
    BY <1>1, Ranges, ThresholdsAssumption DEF GoodBreaker, Alone!Breakers
  <1>3. CASE b.state # "half_open"
    BY <1>2, <1>3, Ranges, ThresholdsAssumption DEF GoodBreaker, CountsSuccesses, Alone!RecordSuccess
  <1>4. CASE b.state = "half_open" /\ n.oks = SuccessThreshold
    <2> DEFINE r == [n EXCEPT !.state = "closed", !.probes = 0]
    <2>1. Alone!RecordSuccess(b) = r
      BY <1>4 DEF Alone!RecordSuccess
    <2> HIDE DEF n
    <2>2. r \in Alone!Breakers /\ r.state = "closed" /\ r.fails = n.fails
      BY <1>2 DEF Alone!Breakers
    <2>3. QED
      BY <1>2, <1>4, <2>1, <2>2, Ranges DEF GoodBreaker, CountsSuccesses
  <1>5. CASE b.state = "half_open" /\ n.oks # SuccessThreshold
    <2> DEFINE r == [n EXCEPT !.probes = @ + 1]
    <2>1. Alone!RecordSuccess(b) = r
      BY <1>5 DEF Alone!RecordSuccess
    <2>2. n.oks < SuccessThreshold /\ n.oks = b.oks + 1
      BY <1>1, <1>2, <1>5, Ranges, ThresholdsAssumption DEF Alone!UpTo, GoodBreaker, Alone!Breakers
    <2> HIDE DEF n
    <2>3. /\ r \in Alone!Breakers /\ r.state = "half_open"
          /\ r.oks = n.oks /\ r.probes = n.probes + 1
      BY <1>2, <1>5 DEF Alone!Breakers
    <2>4. QED
      BY <1>2, <1>5, <2>1, <2>2, <2>3 DEF GoodBreaker, CountsSuccesses
  <1>6. QED
    BY <1>3, <1>4, <1>5

\* Recording a failure keeps a breaker good: at the threshold it opens.
LEMMA FailureIsGood ==
  ASSUME NEW b, GoodBreaker(b)
  PROVE  /\ GoodBreaker(Alone!RecordFailure(b))
         /\ CountsSuccesses(Alone!RecordFailure(b))
         /\ b.state = "open" => Alone!RecordFailure(b).state = "open"
  <1> DEFINE n == [b EXCEPT !.fails = Alone!UpTo(@ + 1, FailureThreshold), !.oks = 0]
  <1>1. Alone!UpTo(b.fails + 1, FailureThreshold) \in 0 .. FailureThreshold
    BY UpToBounded, Ranges, ThresholdsAssumption DEF GoodBreaker, Alone!Breakers
  <1>2. n \in Alone!Breakers /\ n.state = b.state
    BY <1>1, Ranges, ThresholdsAssumption DEF GoodBreaker, Alone!Breakers
  <1>3. CASE b.state = "half_open" \/ (b.state = "closed" /\ n.fails = FailureThreshold)
    <2>1. Alone!RecordFailure(b) = Alone!Opened(n)
      BY <1>3 DEF Alone!RecordFailure
    <2> HIDE DEF n
    <2>2. Alone!Opened(n) \in Alone!Breakers /\ Alone!Opened(n).state = "open"
      BY <1>2 DEF Alone!Opened, Alone!Breakers
    <2>3. QED
      BY <2>1, <2>2 DEF GoodBreaker, CountsSuccesses
  <1>4. CASE ~(b.state = "half_open" \/ (b.state = "closed" /\ n.fails = FailureThreshold))
    <2>1. Alone!RecordFailure(b) = n
      BY <1>4 DEF Alone!RecordFailure
    <2> HIDE DEF n
    <2>2. n.fails \in 0 .. FailureThreshold
      BY <1>2 DEF Alone!Breakers
    <2>3. n.state = "closed" => n.fails < FailureThreshold
      BY <1>2, <1>4, <2>2, ThresholdsAssumption
    <2>4. QED
      BY <1>2, <1>4, <2>1, <2>3 DEF GoodBreaker, CountsSuccesses
  <1>5. QED
    BY <1>3, <1>4
-----------------------------------------------------------------------------
(* The invariant of the specification.                                     *)

Callings == caller \in [Senders -> Alone!Places] /\ healthy \in BOOLEAN

BreakerInv == GoodBreaker(cb) /\ Callings

\* The breaker record after a step is one the methods make of it, or it is the
\* old one with the timer run out, with one more probe counted by check(), or
\* closed by an operator.
Ticked(b) == [b EXCEPT !.elapsed = TRUE]
Counted(b) == [b EXCEPT !.probes = @ + 1]
Closed(b) == [b EXCEPT !.state = "closed", !.fails = 0, !.probes = 0]

\* The remaining record updates keep a breaker good.
LEMMA UpdatesAreGood ==
  ASSUME NEW b, GoodBreaker(b)
  PROVE  /\ GoodBreaker(Ticked(b)) /\ Ticked(b).state = b.state
         /\ CountsSuccesses(b) => CountsSuccesses(Ticked(b))
         /\ GoodBreaker(Counted(b)) /\ Counted(b).state = b.state
         /\ GoodBreaker(Closed(b)) /\ CountsSuccesses(Closed(b))
  <1>1. b \in Alone!Breakers
    BY DEF GoodBreaker
  <1>2. Ticked(b) \in Alone!Breakers /\ Ticked(b) = [b EXCEPT !.elapsed = TRUE]
    BY <1>1 DEF Alone!Breakers, Ticked
  <1>3. Counted(b) \in Alone!Breakers
    BY <1>1 DEF Alone!Breakers, Counted
  <1>4. Closed(b) \in Alone!Breakers /\ Closed(b).state = "closed" /\ Closed(b).fails = 0
    BY <1>1, Ranges DEF Alone!Breakers, Closed
  <1>5. /\ Ticked(b).state = b.state /\ Ticked(b).fails = b.fails
        /\ Ticked(b).probes = b.probes /\ Ticked(b).oks = b.oks
        /\ Counted(b).state = b.state /\ Counted(b).fails = b.fails
    BY <1>1 DEF Alone!Breakers, Ticked, Counted
  <1>6. QED
    BY <1>2, <1>3, <1>4, <1>5, Ranges DEF GoodBreaker, CountsSuccesses

\* A move of one caller keeps the callers in their places.
LEMMA GotoCallings ==
  ASSUME Callings, NEW c \in Senders, NEW place \in Alone!Places, Alone!Goto(c, place), UNCHANGED healthy
  PROVE  Callings'
  BY DEF Callings, Alone!Goto

\* The initial state is good.
LEMMA InitBreakerInv == Alone!Init => BreakerInv /\ CountsSuccesses(cb)
  BY NewIsGood DEF Alone!Init, BreakerInv, Callings, Alone!Places

\* One step: the breaker stays good; it closes from OPEN by an operator alone;
\* and the probes stay equal to the successes when nobody uses check().
LEMMA StepGood ==
  ASSUME BreakerInv, [Alone!Next]_(Alone!vars)
  PROVE  /\ BreakerInv'
         /\ Checked = {} /\ CountsSuccesses(cb) => CountsSuccesses(cb')
         /\ cb.state = "open" /\ cb'.state = "closed" => (Alone!Reset \/ Alone!ForceClose)
  <1> DEFINE Goal == /\ BreakerInv'
                     /\ Checked = {} /\ CountsSuccesses(cb) => CountsSuccesses(cb')
                     /\ cb.state = "open" /\ cb'.state = "closed" => (Alone!Reset \/ Alone!ForceClose)
  <1> USE DEF BreakerInv
  <1>1. ASSUME NEW c \in Senders, Alone!Admit(c)
        PROVE  Goal
    <2>1. Callings'
      BY <1>1, GotoCallings DEF Alone!Admit, Alone!Places
    <2>2. CASE c \in Checked /\ Alone!Read(cb).state = "half_open"
      <3>1. cb' = Counted(Alone!Read(cb))
        BY <1>1, <2>2 DEF Alone!Admit, Counted
      <3>2. QED
        BY <2>1, <2>2, <3>1, ReadIsGood, UpdatesAreGood
    <2>3. CASE ~(c \in Checked /\ Alone!Read(cb).state = "half_open")
      <3>1. cb' = Alone!Read(cb)
        BY <1>1, <2>3 DEF Alone!Admit
      <3>2. QED
        BY <2>1, <3>1, ReadIsGood
    <2>4. QED
      BY <2>2, <2>3
  <1>2. ASSUME NEW c \in Senders, Alone!Block(c)
        PROVE  Goal
    <2>1. Callings'
      <3>1. (IF c \in Checked THEN "idle" ELSE Alone!AfterRefusal) \in Alone!Places
        BY DEF Alone!AfterRefusal, Alone!Places
      <3>2. QED
        BY <1>2, <3>1, GotoCallings DEF Alone!Block
    <2>2. QED
      BY <1>2, <2>1, ReadIsGood DEF Alone!Block
  <1>3. ASSUME NEW c \in Senders, Alone!Succeed(c)
        PROVE  Goal
    <2>1. Callings'
      BY <1>3, GotoCallings DEF Alone!Succeed, Alone!Places
    <2>2. QED
      BY <1>3, <2>1, SuccessIsGood DEF Alone!Succeed
  <1>4. ASSUME NEW c \in Senders, Alone!Fail(c)
        PROVE  Goal
    <2>1. Callings'
      BY <1>4, GotoCallings DEF Alone!Fail, Alone!Places
    <2>2. cb' = Alone!RecordFailure(cb) \/ cb' = Alone!Read(Alone!RecordFailure(cb))
      BY <1>4 DEF Alone!Fail
    <2>3. QED
      BY <2>1, <2>2, FailureIsGood, ReadIsGood
  <1>5. ASSUME NEW c \in Senders, Alone!Cancel(c)
        PROVE  Goal
    BY <1>5, GotoCallings DEF Alone!Cancel, Alone!Places
  <1>6. ASSUME NEW c \in Senders, Alone!FallbackReturns(c)
        PROVE  Goal
    BY <1>6, GotoCallings DEF Alone!FallbackReturns, Alone!Places
  <1>7. CASE Alone!TimeoutElapses
    <2>1. cb' = Ticked(cb) /\ Callings'
      BY <1>7 DEF Alone!TimeoutElapses, Ticked, Callings
    <2>2. QED
      BY <2>1, UpdatesAreGood
  <1>8. CASE Alone!Observe
    BY <1>8, ReadIsGood DEF Alone!Observe, Callings
  <1>9. CASE Alone!Reset
    BY <1>9, NewIsGood DEF Alone!Reset, Callings
  <1>10. CASE Alone!ForceOpen
    BY <1>10, OpenedIsGood DEF Alone!ForceOpen, Callings, Alone!Opened, GoodBreaker, Alone!Breakers
  <1>11. CASE Alone!ForceClose
    <2>1. cb' = Closed(cb) /\ Callings'
      BY <1>11 DEF Alone!ForceClose, Closed, Callings
    <2>2. QED
      BY <1>11, <2>1, UpdatesAreGood
  <1>12. CASE Alone!Recover
    BY <1>12 DEF Alone!Recover, Callings
  <1>13. CASE UNCHANGED Alone!vars
    BY <1>13 DEF Alone!vars, Callings
  <1>14. QED
    BY <1>1, <1>2, <1>3, <1>4, <1>5, <1>6, <1>7, <1>8, <1>9, <1>10, <1>11, <1>12, <1>13
    DEF Alone!Next

\* The invariant holds in every reachable state.
LEMMA BreakerInvariant == Alone!Spec => []BreakerInv
  BY InitBreakerInv, StepGood, PTL DEF Alone!Spec

-----------------------------------------------------------------------------
(* Theorems.                                                               *)

\* The breaker and its callers keep their types, for any thresholds.
THEOREM BreakerTypeCorrect == Alone!Spec => []Alone!TypeOK
  <1>1. BreakerInv => Alone!TypeOK
    BY DEF BreakerInv, GoodBreaker, Callings, Alone!TypeOK
  <1>2. QED
    BY <1>1, BreakerInvariant, PTL

\* A closed breaker is always at least one failure away from opening.
THEOREM MarginKept == Alone!Spec => []Alone!ClosedHasMargin
  <1>1. BreakerInv => Alone!ClosedHasMargin
    BY DEF BreakerInv, GoodBreaker, Alone!ClosedHasMargin
  <1>2. QED
    BY <1>1, BreakerInvariant, PTL

\* A late result never closes an open breaker: only an operator does.
THEOREM OpenClosedByOperatorOnly == Alone!Spec => Alone!OpenStaysOpen
  <1>1. ASSUME BreakerInv, [Alone!Next]_(Alone!vars)
        PROVE  [cb.state = "open" /\ cb'.state = "closed" => Alone!Reset \/ Alone!ForceClose]_(Alone!vars)
    BY <1>1, StepGood
  <1>2. QED
    BY <1>1, BreakerInvariant, PTL DEF Alone!Spec, Alone!OpenStaysOpen

\* Without check() the admission count of a half-open breaker is its number of
\* successes, so a probe in flight or cancelled takes no room.
THEOREM ProbeCountExact ==
  ASSUME Checked = {}
  PROVE  Alone!Spec => []Alone!ProbesAreSuccesses
  <1> DEFINE Inv == BreakerInv /\ CountsSuccesses(cb)
  <1>1. Alone!Init => Inv
    BY InitBreakerInv
  <1>2. Inv /\ [Alone!Next]_(Alone!vars) => Inv'
    <2> SUFFICES ASSUME Inv, [Alone!Next]_(Alone!vars)
                 PROVE  Inv'
      OBVIOUS
    <2>1. BreakerInv' /\ CountsSuccesses(cb')
      BY StepGood, Checked = {}
    <2>2. CountsSuccesses(cb') = CountsSuccesses(cb)'
      BY DEF CountsSuccesses
    <2>3. QED
      BY <2>1, <2>2
  <1>3. Inv => Alone!ProbesAreSuccesses
    BY DEF CountsSuccesses, Alone!ProbesAreSuccesses
  <1>4. QED
    BY <1>1, <1>2, <1>3, PTL DEF Alone!Spec

\* A half-open breaker never refuses, provided check() is not used and no more
\* successes are asked for than half-open calls are allowed.  The configuration
\* code enforces neither: both conditions are needed (see the runs).
THEOREM NeverWedged ==
  ASSUME Checked = {}, SuccessThreshold =< MaxHalfOpen
  PROVE  Alone!Spec => []Alone!HalfOpenAdmits
  <1>1. BreakerInv /\ Alone!ProbesAreSuccesses => Alone!HalfOpenAdmits
    BY SuccessThreshold =< MaxHalfOpen, Ranges, ThresholdsAssumption
    DEF BreakerInv, GoodBreaker, Alone!Breakers, Alone!ProbesAreSuccesses, Alone!HalfOpenAdmits, Alone!Admits
  <1>2. Alone!Spec => []Alone!ProbesAreSuccesses
    BY Checked = {}, ProbeCountExact
  <1>3. QED
    BY <1>1, <1>2, BreakerInvariant, PTL
=============================================================================
