-------------------------- MODULE CommunicationBus --------------------------
(***************************************************************************)
(* InternalCommunicationBus (communication/bus/communication_bus.py): one  *)
(* inbox per agent, handlers awaited by the sender, rooms, and a circuit   *)
(* breaker around every send (module CircuitBreaker, composed below).      *)
(*                                                                         *)
(* A sender is a coroutine in send or broadcast.  breaker.execute answers  *)
(* a failure with a dict and raises nothing, so the retry and fallback     *)
(* managers around it have nothing to do: they pass the first answer on.   *)
(* A room's list is replaced by leave_room and extended in place by        *)
(* join_room; a broadcast goes on with the list object it started with.    *)
(* The rooms are independent of each other: one is modelled.               *)
(***************************************************************************)
EXTENDS Integers, Sequences, FiniteSets

CONSTANTS
  Agents,
  Subscribing,       \* the agents that subscribe a handler
  Senders,           \* the coroutines that send or broadcast
  NoAgent,           \* not an agent: the recipient of no send
  Broadcasting,      \* those that may broadcast
  MaxQueueSize,      \* MAX_QUEUE_SIZE, the size of an inbox
  FailureThreshold, SuccessThreshold, MaxHalfOpen

ASSUME AgentsAssumption == Subscribing \subseteq Agents /\ NoAgent \notin Agents
ASSUME SendersAssumption == Broadcasting \subseteq Senders
ASSUME QueueAssumption == MaxQueueSize \in Nat \ {0}
ASSUME ThresholdsAssumption ==
  /\ FailureThreshold \in Nat \ {0}
  /\ SuccessThreshold \in Nat \ {0}
  /\ MaxHalfOpen \in Nat \ {0}

VARIABLES
  inbox,     \* the registered agents, with the messages waiting for each
  handlers,  \* the agents with a subscribed handler
  room,      \* the subscribers of the room, in order
  cb,        \* the circuit breaker
  caller,    \* whether a sender's send is inside the breaker (its places)
  sending,   \* the send in progress, or the last one
  job        \* the broadcast in progress

busVars == <<inbox, handlers>>
vars == <<busVars, room, cb, caller, sending, job>>

Breaker == INSTANCE CircuitBreaker WITH
  Callers <- Senders, Checked <- {}, HasFallback <- FALSE, Operated <- FALSE,
  healthy <- FALSE

\* step is the await the send is in; queued says that put_nowait was done; reply
\* is what send returned: TRUE, FALSE or the dict of breaker.execute.
Sendings == [step : {"none", "put", "handlers", "answer"}, to : Agents \cup {NoAgent},
             queued : BOOLEAN, reply : {"none", "true", "false", "dict"}]

\* list is the broadcast's list object unless it still is the room's (live);
\* tried and stayed are history: the agents it sent to, and those that were
\* subscribed all along.
Jobs == [active : BOOLEAN, from : Agents \cup {NoAgent}, live : BOOLEAN, list : Seq(Agents),
         next : Nat \ {0}, delivered : BOOLEAN, tried : Seq(Agents), stayed : SUBSET Agents]

NotSending == [step |-> "none", to |-> NoAgent, queued |-> FALSE, reply |-> "none"]
NoJob == [active |-> FALSE, from |-> NoAgent, live |-> FALSE, list |-> <<>>, next |-> 1,
          delivered |-> FALSE, tried |-> <<>>, stayed |-> {}]

Subscribers(s) == IF job[s].live THEN room ELSE job[s].list
Members == {room[i] : i \in DOMAIN room}

-----------------------------------------------------------------------------
Init ==
  /\ inbox = <<>>
  /\ handlers = {}
  /\ room = <<>>
  /\ cb = Breaker!NewBreaker
  /\ caller = [s \in Senders |-> "idle"]
  /\ sending = [s \in Senders |-> NotSending]
  /\ job = [s \in Senders |-> NoJob]

-----------------------------------------------------------------------------
(* Agents and rooms.                                                       *)

\* A new inbox comes with an empty list of handlers.
RegisterAgent(a) ==
  /\ a \notin DOMAIN inbox
  /\ inbox' = [b \in DOMAIN inbox \cup {a} |-> IF b = a THEN 0 ELSE inbox[b]]
  /\ handlers' = handlers \ {a}
  /\ UNCHANGED <<room, cb, caller, sending, job>>

UnregisterAgent(a) ==
  /\ a \in DOMAIN inbox
  /\ inbox' = [b \in DOMAIN inbox \ {a} |-> inbox[b]]
  /\ handlers' = handlers \ {a}
  /\ UNCHANGED <<room, cb, caller, sending, job>>

Subscribe(a) ==
  /\ a \in Subscribing
  /\ handlers' = handlers \cup {a}
  /\ UNCHANGED <<inbox, room, cb, caller, sending, job>>

JoinRoom(a) ==
  /\ a \notin Members
  /\ room' = Append(room, a)
  /\ UNCHANGED <<busVars, cb, caller, sending, job>>

\* The list without an agent, which is in it once or not at all.
Without(list, a) ==
  IF \A k \in DOMAIN list : list[k] # a THEN list
  ELSE LET at == CHOOSE k \in DOMAIN list : list[k] = a
       IN [k \in 1 .. (Len(list) - 1) |-> IF k < at THEN list[k] ELSE list[k + 1]]

\* (mutant: the agent is removed from the list in place)
LeaveRoomInPlace(a) ==
  /\ a \in Members
  /\ room' = Without(room, a)
  /\ job' = [s \in Senders |->
               IF job[s].live THEN [job[s] EXCEPT !.stayed = @ \ {a}] ELSE job[s]]
  /\ UNCHANGED <<busVars, cb, caller, sending>>

\* The room gets a new list, even if the agent is not in it: the broadcasts under way
\* keep the old one.
LeaveRoom(a) ==
  /\ room' = Without(room, a)
  /\ job' = [s \in Senders |->
               IF job[s].live
               THEN [job[s] EXCEPT !.live = FALSE, !.list = room, !.stayed = @ \ {a}]
               ELSE [job[s] EXCEPT !.stayed = @ \ {a}]]
  /\ UNCHANGED <<busVars, cb, caller, sending>>

Receive(a) ==
  /\ a \in DOMAIN inbox /\ inbox[a] > 0
  /\ inbox' = [inbox EXCEPT ![a] = @ - 1]
  /\ UNCHANGED <<handlers, room, cb, caller, sending, job>>

-----------------------------------------------------------------------------
(* send                                                                    *)

\* (mutant: the breaker is not asked)
AttemptUnguarded(s, a) ==
  /\ caller' = [caller EXCEPT ![s] = "call"]
  /\ sending' = [sending EXCEPT ![s] = [step |-> "put", to |-> a,
                                        queued |-> FALSE, reply |-> "none"]]
  /\ UNCHANGED cb

\* breaker.execute: the breaker lets the send through to a task of its own, or
\* answers with a dict.
Attempt(s, a) ==
  LET b == Breaker!Read(cb)
      admitted == Breaker!Admits(b)
  IN /\ cb' = b
     /\ caller' = [caller EXCEPT ![s] = IF ~admitted THEN @
                                        ELSE IF b.state = "closed" THEN "call" ELSE "probe"]
     /\ sending' = [sending EXCEPT ![s] =
                      [step |-> IF admitted THEN "put" ELSE "none", to |-> a, queued |-> FALSE,
                       reply |-> IF admitted THEN "none" ELSE "dict"]]

Idle(s) == sending[s].step = "none" /\ ~job[s].active

Send(s, a) ==
  /\ Idle(s)
  /\ Attempt(s, a)
  /\ UNCHANGED <<busVars, room, job>>

HasRoom(a) == a \in DOMAIN inbox /\ inbox[a] < MaxQueueSize

\* _do_send: into the inbox and on to the handlers.  Without an inbox, or with a
\* full one, False is returned, which the breaker counts as a success.
Put(s) ==
  LET to == sending[s].to IN
  /\ sending[s].step = "put"
  /\ \/ /\ HasRoom(to)
        /\ inbox' = [inbox EXCEPT ![to] = @ + 1]
        /\ sending' = [sending EXCEPT ![s].queued = TRUE,
                                      ![s].step = IF to \in handlers THEN "handlers" ELSE "answer"]
     \/ /\ ~HasRoom(to)
        /\ sending' = [sending EXCEPT ![s].step = "answer"]
        /\ UNCHANGED inbox
  /\ UNCHANGED <<handlers, room, cb, caller, job>>

\* The handlers return, or raise and are logged.
HandlersDone(s) ==
  /\ sending[s].step = "handlers"
  /\ sending' = [sending EXCEPT ![s].step = "answer"]
  /\ UNCHANGED <<busVars, room, cb, caller, job>>

\* What a send answers a broadcast with counts as delivered unless it is False.
Reply(s, reply) ==
  /\ sending' = [sending EXCEPT ![s] = [NotSending EXCEPT !.queued = sending[s].queued,
                                                         !.reply = reply]]
  /\ job' = [job EXCEPT ![s].delivered = @ \/ (job[s].active /\ reply # "false")]
  /\ caller' = [caller EXCEPT ![s] = "idle"]

Answer(s) ==
  /\ sending[s].step = "answer"
  /\ cb' = Breaker!RecordSuccess(cb)
  /\ Reply(s, IF sending[s].queued THEN "true" ELSE "false")
  /\ UNCHANGED <<busVars, room>>

\* The handlers take longer than the breaker's timeout.  The message stays queued.
SendTimesOut(s) ==
  /\ sending[s].step = "handlers"
  /\ cb' = Breaker!Read(Breaker!RecordFailure(cb))
  /\ Reply(s, "dict")
  /\ UNCHANGED <<busVars, room>>

\* The sender is cancelled: the send and the broadcast end, nothing is recorded.
CancelSender(s) ==
  /\ sending[s].step \in {"put", "handlers"}
  /\ sending' = [sending EXCEPT ![s] = NotSending]
  /\ job' = [job EXCEPT ![s] = NoJob]
  /\ caller' = [caller EXCEPT ![s] = "idle"]
  /\ UNCHANGED <<busVars, room, cb>>

-----------------------------------------------------------------------------
(* broadcast                                                               *)

\* Without subscribers broadcast returns False at once.
StartBroadcast(s, a) ==
  /\ Idle(s) /\ room # <<>>
  /\ job' = [job EXCEPT ![s] = [active |-> TRUE, from |-> a, live |-> TRUE, list |-> <<>>,
                                next |-> 1, delivered |-> FALSE, tried |-> <<>>,
                                stayed |-> Members]]
  /\ UNCHANGED <<busVars, room, cb, caller, sending>>

\* The loop of _do_broadcast.  Up to the next admitted send it does not suspend;
\* taking it one subscriber at a time only adds interleavings.
NextSubscriber(s) ==
  LET a == Subscribers(s)[job[s].next] IN
  /\ job[s].active /\ sending[s].step = "none"
  /\ job[s].next =< Len(Subscribers(s))
  /\ \/ /\ a = job[s].from
        /\ job' = [job EXCEPT ![s].next = @ + 1]
        /\ UNCHANGED <<cb, caller, sending>>
     \/ /\ a # job[s].from
        /\ Attempt(s, a)
        /\ job' = [job EXCEPT ![s].next = @ + 1, ![s].tried = Append(@, a),
                              ![s].delivered = @ \/ sending'[s].reply = "dict"]
  /\ UNCHANGED <<busVars, room>>

EndBroadcast(s) ==
  /\ job[s].active /\ sending[s].step = "none"
  /\ job[s].next > Len(Subscribers(s))
  /\ job' = [job EXCEPT ![s] = NoJob]
  /\ UNCHANGED <<busVars, room, cb, caller, sending>>

-----------------------------------------------------------------------------
\* The breaker's recovery_timeout passes.
TimeoutElapses ==
  /\ cb.state = "open" /\ ~cb.elapsed
  /\ cb' = [cb EXCEPT !.elapsed = TRUE]
  /\ UNCHANGED <<busVars, room, caller, sending, job>>

\* health_check reads the breaker's state.
HealthCheck == cb' = Breaker!Read(cb) /\ UNCHANGED <<busVars, room, caller, sending, job>>

\* What the event loop runs of a sender when it is ready.
SenderStep(s) == Put(s) \/ Answer(s) \/ NextSubscriber(s) \/ EndBroadcast(s)

Next ==
  \/ \E a \in Agents : \/ RegisterAgent(a) \/ UnregisterAgent(a) \/ Subscribe(a)
                       \/ JoinRoom(a) \/ LeaveRoom(a) \/ Receive(a)
  \/ \E s \in Senders : \/ SenderStep(s) \/ HandlersDone(s) \/ SendTimesOut(s)
                        \/ CancelSender(s)
                        \/ \E a \in Agents : Send(s, a)
  \/ \E s \in Broadcasting, a \in Agents : StartBroadcast(s, a)
  \/ TimeoutElapses \/ HealthCheck

Spec == Init /\ [][Next]_vars

\* The event loop runs a sender that is ready, and wait_for ends slow handlers.
\* Handlers need never return.
FairSpec ==
  Spec /\ \A s \in Senders : WF_vars(SenderStep(s)) /\ WF_vars(SendTimesOut(s))

-----------------------------------------------------------------------------
(* Properties.                                                             *)

\* The variables keep their types, and an inbox its size.
TypeOK ==
  /\ DOMAIN inbox \subseteq Agents
  /\ \A a \in DOMAIN inbox : inbox[a] \in 0 .. MaxQueueSize
  /\ handlers \subseteq Subscribing
  /\ room \in Seq(Agents)
  /\ cb \in Breaker!Breakers
  /\ caller \in [Senders -> {"idle", "call", "probe"}]
  /\ sending \in [Senders -> Sendings]
  /\ job \in [Senders -> Jobs]

\* The bus uses its breaker as module CircuitBreaker describes: every send
\* enters through an admission and leaves with one recorded result, or with
\* none when it is cancelled.
ImplementsBreaker == Breaker!Spec

\* A broadcast reaches for every agent that was subscribed from its start to its
\* end, and for none twice, though agents join and leave between its sends.
BroadcastCoversRoom ==
  \A s \in Senders :
    LET tried == job[s].tried IN
    /\ \A i, j \in DOMAIN tried : tried[i] = tried[j] => i = j
    /\ job[s].active /\ job[s].next > Len(Subscribers(s)) =>
         job[s].stayed \ {job[s].from} \subseteq {tried[i] : i \in DOMAIN tried}

=============================================================================
