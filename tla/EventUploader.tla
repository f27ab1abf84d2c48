--------------------------- MODULE EventUploader ---------------------------
(***************************************************************************)
(* SerialBatchEventUploader (src/claude/cli/transports): events are queued *)
(* and sent in batches, one request at a time, again after a failure, with *)
(* callers held back while the queue is full.                              *)
(*                                                                         *)
(* Callers need not wait for one another, or at all.  Each step is what    *)
(* runs between two awaits.  Promises that were resolved are continued in  *)
(* the order in which they were resolved.                                  *)
(***************************************************************************)
EXTENDS Integers, Sequences, FiniteSets

CONSTANTS
  MaxCalls,       \* bound on the calls of enqueue and flush
  MaxEvents,      \* bound on the events of one call
  maxBatchSize,
  maxQueueSize,
  MaxLost,        \* bound on the requests that were received although they failed
  Configs         \* settings of the uploader: records of ConfigType

\* Whether batches are bounded in bytes too, so that their events are serialized
\* one by one; maxConsecutiveFailures, or 0 if it is undefined; whether the caller
\* may pass events that cannot be serialized; and whether its send may resolve
\* although it delivered nothing.
ConfigType == [bytes : BOOLEAN, giveUp : Nat, poison : BOOLEAN, silent : BOOLEAN]

ASSUME BoundsAssumption ==
  /\ MaxCalls \in Nat /\ MaxEvents \in Nat \ {0} /\ MaxLost \in Nat
  /\ maxBatchSize \in Nat \ {0} /\ maxQueueSize \in Nat \ {0}
ASSUME ConfigsAssumption == Configs \subseteq ConfigType

Calls == 1..MaxCalls

VARIABLES
  config,
  call,      \* the calls so far: records of CallType
  pending,   \* the queue of events, numbered as they are accepted
  batch,     \* the batch that is being sent
  draining,  \* where the drain loop is: "no", "sending" or "sleeping"
  failures,  \* consecutive failures, as far as they are counted against giveUp
  closed,
  backpressureResolvers,
  flushResolvers,
  resumed,   \* the calls of enqueue whose promise was resolved
  \* the server
  server,    \* the events it received
  lost,      \* requests it received whose answer was lost
  \* for the properties
  count,     \* events accepted
  bad,       \* those that cannot be serialized
  dropped,   \* those of batches that were given up
  refused    \* those of batches whose send resolved undelivered

CallType ==
  [op : {"enqueue", "flush"}, size : 1..MaxEvents, good : BOOLEAN,
   status : {"waiting", "returned"}, mark : Nat, late : BOOLEAN]

queueVars == <<pending, batch, draining, failures, flushResolvers>>
serverVars == <<server, lost>>
ghostVars == <<count, bad, dropped, refused>>
vars == <<config, call, queueVars, closed, backpressureResolvers, resumed, serverVars,
          ghostVars>>

Init ==
  /\ config \in Configs
  /\ call = <<>>
  /\ pending = <<>> /\ batch = <<>> /\ draining = "no" /\ failures = 0
  /\ closed = FALSE
  /\ backpressureResolvers = <<>> /\ flushResolvers = {} /\ resumed = <<>>
  /\ server = <<>> /\ lost = 0
  /\ count = 0 /\ bad = {} /\ dropped = {} /\ refused = {}

\* takeBatch: the positions, among the first k, of the events that are taken.  Those
\* that cannot be serialized are dropped as they are met.
Taken(events, k, notGood) == {i \in 1..k : ~config.bytes \/ events[i] \notin notGood}

\* How many events leave the front of the queue.
Cuts(events, notGood) ==
  LET size(k) == Cardinality(Taken(events, k, notGood)) IN
  IF ~config.bytes
    THEN {IF Len(events) < maxBatchSize THEN Len(events) ELSE maxBatchSize}
    ELSE {k \in 0..Len(events) :
            /\ size(k) =< maxBatchSize
            /\ \/ k = Len(events) /\ size(k) < maxBatchSize
               \/ size(k) = maxBatchSize /\ events[k] \notin notGood
               \/ k < Len(events) /\ events[k + 1] \notin notGood /\ size(k) > 0}

\* The positions in ascending order.
Enumerations(positions) ==
  {p \in [1..Cardinality(positions) -> positions] :
     \A m, n \in DOMAIN p : m < n => p[m] < p[n]}

\* The calls of waiting flushes return.
Return(calls, cs) ==
  [c \in DOMAIN calls |-> IF c \in cs THEN [calls[c] EXCEPT !.status = "returned"]
                          ELSE calls[c]]

\* drain: one pass of its loop, up to the next request or to its end.  calls,
\* notGood and isClosed are what the step makes of call, bad and closed.
Drain(events, calls, notGood, isClosed) ==
  LET Ends ==
        /\ draining' = "no" /\ batch' = <<>>
        /\ IF pending' = <<>>
             THEN call' = Return(calls, flushResolvers) /\ flushResolvers' = {}
             ELSE call' = calls /\ UNCHANGED flushResolvers
  IN IF events = <<>> \/ isClosed
       THEN pending' = events /\ Ends
       ELSE \E k \in Cuts(events, notGood) :
              /\ pending' = SubSeq(events, k + 1, Len(events))
              /\ IF Taken(events, k, notGood) = {}
                   THEN Ends
                   ELSE /\ \E p \in Enumerations(Taken(events, k, notGood)) :
                             batch' = [n \in DOMAIN p |-> events[p[n]]]
                        /\ draining' = "sending"
                        /\ call' = calls
                        /\ UNCHANGED flushResolvers

\* The events of call c are accepted, which starts the drain loop if it does not
\* run.
\* (mutant: the loop is left to a flush to start)
PushLazily(c, calls) ==
  LET new == [k \in 1..calls[c].size |-> count + k] IN
  /\ count' = count + calls[c].size
  /\ bad' = IF calls[c].good THEN bad ELSE bad \cup {count + k : k \in DOMAIN new}
  /\ pending' = pending \o new
  /\ call' = Return(calls, {c})
  /\ UNCHANGED <<batch, draining, failures, flushResolvers>>

Push(c, calls) ==
  LET new == [k \in 1..calls[c].size |-> count + k]
      notGood == IF calls[c].good THEN bad ELSE bad \cup {count + k : k \in DOMAIN new}
      done == Return(calls, {c})
  IN /\ count' = count + calls[c].size
     /\ bad' = notGood
     /\ IF draining = "no"
          THEN failures' = 0 /\ Drain(pending \o new, done, notGood, closed)
          ELSE /\ pending' = pending \o new
               /\ call' = done
               /\ UNCHANGED <<batch, draining, failures, flushResolvers>>

Fits(n) == Len(pending) + n =< maxQueueSize

\* enqueue.
Enqueue(n, good) ==
  LET c == Len(call) + 1
      calls == Append(call, [op |-> "enqueue", size |-> n, good |-> good,
                             status |-> "waiting", mark |-> 0, late |-> closed])
  IN
  /\ c \in Calls
  /\ config.poison \/ good
  /\ \/ /\ closed
        /\ call' = Return(calls, {c})
        /\ UNCHANGED <<queueVars, backpressureResolvers, ghostVars>>
     \/ /\ ~closed /\ ~Fits(n)
        /\ call' = calls
        /\ backpressureResolvers' = Append(backpressureResolvers, c)
        /\ UNCHANGED <<queueVars, ghostVars>>
     \/ /\ ~closed /\ Fits(n)
        /\ Push(c, calls)
        /\ UNCHANGED <<backpressureResolvers, dropped, refused>>
  /\ UNCHANGED <<config, closed, resumed, serverVars>>

\* A call of enqueue that was held back looks again.
Resume ==
  LET c == Head(resumed) IN
  /\ resumed # <<>>
  /\ resumed' = Tail(resumed)
  /\ \/ /\ closed
        /\ call' = Return(call, {c})
        /\ UNCHANGED <<queueVars, backpressureResolvers, ghostVars>>
     \/ /\ ~closed /\ ~Fits(call[c].size)
        /\ backpressureResolvers' = Append(backpressureResolvers, c)
        /\ UNCHANGED <<call, queueVars, ghostVars>>
     \/ /\ ~closed /\ Fits(call[c].size)
        /\ Push(c, call)
        /\ UNCHANGED <<backpressureResolvers, dropped, refused>>
  /\ UNCHANGED <<config, closed, serverVars>>

\* flush.  The loop runs whenever there is something to send: it need not be
\* started, except that a closed one is not.
\* (mutant: the batch that is being sent is not waited for)
FlushQueueOnly ==
  LET c == Len(call) + 1
      done == pending = <<>>
  IN
  /\ c \in Calls
  /\ call' = Append(call, [op |-> "flush", size |-> 1, good |-> TRUE,
                           status |-> IF done THEN "returned" ELSE "waiting",
                           mark |-> count, late |-> closed])
  /\ flushResolvers' = IF done THEN flushResolvers ELSE flushResolvers \cup {c}
  /\ UNCHANGED <<config, pending, batch, draining, failures, closed,
                 backpressureResolvers, resumed, serverVars, ghostVars>>

Flush ==
  LET c == Len(call) + 1
      done == pending = <<>> /\ draining = "no"
  IN
  /\ c \in Calls
  /\ call' = Append(call, [op |-> "flush", size |-> 1, good |-> TRUE,
                           status |-> IF done THEN "returned" ELSE "waiting",
                           mark |-> count, late |-> closed])
  /\ flushResolvers' = IF done THEN flushResolvers ELSE flushResolvers \cup {c}
  /\ UNCHANGED <<config, pending, batch, draining, failures, closed,
                 backpressureResolvers, resumed, serverVars, ghostVars>>

\* The callers that are held back may look again.
ReleaseBackpressure ==
  /\ resumed' = resumed \o backpressureResolvers
  /\ backpressureResolvers' = <<>>

Sendable == config.bytes \/ \A k \in DOMAIN batch : batch[k] \notin bad

\* The request succeeds.
SendSucceeds ==
  /\ draining = "sending" /\ Sendable
  /\ server' = server \o batch
  /\ failures' = 0
  /\ ReleaseBackpressure
  /\ Drain(pending, call, bad, closed)
  /\ UNCHANGED <<config, closed, lost, count, bad, dropped, refused>>

\* It resolves although nothing was received: there is no session token, or the
\* server answers that it will never accept the batch.  The uploader cannot tell
\* this from success.
SendRefused ==
  /\ draining = "sending" /\ config.silent
  /\ refused' = refused \cup {batch[k] : k \in DOMAIN batch}
  /\ failures' = 0
  /\ ReleaseBackpressure
  /\ Drain(pending, call, bad, closed)
  /\ UNCHANGED <<config, closed, serverVars, count, bad, dropped>>

\* It fails, or its answer is lost.  The batch is put back in front of the queue,
\* unless it has failed often enough: then the next batch is sent.
\* (mutant: the batch is put back behind the events that came meanwhile)
SendFailsBehind ==
  /\ draining = "sending"
  /\ \/ UNCHANGED serverVars
     \/ Sendable /\ lost < MaxLost /\ lost' = lost + 1 /\ server' = server \o batch
  /\ IF config.giveUp > 0 /\ failures + 1 >= config.giveUp
       THEN /\ dropped' = dropped \cup {batch[k] : k \in DOMAIN batch}
            /\ failures' = 0
            /\ ReleaseBackpressure
            /\ Drain(pending, call, bad, closed)
       ELSE /\ failures' = IF config.giveUp > 0 THEN failures + 1 ELSE 0
            /\ pending' = pending \o batch
            /\ batch' = <<>> /\ draining' = "sleeping"
            /\ UNCHANGED <<call, flushResolvers, backpressureResolvers, resumed, dropped>>
  /\ UNCHANGED <<config, closed, count, bad, refused>>

SendFails ==
  /\ draining = "sending"
  /\ \/ UNCHANGED serverVars
     \/ Sendable /\ lost < MaxLost /\ lost' = lost + 1 /\ server' = server \o batch
  /\ IF config.giveUp > 0 /\ failures + 1 >= config.giveUp
       THEN /\ dropped' = dropped \cup {batch[k] : k \in DOMAIN batch}
            /\ failures' = 0
            /\ ReleaseBackpressure
            /\ Drain(pending, call, bad, closed)
       ELSE /\ failures' = IF config.giveUp > 0 THEN failures + 1 ELSE 0
            /\ pending' = batch \o pending
            /\ batch' = <<>> /\ draining' = "sleeping"
            /\ UNCHANGED <<call, flushResolvers, backpressureResolvers, resumed, dropped>>
  /\ UNCHANGED <<config, closed, count, bad, refused>>

\* The delay before the next attempt is over, or cut short by close.
Retry ==
  /\ draining = "sleeping"
  /\ Drain(pending, call, bad, closed)
  /\ UNCHANGED <<config, failures, closed, backpressureResolvers, resumed, serverVars,
                 ghostVars>>

\* close: the queue is dropped, and everybody who waits is let go.
\* (mutant: those who wait for a flush are not)
CloseSilently ==
  /\ ~closed
  /\ closed' = TRUE
  /\ pending' = <<>>
  /\ ReleaseBackpressure
  /\ UNCHANGED <<config, call, batch, draining, failures, flushResolvers, serverVars,
                 ghostVars>>

Close ==
  /\ ~closed
  /\ closed' = TRUE
  /\ pending' = <<>>
  /\ ReleaseBackpressure
  /\ call' = Return(call, flushResolvers)
  /\ flushResolvers' = {}
  /\ UNCHANGED <<config, batch, draining, failures, serverVars, ghostVars>>

Next ==
  \/ \E n \in 1..MaxEvents, good \in BOOLEAN : Enqueue(n, good)
  \/ Resume \/ Flush
  \/ SendSucceeds \/ SendRefused \/ SendFails \/ Retry \/ Close

Spec == Init /\ [][Next]_vars

\* Requests and delays end, resolved promises are continued, and the server does
\* not fail for ever.
FairSpec ==
  /\ Spec
  /\ WF_vars(Resume) /\ WF_vars(Retry)
  /\ WF_vars(SendSucceeds \/ SendRefused \/ SendFails) /\ SF_vars(SendSucceeds)
-----------------------------------------------------------------------------
(* Properties.                                                             *)

Elements(s) == {s[k] : k \in DOMAIN s}

Waiting(op) == {c \in DOMAIN call : call[c].op = op /\ call[c].status = "waiting"}

\* Each enqueue that is held back waits for one promise, or is about to go on.
TypeOK ==
  /\ config \in Configs
  /\ Len(call) =< MaxCalls /\ Elements(call) \subseteq CallType
  /\ count \in 0..(MaxCalls * MaxEvents)
  /\ Elements(pending) \cup Elements(batch) \cup Elements(server) \cup bad \cup dropped
       \cup refused \subseteq 1..count
  /\ draining \in {"no", "sending", "sleeping"}
  /\ failures \in Nat /\ lost \in 0..MaxLost
  /\ closed \in BOOLEAN
  /\ flushResolvers \subseteq Waiting("flush")
  /\ Elements(backpressureResolvers \o resumed) = Waiting("enqueue")
  /\ Len(backpressureResolvers \o resumed) = Cardinality(Waiting("enqueue"))

\* Events do not stay in an open queue without a loop that sends them, nor does a
\* loop run without an event: "kicks drain if needed" never is.
NothingStranded ==
  /\ ~closed => (pending # <<>> => draining # "no")
  /\ draining = "sending" <=> batch # <<>>

\* "Block until all pending events have been sent": a flush that returns before the
\* uploader is closed tells that each event which was accepted before it was called
\* has met its end: it was received, given up with its batch, cannot be serialized,
\* or, where send may resolve undelivered, was in a batch whose send did.  A caller
\* that looks at droppedBatchCount sees the second of these, not the last.
FlushDelivers ==
  \A c \in DOMAIN call :
    call[c].op = "flush" /\ call[c].status = "returned" /\ ~closed =>
      1..call[c].mark \subseteq Elements(server) \cup dropped \cup bad
                                \cup (IF config.silent THEN refused ELSE {})

\* The server gets the events in the order in which they were accepted, each for
\* the first time before any later one, through failures, lost answers, batches
\* that are given up, and close.
Channel == INSTANCE EventChannel WITH queue <- batch \o pending
KeepsOrder == Channel!Spec

Returned(c) == call[c].status = "returned"

\* An enqueue needs a queue that can hold its events.  A flush that is called
\* after close may not return, and no call does behind an event that cannot be
\* serialized, if events are neither serialized one by one nor given up.
Excused(c) ==
  \/ call[c].op = "enqueue" /\ call[c].size > maxQueueSize
  \/ call[c].op = "flush" /\ call[c].late
  \/ bad # {} /\ ~config.bytes /\ config.giveUp = 0

\* "Resolves any blocked enqueue() and flush() callers": a call returns, whether
\* the server fails, the uploader is closed, or batches are given up.
CallsReturn ==
  \A c \in Calls :
    (c \in DOMAIN call) ~> (c \in DOMAIN call /\ (Returned(c) \/ Excused(c)))
=============================================================================
