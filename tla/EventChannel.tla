---------------------------- MODULE EventChannel ----------------------------
(***************************************************************************)
(* What an event uploader promises to those who read the session: events   *)
(* reach the server in the order in which they were accepted.  Some arrive *)
(* more than once, since an attempt whose answer is lost is repeated, and  *)
(* some never do, since they cannot be sent, are given up or are dropped   *)
(* when the uploader closes; but none arrives after a later one for the    *)
(* first time.                                                             *)
(***************************************************************************)
EXTENDS Integers, Sequences

VARIABLES
  count,   \* events accepted: they are 1..count
  queue,   \* those that may still be sent, in order
  server   \* what the server received, in order

channelVars == <<count, queue, server>>

Init == count = 0 /\ queue = <<>> /\ server = <<>>

Ascending(s) == \A i, j \in DOMAIN s : i < j => s[i] < s[j]

\* The queue then holds, in order, some of these events; the others are forgotten.
QueuedOf(events) ==
  /\ queue' \in Seq(events)
  /\ Ascending(queue')

Queued == {queue[k] : k \in DOMAIN queue}

\* Events are accepted.
Accept ==
  /\ count' \in Nat /\ count' >= count
  /\ QueuedOf(Queued \cup (count + 1)..count')
  /\ UNCHANGED server

\* The first k of the queue are received, perhaps none.  They are forgotten, if that is
\* known.
Receive(k) ==
  /\ server' = server \o SubSeq(queue, 1, k)
  /\ QueuedOf(Queued)
  /\ UNCHANGED count

Next == Accept \/ \E k \in 0..Len(queue) : Receive(k)

Spec == Init /\ [][Next]_channelVars

\* A later event is never received before the first time an earlier one is.
InOrder ==
  \A j \in DOMAIN server : \A i \in 1..(j - 1) :
    server[i] > server[j] => \E m \in 1..(i - 1) : server[m] = server[j]
=============================================================================
