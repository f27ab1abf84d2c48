CONSTANTS
  a1 = a1
  a2 = a2
  s1 = s1
  Agents = {a1, a2}
  NoAgent = NoAgent
  Subscribing = {a1}
  Senders = {s1}
  Broadcasting = {s1}
  MaxQueueSize = 1
  FailureThreshold = 1
  SuccessThreshold = 1
  MaxHalfOpen = 1
SPECIFICATION FairSpec
INVARIANTS BroadcastCoversRoom
PROPERTIES ImplementsBreaker
