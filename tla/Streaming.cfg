CONSTANTS
  s1 = s1
  x1 = x1
  x2 = x2
  Tools = {s1, x1, x2}
  Safe = {s1}
  Unknown = {}
  MaxConcurrent = 1
  AbortSources = {"tool", "parent", "discard"}
  Collectors = {"stream", "wait"}
  LoopStarts = {TRUE, FALSE}
SPECIFICATION FairSpec
INVARIANTS ExclusivesApart
PROPERTIES AbortStopsCalls ExclusivesInOrder ImplementsLifecycle CollectorReturns
CHECK_DEADLOCK FALSE
