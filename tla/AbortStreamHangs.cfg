CONSTANTS
  s1 = s1
  s2 = s2
  Tools = {s1, s2}
  Safe = {s1, s2}
  Unknown = {}
  MaxConcurrent = 2
  AbortSources = {"tool"}
  Collectors = {"stream"}
  LoopStarts = {TRUE}
SPECIFICATION FairSpec
PROPERTIES StreamEnds
CHECK_DEADLOCK FALSE
