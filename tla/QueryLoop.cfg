CONSTANTS
  Configs <- Some
  Limits <- SomeLimits
  MaxTools = 2
  MaxTurns = 2
SPECIFICATION FairSpec
INVARIANTS NextRequestPaired CallsAnswered ErrorShownOnce RecoveriesBounded
PROPERTIES Terminates
CHECK_DEADLOCK FALSE
