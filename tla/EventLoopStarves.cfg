CONSTANTS
  MaxTools = 2
  MaxProgress = 0
  Kinds <- EditThenMissing
  Stops = {}
SPECIFICATION FairSpec
PROPERTIES CollectReturns
CHECK_DEADLOCK FALSE
