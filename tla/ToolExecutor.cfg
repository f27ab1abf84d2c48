CONSTANTS
  MaxTools = 4
  MaxProgress = 1
  Kinds <- Various
  Stops = {"interrupt", "reject", "discard"}
SPECIFICATION FairSpec
INVARIANTS ExclusiveAlone ResultForEach ExclusiveYieldedFirst InterruptibleIsAccurate
PROPERTIES ImplementsAnswers CollectReturnsElse
CHECK_DEADLOCK FALSE
