SPECIFICATION FairSpec
CONSTANTS
  MaxCalls = 3
  MaxEvents = 3
  maxBatchSize = 2
  maxQueueSize = 2
  MaxLost = 1
  Configs <- MCConfigs
INVARIANTS NothingStranded FlushDelivers
PROPERTIES KeepsOrder CallsReturn
CHECK_DEADLOCK FALSE
