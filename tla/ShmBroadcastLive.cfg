CONSTANTS
  NReader = 3
  NLocal = 2
  Chunks = 2
  HighWater = 4
  MaxSent = 3
  Faults <- Retried
SPECIFICATION FairSpec
PROPERTIES
  EveryBroadcastReturns
