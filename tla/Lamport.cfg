CONSTANTS
  Ranks = {1, 2}
  Lanes = 2
  MaxRounds = 5
  Sizes <- AllSizes
SPECIFICATION FairSpec
INVARIANTS
  TypeOK
  ArrivedDataKept
PROPERTIES
  SlotsTakeTurns
  ImplementsAllReduce
  EveryRoundFinishes
CHECK_DEADLOCK FALSE
