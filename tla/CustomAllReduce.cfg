CONSTANTS
  Ranks = {0, 1, 2}
  First = 0
  Width = 16
  Epochs = 6
  MaxCalls = 6
  Plans <- SafePlans
SPECIFICATION FairSpec
INVARIANTS
  TypeOK
  BarriersHold
PROPERTIES
  ImplementsAllReduce
  EveryCallFinishes
CHECK_DEADLOCK FALSE
