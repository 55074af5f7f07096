CONSTANTS
  Ranks = {0, 1, 2}
  First = 0
  Width = 16
  Epochs = 6
  MaxCalls = 6
  Plans <- SharedPlans
SPECIFICATION Spec
PROPERTIES
  ImplementsAllReduce
CHECK_DEADLOCK FALSE
