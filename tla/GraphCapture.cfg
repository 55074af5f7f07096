CONSTANTS
  Ranks = {0, 1}
  MaxCaptures = 3
  MaxLength = 1
  LoneFailures = 1
SPECIFICATION FairSpec
INVARIANTS
  TypeOK
  SamePath
  RegisteredTogether
PROPERTIES
  EveryCaptureEnds
CHECK_DEADLOCK FALSE
