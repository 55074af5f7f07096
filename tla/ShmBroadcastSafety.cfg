CONSTANTS
  NReader = 3
  NLocal = 2
  Chunks = 2
  HighWater = 4
  MaxSent = 4
  Faults <- Tolerated
SPECIFICATION Spec
INVARIANTS
  TypeOK
  WriterAlone
  HandshakeFirst
  OverflowBounded
PROPERTIES
  ImplementsBroadcast
CHECK_DEADLOCK FALSE
