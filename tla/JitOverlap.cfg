CONSTANTS
  b1 = b1
  b2 = b2
  b3 = b3
  b4 = b4
  None = None
  Builds = {b1, b2, b3}
  Proc <- EachItsOwnProcess
  Overlap <- AfterStaging
  Rebuild <- NoRebuild
  Faults = {"crash", "rename", "rmtree", "metadata"}
SPECIFICATION Spec
INVARIANTS
  ArtifactIsOwnGeneration
  ReceiptHonest
CHECK_DEADLOCK FALSE
