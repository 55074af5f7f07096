CONSTANTS
  b1 = b1
  b2 = b2
  b3 = b3
  b4 = b4
  None = None
  Builds = {b1, b2, b3}
  Proc <- EachItsOwnProcess
  Overlap <- Never
  Rebuild <- SomeRebuild
  Faults = {"crash", "slowMark"}
SPECIFICATION Spec
INVARIANTS
  TypeOK
  SnapshotIsLatest
  SurvivorsSucceed
CHECK_DEADLOCK FALSE
