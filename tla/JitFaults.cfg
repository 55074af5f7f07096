CONSTANTS
  b1 = b1
  b2 = b2
  b3 = b3
  b4 = b4
  None = None
  Builds = {b1, b2, b3, b4}
  Proc <- TwoProcesses
  Overlap <- Never
  Rebuild <- SomeRebuild
  Faults = {"crash", "generator", "compiler", "metadata", "rename"}
SPECIFICATION Spec
INVARIANTS
  SnapshotWhole
  SnapshotKept
  UnmarkedStagingWhole
CHECK_DEADLOCK FALSE
