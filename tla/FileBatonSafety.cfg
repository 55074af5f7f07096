CONSTANTS
  p1 = p1
  p2 = p2
  p3 = p3
  p4 = p4
  None = None
  Procs = {p1, p2, p3, p4}
  Host <- TwoHosts
  BuildAfterWait <- OneRebuilder
  Faults = {"crash", "stealCrash", "raise"}
SPECIFICATION Spec
INVARIANTS
  TypeOK
  MutualExclusion
  RemoteLockKept
  SkipMeansBuilt
PROPERTIES
  LiveLockKept
  ImplementsBaton
CHECK_DEADLOCK FALSE
