CONSTANTS
  p1 = p1
  p2 = p2
  p3 = p3
  p4 = p4
  None = None
  Procs = {p1, p2, p3}
  Host <- OneHost
  BuildAfterWait <- OneRebuilder
  Faults = {"crash", "raise", "stampFails", "stall", "probeExit"}
SPECIFICATION FairSpec
PROPERTIES
  EveryLiveCallReturns
CHECK_DEADLOCK FALSE
