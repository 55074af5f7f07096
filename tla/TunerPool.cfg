CONSTANTS
  NumTasks = 4
  NumGpus = 2
  Kinds = {"fine", "kills", "hangs", "poisons"}
  MaxFaulty = 2
  Skewed = FALSE
SPECIFICATION FairSpec
INVARIANTS
  TypeOK
  GpuExclusive
  LossesBounded
PROPERTIES
  EveryTaskAnswered
CHECK_DEADLOCK FALSE
