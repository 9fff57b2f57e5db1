SPECIFICATION FairSpec
CONSTANTS
  WqSize = 2
  Modes = {"dedicated", "shared"}
  NumOps = 4
  Kinds = {"copy", "schedule"}
  MaxFaults = 1
INVARIANTS
  TypeOK
  InflightAccounting
  NoDrop
  CompletedIsReleased
PROPERTY
  EveryOpCompletes
CHECK_DEADLOCK FALSE
