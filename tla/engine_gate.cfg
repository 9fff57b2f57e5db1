SPECIFICATION FairSpec
CONSTANTS
  WqSize = 1
  Modes = {"dedicated"}
  NumOps = 2
  Kinds = {"copy"}
  MaxFaults = 1
PROPERTY
  GateIsPassed
CHECK_DEADLOCK FALSE
