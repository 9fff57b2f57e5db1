SPECIFICATION Spec
CONSTANTS
  WqSize = 2
  Modes = {"dedicated"}
  NumDescs = 5
  MaxBatch = 2
  NumBatches = 2
INVARIANT
  NoDrop
CHECK_DEADLOCK FALSE
