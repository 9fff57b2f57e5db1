SPECIFICATION Spec
CONSTANTS
  WqSize = 2
  Modes = {"shared"}
  NumDescs = 6
  MaxBatch = 2
  NumBatches = 2
  MaxDepth = 2
INVARIANT
  NoLostDescriptor
CHECK_DEADLOCK FALSE
