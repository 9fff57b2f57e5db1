SPECIFICATION Spec
CONSTANTS
  WqSize = 2
  Modes = {"dedicated", "shared"}
  NumDescs = 5
  MaxBatch = 2
  NumBatches = 2
  MaxDepth = 2
  PageSlots = 4
INVARIANTS
  RingAccounting
  NoLostDescriptor
PROPERTIES
  NoWriteUnderDma
  ExecutesOnce
CHECK_DEADLOCK FALSE
