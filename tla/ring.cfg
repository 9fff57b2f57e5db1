SPECIFICATION FairSpec
CONSTANTS
  WqSize = 2
  Modes = {"dedicated", "shared"}
  NumDescs = 5
  MaxBatch = 2
  NumBatches = 2
  MaxDepth = 1
INVARIANTS
  TypeOK
  RingAccounting
  NoLostDescriptor
PROPERTIES
  NoWriteUnderDma
  ExecutesOnce
  EveryDescExecuted
CHECK_DEADLOCK FALSE
