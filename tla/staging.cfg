SPECIFICATION FairSpec
CONSTANTS
  WqSize = 2
  Modes = {"dedicated", "shared"}
  NumDescs = 6
  MaxBatch = 3
INVARIANTS
  TypeOK
  NoDrop
  AwaitedBatchIsInDevice
PROPERTIES
  NoWriteUnderDma
  ExecutesOnce
  EveryDescExecuted
CHECK_DEADLOCK FALSE
