SPECIFICATION FairSpec
CONSTANTS
  WqSize = 2
  Modes = {"dedicated", "shared"}
  NumDescs = 6
  MaxBatch = 2
  NumBatches = 2
INVARIANTS
  TypeOK
  InflightIsInFlightSlots
  InFlightIsReclaimable
  DrainLeavesNoBatch
PROPERTIES
  NoWriteUnderDma
  ExecutesOnce
  EveryDescExecuted
  DrainReturns
CHECK_DEADLOCK FALSE
