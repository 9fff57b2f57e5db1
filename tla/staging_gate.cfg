SPECIFICATION FairSpec
CONSTANTS
  WqSize = 2
  Modes = {"dedicated"}
  NumDescs = 4
  MaxBatch = 2
PROPERTY
  BackpressureReleases
CHECK_DEADLOCK FALSE
