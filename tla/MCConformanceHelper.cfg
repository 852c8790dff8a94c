CONSTANTS
  Vectors = 2
  Capacity = 2
SPECIFICATION FairSpec
PROPERTY
  RunEnds
CHECK_DEADLOCK FALSE
