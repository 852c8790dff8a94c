CONSTANTS
  Vectors = 2
  Capacity = 2
SPECIFICATION FairSpec
INVARIANTS
  TypeOK
  PassIsEarned
  ConformingFailsInGapOnly
  OneAtATime
PROPERTY
  RunEndsAfterHelpers
CHECK_DEADLOCK FALSE
