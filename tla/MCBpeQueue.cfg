CONSTANTS
  Char <- Chars
  Files <- MCFiles
  Words <- MCWords
  Between = "|"
  KeyMax <- MCKeyMax
  LeftMax <- MCLeftMax
SPECIFICATION PairSpec
INVARIANTS
  TypeOK
  ListSound
  QueueComplete
  ValidIsCurrent
  SameIds
PROPERTIES
  NeverRequeued
  ImplementsMerge
  Terminates
CHECK_DEADLOCK FALSE
