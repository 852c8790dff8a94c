CONSTANTS
  Absent = Absent
  Unread = Unread
  Other = Other
  Table <- SmallTable
  ConfigOk <- SmallConfigOk
  InvFreq <- SmallInvFreq
  ModelOk <- SmallModelOk
  Utf8 <- SmallUtf8
  Encodes <- SmallEncodes
  Encoding <- SmallEncoding
  Decoding <- SmallDecoding
  Faulty <- SmallFaulty
  Words <- SmallWords
  Pinned <- SmallPinned
  Tasks <- MCTasks
  Disks <- MCDisks
  Contents <- MCContents
  MaxSwaps = 2
  MaxFaults = 2
SPECIFICATION Spec
INVARIANTS
  TypeOK
  PublishedIsRun
  VerdictIsTruth
  PassMeansPinned
CHECK_DEADLOCK FALSE
