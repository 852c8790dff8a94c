CONSTANTS
  Other = Other
  Table <- SmallTable
  ConfigOk <- SmallConfigOk
  InvFreq <- SmallInvFreq
  ModelOk <- SmallModelOk
  Utf8 <- SmallUtf8
  Encodes <- SmallEncodes
  Encoding <- SmallEncoding
  Decoding <- SmallDecoding
  Pinned <- SmallPinned
  Artifacts <- MCArtifacts
  Requests <- MCRequests
  Values <- MCValues
  Configs <- MCConfigs
  Tokenizers <- MCTokenizers
  MaxEdits = 2
SPECIFICATION Spec
INVARIANTS
  TypeOK
  HonestPasses
  ResidualIsHonest
  AccusationsAreJust
  DisputeSettledByFiles
CHECK_DEADLOCK FALSE
