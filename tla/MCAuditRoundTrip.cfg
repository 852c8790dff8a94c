CONSTANTS
  Other = Other
  Table <- SmallTable
  ConfigOk <- SmallConfigOk
  InvFreq <- SmallInvFreq
  ModelOk <- SmallModelOk
  Utf8 <- SmallUtf8
  Encodes <- SmallEncodes
  Encoding <- SmallEncoding
  Decoding <- SmallDecoding
  Pinned <- SmallPinned
  Artifacts <- MCArtifacts
  Requests <- ZeroRequests
  Values <- MCValues
  Configs <- MCConfigs
  Tokenizers <- MCTokenizers
  MaxEdits = 0
SPECIFICATION Spec
INVARIANT
  RenderedParses
CHECK_DEADLOCK FALSE
