CONSTANTS
  Variants <- AllVariants
  Token <- Tokens
  Prompts <- MCPrompts
  GenToks <- MCGenToks
  Layers <- MCLayers
  Embed <- MCEmbed
  Project <- MCProject
  Block <- MCBlock
  LmHead <- MCLmHead
SPECIFICATION Spec
INVARIANTS
  TypeOK
  CacheIsExact
  PicksFirstMaximum
  WithinCapacity
PROPERTIES
  ImplementsGreedy
CHECK_DEADLOCK FALSE
