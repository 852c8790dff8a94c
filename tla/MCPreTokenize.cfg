CONSTANTS
  Letter <- MCLetter
  Number <- MCNumber
  Blank <- MCBlank
  Texts <- MCTexts
  MaxSpans = 4
SPECIFICATION Spec
INVARIANTS
  TypeOK
  Tiles
  FollowsRegex
  PlainAgrees
CHECK_DEADLOCK FALSE
