CONSTANTS
  Float <- MCFloat
  MaxInt = 129032
  Zero = 0
  Unset = 55
  Add <- MCAdd
  Mul <- MCMul
  Div <- MCDiv
  Neg <- MCNeg
  Abs <- MCAbs
  Exceeds <- MCExceeds
  FromInt <- MCFromInt
  Lround <- MCLround
  Rsqrt <- MCRsqrt
  Ln <- MCLn
  Exp <- MCExp
  Silu <- MCSilu
  Cos <- MCCos
  Sin <- MCSin
  Checkpoints <- MCCheckpoints
  Texts <- MCTexts
SPECIFICATION Spec
INVARIANTS
  TypeOK
  ResidualsFollowFormula
  LogitsFollowFormula
  AcceptedByAll
CHECK_DEADLOCK FALSE
