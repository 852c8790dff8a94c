SPECIFICATION Spec
CONSTANTS
  Single <- MCSingle
  Double <- MCDouble
  Programs = {"cis2_verify"}
  Isas = {"x86_64", "aarch64"}
  TinyFactor <- MCTinyFactor
  ExpMax <- MCExpMax
  ExpMin <- MCExpMin
  EXP_LOG2E <- MCLog2e
  EXP_C1 <- MCC1
  EXP_C2 <- MCC2
  EXP_P <- MCExpP
  PI_2_F64 <- MCPi2
  SIN_C <- MCSinC
  COS_C <- MCCosC
  LOG_SQRTHF <- MCSqrtHf
  LOG_Q1 <- MCC2
  LOG_Q2 <- MCC1
  LOG_P <- MCLogP
  Codes = {"rust", "c", "crate"}
  MaxLength = 136
  Cuts <- MCCuts
  Exps <- MCExps
  Kinds = {"bar"}
  Records = {"record"}
  Forged = "forged"
  MaxLines = 1
  MaxEdited = 0
  Float64 <- MCFloat64
  Worth <- MCWorth
  MAX_DEPTH = 2
  MaxSigDigits = 3
  MaxPower = 3
  MaxExponent = 10
  MaxU64 = 199
  JSON_MAX_DEPTH = 4
  NumBuf = 7
  Alphabets = {}
INVARIANTS
  SelfTestSeesDaz
CHECK_DEADLOCK FALSE
