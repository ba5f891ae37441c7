CONSTANTS
  BLOCK = 2
  FF = FF
  None = None
  FileLen = 20
  ME <- MCME
  Firmwares <- MCFirmwares
  MIN_FTPR_OFFSET = 2
  ROUND = 2
  HEADERS = 0
  PROBE = 1
  LLUT_HEAD = 1
  OffsetValues = 32
  WORD = 64
SPECIFICATION Spec
INVARIANTS
  TypeOK
  UnremovableSurvives
  RemovedModulesGone
  LlutFollows
PROPERTY ImplementsPass
CHECK_DEADLOCK FALSE
