CONSTANTS
  BLOCK = 2
  FF = FF
  None = None
  FileLen = 17
  ME <- MCME
  Directories <- MCDirectories
  HEAD = 1
  ENTRY = 1
  COUNT_END = 1
  OffsetValues = 16
SPECIFICATION Spec
INVARIANTS
  TypeOK
  KeptSurvives
  StrippedModulesGone
  NothingBehindEnd
PROPERTY ImplementsPass
CHECK_DEADLOCK FALSE
