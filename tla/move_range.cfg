CONSTANTS
  BLOCK = 2
  FF = FF
  FileLen = 9
  ME <- MCME
  Args <- MCArgs
SPECIFICATION Spec
INVARIANTS
  TypeOK
  MovedIffSafe
  OutsideUntouched
PROPERTY
  ImplementsMemmove
CHECK_DEADLOCK FALSE
