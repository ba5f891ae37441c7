CONSTANTS
  BLOCK = 2
  FF = FF
  None = None
  FieldValues = 32768
  Images <- MCImages
  Ends <- MCEnds
SPECIFICATION Spec
INVARIANTS
  MeLockedOut
CHECK_DEADLOCK FALSE
