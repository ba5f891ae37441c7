CONSTANTS
  BLOCK = 2
  FF = FF
  None = None
  FieldValues = 32768
  Images <- MCImages
  Ends <- MCEnds
SPECIFICATION Spec
INVARIANTS
  VersionPresent
CHECK_DEADLOCK FALSE
