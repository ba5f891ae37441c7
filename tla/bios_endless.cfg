CONSTANTS
  None = None
  Roms <- MCRoms
  Bufs <- MCBufs
  Images <- MCEndless
  Markers = {"AMI", "Insyde"}
  MAX_DEPTH = 2
  WORD = 4096
SPECIFICATION Spec
PROPERTY
  WalkReturns
CHECK_DEADLOCK FALSE
