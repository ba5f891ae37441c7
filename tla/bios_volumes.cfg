CONSTANTS
  None = None
  Roms <- MCRoms
  Bufs <- MCBufs
  Images <- MCImages
  Markers = {"AMI", "Insyde"}
  MAX_DEPTH = 2
  WORD = 4096
SPECIFICATION Spec
INVARIANT
  EveryVolumeWalked
CHECK_DEADLOCK FALSE
