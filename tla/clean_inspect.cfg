CONSTANTS
  BLOCK = 2
  FF = FF
  None = None
  FieldValues = 32768
  SbKeys = {"PK"}
  Images <- MCAllImages
  Ends <- MCEnds
  FitFiles <- MCFitFiles
  AmdFiles <- MCAmdFiles
  GbeFiles <- MCGbeFiles
SPECIFICATION MCSpec
INVARIANTS
  TypeOK
  SparedUntouched
  StrippedMeansSigned
  DisabledExactly
  TruncationKeepsRetained
  ExtractsAgree
  CheckAcceptsCleaned
  HardeningSeen
  BootGuardReported
  EntriesMapped
  BanksReadable
CHECK_DEADLOCK FALSE
