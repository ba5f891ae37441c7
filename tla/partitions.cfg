CONSTANTS
  BLOCK = 2
  FF = FF
  None = None
  FileLen = 12
  ME <- MCME
  Tables <- MCTables
  MaxLength = 99
  Ifwi <- MCIfwi
  Whitelists <- MCWhitelists
  Blacklists <- MCBlacklists
  NewOffsets <- MCNewOffsets
  CheckMod = 8
  Headers <- MCHeaders
SPECIFICATION Spec
INVARIANTS
  TypeOK
  RemovedDataGone
  OnlyRemovedDataLost
  TableDescribesImage
  HeaderAgrees
  EndCoversKept
CHECK_DEADLOCK FALSE
