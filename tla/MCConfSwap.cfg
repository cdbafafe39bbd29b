SPECIFICATION ConfSpec
CONSTANTS
  McWords = 3
  AppWords = 2
  McConfs <- McConfsDef
  AppConfs <- AppConfsDef
  MaxStores = 4
  Addr <- ConfAddr
  d1 = d1
  Blank = Blank
  Data = {d1, Blank}
  NoAddr = NoAddr
  NotFound = NotFound
  VirtAddVarTab <- InitVirtAddVarTab
  Slots = 6
  MaxWrites = 20
  MaxLosses = 0
  MaxErrors = 0
INVARIANTS
  StoredConfReadsBack
CHECK_DEADLOCK FALSE
