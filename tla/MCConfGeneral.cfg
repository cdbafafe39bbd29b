SPECIFICATION ConfSpec
CONSTANTS
  McWords = 3
  AppWords = 2
  McConfs <- McConfsDef
  AppConfs <- AppConfsDef
  MaxStores = 3
  Addr <- ConfAddr
  d1 = d1
  Blank = Blank
  Data = {d1, Blank}
  NoAddr = NoAddr
  NotFound = NotFound
  VirtAddVarTab <- InitVirtAddVarTab
  Slots = 6
  MaxWrites = 20
  MaxLosses = 2
  MaxErrors = 1
INVARIANTS
  CoveredConfReadsBack
  TornStoreIsPrefix
CHECK_DEADLOCK FALSE
