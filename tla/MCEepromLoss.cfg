SPECIFICATION Spec
CONSTANTS
  a = a
  b = b
  Addr = {a, b}
  d1 = d1
  Blank = Blank
  Data = {d1, Blank}
  NoAddr = NoAddr
  NotFound = NotFound
  VirtAddVarTab <- TabDef
  Slots = 3
  MaxWrites = 5
  MaxLosses = 3
  MaxErrors = 0
PROPERTIES
  ImplementsStrictStore
CHECK_DEADLOCK FALSE
