SPECIFICATION Spec
CONSTANTS
  Port = {usb}
  MaxCalls = 2
INVARIANTS
  TypeOK
  ConfigurationRestored
  TimeoutRestored
  LockReleased
  OwnedDrive
PROPERTIES
  ProcedureEnds
CHECK_DEADLOCK FALSE
