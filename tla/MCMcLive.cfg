SPECIFICATION Spec
CONSTANTS
  c1 = c1
  Controllers = {c1}
  Detector = Detector
  TimeoutThread = TimeoutThread
  FaultStopTime = 2
  DetectStopTime = 1
  WrongVoltage = 1
  TimeoutMsec = 1
  TimeoutCommand = "brake_current"
  Commands = {"speed"}
  MaxCommands = 1
  MaxFaults = 1
PROPERTIES
  SilenceReleases
  PersistentFaultStops
CHECK_DEADLOCK FALSE
