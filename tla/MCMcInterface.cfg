SPECIFICATION Spec
CONSTANTS
  c1 = c1
  Controllers = {c1}
  Detector = Detector
  TimeoutThread = TimeoutThread
  FaultStopTime = 2
  DetectStopTime = 1
  WrongVoltage = 2
  TimeoutMsec = 0
  TimeoutCommand = "brake_current"
  Commands = {"duty", "speed", "detect"}
  MaxCommands = 2
  MaxFaults = 2
INVARIANTS
  TypeOK
  FaultHoldsMotorOff
  FaultTimeIsKeptUnlessRaced
CHECK_DEADLOCK FALSE
