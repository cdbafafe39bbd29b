SPECIFICATION AppsSpec
CONSTANTS
  MaxConfigs = 1
  MIN_PULSES = 2
  MIN_MS = 2
  PerMs = 2
  SleepTime = {2}
  Rpm = {0, 1}
  MaxRpm = 2
  MinErpm = 1
  RESTART = 3
  ALIVE = 2
  PacketThread = {t1, t2}
  NoThread = none
  MaxFailures = 2
  MaxLen = 3
  Asker = {t1, t2}
  AskLen = {0, 1, 2, 3, 4}
  MaxIndex = 5
INVARIANTS
  StartIsSafe
  GlitchIsFiltered
  CruiseKeepsPressedSpeed
  CruiseKeepsDirection
  FlashWorkIsExclusive
  WatchdogGuards
  SamplesStayInBuffers
PROPERTIES
  SilenceBrakes
  PpmArms
  RestartOnlyWhenSilent
  RadioComesBack
CHECK_DEADLOCK FALSE
