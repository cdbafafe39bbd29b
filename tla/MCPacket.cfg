SPECIFICATION Spec
CONSTANTS
  Base = 4
  MaxPlLen = 5
  RxTimeout = 1
  Payloads <- PayloadsDef
  crc16 <- CrcDef
  None = None
  MaxPackets = 2
  MaxNoise = 1
INVARIANTS
  TypeOK
  PayloadFits
  OnlyWholeFrames
  CleanPacketArrives
PROPERTIES
  SilenceResyncs
