SPECIFICATION LinksSpec
CONSTANTS
  Size = 3
  Item = {0, 1}
  Zero = 0
  Port = {usb}
  Mutexed = {usb}
  Remote = {r1, r2}
  None = None
  MaxRequests = 2
  Message <- MessageDef
  crc16 <- CrcDef
  ShortMax = 1
  FillStep = 2
  FillMax = 3
  LongStep = 2
  RxBufferSize = 5
  StatusSlots = 2
  RxFrames = 3
  MaxMessages = 2
  MaxLost = 1
INVARIANTS
  CanTypeOK
  WholeMessageArrives
  OneStatusSlot
  ReplyReachesAsker
PROPERTIES
  RingIsLossyFifo
CHECK_DEADLOCK FALSE
