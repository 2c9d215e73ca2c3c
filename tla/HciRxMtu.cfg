SPECIFICATION Spec
CONSTANTS
  BUFFSIZE = 260
  UINT16_MOD = 65536
  MaxPackets = 1
  EventLengths = {}
  AclLengths <- OfferedFrame
  LoopCounterMax = 255
PROPERTY EveryPacketHandled
CHECK_DEADLOCK FALSE
