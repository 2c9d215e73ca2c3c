SPECIFICATION Spec
CONSTANTS
  BUFFSIZE = 7
  UINT16_MOD = 65536
  MaxPackets = 3
  EventLengths = {0, 1, 6}
  AclLengths = {1, 5}
  LoopCounterMax = 5
INVARIANTS
  TypeOK
  ParserInSync
  ReceiverOpen
  OneHandler
PROPERTIES
  FeedSpec
CHECK_DEADLOCK FALSE
