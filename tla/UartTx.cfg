SPECIFICATION Spec
CONSTANTS
  BUFFSIZE = 4
  UINT16_MOD = 65536
  MaxPackets <- OneAndTwo
  MaxPayload = 2
  Unrestricted = FALSE
INVARIANTS
  TypeOK
  Check
  SnapshotHolds
  TransmitterArmed
PROPERTIES
  StreamSpec
  SendCompletes
CHECK_DEADLOCK FALSE
