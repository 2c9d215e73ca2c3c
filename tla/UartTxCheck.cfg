SPECIFICATION Spec
CONSTANTS
  BUFFSIZE = 4
  UINT16_MOD = 65536
  MaxPackets <- OneAndOne
  MaxPayload = 1
  Unrestricted = TRUE
INVARIANT Check
CHECK_DEADLOCK FALSE
