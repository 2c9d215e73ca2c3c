SPECIFICATION FairSpec
CONSTANTS
    MAX_CREDIT_CNT = 2
    PnAnswers = {14, 0}
    DataDlci = 20
    PeerMessages <- SignalsAndParameters
    MaxPresses = 2
    MaxCommands = 6
    MaxMessages = 2
    MaxData = 3
INVARIANTS
    TypeOK
    FramesReadable
    MessagesWhole
    UaInOrder
    NothingStale
PROPERTIES
    Settles
    PnConfirmed
    PortConfigured
CHECK_DEADLOCK FALSE
