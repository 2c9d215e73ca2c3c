SPECIFICATION FairSpec
CONSTANTS
    L2CAP_CONN_POOL_SIZE = 2
    MAX_CONNECTIONS = 2
    MIN_L2CAP_CID = 4
    MAX_L2CAP_CID = 9
    SIG_ID_SIZE = 4
    CHID_SIZE = 7
    TestSlot = 1
    Askers = {1}
    ProposedOptions <- SomeOptions
    ConnectAnswers <- WaitOrRefuse
    ConfigAnswers <- SomeAnswers
    MaxLinks = 2
    MaxRequests = 1
INVARIANTS
    TypeOK
    ChannelIdsDistinct
    TmpChidNamesChannel
    AnswersMatch
    PromisedChannelExists
    SabmAddressed
PROPERTIES
    PoolSpec
    ChannelsConfigure
CHECK_DEADLOCK FALSE
