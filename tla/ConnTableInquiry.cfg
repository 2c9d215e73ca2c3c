SPECIFICATION Spec
CONSTANTS
    t = t
    a = a
    b = b
    NoAddr = NoAddr
    Peers <- ThreePeers
    Target = t
    Initiators <- Others
    MAX_CONNECTIONS = 2
    MAX_INQUIRY_RESULTS = 3
    Handles <- ThreeHandles
    MaxResponses = 2
    MaxNames = 1
    Assumed <- LongResults
INVARIANT ListCounted
