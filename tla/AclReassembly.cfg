SPECIFICATION Spec
CONSTANTS
    link1 = link1
    link2 = link2
    Host = Host
    Nobody = Nobody
    Links <- TwoLinks
    Sizes <- TwoSizes
    L2CAP_HEADER_SIZE = 4
    L2CAP_BUFF_SIZE = 12
    AclMax = 6
    ConnReqSize = 8
    SabmSize = 4
    Assumed <- AllAssumed
INVARIANTS
    TypeOK
    Reassembled
