SPECIFICATION Spec
CONSTANTS
    e0 = e0
    e1 = e1
    a = a
    b = b
    Base = 8
    ListShort = 3
    ListLong = 6
    PrefixLen = 1
    U32 = 8
    U64 = 64
    Capacity = 6
    Eth0 <- e0
    Eth1 <- e1
    Zero <- a
    PathElem <- MCPathElem
    Requests <- MCRequests
    MaxStream = 9
    ResetOnError = TRUE
INVARIANTS
    TypeOK
    PathOfSession
    EthWhole
    Eip191Whole
    BytesAccounted
