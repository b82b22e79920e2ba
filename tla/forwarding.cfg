SPECIFICATION FairSpec
CONSTANTS
    r1 = r1
    r2 = r2
    addr1 = addr1
    addr2 = addr2
    NoAddr = NoAddr
    Requests = {r1}
    ReplyLen = 3
    RespCap = 2
    Addrs = {addr1, addr2}
    ExpiryRaces = FALSE
    LateDelete = FALSE
    MaxBoots = 2
INVARIANTS
    TypeOK
    RunningGatewayIsFound
    NothingSkipped
PROPERTIES
    PeerHandlerEnds
    ReaderEnds
    KeepsPromise
CHECK_DEADLOCK FALSE
