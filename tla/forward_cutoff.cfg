SPECIFICATION Spec
CONSTANTS
    r1 = r1
    r2 = r2
    addr1 = addr1
    addr2 = addr2
    NoAddr = NoAddr
    Requests = {r1}
    ReplyLen = 3
    RespCap = 1
    Addrs = {addr1, addr2}
    ExpiryRaces = FALSE
    LateDelete = FALSE
    MaxBoots = 2
INVARIANTS
    AnswerIsWhole
CHECK_DEADLOCK FALSE
