SPECIFICATION FairSpec
CONSTANTS
    r1 = r1
    r2 = r2
    a1 = a1
    NoMessage = NoMessage
    Requests = {r1}
    Agents = {a1}
    To <- ToOne
    ReplyLen = 2
    RespCap = 1
    ReqCap = 1
    MaxReconnects = 1
PROPERTIES
    DeadConnectionEnds
CHECK_DEADLOCK FALSE
