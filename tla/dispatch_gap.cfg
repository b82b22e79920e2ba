SPECIFICATION Spec
CONSTANTS
    r1 = r1
    r2 = r2
    a1 = a1
    NoMessage = NoMessage
    Requests = {r1}
    Agents = {a1}
    To <- ToOne
    ReplyLen = 3
    RespCap = 2
    ReqCap = 1
    MaxReconnects = 1
INVARIANTS
    AnswersAreWhole
CHECK_DEADLOCK FALSE
