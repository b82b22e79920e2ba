SPECIFICATION FairSpec
CONSTANTS
    r1 = r1
    r2 = r2
    a1 = a1
    NoMessage = NoMessage
    Requests = {r1, r2}
    Agents = {a1}
    To <- ToOne
    ReplyLen = 2
    RespCap = 2
    ReqCap = 1
    MaxReconnects = 1
INVARIANTS
    TypeOK
    AnswerIsWhole
    ShortRepliesNeverBlock
PROPERTIES
    DeadConnectionEnds
    ResponseHandlerIsRemoved
    KeepsPromise
CHECK_DEADLOCK FALSE
