SPECIFICATION FairSpec
CONSTANTS
    r1 = r1
    r2 = r2
    c1 = c1
    c2 = c2
    Requests = {r1}
    Closers = {c1, c2}
    MaxStreams = 2
    MaxWire = 2
INVARIANTS
    TypeOK
    RegisterFirst
    KeepsReconnecting
    SessionsDoNotOverlap
PROPERTIES
    CloseEndsRun
CHECK_DEADLOCK FALSE
