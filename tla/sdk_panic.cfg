SPECIFICATION Spec
CONSTANTS
    r1 = r1
    r2 = r2
    c1 = c1
    c2 = c2
    Requests = {r1}
    Closers = {}
    MaxStreams = 2
    MaxWire = 2
INVARIANTS
    SurvivesDisconnect
CHECK_DEADLOCK FALSE
