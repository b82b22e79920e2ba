SPECIFICATION FairSpec
CONSTANTS
    a1 = a1
    a2 = a2
    q1 = q1
    q2 = q2
    NoAgent = NoAgent
    NoID = NoID
    Agents = {a1, a2}
    Tokens = {"t", "u", "x", "y", ":"}
    TypeOf <- SameType
    Raws <- OneRawEach
    Models <- TwoModels
    Requests = {q1}
    Cleaned = {}
PROPERTIES
    SessionsFollowAgent
