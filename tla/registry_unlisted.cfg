SPECIFICATION Spec
CONSTANTS
    a1 = a1
    a2 = a2
    c1 = c1
    c2 = c2
    c3 = c3
    g1 = g1
    g2 = g2
    NoAgent = NoAgent
    NoGateway = NoGateway
    NoConn = NoConn
    Agents = {a1}
    Gateways = {g1, g2}
    Conns = {c1, c2}
    AgentOf <- Twice
    GatewayOf <- EachGateway
    Callers = {r1}
    Sweepers = {}
    OneAtATime = TRUE
    ExpiryRaces = FALSE
    MaxCount = 1
    MaxFaults = 0
INVARIANTS
    IndexComplete
