SPECIFICATION Spec
CONSTANTS
    a1 = a1
    a2 = a2
    c1 = c1
    c2 = c2
    c3 = c3
    g1 = g1
    g2 = g2
    NoAgent = NoAgent
    NoGateway = NoGateway
    NoConn = NoConn
    Agents = {a1}
    Gateways = {g1}
    Conns = {c1, c2}
    AgentOf <- Twice
    GatewayOf <- SameGateway
    Callers = {r1}
    Sweepers = {g1}
    OneAtATime = FALSE
    ExpiryRaces = TRUE
    MaxCount = 1
    MaxFaults = 1
INVARIANTS
    TypeOK
    RoutableIsLeased
    LocalEntriesAreLive
