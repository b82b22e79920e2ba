SPECIFICATION FairSpec
CONSTANTS
    a1 = a1
    a2 = a2
    c1 = c1
    c2 = c2
    c3 = c3
    g1 = g1
    g2 = g2
    NoAgent = NoAgent
    NoGateway = NoGateway
    NoConn = NoConn
    Agents = {a1, a2}
    Gateways = {g1, g2}
    Conns = {c1, c2, c3}
    AgentOf <- TwoAndOne
    GatewayOf <- Shared
    Callers = {}
    Sweepers = {}
    OneAtATime = TRUE
    ExpiryRaces = FALSE
    MaxCount = 1
    MaxFaults = 2
INVARIANTS
    ServingIsLocal
    RecordNamesServer
    IndexComplete
    EveryRecordParses
PROPERTIES
    ServedAgentRecovers
    AgentReturns
    OrphanVanishes
