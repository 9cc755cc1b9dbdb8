SPECIFICATION Spec
CONSTANTS
    vasya = vasya
    warsaw = warsaw
    routing = routing
    settings = settings
    network = network
    Keys <- MCKeys
    Clients <- MCClients
    Nodes <- MCNodes
    Routing <- routing
    Settings <- settings
    Network <- network
    Arriving <- FoundersOps
    Expect <- Ours
    FirstKinds <- Kinds
    ReloadMayFail = TRUE
    MaxLen = 4
INVARIANT AlwaysOpens
