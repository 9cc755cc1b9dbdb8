SPECIFICATION Spec
CONSTANTS
    vasya = vasya
    warsaw = warsaw
    routing = routing
    settings = settings
    network = network
    Keys <- MCKeys
    Clients <- MCClients
    Nodes <- MCNodes
    Routing <- routing
    Settings <- settings
    Network <- network
    Arriving <- FoundersOps
    Expect <- Ours
    FirstKinds <- OlderKinds
    ReloadMayFail = TRUE
    MaxLen = 5
INVARIANTS InsertFits MemoryCoversTable
CHECK_DEADLOCK FALSE
