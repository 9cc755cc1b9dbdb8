SPECIFICATION DSpec
CONSTANTS
    vasya = vasya
    warsaw = warsaw
    routing = routing
    settings = settings
    network = network
    Keys <- MCKeys
    Clients <- MCClients
    Nodes <- MCNodes
    Routing <- routing
    Settings <- settings
    Network <- network
    Arriving <- AllOps
    Expect <- Ours
    FirstKinds <- Kinds
    ReloadMayFail = FALSE
    MaxLen = 3
INVARIANT DirectoryIsCurrent
