SPECIFICATION FairSpec
CONSTANTS
    vasya = vasya
    warsaw = warsaw
    routing = routing
    settings = settings
    network = network
    d1 = d1
    d2 = d2
    n1 = n1
    Keys <- MCKeys
    Clients = {vasya}
    Nodes = {warsaw}
    Routing <- routing
    Settings <- settings
    Network <- network
    Devices = {d1, d2}
    Servers = {n1}
    NodeOf <- MCNodeOf
    Home <- MCHome
    Founding <- Found
    Founder <- d1
    Edits <- Several
    MaxSigned = 3
    MaxTime = 3
    MaxBreaks = 1
INVARIANTS SameCountersSameState OnlyWhatWasSigned AdoptedTookIt
PROPERTY Convergence
CHECK_DEADLOCK FALSE
