SPECIFICATION FairSpec
CONSTANTS
    warsaw = warsaw
    tokyo = tokyo
    Nodes = {warsaw, tokyo}
    Links <- Pair
    MaySave = TRUE
    MayStop = TRUE
    MayCrash = TRUE
    MaxCounted <- Busy
    MaxDeaths = 2
INVARIANT NeverOvercharged
PROPERTIES NeverShrinks DiskNeverShrinks Convergence
CHECK_DEADLOCK FALSE
