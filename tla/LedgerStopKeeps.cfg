SPECIFICATION Spec
CONSTANTS
    warsaw = warsaw
    tokyo = tokyo
    Nodes = {warsaw, tokyo}
    Links <- Pair
    MaySave = TRUE
    MayStop = TRUE
    MayCrash = FALSE
    MaxCounted <- Busy
    MaxDeaths = 1
INVARIANT StopKeepsCounted
