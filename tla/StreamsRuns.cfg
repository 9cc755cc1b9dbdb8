SPECIFICATION FairSpec
CONSTANTS
    Kinds = {"tun", "socks", "udp"}
    Units = 1
    FlushEvery = 2
    MaxBreaks = 1
    MaxSwitches = 1
INVARIANT EveryByteOnce
PROPERTIES NobodyIsLeft GoesWithTheApp CutIsOver
CHECK_DEADLOCK FALSE
