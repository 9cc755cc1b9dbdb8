SPECIFICATION RaceFairSpec
CONSTANTS
    f1 = f1
    f2 = f2
    oslo = oslo
    tokyo = tokyo
    Flows = {f1, f2}
    Peers = {oslo, tokyo}
INVARIANT WinnerTook
PROPERTY StreamGoesOut
CHECK_DEADLOCK FALSE
