SPECIFICATION FairSpec
CONSTANTS
    warsaw = warsaw
    tokyo = tokyo
    Nodes = {warsaw, tokyo}
    Bundle = {warsaw}
    Lists = {{warsaw, tokyo}}
    Devices = {"phone", "desktop"}
    MaxStarts = 2
    MaxFlaps = 2
INVARIANTS FdIsReturned WinnerIsUp
CHECK_DEADLOCK FALSE
PROPERTIES StopEndsAll WaiterIsAnswered LosersAreClosed
