SPECIFICATION SyncSpec
CONSTANTS
    Window = 2
    Size <- Unequal
    Moods = {"fine", "refuses"}
    Diallers = {"device"}
    MayBreak = FALSE
    MaxRounds = 1
INVARIANT SentIsStored
CHECK_DEADLOCK FALSE
