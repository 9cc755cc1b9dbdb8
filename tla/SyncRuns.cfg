SPECIFICATION SyncFairSpec
CONSTANTS
    Window = 1
    Size <- Unequal
    Moods = {"fine", "refuses", "unreadable"}
    Diallers = {"device", "node"}
    MayBreak = TRUE
    MaxRounds = 2
INVARIANTS WholeFrames SuccessIsTaken
PROPERTY EverybodyGoesHome
CHECK_DEADLOCK FALSE
