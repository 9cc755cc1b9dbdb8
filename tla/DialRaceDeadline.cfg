SPECIFICATION FairSpec
CONSTANTS
    Attempts = {v4, v6}
PROPERTY DeadlineEnds
CHECK_DEADLOCK FALSE
