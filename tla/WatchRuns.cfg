SPECIFICATION FairSpec
CONSTANTS
    q1 = q1
    q2 = q2
    Conns = {q1}
    Early = FALSE
    MaxEdits = 3
PROPERTIES SnapshotsFollow RateFollows
CHECK_DEADLOCK FALSE
