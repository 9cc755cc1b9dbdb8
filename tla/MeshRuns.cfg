SPECIFICATION FairSpec
CONSTANTS
    warsaw = warsaw
    tokyo = tokyo
    here = here
    there = there
    Neighbours = {warsaw}
    Places = {here, there}
    MaxEdits = 5
    MaxBreaks = 2
INVARIANT LiveIsServed
PROPERTIES OutboundIsCut AddedIsLinked
CHECK_DEADLOCK FALSE
