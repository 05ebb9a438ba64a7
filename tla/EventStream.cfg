SPECIFICATION FairSpec
CONSTANTS
    MaxEvents = 4
    WireSize = 2
    MaxBreaks = 3
INVARIANTS
    Seamless
    
PROPERTIES
    ImplementsFeed
    CallerEnds
CHECK_DEADLOCK FALSE
