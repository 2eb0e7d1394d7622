SPECIFICATION FairSpec
CONSTANTS
    BufSize = 2
    Traced = 4
    TooLong = {}
    MaxEvents = 4
    MaxSubs = 1
PROPERTY ConnectionEnds
CHECK_DEADLOCK FALSE
