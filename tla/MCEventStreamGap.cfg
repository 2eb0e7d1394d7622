SPECIFICATION Spec
CONSTANTS
    BufSize = 3
    Traced = 1
    TooLong = {}
    MaxEvents = 3
    MaxSubs = 1
INVARIANT ReplayThenLiveComplete
CHECK_DEADLOCK FALSE
