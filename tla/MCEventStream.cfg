SPECIFICATION FairSpec
CONSTANTS
    BufSize = 3
    Traced = 1
    TooLong = {3}
    MaxEvents = 3
    MaxSubs = 2
INVARIANTS TypeOK ChannelsSafe ReplayBeforeLive NoSilentLoss
PROPERTIES SlowConsumerCut ConnectionEnds
CHECK_DEADLOCK FALSE
