SPECIFICATION FairSpec
CONSTANTS
    Requests = {r1, r2}
    Sessions <- MCSessions
    Tools <- MCTools
    Calls <- MCCalls
    Default <- MCDefault
    DenyPattern <- MCDeny
    AllowPattern <- MCAllow
    OutsideCWD <- MCOutside
    PolicyFiles <- MCFiles
    HasTimeout = TRUE
INVARIANTS
    TypeOK
    PendingSound
    Consistent
    GateSound
PROPERTIES
    RestartKeepsAlways
    CacheFollowsAnswers
    AskEnds
    ImplementsGate
