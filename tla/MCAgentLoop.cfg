SPECIFICATION FairSpec
CONSTANTS
    MaxSteps = 3
    MaxUses = 2
    MaxRetries = 2
    Compaction = TRUE
    MaxAborts = 2
INVARIANTS TypeOK RequestsPaired NoStrayCalls AbortBoundsWork EndsTruthfully
PROPERTIES AbortAnswers RunEnds ImplementsRunSteps
CHECK_DEADLOCK FALSE
