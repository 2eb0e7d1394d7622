SPECIFICATION FairSpec
CONSTANTS
    MainRuns = {main}
    ChildRuns = {child}
    Asks = {ask1}
    None = None
    MaxCalls = 2
    MaxLoops = 2
    MaxLag = 1
INVARIANTS TypeOK TargetSound PanicsExplained
PROPERTIES NeverHidden Reconnects
CHECK_DEADLOCK FALSE
