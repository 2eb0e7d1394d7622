SPECIFICATION FairSpec
CONSTANTS
    Tops = 1
    MaxCalls = 2
    MaxDepth = 2
    MaxRetries = 1
    MaxLong = 1
INVARIANTS TypeOK ReportsTrue NoStrayChildren
PROPERTIES ChildrenEnd
CHECK_DEADLOCK FALSE
