SPECIFICATION FairSpec
CONSTANTS
    Senders = {"ann", "bob"}
    SenderOf <- SenderOfUpdate
    Texts = {1, 2, 3}
    Routed = {"ann"}
    RecvSize = 1
    QueueSize = 1
    MaxUpdates = 4
    MaxLives = 2
INVARIANTS TypeOK Conserved RestartsExplained
PROPERTIES EveryMessageProcessed
CHECK_DEADLOCK FALSE
