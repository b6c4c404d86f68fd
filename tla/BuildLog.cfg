SPECIFICATION FairSpec
CONSTANTS
    Conn = {c1, c2}
    MaxWrites = 3
    Cap = 2
    DiskFull = TRUE
CHECK_DEADLOCK FALSE
INVARIANTS
    TypeOK
    NoPanic
    InOrder
    TailComplete
PROPERTIES
    SubscriberReleased
