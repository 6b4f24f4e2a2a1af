SPECIFICATION FairSpec
CONSTANTS
    Threads = {t1, t2}
    MaxOpens = 2
    MaxRequests = 3
    MaxReceivers = 2
    None = None
CHECK_DEADLOCK FALSE
INVARIANTS
    TypeOK
    OwnReply
    InitializedIsCurrent
    SleepersWait
PROPERTY
    RequestsEnd
