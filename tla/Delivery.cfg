SPECIFICATION FairSpec
CONSTANTS
    Threads = {th1, th2}
    Receivers = {r1, r2}
    First = {r1}
    Deliveries = {d1, d2}
    Dispositions = {accepted, rejected}
    MaxOpens = 2
CHECK_DEADLOCK FALSE
INVARIANTS
    TypeOK
    SettledAsAsked
    SuccessTakesEffect
    SleepersHaveNothing
    ClosedHasNoMessages
PROPERTY
    LossEndsReceive
