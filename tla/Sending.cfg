SPECIFICATION FairSpec
CONSTANTS
    Calls = {"s1", "b"}
    Batches = {"b"}
    Messages = {"m1", "m3", "m4"}
    MessagesOf <- SendAndBatch
    MaxOpens = 2
CHECK_DEADLOCK FALSE
INVARIANTS
    TypeOK
    ReportsHold
    NoStaleResult
    SleepersUnanswered
PROPERTY
    LossEndsSend
