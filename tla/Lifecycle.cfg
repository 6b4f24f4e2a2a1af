SPECIFICATION FairSpec
CONSTANTS
    Threads = {t1}
    Faults = {"close", "break", "link", "throw"}
    Connects = 3
    MaxEvents = 2
CHECK_DEADLOCK FALSE
INVARIANTS
    TypeOK
    ConnectedIsAlive
    EventsTellState
PROPERTIES
    CloseEnds
    DestroyEndsKnown
