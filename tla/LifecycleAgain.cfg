SPECIFICATION Spec
CONSTANTS
    Threads = {t1}
    Faults = {"break"}
    Connects = 2
    MaxEvents = 2
CHECK_DEADLOCK FALSE
INVARIANT
    NeverTerminates
