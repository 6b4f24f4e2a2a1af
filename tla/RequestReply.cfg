SPECIFICATION RRSpec
CONSTANTS
    h1 = h1
    h2 = h2
    h3 = h3
    t1 = t1
    t2 = t2
    Helpers = {h1, h2, h3}
    Threads = {t1, t2}
    Home <- MCHome
    MaxRequests = 3
CHECK_DEADLOCK FALSE
INVARIANTS
    RRTypeOK
    OwnReply
