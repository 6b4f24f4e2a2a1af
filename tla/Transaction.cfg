SPECIFICATION Spec
CONSTANTS
    Threads = {t1}
    Txns = {x1, x2, x3}
    Links = {l1, l2}
    Messages = {m1, m2, k}
    Acks = {k}
    MaxBegins = 3
SYMMETRY Symmetric
CHECK_DEADLOCK FALSE
INVARIANTS
    TypeOK
    SentInside
    AtomicInTime
