SPECIFICATION Spec
CONSTANTS
    Threads = {t1, t2}
    Addresses = {a1}
    Subscriptions = {s1}
    Senders = {t1, t2}
    Receivers = {t2}
    Subscriber = t1
    MaxLinks = 3
    MaxEntries = 2
    MaxOpens = 2
    Recover = TRUE
    None = None
CHECK_DEADLOCK FALSE
INVARIANTS
    TypeOK
    RegistryIsOpenLinks
    NamesHold
