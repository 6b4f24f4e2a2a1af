SPECIFICATION FairSpec
CONSTANTS
    Calls = {s1, r1, r2}
    Attaching = {r1, r2}
INVARIANTS
    TypeOK
    ReleasedOnce
    ReturnedIsKept
    NoOrphanLink
PROPERTIES
    KeepsPromise
    OrphansAreTakenBack
    CallsEnd
