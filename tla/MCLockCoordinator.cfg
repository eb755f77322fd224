\* Three callers with their own owner ids on one lock key.
SPECIFICATION FairSpec
CONSTANTS
    Clients = {c1, c2, c3}
    Owners = {c1, c2, c3}
    Owner <- OwnIds
    NoOwner = NoOwner
    Keys = {"k1"}
    TTL = 3
INVARIANTS
    MutualExclusion
PROPERTIES
    AbandonedLockFreed
