SPECIFICATION FairSpec
CONSTANTS
    Clients = {c1, c2}
    Keys = {k1}
    Hashes = {h1, h2}
    NoHash = NoHash
    Nobody = Nobody
    DistinctStamps = FALSE
    LockMs = 1
    MaxTime = 4
INVARIANTS
    EffectsMatchRecord
PROPERTIES
    LiveLeaseIsRespected
    ClientsAreAnswered
CHECK_DEADLOCK FALSE
