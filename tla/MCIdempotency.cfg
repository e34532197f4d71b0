SPECIFICATION Spec
CONSTANTS
    Clients = {c1, c2, c3}
    Keys = {k1}
    Hashes = {h1, h2}
    NoHash = NoHash
    Nobody = Nobody
    DistinctStamps = TRUE
    LockMs = 1
    MaxTime = 4
SYMMETRY ClientSymmetry
INVARIANTS
    AnswersAgree
PROPERTY
    ImplementsOncePerKey
CHECK_DEADLOCK FALSE
