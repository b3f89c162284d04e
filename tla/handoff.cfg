SPECIFICATION Spec
CONSTANTS
    Requests = {r1, r2}
    Workers = {w1, w2}
    Readers = {a1, a2}
    SlowSteps = TRUE
    Emergency = FALSE
    CredentialTtl = 1
    LatestTtl = 0
    Drain = 1
    MaxPasswords = 3
    MaxVersions = 1
    MaxTime = 0
    MaxFaults = 1
    MaxResumes = 1
INVARIANTS
    TypeOK
    ValidSignsIn
PROPERTIES
    HandsOverOnce
SYMMETRY Symmetry
CHECK_DEADLOCK FALSE
