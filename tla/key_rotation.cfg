SPECIFICATION Spec
CONSTANTS
    Requests = {r1, r2}
    Workers = {w1}
    Readers = {a1}
    SlowSteps = TRUE
    Emergency = TRUE
    CredentialTtl = 1
    LatestTtl = 2
    Drain = 2
    MaxPasswords = 2
    MaxVersions = 3
    MaxTime = 2
    MaxFaults = 1
    MaxResumes = 1
INVARIANTS
    OneCopy
    ValidIsReadable
    NothingClaimedIsLost
SYMMETRY Symmetry
CHECK_DEADLOCK FALSE
