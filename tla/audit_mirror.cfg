SPECIFICATION Spec
CONSTANTS
    Events <- MCEvents
    Sweeps = {s1, s2}
    BatchSize = 2
    MaxTime = 1
INVARIANTS
    TypeOK
    NothingSkipped
    NothingFreshMeansCaughtUp
    AlarmIsExplained
SYMMETRY Symmetry
CHECK_DEADLOCK FALSE
