SPECIFICATION FairSpec
CONSTANTS
    NoSuccessor = NoSuccessor
    Requests = {"r1"}
    Users = {"jo"}
    Humans <- MCHumans
    Workers = {"w1"}
    Plan <- MCShortDeletePlan
    Target <- MCTarget
    Requester <- MCRequester
    Approvers = {"ann", "bob"}
    Admins = {"ann", "bob"}
    Policies <- OnlyExpiringDelete
    InitialAccounts = {"active"}
    MaxOrdinal = 3
    MaxAttempts = 2
    QueueAttempts = 2
    MaxResumes = 0
    MaxFaults = 0
    FaultKinds = {}
    HandlerFaults = {"terminal"}
    SlowSteps = FALSE
    Cancellers = {"r1"}
    AdminCancellers = {}
PROPERTIES
    RunningSettles
    HaltIsNotified
    ExpiringHaltEnds
CHECK_DEADLOCK FALSE
