SPECIFICATION Spec
CONSTANTS
    NoSuccessor = NoSuccessor
    Requests = {"r1"}
    Users = {"jo"}
    Humans <- MCHumans
    Workers = {"w1"}
    Plan <- MCShortDeletePlan
    Target <- MCTarget
    Requester <- MCRequester
    Approvers = {"ann", "bob"}
    Admins = {"ann", "bob"}
    Policies <- OnlyExpiringDelete
    InitialAccounts = {"active"}
    MaxOrdinal = 3
    MaxAttempts = 2
    QueueAttempts = 2
    MaxResumes = 1
    MaxFaults = 1
    FaultKinds = {"crash", "throw", "lose", "duplicate"}
    HandlerFaults = {"retryable"}
    SlowSteps = FALSE
    Cancellers = {"r1"}
    AdminCancellers = {}
INVARIANTS
    TwoPartyUnlessCompensated
CHECK_DEADLOCK FALSE
