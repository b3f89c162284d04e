SPECIFICATION Spec
CONSTANTS
    NoSuccessor = NoSuccessor
    Requests = {"r1", "r2"}
    Users = {"jo"}
    Humans <- MCHumans
    Workers = {"w1", "w2"}
    Plan <- MCCreateAndDelete
    Target <- MCTarget
    Requester <- MCRequester
    Approvers = {"ann", "bob"}
    Admins = {"ann"}
    Policies <- EitherBoth
    InitialAccounts = {"absent", "active"}
    MaxOrdinal = 3
    MaxAttempts = 2
    QueueAttempts = 2
    MaxResumes = 1
    MaxFaults = 0
    FaultKinds = {}
    HandlerFaults = {}
    SlowSteps = FALSE
    Cancellers = {}
    AdminCancellers = {}
INVARIANTS
    TwoPartyApproval
    OneInFlightUnlessResumed
    OneWriterUnlessResumed
CHECK_DEADLOCK FALSE
