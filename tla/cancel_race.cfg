SPECIFICATION Spec
CONSTANTS
    NoSuccessor = NoSuccessor
    Requests = {"r1"}
    Users = {"jo"}
    Humans <- MCHumans
    Workers = {"w1", "w2"}
    Plan <- MCMediumDeletePlan
    Target <- MCTarget
    Requester <- MCRequester
    Approvers = {"ann", "bob"}
    Admins = {"ann", "bob"}
    Policies <- OnlyExpiringDelete
    InitialAccounts = {"active"}
    MaxOrdinal = 4
    MaxAttempts = 2
    QueueAttempts = 2
    MaxResumes = 0
    MaxFaults = 1
    FaultKinds = {"duplicate"}
    HandlerFaults = {"terminal"}
    SlowSteps = FALSE
    Cancellers = {"r1"}
    AdminCancellers = {"r1"}
INVARIANTS
    TypeOK
    ExclusiveExecution
    PlanOrder
    SucceededIsComplete
    RunningIsDriven
    ReadyStepHasTask
    HaltIsDecidable
    AwaitingMatchesHalt
    HaltIsDrained
    CompensationRestores
PROPERTIES
    DeletionIsApproved
    RejectionIsFinal
    TerminalDispatchesNothing
CHECK_DEADLOCK FALSE
