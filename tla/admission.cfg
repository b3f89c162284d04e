SPECIFICATION AdmissionSpec
CONSTANTS
    NoSuccessor = NoSuccessor
    RequestIds = {"r1", "r2"}
    Payloads <- MCPayloads
    PolicyDocuments <- MCPolicyDocuments
INVARIANTS
    DeletionStaysGated
    KeysAreDistinct
CHECK_DEADLOCK FALSE
