SPECIFICATION Spec
CONSTANTS
    Operators = {ann, bob}
    Groups = {g}
    Outsiders = {ann}
    Bindable = {bob, g}
    Calls = {c1, c2}
    Bootstrap = {ann}
    Requester = ann
    RequiredRole = "admin"
    Ttl = 1
    MaxLatency = 1
    Nobody = nobody
INVARIANT DecisionsMatchInbox
SYMMETRY Symmetry
CHECK_DEADLOCK FALSE
