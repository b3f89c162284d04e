SPECIFICATION Spec
CONSTANTS
    Fields <- MCFields
    Groups = {g}
    Values = {a, unset}
    Unset = unset
    Executions = {x1, x2}
    MaxOverlaps = 1
    MaxEdits = 2
INVARIANTS
    OnlyShownAttributes
    BystandersSurvive
    VerifiedIsAsRequested
SYMMETRY Symmetry
CHECK_DEADLOCK FALSE
