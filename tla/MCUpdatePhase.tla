--------------------------- MODULE MCUpdatePhase ---------------------------
(***************************************************************************)
(* The instance of UpdatePhase for TLC: an object of three fields, one of   *)
(* which no request can name. Executions are interchangeable.               *)
(***************************************************************************)
EXTENDS UpdatePhase, TLC

MCFields == {"title", "department", "otherOrganization"}

Symmetry == Permutations(Executions)

=============================================================================
