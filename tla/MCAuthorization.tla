-------------------------- MODULE MCAuthorization --------------------------
(***************************************************************************)
(* The instance of Authorization for TLC. Calls are interchangeable.       *)
(***************************************************************************)
EXTENDS Authorization, TLC

Symmetry == Permutations(Calls)

=============================================================================
