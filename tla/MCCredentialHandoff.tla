------------------------ MODULE MCCredentialHandoff ------------------------
(***************************************************************************)
(* The instance of CredentialHandoff for TLC. Requests, workers and        *)
(* readers are interchangeable.                                            *)
(***************************************************************************)
EXTENDS CredentialHandoff, TLC

Symmetry == Permutations(Requests) \cup Permutations(Workers) \cup Permutations(Readers)

=============================================================================
