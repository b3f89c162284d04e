--------------------------- MODULE MCAuditMirror ---------------------------
(***************************************************************************)
(* The instance of AuditMirror for TLC. Sweeps are interchangeable.        *)
(***************************************************************************)
EXTENDS AuditMirror, TLC

MCEvents == 1..3

Symmetry == Permutations(Sweeps)

=============================================================================
