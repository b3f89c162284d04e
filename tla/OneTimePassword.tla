-------------------------- MODULE OneTimePassword --------------------------
(***************************************************************************)
(* What the repository promises about a one-time password, without a word  *)
(* on how: docs/runbook.md, "The credential handoff", says that it is      *)
(* retrievable exactly once and that nothing recovers it afterwards.       *)
(*                                                                         *)
(* A password is unborn, in the hand of the step that generated it, sealed *)
(* in a record, taken by a retrieval, and then given or gone. It never     *)
(* moves backwards, and `handed` counts how often an operator saw it.      *)
(***************************************************************************)
EXTENDS Naturals

CONSTANT MaxPasswords

Passwords == 1..MaxPasswords

Phases == {"unborn", "in-hand", "sealed", "taken", "given", "gone"}

VARIABLES phase, handed

\* The moves a password may make.
Moves == {<<"unborn", "in-hand">>, <<"unborn", "gone">>,
          <<"in-hand", "sealed">>, <<"in-hand", "gone">>,
          <<"sealed", "taken">>, <<"sealed", "gone">>,
          <<"taken", "given">>, <<"taken", "gone">>}

Init ==
    /\ phase = [p \in Passwords |-> "unborn"]
    /\ handed = [p \in Passwords |-> 0]

\* Several passwords may move in one step: a rotation seals one and ends another.
Next ==
    \A p \in Passwords :
        \/ phase'[p] = phase[p] /\ handed'[p] = handed[p]
        \/ /\ <<phase[p], phase'[p]>> \in Moves
           /\ handed'[p] = IF phase'[p] = "given" THEN handed[p] + 1 ELSE handed[p]

Spec == Init /\ [][Next]_<<phase, handed>>

=============================================================================
