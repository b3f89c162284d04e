----------------------------- MODULE MCLifecycle -----------------------------
(***************************************************************************)
(* Small instances of Lifecycle for TLC: the people, the requests and the  *)
(* plans the .cfg files choose from.  The plans are the ones StepPlanFor   *)
(* builds; a run that needs fewer steps takes a plan's first or last ones  *)
(* and says so.                                                            *)
(***************************************************************************)
EXTENDS LifecycleProperties

PlanOf(plan) == [r \in Requests |-> plan]

\* The offboarding without the steps that leave the account's state alone, or
\* with one of them.
MCShortDeletePlan == PlanOf(<<"suspend-user", "delete-user">>)
MCMediumDeletePlan == PlanOf(<<"suspend-user", "revoke-access", "delete-user">>)

\* An onboarding and an offboarding of one account, each cut to its mutations.
MCCreateAndDelete == [r \in Requests |-> IF r = "r1" THEN <<"create-user", "apply-attributes">>
                                         ELSE <<"suspend-user", "delete-user">>]

\* Everybody's request is made by "ann" and targets one account.
MCHumans == {"ann", "bob"}
MCTarget == [r \in Requests |-> "jo"]
MCRequester == [r \in Requests |-> "ann"]

\* Phase slices of the approval policy: a deletion whose gate expires, for an approver.
ExpiringDelete == [name \in {"delete-user"} |->
                     [requiresApproval |-> TRUE, approverRole |-> "approver", expires |-> TRUE]]
OnlyExpiringDelete == {ExpiringDelete}

\* A slice that gates the creation as well as the deletion, or an emptied one: the
\* deletion is gated all the same.
GatedBoth == [name \in {"create-user", "delete-user"} |-> Gate("approver")]
EitherBoth == {NoPolicy, GatedBoth}

=============================================================================
