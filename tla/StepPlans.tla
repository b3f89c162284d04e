------------------------------ MODULE StepPlans ------------------------------
(***************************************************************************)
(* The ordered step plan of each phase, and the approval policy that says  *)
(* which of its steps halt for a second person                             *)
(* (packages/shared/src/stepPlans.ts, packages/shared/src/policy.ts).      *)
(*                                                                         *)
(* A payload is the record of what a plan depends on: the group lists, the *)
(* successor (or NoSuccessor), whether an attribute was submitted, whether *)
(* the resend regenerates the credential.  A plan entry is [name, input].  *)
(***************************************************************************)
EXTENDS Naturals, Sequences

CONSTANT NoSuccessor

Phases == {"create", "notify", "update", "delete"}

\* The step an accepted cancellation appends; part of no plan.
CompensatingStep == "unsuspend-user"

NoInput == "no-input"

Entry(name) == [name |-> name, input |-> NoInput]

GroupSteps(name, groups) ==
    [k \in 1..Len(groups) |-> [name |-> name, input |-> groups[k]]]

CreatePlan(payload) ==
    <<Entry("validate-request"), Entry("create-user"), Entry("apply-attributes")>>
      \o GroupSteps("assign-group", payload.groups)
      \o <<Entry("verify-account")>>

NotifyPlan(payload) ==
    <<Entry("validate-notify-request"),
      Entry(IF payload.regenerate THEN "regenerate-credential"
                                  ELSE "confirm-credential"),
      Entry("send-welcome-letter")>>

UpdatePlan(payload) ==
    <<Entry("validate-update-request"), Entry("compute-update-diff")>>
      \o (IF payload.attributes THEN <<Entry("apply-update-attributes")>> ELSE <<>>)
      \o GroupSteps("add-group", payload.addGroups)
      \o GroupSteps("remove-group", payload.removeGroups)
      \o <<Entry("verify-update")>>

DeletePlan(payload) ==
    <<Entry("suspend-user"), Entry("revoke-access"), Entry("remove-memberships")>>
      \o (IF payload.transferDriveTo = NoSuccessor THEN <<>>
          ELSE <<[name |-> "transfer-drive", input |-> payload.transferDriveTo]>>)
      \o <<Entry("delete-user")>>

StepPlanFor(phase, payload) ==
    CASE phase = "create" -> CreatePlan(payload)
      [] phase = "notify" -> NotifyPlan(payload)
      [] phase = "update" -> UpdatePlan(payload)
      [] phase = "delete" -> DeletePlan(payload)

StepNames(plan) == [k \in 1..Len(plan) |-> plan[k].name]

\* The step named twice gets one id.
StepIdMutant(plan, k) == <<0, plan[k].name>>

\* "003-assign-group": the ordinal is part of the id, so a step named twice in
\* one plan still has two ids.
StepId(plan, k) == <<k - 1, plan[k].name>>

\* sha256 over the canonical form of the three: modelled as their tuple, an
\* injection.  The attempt number is not an argument.
DeriveIdempotencyKey(requestId, stepId, input) == <<requestId, stepId, input>>

-----------------------------------------------------------------------------
(* Approval policy.  A snapshot is a function from the step names somebody *)
(* configured to a step policy; an unconfigured name is not in its domain. *)

StepPolicy == [requiresApproval : BOOLEAN, approverRole : {"approver", "admin"},
               expires : BOOLEAN]

NoApproval == [requiresApproval |-> FALSE, approverRole |-> "approver", expires |-> FALSE]

MandatoryApprovalSteps == {"delete-user"}

\* The configuration taken at its word: no floor under an irreversible step.
ResolveStepPolicyMutant(snapshot, name) ==
    IF name \in DOMAIN snapshot THEN snapshot[name] ELSE NoApproval

ResolveStepPolicy(snapshot, name) ==
    LET configured == IF name \in DOMAIN snapshot THEN snapshot[name] ELSE NoApproval
    IN  IF name \notin MandatoryApprovalSteps THEN configured
        ELSE [configured EXCEPT
                !.requiresApproval = TRUE,
                !.approverRole = IF name \in DOMAIN snapshot THEN @ ELSE "admin"]

Gate(role) == [requiresApproval |-> TRUE, approverRole |-> role, expires |-> FALSE]
NoPolicy == [name \in {} |-> NoApproval]

DefaultPolicy ==
    [create |-> [name \in {"create-user"} |-> NoApproval],
     notify |-> NoPolicy,
     update |-> [name \in {"apply-attributes"} |-> Gate("approver")],
     delete |-> [name \in {"delete-user"} |-> Gate("admin")]]

\* A stored document that misses a phase takes that phase's default.
NormalisePolicy(stored) ==
    [phase \in Phases |-> IF phase \in DOMAIN stored THEN stored[phase]
                          ELSE DefaultPolicy[phase]]

=============================================================================
