------------------------------ MODULE Admission ------------------------------
(***************************************************************************)
(* How a submission becomes a request document: buildNewRequest            *)
(* (packages/shared/src/requestFactory.ts) under an approval policy        *)
(* document that an admin, or anything else with write access to it, may   *)
(* have edited or only partly written.                                     *)
(***************************************************************************)
EXTENDS StepPlans

CONSTANTS
    RequestIds,       \* the ids randomUUID hands out
    Payloads,         \* the payloads the schemas let through
    PolicyDocuments   \* what approvalPolicy/current may hold: functions from
                      \* some of the phases to a slice; {} is no document

ASSUME PolicyAssumption ==
    \A doc \in PolicyDocuments : \A phase \in DOMAIN doc : \A name \in DOMAIN doc[phase] :
        doc[phase][name] \in StepPolicy

VARIABLES
    document,   \* approvalPolicy/current
    built       \* the documents of each request, or Unbuilt

admissionVars == <<document, built>>

Unbuilt == [phase |-> "none"]

PersistedFlag(slice, name) == ResolveStepPolicy(slice, name).requiresApproval

StepDocuments(r, plan, slice) ==
    [k \in 1..Len(plan) |->
        [stepId |-> StepId(plan, k),
         name |-> plan[k].name,
         requiresApproval |-> PersistedFlag(slice, plan[k].name),
         idempotencyKey |-> DeriveIdempotencyKey(r, StepId(plan, k), plan[k].input)]]

\* The plan and the policy in force right now; the slice is copied.
BuildRequest(r, phase, payload) ==
    LET slice == NormalisePolicy(document)[phase]
    IN  /\ built[r] = Unbuilt
        /\ built' = [built EXCEPT ![r] =
                        [phase |-> phase,
                         steps |-> StepDocuments(r, StepPlanFor(phase, payload), slice),
                         policySnapshot |-> slice]]
        /\ UNCHANGED document

EditPolicy(doc) ==
    /\ document' = doc
    /\ UNCHANGED built

AdmissionInit ==
    /\ document \in PolicyDocuments
    /\ built = [r \in RequestIds |-> Unbuilt]

AdmissionNext ==
    \/ \E doc \in PolicyDocuments : EditPolicy(doc)
    \/ \E r \in RequestIds, phase \in Phases, payload \in Payloads :
          BuildRequest(r, phase, payload)

AdmissionSpec == AdmissionInit /\ [][AdmissionNext]_admissionVars

-----------------------------------------------------------------------------

Built == {r \in RequestIds : built[r] # Unbuilt}
StepsOf(r) == DOMAIN built[r].steps

\* Whatever a policy document says of it, and when it says nothing: the deletion
\* of an account waits for approval, and for an admin's unless a role was
\* configured (docs/approval-policy.md, "One knob you cannot turn off").
DeletionStaysGated ==
    \A r \in Built : \A k \in StepsOf(r) :
        built[r].steps[k].name = "delete-user"
            => /\ built[r].steps[k].requiresApproval
               /\ ResolveStepPolicy(built[r].policySnapshot, "delete-user").requiresApproval
               /\ "delete-user" \notin DOMAIN built[r].policySnapshot
                     => ResolveStepPolicy(built[r].policySnapshot, "delete-user").approverRole
                           = "admin"

\* No two steps of any requests share an idempotency key, not even two steps of
\* one plan that name the same group: a shared key is a task name the queue
\* takes for a duplicate.
KeysAreDistinct ==
    \A q, r \in Built : \A j \in StepsOf(q), k \in StepsOf(r) :
        built[q].steps[j].idempotencyKey = built[r].steps[k].idempotencyKey
            => q = r /\ j = k

=============================================================================
