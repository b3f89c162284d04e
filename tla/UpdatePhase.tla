---------------------------- MODULE UpdatePhase ----------------------------
(***************************************************************************)
(* The update phase (worker/phases/update.ts): the submitted change is      *)
(* resolved against the live account, frozen on the request                 *)
(* (shared/store.ts, recordComputedDiff), approved, applied to an account   *)
(* that other people edit meanwhile, and verified.                          *)
(*                                                                         *)
(* Which step runs when is Lifecycle's: here the plan advances one step at  *)
(* a time, a step is retried for ever, and a second execution of it may     *)
(* overlap the first when the first outlives its lease. The policy asks for *)
(* one approval, of the first step after the diff.                          *)
(***************************************************************************)
EXTENDS Naturals, FiniteSets

CONSTANTS
    Fields,       \* the fields of the account that are modelled
    Groups,
    Values,       \* what a field may hold
    Unset,        \* no value, one of Values
    Executions,   \* executions of steps that may be under way at once
    MaxOverlaps,  \* bound of the model: executions begun while another is under way
    MaxEdits      \* bound of the model: edits by somebody else

\* The objects of a Workspace user that a patch replaces whole, and what is in them. A
\* patch of one field writes its object.
Whole == [name |-> {"givenName", "familyName"},
          organizations |-> {"title", "department", "otherOrganization"},
          relations |-> {"managerEmail", "otherRelation"},
          orgUnitPath |-> {"orgUnitPath"}]

\* UPDATABLE, and the ones the schema does not let a request clear.
Updatable == {"givenName", "familyName", "title", "department", "managerEmail", "orgUnitPath"}
Mandatory == {"givenName", "familyName", "orgUnitPath"}

\* How far a plan may have come.
Stages == {"compute-update-diff", "approval", "rejected", "apply-update-attributes", "groups",
           "verify-update", "done"}

ASSUME UpdateAssumption ==
    /\ Fields \subseteq UNION {Whole[k] : k \in DOMAIN Whole}
    /\ Groups \cap (Fields \cup Stages) = {} /\ Unset \in Values /\ MaxOverlaps \in Nat /\ MaxEdits \in Nat

VARIABLES
    payload,    \* the value submitted for each field, and the groups to add and remove
    live,       \* the account in Workspace
    member,     \* the groups the account is in
    diff,       \* request.computedDiff: the fields and groups it marks as changing
    recorded,   \* it is not null
    shown,      \* the diff on the page the approver last loaded
    seen,       \* there was one
    at, todo,   \* how far the plan has come, and the groups whose step it has not settled
    pc, does, has, got, \* of an execution: its step, the diff and the account it read
    since,      \* history, of an execution: what has changed since it read the account
    unshown,    \* history: what was changed without having been shown as changing
    superseded, \* history: the diff was recorded again after the approver looked
    edited,     \* history: the fields somebody else has edited
    overlaps, edits

accountVars == <<live, member>>
diffVars == <<diff, recorded>>
pageVars == <<shown, seen>>
planVars == <<at, todo>>
executionVars == <<pc, does, has, got>>
historyVars == <<unshown, superseded, edited>>
vars == <<payload, accountVars, diffVars, pageVars, planVars, executionVars, since, historyVars,
          overlaps, edits>>

Requested == DOMAIN payload.set
RequestedGroups == payload.add \cup payload.remove

\* The plan: one step for each group, taken here in any order, and none for attributes
\* nobody asked for.
Steps == {"compute-update-diff", "apply-update-attributes", "verify-update"} \cup Groups
BeforeGroups == IF RequestedGroups = {} THEN "verify-update" ELSE "groups"
AfterApproval == IF Requested = {} THEN BeforeGroups ELSE "apply-update-attributes"

Payloads == {p \in [set : UNION {[S -> Values] : S \in SUBSET (Fields \cap Updatable)},
                    add : SUBSET Groups, remove : SUBSET Groups] :
    /\ p.add \cap p.remove = {}
    /\ DOMAIN p.set \cup p.add \cup p.remove # {}
    /\ \A f \in DOMAIN p.set \cap Mandatory : p.set[f] # Unset}

TypeOK ==
    /\ payload \in Payloads
    /\ live \in [Fields -> Values] /\ member \in SUBSET Groups
    /\ diff \subseteq Requested \cup RequestedGroups /\ shown \subseteq Requested \cup RequestedGroups
    /\ at \in Stages
    /\ todo \subseteq RequestedGroups /\ (at = "groups" => todo # {})
    /\ pc \in [Executions -> {"idle", "begun", "read", "settle"}]
    /\ does \in [Executions -> Steps]
    /\ has \in [Executions -> SUBSET (Fields \cup Groups)]
    /\ got \in [Executions -> [Fields -> Values]]
    /\ since \in [Executions -> SUBSET (Fields \cup Groups)]
    /\ unshown \in SUBSET (Fields \cup Groups)
    /\ recorded \in BOOLEAN /\ seen \in BOOLEAN /\ superseded \in BOOLEAN
    /\ edited \subseteq Fields
    /\ overlaps \in 0..MaxOverlaps /\ edits \in 0..MaxEdits

Nothing == [f \in Fields |-> Unset]

Init ==
    /\ payload \in Payloads
    /\ live \in [Fields -> Values] /\ member \in SUBSET Groups
    /\ \A f \in Fields \cap Mandatory : live[f] # Unset
    /\ diff = {} /\ recorded = FALSE
    /\ shown = {} /\ seen = FALSE
    /\ at = "compute-update-diff" /\ todo = RequestedGroups
    /\ pc = [x \in Executions |-> "idle"]
    /\ does = [x \in Executions |-> "compute-update-diff"]
    /\ has = [x \in Executions |-> {}]
    /\ got = [x \in Executions |-> Nothing]
    /\ since = [x \in Executions |-> {}]
    /\ unshown = {} /\ superseded = FALSE /\ edited = {}
    /\ overlaps = 0 /\ edits = 0

-----------------------------------------------------------------------------
\* Somebody else edits the account in the admin console.

\* The executions that have read the account are out of date in what changes now.
Outdates(S) == since' = [x \in Executions |->
                  IF pc'[x] \in {"read", "settle"} THEN since[x] \cup S ELSE {}]

Edit == edits < MaxEdits /\ edits' = edits + 1

EditField(f, v) ==
    /\ Edit
    /\ live[f] # v /\ ~(f \in Mandatory /\ v = Unset)
    /\ live' = [live EXCEPT ![f] = v]
    /\ edited' = edited \cup {f}
    /\ UNCHANGED <<payload, member, diffVars, pageVars, planVars, executionVars, unshown, superseded,
                   overlaps>>
    /\ Outdates({f})

EditMember(g) ==
    /\ Edit
    /\ member' = IF g \in member THEN member \ {g} ELSE member \cup {g}
    /\ UNCHANGED <<payload, live, diffVars, pageVars, planVars, executionVars, historyVars, overlaps>>
    /\ Outdates({g})

-----------------------------------------------------------------------------
\* The approval. The page with the diff is one call and the decision another, which
\* carries nothing of what the page showed: what the approver decides on may be stale.

\* GET /requests/:id, as often as the approver likes. The request is read before its
\* steps, so a page that offers the decision may hold a diff recorded before the halt.
Look ==
    /\ recorded /\ at \in {"compute-update-diff", "approval"}
    /\ shown' = diff /\ seen' = TRUE
    /\ superseded' = FALSE
    /\ UNCHANGED <<payload, accountVars, diffVars, planVars, executionVars, since, unshown, edited,
                   overlaps, edits>>

Decide(next) ==
    /\ at = "approval"
    /\ at' = next
    /\ UNCHANGED <<payload, accountVars, diffVars, pageVars, todo, executionVars, since, historyVars,
                   overlaps, edits>>

\* POST .../approve. Nothing asks whether the approver has looked at all.
Approve == Decide(AfterApproval)

Reject == Decide("rejected")

-----------------------------------------------------------------------------
\* An execution of a step.

Goto(x, label) == pc' = [pc EXCEPT ![x] = label]

\* The steps that are ready.
Current == IF at = "groups" THEN todo ELSE {at} \cap Steps

\* The executor reads the request, and the diff with it, and claims the step.
Begin(x, step) ==
    /\ pc[x] = "idle" /\ step \in Current
    /\ IF \A y \in Executions : pc[y] = "idle" THEN UNCHANGED overlaps
         ELSE overlaps < MaxOverlaps /\ overlaps' = overlaps + 1
    /\ Goto(x, "begun")
    /\ does' = [does EXCEPT ![x] = step]
    /\ has' = [has EXCEPT ![x] = diff]
    /\ UNCHANGED <<payload, accountVars, diffVars, pageVars, planVars, got, since, historyVars, edits>>

Forget(x) ==
    /\ Goto(x, "idle")
    /\ does' = [does EXCEPT ![x] = "compute-update-diff"]
    /\ has' = [has EXCEPT ![x] = {}]
    /\ got' = [got EXCEPT ![x] = Nothing]

\* The step settles if it is the plan's, and the plan advances; an execution whose step
\* was settled by another is refused.
Settle(x, next) ==
    /\ Forget(x)
    /\ at' = IF does[x] \in Current THEN next ELSE at

\* getUser().
GetUser(x) ==
    /\ pc[x] = "begun" /\ does[x] \notin Groups
    /\ got' = [got EXCEPT ![x] = live]
    /\ Goto(x, "read")
    /\ UNCHANGED <<payload, accountVars, diffVars, pageVars, planVars, does, has, since, historyVars,
                   overlaps, edits>>

\* computeDiff(): the fields and groups that differ from the account.
Differing(user, m) ==
    {f \in Requested : user[f] # payload.set[f]} \cup (payload.add \ m) \cup (payload.remove \cap m)

\* The memberships are read, and recordComputedDiff() commits the diff, over one that is
\* there already, whatever the plan has come to.
DiffLands(x) ==
    /\ pc[x] = "read" /\ does[x] = "compute-update-diff"
    /\ diff' = Differing(got[x], member) /\ recorded' = TRUE
    /\ superseded' = seen
    /\ Outdates({})
    /\ UNCHANGED <<payload, accountVars, pageVars, todo, unshown, edited, overlaps, edits>>

ComputeDiff(x) == Settle(x, "approval") /\ DiffLands(x)

-----------------------------------------------------------------------------
\* apply-update-attributes.

\* Mutant: whatever was asked for and differs from the account as it is now.
OutstandingMutant(x) == {f \in Requested : got[x][f] # payload.set[f]}

\* What the diff marks as changing and still has to be changed.
Outstanding(x) == {f \in Requested \cap has[x] : got[x][f] # payload.set[f]}

\* The patch: each object that holds an outstanding field, made of the account that was
\* read. Of the organizations the first is kept.
Patched(x) == {f \in Fields : \E k \in DOMAIN Whole :
                  f \in Whole[k] /\ Whole[k] \cap Outstanding(x) # {}}

\* Mutant: the patch is made of the change alone.
PatchValueMutant(x, f) == IF f \in Outstanding(x) THEN payload.set[f] ELSE Unset

PatchValue(x, f) ==
    IF f \in Outstanding(x) THEN payload.set[f]
    ELSE IF f = "otherOrganization" THEN Unset ELSE got[x][f]

Patch(x) == [f \in Fields |-> IF f \in Patched(x) THEN PatchValue(x, f) ELSE live[f]]

Applying(x) == pc[x] = "read" /\ does[x] = "apply-update-attributes"

\* patchUser(), which changes nothing when nothing is outstanding.
PatchLands(x) ==
    /\ Applying(x)
    /\ live' = Patch(x)
    /\ unshown' = unshown \cup (Outstanding(x) \ shown)
    /\ Outdates({f \in Fields : Patch(x)[f] # live[f]})
    /\ UNCHANGED <<payload, member, diffVars, pageVars, todo, superseded, edited, overlaps, edits>>

ApplyAttributes(x) == Settle(x, BeforeGroups) /\ PatchLands(x)

-----------------------------------------------------------------------------
\* add-group and remove-group: the membership is read, and changed when it is not as
\* requested.

Unsettled == (payload.add \ member) \cup (payload.remove \cap member)

GroupLands(x) ==
    LET g == does[x] IN
    /\ pc[x] = "begun" /\ g \in Groups
    /\ member' = IF g \in payload.add THEN member \cup {g} ELSE member \ {g}
    /\ unshown' = unshown \cup (({g} \cap Unsettled) \ shown)
    /\ Outdates({g} \cap Unsettled)
    /\ UNCHANGED <<payload, live, diffVars, pageVars, superseded, edited, overlaps, edits>>

ChangeGroup(x) ==
    /\ todo' = todo \ {does[x]}
    /\ Settle(x, IF todo' = {} THEN "verify-update" ELSE "groups")
    /\ GroupLands(x)

-----------------------------------------------------------------------------
\* verify-update: the account, and then the memberships, against everything requested.

\* Mutant: only what was to be changed is verified.
VerifyPassesMutant(x) ==
    /\ pc[x] = "read" /\ does[x] = "verify-update"
    /\ \A f \in Requested \cap has[x] : got[x][f] = payload.set[f]
    /\ Unsettled = {}
    /\ Goto(x, "settle")
    /\ UNCHANGED <<payload, accountVars, diffVars, pageVars, planVars, does, has, got, since, historyVars,
                   overlaps, edits>>

VerifyPasses(x) ==
    /\ pc[x] = "read" /\ does[x] = "verify-update"
    /\ \A f \in Requested : got[x][f] = payload.set[f]
    /\ Unsettled = {}
    /\ Goto(x, "settle")
    /\ UNCHANGED <<payload, accountVars, diffVars, pageVars, planVars, does, has, got, since, historyVars,
                   overlaps, edits>>

Verified(x) ==
    /\ pc[x] = "settle"
    /\ Settle(x, "done")
    /\ Outdates({})
    /\ UNCHANGED <<payload, accountVars, diffVars, pageVars, todo, historyVars, overlaps, edits>>

\* An execution fails at any point, a verification that finds a difference among them; the
\* diff may have been recorded, and a call that changes the account may have landed. The
\* step is retried, by the queue or by the operator who resumes the request.
Fails(x) ==
    /\ pc[x] # "idle"
    /\ Forget(x)
    /\ UNCHANGED planVars
    /\ \/ DiffLands(x) \/ PatchLands(x) \/ GroupLands(x)
       \/ /\ Outdates({})
          /\ UNCHANGED <<payload, accountVars, diffVars, pageVars, historyVars, overlaps, edits>>

-----------------------------------------------------------------------------

Others == (\E f \in Fields, v \in Values : EditField(f, v)) \/ \E g \in Groups : EditMember(g)

Execution(x) ==
    \/ (\E step \in Steps : Begin(x, step))
    \/ GetUser(x) \/ ComputeDiff(x) \/ ApplyAttributes(x) \/ ChangeGroup(x)
    \/ VerifyPasses(x) \/ Verified(x) \/ Fails(x)

Next == Others \/ Look \/ Approve \/ Reject \/ \E x \in Executions : Execution(x)

Spec == Init /\ [][Next]_vars

-----------------------------------------------------------------------------

\* What an approver who looked at a diff was not shown as changing is not changed,
\* whatever the account looks like by then (stepPlans.ts: "an account that drifts between
\* approval and execution cannot quietly widen the change someone signed off on"), unless
\* an execution of compute-update-diff recorded the diff again behind the approver's back;
\* and even then nothing is changed that nobody else has edited.
OnlyShownAttributes == seen => \A f \in unshown \cap Fields : superseded /\ f \in edited

\* What was not asked for survives: a patch writes to a field that needs no change what
\* the field holds, unless that was changed since the execution read the account
\* (update.ts: "so the field NOT being changed survives"). An organization after the
\* first does not survive.
BystandersSurvive ==
    \A x \in Executions : Applying(x) =>
        \A f \in Fields \ (Outstanding(x) \cup {"otherOrganization"} \cup since[x]) :
            Patch(x)[f] = live[f]

\* An update that reports success left the account as requested, in the fields that needed
\* no change as well, up to what has changed since it was read back (verify-update).
VerifiedIsAsRequested ==
    \A x \in Executions : pc[x] = "settle" =>
        /\ \A f \in Requested \ since[x] : live[f] = payload.set[f]
        /\ Unsettled \subseteq since[x]

=============================================================================
