-------------------------- MODULE UpdatePhaseProofs --------------------------
(***************************************************************************)
(* Proofs about UpdatePhase: for every set of fields, groups and values,   *)
(* every number of executions, overlaps and edits by somebody else, and    *)
(* whenever the approver looks, an update changes no attribute that the    *)
(* approver was not shown unless the diff was recorded again behind their  *)
(* back and somebody else had edited it, loses none that nobody asked to   *)
(* change, and reports success of what is so.                              *)
(***************************************************************************)
EXTENDS UpdatePhase, TLAPS

\* The stages before and after the approval.
Early == {"compute-update-diff", "approval", "rejected"}
Approved == {"apply-update-attributes", "groups", "verify-update", "done"}

\* A step is under way only once the plan has come to it, and the groups are settled
\* by the group steps alone.
PlanInv ==
    /\ at \in Early \cup {"apply-update-attributes"} => todo = RequestedGroups
    /\ \A x \in Executions : pc[x] # "idle" =>
          /\ does[x] \in Groups => at \in {"groups", "verify-update", "done"}
          /\ does[x] = "apply-update-attributes" => at \in Approved
          /\ pc[x] = "settle" => does[x] = "verify-update"

\* The diff is the one the approver looked at until it is recorded again, and so is what
\* an execution of the approved step holds.
PageInv ==
    /\ seen => recorded
    /\ seen => superseded \/ diff = shown
    /\ \A x \in Executions : pc[x] # "idle" /\ does[x] = "apply-update-attributes" /\ seen =>
          superseded \/ has[x] \subseteq shown
    /\ at \in Early => unshown \cap Fields = {}

\* A field that holds what was submitted, for whoever is reading the account as well.
AsRequested(f) ==
    /\ live[f] = payload.set[f]
    /\ \A x \in Executions : pc[x] = "read" => got[x][f] = payload.set[f]

\* A field nobody else has edited is as it was read until something is approved, and a
\* field that a diff leaves out was as submitted and stays so.
UneditedInv ==
    /\ at \in Early => \A x \in Executions : pc[x] = "read" =>
          \A f \in Fields \ edited : got[x][f] = live[f]
    /\ at \in Early /\ recorded => \A f \in Requested \ (edited \cup diff) : AsRequested(f)
    /\ seen => \A f \in Requested \ (edited \cup shown) : AsRequested(f)

ShownInv == PageInv /\ UneditedInv /\ OnlyShownAttributes

\* What an execution has read is the account, but for what changed since.
ReadInv ==
    \A x \in Executions : pc[x] = "read" => \A f \in Fields \ since[x] : got[x][f] = live[f]

IInv == TypeOK /\ PlanInv /\ ShownInv /\ ReadInv /\ VerifiedIsAsRequested

-----------------------------------------------------------------------------

LEMMA RequestedFields == ASSUME TypeOK
    PROVE /\ Requested \subseteq Fields /\ RequestedGroups \subseteq Groups
          /\ \A f \in Requested : payload.set[f] \in Values
BY DEF TypeOK, Payloads, Requested, RequestedGroups

LEMMA InitIInv == Init => IInv
<1> SUFFICES ASSUME Init PROVE IInv
  OBVIOUS
<1>1. TypeOK
  <2>1. payload \in Payloads /\ live \in [Fields -> Values] /\ member \in SUBSET Groups
    BY DEF Init
  <2>2. /\ at \in Stages /\ todo \subseteq RequestedGroups /\ at # "groups"
        /\ diff = {} /\ shown = {} /\ unshown = {} /\ edited = {}
        /\ recorded = FALSE /\ seen = FALSE /\ superseded = FALSE
    BY DEF Init, Stages
  <2>3. /\ pc \in [Executions -> {"idle", "begun", "read", "settle"}]
        /\ does \in [Executions -> Steps]
        /\ has \in [Executions -> SUBSET (Fields \cup Groups)]
        /\ got \in [Executions -> [Fields -> Values]]
        /\ since \in [Executions -> SUBSET (Fields \cup Groups)]
    BY UpdateAssumption DEF Init, Nothing, Steps
  <2>4. overlaps \in 0..MaxOverlaps /\ edits \in 0..MaxEdits
    BY UpdateAssumption DEF Init
  <2> QED BY <2>1, <2>2, <2>3, <2>4 DEF TypeOK
<1>2. PlanInv /\ ShownInv /\ ReadInv /\ VerifiedIsAsRequested
  BY DEF Init, PlanInv, ShownInv, PageInv, UneditedInv, ReadInv, VerifiedIsAsRequested,
         OnlyShownAttributes, Early, Approved
<1> QED BY <1>1, <1>2 DEF IInv

\* What a patch leaves and writes.
LEMMA PatchTypes == ASSUME TypeOK, NEW x \in Executions
    PROVE /\ Patch(x) \in [Fields -> Values]
          /\ Outstanding(x) \subseteq Requested \cap has[x]
<1>1. \A f \in Fields : PatchValue(x, f) \in Values
  BY RequestedFields, UpdateAssumption DEF PatchValue, Outstanding, TypeOK
<1> QED BY <1>1 DEF Patch, Outstanding, TypeOK

-----------------------------------------------------------------------------
\* Types.

\* What nobody's step changes.
LEMMA PayloadStays ==
    ASSUME [Next]_vars
    PROVE  payload' = payload /\ Requested' = Requested /\ RequestedGroups' = RequestedGroups
<1>1. payload' = payload
  BY DEF Next, vars, Others, EditField, EditMember, Look, Approve, Reject, Decide, Execution, Begin,
         GetUser, ComputeDiff, DiffLands, ApplyAttributes, PatchLands, ChangeGroup, GroupLands, VerifyPasses, Verified,
         Fails
<1> QED BY <1>1 DEF Requested, RequestedGroups

LEMMA OutdatesType ==
    ASSUME TypeOK, NEW S \in SUBSET (Fields \cup Groups), Outdates(S)
    PROVE  since' \in [Executions -> SUBSET (Fields \cup Groups)]
BY DEF TypeOK, Outdates

LEMMA OthersTypes ==
    ASSUME TypeOK, PlanInv, Others \/ Look \/ Approve \/ Reject
    PROVE  TypeOK'
<1>0. payload' = payload /\ Requested' = Requested /\ RequestedGroups' = RequestedGroups
  BY PayloadStays DEF Next
<1>1. ASSUME NEW f \in Fields, NEW v \in Values, EditField(f, v) PROVE TypeOK'
  <2>1. since' \in [Executions -> SUBSET (Fields \cup Groups)]
    BY <1>1, OutdatesType DEF EditField
  <2> QED BY <1>0, <1>1, <2>1, UpdateAssumption DEF TypeOK, EditField, Edit, planVars, executionVars, diffVars, pageVars
<1>2. ASSUME NEW g \in Groups, EditMember(g) PROVE TypeOK'
  <2>1. since' \in [Executions -> SUBSET (Fields \cup Groups)]
    BY <1>2, OutdatesType DEF EditMember
  <2> QED BY <1>0, <1>2, <2>1, UpdateAssumption DEF TypeOK, EditMember, Edit, planVars, executionVars, historyVars, diffVars, pageVars
<1>3. CASE Approve
  <2>1. at' \in Stages /\ (at' = "groups" => todo' # {})
    BY <1>3 DEF Approve, Decide, AfterApproval, BeforeGroups, Stages, PlanInv, Early
  <2> QED BY <1>0, <1>3, <2>1 DEF TypeOK, Approve, Decide, accountVars, executionVars, historyVars,
                                  diffVars, pageVars
<1>4. CASE Reject
  BY <1>0, <1>4 DEF TypeOK, Reject, Decide, accountVars, executionVars, historyVars, diffVars, pageVars,
                    Stages
<1>5. CASE Look
  BY <1>0, <1>5 DEF TypeOK, Look, accountVars, diffVars, planVars, executionVars
<1> QED BY <1>1, <1>2, <1>3, <1>4, <1>5 DEF Others

\* Settling a step, or forgetting it.
LEMMA ForgetTypes ==
    ASSUME TypeOK, NEW x \in Executions, Forget(x)
    PROVE  /\ pc' \in [Executions -> {"idle", "begun", "read", "settle"}]
           /\ does' \in [Executions -> Steps]
           /\ has' \in [Executions -> SUBSET (Fields \cup Groups)]
           /\ got' \in [Executions -> [Fields -> Values]]
BY UpdateAssumption DEF TypeOK, Forget, Goto, Nothing, Steps

LEMMA PatchLandsTypes ==
    ASSUME TypeOK, NEW x \in Executions, PatchLands(x)
    PROVE  /\ live' \in [Fields -> Values]
           /\ unshown' \in SUBSET (Fields \cup Groups)
           /\ since' \in [Executions -> SUBSET (Fields \cup Groups)]
<1>1. {f \in Fields : Patch(x)[f] # live[f]} \in SUBSET (Fields \cup Groups)
  OBVIOUS
<1>2. Outdates({f \in Fields : Patch(x)[f] # live[f]})
  BY DEF PatchLands
<1>3. since' \in [Executions -> SUBSET (Fields \cup Groups)]
  BY <1>1, <1>2, OutdatesType
<1> QED BY <1>3, PatchTypes, RequestedFields DEF PatchLands, TypeOK

LEMMA DiffLandsTypes ==
    ASSUME TypeOK, NEW x \in Executions, DiffLands(x)
    PROVE  /\ diff' \subseteq Requested \cup RequestedGroups
           /\ recorded' \in BOOLEAN /\ superseded' \in BOOLEAN
           /\ since' \in [Executions -> SUBSET (Fields \cup Groups)]
<1>1. diff' \subseteq Requested \cup RequestedGroups
  BY DEF DiffLands, Differing, RequestedGroups
<1>2. since' \in [Executions -> SUBSET (Fields \cup Groups)]
  BY OutdatesType DEF DiffLands
<1> QED BY <1>1, <1>2 DEF DiffLands, TypeOK

LEMMA GroupLandsTypes ==
    ASSUME TypeOK, NEW x \in Executions, GroupLands(x)
    PROVE  /\ member' \in SUBSET Groups
           /\ unshown' \in SUBSET (Fields \cup Groups)
           /\ since' \in [Executions -> SUBSET (Fields \cup Groups)]
<1>1. does[x] \in Groups
  BY DEF GroupLands
<1>2. ({does[x]} \cap Unsettled) \in SUBSET (Fields \cup Groups)
  BY <1>1
<1>3. Outdates({does[x]} \cap Unsettled)
  BY DEF GroupLands
<1>4. since' \in [Executions -> SUBSET (Fields \cup Groups)]
  BY <1>2, <1>3, OutdatesType
<1> QED BY <1>1, <1>4 DEF GroupLands, TypeOK

LEMMA ExecutionTypes ==
    ASSUME TypeOK, PlanInv, NEW x \in Executions, Execution(x)
    PROVE  TypeOK'
<1>0. payload' = payload /\ Requested' = Requested /\ RequestedGroups' = RequestedGroups
  BY PayloadStays DEF Next
<1>a. Current \subseteq Steps
  BY RequestedFields DEF Current, Steps, TypeOK
<1>1. ASSUME NEW step \in Steps, Begin(x, step) PROVE TypeOK'
  <2>1. has' \in [Executions -> SUBSET (Fields \cup Groups)]
    BY <1>1, RequestedFields DEF Begin, TypeOK
  <2>2. overlaps' \in 0..MaxOverlaps
    BY <1>1, UpdateAssumption DEF Begin, TypeOK
  <2> QED BY <1>0, <1>1, <2>1, <2>2 DEF TypeOK, Begin, Goto, accountVars, planVars, historyVars, diffVars, pageVars
<1>2. CASE GetUser(x)
  BY <1>0, <1>2 DEF TypeOK, GetUser, Goto, accountVars, planVars, historyVars, diffVars, pageVars
<1>3. CASE ComputeDiff(x)
  <2>1. DiffLands(x) /\ Forget(x)
    BY <1>3 DEF ComputeDiff, Settle
  <2>2. at' \in Stages /\ at' = (IF does[x] \in Current THEN "approval" ELSE at)
    BY <1>3 DEF ComputeDiff, Settle, Stages, TypeOK
  <2> QED BY <1>0, <2>1, <2>2, DiffLandsTypes, ForgetTypes DEF TypeOK, DiffLands, accountVars, pageVars
<1>4. CASE ApplyAttributes(x)
  <2>1. at' \in Stages /\ (at' = "groups" => todo' # {})
    BY <1>4, UpdateAssumption DEF ApplyAttributes, Applying, PatchLands, Settle, BeforeGroups, Stages, PlanInv, TypeOK, Current, Early
  <2>2. PatchLands(x) /\ Forget(x)
    BY <1>4 DEF ApplyAttributes, Settle
  <2> QED BY <1>0, <2>1, <2>2, PatchLandsTypes, ForgetTypes DEF TypeOK, PatchLands, diffVars, pageVars
<1>5. CASE ChangeGroup(x)
  <2>1. GroupLands(x) /\ Forget(x) /\ todo' = todo \ {does[x]}
    BY <1>5 DEF ChangeGroup, Settle
  <2>2. at' \in Stages /\ (at' = "groups" => todo' # {})
    BY <1>5 DEF ChangeGroup, Settle, Stages, TypeOK, Current
  <2> QED BY <1>0, <2>1, <2>2, GroupLandsTypes, ForgetTypes DEF TypeOK, GroupLands, diffVars, pageVars
<1>6. CASE VerifyPasses(x)
  BY <1>0, <1>6 DEF TypeOK, VerifyPasses, Goto, accountVars, planVars, historyVars, diffVars,
     pageVars
<1>7. CASE Verified(x)
  <2>1. at' \in Stages /\ (at' = "groups" => todo' # {})
    BY <1>7 DEF Verified, Settle, Stages, TypeOK, Current
  <2>2. since' \in [Executions -> SUBSET (Fields \cup Groups)]
    BY <1>7, OutdatesType DEF Verified
  <2> QED BY <1>0, <1>7, <2>1, <2>2, ForgetTypes DEF TypeOK, Verified, Settle, accountVars, historyVars,
                                         diffVars, pageVars
<1>8. CASE Fails(x)
  <2>0. Forget(x) /\ at' = at /\ todo' = todo
    BY <1>8 DEF Fails, planVars
  <2>1. CASE DiffLands(x)
    BY <1>0, <2>0, <2>1, DiffLandsTypes, ForgetTypes DEF TypeOK, DiffLands, accountVars, pageVars
  <2>2. CASE PatchLands(x)
    BY <1>0, <2>0, <2>2, PatchLandsTypes, ForgetTypes DEF TypeOK, PatchLands, diffVars, pageVars
  <2>3. CASE GroupLands(x)
    BY <1>0, <2>0, <2>3, GroupLandsTypes, ForgetTypes DEF TypeOK, GroupLands, diffVars, pageVars
  <2>4. CASE /\ Outdates({})
             /\ UNCHANGED <<payload, accountVars, diffVars, pageVars, historyVars, overlaps, edits>>
    <3>1. since' \in [Executions -> SUBSET (Fields \cup Groups)]
      BY <2>4, OutdatesType
    <3> QED BY <1>0, <2>0, <2>4, <3>1, ForgetTypes DEF TypeOK, accountVars, historyVars, diffVars, pageVars
  <2> QED BY <1>8, <2>1, <2>2, <2>3, <2>4 DEF Fails
<1> QED BY <1>1, <1>2, <1>3, <1>4, <1>5, <1>6, <1>7, <1>8 DEF Execution

LEMMA TypeStep ==
    ASSUME TypeOK, PlanInv, [Next]_vars
    PROVE  TypeOK'
<1>1. CASE UNCHANGED vars
  BY <1>1, PayloadStays DEF TypeOK, vars, accountVars, planVars, executionVars, historyVars,
     diffVars, pageVars
<1>2. CASE Next
  BY <1>2, OthersTypes, ExecutionTypes DEF Next
<1> QED BY <1>1, <1>2

-----------------------------------------------------------------------------
\* The plan.

LEMMA PlanStep ==
    ASSUME TypeOK, PlanInv, [Next]_vars
    PROVE  PlanInv'
<1> USE DEF PlanInv, Early, Approved
<1>0. RequestedGroups' = RequestedGroups
  BY PayloadStays
<1>1. CASE UNCHANGED vars
  BY <1>0, <1>1 DEF vars, planVars, executionVars
<1>2. CASE Others
  BY <1>0, <1>2 DEF Others, EditField, EditMember, planVars, executionVars
<1>3. CASE Look \/ Approve \/ Reject
  BY <1>0, <1>3 DEF Look, Approve, Reject, Decide, AfterApproval, BeforeGroups, planVars, executionVars
<1>4. ASSUME NEW x \in Executions, Execution(x) PROVE PlanInv'
  <2>a. \A y \in Executions : pc[y] \in {"idle", "begun", "read", "settle"} /\ does[y] \in Steps
    BY DEF TypeOK
  <2>1. ASSUME NEW step \in Steps, Begin(x, step) PROVE PlanInv'
    <3>1. step \in Groups => at = "groups"
      BY <2>1, UpdateAssumption DEF Begin, Current, Stages, TypeOK
    <3>2. step = "apply-update-attributes" => at = "apply-update-attributes"
      BY <2>1, UpdateAssumption, RequestedFields DEF Begin, Current, Stages, TypeOK
    <3> QED BY <1>0, <2>1, <3>1, <3>2 DEF Begin, Goto, planVars, TypeOK
  <2>2. CASE GetUser(x) \/ VerifyPasses(x)
    BY <1>0, <2>2 DEF GetUser, VerifyPasses, Goto, planVars, TypeOK
  <2>3. CASE ComputeDiff(x)
    <3>1. does[x] \in Current => at = "compute-update-diff"
      BY <2>3, UpdateAssumption, RequestedFields DEF ComputeDiff, DiffLands, Current, TypeOK, Stages
    <3>2. at' = (IF does[x] \in Current THEN "approval" ELSE at) /\ todo' = todo
      BY <2>3 DEF ComputeDiff, DiffLands, Settle
    <3>3. \A y \in Executions : pc'[y] # "idle" => pc[y] = pc'[y] /\ does'[y] = does[y]
      BY <2>3 DEF ComputeDiff, Settle, Forget, Goto, TypeOK
    <3> QED BY <1>0, <3>1, <3>2, <3>3
  <2>4. CASE ApplyAttributes(x)
    <3>1. at' \in {at, BeforeGroups} /\ todo' = todo /\ at \in Approved
      BY <2>4 DEF ApplyAttributes, Settle, PatchLands, Applying
    <3>2. \A y \in Executions : pc'[y] # "idle" => pc[y] = pc'[y] /\ does'[y] = does[y]
      BY <2>4 DEF ApplyAttributes, Settle, Forget, Goto, TypeOK
    <3> QED BY <1>0, <3>1, <3>2 DEF BeforeGroups
  <2>5. CASE ChangeGroup(x)
    <3>1. at' \in {at, "verify-update", "groups"} /\ at \in {"groups", "verify-update", "done"}
      BY <2>5 DEF ChangeGroup, Settle, GroupLands
    <3>2. \A y \in Executions : pc'[y] # "idle" => pc[y] = pc'[y] /\ does'[y] = does[y]
      BY <2>5 DEF ChangeGroup, Settle, Forget, Goto, TypeOK
    <3> QED BY <1>0, <3>1, <3>2
  <2>6. CASE Verified(x)
    <3>1. at' \in {at, "done"} /\ todo' = todo
      BY <2>6 DEF Verified, Settle
    <3>2. \A y \in Executions : pc'[y] # "idle" => pc[y] = pc'[y] /\ does'[y] = does[y]
      BY <2>6 DEF Verified, Settle, Forget, Goto, TypeOK
    <3> QED BY <1>0, <3>1, <3>2
  <2>7. CASE Fails(x)
    <3>1. at' = at /\ todo' = todo
      BY <2>7 DEF Fails, planVars
    <3>2. \A y \in Executions : pc'[y] # "idle" => pc[y] = pc'[y] /\ does'[y] = does[y]
      BY <2>7 DEF Fails, Forget, Goto, TypeOK
    <3> QED BY <1>0, <3>1, <3>2
  <2> QED BY <1>4, <2>1, <2>2, <2>3, <2>4, <2>5, <2>6, <2>7 DEF Execution
<1> QED BY <1>1, <1>2, <1>3, <1>4 DEF Next

-----------------------------------------------------------------------------
\* What was shown.

\* A settled step stays on its side of the approval.
LEMMA Sides ==
    ASSUME TypeOK, PlanInv, [Next]_vars
    PROVE  /\ at' \in Early => at \in Early
           /\ Look => at \in Early
           /\ \A x \in Executions : PatchLands(x) \/ GroupLands(x) => at \notin Early
<1> USE DEF PlanInv, Early, Approved
<1>1. Look => at \in Early
  BY DEF Look
<1>2. \A x \in Executions : PatchLands(x) \/ GroupLands(x) => at \notin Early
  BY DEF PatchLands, Applying, GroupLands
<1>3. ASSUME at' # at PROVE at' \in Early => at \in Early
  <2>1. CASE UNCHANGED vars \/ Others \/ Look \/ Approve \/ Reject
    BY <1>3, <2>1 DEF vars, planVars, Others, EditField, EditMember, Look, Approve, Reject, Decide
  <2>2. ASSUME NEW x \in Executions, Execution(x) PROVE at' \in Early => at \in Early
    <3>1. CASE ComputeDiff(x)
      BY <1>3, <3>1, UpdateAssumption, RequestedFields
         DEF ComputeDiff, DiffLands, Settle, Current, TypeOK, Stages
    <3>2. CASE ApplyAttributes(x)
      BY <3>2, <1>3 DEF ApplyAttributes, Settle, BeforeGroups
    <3>3. CASE ChangeGroup(x) \/ Verified(x)
      BY <3>3, <1>3 DEF ChangeGroup, Verified, Settle
    <3> QED BY <1>3, <2>2, <3>1, <3>2, <3>3 DEF Execution, Begin, GetUser, VerifyPasses, Fails, planVars
  <2> QED BY <2>1, <2>2 DEF Next
<1> QED BY <1>1, <1>2, <1>3

\* A patch writes no field that is as requested otherwise than it is.
LEMMA PatchKeeps ==
    ASSUME TypeOK, NEW x \in Executions, PatchLands(x), NEW f \in Requested, AsRequested(f)
    PROVE  f \notin Outstanding(x) /\ live'[f] = live[f]
<1>1. got[x][f] = payload.set[f] /\ live[f] = payload.set[f]
  BY DEF AsRequested, PatchLands, Applying
<1>2. f \in Fields /\ f # "otherOrganization"
  BY RequestedFields DEF TypeOK, Payloads, Requested, Updatable
<1> QED BY <1>1, <1>2 DEF Outstanding, PatchLands, Patch, PatchValue

\* An execution that holds what it read either goes on holding it or has just read it.
LEMMA Readers ==
    ASSUME TypeOK, [Next]_vars, NEW x \in Executions, pc'[x] = "read"
    PROVE  (pc[x] = "read" /\ got'[x] = got[x]) \/ got'[x] = live
<1>1. CASE UNCHANGED executionVars
  BY <1>1 DEF executionVars
<1>2. CASE Others \/ Look \/ Approve \/ Reject \/ UNCHANGED vars
  BY <1>1, <1>2 DEF Others, EditField, EditMember, Look, Approve, Reject, Decide, vars
<1>3. ASSUME NEW y \in Executions, Forget(y) PROVE pc[x] = "read" /\ got'[x] = got[x]
  BY <1>3 DEF Forget, Goto, TypeOK
<1>4. ASSUME NEW y \in Executions, Execution(y)
      PROVE  (pc[x] = "read" /\ got'[x] = got[x]) \/ got'[x] = live
  <2>1. CASE GetUser(y)
    BY <2>1 DEF GetUser, Goto, TypeOK
  <2>2. CASE VerifyPasses(y) \/ \E step \in Steps : Begin(y, step)
    BY <2>2 DEF VerifyPasses, Begin, Goto, TypeOK
  <2>3. CASE Forget(y)
    BY <1>3, <2>3
  <2> QED BY <1>4, <2>1, <2>2, <2>3 DEF Execution, ComputeDiff, ApplyAttributes, ChangeGroup, Verified,
          Fails, Settle
<1> QED BY <1>2, <1>4 DEF Next

\* What is as requested stays so until somebody else edits it.
LEMMA AsRequestedStays ==
    ASSUME TypeOK, [Next]_vars, NEW f \in Requested, AsRequested(f), f \notin edited'
    PROVE  AsRequested(f)'
<1>0. payload' = payload
  BY PayloadStays
<1>a. f \in Fields
  BY RequestedFields
<1>1. live'[f] = live[f]
  <2>1. ASSUME NEW x \in Executions, PatchLands(x) PROVE live'[f] = live[f]
    BY <2>1, PatchKeeps
  <2>2. ASSUME NEW g \in Fields, NEW v \in Values, EditField(g, v) PROVE live'[f] = live[f]
    BY <1>a, <2>2 DEF EditField, TypeOK
  <2>3. \/ live' = live \/ \E x \in Executions : PatchLands(x)
        \/ \E g \in Fields, v \in Values : EditField(g, v)
    BY DEF Next, vars, accountVars, Others, EditMember, Look, Approve, Reject, Decide, Execution,
           Begin, GetUser, ComputeDiff, DiffLands, ApplyAttributes, ChangeGroup, GroupLands,
           VerifyPasses, Verified, Fails
  <2> QED BY <2>1, <2>2, <2>3
<1>2. ASSUME NEW x \in Executions, pc'[x] = "read" PROVE got'[x][f] = payload.set[f]
  <2>1. (pc[x] = "read" /\ got'[x] = got[x]) \/ got'[x] = live
    BY <1>2, Readers
  <2> QED BY <2>1, <1>2 DEF AsRequested
<1> QED BY <1>0, <1>1, <1>2 DEF AsRequested

\* What changes hands, step by step: the page, the diff, and what they are told apart by.
LEMMA PageMoves ==
    ASSUME [Next]_vars
    PROVE  \/ Look
           \/ UNCHANGED pageVars /\ UNCHANGED diffVars /\ superseded' = superseded
           \/ UNCHANGED pageVars /\ UNCHANGED live /\ edited' = edited
                 /\ \E x \in Executions : DiffLands(x) /\ Forget(x)
BY DEF Next, vars, accountVars, historyVars, Others, EditField, EditMember, Approve, Reject, Decide,
       Execution, Begin, GetUser, ComputeDiff, ApplyAttributes, PatchLands, ChangeGroup, GroupLands,
       VerifyPasses, Verified, Fails, Settle, DiffLands

LEMMA UnshownMoves ==
    ASSUME [Next]_vars
    PROVE  unshown' = unshown \/ \E x \in Executions : PatchLands(x) \/ GroupLands(x)
BY DEF Next, vars, historyVars, Others, EditField, EditMember, Look, Approve, Reject, Decide,
       Execution, Begin, GetUser, ComputeDiff, DiffLands, ApplyAttributes, ChangeGroup,
       VerifyPasses, Verified, Fails

LEMMA EditedGrows ==
    ASSUME [Next]_vars
    PROVE  edited \subseteq edited'
BY DEF Next, vars, historyVars, Others, EditField, EditMember, Look, Approve, Reject, Decide,
       Execution, Begin, GetUser, ComputeDiff, DiffLands, ApplyAttributes, PatchLands, ChangeGroup,
       GroupLands, VerifyPasses, Verified, Fails

LEMMA UneditedStep ==
    ASSUME TypeOK, PlanInv, ShownInv, [Next]_vars
    PROVE  UneditedInv'
<1>0. payload' = payload /\ Requested' = Requested /\ Requested \subseteq Fields
  BY PayloadStays, RequestedFields
<1>a. edited \subseteq edited' /\ (at' \in Early => at \in Early)
  BY EditedGrows, Sides
<1>1. ASSUME at' \in Early, NEW x \in Executions, pc'[x] = "read", NEW f \in Fields \ edited'
      PROVE  got'[x][f] = live'[f]
  <2>1. at \in Early /\ f \notin edited
    BY <1>a, <1>1
  <2>2. live'[f] = live[f]
    <3>1. ASSUME NEW g \in Fields, NEW v \in Values, EditField(g, v) PROVE live'[f] = live[f]
      BY <1>1, <3>1 DEF EditField, TypeOK
    <3>2. \A y \in Executions : ~PatchLands(y)
      BY <2>1, Sides
    <3>3. \/ live' = live \/ \E y \in Executions : PatchLands(y)
          \/ \E g \in Fields, v \in Values : EditField(g, v)
      BY DEF Next, vars, accountVars, Others, EditMember, Look, Approve, Reject, Decide, Execution,
             Begin, GetUser, ComputeDiff, DiffLands, ApplyAttributes, ChangeGroup, GroupLands,
             VerifyPasses, Verified, Fails
    <3> QED BY <3>1, <3>2, <3>3
  <2>3. (pc[x] = "read" /\ got'[x] = got[x]) \/ got'[x] = live
    BY <1>1, Readers
  <2> QED BY <1>1, <2>1, <2>2, <2>3 DEF ShownInv, UneditedInv
<1>2. ASSUME at' \in Early, recorded', NEW f \in Requested \ (edited' \cup diff')
      PROVE  AsRequested(f)'
  <2>1. at \in Early /\ f \notin edited
    BY <1>a, <1>2
  <2>2. CASE UNCHANGED diffVars
    BY <1>2, <2>1, <2>2, AsRequestedStays DEF ShownInv, UneditedInv, diffVars
  <2>3. ASSUME NEW x \in Executions, DiffLands(x) PROVE AsRequested(f)
    <3>1. got[x][f] = payload.set[f] /\ pc[x] = "read"
      BY <1>2, <2>3 DEF DiffLands, Differing
    <3>2. \A y \in Executions : pc[y] = "read" => got[y][f] = live[f]
      BY <1>0, <2>1 DEF ShownInv, UneditedInv
    <3> QED BY <3>1, <3>2 DEF AsRequested
  <2>4. UNCHANGED diffVars \/ \E x \in Executions : DiffLands(x)
    BY PageMoves DEF Look
  <2> QED BY <1>2, <2>2, <2>3, <2>4, AsRequestedStays
<1>3. ASSUME seen', NEW f \in Requested \ (edited' \cup shown')
      PROVE  AsRequested(f)'
  <2>1. CASE Look
    BY <1>a, <1>3, <2>1, AsRequestedStays, Sides DEF Look, ShownInv, UneditedInv
  <2>2. CASE UNCHANGED pageVars
    BY <1>a, <1>3, <2>2, AsRequestedStays DEF pageVars, ShownInv, UneditedInv
  <2> QED BY <2>1, <2>2, PageMoves
<1> QED BY <1>0, <1>1, <1>2, <1>3 DEF UneditedInv

LEMMA PageStep ==
    ASSUME TypeOK, PlanInv, ShownInv, [Next]_vars
    PROVE  PageInv'
<1>1. seen' => recorded' /\ (superseded' \/ diff' = shown')
  <2>1. CASE Look
    BY <2>1 DEF Look, diffVars
  <2>2. CASE UNCHANGED pageVars /\ UNCHANGED diffVars /\ superseded' = superseded
    BY <2>2 DEF pageVars, diffVars, ShownInv, PageInv
  <2>3. ASSUME UNCHANGED pageVars, NEW x \in Executions, DiffLands(x)
        PROVE  seen' => recorded' /\ (superseded' \/ diff' = shown')
    BY <2>3 DEF DiffLands, pageVars
  <2> QED BY <2>1, <2>2, <2>3, PageMoves
<1>2. at' \in Early => unshown' \cap Fields = {}
  BY Sides, UnshownMoves DEF ShownInv, PageInv
<1>3. ASSUME NEW x \in Executions, pc'[x] # "idle", does'[x] = "apply-update-attributes", seen'
      PROVE  superseded' \/ has'[x] \subseteq shown'
  <2>1. CASE Look
    BY <1>3, <2>1 DEF Look, PlanInv, Approved, executionVars
  <2>2. CASE ~Look
    <3>1. \/ has'[x] = has[x] /\ does'[x] = does[x] /\ pc[x] # "idle"
          \/ has'[x] = diff
      BY <1>3, <2>2 DEF Next, vars, executionVars, Others, EditField, EditMember, Approve, Reject, Decide,
          Execution, Begin, GetUser, VerifyPasses, ComputeDiff, Verified, ApplyAttributes,
          ChangeGroup, Fails, Settle, Forget, Goto, TypeOK
    <3>2. seen /\ UNCHANGED pageVars
      BY <1>3, <2>2, PageMoves DEF pageVars
    <3>3. superseded \/ has'[x] \subseteq shown
      BY <1>3, <3>1, <3>2 DEF ShownInv, PageInv
    <3>4. superseded' = superseded \/ superseded' = seen
      BY <2>2, PageMoves DEF DiffLands
    <3> QED BY <3>2, <3>3, <3>4 DEF pageVars, TypeOK
  <2> QED BY <2>1, <2>2
<1> QED BY <1>1, <1>2, <1>3 DEF PageInv

\* A patch touches what the execution's diff marks, and a group step no attribute.
LEMMA UnshownFields ==
    ASSUME TypeOK, PlanInv, ShownInv, NEW x \in Executions, PatchLands(x) \/ GroupLands(x),
           seen, NEW f \in unshown' \cap Fields
    PROVE  superseded /\ f \in edited
<1>1. CASE f \in unshown
  BY <1>1 DEF ShownInv, OnlyShownAttributes
<1>2. CASE f \notin unshown
  <2>1. PatchLands(x) /\ f \in Outstanding(x) \ shown
    BY <1>2, UpdateAssumption DEF PatchLands, GroupLands
  <2>2. f \in Requested /\ f \in has[x] /\ pc[x] = "read" /\ does[x] = "apply-update-attributes"
    BY <2>1 DEF Outstanding, PatchLands, Applying
  <2>3. superseded
    BY <2>1, <2>2 DEF ShownInv, PageInv
  <2>4. ~AsRequested(f)
    BY <2>1, <2>2, PatchKeeps
  <2> QED BY <2>1, <2>2, <2>3, <2>4 DEF ShownInv, UneditedInv
<1> QED BY <1>1, <1>2

LEMMA ShownStep ==
    ASSUME TypeOK, PlanInv, ShownInv, [Next]_vars
    PROVE  ShownInv'
<1>1. ASSUME seen', NEW f \in unshown' \cap Fields PROVE superseded' /\ f \in edited'
  <2>1. CASE Look
    BY <1>1, <2>1, Sides DEF Look, ShownInv, PageInv
  <2>2. ASSUME NEW x \in Executions, PatchLands(x) \/ GroupLands(x) PROVE superseded' /\ f \in edited'
    <3>1. UNCHANGED <<seen, superseded, edited>>
      BY <2>2 DEF PatchLands, GroupLands, pageVars
    <3>2. seen
      BY <1>1, <3>1
    <3>3. superseded /\ f \in edited
      BY <1>1, <2>2, <3>2, UnshownFields
    <3> QED BY <3>1, <3>3
  <2>3. CASE unshown' = unshown /\ ~Look
    <3>1. seen /\ superseded /\ f \in edited
      BY <1>1, <2>3, PageMoves DEF pageVars, ShownInv, OnlyShownAttributes
    <3> QED BY <2>3, <3>1, PageMoves, EditedGrows DEF DiffLands
  <2> QED BY <2>1, <2>2, <2>3, UnshownMoves
<1> QED BY <1>1, PageStep, UneditedStep DEF ShownInv, OnlyShownAttributes

-----------------------------------------------------------------------------
\* What is read, and what changes after.

\* S is what a step changes of the account, and every execution that has read it and
\* goes on knows.
Changes(S) ==
    /\ \A f \in Fields \ S : live'[f] = live[f]
    /\ Unsettled' \subseteq Unsettled \cup S
    /\ \A x \in Executions :
          pc'[x] \in {"read", "settle"} /\ pc[x] \in {"read", "settle"} =>
              since[x] \cup S \subseteq since'[x] /\ got'[x] = got[x]

\* An execution that reads the account reads it as it is.
Reads ==
    \A x \in Executions : pc'[x] \in {"read", "settle"} /\ pc[x] \notin {"read", "settle"} =>
        pc'[x] = "read" /\ got'[x] = live /\ live' = live

LEMMA ForgetKeeps ==
    ASSUME TypeOK, NEW x \in Executions, Forget(x), NEW y \in Executions,
           pc'[y] \in {"read", "settle"}
    PROVE  pc[y] = pc'[y] /\ got'[y] = got[y]
BY DEF TypeOK, Forget, Goto

\* A step that forgets its execution, and outdates what it changes.
LEMMA LandingChanges ==
    ASSUME TypeOK, payload' = payload, NEW x \in Executions, Forget(x),
           \/ PatchLands(x) \/ GroupLands(x)
           \/ Outdates({}) /\ UNCHANGED accountVars
    PROVE  Reads /\ \E S : Changes(S)
<1>0. Reads
  BY ForgetKeeps DEF Reads
<1>1. ASSUME NEW S, Outdates(S), \A f \in Fields \ S : live'[f] = live[f],
             Unsettled' \subseteq Unsettled \cup S
      PROVE  Changes(S)
  BY <1>1, ForgetKeeps DEF Changes, Outdates
<1>2. CASE PatchLands(x)
  <2> DEFINE S == {f \in Fields : Patch(x)[f] # live[f]}
  <2>1. Outdates(S) /\ live' = Patch(x) /\ member' = member
    BY <1>2 DEF PatchLands
  <2>2. Unsettled' = Unsettled
    BY <2>1 DEF Unsettled
  <2> QED BY <1>0, <1>1, <2>1, <2>2
<1>3. CASE GroupLands(x)
  <2> DEFINE S == {does[x]} \cap Unsettled
  <2>1. Outdates(S) /\ live' = live
    BY <1>3 DEF GroupLands
  <2>2. payload.add \cap payload.remove = {}
    BY DEF TypeOK, Payloads
  <2>3. Unsettled' \subseteq Unsettled
    BY <1>3, <2>2 DEF GroupLands, Unsettled
  <2> QED BY <1>0, <1>1, <2>1, <2>3
<1>4. CASE Outdates({}) /\ UNCHANGED accountVars
  <2>1. live' = live /\ Unsettled' = Unsettled
    BY <1>4 DEF accountVars, Unsettled
  <2> QED BY <1>0, <1>1, <1>4, <2>1
<1> QED BY <1>2, <1>3, <1>4

LEMMA AccountStep ==
    ASSUME TypeOK, [Next]_vars
    PROVE  Reads /\ \E S : Changes(S)
<1>0. payload' = payload
  BY PayloadStays
<1>a. ASSUME UNCHANGED <<accountVars, executionVars, since>> PROVE Reads /\ Changes({})
  BY <1>0, <1>a DEF Reads, Changes, accountVars, executionVars, Unsettled
<1>1. CASE UNCHANGED vars \/ Look \/ Approve \/ Reject
  <2>1. UNCHANGED <<accountVars, executionVars, since>>
    BY <1>1 DEF vars, Look, Approve, Reject, Decide
  <2> QED BY <1>a, <2>1
<1>2. ASSUME NEW f \in Fields, NEW v \in Values, EditField(f, v)
      PROVE  Reads /\ Changes({f})
  <2>1. Unsettled' = Unsettled /\ UNCHANGED executionVars
    BY <1>0, <1>2 DEF EditField, Unsettled
  <2> QED BY <1>2, <2>1 DEF EditField, Reads, Changes, Outdates, executionVars, TypeOK
<1>3. ASSUME NEW g \in Groups, EditMember(g)
      PROVE  Reads /\ Changes({g})
  <2>1. Unsettled' \subseteq Unsettled \cup {g}
    BY <1>0, <1>3 DEF EditMember, Unsettled
  <2>2. live' = live /\ UNCHANGED executionVars
    BY <1>3 DEF EditMember
  <2> QED BY <1>3, <2>1, <2>2 DEF EditMember, Reads, Changes, Outdates, executionVars
<1>4. ASSUME NEW x \in Executions, Execution(x) PROVE Reads /\ \E S : Changes(S)
  <2>1. ASSUME NEW step \in Steps, Begin(x, step) PROVE Reads /\ Changes({})
    <3>1. Unsettled' = Unsettled
      BY <1>0, <2>1 DEF Begin, accountVars, Unsettled
    <3> QED BY <2>1, <3>1 DEF Begin, Goto, Reads, Changes, accountVars, TypeOK
  <2>2. CASE GetUser(x) \/ VerifyPasses(x)
    <3>1. Unsettled' = Unsettled
      BY <1>0, <2>2 DEF GetUser, VerifyPasses, accountVars, Unsettled
    <3>2. Reads /\ Changes({})
      BY <2>2, <3>1 DEF GetUser, VerifyPasses, Goto, Reads, Changes, accountVars, TypeOK
    <3> QED BY <3>2
  <2>3. CASE ComputeDiff(x) \/ Verified(x)
    BY <1>0, <2>3, LandingChanges DEF ComputeDiff, DiffLands, Verified, Settle
  <2>4. CASE ApplyAttributes(x) \/ ChangeGroup(x)
    BY <1>0, <2>4, LandingChanges DEF ApplyAttributes, ChangeGroup, Settle
  <2>5. CASE Fails(x)
    BY <1>0, <2>5, LandingChanges DEF Fails, DiffLands
  <2> QED BY <1>4, <2>1, <2>2, <2>3, <2>4, <2>5 DEF Execution
<1> QED BY <1>1, <1>2, <1>3, <1>4 DEF Next, Others

LEMMA ReadStep ==
    ASSUME TypeOK, ReadInv, [Next]_vars
    PROVE  ReadInv'
<1>1. PICK S : Changes(S)
  BY AccountStep
<1>2. Reads
  BY AccountStep
<1>3. ASSUME NEW x \in Executions, pc'[x] = "read" PROVE pc[x] # "settle"
  BY <1>3 DEF Next, vars, executionVars, Others, EditField, EditMember, Look, Approve, Reject,
          Decide, Execution, Begin, GetUser, VerifyPasses, ComputeDiff, Verified, ApplyAttributes,
          ChangeGroup, Fails, Settle, Forget, Goto, TypeOK
<1>4. ASSUME NEW x \in Executions, pc'[x] = "read", NEW f \in Fields \ since'[x]
      PROVE  got'[x][f] = live'[f]
  <2>1. CASE pc[x] = "read"
    BY <1>1, <1>4, <2>1 DEF Changes, ReadInv
  <2>2. CASE pc[x] # "read"
    BY <1>2, <1>3, <1>4, <2>2 DEF Reads
  <2> QED BY <2>1, <2>2
<1> QED BY <1>4 DEF ReadInv

LEMMA VerifiedStep ==
    ASSUME TypeOK, ReadInv, VerifiedIsAsRequested, [Next]_vars
    PROVE  VerifiedIsAsRequested'
<1>0. payload' = payload /\ Requested' = Requested /\ Requested \subseteq Fields
  BY PayloadStays, RequestedFields
<1>1. PICK S : Changes(S)
  BY AccountStep
<1>2. Reads
  BY AccountStep
<1>3. ASSUME NEW x \in Executions, pc'[x] = "settle", pc[x] # "settle" PROVE VerifyPasses(x)
  BY <1>3 DEF Next, vars, executionVars, Others, EditField, EditMember, Look, Approve, Reject,
          Decide, Execution, Begin, GetUser, VerifyPasses, ComputeDiff, Verified, ApplyAttributes,
          ChangeGroup, Fails, Settle, Forget, Goto, TypeOK
<1>4. ASSUME NEW x \in Executions, pc'[x] = "settle"
      PROVE  /\ \A f \in Requested \ since'[x] : live'[f] = payload.set[f]
             /\ Unsettled' \subseteq since'[x]
  <2>1. CASE pc[x] = "settle"
    BY <1>0, <1>1, <1>4, <2>1 DEF Changes, VerifiedIsAsRequested
  <2>2. CASE VerifyPasses(x)
    <3>1. /\ pc[x] = "read" /\ Unsettled = {} /\ live' = live /\ member' = member /\ since' = since
          /\ \A f \in Requested : got[x][f] = payload.set[f]
      BY <2>2 DEF VerifyPasses, accountVars
    <3>2. Unsettled' = {}
      BY <1>0, <3>1 DEF Unsettled
    <3> QED BY <1>0, <3>1, <3>2 DEF ReadInv
  <2> QED BY <1>3, <1>4, <2>1, <2>2
<1> QED BY <1>0, <1>4 DEF VerifiedIsAsRequested

-----------------------------------------------------------------------------

LEMMA InvariantStep == IInv /\ [Next]_vars => IInv'
BY TypeStep, PlanStep, ShownStep, ReadStep, VerifiedStep DEF IInv

\* The inductive invariant: types, how far the plan is, what was shown, what was read.
THEOREM Inductive == Spec => []IInv
BY InitIInv, InvariantStep, PTL DEF Spec

\* Every variable keeps its shape, whatever the account and whoever edits it.
THEOREM TypeCorrect == Spec => []TypeOK
<1>1. IInv => TypeOK
  BY DEF IInv
<1> QED BY <1>1, Inductive, PTL

\* An attribute the approver who looked was not shown as changing is changed only if the
\* diff was recorded again after the look, and somebody else had edited the attribute.
THEOREM ShownIsDone == Spec => []OnlyShownAttributes
<1>1. IInv => OnlyShownAttributes
  BY DEF IInv, ShownInv
<1> QED BY <1>1, Inductive, PTL

\* A patch leaves what needs no change as it is.
THEOREM NothingIsLost == Spec => []BystandersSurvive
<1>1. IInv => BystandersSurvive
  <2> SUFFICES ASSUME IInv, NEW x \in Executions, Applying(x),
                      NEW f \in Fields \ (Outstanding(x) \cup {"otherOrganization"} \cup since[x])
               PROVE  Patch(x)[f] = live[f]
    BY DEF BystandersSurvive
  <2>1. got[x][f] = live[f]
    BY DEF IInv, ReadInv, Applying
  <2> QED BY <2>1 DEF Patch, PatchValue
<1> QED BY <1>1, Inductive, PTL

\* What verify-update passed is as requested, up to what changed since it read it.
THEOREM VerifiedIsSo == Spec => []VerifiedIsAsRequested
<1>1. IInv => VerifiedIsAsRequested
  BY DEF IInv
<1> QED BY <1>1, Inductive, PTL

=============================================================================
