--------------------------- MODULE AdmissionProofs ---------------------------
(***************************************************************************)
(* Proofs about Admission, for every policy document whose entries are     *)
(* step policies, every set of payloads and every number of requests.      *)
(***************************************************************************)
EXTENDS Admission, Integers, TLAPS

\* A request document is one buildNewRequest wrote: its steps carry the flag
\* their snapshot resolves to and keys of their own, and the snapshot's entries
\* are step policies.
WrittenBy(r, plan, slice) ==
    /\ built[r].steps = StepDocuments(r, plan, slice)
    /\ built[r].policySnapshot = slice
    /\ \A name \in DOMAIN slice : slice[name] \in StepPolicy

AdmissionInv ==
    /\ document \in PolicyDocuments
    /\ built = [r \in RequestIds |-> built[r]]
    /\ \A r \in Built : \E plan, slice : WrittenBy(r, plan, slice)

\* Normalising a document leaves only step policies: its own, or the defaults.
LEMMA SliceEntries ==
    ASSUME NEW doc \in PolicyDocuments, NEW phase \in Phases,
           NEW name \in DOMAIN NormalisePolicy(doc)[phase]
    PROVE  NormalisePolicy(doc)[phase][name] \in StepPolicy
<1>1. CASE phase \in DOMAIN doc
  <2>1. NormalisePolicy(doc)[phase] = doc[phase]
    BY <1>1 DEF NormalisePolicy
  <2> QED BY <1>1, <2>1, PolicyAssumption
<1>2. CASE phase \notin DOMAIN doc
  <2>1. NormalisePolicy(doc)[phase] = DefaultPolicy[phase]
    BY <1>2 DEF NormalisePolicy
  <2>2. DefaultPolicy[phase] \in {[n \in {"create-user"} |-> NoApproval], NoPolicy,
            [n \in {"apply-attributes"} |-> Gate("approver")],
            [n \in {"delete-user"} |-> Gate("admin")]}
    BY DEF DefaultPolicy, Phases
  <2>3. NoApproval \in StepPolicy /\ Gate("approver") \in StepPolicy /\ Gate("admin") \in StepPolicy
    BY DEF NoApproval, Gate, StepPolicy
  <2> QED BY <2>1, <2>2, <2>3 DEF NoPolicy
<1> QED BY <1>1, <1>2

LEMMA AdmissionInitInv == AdmissionInit => AdmissionInv
BY DEF AdmissionInit, AdmissionInv, Built

LEMMA AdmissionStep ==
    ASSUME AdmissionInv, [AdmissionNext]_admissionVars
    PROVE  AdmissionInv'
<1>1. CASE UNCHANGED admissionVars
  BY <1>1 DEF AdmissionInv, admissionVars, Built, WrittenBy
<1>2. ASSUME NEW doc \in PolicyDocuments, EditPolicy(doc) PROVE AdmissionInv'
  BY <1>2 DEF AdmissionInv, EditPolicy, Built, WrittenBy
<1>3. ASSUME NEW r \in RequestIds, NEW phase \in Phases, NEW payload \in Payloads,
             BuildRequest(r, phase, payload)
      PROVE  AdmissionInv'
  <2> DEFINE plan == StepPlanFor(phase, payload)
  <2>0. PICK slice : slice = NormalisePolicy(document)[phase]
    OBVIOUS
  <2> DEFINE doc == [phase |-> phase, steps |-> StepDocuments(r, plan, slice),
                     policySnapshot |-> slice]
  <2>1. document' \in PolicyDocuments /\ built' = [built EXCEPT ![r] = doc]
    BY <1>3, <2>0 DEF BuildRequest, AdmissionInv
  <2>2. built' = [q \in RequestIds |-> built'[q]]
    BY <2>1 DEF AdmissionInv
  <2>3. ASSUME NEW q \in Built' PROVE \E p, s : WrittenBy(q, p, s)'
    <3>1. q \in RequestIds /\ built'[q] # Unbuilt
      BY DEF Built
    <3>2. CASE q = r
      <4>1. built'[q] = doc
        BY <2>1, <3>2 DEF AdmissionInv
      <4>2. \A name \in DOMAIN slice : slice[name] \in StepPolicy
        BY <2>0, SliceEntries DEF AdmissionInv
      <4>3. WrittenBy(q, plan, slice)'
        <5> HIDE DEF plan
        <5> QED BY <3>2, <4>1, <4>2 DEF WrittenBy, StepDocuments
      <4> QED BY <4>3
    <3>3. CASE q # r
      <4>1. built'[q] = built[q]
        BY <2>1, <3>1, <3>3 DEF AdmissionInv
      <4>2. PICK p, s : WrittenBy(q, p, s)
        BY <3>1, <4>1 DEF AdmissionInv, Built
      <4> QED BY <4>1, <4>2 DEF WrittenBy
    <3> QED BY <3>2, <3>3
  <2> QED BY <2>1, <2>2, <2>3 DEF AdmissionInv
<1> QED BY <1>1, <1>2, <1>3 DEF AdmissionNext

LEMMA AdmissionInductive == AdmissionSpec => []AdmissionInv
BY AdmissionInitInv, AdmissionStep, PTL DEF AdmissionSpec

\* A deletion waits for approval whatever the policy documents say: the floor of
\* resolveStepPolicy holds for every document, not only the ones a run tries.
THEOREM DeletionGated == AdmissionSpec => []DeletionStaysGated
<1>1. AdmissionInv => DeletionStaysGated
  <2> SUFFICES ASSUME AdmissionInv, NEW r \in Built, NEW k \in StepsOf(r),
                      built[r].steps[k].name = "delete-user"
               PROVE  LET policyOf == ResolveStepPolicy(built[r].policySnapshot, "delete-user")
                      IN  /\ built[r].steps[k].requiresApproval
                          /\ policyOf.requiresApproval
                          /\ "delete-user" \notin DOMAIN built[r].policySnapshot
                                => policyOf.approverRole = "admin"
    BY DEF DeletionStaysGated
  <2>1. PICK plan, slice : WrittenBy(r, plan, slice)
    BY DEF AdmissionInv
  <2>2. /\ ResolveStepPolicy(slice, "delete-user").requiresApproval
        /\ "delete-user" \notin DOMAIN slice
              => ResolveStepPolicy(slice, "delete-user").approverRole = "admin"
    BY <2>1 DEF WrittenBy, ResolveStepPolicy, MandatoryApprovalSteps, NoApproval, StepPolicy
  <2>3. built[r].steps[k].requiresApproval
          = ResolveStepPolicy(slice, built[r].steps[k].name).requiresApproval
    BY <2>1 DEF WrittenBy, StepDocuments, PersistedFlag, StepsOf
  <2> QED BY <2>1, <2>2, <2>3 DEF WrittenBy
<1> QED BY <1>1, AdmissionInductive, PTL

\* No two steps of any requests share an idempotency key, in plans of any length.
THEOREM KeysDistinct == AdmissionSpec => []KeysAreDistinct
<1>1. AdmissionInv => KeysAreDistinct
  <2> SUFFICES ASSUME AdmissionInv, NEW q \in Built, NEW r \in Built,
                      NEW j \in StepsOf(q), NEW k \in StepsOf(r),
                      built[q].steps[j].idempotencyKey = built[r].steps[k].idempotencyKey
               PROVE  q = r /\ j = k
    BY DEF KeysAreDistinct
  <2>1. PICK p1, s1 : WrittenBy(q, p1, s1)
    BY DEF AdmissionInv
  <2>2. PICK p2, s2 : WrittenBy(r, p2, s2)
    BY DEF AdmissionInv
  <2>3. /\ j \in 1..Len(p1) /\ k \in 1..Len(p2)
        /\ built[q].steps[j].idempotencyKey = <<q, <<j - 1, p1[j].name>>, p1[j].input>>
        /\ built[r].steps[k].idempotencyKey = <<r, <<k - 1, p2[k].name>>, p2[k].input>>
    BY <2>1, <2>2 DEF WrittenBy, StepDocuments, StepsOf, DeriveIdempotencyKey, StepId
  <2>4. q = r /\ j - 1 = k - 1
    <3>1. \A a1, b1, c1, a2, b2, c2 :
             <<a1, b1, c1>> = <<a2, b2, c2>> => a1 = a2 /\ b1 = b2
      OBVIOUS
    <3>2. \A a1, b1, a2, b2 : <<a1, b1>> = <<a2, b2>> => a1 = a2
      OBVIOUS
    <3>3. PICK a : a = <<j - 1, p1[j].name>>
      OBVIOUS
    <3>4. PICK b : b = <<k - 1, p2[k].name>>
      OBVIOUS
    <3>5. <<q, a, p1[j].input>> = <<r, b, p2[k].input>>
      BY <2>3, <3>3, <3>4, Zenon
    <3>6. q = r /\ a = b
      BY <3>1, <3>5, Zenon
    <3> QED BY <3>2, <3>3, <3>4, <3>6, Zenon
  <2>5. j \in Int /\ k \in Int
    BY <2>3
  <2> QED BY <2>4, <2>5
<1> QED BY <1>1, AdmissionInductive, PTL

=============================================================================
