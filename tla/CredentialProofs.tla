-------------------------- MODULE CredentialProofs --------------------------
(***************************************************************************)
(* Proofs about CredentialHandoff: for any number of requests, workers and *)
(* retrievals, however the key is rotated and whatever fails, a password   *)
(* is in one place at a time, and the handoff implements OneTimePassword;  *)
(* and, until two executions overlap, what can be handed over signs in.    *)
(***************************************************************************)
EXTENDS CredentialHandoff, TLAPS

\* A request that was submitted says what it does to the password.
KindsKnown == \A r \in Requests : status[r] # "new" => kind[r] \in Kinds

\* A retrieval under way has a record to read.
DocsKnown == \A a \in Readers : rpc[a] # "idle" => doc[a] \in Requests

\* What a worker is about to store is the password in its hand.
HandsKnown ==
    \A w \in Workers :
        /\ pc[w] \in {"seal", "stash", "commit"} => hand[w] # NoPassword
        /\ pc[w] \in {"stash", "commit"} => sealed[w].password = hand[w]

\* A text that can be decrypted is that of a password, and so is one that was claimed.
TextsKnown == \A r \in Requests : handoff[r].text => handoff[r].password # NoPassword
ClaimsKnown == \A a \in Readers : rpc[a] = "open" => claimed[a].password # NoPassword

IInv == /\ TypeOK /\ KindsKnown /\ DocsKnown /\ HandsKnown /\ TextsKnown /\ ClaimsKnown
        /\ OneCopy

-----------------------------------------------------------------------------

LEMMA InitIInv == Init => IInv
<1> SUFFICES ASSUME Init PROVE IInv
  OBVIOUS
<1> USE HandoffAssumption
<1>1. /\ 1 \in Versions /\ NoRecord \in Records
      /\ NoPointer \in [doc : Requests \cup {NoDoc}, rotated : BOOLEAN]
  BY DEF Versions, NoRecord, Records, NoPassword, NoPointer
<1>2. TypeOK
  <2>1. /\ [version |-> 1, until |-> 0] \in [version : Versions, until : Nat]
        /\ 0 \in 0..MaxTime /\ 0 \in 0..MaxPasswords /\ 0 \in 0..MaxResumes /\ 0 \in 0..MaxFaults
    BY <1>1
  <2>2. /\ "new" \in RequestState /\ "idle" \in WorkerLabels /\ "idle" \in ReaderLabels
    BY DEF RequestState, WorkerLabels, ReaderLabels
  <2> QED BY <1>1, <2>1, <2>2 DEF Init, TypeOK, Absent, NoPassword, NoKey
<1>3. KindsKnown /\ DocsKnown /\ HandsKnown /\ TextsKnown /\ ClaimsKnown
  BY DEF Init, KindsKnown, DocsKnown, HandsKnown, TextsKnown, ClaimsKnown, NoRecord
<1>4. OneCopy
  <2> SUFFICES ASSUME NEW p \in Passwords
               PROVE  HeldBy(p) = {} /\ SealedIn(p) = {} /\ TakenBy(p) = {} /\ given[p] = 0
    BY DEF OneCopy
  <2> QED BY DEF Init, Passwords, HeldBy, SealedIn, TakenBy, NoPassword, NoRecord
<1> QED BY <1>2, <1>3, <1>4 DEF IInv

-----------------------------------------------------------------------------
\* Where a password may be after a step: each place it is in, it was in, or it came
\* from the place before. Whoever had it before that no longer has it.

\* What the step does to the places of one password.
Traced(p) ==
    /\ issued <= issued' /\ given'[p] = given[p]
    /\ (HeldBy(p))' # {} => HeldBy(p) # {} \/ p > issued
    /\ (SealedIn(p))' # {} => HeldBy(p) # {} \/ SealedIn(p) # {}
    /\ (TakenBy(p))' # {} => SealedIn(p) # {} \/ TakenBy(p) # {}

\* The one step that hands the password over.
Given(p) ==
    /\ issued' = issued /\ TakenBy(p) # {} /\ given'[p] = given[p] + 1
    /\ (HeldBy(p))' = {} /\ (SealedIn(p))' = {} /\ (TakenBy(p))' = {}

PasswordStep(p) ==
    \/ Phase'[p] = Phase[p] /\ given'[p] = given[p]
    \/ /\ <<Phase[p], Phase'[p]>> \in OneTime!Moves
       /\ given'[p] = IF Phase'[p] = "given" THEN given[p] + 1 ELSE given[p]

\* Each traced step is one the abstract password may make.
LEMMA TracedStep ==
    ASSUME TypeOK, TypeOK', OneCopy, OneCopy', NEW p \in Passwords, Traced(p) \/ Given(p)
    PROVE  PasswordStep(p)
<1>1. /\ p \in Nat /\ issued \in Nat /\ issued' \in Nat /\ given[p] \in Nat /\ given'[p] \in Nat
  BY HandoffAssumption DEF TypeOK, Passwords
<1>2. /\ HeldBy(p) # {} => SealedIn(p) = {} /\ TakenBy(p) = {} /\ given[p] = 0
      /\ SealedIn(p) # {} => TakenBy(p) = {} /\ given[p] = 0
      /\ TakenBy(p) # {} => given[p] = 0
      /\ p > issued => HeldBy(p) = {} /\ SealedIn(p) = {} /\ TakenBy(p) = {} /\ given[p] = 0
  BY DEF OneCopy
<1>3. /\ (HeldBy(p))' # {} => (SealedIn(p))' = {} /\ (TakenBy(p))' = {} /\ given'[p] = 0
      /\ (SealedIn(p))' # {} => (TakenBy(p))' = {} /\ given'[p] = 0
      /\ (TakenBy(p))' # {} => given'[p] = 0
      /\ p > issued' => (HeldBy(p))' = {} /\ (SealedIn(p))' = {} /\ (TakenBy(p))' = {} /\ given'[p] = 0
  BY DEF OneCopy
<1>4. Phase[p] = CASE p > issued -> "unborn"
                   [] HeldBy(p) # {} -> "in-hand"
                   [] SealedIn(p) # {} -> "sealed"
                   [] TakenBy(p) # {} -> "taken"
                   [] given[p] > 0 -> "given"
                   [] OTHER -> "gone"
  BY DEF Phase
<1>5. Phase'[p] = CASE p > issued' -> "unborn"
                    [] (HeldBy(p))' # {} -> "in-hand"
                    [] (SealedIn(p))' # {} -> "sealed"
                    [] (TakenBy(p))' # {} -> "taken"
                    [] given'[p] > 0 -> "given"
                    [] OTHER -> "gone"
  BY DEF Phase
<1> DEFINE H == HeldBy(p) # {}
           S == SealedIn(p) # {}
           T == TakenBy(p) # {}
           H2 == (HeldBy(p))' # {}
           S2 == (SealedIn(p))' # {}
           T2 == (TakenBy(p))' # {}
<1>6. CASE Given(p)
  <2>1. Phase[p] = "taken" /\ Phase'[p] = "given"
    BY <1>1, <1>2, <1>3, <1>4, <1>5, <1>6 DEF Given
  <2> QED BY <2>1, <1>6 DEF PasswordStep, Given, OneTime!Moves
<1>7. CASE Traced(p)
  <2> USE <1>1, <1>2, <1>3, <1>7 DEF Traced, PasswordStep, OneTime!Moves
  <2>1. CASE p > issued'
    BY <2>1, <1>4, <1>5
  <2>2. CASE p <= issued' /\ p > issued
    BY <2>2, <1>4, <1>5
  <2>3. CASE p <= issued /\ HeldBy(p) # {}
    BY <2>3, <1>4, <1>5
  <2>4. CASE p <= issued /\ SealedIn(p) # {}
    BY <2>4, <1>4, <1>5
  <2>5. CASE p <= issued /\ TakenBy(p) # {}
    BY <2>5, <1>4, <1>5
  <2>6. CASE p <= issued /\ HeldBy(p) = {} /\ SealedIn(p) = {} /\ TakenBy(p) = {}
    BY <2>6, <1>4, <1>5
  <2> QED BY <2>1, <2>2, <2>3, <2>4, <2>5, <2>6
<1> QED BY <1>6, <1>7

-----------------------------------------------------------------------------
\* Type correctness, action by action.

WorldTypes ==
    /\ now \in 0..MaxTime /\ issued \in 0..MaxPasswords /\ account \in 0..MaxPasswords
    /\ kind \in [Requests -> Kinds \cup {"none"}]
    /\ status \in [Requests -> RequestState]
    /\ resumes \in 0..MaxResumes /\ faults \in 0..MaxFaults
    /\ KindsKnown

RecordTypes ==
    /\ credential \in [Requests -> [doc : Requests \cup {NoDoc}, rotated : BOOLEAN]]
    /\ handoff \in [Requests -> Records]
    /\ TextsKnown

KeyTypes ==
    /\ latest \in Versions
    /\ version \in [Versions -> {"none", "enabled", "disabled", "destroyed"}]
    /\ replacedAt \in [Versions -> Nat]

CacheTypes == cache \in [Workers -> [version : Versions, until : Nat]]

LocalTypes ==
    /\ pc \in [Workers -> WorkerLabels]
    /\ job \in [Workers -> Requests \cup {NoDoc}]
    /\ hand \in [Workers -> 0..MaxPasswords]
    /\ sealed \in [Workers -> Records]
    /\ current \in [Workers -> Requests \cup {NoDoc}]
    /\ HandsKnown

ReadTypes ==
    /\ rpc \in [Readers -> ReaderLabels]
    /\ doc \in [Readers -> Requests \cup {NoDoc}]
    /\ pre \in [Readers -> {NoKey} \cup Versions]
    /\ claimed \in [Readers -> Records]
    /\ known \in [Readers -> SUBSET Versions]
    /\ DocsKnown /\ ClaimsKnown

HistTypes == given \in [Passwords -> Nat] /\ lost \in SUBSET Passwords /\ overlapped \in BOOLEAN

Known == /\ WorldTypes /\ RecordTypes /\ KeyTypes /\ CacheTypes /\ LocalTypes /\ ReadTypes
         /\ HistTypes

LEMMA KnownParts == Known <=> TypeOK /\ KindsKnown /\ DocsKnown /\ HandsKnown /\ TextsKnown /\ ClaimsKnown
BY DEF Known, TypeOK, WorldTypes, RecordTypes, KeyTypes, CacheTypes, LocalTypes, ReadTypes, HistTypes

LEMMA Same ==
    /\ RecordTypes /\ UNCHANGED <<credential, handoff>> => RecordTypes'
    /\ KeyTypes /\ UNCHANGED keyVars => KeyTypes'
    /\ CacheTypes /\ UNCHANGED cache => CacheTypes'
    /\ LocalTypes /\ UNCHANGED <<pc, job, hand, sealed, current>> => LocalTypes'
    /\ ReadTypes /\ UNCHANGED readVars => ReadTypes'
    /\ HistTypes /\ UNCHANGED histVars => HistTypes'
<1>1. RecordTypes /\ UNCHANGED <<credential, handoff>> => RecordTypes'
  BY DEF RecordTypes, TextsKnown
<1>2. KeyTypes /\ UNCHANGED keyVars => KeyTypes'
  BY DEF KeyTypes, keyVars
<1>3. LocalTypes /\ UNCHANGED <<pc, job, hand, sealed, current>> => LocalTypes'
  BY DEF LocalTypes, HandsKnown
<1>4. ReadTypes /\ UNCHANGED readVars => ReadTypes'
  BY DEF ReadTypes, readVars, DocsKnown, ClaimsKnown
<1>5. (HistTypes /\ UNCHANGED histVars => HistTypes') /\ (CacheTypes /\ UNCHANGED cache => CacheTypes')
  BY DEF HistTypes, histVars, CacheTypes
<1> QED BY <1>1, <1>2, <1>3, <1>4, <1>5

LEMMA SameWorld ==
    ASSUME WorldTypes, UNCHANGED <<now, account, issued, kind, status, resumes>>,
           faults' \in 0..MaxFaults
    PROVE  WorldTypes'
BY DEF WorldTypes, KindsKnown

LEMMA Fails == ASSUME WorldTypes, Fault PROVE faults' \in 0..MaxFaults
BY HandoffAssumption DEF Fault, WorldTypes

LEMMA Labels ==
    /\ \A l \in {"idle", "probe", "insert", "current", "reset", "seal", "stash", "commit",
                 "confirm", "delete", "settle"} : l \in WorkerLabels
    /\ \A l \in {"idle", "preread", "claim", "open"} : l \in ReaderLabels
    /\ \A l \in {"new", "submitted", "running", "refused", "failed", "done"} : l \in RequestState
BY DEF WorkerLabels, ReaderLabels, RequestState

LEMMA Values ==
    /\ NoRecord \in Records /\ 1 \in Versions /\ 0 \in 0..MaxPasswords
    /\ [version |-> 1, until |-> 0] \in [version : Versions, until : Nat]
    /\ Versions \in SUBSET Nat
BY HandoffAssumption DEF NoRecord, Records, Versions, NoPassword

LEMMA RecordValues ==
    ASSUME NEW c \in Records
    PROVE  /\ [c EXCEPT !.text = FALSE] \in Records
           /\ [c EXCEPT !.text = FALSE, !.retrieved = TRUE] \in Records
           /\ Superseded(c) \in Records
           /\ c.password \in 0..MaxPasswords /\ c.key \in Versions /\ c.expires \in Nat
BY DEF Records, Superseded

LEMMA SealedRecord ==
    ASSUME NEW c \in Records, NEW p \in 0..MaxPasswords, NEW k \in Versions, NEW e \in Nat
    PROVE  [c EXCEPT !.password = p, !.key = k, !.text = TRUE, !.expires = e, !.exists = TRUE]
               \in {d \in Records : d.password = p}
<1> DEFINE d == [c EXCEPT !.password = p, !.key = k, !.text = TRUE, !.expires = e, !.exists = TRUE]
<1>1. d \in Records
  BY DEF Records
<1>2. d.password = p
  BY DEF Records
<1> QED BY <1>1, <1>2

\* A record that can be handed over can be decrypted.
LEMMA ValidText == ASSUME NEW r, Valid(r) PROVE handoff[r].exists /\ handoff[r].text
<1>1. CASE handoff[r].text = TRUE
  BY <1>1 DEF Valid
<1>2. CASE handoff[r].text # TRUE
  BY <1>2 DEF Valid, CredentialState
<1> QED BY <1>1, <1>2

LEMMA ValidUnexpired == ASSUME NEW r, Valid(r) PROVE ~(handoff[r].expires <= now)
<1>1. CASE (handoff[r].expires <= now) = FALSE
  BY <1>1
<1>2. CASE (handoff[r].expires <= now) # FALSE
  BY <1>2 DEF Valid, CredentialState
<1> QED BY <1>1, <1>2

LEMMA EnvironmentKnown == ASSUME Known, Environment PROVE Known'
<1> USE Labels, Values, HandoffAssumption, Same, SameWorld DEF Known
<1>1. CASE Tick
  <2>1. WorldTypes'
    BY <1>1 DEF Tick, WorldTypes, KindsKnown
  <2> QED BY <1>1, <2>1 DEF Tick, execVars
<1>2. CASE AddVersion
  <2>1. KeyTypes'
    BY <1>2 DEF AddVersion, KeyTypes, WorldTypes, Versions
  <2> QED BY <1>2, <2>1 DEF AddVersion, execVars, WorldTypes
<1>3. ASSUME NEW v \in Versions, DisableVersion(v) \/ DestroyVersion(v) PROVE Known'
  <2>1. KeyTypes'
    BY <1>3 DEF DisableVersion, DestroyVersion, Retire, KeyTypes
  <2> QED BY <1>3, <2>1 DEF DisableVersion, DestroyVersion, Retire, execVars, WorldTypes
<1>4. ASSUME NEW r \in Requests, FirestoreTtl(r) PROVE Known'
  <2>1. RecordTypes'
    <3>1. ~NoRecord.text
      BY DEF NoRecord
    <3> QED BY <1>4, <3>1 DEF FirestoreTtl, RecordTypes, TextsKnown
  <2> QED BY <1>4, <2>1 DEF FirestoreTtl, execVars, WorldTypes
<1>5. ASSUME NEW r \in Requests, Validate(r) PROVE Known'
  <2>1. WorldTypes'
    BY <1>5 DEF Validate, WorldTypes, KindsKnown
  <2> QED BY <1>5, <2>1 DEF Validate, execVars
<1>6. ASSUME NEW r \in Requests, Resume(r) PROVE Known'
  <2>1. WorldTypes'
    BY <1>6 DEF Resume, WorldTypes, KindsKnown
  <2> QED BY <1>6, <2>1 DEF Resume, execVars
<1>7. ASSUME NEW r \in Requests, NEW k \in Kinds, Submit(r, k) PROVE Known'
  <2>1. WorldTypes'
    BY <1>7 DEF Submit, WorldTypes, KindsKnown
  <2> QED BY <1>7, <2>1 DEF Submit, execVars
<1> QED BY <1>1, <1>2, <1>3, <1>4, <1>5, <1>6, <1>7 DEF Environment

LEMMA LeaveTypes == ASSUME LocalTypes, NEW w \in Workers, Leave(w) PROVE LocalTypes'
BY Labels, Values DEF LocalTypes, HandsKnown, Leave, Goto, NoPassword

LEMMA SettledTypes ==
    ASSUME WorldTypes, NEW r, NEW outcome \in RequestState, SettleAs(r, outcome),
           UNCHANGED <<now, account, issued, kind, resumes>>, faults' \in 0..MaxFaults
    PROVE  WorldTypes'
BY DEF WorldTypes, KindsKnown, SettleAs

LEMMA PasswordSet == ASSUME Known, NEW w \in Workers, SetPassword(w) PROVE Known'
<1> USE Labels, HandoffAssumption, Same DEF Known
<1>1. issued' \in 0..MaxPasswords /\ account' \in 0..MaxPasswords
  BY DEF SetPassword, WorldTypes
<1>2. WorldTypes'
  BY <1>1 DEF SetPassword, WorldTypes, KindsKnown
<1>3. LocalTypes'
  <2>1. issued + 1 # NoPassword
    BY DEF WorldTypes, NoPassword
  <2>2. hand' \in [Workers -> 0..MaxPasswords] /\ pc' = [pc EXCEPT ![w] = "seal"]
    BY <1>1 DEF SetPassword, Goto, LocalTypes
  <2> QED BY <2>1, <2>2 DEF SetPassword, LocalTypes, HandsKnown
<1> QED BY <1>2, <1>3 DEF SetPassword

LEMMA ExecutionKnown == ASSUME Known, NEW w \in Workers, Execution(w) PROVE Known'
<1> USE Labels, Values, HandoffAssumption, Same DEF Known
<1>0. faults \in 0..MaxFaults
  BY DEF WorldTypes
<1>1. ASSUME NEW r \in Requests, Begin(w, r) PROVE Known'
  <2>1. kind[r] \in Kinds
    BY <1>1 DEF Begin, WorldTypes, KindsKnown
  <2>2. FirstMove(r) \in WorkerLabels
    BY <2>1 DEF FirstMove, Kinds
  <2>3. FirstMove(r) \notin {"seal", "stash", "commit"}
    BY <2>1 DEF FirstMove, Kinds
  <2>5. LocalTypes'
    BY <1>1, <2>2, <2>3 DEF Begin, LocalTypes, HandsKnown
  <2>4. HistTypes'
    BY <1>1 DEF Begin, HistTypes
  <2> QED BY <1>0, <1>1, <2>4, <2>5, SameWorld DEF Begin
<1>2. CASE Probe(w)
  <2>1. LocalTypes'
    BY <1>2 DEF Probe, Goto, LocalTypes, HandsKnown
  <2> QED BY <1>0, <1>2, <2>1, SameWorld DEF Probe
<1>3. CASE InsertUser(w) \/ ResetPassword(w)
  BY <1>3, PasswordSet DEF InsertUser, ResetPassword
<1>4. CASE SetPasswordRefused(w)
  BY <1>0, <1>4, LeaveTypes, SettledTypes DEF SetPasswordRefused
<1>5. CASE Seal(w)
  <2>1. LatestFor(w) \in Versions /\ now \in Nat /\ hand[w] \in 0..MaxPasswords
    BY DEF LatestFor, CacheTypes, KeyTypes, WorldTypes, LocalTypes, HandsKnown
  <2>5. now + CredentialTtl \in Nat
    BY <2>1
  <2>2. [NoRecord EXCEPT !.password = hand[w], !.key = LatestFor(w), !.text = TRUE,
                         !.expires = now + CredentialTtl, !.exists = TRUE]
        \in {c \in Records : c.password = hand[w]}
    BY <2>1, <2>5, SealedRecord
  <2>6. sealed' \in [Workers -> Records] /\ sealed'[w].password = hand[w]
    BY <1>5, <2>2 DEF Seal, LocalTypes
  <2>7. \A v \in Workers : v # w => sealed'[v] = sealed[v]
    BY <1>5 DEF Seal, LocalTypes
  <2>8. \E l \in {"stash", "commit"} : pc' = [pc EXCEPT ![w] = l]
    BY <1>5 DEF Seal, Goto
  <2>9. UNCHANGED <<job, hand, current>> /\ pc[w] = "seal"
    BY <1>5 DEF Seal
  <2>3. LocalTypes'
    BY <2>6, <2>7, <2>8, <2>9 DEF LocalTypes, HandsKnown
  <2>4. CacheTypes'
    BY <1>5, <2>1 DEF Seal, CacheTypes, KeyTypes
  <2> QED BY <1>0, <1>5, <2>3, <2>4, SameWorld DEF Seal
<1>6. CASE Stash(w)
  <2>1. LocalTypes' /\ RecordTypes'
    BY <1>6 DEF Stash, Goto, LocalTypes, HandsKnown, RecordTypes, TextsKnown, NoPassword
  <2> QED BY <1>0, <1>6, <2>1, SameWorld DEF Stash
<1>7. CASE ReadCurrent(w)
  <2>1. CurrentFor \in SUBSET Requests
    BY DEF CurrentFor
  <2>2. CASE UNCHANGED <<status, job, hand, sealed>>
    <3>1. PICK d \in Requests \cup {NoDoc} : current' = [current EXCEPT ![w] = d]
      BY <1>7, <2>1, <2>2 DEF ReadCurrent, Leave
    <3>2. pc' = [pc EXCEPT ![w] = "reset"] \/ pc' = [pc EXCEPT ![w] = "confirm"] \/ pc' = [pc EXCEPT ![w] = "idle"]
      BY <1>7 DEF ReadCurrent, Goto, Leave
    <3>3. LocalTypes'
      BY <2>2, <3>1, <3>2 DEF LocalTypes, HandsKnown
    <3> QED BY <1>0, <1>7, <2>2, <3>3, SameWorld DEF ReadCurrent
  <2>3. CASE SettleAs(job[w], "failed") /\ Leave(w)
    BY <1>0, <1>7, <2>3, LeaveTypes, SettledTypes DEF ReadCurrent
  <2> QED BY <1>7, <2>2, <2>3 DEF ReadCurrent
<1>8. CASE CommitRotation(w)
  <2>1. Rotated(w) \in [Requests -> Records]
    <3> DEFINE set == [handoff EXCEPT ![job[w]] = sealed[w]]
    <3>1. set \in [Requests -> Records]
      BY DEF RecordTypes, TextsKnown, LocalTypes, HandsKnown
    <3>2. \A d \in Requests : Superseded(set[d]) \in Records
      BY <3>1, RecordValues
    <3>3. Rotated(w) = set \/ \E d \in Requests : Rotated(w) = [set EXCEPT ![d] = Superseded(@)]
      BY DEF Rotated, LocalTypes, HandsKnown
    <3> HIDE DEF set
    <3> QED BY <3>1, <3>2, <3>3
  <2>4. \A r \in Requests : Rotated(w)[r].text => Rotated(w)[r].password # NoPassword
    <3> DEFINE set == [handoff EXCEPT ![job[w]] = sealed[w]]
    <3>1. set \in [Requests -> Records]
      BY DEF RecordTypes, LocalTypes
    <3>2. \A r \in Requests : set[r].text => set[r].password # NoPassword
      BY <1>8 DEF CommitRotation, RecordTypes, LocalTypes, TextsKnown, HandsKnown
    <3>3. \A d \in Requests : ~Superseded(set[d]).text
      BY <3>1 DEF Superseded, Records
    <3>4. Rotated(w) = set \/ \E d \in Requests : Rotated(w) = [set EXCEPT ![d] = Superseded(@)]
      BY DEF Rotated, LocalTypes
    <3> HIDE DEF set
    <3> QED BY <3>1, <3>2, <3>3, <3>4
  <2>2. RecordTypes'
    <3>1. credential' \in [Requests -> [doc : Requests \cup {NoDoc}, rotated : BOOLEAN]]
      BY <1>8 DEF CommitRotation, RecordTypes, LocalTypes
    <3> QED BY <1>8, <2>1, <2>4, <3>1 DEF CommitRotation, RecordTypes, TextsKnown
  <2>3. LocalTypes'
    BY <1>8 DEF CommitRotation, Goto, LocalTypes, HandsKnown, NoPassword
  <2> QED BY <1>0, <1>8, <2>2, <2>3, SameWorld DEF CommitRotation
<1>9. CASE RecordConfirmed(w)
  <2>1. LocalTypes' /\ RecordTypes'
    BY <1>9 DEF RecordConfirmed, Goto, LocalTypes, HandsKnown, RecordTypes, TextsKnown
  <2> QED BY <1>0, <1>9, <2>1, SameWorld DEF RecordConfirmed
<1>10. CASE DeleteUser(w)
  <2>1. WorldTypes'
    BY <1>10 DEF DeleteUser, WorldTypes, KindsKnown, Absent
  <2>2. LocalTypes'
    BY <1>10 DEF DeleteUser, Goto, LocalTypes, HandsKnown
  <2> QED BY <1>10, <2>1, <2>2 DEF DeleteUser
<1>11. CASE Settle(w)
  BY <1>0, <1>11, LeaveTypes, SettledTypes DEF Settle
<1>12. CASE SetPasswordUnanswered(w)
  <2>1. faults' \in 0..MaxFaults
    BY <1>12, Fails DEF SetPasswordUnanswered
  <2>2. issued' \in 0..MaxPasswords /\ account' \in 0..MaxPasswords
    BY <1>12 DEF SetPasswordUnanswered, WorldTypes
  <2>3. WorldTypes'
    BY <1>12, <2>1, <2>2 DEF SetPasswordUnanswered, SettleAs, WorldTypes, KindsKnown
  <2> QED BY <1>12, <2>3, LeaveTypes DEF SetPasswordUnanswered
<1>13. CASE StepFails(w)
  <2>1. faults' \in 0..MaxFaults
    BY <1>13, Fails DEF StepFails
  <2>2. PICK outcome \in RequestState : SettleAs(job[w], outcome)
    BY <1>13 DEF StepFails
  <2> QED BY <1>13, <2>1, <2>2, LeaveTypes, SettledTypes DEF StepFails
<1>14. CASE Crash(w)
  <2>1. faults' \in 0..MaxFaults
    BY <1>14, Fails DEF Crash
  <2>2. CacheTypes'
    BY <1>14 DEF Crash, CacheTypes
  <2> QED BY <1>14, <2>1, <2>2, LeaveTypes, SameWorld DEF Crash
<1> QED BY <1>1, <1>2, <1>3, <1>4, <1>5, <1>6, <1>7, <1>8, <1>9, <1>10, <1>11, <1>12, <1>13, <1>14
        DEF Execution

LEMMA AnsweredTypes ==
    ASSUME ReadTypes, NEW a \in Readers, Answered(a), known' \in [Readers -> SUBSET Versions]
    PROVE  ReadTypes'
BY Labels, Values DEF ReadTypes, DocsKnown, ClaimsKnown, Answered, NoKey

LEMMA RetrievalKnown == ASSUME Known, NEW a \in Readers, Retrieval(a) PROVE Known'
<1> USE Labels, Values, HandoffAssumption, Same DEF Known, writeVars, execVars
<1>0. faults \in 0..MaxFaults /\ known \in [Readers -> SUBSET Versions]
  BY DEF WorldTypes, ReadTypes
<1>1. ASSUME NEW r \in Requests, ResolvePointer(a, r) PROVE Known'
  <2>1. ReadTypes'
    BY <1>1 DEF ResolvePointer, ReadTypes, DocsKnown, ClaimsKnown, RecordTypes, TextsKnown
  <2> QED BY <1>0, <1>1, <2>1, SameWorld DEF ResolvePointer
<1>2. CASE PreRead(a)
  <2>1. doc[a] \in Requests /\ handoff[doc[a]].key \in Versions
    BY <1>2, RecordValues DEF PreRead, ReadTypes, DocsKnown, ClaimsKnown, RecordTypes, TextsKnown
  <2>2. ReadTypes'
    <3>1. CASE Answered(a) /\ known' = known
      BY <1>0, <3>1, AnsweredTypes
    <3>2. CASE ~(Answered(a) /\ known' = known)
      BY <1>2, <3>2, <2>1 DEF PreRead, ReadTypes, DocsKnown, ClaimsKnown
    <3> QED BY <3>1, <3>2
  <2> QED BY <1>0, <1>2, <2>2, SameWorld DEF PreRead
<1>3. CASE Claim(a)
  <2>1. doc[a] \in Requests /\ handoff[doc[a]] \in Records
    BY <1>3 DEF Claim, ReadTypes, DocsKnown, RecordTypes
  <2>2. RecordTypes'
    <3>1. PICK c \in Records : (c.text => c.password # NoPassword) /\ handoff' = [handoff EXCEPT ![doc[a]] = c]
      <4>1. CASE handoff' = handoff
        BY <2>1, <4>1 DEF RecordTypes, TextsKnown
      <4>2. CASE handoff' # handoff
        <5> DEFINE c == handoff[doc[a]]
        <5>1. \/ handoff' = [handoff EXCEPT ![doc[a]] = [c EXCEPT !.text = FALSE, !.retrieved = TRUE]]
              \/ handoff' = [handoff EXCEPT ![doc[a]] = [c EXCEPT !.text = FALSE]]
          BY <1>3, <4>2 DEF Claim
        <5>2. ~[c EXCEPT !.text = FALSE, !.retrieved = TRUE].text /\ ~[c EXCEPT !.text = FALSE].text
          BY <2>1 DEF Records
        <5> QED BY <2>1, <5>1, <5>2, RecordValues
      <4> QED BY <4>1, <4>2
    <3>2. credential' = credential
      BY <1>3 DEF Claim
    <3> QED BY <3>1, <3>2 DEF RecordTypes, TextsKnown
  <2>3. ReadTypes'
    <3>1. CASE Answered(a)
      BY <1>0, <1>3, <3>1, AnsweredTypes DEF Claim
    <3>2. CASE ~Answered(a)
      <4>1. Valid(doc[a])
        BY <1>3, <3>2 DEF Claim, Valid
      <4>2. handoff[doc[a]].password # NoPassword
        BY <2>1, <4>1, ValidText DEF RecordTypes, TextsKnown
      <4> QED BY <1>3, <3>2, <2>1, <4>2 DEF Claim, ReadTypes, DocsKnown, ClaimsKnown
    <3> QED BY <3>1, <3>2
  <2> QED BY <1>0, <1>3, <2>2, <2>3, SameWorld DEF Claim
<1>4. CASE Open(a)
  <2>0. claimed[a] \in Records /\ claimed[a].password # NoPassword
    BY <1>4 DEF Open, ReadTypes, ClaimsKnown
  <2>4. claimed[a].password \in 0..MaxPasswords /\ claimed[a].key \in Versions
    BY <2>0, RecordValues
  <2>1. claimed[a].password \in Passwords /\ claimed[a].key \in Versions
    BY <2>0, <2>4 DEF Passwords, NoPassword
  <2>2. known' \in [Readers -> SUBSET Versions]
    BY <1>0, <1>4, <2>1 DEF Open
  <2>3. HistTypes'
    <3> DEFINE p == claimed[a].password
    <3>1. given' = given \/ given' = [given EXCEPT ![p] = given[p] + 1]
      BY <1>4 DEF Open
    <3>2. given' \in [Passwords -> Nat]
      BY <2>1, <3>1 DEF HistTypes
    <3>3. lost' \in SUBSET Passwords
      BY <1>4, <2>1 DEF Open, HistTypes
    <3> QED BY <1>4, <3>2, <3>3 DEF Open, HistTypes
  <2> QED BY <1>0, <1>4, <2>2, <2>3, SameWorld, AnsweredTypes DEF Open
<1>5. CASE ReaderCrash(a)
  <2>1. faults' \in 0..MaxFaults
    BY <1>5, Fails DEF ReaderCrash
  <2>2. known' \in [Readers -> SUBSET Versions]
    BY <1>0, <1>5 DEF ReaderCrash
  <2> QED BY <1>5, <2>1, <2>2, SameWorld, AnsweredTypes DEF ReaderCrash
<1> QED BY <1>1, <1>2, <1>3, <1>4, <1>5 DEF Retrieval

LEMMA NextKnown == ASSUME Known, [Next]_vars PROVE Known'
<1>1. CASE UNCHANGED vars
  <2>1. WorldTypes'
    BY <1>1 DEF Known, vars, WorldTypes, KindsKnown
  <2> QED BY <1>1, <2>1, Same DEF vars, execVars, Known
<1>2. CASE Next
  BY <1>2, EnvironmentKnown, ExecutionKnown, RetrievalKnown DEF Next
<1> QED BY <1>1, <1>2

-----------------------------------------------------------------------------
\* One copy, action by action. Most actions put no password anywhere new.

HandsShrink == \A w \in Workers : hand'[w] \in {hand[w], NoPassword}
TextsShrink ==
    \A r \in Requests : handoff'[r].text => handoff[r].text /\ handoff'[r].password = handoff[r].password
ClaimsShrink ==
    \A a \in Readers : rpc'[a] = "open" => rpc[a] = "open" /\ claimed'[a] = claimed[a]

Counted == given' = given /\ issued' = issued
Shrinks == HandsShrink /\ TextsShrink /\ ClaimsShrink /\ Counted

CopyStep == OneCopy' /\ \A p \in Passwords : Traced(p) \/ Given(p)

LEMMA Numbers == ASSUME Known PROVE issued \in Nat /\ \A p \in Passwords : p \in Nat /\ p # NoPassword
BY HandoffAssumption DEF Known, WorldTypes, Passwords, NoPassword

\* What OneCopy says of one password.
Placed(p) ==
    /\ \A v, w \in HeldBy(p) : v = w
    /\ \A q, r \in SealedIn(p) : q = r
    /\ \A a, b \in TakenBy(p) : a = b
    /\ HeldBy(p) # {} => SealedIn(p) = {} /\ TakenBy(p) = {} /\ given[p] = 0
    /\ SealedIn(p) # {} => TakenBy(p) = {} /\ given[p] = 0
    /\ TakenBy(p) # {} => given[p] = 0
    /\ given[p] <= 1
    /\ p > issued => HeldBy(p) = {} /\ SealedIn(p) = {} /\ TakenBy(p) = {} /\ given[p] = 0

LEMMA PlacedAll ==
    /\ OneCopy <=> \A p \in Passwords : Placed(p)
    /\ OneCopy' <=> \A p \in Passwords : (Placed(p))'
BY DEF OneCopy, Placed

\* The places of a password whose places only shrink.
LEMMA ShrunkPlace ==
    ASSUME Known, NEW p \in Passwords, Placed(p), issued' \in Nat, issued <= issued',
           given'[p] = given[p],
           (HeldBy(p))' \subseteq HeldBy(p), (SealedIn(p))' \subseteq SealedIn(p),
           (TakenBy(p))' \subseteq TakenBy(p)
    PROVE  (Placed(p))' /\ Traced(p)
<1>1. p \in Nat /\ issued \in Nat /\ (p > issued' => p > issued)
  BY Numbers
<1>2. (Placed(p))'
  BY <1>1 DEF Placed
<1>3. Traced(p)
  BY DEF Traced
<1> QED BY <1>2, <1>3

LEMMA ShrunkPlaces ==
    ASSUME HandsShrink, TextsShrink, ClaimsShrink, NEW p, p # NoPassword
    PROVE  /\ (HeldBy(p))' \subseteq HeldBy(p) /\ (SealedIn(p))' \subseteq SealedIn(p)
           /\ (TakenBy(p))' \subseteq TakenBy(p)
BY DEF HandsShrink, TextsShrink, ClaimsShrink, HeldBy, SealedIn, TakenBy

LEMMA ShrinkStep ==
    ASSUME Known, OneCopy, HandsShrink, TextsShrink, ClaimsShrink, given' = given,
           issued' \in Nat, issued <= issued'
    PROVE  CopyStep
<1> SUFFICES ASSUME NEW p \in Passwords PROVE (Placed(p))' /\ Traced(p)
  BY PlacedAll DEF CopyStep
<1>1. Placed(p) /\ p # NoPassword
  BY PlacedAll, Numbers
<1> QED BY <1>1, ShrunkPlaces, ShrunkPlace

LEMMA CountedStep == ASSUME Known, OneCopy, Shrinks PROVE CopyStep
BY ShrinkStep, Numbers DEF Shrinks, Counted

LEMMA Still ==
    /\ UNCHANGED hand => HandsShrink
    /\ UNCHANGED handoff => TextsShrink
    /\ UNCHANGED <<rpc, claimed>> => ClaimsShrink
    /\ UNCHANGED <<given, issued>> => Counted
BY DEF HandsShrink, TextsShrink, ClaimsShrink, Counted

LEMMA LeaveShrinks == ASSUME Known, NEW w \in Workers, Leave(w) PROVE HandsShrink
BY DEF Known, LocalTypes, Leave, HandsShrink

LEMMA AnsweredShrinks == ASSUME Known, NEW a \in Readers, Answered(a) PROVE ClaimsShrink
BY DEF Known, ReadTypes, Answered, ClaimsShrink

LEMMA EnvironmentCopies == ASSUME Known, OneCopy, Environment PROVE CopyStep
<1>1. CASE UNCHANGED <<hand, rpc, claimed, given, issued, handoff>>
  BY <1>1, Still, CountedStep DEF Shrinks
<1>2. ASSUME NEW r \in Requests, FirestoreTtl(r) PROVE CopyStep
  <2>1. TextsShrink
    <3>1. ~NoRecord.text
      BY DEF NoRecord
    <3> QED BY <1>2, <3>1 DEF FirestoreTtl, TextsShrink, Known, RecordTypes
  <2> QED BY <1>2, <2>1, Still, CountedStep DEF Shrinks, FirestoreTtl, execVars, readVars, histVars
<1> QED BY <1>1, <1>2
        DEF Environment, Tick, AddVersion, DisableVersion, DestroyVersion, Retire, Validate, Resume,
            Submit, execVars, readVars, histVars

\* A fresh password is in one hand, and nowhere else.
LEMMA SetPasswordCopies == ASSUME Known, OneCopy, NEW w \in Workers, SetPassword(w) PROVE CopyStep
<1> DEFINE n == issued + 1
<1>0. /\ hand' = [hand EXCEPT ![w] = n] /\ issued' = n
      /\ UNCHANGED <<handoff, rpc, claimed, given>>
  BY DEF SetPassword, readVars, histVars
<1>1. issued \in Nat /\ n \in Nat /\ issued < n
  BY Numbers
<1> SUFFICES ASSUME NEW p \in Passwords PROVE (Placed(p))' /\ Traced(p)
  BY PlacedAll DEF CopyStep
<1>2. Placed(p) /\ p # NoPassword /\ p \in Nat
  BY PlacedAll, Numbers
<1>3. (SealedIn(p))' = SealedIn(p) /\ (TakenBy(p))' = TakenBy(p)
  BY <1>0 DEF SealedIn, TakenBy
<1>4. CASE p = n
  <2>1. HeldBy(p) = {} /\ SealedIn(p) = {} /\ TakenBy(p) = {} /\ given[p] = 0
    BY <1>1, <1>2, <1>4 DEF Placed
  <2>2. (HeldBy(p))' \subseteq {w}
    BY <1>0, <2>1 DEF HeldBy, Known, LocalTypes
  <2>3. ~(p > issued')
    BY <1>0, <1>1, <1>4
  <2>4. (Placed(p))'
    BY <1>0, <1>3, <2>1, <2>2, <2>3 DEF Placed
  <2>5. Traced(p)
    BY <1>0, <1>1, <1>3, <1>4, <2>1 DEF Traced
  <2> QED BY <2>4, <2>5
<1>5. CASE p # n
  <2>1. (HeldBy(p))' \subseteq HeldBy(p)
    BY <1>0, <1>5 DEF HeldBy, Known, LocalTypes
  <2> QED BY <1>0, <1>1, <1>2, <1>3, <2>1, ShrunkPlace
<1> QED BY <1>4, <1>5

\* A text that is there after the step was there before, or is what w had in its hand.
Stored(w, j) ==
    \A r \in Requests :
        handoff'[r].text => \/ handoff[r].text /\ handoff'[r].password = handoff[r].password
                            \/ r = j /\ handoff'[r].password = hand[w]

\* What was in the hand is in a record, or nowhere: a record that was there is gone.
LEMMA StoreCopies ==
    ASSUME Known, OneCopy, NEW w \in Workers, hand' = [hand EXCEPT ![w] = NoPassword],
           rpc' = rpc, claimed' = claimed, given' = given, issued' = issued, NEW j, Stored(w, j)
    PROVE  CopyStep
<1> SUFFICES ASSUME NEW p \in Passwords PROVE (Placed(p))' /\ Traced(p)
  BY PlacedAll DEF CopyStep
<1>1. Placed(p) /\ p # NoPassword /\ p \in Nat /\ issued \in Nat
  BY PlacedAll, Numbers
<1>2. (TakenBy(p))' = TakenBy(p)
  BY DEF TakenBy
<1>3. (HeldBy(p))' \subseteq HeldBy(p) \ {w}
  BY <1>1 DEF HeldBy, Known, LocalTypes
<1>4. CASE hand[w] = p
  <2>1. w \in HeldBy(p)
    BY <1>4 DEF HeldBy
  <2>2. HeldBy(p) = {w} /\ SealedIn(p) = {} /\ TakenBy(p) = {} /\ given[p] = 0 /\ ~(p > issued)
    BY <1>1, <2>1 DEF Placed
  <2>3. (HeldBy(p))' = {}
    BY <1>3, <2>2
  <2>4. (SealedIn(p))' \subseteq {j}
    BY <2>2 DEF SealedIn, Stored
  <2>5. (Placed(p))'
    BY <1>2, <2>2, <2>3, <2>4 DEF Placed
  <2>6. Traced(p)
    BY <1>1, <1>2, <2>2, <2>3 DEF Traced
  <2> QED BY <2>5, <2>6
<1>5. CASE hand[w] # p
  <2>1. (SealedIn(p))' \subseteq SealedIn(p)
    BY <1>5 DEF SealedIn, Stored
  <2> QED BY <1>1, <1>2, <1>3, <2>1, ShrunkPlace
<1> QED BY <1>4, <1>5

\* A text that a rotation leaves is the one it stored, or one it did not touch.
LEMMA RotatedTexts ==
    ASSUME Known, NEW w \in Workers, NEW r \in Requests, Rotated(w)[r].text
    PROVE  Rotated(w)[r] = IF r = job[w] THEN sealed[w] ELSE handoff[r]
<1> DEFINE set == [handoff EXCEPT ![job[w]] = sealed[w]]
<1>1. set \in [Requests -> Records]
  BY DEF Known, RecordTypes, LocalTypes
<1>2. set[r] = IF r = job[w] THEN sealed[w] ELSE handoff[r]
  BY DEF Known, RecordTypes
<1>3. \A d \in Requests : ~Superseded(set[d]).text
  BY <1>1 DEF Superseded, Records
<1>4. Rotated(w) = set \/ \E d \in Requests : Rotated(w) = [set EXCEPT ![d] = Superseded(@)]
  BY DEF Rotated, Known, LocalTypes
<1> HIDE DEF set
<1> QED BY <1>1, <1>2, <1>3, <1>4

LEMMA ExecutionCopies == ASSUME Known, OneCopy, NEW w \in Workers, Execution(w) PROVE CopyStep
<1>1. CASE UNCHANGED <<hand, handoff, rpc, claimed, given, issued>>
  BY <1>1, Still, CountedStep DEF Shrinks
<1>2. CASE InsertUser(w) \/ ResetPassword(w)
  BY <1>2, SetPasswordCopies DEF InsertUser, ResetPassword
<1>3. CASE Leave(w) /\ UNCHANGED <<handoff, rpc, claimed, given, issued>>
  BY <1>3, LeaveShrinks, Still, CountedStep DEF Shrinks
<1>4. CASE SetPasswordUnanswered(w)
  <2>1. issued' = issued + 1 /\ UNCHANGED <<handoff, rpc, claimed, given>> /\ Leave(w)
    BY <1>4 DEF SetPasswordUnanswered, readVars, histVars
  <2>2. issued' \in Nat /\ issued <= issued'
    BY <2>1, Numbers
  <2> QED BY <2>1, <2>2, LeaveShrinks, Still, ShrinkStep
<1>5. CASE Stash(w)
  <2>1. sealed[w].password = hand[w]
    BY <1>5 DEF Stash, Known, LocalTypes, HandsKnown
  <2>2. /\ hand' = [hand EXCEPT ![w] = NoPassword] /\ UNCHANGED <<rpc, claimed, given, issued>>
        /\ handoff' = [handoff EXCEPT ![job[w]] = sealed[w]]
    BY <1>5 DEF Stash, readVars, histVars
  <2>3. \A r \in Requests : handoff'[r] = IF r = job[w] THEN sealed[w] ELSE handoff[r]
    BY <2>2 DEF Known, RecordTypes
  <2>4. Stored(w, job[w])
    BY <2>1, <2>3 DEF Stored
  <2> QED BY <2>2, <2>4, StoreCopies
<1>6. CASE CommitRotation(w)
  <2>1. sealed[w].password = hand[w]
    BY <1>6 DEF CommitRotation, Known, LocalTypes, HandsKnown
  <2>2. /\ hand' = [hand EXCEPT ![w] = NoPassword] /\ UNCHANGED <<rpc, claimed, given, issued>>
        /\ handoff' = Rotated(w)
    BY <1>6 DEF CommitRotation, readVars, histVars
  <2>4. Stored(w, job[w])
    BY <2>1, <2>2, RotatedTexts DEF Stored
  <2> QED BY <2>2, <2>4, StoreCopies
<1>7. ASSUME NEW r \in Requests, Begin(w, r) PROVE CopyStep
  BY <1>1, <1>7 DEF Begin, readVars
<1>8. CASE ReadCurrent(w)
  BY <1>1, <1>3, <1>8 DEF ReadCurrent, readVars, histVars
<1> QED
  BY <1>1, <1>2, <1>3, <1>4, <1>5, <1>6, <1>7, <1>8
     DEF Execution, Probe, SetPasswordRefused, Seal, RecordConfirmed, DeleteUser, Settle, StepFails,
         Crash, readVars, histVars

\* The claim moves the password from its record to the one retrieval that took it.
LEMMA ClaimCopies ==
    ASSUME Known, OneCopy, NEW a \in Readers, Claim(a) PROVE CopyStep
<1> DEFINE d == doc[a]
           c == handoff[d]
           p0 == c.password
<1>0. d \in Requests /\ c \in Records /\ UNCHANGED <<hand, given, issued>>
  BY DEF Claim, Known, ReadTypes, DocsKnown, RecordTypes, writeVars, execVars, histVars
<1>1. CASE Answered(a)
  <2>1. handoff' = handoff \/ handoff' = [handoff EXCEPT ![d].text = FALSE]
    BY <1>1 DEF Claim, Answered, Known, ReadTypes
  <2>2. TextsShrink
    BY <1>0, <2>1 DEF TextsShrink, Known, RecordTypes, Records
  <2> QED BY <1>0, <1>1, <2>2, AnsweredShrinks, Still, CountedStep DEF Shrinks
<1>2. CASE ~Answered(a)
  <2>1. /\ handoff' = [handoff EXCEPT ![d].text = FALSE, ![d].retrieved = TRUE]
        /\ claimed' = [claimed EXCEPT ![a] = c] /\ rpc' = [rpc EXCEPT ![a] = "open"]
        /\ Valid(d)
    BY <1>2 DEF Claim, Valid
  <2>2. c.text
    BY <2>1, ValidText
  <2>3. \A r \in Requests : r # d => handoff'[r] = handoff[r]
    BY <2>1 DEF Known, RecordTypes
  <2>4. ~handoff'[d].text
    BY <1>0, <2>1 DEF Known, RecordTypes, Records
  <2>5. \A b \in Readers : b # a => rpc'[b] = rpc[b] /\ claimed'[b] = claimed[b]
    BY <2>1 DEF Known, ReadTypes
  <2>6. rpc'[a] = "open" /\ claimed'[a] = c
    BY <2>1 DEF Known, ReadTypes
  <2> HIDE DEF c, d
  <2> SUFFICES ASSUME NEW p \in Passwords PROVE (Placed(p))' /\ Traced(p)
    BY PlacedAll DEF CopyStep
  <2>7. Placed(p) /\ p # NoPassword /\ p \in Nat /\ issued \in Nat
    BY PlacedAll, Numbers
  <2>8. (HeldBy(p))' = HeldBy(p)
    BY <1>0 DEF HeldBy
  <2>9. (SealedIn(p))' \subseteq SealedIn(p) \ {d}
    BY <2>3, <2>4 DEF SealedIn
  <2>10. CASE p = c.password
    <3>1. d \in SealedIn(p)
      BY <1>0, <2>2, <2>10 DEF SealedIn, c
    <3>2. /\ HeldBy(p) = {} /\ SealedIn(p) = {d} /\ TakenBy(p) = {} /\ given[p] = 0
          /\ ~(p > issued)
      BY <2>7, <3>1 DEF Placed
    <3>3. (SealedIn(p))' = {}
      BY <2>9, <3>2
    <3>4. (TakenBy(p))' \subseteq {a}
      BY <2>5, <3>2 DEF TakenBy
    <3>5. (Placed(p))'
      BY <1>0, <2>8, <3>2, <3>3, <3>4 DEF Placed
    <3>6. Traced(p)
      BY <1>0, <2>7, <2>8, <3>2, <3>3 DEF Traced
    <3> QED BY <3>5, <3>6
  <2>11. CASE p # c.password
    <3>1. (TakenBy(p))' \subseteq TakenBy(p)
      BY <2>5, <2>6, <2>11 DEF TakenBy
    <3> QED BY <1>0, <2>7, <2>8, <2>9, <3>1, ShrunkPlace
  <2> QED BY <2>10, <2>11
<1> QED BY <1>1, <1>2

\* The retrieval gives the password it took, once, or loses it.
LEMMA OpenCopies == ASSUME Known, OneCopy, NEW a \in Readers, Open(a) PROVE CopyStep
<1> DEFINE n == claimed[a].password
<1>0. UNCHANGED <<hand, handoff, issued>> /\ Answered(a) /\ rpc[a] = "open"
  BY DEF Open, writeVars, execVars
<1>1. CASE given' = given
  BY <1>0, <1>1, AnsweredShrinks, Still, CountedStep DEF Shrinks
<1>2. CASE given' = [given EXCEPT ![n] = given[n] + 1]
  <2> SUFFICES ASSUME NEW p \in Passwords PROVE (Placed(p))' /\ (Traced(p) \/ Given(p))
    BY PlacedAll DEF CopyStep
  <2>1. Placed(p) /\ p # NoPassword /\ p \in Nat /\ issued \in Nat /\ given[p] \in Nat
    BY PlacedAll, Numbers DEF Known, HistTypes
  <2>2. (HeldBy(p))' = HeldBy(p) /\ (SealedIn(p))' = SealedIn(p)
    BY <1>0 DEF HeldBy, SealedIn
  <2>3. (TakenBy(p))' \subseteq TakenBy(p) \ {a}
    BY <1>0 DEF TakenBy, Answered, Known, ReadTypes
  <2>4. CASE p = n
    <3>1. a \in TakenBy(p)
      BY <1>0, <2>4 DEF TakenBy
    <3>2. /\ HeldBy(p) = {} /\ SealedIn(p) = {} /\ TakenBy(p) = {a} /\ given[p] = 0
          /\ ~(p > issued)
      BY <2>1, <3>1 DEF Placed
    <3>3. (TakenBy(p))' = {}
      BY <2>3, <3>2
    <3>4. given'[p] = 1
      BY <1>2, <2>4, <3>2 DEF Known, HistTypes
    <3>5. (Placed(p))'
      BY <1>0, <2>2, <3>2, <3>3, <3>4 DEF Placed
    <3>6. Given(p)
      BY <1>0, <2>2, <3>2, <3>3, <3>4 DEF Given
    <3> QED BY <3>5, <3>6
  <2>5. CASE p # n
    <3>1. given'[p] = given[p]
      BY <1>2, <2>5 DEF Known, HistTypes
    <3> QED BY <1>0, <2>1, <2>2, <2>3, <3>1, ShrunkPlace
  <2> QED BY <2>4, <2>5
<1> QED BY <1>1, <1>2 DEF Open

LEMMA RetrievalCopies == ASSUME Known, OneCopy, NEW a \in Readers, Retrieval(a) PROVE CopyStep
<1>1. ASSUME NEW r \in Requests, ResolvePointer(a, r) PROVE CopyStep
  <2>1. ClaimsShrink
    BY <1>1 DEF ResolvePointer, ClaimsShrink, Known, ReadTypes
  <2> QED BY <1>1, <2>1, Still, CountedStep DEF Shrinks, ResolvePointer, writeVars, execVars, histVars
<1>2. CASE PreRead(a)
  <2>1. CASE Answered(a)
    BY <1>2, <2>1, AnsweredShrinks, Still, CountedStep DEF Shrinks, PreRead, writeVars, execVars, histVars
  <2>2. CASE ~Answered(a)
    <3>1. ClaimsShrink
      BY <1>2, <2>2 DEF PreRead, ClaimsShrink, Known, ReadTypes
    <3> QED BY <1>2, <3>1, Still, CountedStep DEF Shrinks, PreRead, writeVars, execVars, histVars
  <2> QED BY <2>1, <2>2
<1>3. CASE ReaderCrash(a)
  BY <1>3, AnsweredShrinks, Still, CountedStep DEF Shrinks, ReaderCrash, writeVars, execVars, histVars
<1> QED BY <1>1, <1>2, <1>3, ClaimCopies, OpenCopies DEF Retrieval

LEMMA NextCopies == ASSUME Known, OneCopy, [Next]_vars PROVE CopyStep
<1>1. CASE UNCHANGED vars
  BY <1>1, Still, CountedStep DEF Shrinks, vars, execVars, readVars, histVars
<1>2. CASE Next
  BY <1>2, EnvironmentCopies, ExecutionCopies, RetrievalCopies DEF Next
<1> QED BY <1>1, <1>2

-----------------------------------------------------------------------------

\* The invariant: types, what each process knows, and one copy of each password.
THEOREM Inductive == Spec => []IInv
<1>1. Init => IInv
  BY InitIInv
<1>2. IInv /\ [Next]_vars => IInv'
  BY NextKnown, NextCopies, KnownParts DEF IInv, CopyStep, Known, TypeOK, KindsKnown, DocsKnown,
     HandsKnown, TextsKnown, ClaimsKnown, WorldTypes, RecordTypes, KeyTypes, CacheTypes, LocalTypes,
     ReadTypes, HistTypes
<1> QED BY <1>1, <1>2, PTL DEF Spec

\* Every variable of the handoff keeps its type, and every retrieval its record.
THEOREM TypeCorrect == Spec => []TypeOK
<1>1. IInv => TypeOK
  BY DEF IInv
<1> QED BY <1>1, Inductive, PTL

\* However many executions overlap, whatever fails and whenever the key is rotated,
\* a password is in one hand, one record, one retrieval, or was given once.
THEOREM KeptOnce == Spec => []OneCopy
<1>1. IInv => OneCopy
  BY DEF IInv
<1> QED BY <1>1, Inductive, PTL

LEMMA StepSimulation == ASSUME IInv, IInv', [Next]_vars PROVE OneTime!Next
<1>1. \A p \in Passwords : Traced(p) \/ Given(p)
  BY NextCopies, KnownParts DEF IInv, CopyStep
<1>2. \A p \in Passwords : PasswordStep(p)
  BY <1>1, TracedStep DEF IInv
<1> QED BY <1>2 DEF OneTime!Next, PasswordStep, OneTime!Passwords, Passwords

\* The handoff implements the one-time password: none comes back from where it
\* went, and none is handed over twice (docs/runbook.md, retrieveOnce()).
THEOREM ImplementsOneTimePassword == Spec => HandsOverOnce
<1>1. Init => OneTime!Init
  <2> SUFFICES ASSUME Init PROVE OneTime!Init
    OBVIOUS
  <2>1. \A p \in Passwords : p > issued /\ given[p] = 0
    BY HandoffAssumption DEF Init, Passwords
  <2>4. \A p \in Passwords : HeldBy(p) = {} /\ SealedIn(p) = {} /\ TakenBy(p) = {}
    BY <2>1, InitIInv DEF IInv, OneCopy
  <2> DEFINE at(p) == CASE p > issued -> "unborn"
                       [] HeldBy(p) # {} -> "in-hand"
                       [] SealedIn(p) # {} -> "sealed"
                       [] TakenBy(p) # {} -> "taken"
                       [] given[p] > 0 -> "given"
                       [] OTHER -> "gone"
  <2>5. ASSUME NEW p \in Passwords PROVE at(p) = "unborn"
    <3>1. ~(given[p] > 0)
      BY <2>1
    <3> QED BY <2>1, <2>4, <3>1, Zenon
  <2>6. Phase = [p \in Passwords |-> at(p)]
    BY DEF Phase
  <2> HIDE DEF at
  <2>2. Phase = [p \in Passwords |-> "unborn"]
    BY <2>5, <2>6
  <2>3. given = [p \in Passwords |-> 0]
    BY DEF Init
  <2> QED BY <2>2, <2>3 DEF OneTime!Init, OneTime!Passwords, Passwords
<1>2. IInv /\ IInv' /\ [Next]_vars => [OneTime!Next]_<<Phase, given>>
  BY StepSimulation
<1> QED BY <1>1, <1>2, Inductive, PTL DEF Spec, HandsOverOnce, OneTime!Spec

-----------------------------------------------------------------------------
(* Why the drain window is enough: whatever the numbers, if the operator   *)
(* waits out the time to live of a record and of the cached key version,   *)
(* no version is disabled under a record that can still be handed over.    *)

\* A text expires before its version has drained, if that version was replaced, and
\* within its time to live from now, if it may be replaced now.
Within(c) ==
    c.text => /\ c.key <= latest /\ c.expires <= now + CredentialTtl
              /\ c.key < latest => c.expires <= replacedAt[c.key] + Drain

\* So does the answer an instance goes on using.
CacheWithin(c) ==
    /\ c.version <= latest /\ c.until <= now + LatestTtl
    /\ c.version < latest => c.until <= replacedAt[c.version] + LatestTtl

Drained(v) == version[v] = "disabled" => v < latest /\ now >= replacedAt[v] + Drain

DrainInv ==
    /\ \A r \in Requests : Within(handoff[r])
    /\ \A w \in Workers : Within(sealed[w]) /\ CacheWithin(cache[w])
    /\ \A v \in Versions : Drained(v)

-----------------------------------------------------------------------------

LEMMA Hours ==
    ASSUME Known
    PROVE  /\ now \in Nat /\ CredentialTtl \in Nat /\ LatestTtl \in Nat /\ Drain \in Nat
           /\ latest \in Nat /\ \A v \in Versions : v \in Nat /\ replacedAt[v] \in Nat
BY HandoffAssumption DEF Known, WorldTypes, KeyTypes, Versions

LEMMA InitDrain == Init => DrainInv
<1> SUFFICES ASSUME Init PROVE DrainInv
  OBVIOUS
<1>1. ~NoRecord.text
  BY DEF NoRecord
<1>2. \A v \in Versions : version[v] # "disabled"
  BY DEF Init
<1>3. \A w \in Workers : cache[w] = [version |-> 1, until |-> 0]
  BY DEF Init
<1>4. \A w \in Workers : CacheWithin(cache[w])
  BY <1>3, HandoffAssumption DEF Init, CacheWithin
<1> QED BY <1>1, <1>2, <1>4 DEF Init, DrainInv, Within, Drained

\* A text that is stored was stored before, or was sealed before; nothing is sealed
\* that was not; an instance keeps its answer or forgets it.
TextsFrom ==
    \A r \in Requests : handoff'[r].text =>
        \/ \E o \in Requests : /\ handoff[o].text /\ handoff'[r].key = handoff[o].key
                               /\ handoff'[r].expires = handoff[o].expires
        \/ \E w \in Workers : handoff'[r] = sealed[w]
SealedKept == \A w \in Workers : sealed'[w].text => sealed'[w] = sealed[w]
CacheKept == \A w \in Workers : cache'[w] \in {cache[w], [version |-> 1, until |-> 0]}

\* A step that leaves the clock and the versions alone and seals nothing.
LEMMA StoredWithin ==
    ASSUME Known, DrainInv, now' = now, UNCHANGED keyVars, TextsFrom, SealedKept, CacheKept
    PROVE  DrainInv'
<1> USE DEF keyVars, TextsFrom, SealedKept, CacheKept
<1>1. ASSUME NEW r \in Requests PROVE (Within(handoff[r]))'
  <2> SUFFICES ASSUME handoff'[r].text PROVE Within(handoff'[r])
    BY DEF Within
  <2>1. ASSUME NEW o \in Requests, handoff[o].text, handoff'[r].key = handoff[o].key,
               handoff'[r].expires = handoff[o].expires
        PROVE  Within(handoff'[r])
    BY <2>1 DEF DrainInv, Within
  <2>2. ASSUME NEW w \in Workers, handoff'[r] = sealed[w]
        PROVE  Within(handoff'[r])
    BY <2>2 DEF DrainInv, Within
  <2> QED BY <2>1, <2>2
<1>2. ASSUME NEW w \in Workers PROVE (Within(sealed[w]))'
  BY DEF DrainInv, Within
<1>3. ASSUME NEW w \in Workers PROVE (CacheWithin(cache[w]))'
  <2>1. CASE cache'[w] = cache[w]
    BY <2>1 DEF DrainInv, CacheWithin
  <2>2. CASE cache'[w] = [version |-> 1, until |-> 0]
    <3>1. 1 <= latest /\ replacedAt[1] \in Nat
      BY HandoffAssumption DEF Known, KeyTypes, Versions
    <3> QED BY <2>2, <3>1, Hours DEF CacheWithin
  <2> QED BY <2>1, <2>2
<1>4. ASSUME NEW v \in Versions PROVE (Drained(v))'
  BY DEF DrainInv, Drained
<1> QED BY <1>1, <1>2, <1>3, <1>4 DEF DrainInv

LEMMA TickDrain == ASSUME Known, DrainInv, Tick PROVE DrainInv'
<1>1. now' = now + 1 /\ UNCHANGED <<latest, version, replacedAt, handoff, sealed, cache>> /\ now \in Nat
  BY Hours DEF Tick, keyVars, execVars
<1>2. ASSUME NEW r \in Requests PROVE (Within(handoff[r]))'
  <2>1. Within(handoff[r]) /\ handoff[r].expires \in Nat
    BY RecordValues DEF DrainInv, Known, RecordTypes
  <2> QED BY <1>1, <2>1, Hours DEF Within
<1>3. ASSUME NEW w \in Workers PROVE (Within(sealed[w]))'
  <2>1. Within(sealed[w]) /\ sealed[w].expires \in Nat
    BY RecordValues DEF DrainInv, Known, LocalTypes
  <2> QED BY <1>1, <2>1, Hours DEF Within
<1>4. ASSUME NEW w \in Workers PROVE (CacheWithin(cache[w]))'
  <2>1. CacheWithin(cache[w]) /\ cache[w].until \in Nat
    BY DEF DrainInv, Known, CacheTypes
  <2> QED BY <1>1, <2>1, Hours DEF CacheWithin
<1>5. ASSUME NEW v \in Versions PROVE (Drained(v))'
  <2>1. Drained(v)
    BY DEF DrainInv
  <2> QED BY <1>1, <2>1, Hours DEF Drained
<1> QED BY <1>2, <1>3, <1>4, <1>5 DEF DrainInv

\* A rotation: what is sealed under the newest version has its whole life before it.
LEMMA AddVersionDrain ==
    ASSUME Known, DrainAssumption, DrainInv, AddVersion PROVE DrainInv'
<1>1. /\ latest' = latest + 1 /\ latest \in Versions
      /\ version' = [version EXCEPT ![latest + 1] = "enabled"]
      /\ replacedAt' = [replacedAt EXCEPT ![latest] = now]
      /\ UNCHANGED <<now, handoff, sealed, cache>>
  BY DEF AddVersion, execVars, Known, KeyTypes
<1>2. /\ replacedAt'[latest] = now
      /\ \A v \in Versions : v < latest => replacedAt'[v] = replacedAt[v]
  BY <1>1, Hours DEF Known, KeyTypes
<1>3. ASSUME NEW c \in Records, Within(c)
      PROVE  c.text => /\ c.key <= latest' /\ c.expires <= now' + CredentialTtl
                       /\ c.key < latest' => c.expires <= replacedAt'[c.key] + Drain
  <2>1. c.key \in Versions /\ c.expires \in Nat /\ c.key \in Nat
    BY RecordValues, Hours
  <2>2. Drain >= CredentialTtl
    BY DEF DrainAssumption
  <2>3. CASE c.key = latest
    BY <1>1, <1>2, <1>3, <2>1, <2>2, <2>3, Hours DEF Within
  <2>4. CASE c.key < latest
    BY <1>1, <1>2, <1>3, <2>1, <2>4, Hours DEF Within
  <2>5. CASE c.key > latest
    BY <1>3, <2>1, <2>5, Hours DEF Within
  <2> QED BY <2>1, <2>3, <2>4, <2>5, Hours
<1>4. ASSUME NEW r \in Requests PROVE (Within(handoff[r]))'
  <2>1. handoff[r] \in Records /\ Within(handoff[r])
    BY DEF DrainInv, Known, RecordTypes
  <2> QED BY <1>1, <1>3, <2>1 DEF Within
<1>5. ASSUME NEW w \in Workers PROVE (Within(sealed[w]))'
  <2>1. sealed[w] \in Records /\ Within(sealed[w])
    BY DEF DrainInv, Known, LocalTypes
  <2> QED BY <1>1, <1>3, <2>1 DEF Within
<1>6. ASSUME NEW w \in Workers PROVE (CacheWithin(cache[w]))'
  <2>1. CacheWithin(cache[w]) /\ cache[w].until \in Nat /\ cache[w].version \in Versions
    BY DEF DrainInv, Known, CacheTypes
  <2>2. cache[w].version \in Nat
    BY <2>1, Hours
  <2>3. CASE cache[w].version = latest
    BY <1>1, <1>2, <2>1, <2>3, Hours DEF CacheWithin
  <2>4. CASE cache[w].version < latest
    BY <1>1, <1>2, <2>1, <2>4, Hours DEF CacheWithin
  <2> QED BY <2>1, <2>2, <2>3, <2>4, Hours DEF CacheWithin
<1>7. ASSUME NEW v \in Versions PROVE (Drained(v))'
  <2>1. Drained(v) /\ v \in Nat
    BY Hours DEF DrainInv
  <2>2. version'[v] = "disabled" => version[v] = "disabled"
    BY <1>1 DEF Known, KeyTypes
  <2> QED BY <1>1, <1>2, <2>1, <2>2, Hours DEF Drained
<1> QED BY <1>4, <1>5, <1>6, <1>7 DEF DrainInv

LEMMA RetireDrain ==
    ASSUME Known, DrainInv, NEW v \in Versions, DisableVersion(v) \/ DestroyVersion(v)
    PROVE  DrainInv'
<1>1. /\ UNCHANGED <<now, latest, replacedAt, handoff, sealed, cache>>
      /\ v < latest
      /\ \/ version' = [version EXCEPT ![v] = "destroyed"]
         \/ version' = [version EXCEPT ![v] = "disabled"] /\ now >= replacedAt[v] + Drain
  BY DEF DisableVersion, DestroyVersion, Retire, execVars
<1>2. ASSUME NEW u \in Versions PROVE (Drained(u))'
  BY <1>1 DEF Drained, DrainInv, Known, KeyTypes
<1> QED BY <1>1, <1>2 DEF DrainInv, Within, CacheWithin

\* What is sealed under a cached answer expires in time, for the answer was old by less
\* than its time to live.
LEMMA SealDrain ==
    ASSUME Known, DrainAssumption, DrainInv, NEW w \in Workers, Seal(w)
    PROVE  DrainInv'
<1> DEFINE c == [NoRecord EXCEPT !.password = hand[w], !.key = LatestFor(w), !.text = TRUE,
                                 !.expires = now + CredentialTtl, !.exists = TRUE]
<1>1. /\ UNCHANGED <<now, latest, replacedAt, version, handoff>>
      /\ sealed' = [sealed EXCEPT ![w] = c]
      /\ cache' = [cache EXCEPT ![w] =
              IF cache[w].until > now THEN cache[w] ELSE [version |-> latest, until |-> now + LatestTtl]]
  BY DEF Seal, keyVars
<1>2. c.key = LatestFor(w) /\ c.expires = now + CredentialTtl
  BY DEF NoRecord
<1>3. CacheWithin(cache[w]) /\ cache[w].until \in Nat /\ cache[w].version \in Versions
  BY DEF DrainInv, Known, CacheTypes
<1>4. Within(c)
  <2>1. CASE cache[w].until > now
    <3>1. c.key = cache[w].version /\ replacedAt[cache[w].version] \in Nat /\ c.key \in Nat
      BY <1>2, <1>3, <2>1, Hours DEF LatestFor
    <3>2. Drain + 1 >= CredentialTtl + LatestTtl
      BY DEF DrainAssumption
    <3> HIDE DEF c
    <3>3. c.key < latest => now + 1 <= replacedAt[c.key] + LatestTtl
      BY <1>3, <2>1, <3>1, Hours DEF CacheWithin
    <3>4. c.key < latest => c.expires <= replacedAt[c.key] + Drain
      BY <1>2, <3>1, <3>2, <3>3, Hours
    <3> QED BY <1>2, <1>3, <3>1, <3>4, Hours DEF Within, CacheWithin
  <2>2. CASE ~(cache[w].until > now)
    <3>1. c.key = latest
      BY <1>2, <2>2 DEF LatestFor
    <3> HIDE DEF c
    <3> QED BY <1>2, <3>1, Hours DEF Within
  <2> QED BY <2>1, <2>2
<1> HIDE DEF c
<1>5. ASSUME NEW v \in Workers PROVE (Within(sealed[v]))'
  <2>1. Within(sealed'[v])
    BY <1>1, <1>4 DEF DrainInv, Known, LocalTypes
  <2> QED BY <1>1, <2>1 DEF Within
<1>6. ASSUME NEW v \in Workers PROVE (CacheWithin(cache[v]))'
  <2>1. CASE cache'[v] = cache[v]
    BY <1>1, <2>1 DEF DrainInv, CacheWithin
  <2>2. CASE cache'[v] = [version |-> latest, until |-> now + LatestTtl]
    BY <1>1, <2>2, Hours DEF CacheWithin
  <2> QED BY <1>1, <2>1, <2>2 DEF Known, CacheTypes
<1> QED BY <1>1, <1>5, <1>6 DEF DrainInv, Within, Drained

LEMMA Kept ==
    /\ UNCHANGED handoff => TextsFrom
    /\ UNCHANGED sealed => SealedKept
    /\ UNCHANGED cache => CacheKept
BY DEF TextsFrom, SealedKept, CacheKept

LEMMA LeaveSeals == ASSUME Known, NEW w \in Workers, Leave(w) PROVE SealedKept
<1>1. ~NoRecord.text
  BY DEF NoRecord
<1> QED BY <1>1 DEF Leave, SealedKept, Known, LocalTypes

LEMMA EnvironmentDrain == ASSUME Known, DrainAssumption, DrainInv, Environment PROVE DrainInv'
<1>1. CASE UNCHANGED <<now, keyVars, handoff, sealed, cache>>
  BY <1>1, Kept, StoredWithin
<1>2. ASSUME NEW r \in Requests, FirestoreTtl(r) PROVE DrainInv'
  <2>1. TextsFrom
    <3>1. ~NoRecord.text
      BY DEF NoRecord
    <3>2. \A o \in Requests : handoff'[o].text => handoff'[o] = handoff[o]
      BY <1>2, <3>1 DEF FirestoreTtl, Known, RecordTypes
    <3> QED BY <3>2 DEF TextsFrom
  <2> QED BY <1>2, <2>1, Kept, StoredWithin DEF FirestoreTtl, execVars
<1>3. ASSUME NEW r \in Requests, Validate(r) \/ Resume(r) PROVE DrainInv'
  BY <1>1, <1>3 DEF Validate, Resume, execVars
<1>4. ASSUME NEW r \in Requests, NEW k \in Kinds, Submit(r, k) PROVE DrainInv'
  BY <1>1, <1>4 DEF Submit, execVars
<1> QED BY <1>2, <1>3, <1>4, TickDrain, AddVersionDrain, RetireDrain DEF Environment

LEMMA ExecutionDrain ==
    ASSUME Known, DrainAssumption, DrainInv, NEW w \in Workers, Execution(w) PROVE DrainInv'
<1>1. CASE UNCHANGED <<now, keyVars, handoff, sealed, cache>>
  BY <1>1, Kept, StoredWithin
<1>2. CASE Leave(w) /\ UNCHANGED <<now, keyVars, handoff, cache>>
  BY <1>2, LeaveSeals, Kept, StoredWithin
<1>3. ASSUME NEW r \in Requests, Begin(w, r) PROVE DrainInv'
  BY <1>1, <1>3 DEF Begin
<1>4. CASE InsertUser(w) \/ ResetPassword(w)
  BY <1>1, <1>4 DEF InsertUser, ResetPassword, SetPassword
<1>5. CASE ReadCurrent(w)
  BY <1>1, <1>2, <1>5 DEF ReadCurrent
<1>6. CASE Stash(w) \/ CommitRotation(w)
  <2>1. now' = now /\ UNCHANGED keyVars /\ UNCHANGED cache
    BY <1>6 DEF Stash, CommitRotation
  <2>2. SealedKept
    <3>1. ~NoRecord.text
      BY DEF NoRecord
    <3> QED BY <1>6, <3>1 DEF Stash, CommitRotation, SealedKept, Known, LocalTypes
  <2>3. \A r \in Requests : handoff'[r].text => handoff'[r] = IF r = job[w] THEN sealed[w] ELSE handoff[r]
    <3>1. CASE Stash(w)
      BY <3>1 DEF Stash, Known, RecordTypes
    <3>2. CASE CommitRotation(w)
      BY <3>2, RotatedTexts DEF CommitRotation
    <3> QED BY <1>6, <3>1, <3>2
  <2>4. TextsFrom
    BY <2>3 DEF TextsFrom
  <2> QED BY <2>1, <2>2, <2>4, Kept, StoredWithin
<1>7. CASE Crash(w)
  <2>1. CacheKept
    BY <1>7 DEF Crash, CacheKept, Known, CacheTypes
  <2> QED BY <1>7, <2>1, LeaveSeals, Kept, StoredWithin DEF Crash
<1>8. CASE Probe(w) \/ RecordConfirmed(w) \/ DeleteUser(w)
  BY <1>1, <1>8 DEF Probe, RecordConfirmed, DeleteUser
<1>9. CASE SetPasswordRefused(w) \/ Settle(w) \/ SetPasswordUnanswered(w) \/ StepFails(w)
  BY <1>2, <1>9 DEF SetPasswordRefused, Settle, SetPasswordUnanswered, StepFails
<1> QED BY <1>3, <1>4, <1>5, <1>6, <1>7, <1>8, <1>9, SealDrain DEF Execution

LEMMA RetrievalDrain == ASSUME Known, DrainInv, NEW a \in Readers, Retrieval(a) PROVE DrainInv'
<1>1. UNCHANGED <<now, keyVars, sealed, cache>>
  BY DEF Retrieval, ResolvePointer, PreRead, Claim, Open, ReaderCrash, writeVars, execVars
<1>2. CASE UNCHANGED handoff
  BY <1>1, <1>2, Kept, StoredWithin
<1>3. CASE Claim(a)
  <2> DEFINE c == handoff[doc[a]]
  <2>1. \/ handoff' = handoff
        \/ handoff' = [handoff EXCEPT ![doc[a]] = [c EXCEPT !.text = FALSE, !.retrieved = TRUE]]
        \/ handoff' = [handoff EXCEPT ![doc[a]] = [c EXCEPT !.text = FALSE]]
    BY <1>3 DEF Claim
  <2>2. c \in Records /\ doc[a] \in Requests
    BY <1>3 DEF Claim, Known, ReadTypes, DocsKnown, RecordTypes
  <2>3. ~[c EXCEPT !.text = FALSE, !.retrieved = TRUE].text /\ ~[c EXCEPT !.text = FALSE].text
    BY <2>2 DEF Records
  <2>4. \A r \in Requests : handoff'[r].text => handoff'[r] = handoff[r]
    BY <2>1, <2>2, <2>3 DEF Known, RecordTypes
  <2>5. TextsFrom
    BY <2>4 DEF TextsFrom
  <2> QED BY <1>1, <2>5, Kept, StoredWithin
<1> QED BY <1>2, <1>3 DEF Retrieval, ResolvePointer, PreRead, Open, ReaderCrash

-----------------------------------------------------------------------------

\* With a drain as long as the record's time to live and as the cached answer's on top
\* of it, no record that can be handed over is sealed under a disabled version
\* (SecretManagerKeyProvider.latest; docs/runbook.md, "Rotating the credential
\* encryption key", asks for the time to live alone).
THEOREM DrainSuffices == DrainAssumption => (Spec => []ValidIsReadable)
<1> SUFFICES ASSUME DrainAssumption PROVE Spec => []ValidIsReadable
  OBVIOUS
<1>1. Init => DrainInv
  BY InitDrain
<1>2. IInv /\ DrainInv /\ [Next]_vars => DrainInv'
  <2> SUFFICES ASSUME IInv, DrainInv, [Next]_vars PROVE DrainInv'
    OBVIOUS
  <2>1. Known
    BY KnownParts DEF IInv
  <2>2. CASE Next
    BY <2>1, <2>2, EnvironmentDrain, ExecutionDrain, RetrievalDrain DEF Next
  <2>3. CASE UNCHANGED vars
    BY <2>1, <2>3, Kept, StoredWithin DEF vars, execVars
  <2> QED BY <2>2, <2>3
<1>3. IInv /\ DrainInv => ValidIsReadable
  <2> SUFFICES ASSUME IInv, DrainInv, NEW r \in Requests, Valid(r)
               PROVE version[handoff[r].key] # "disabled"
    BY DEF ValidIsReadable
  <2>1. Known
    BY KnownParts DEF IInv
  <2>4. handoff[r].text /\ ~(handoff[r].expires <= now)
    BY ValidText, ValidUnexpired
  <2>3. /\ handoff[r].key \in Versions /\ handoff[r].expires \in Nat
        /\ Within(handoff[r]) /\ Drained(handoff[r].key)
    BY <2>1, RecordValues DEF DrainInv, Known, RecordTypes
  <2> QED BY <2>1, <2>3, <2>4, Hours DEF Within, Drained
<1> QED BY <1>1, <1>2, <1>3, Inductive, PTL DEF Spec

-----------------------------------------------------------------------------
(* One execution at a time *)

\* What a busy worker's step is, and that it holds a password only on its way to store it.
JobHolds(w) ==
    /\ pc[w] # "idle" => job[w] \in Requests /\ status[job[w]] \in {"running", "failed", "done"}
    /\ pc[w] \in {"probe", "insert", "stash"} => kind[job[w]] = "create"
    /\ pc[w] \in {"reset", "commit"} => kind[job[w]] = "regenerate"
    /\ pc[w] = "seal" => kind[job[w]] \in {"create", "regenerate"}
    /\ pc[w] = "current" => kind[job[w]] \in {"regenerate", "resend"}
    /\ pc[w] = "confirm" => kind[job[w]] = "resend"
    /\ pc[w] = "delete" => kind[job[w]] = "delete"
    /\ hand[w] # NoPassword => pc[w] \in {"seal", "stash", "commit"}

JobsHold == \A w \in Workers : JobHolds(w)

Unsubmitted == \A r \in Requests : status[r] = "new" => kind[r] = "none"

\* Until two executions overlap, one worker at most is busy, with a step that runs.
Alone ==
    overlapped \/ \A w \in Workers : pc[w] # "idle" =>
                      /\ status[job[w]] = "running"
                      /\ \A v \in Workers : pc[v] # "idle" => v = w

NoDelete == \A o \in Requests : kind[o] # "delete"

\* Where nothing is deleted the account has the newest password.
Accounted == NoDelete => account = issued

AloneInv == JobsHold /\ Unsubmitted /\ Alone /\ Accounted

\* What the steps around the executions leave alone.
EnvironmentEffect ==
    /\ UNCHANGED <<account, issued, credential, execVars, readVars, histVars, faults>>
    /\ now <= now'
    /\ \A r \in Requests :
          /\ status[r] # "new" => status'[r] # "new" /\ kind'[r] = kind[r]
          /\ status'[r] = "new" => status[r] = "new" /\ kind'[r] = kind[r]
          /\ status[r] \in {"running", "done"} => status'[r] = status[r]
          /\ status[r] = "failed" => status'[r] \in {"failed", "running"}
          /\ handoff'[r] \in {handoff[r], NoRecord}

LEMMA EnvironmentLeaves == ASSUME Known, Environment PROVE EnvironmentEffect
<1> USE DEF Known, WorldTypes, RecordTypes, RequestState, EnvironmentEffect
<1>0. now \in Nat /\ now <= now
  BY HandoffAssumption
<1>1. CASE Tick \/ AddVersion \/ \E v \in Versions : DisableVersion(v) \/ DestroyVersion(v)
  BY <1>0, <1>1 DEF Tick, AddVersion, DisableVersion, DestroyVersion, Retire
<1>2. ASSUME NEW r \in Requests, FirestoreTtl(r) PROVE EnvironmentEffect
  BY <1>0, <1>2 DEF FirestoreTtl
<1>3. ASSUME NEW r \in Requests, Validate(r) PROVE EnvironmentEffect
  BY <1>0, <1>3 DEF Validate
<1>4. ASSUME NEW r \in Requests, Resume(r) PROVE EnvironmentEffect
  BY <1>0, <1>4 DEF Resume
<1>5. ASSUME NEW r \in Requests, NEW k \in Kinds, Submit(r, k) PROVE EnvironmentEffect
  BY <1>0, <1>5 DEF Submit
<1> QED BY <1>1, <1>2, <1>3, <1>4, <1>5 DEF Environment

LEMMA RetrievalLeaves ==
    ASSUME Known, NEW a \in Readers, Retrieval(a)
    PROVE  UNCHANGED <<writeVars, overlapped>> /\ faults <= faults'
<1>1. faults \in Nat
  BY DEF Known, WorldTypes
<1> QED BY <1>1 DEF Retrieval, ResolvePointer, PreRead, Claim, Open, ReaderCrash, writeVars, histVars, Fault

\* What an execution leaves alone: the other workers, the other requests, the readers.
ExecutionEffect(w) ==
    /\ UNCHANGED <<now, kind, keyVars, readVars, given, lost, resumes>>
    /\ \A v \in Workers \ {w} : pc'[v] = pc[v] /\ job'[v] = job[v] /\ hand'[v] = hand[v]
                                /\ current'[v] = current[v]
    /\ faults <= faults' /\ (overlapped => overlapped')
    /\ \/ \E r \in Requests : Begin(w, r)
       \/ /\ pc[w] # "idle" /\ overlapped' = overlapped
          /\ pc'[w] = "idle" \/ (job'[w] = job[w] /\ status' = status)
    /\ \A r \in Requests :
          /\ status[r] # "running" => status'[r] = status[r]
          /\ status[r] = "running" => status'[r] \in {"running", "failed", "done"}

LEMMA ExecutionLeaves == ASSUME Known, NEW w \in Workers, Execution(w) PROVE ExecutionEffect(w)
<1> USE DEF Known, WorldTypes, LocalTypes, ExecutionEffect, Goto
<1>0. faults \in Nat /\ faults <= faults /\ faults <= faults + 1
  OBVIOUS
<1>1. ASSUME NEW r \in Requests, Begin(w, r) PROVE ExecutionEffect(w)
  BY <1>0, <1>1 DEF Begin
<1>2. CASE Probe(w) \/ InsertUser(w) \/ ResetPassword(w)
  BY <1>0, <1>2 DEF Probe, InsertUser, ResetPassword, SetPassword, histVars
<1>3. CASE SetPasswordRefused(w)
  BY <1>0, <1>3 DEF SetPasswordRefused, Leave, SettleAs, histVars
<1>4. CASE Seal(w) \/ Stash(w)
  BY <1>0, <1>4 DEF Seal, Stash, histVars
<1>5. CASE ReadCurrent(w)
  <2>1. CASE /\ kind[job[w]] = "regenerate" \/ CurrentFor # {}
             /\ \E d \in IF CurrentFor = {} THEN {NoDoc} ELSE CurrentFor :
                    current' = [current EXCEPT ![w] = d]
             /\ Goto(w, IF kind[job[w]] = "regenerate" THEN "reset" ELSE "confirm")
             /\ UNCHANGED <<status, job, hand, sealed>>
    BY <1>0, <1>5, <2>1 DEF ReadCurrent, histVars
  <2>2. CASE SettleAs(job[w], "failed") /\ Leave(w)
    BY <1>0, <1>5, <2>2 DEF ReadCurrent, histVars, Leave, SettleAs
  <2> QED BY <1>5, <2>1, <2>2 DEF ReadCurrent
<1>6. CASE CommitRotation(w) \/ RecordConfirmed(w) \/ DeleteUser(w)
  BY <1>0, <1>6 DEF CommitRotation, RecordConfirmed, DeleteUser, histVars
<1>7. CASE Settle(w)
  BY <1>0, <1>7 DEF Settle, Leave, SettleAs, histVars
<1>8. CASE SetPasswordUnanswered(w)
  BY <1>0, <1>8 DEF SetPasswordUnanswered, Leave, SettleAs, histVars, Fault
<1>9. CASE StepFails(w)
  BY <1>0, <1>9 DEF StepFails, Leave, SettleAs, histVars, Fault
<1>10. CASE Crash(w)
  BY <1>0, <1>10 DEF Crash, Leave, histVars, Fault
<1> QED BY <1>1, <1>2, <1>3, <1>4, <1>5, <1>6, <1>7, <1>8, <1>9, <1>10 DEF Execution

LEMMA JobsStep == ASSUME Known, JobsHold, [Next]_vars PROVE JobsHold'
<1> SUFFICES ASSUME NEW v \in Workers PROVE JobHolds(v)'
  BY DEF JobsHold
<1> USE DEF JobsHold, JobHolds
<1>1. CASE UNCHANGED vars
  BY <1>1 DEF vars, execVars
<1>2. CASE Environment
  <2>1. pc' = pc /\ job' = job /\ hand' = hand
    BY <1>2, EnvironmentLeaves DEF EnvironmentEffect, execVars
  <2> QED BY <1>2, <2>1, EnvironmentLeaves DEF EnvironmentEffect
<1>3. ASSUME NEW a \in Readers, Retrieval(a) PROVE JobHolds(v)'
  BY <1>3, RetrievalLeaves DEF writeVars, execVars
<1>4. ASSUME NEW w \in Workers, Execution(w), v # w PROVE JobHolds(v)'
  BY <1>4, ExecutionLeaves DEF ExecutionEffect
<1>5. CASE Execution(v)
  <2> USE DEF Known, LocalTypes, Goto, HandsKnown
  <2>1. ASSUME NEW r \in Requests, Begin(v, r) PROVE JobHolds(v)'
    <3>1. kind[r] \in Kinds
      BY <2>1 DEF Begin, WorldTypes, KindsKnown
    <3>2. pc'[v] = FirstMove(r) /\ job'[v] = r /\ UNCHANGED <<hand, kind, status>> /\ pc[v] = "idle" /\ status[r] = "running"
      BY <2>1 DEF Begin
    <3>3. CASE kind[r] = "create"
      BY <3>2, <3>3 DEF FirstMove
    <3>4. CASE kind[r] = "delete"
      BY <3>2, <3>4 DEF FirstMove
    <3>5. CASE kind[r] = "regenerate"
      BY <3>2, <3>5 DEF FirstMove
    <3>6. CASE kind[r] = "resend"
      BY <3>2, <3>6 DEF FirstMove
    <3> QED BY <3>1, <3>3, <3>4, <3>5, <3>6 DEF Kinds
  <2>2. CASE pc'[v] = "idle" /\ hand'[v] = NoPassword
    BY <2>2
  <2>3. CASE Leave(v)
    BY <2>2, <2>3 DEF Leave
  <2>4. CASE Probe(v) \/ InsertUser(v) \/ ResetPassword(v)
    BY <2>4 DEF Probe, InsertUser, ResetPassword, SetPassword
  <2>5. CASE Seal(v)
    BY <2>5 DEF Seal
  <2>6. CASE Stash(v) \/ CommitRotation(v)
    BY <2>6 DEF Stash, CommitRotation
  <2>7. CASE RecordConfirmed(v) \/ DeleteUser(v)
    BY <2>7 DEF RecordConfirmed, DeleteUser
  <2>8. CASE ReadCurrent(v) /\ UNCHANGED <<status, job, hand, sealed>>
    BY <2>8 DEF ReadCurrent, Leave
  <2>9. ReadCurrent(v) => Leave(v) \/ UNCHANGED <<status, job, hand, sealed>>
    BY DEF ReadCurrent
  <2> QED BY <1>5, <2>1, <2>3, <2>4, <2>5, <2>6, <2>7, <2>8, <2>9
          DEF Execution, SetPasswordRefused, Settle, SetPasswordUnanswered, StepFails, Crash
<1> QED BY <1>1, <1>2, <1>3, <1>4, <1>5 DEF Next

\* Until two executions overlap, whoever executes does so alone.
LEMMA OthersIdle ==
    ASSUME Known, JobsHold, Alone, NEW w \in Workers, Execution(w), ~overlapped',
           NEW v \in Workers, v # w
    PROVE  pc[v] = "idle" /\ pc'[v] = "idle"
<1>1. ExecutionEffect(w) /\ ~overlapped
  BY ExecutionLeaves DEF ExecutionEffect
<1>2. pc[v] = "idle"
  <2>1. CASE pc[w] # "idle"
    BY <1>1, <2>1 DEF Alone
  <2>2. ASSUME NEW r \in Requests, Begin(w, r), pc[v] # "idle" PROVE FALSE
    <3>1. job[v] \in Requests
      BY <2>2 DEF JobsHold, JobHolds
    <3> QED BY <2>2, <3>1 DEF Begin, Executing
  <2> QED BY <1>1, <2>1, <2>2 DEF ExecutionEffect
<1> QED BY <1>1, <1>2 DEF ExecutionEffect

LEMMA AloneStep == ASSUME Known, JobsHold, Alone, [Next]_vars PROVE Alone'
<1> SUFFICES ASSUME ~overlapped', NEW w \in Workers, pc'[w] # "idle"
             PROVE  status'[job'[w]] = "running" /\ \A v \in Workers : pc'[v] # "idle" => v = w
  BY DEF Alone
<1>1. CASE UNCHANGED vars
  BY <1>1 DEF vars, execVars, histVars, Alone
<1>2. CASE Environment
  <2>1. pc' = pc /\ job' = job /\ overlapped' = overlapped
    BY <1>2, EnvironmentLeaves DEF EnvironmentEffect, execVars, histVars
  <2>2. job[w] \in Requests
    BY <2>1 DEF JobsHold, JobHolds
  <2> QED BY <1>2, <2>1, <2>2, EnvironmentLeaves DEF EnvironmentEffect, Alone
<1>3. ASSUME NEW a \in Readers, Retrieval(a)
      PROVE  status'[job'[w]] = "running" /\ \A v \in Workers : pc'[v] # "idle" => v = w
  BY <1>3, RetrievalLeaves DEF writeVars, execVars, Alone
<1>4. ASSUME NEW u \in Workers, Execution(u)
      PROVE  status'[job'[w]] = "running" /\ \A v \in Workers : pc'[v] # "idle" => v = w
  <2>1. w = u /\ \A v \in Workers : pc'[v] # "idle" => v = w
    BY <1>4, OthersIdle
  <2>2. ASSUME NEW r \in Requests, Begin(w, r) PROVE status'[job'[w]] = "running"
    BY <2>2 DEF Begin, Known, LocalTypes
  <2>3. ASSUME pc[w] # "idle", job'[w] = job[w], status' = status PROVE status'[job'[w]] = "running"
    <3>1. ~overlapped
      BY <1>4, ExecutionLeaves DEF ExecutionEffect
    <3> QED BY <2>3, <3>1 DEF Alone
  <2> QED BY <1>4, <2>1, <2>2, <2>3, ExecutionLeaves DEF ExecutionEffect
<1> QED BY <1>1, <1>2, <1>3, <1>4 DEF Next

\* What is deleted stays so, and what was never submitted is nothing yet.
LEMMA KindsStep ==
    ASSUME Known, Unsubmitted, [Next]_vars
    PROVE  Unsubmitted' /\ (NoDelete' => NoDelete)
<1>1. CASE Environment
  <2>1. \A r \in Requests : kind[r] = "delete" => kind'[r] = "delete"
    BY <1>1, EnvironmentLeaves DEF EnvironmentEffect, Unsubmitted
  <2>2. Unsubmitted'
    BY <1>1, EnvironmentLeaves DEF EnvironmentEffect, Unsubmitted
  <2> QED BY <2>1, <2>2 DEF NoDelete
<1>2. ASSUME NEW a \in Readers, Retrieval(a) PROVE Unsubmitted' /\ (NoDelete' => NoDelete)
  BY <1>2, RetrievalLeaves DEF writeVars, Unsubmitted, NoDelete
<1>3. ASSUME NEW w \in Workers, Execution(w) PROVE Unsubmitted' /\ (NoDelete' => NoDelete)
  BY <1>3, ExecutionLeaves DEF ExecutionEffect, Unsubmitted, NoDelete
<1>4. CASE UNCHANGED vars
  BY <1>4 DEF vars, Unsubmitted, NoDelete
<1> QED BY <1>1, <1>2, <1>3, <1>4 DEF Next

LEMMA AccountedStep == ASSUME Known, JobsHold, Unsubmitted, Accounted, [Next]_vars PROVE Accounted'
<1> SUFFICES ASSUME NoDelete', NoDelete PROVE account' = issued'
  BY KindsStep DEF Accounted
<1>1. CASE UNCHANGED vars \/ Environment \/ \E a \in Readers : Retrieval(a)
  BY <1>1, EnvironmentLeaves, RetrievalLeaves DEF vars, EnvironmentEffect, writeVars, Accounted
<1>2. ASSUME NEW w \in Workers, Execution(w) PROVE account' = issued'
  <2>1. ~DeleteUser(w)
    BY DEF DeleteUser, JobsHold, JobHolds, NoDelete
  <2> QED BY <1>2, <2>1
          DEF Execution, Begin, Probe, InsertUser, ResetPassword, SetPassword, SetPasswordRefused, Seal, Stash,
              ReadCurrent, CommitRotation, RecordConfirmed, Settle, SetPasswordUnanswered, StepFails, Crash,
              Accounted
<1> QED BY <1>1, <1>2 DEF Next

LEMMA AloneInvStep == ASSUME Known, AloneInv, [Next]_vars PROVE AloneInv'
BY JobsStep, KindsStep, AloneStep, AccountedStep DEF AloneInv

LEMMA InitAlone == Init => AloneInv
BY DEF Init, AloneInv, JobsHold, JobHolds, Unsubmitted, Alone, Accounted, Absent, NoPassword

-----------------------------------------------------------------------------
(* A record is written once *)

\* There is a record, or a retrieval goes by one that it has read.
Written(r) == handoff[r].exists \/ \E a \in Readers : rpc[a] = "claim" /\ doc[a] = r

WrittenHolds(r) ==
    Written(r) =>
        /\ status[r] # "new" /\ issued # 0 /\ kind[r] \in {"create", "regenerate"}
        /\ kind[r] = "regenerate" => credential[r].rotated
        /\ kind[r] = "create" /\ faults = 0
              => status[r] = "done" \/ \E w \in Workers : pc[w] = "settle" /\ job[w] = r

\* A worker on its way to store a record has none there yet.
ToWrite(w) ==
    /\ pc[w] \in {"seal", "stash"} /\ kind[job[w]] = "create" => ~Written(job[w])
    /\ pc[w] \in {"current", "reset", "seal", "commit"} /\ kind[job[w]] = "regenerate"
          => ~credential[job[w]].rotated

KeyHeld(a) ==
    /\ rpc[a] = "claim" /\ handoff[doc[a]].text => handoff[doc[a]].key = pre[a]
    /\ rpc[a] = "open" => claimed[a].key = pre[a]

Quiet == ~overlapped /\ (faults = 0 \/ NoDelete)

KeyInv ==
    Quiet => /\ \A r \in Requests : WrittenHolds(r)
             /\ \A w \in Workers : ToWrite(w)
             /\ \A a \in Readers : KeyHeld(a)
             /\ lost = {}

-----------------------------------------------------------------------------
(* A record that can be handed over signs in *)

\* A worker about to store a password holds the account's, and knows of every record that
\* could be handed over.
ToStore(w) ==
    /\ pc[w] \in {"seal", "stash", "commit"} => hand[w] = account
    /\ pc[w] \in {"seal", "stash"} /\ kind[job[w]] = "create" => \A r \in Requests : ~Valid(r)
    /\ pc[w] \in {"reset", "seal", "commit"} /\ kind[job[w]] = "regenerate"
          => \A r \in Requests : Valid(r) => r = current[w]

\* A password that is nowhere any more.
GoneFor(p) ==
    p \in Passwords /\ p <= issued /\ HeldBy(p) = {} /\ SealedIn(p) = {} /\ TakenBy(p) = {} /\ given[p] = 0

SignsIn(r) ==
    Valid(r) =>
        /\ handoff[r].password = account \/ HeldBy(account) # {} \/ (GoneFor(account) /\ faults > 0)
        /\ \A q \in Requests : Valid(q) => q = r

SignInv ==
    ~overlapped /\ NoDelete => /\ \A w \in Workers : ToStore(w)
                               /\ \A r \in Requests : SignsIn(r)

\* A retrieval writes no record, and goes by one only that it has read.
RetrievalEffect(a) ==
    /\ \A r \in Requests : /\ handoff'[r].exists = handoff[r].exists
                           /\ handoff'[r].text => handoff'[r] = handoff[r]
                           /\ Written(r)' => Written(r)
    /\ \A b \in Readers \ {a} :
          rpc'[b] = rpc[b] /\ doc'[b] = doc[b] /\ pre'[b] = pre[b] /\ claimed'[b] = claimed[b]

LEMMA RetrievalReads == ASSUME Known, NEW a \in Readers, Retrieval(a) PROVE RetrievalEffect(a)
<1> USE DEF Known, ReadTypes, DocsKnown
<1>1. ASSUME NEW r \in Requests, ResolvePointer(a, r) PROVE RetrievalEffect(a)
  BY <1>1 DEF ResolvePointer, RetrievalEffect, Written
<1>2. CASE PreRead(a)
  <2>1. UNCHANGED handoff /\ doc[a] \in Requests
    BY <1>2 DEF PreRead
  <2>2. \A b \in Readers \ {a} :
          rpc'[b] = rpc[b] /\ doc'[b] = doc[b] /\ pre'[b] = pre[b] /\ claimed'[b] = claimed[b]
    BY <1>2 DEF PreRead, Answered
  <2>3. rpc'[a] = "claim" => doc'[a] = doc[a] /\ handoff[doc[a]].exists
    BY <1>2 DEF PreRead, Answered
  <2> QED BY <2>1, <2>2, <2>3 DEF RetrievalEffect, Written
<1>3. CASE Claim(a)
  <2>1. doc[a] \in Requests /\ rpc'[a] # "claim"
    BY <1>3 DEF Claim, Answered
  <2>2. \A b \in Readers \ {a} :
          rpc'[b] = rpc[b] /\ doc'[b] = doc[b] /\ pre'[b] = pre[b] /\ claimed'[b] = claimed[b]
    BY <1>3 DEF Claim, Answered
  <2>3. \/ handoff' = [handoff EXCEPT ![doc[a]].text = FALSE, ![doc[a]].retrieved = TRUE]
        \/ handoff' = [handoff EXCEPT ![doc[a]].text = FALSE]
        \/ handoff' = handoff
    BY <1>3 DEF Claim
  <2>4. \A r \in Requests : handoff'[r].exists = handoff[r].exists /\ (handoff'[r].text => handoff'[r] = handoff[r])
    BY <2>1, <2>3 DEF RecordTypes, Records
  <2> QED BY <2>1, <2>2, <2>4 DEF RetrievalEffect, Written
<1>4. CASE Open(a) \/ ReaderCrash(a)
  BY <1>4 DEF Open, ReaderCrash, Answered, RetrievalEffect, Written
<1> QED BY <1>1, <1>2, <1>3, <1>4 DEF Retrieval

\* The two writes of a worker: a text where its step's record goes, and none elsewhere.
Writes(w) == Stash(w) \/ CommitRotation(w)

LEMMA ExecutionWrites ==
    ASSUME Known, JobsHold, NEW w \in Workers, Execution(w), NEW r \in Requests
    PROVE  /\ ~Writes(w) => handoff' = handoff
           /\ Writes(w) => job[w] \in Requests
           /\ r # job[w] => /\ handoff'[r].exists = handoff[r].exists
                            /\ handoff'[r].text => handoff'[r] = handoff[r]
<1>1. ~Writes(w) => handoff' = handoff
  BY DEF Execution, Begin, Probe, InsertUser, ResetPassword, SetPassword, SetPasswordRefused, Seal,
         ReadCurrent, RecordConfirmed, DeleteUser, Settle, SetPasswordUnanswered, StepFails, Crash, Writes
<1>2. Writes(w) => job[w] \in Requests
  BY DEF Writes, Stash, CommitRotation, JobsHold, JobHolds
<1>3. ASSUME r # job[w], Writes(w)
      PROVE  handoff'[r].exists = handoff[r].exists /\ (handoff'[r].text => handoff'[r] = handoff[r])
  <2>1. CASE Stash(w)
    BY <1>2, <1>3, <2>1 DEF Stash, Known, RecordTypes
  <2>2. CASE CommitRotation(w)
    <3> DEFINE set == [handoff EXCEPT ![job[w]] = sealed[w]]
    <3>1. set \in [Requests -> Records] /\ set[r] = handoff[r]
      BY <1>2, <1>3 DEF Known, RecordTypes, LocalTypes
    <3>2. handoff' = set \/ \E d \in Requests : handoff' = [set EXCEPT ![d] = Superseded(@)]
      BY <2>2 DEF CommitRotation, Rotated, Known, LocalTypes
    <3> HIDE DEF set
    <3>3. CASE handoff' = set
      BY <3>1, <3>3
    <3>4. ASSUME NEW d \in Requests, handoff' = [set EXCEPT ![d] = Superseded(@)]
          PROVE  handoff'[r].exists = handoff[r].exists /\ (handoff'[r].text => handoff'[r] = handoff[r])
      BY <3>1, <3>4 DEF Superseded, Records
    <3> QED BY <3>2, <3>3, <3>4
  <2> QED BY <1>3, <2>1, <2>2 DEF Writes
<1> QED BY <1>1, <1>2, <1>3

LEMMA QuietStep == ASSUME Known, Unsubmitted, [Next]_vars, Quiet' PROVE Quiet
<1>1. NoDelete' => NoDelete
  BY KindsStep
<1>2. faults \in Nat /\ faults' \in Nat
  BY NextKnown DEF Known, WorldTypes
<1>3. CASE UNCHANGED vars \/ Environment
  BY <1>1, <1>3, EnvironmentLeaves DEF vars, histVars, EnvironmentEffect, Quiet
<1>4. ASSUME NEW a \in Readers, Retrieval(a) PROVE Quiet
  BY <1>1, <1>2, <1>4, RetrievalLeaves DEF Quiet
<1>5. ASSUME NEW w \in Workers, Execution(w) PROVE Quiet
  BY <1>1, <1>2, <1>5, ExecutionLeaves DEF ExecutionEffect, Quiet
<1> QED BY <1>3, <1>4, <1>5 DEF Next

KeyBody ==
    /\ \A r \in Requests : WrittenHolds(r)
    /\ \A w \in Workers : ToWrite(w)
    /\ \A a \in Readers : KeyHeld(a)
    /\ lost = {}

LEMMA EnvironmentKeys == ASSUME Known, AloneInv, KeyBody, Environment PROVE KeyBody'
<1>1. EnvironmentEffect
  BY EnvironmentLeaves
<1>2. ASSUME NEW r \in Requests
      PROVE  /\ Written(r)' => Written(r)
             /\ handoff'[r].text => handoff'[r] = handoff[r]
  BY <1>1 DEF EnvironmentEffect, Written, NoRecord, readVars
<1>3. ASSUME NEW r \in Requests PROVE WrittenHolds(r)'
  <2> SUFFICES ASSUME Written(r)
               PROVE  /\ status'[r] # "new" /\ issued' # 0 /\ kind'[r] \in {"create", "regenerate"}
                      /\ kind'[r] = "regenerate" => credential'[r].rotated
                      /\ kind'[r] = "create" /\ faults' = 0
                            => status'[r] = "done" \/ \E w \in Workers : pc'[w] = "settle" /\ job'[w] = r
    BY <1>2 DEF WrittenHolds
  <2> QED BY <1>1 DEF EnvironmentEffect, KeyBody, WrittenHolds, execVars
<1>4. ASSUME NEW w \in Workers PROVE ToWrite(w)'
  <2>1. pc' = pc /\ job' = job /\ credential' = credential
    BY <1>1 DEF EnvironmentEffect, execVars
  <2>2. ASSUME pc[w] # "idle" PROVE job[w] \in Requests /\ kind'[job[w]] = kind[job[w]]
    BY <1>1, <2>2 DEF EnvironmentEffect, AloneInv, JobsHold, JobHolds
  <2> QED BY <1>2, <2>1, <2>2 DEF KeyBody, ToWrite
<1>5. ASSUME NEW a \in Readers PROVE KeyHeld(a)'
  <2>1. rpc' = rpc /\ doc' = doc /\ pre' = pre /\ claimed' = claimed
    BY <1>1 DEF EnvironmentEffect, readVars
  <2>2. rpc[a] = "claim" => doc[a] \in Requests
    BY DEF Known, ReadTypes, DocsKnown
  <2> QED BY <1>2, <2>1, <2>2 DEF KeyBody, KeyHeld
<1> QED BY <1>1, <1>3, <1>4, <1>5 DEF KeyBody, EnvironmentEffect, histVars

LEMMA RetrievalKeys ==
    ASSUME Known, JobsHold, KeyBody, NEW a \in Readers, Retrieval(a) PROVE KeyBody'
<1>1. RetrievalEffect(a)
  BY RetrievalReads
<1>2. UNCHANGED <<writeVars, overlapped>> /\ faults <= faults' /\ faults \in Nat /\ faults' \in Nat
  BY RetrievalLeaves, RetrievalKnown DEF Known, WorldTypes
<1>3. ASSUME NEW r \in Requests PROVE WrittenHolds(r)'
  <2>1. Written(r)' => Written(r)
    BY <1>1 DEF RetrievalEffect
  <2>2. faults' = 0 => faults = 0
    BY <1>2
  <2> QED BY <1>2, <2>1, <2>2 DEF KeyBody, WrittenHolds, writeVars, execVars
<1>4. ASSUME NEW w \in Workers PROVE ToWrite(w)'
  <2>1. \A r \in Requests : Written(r)' => Written(r)
    BY <1>1 DEF RetrievalEffect
  <2>2. pc' = pc /\ job' = job /\ kind' = kind /\ credential' = credential
    BY <1>2 DEF writeVars, execVars
  <2>3. pc[w] # "idle" => job[w] \in Requests
    BY DEF JobsHold, JobHolds
  <2> QED BY <2>1, <2>2, <2>3 DEF KeyBody, ToWrite
<1>5. ASSUME NEW b \in Readers, b # a PROVE KeyHeld(b)'
  <2>1. rpc[b] = "claim" => doc[b] \in Requests
    BY DEF Known, ReadTypes, DocsKnown
  <2> QED BY <1>1, <1>5, <2>1 DEF RetrievalEffect, KeyBody, KeyHeld
<1>6. KeyHeld(a)' /\ lost' = {}
  <2> USE DEF Known, ReadTypes, DocsKnown
  <2>1. ASSUME NEW r \in Requests, ResolvePointer(a, r) PROVE KeyHeld(a)' /\ lost' = {}
    BY <2>1 DEF ResolvePointer, KeyHeld, KeyBody, histVars
  <2>2. CASE PreRead(a)
    BY <2>2 DEF PreRead, Answered, KeyHeld, KeyBody, histVars
  <2>3. CASE Claim(a)
    <3>1. lost' = {} /\ rpc'[a] \in {"idle", "open"}
      BY <2>3 DEF Claim, Answered, histVars, KeyBody
    <3>2. ASSUME rpc'[a] = "open" PROVE claimed'[a].key = pre'[a]
      <4>1. Valid(doc[a]) /\ claimed'[a] = handoff[doc[a]] /\ pre' = pre /\ rpc[a] = "claim"
        BY <2>3, <3>2 DEF Claim, Answered, Valid
      <4> QED BY <4>1, ValidText DEF KeyBody, KeyHeld
    <3> QED BY <3>1, <3>2 DEF KeyHeld
  <2>4. CASE Open(a)
    <3>1. claimed[a].key = pre[a]
      BY <2>4 DEF Open, KeyBody, KeyHeld
    <3> QED BY <2>4, <3>1 DEF Open, Answered, KeyHeld, KeyBody
  <2>5. CASE ReaderCrash(a)
    BY <2>5 DEF ReaderCrash, Answered, KeyHeld, KeyBody, histVars
  <2> QED BY <2>1, <2>2, <2>3, <2>4, <2>5 DEF Retrieval
<1> QED BY <1>3, <1>4, <1>5, <1>6 DEF KeyBody

\* A worker that stores a record finds none where it goes.
LEMMA WritesOnce ==
    ASSUME JobsHold, KeyBody, NEW w \in Workers, Writes(w) PROVE ~Written(job[w])
<1>1. CASE Stash(w)
  BY <1>1 DEF Stash, JobsHold, JobHolds, KeyBody, ToWrite
<1>2. CASE CommitRotation(w)
  BY <1>2 DEF CommitRotation, JobsHold, JobHolds, KeyBody, ToWrite, WrittenHolds
<1> QED BY <1>1, <1>2 DEF Writes

LEMMA ExecutionWrittenHolds ==
    ASSUME Known, OneCopy, AloneInv, KeyBody, NEW w \in Workers, Execution(w), ~overlapped',
           NEW r \in Requests
    PROVE  WrittenHolds(r)'
<1> USE DEF AloneInv
<1>1. /\ ExecutionEffect(w) /\ kind' = kind /\ UNCHANGED <<rpc, doc>>
      /\ faults \in Nat /\ faults' \in Nat /\ issued \in Nat /\ issued' \in Nat
  BY ExecutionLeaves, ExecutionKnown DEF ExecutionEffect, readVars, Known, WorldTypes
<1>2. issued <= issued'
  BY <1>1
     DEF Execution, Begin, Probe, InsertUser, ResetPassword, SetPassword, SetPasswordRefused, Seal, Stash,
         ReadCurrent, CommitRotation, RecordConfirmed, DeleteUser, Settle, SetPasswordUnanswered, StepFails, Crash
<1> SUFFICES ASSUME Written(r)'
             PROVE  /\ status'[r] # "new" /\ issued' # 0 /\ kind[r] \in {"create", "regenerate"}
                    /\ kind[r] = "regenerate" => credential'[r].rotated
                    /\ kind[r] = "create" /\ faults' = 0
                          => status'[r] = "done" \/ \E v \in Workers : pc'[v] = "settle" /\ job'[v] = r
  BY <1>1 DEF WrittenHolds
<1>3. CASE Written(r)
  <2>1. /\ status[r] # "new" /\ issued # 0 /\ kind[r] \in {"create", "regenerate"}
        /\ kind[r] = "regenerate" => credential[r].rotated
        /\ kind[r] = "create" /\ faults = 0
              => status[r] = "done" \/ \E v \in Workers : pc[v] = "settle" /\ job[v] = r
    BY <1>3 DEF KeyBody, WrittenHolds
  <2>2. status'[r] # "new" /\ issued' # 0 /\ (status[r] = "done" => status'[r] = "done")
    BY <1>1, <1>2, <2>1 DEF ExecutionEffect
  <2>3. ASSUME kind[r] = "regenerate" PROVE credential'[r].rotated
    <3>1. CASE RecordConfirmed(w)
      BY <2>1, <2>3, <3>1 DEF RecordConfirmed, JobsHold, JobHolds, Known, RecordTypes
    <3>2. CASE CommitRotation(w)
      <4>1. credential' = [credential EXCEPT ![job[w]] = [doc |-> job[w], rotated |-> TRUE]]
        BY <3>2 DEF CommitRotation
      <4>2. CASE r = job[w]
        BY <4>1, <4>2 DEF Known, RecordTypes
      <4>3. CASE r # job[w]
        BY <2>1, <2>3, <4>1, <4>3 DEF Known, RecordTypes
      <4> QED BY <4>2, <4>3
    <3>3. ~RecordConfirmed(w) /\ ~CommitRotation(w) => credential' = credential
      BY DEF Execution, Begin, Probe, InsertUser, ResetPassword, SetPassword, SetPasswordRefused, Seal, Stash,
             ReadCurrent, DeleteUser, Settle, SetPasswordUnanswered, StepFails, Crash
    <3> QED BY <2>1, <2>3, <3>1, <3>2, <3>3
  <2>4. ASSUME NEW v \in Workers, pc[v] = "settle", job[v] = r, faults' = 0 PROVE status'[r] = "done"
    <3>1. v = w
      BY <2>4, OthersIdle
    <3>2. status[r] = "running"
      BY <1>1, <2>4 DEF ExecutionEffect, Alone
    <3>3. Settle(w)
      BY <1>1, <2>4, <3>1
         DEF Execution, Begin, Probe, InsertUser, ResetPassword, SetPasswordRefused, Seal, Stash, ReadCurrent,
             CommitRotation, RecordConfirmed, DeleteUser, SetPasswordUnanswered, StepFails, Crash, Fault
    <3> QED BY <2>4, <3>1, <3>2, <3>3 DEF Settle, SettleAs, Known, WorldTypes
  <2>5. faults' = 0 => faults = 0
    BY <1>1 DEF ExecutionEffect
  <2> QED BY <2>1, <2>2, <2>3, <2>4, <2>5
<1>4. CASE ~Written(r)
  <2>1. Writes(w) /\ r = job[w]
    BY <1>1, <1>4, ExecutionWrites DEF Written
  <2>2. pc[w] \in {"stash", "commit"} /\ pc'[w] = "settle" /\ job'[w] = r /\ status' = status
    BY <2>1 DEF Writes, Stash, CommitRotation, Goto, Known, LocalTypes
  <2>3. status[r] # "new"
    BY <2>1, <2>2 DEF JobsHold, JobHolds
  <2>4. kind[r] \in {"create", "regenerate"}
    BY <2>1, <2>2 DEF JobsHold, JobHolds
  <2>5. issued # 0
    <3>1. hand[w] \in Passwords /\ hand[w] # 0 /\ hand[w] \in Nat
      BY <2>2, HandoffAssumption DEF Known, LocalTypes, HandsKnown, Passwords, NoPassword
    <3>2. w \in HeldBy(hand[w])
      BY DEF HeldBy
    <3>3. ~(hand[w] > issued)
      BY <3>1, <3>2 DEF OneCopy
    <3> QED BY <1>1, <3>1, <3>3
  <2>6. kind[r] = "regenerate" => credential'[r].rotated
    <3> SUFFICES ASSUME kind[r] = "regenerate" PROVE credential'[r].rotated
      OBVIOUS
    <3>1. CommitRotation(w)
      BY <2>1 DEF Writes, Stash, JobsHold, JobHolds
    <3> QED BY <2>1, <3>1 DEF CommitRotation, Known, RecordTypes
  <2> QED BY <1>1, <1>2, <2>1, <2>2, <2>3, <2>4, <2>5, <2>6
<1> QED BY <1>3, <1>4

LEMMA ExecutionToWrite ==
    ASSUME Known, AloneInv, KeyBody, Quiet', Quiet, NEW w \in Workers, Execution(w), NEW v \in Workers
    PROVE  ToWrite(v)'
<1> USE DEF AloneInv
<1>1. ExecutionEffect(w) /\ kind' = kind /\ ~overlapped' /\ UNCHANGED <<rpc, doc>>
  BY ExecutionLeaves DEF ExecutionEffect, Quiet, readVars
<1>2. CASE v # w
  BY <1>1, <1>2, OthersIdle DEF ToWrite
<1>3. CASE v = w
  <2> USE <1>3 DEF Known, LocalTypes, Goto
  <2>1. ASSUME NEW r \in Requests, Begin(w, r) PROVE ToWrite(w)'
    <3>1. pc'[w] = FirstMove(r) /\ job'[w] = r /\ credential' = credential /\ kind[r] \in Kinds
      BY <2>1 DEF Begin, WorldTypes, KindsKnown
    <3>2. CASE kind[r] = "create"
      BY <1>1, <3>1, <3>2 DEF ToWrite, FirstMove
    <3>3. CASE kind[r] = "regenerate"
      BY <1>1, <3>1, <3>3 DEF ToWrite, FirstMove
    <3>4. CASE kind[r] \notin {"create", "regenerate"}
      BY <1>1, <3>1, <3>4 DEF ToWrite
    <3> QED BY <3>2, <3>3, <3>4
  <2>2. CASE InsertUser(w)
    <3>1. /\ pc[w] = "insert" /\ account = Absent /\ pc'[w] = "seal" /\ UNCHANGED <<job, handoff, credential>>
          /\ kind[job[w]] = "create" /\ job[w] \in Requests
      BY <2>2 DEF InsertUser, SetPassword, JobsHold, JobHolds
    <3>2. ASSUME Written(job[w]) PROVE FALSE
      <4>1. /\ issued # 0
            /\ faults = 0 => status[job[w]] = "done" \/ \E u \in Workers : pc[u] = "settle" /\ job[u] = job[w]
        BY <3>1, <3>2 DEF KeyBody, WrittenHolds
      <4>2. status[job[w]] = "running" /\ \A u \in Workers : pc[u] # "idle" => u = w
        BY <3>1 DEF Alone, Quiet
      <4>3. NoDelete
        BY <3>1, <4>1, <4>2 DEF Quiet
      <4> QED BY <3>1, <4>1, <4>3 DEF Accounted, Absent
    <3> QED BY <1>1, <3>1, <3>2 DEF ToWrite, Written
  <2>3. CASE ResetPassword(w)
    BY <1>1, <2>3 DEF ResetPassword, SetPassword, JobsHold, JobHolds, KeyBody, ToWrite
  <2>4. CASE Seal(w)
    <3>1. pc[w] = "seal" /\ pc'[w] = (IF kind[job[w]] = "create" THEN "stash" ELSE "commit")
          /\ UNCHANGED <<job, handoff, credential>>
      BY <2>4 DEF Seal
    <3> QED BY <1>1, <3>1 DEF KeyBody, ToWrite, Written
  <2>5. CASE ReadCurrent(w) /\ UNCHANGED job
    BY <1>1, <2>5 DEF ReadCurrent, Leave, KeyBody, ToWrite
  <2>6. CASE pc'[w] \in {"idle", "insert", "settle"}
    BY <2>6 DEF ToWrite
  <2>7. CASE Leave(w)
    BY <2>6, <2>7 DEF Leave
  <2>8. Probe(w) \/ Stash(w) \/ CommitRotation(w) \/ RecordConfirmed(w) \/ DeleteUser(w)
        => pc'[w] \in {"idle", "insert", "settle"}
    BY DEF Probe, Stash, CommitRotation, RecordConfirmed, DeleteUser
  <2>9. ReadCurrent(w) => UNCHANGED job \/ Leave(w)
    BY DEF ReadCurrent
  <2> QED BY <2>1, <2>2, <2>3, <2>4, <2>5, <2>6, <2>7, <2>8, <2>9
          DEF Execution, SetPasswordRefused, Settle, SetPasswordUnanswered, StepFails, Crash
<1> QED BY <1>2, <1>3

LEMMA KeyInvStep == ASSUME Known, OneCopy, AloneInv, KeyInv, [Next]_vars PROVE KeyInv'
<1> SUFFICES ASSUME Quiet', Quiet, KeyBody PROVE KeyBody'
  BY QuietStep DEF KeyInv, KeyBody, AloneInv
<1>1. CASE UNCHANGED vars
  BY <1>1 DEF vars, execVars, readVars, histVars, KeyBody, WrittenHolds, Written, ToWrite, KeyHeld
<1>2. ASSUME NEW a \in Readers, Retrieval(a) PROVE KeyBody'
  BY <1>2, RetrievalKeys DEF AloneInv
<1>3. ASSUME NEW w \in Workers, Execution(w) PROVE KeyBody'
  <2>1. UNCHANGED <<rpc, doc, pre, claimed, lost>> /\ ~overlapped'
    BY <1>3, ExecutionLeaves DEF ExecutionEffect, readVars, Quiet
  <2>2. ASSUME NEW a \in Readers PROVE KeyHeld(a)'
    <3>1. rpc[a] = "claim" => doc[a] \in Requests /\ Written(doc[a])
      BY DEF Known, ReadTypes, DocsKnown, Written
    <3>2. rpc[a] = "claim" /\ handoff'[doc[a]].text => handoff'[doc[a]] = handoff[doc[a]]
      BY <1>3, <3>1, ExecutionWrites, WritesOnce DEF AloneInv
    <3> QED BY <2>1, <3>2 DEF KeyBody, KeyHeld
  <2> QED BY <1>3, <2>1, <2>2, ExecutionWrittenHolds, ExecutionToWrite DEF KeyBody
<1> QED BY <1>1, <1>2, <1>3, EnvironmentKeys DEF Next

\* What a record is that can be handed over.
LEMMA ValidIs ==
    ASSUME Known, NEW r \in Requests
    PROVE  Valid(r) <=> /\ handoff[r].exists /\ handoff[r].text /\ ~handoff[r].superseded
                        /\ ~handoff[r].retrieved /\ ~(handoff[r].expires <= now)
<1>1. /\ handoff[r].superseded \in BOOLEAN /\ handoff[r].retrieved \in BOOLEAN
      /\ handoff[r].text \in BOOLEAN /\ (handoff[r].expires <= now) \in BOOLEAN
  BY DEF Known, RecordTypes, Records
<1>2. CASE handoff[r].superseded = TRUE
  BY <1>2 DEF Valid, CredentialState
<1>3. CASE handoff[r].superseded = FALSE /\ handoff[r].retrieved = TRUE
  BY <1>3 DEF Valid, CredentialState
<1>4. CASE handoff[r].superseded = FALSE /\ handoff[r].retrieved = FALSE /\ (handoff[r].expires <= now) = TRUE
  BY <1>4 DEF Valid, CredentialState
<1>5. CASE /\ handoff[r].superseded = FALSE /\ handoff[r].retrieved = FALSE
           /\ (handoff[r].expires <= now) = FALSE /\ handoff[r].text = FALSE
  BY <1>5 DEF Valid, CredentialState
<1>6. CASE /\ handoff[r].superseded = FALSE /\ handoff[r].retrieved = FALSE
           /\ (handoff[r].expires <= now) = FALSE /\ handoff[r].text = TRUE
  BY <1>6 DEF Valid, CredentialState
<1> QED BY <1>1, <1>2, <1>3, <1>4, <1>5, <1>6

LEMMA ValidIsNext ==
    ASSUME Known', NEW r \in Requests
    PROVE  Valid(r)' <=> /\ handoff'[r].exists /\ handoff'[r].text /\ ~handoff'[r].superseded
                         /\ ~handoff'[r].retrieved /\ ~(handoff'[r].expires <= now')
<1>1. /\ handoff'[r].superseded \in BOOLEAN /\ handoff'[r].retrieved \in BOOLEAN
      /\ handoff'[r].text \in BOOLEAN /\ (handoff'[r].expires <= now') \in BOOLEAN
  BY DEF Known, RecordTypes, Records
<1>2. CASE handoff'[r].superseded = TRUE
  BY <1>2 DEF Valid, CredentialState
<1>3. CASE handoff'[r].superseded = FALSE /\ handoff'[r].retrieved = TRUE
  BY <1>3 DEF Valid, CredentialState
<1>4. CASE handoff'[r].superseded = FALSE /\ handoff'[r].retrieved = FALSE /\ (handoff'[r].expires <= now') = TRUE
  BY <1>4 DEF Valid, CredentialState
<1>5. CASE /\ handoff'[r].superseded = FALSE /\ handoff'[r].retrieved = FALSE
           /\ (handoff'[r].expires <= now') = FALSE /\ handoff'[r].text = FALSE
  BY <1>5 DEF Valid, CredentialState
<1>6. CASE /\ handoff'[r].superseded = FALSE /\ handoff'[r].retrieved = FALSE
           /\ (handoff'[r].expires <= now') = FALSE /\ handoff'[r].text = TRUE
  BY <1>6 DEF Valid, CredentialState
<1> QED BY <1>1, <1>2, <1>3, <1>4, <1>5, <1>6

\* A record that becomes neither younger nor another can only cease to be valid.
LEMMA StaysValid ==
    ASSUME Known, Known', now <= now', NEW r \in Requests, handoff'[r].text => handoff'[r] = handoff[r], Valid(r)'
    PROVE  Valid(r) /\ handoff'[r] = handoff[r]
<1>1. /\ handoff'[r].exists /\ handoff'[r].text /\ ~handoff'[r].superseded
      /\ ~handoff'[r].retrieved /\ ~(handoff'[r].expires <= now')
  BY ValidIsNext
<1>2. handoff'[r] = handoff[r] /\ handoff[r].expires \in Nat /\ now \in Nat /\ now' \in Nat
  BY <1>1, HandoffAssumption DEF Known, WorldTypes, RecordTypes, Records
<1>3. ~(handoff[r].expires <= now)
  BY <1>1, <1>2
<1> QED BY <1>1, <1>2, <1>3, ValidIs

LEMMA GoneStays == ASSUME Known, OneCopy, [Next]_vars, NEW p, GoneFor(p) PROVE GoneFor(p)'
<1>1. Traced(p) \/ Given(p)
  BY NextCopies DEF CopyStep, GoneFor
<1>2. issued \in Nat /\ issued' \in Nat /\ p \in Nat
  BY NextKnown, HandoffAssumption DEF Known, WorldTypes, GoneFor, Passwords
<1> QED BY <1>1, <1>2 DEF GoneFor, Traced, Given, Passwords

SignBody ==
    /\ \A w \in Workers : ToStore(w)
    /\ \A r \in Requests : SignsIn(r)

\* A step that leaves the account, the hands and the records that are valid alone.
LEMMA StillSignsIn ==
    ASSUME Known, OneCopy, [Next]_vars, SignBody, account' = account, UNCHANGED hand,
           faults \in Nat, faults' \in Nat, faults <= faults',
           \A r \in Requests : Valid(r)' => Valid(r) /\ handoff'[r] = handoff[r], NEW r \in Requests
    PROVE  SignsIn(r)'
<1> SUFFICES ASSUME Valid(r)'
             PROVE  /\ \/ handoff'[r].password = account' \/ (HeldBy(account))' # {}
                       \/ ((GoneFor(account))' /\ faults' > 0)
                    /\ \A q \in Requests : Valid(q)' => q = r
  BY DEF SignsIn
<1>1. Valid(r) /\ handoff'[r] = handoff[r]
  OBVIOUS
<1>2. (HeldBy(account))' = HeldBy(account)
  BY DEF HeldBy
<1>3. GoneFor(account) => (GoneFor(account))'
  <2>1. ASSUME NEW p, p = account, GoneFor(p) PROVE (GoneFor(account))'
    BY <2>1, GoneStays DEF GoneFor, HeldBy, SealedIn, TakenBy
  <2> QED BY <2>1
<1> QED BY <1>1, <1>2, <1>3 DEF SignBody, SignsIn

LEMMA EnvironmentSigns == ASSUME Known, OneCopy, AloneInv, SignBody, Environment PROVE SignBody'
<1>1. EnvironmentEffect /\ Known' /\ [Next]_vars
  BY EnvironmentLeaves, EnvironmentKnown DEF Next
<1>2. ASSUME NEW r \in Requests, Valid(r)' PROVE Valid(r) /\ handoff'[r] = handoff[r]
  <2>1. handoff'[r].text => handoff'[r] = handoff[r]
    BY <1>1 DEF EnvironmentEffect, NoRecord
  <2> QED BY <1>1, <1>2, <2>1, StaysValid DEF EnvironmentEffect
<1>3. /\ account' = account /\ UNCHANGED <<pc, job, hand, current, faults>> /\ faults \in Nat /\ faults <= faults
  BY <1>1 DEF EnvironmentEffect, execVars, Known, WorldTypes
<1>4. ASSUME NEW w \in Workers PROVE ToStore(w)'
  <2>1. pc[w] # "idle" => kind'[job[w]] = kind[job[w]]
    BY <1>1 DEF EnvironmentEffect, AloneInv, JobsHold, JobHolds
  <2> QED BY <1>2, <1>3, <2>1 DEF SignBody, ToStore
<1>5. ASSUME NEW r \in Requests PROVE SignsIn(r)'
  BY <1>1, <1>2, <1>3, StillSignsIn
<1> QED BY <1>4, <1>5 DEF SignBody

LEMMA RetrievalSigns ==
    ASSUME Known, OneCopy, SignBody, NEW a \in Readers, Retrieval(a) PROVE SignBody'
<1>1. RetrievalEffect(a) /\ Known' /\ [Next]_vars
  BY RetrievalReads, RetrievalKnown DEF Next
<1>2. /\ UNCHANGED <<now, account, kind, pc, job, hand, current>>
      /\ faults \in Nat /\ faults' \in Nat /\ faults <= faults' /\ now \in Nat /\ now <= now'
  BY <1>1, RetrievalLeaves, HandoffAssumption DEF writeVars, execVars, Known, WorldTypes
<1>3. ASSUME NEW r \in Requests, Valid(r)' PROVE Valid(r) /\ handoff'[r] = handoff[r]
  BY <1>1, <1>2, <1>3, StaysValid DEF RetrievalEffect
<1>4. ASSUME NEW w \in Workers PROVE ToStore(w)'
  BY <1>2, <1>3 DEF SignBody, ToStore
<1>5. ASSUME NEW r \in Requests PROVE SignsIn(r)'
  BY <1>1, <1>2, <1>3, StillSignsIn
<1> QED BY <1>4, <1>5 DEF SignBody

\* There is one record at most to be replaced, and it is the one that is found.
LEMMA FindsTheValid ==
    ASSUME Known, SignBody, NEW r \in Requests, Valid(r) PROVE CurrentFor = {r}
<1>1. \A q \in Requests : Valid(q) => q = r
  BY DEF SignBody, SignsIn
<1>2. ~Newer(handoff[r], handoff[r])
  BY HandoffAssumption DEF Newer, Known, RecordTypes, Records
<1> QED BY <1>1, <1>2 DEF CurrentFor

\* Before the first password of an account that nobody deletes there is no record of one.
LEMMA NothingIssued ==
    ASSUME Known, OneCopy, issued = 0, NEW r \in Requests PROVE ~Valid(r)
<1> SUFFICES ASSUME Valid(r) PROVE FALSE
  OBVIOUS
<1>1. handoff[r].text
  BY ValidText
<1> DEFINE p == handoff[r].password
<1>2. p \in Passwords /\ p \in Nat /\ p # 0
  BY <1>1, HandoffAssumption DEF Known, RecordTypes, TextsKnown, Records, Passwords, NoPassword
<1>3. p > issued
  BY <1>2
<1> QED BY <1>1, <1>2, <1>3 DEF OneCopy, SealedIn

\* A password that is let go of is nowhere.
LEMMA LetGo ==
    ASSUME Known, OneCopy, NEW w \in Workers, NEW p, hand[w] = p, p # NoPassword, Leave(w),
           UNCHANGED <<issued, handoff, rpc, claimed, given>>
    PROVE  GoneFor(p)'
<1>1. p \in Passwords /\ w \in HeldBy(p) /\ p \in Nat /\ issued \in Nat
  BY HandoffAssumption DEF Known, LocalTypes, WorldTypes, HeldBy, Passwords, NoPassword
<1>2. /\ SealedIn(p) = {} /\ TakenBy(p) = {} /\ given[p] = 0 /\ ~(p > issued)
      /\ \A v \in HeldBy(p) : v = w
  BY <1>1 DEF OneCopy
<1>3. (HeldBy(p))' = {}
  BY <1>1, <1>2 DEF HeldBy, Leave, Known, LocalTypes
<1>4. (SealedIn(p))' = {} /\ (TakenBy(p))' = {}
  BY <1>2 DEF SealedIn, TakenBy
<1> QED BY <1>1, <1>2, <1>3, <1>4 DEF GoneFor, Passwords

\* The steps of an execution that leave the records alone.
LEMMA ExecutionSignsIn ==
    ASSUME Known, OneCopy, AloneInv, SignBody, NoDelete, NEW w \in Workers, Execution(w), ~Writes(w),
           NEW r \in Requests
    PROVE  SignsIn(r)'
<1>1. /\ Known' /\ [Next]_vars /\ ExecutionEffect(w) /\ handoff' = handoff /\ now' = now
      /\ faults \in Nat /\ faults' \in Nat /\ faults <= faults'
  BY ExecutionKnown, ExecutionLeaves, ExecutionWrites DEF Next, AloneInv, ExecutionEffect, Known, WorldTypes
<1>2. \A q \in Requests : Valid(q)' = Valid(q)
  BY <1>1 DEF Valid, CredentialState
<1>3. ASSUME account' = account, UNCHANGED hand PROVE SignsIn(r)'
  BY <1>1, <1>2, <1>3, StillSignsIn
<1>4. ASSUME Valid(r), Valid(r)' PROVE \A q \in Requests : Valid(q)' => q = r
  BY <1>2, <1>4 DEF SignBody, SignsIn
<1>5. CASE SetPassword(w)
  <2>1. account' = issued + 1 /\ hand'[w] = account'
    BY <1>5 DEF SetPassword, Known, LocalTypes
  <2>2. (HeldBy(account))' # {}
    BY <2>1 DEF HeldBy
  <2> QED BY <1>2, <1>4, <2>2 DEF SignsIn
<1>6. CASE SetPasswordUnanswered(w)
  <2>1. /\ account' = issued + 1 /\ issued' = issued + 1 /\ issued < MaxPasswords /\ faults' > 0
        /\ UNCHANGED <<rpc, claimed, given>> /\ Leave(w)
    BY <1>1, <1>6 DEF SetPasswordUnanswered, Fault, readVars, histVars
  <2> DEFINE p == issued + 1
  <2>2. p \in Passwords /\ p > issued /\ p \in Nat /\ p # NoPassword /\ issued \in Nat
    BY <2>1, HandoffAssumption DEF Known, WorldTypes, Passwords, NoPassword
  <2> HIDE DEF p
  <2>3. HeldBy(p) = {} /\ SealedIn(p) = {} /\ TakenBy(p) = {} /\ given[p] = 0
    BY <2>2 DEF OneCopy
  <2>4. \A v \in Workers : hand'[v] # p
    BY <2>1, <2>2, <2>3 DEF HeldBy, Leave, Known, LocalTypes
  <2>5. p = account' /\ p = issued' /\ p <= issued'
    BY <2>1, <2>2 DEF p
  <2>6. (GoneFor(account))'
    <3>1. \A q \in Requests : ~(handoff[q].text /\ handoff[q].password = p)
      BY <2>3 DEF SealedIn
    <3>2. \A a \in Readers : ~(rpc[a] = "open" /\ claimed[a].password = p)
      BY <2>3 DEF TakenBy
    <3> QED BY <1>1, <2>1, <2>2, <2>3, <2>4, <2>5, <3>1, <3>2 DEF GoneFor, HeldBy, SealedIn, TakenBy, Passwords
  <2> QED BY <1>2, <1>4, <2>1, <2>6 DEF SignsIn
<1>7. ASSUME Leave(w), hand[w] = NoPassword PROVE UNCHANGED hand
  BY <1>7 DEF Leave, Known, LocalTypes
<1>8. CASE StepFails(w) \/ Crash(w)
  <2>1. /\ account' = account /\ UNCHANGED <<issued, rpc, claimed, given>> /\ Leave(w) /\ faults' > 0
    BY <1>1, <1>8 DEF StepFails, Crash, Fault, readVars, histVars
  <2>2. CASE hand[w] = NoPassword
    BY <1>3, <1>7, <2>1, <2>2
  <2>3. CASE hand[w] # NoPassword /\ hand[w] = account
    <3>1. ASSUME NEW p, p = account PROVE (GoneFor(account))'
      <4>1. GoneFor(p)'
        BY <1>1, <2>1, <2>3, <3>1, LetGo
      <4> QED BY <2>1, <3>1, <4>1 DEF GoneFor, HeldBy, SealedIn, TakenBy
    <3> QED BY <1>2, <1>4, <2>1, <3>1 DEF SignsIn
  <2>4. CASE hand[w] # NoPassword /\ hand[w] # account
    <3>1. pc[w] \in {"seal", "stash", "commit"}
      BY <2>4 DEF AloneInv, JobsHold, JobHolds
    <3> QED BY <2>4, <3>1 DEF SignBody, ToStore
  <2> QED BY <2>2, <2>3, <2>4
<1>9. CASE SetPasswordRefused(w) \/ Settle(w)
  <2>1. hand[w] = NoPassword
    BY <1>9 DEF SetPasswordRefused, Settle, AloneInv, JobsHold, JobHolds
  <2> QED BY <1>3, <1>7, <1>9, <2>1 DEF SetPasswordRefused, Settle
<1>10. CASE ReadCurrent(w)
  <2>1. hand[w] = NoPassword
    BY <1>10 DEF ReadCurrent, AloneInv, JobsHold, JobHolds
  <2> QED BY <1>3, <1>7, <1>10, <2>1 DEF ReadCurrent
<1>11. CASE Probe(w) \/ Seal(w) \/ RecordConfirmed(w) \/ \E q \in Requests : Begin(w, q)
  BY <1>3, <1>11 DEF Probe, Seal, RecordConfirmed, Begin
<1>12. ~DeleteUser(w)
  BY DEF DeleteUser, AloneInv, JobsHold, JobHolds, NoDelete
<1> QED BY <1>5, <1>6, <1>8, <1>9, <1>10, <1>11, <1>12 DEF Execution, InsertUser, ResetPassword, Writes

\* What is stored is what the account has, and the only record there is to be handed over.
LEMMA WriteSignsIn ==
    ASSUME Known, AloneInv, SignBody, NEW w \in Workers, Execution(w), Writes(w), NEW r \in Requests
    PROVE  SignsIn(r)'
<1>1. /\ Known' /\ ExecutionEffect(w) /\ job[w] \in Requests /\ account' = account /\ now' = now
      /\ hand[w] = account /\ sealed[w].password = account
  BY ExecutionKnown, ExecutionLeaves, ExecutionWrites
     DEF AloneInv, ExecutionEffect, Writes, Stash, CommitRotation, SignBody, ToStore, Known, LocalTypes, HandsKnown
<1>0. now \in Nat /\ now <= now'
  BY <1>1, HandoffAssumption DEF Known, WorldTypes
<1>2. \A q \in Requests : q # job[w] /\ Valid(q)' => Valid(q) /\ handoff'[q] = handoff[q]
  BY <1>0, <1>1, StaysValid, ExecutionWrites DEF AloneInv
<1>3. ASSUME NEW q \in Requests, q # job[w], Valid(q)' PROVE FALSE
  <2>1. Valid(q) /\ handoff'[q] = handoff[q]
    BY <1>2, <1>3
  <2>2. CASE Stash(w)
    BY <2>1, <2>2 DEF Stash, AloneInv, JobsHold, JobHolds, SignBody, ToStore
  <2>3. CASE CommitRotation(w)
    <3>1. q = current[w]
      BY <2>1, <2>3 DEF CommitRotation, AloneInv, JobsHold, JobHolds, SignBody, ToStore
    <3>2. handoff[q].exists /\ handoff[q].text
      BY <2>1, ValidText
    <3>3. q # NoDoc
      BY HandoffAssumption
    <3> DEFINE set == [handoff EXCEPT ![job[w]] = sealed[w]]
    <3>4. set \in [Requests -> Records]
      BY <1>1 DEF Known, RecordTypes, LocalTypes
    <3>5. handoff' = [set EXCEPT ![q] = Superseded(@)]
      BY <2>3, <3>1, <3>2, <3>3 DEF CommitRotation, Rotated
    <3>6. ~handoff'[q].text
      BY <3>4, <3>5 DEF Superseded, Records
    <3> QED BY <2>1, <3>2, <3>6
  <2> QED BY <2>2, <2>3 DEF Writes
<1>4. ASSUME Valid(r)', r = job[w] PROVE handoff'[r].password = account'
  <2>1. CASE Stash(w)
    BY <1>1, <1>4, <2>1 DEF Stash, Known, RecordTypes
  <2>2. CASE CommitRotation(w)
    <3> DEFINE set == [handoff EXCEPT ![job[w]] = sealed[w]]
    <3>1. set \in [Requests -> Records] /\ set[r].password = account
      BY <1>1, <1>4 DEF Known, RecordTypes, LocalTypes
    <3>2. handoff' = set \/ \E d \in Requests : handoff' = [set EXCEPT ![d] = Superseded(@)]
      BY <2>2 DEF CommitRotation, Rotated, Known, LocalTypes
    <3> HIDE DEF set
    <3>3. ASSUME NEW d \in Requests, handoff' = [set EXCEPT ![d] = Superseded(@)]
          PROVE  handoff'[r].password = account
      BY <3>1, <3>3 DEF Superseded, Records
    <3> QED BY <1>1, <3>1, <3>2, <3>3
  <2> QED BY <2>1, <2>2 DEF Writes
<1> QED BY <1>3, <1>4 DEF SignsIn

LEMMA ExecutionToStore ==
    ASSUME Known, OneCopy, AloneInv, SignBody, NoDelete, ~overlapped', NEW w \in Workers, Execution(w),
           NEW v \in Workers
    PROVE  ToStore(v)'
<1>1. ExecutionEffect(w) /\ kind' = kind
  BY ExecutionLeaves DEF ExecutionEffect
<1>2. CASE v # w
  BY <1>1, <1>2, OthersIdle DEF ToStore, AloneInv
<1>3. CASE v = w
  <2> USE <1>3 DEF Known, LocalTypes, Goto
  <2>0. ~Writes(w) => \A q \in Requests : Valid(q)' = Valid(q)
    BY <1>1, ExecutionWrites DEF AloneInv, ExecutionEffect, Valid, CredentialState
  <2>1. ASSUME NEW r \in Requests, Begin(w, r) PROVE ToStore(w)'
    <3>1. pc'[w] = FirstMove(r) /\ kind[r] \in Kinds
      BY <2>1 DEF Begin, WorldTypes, KindsKnown
    <3>2. FirstMove(r) \in {"probe", "delete", "settle", "current"}
      BY <3>1 DEF FirstMove, Kinds
    <3> QED BY <3>1, <3>2 DEF ToStore
  <2>2. CASE pc'[w] \in {"idle", "insert", "settle", "confirm"}
    BY <2>2 DEF ToStore
  <2>3. CASE InsertUser(w)
    <3>1. /\ pc'[w] = "seal" /\ kind'[job'[w]] = "create" /\ hand'[w] = account' /\ account = Absent
      BY <1>1, <2>3 DEF InsertUser, SetPassword, AloneInv, JobsHold, JobHolds
    <3>2. issued = 0
      BY <3>1 DEF AloneInv, Accounted, Absent
    <3>3. \A r \in Requests : ~Valid(r)'
      BY <2>0, <2>3, <3>2, NothingIssued DEF Writes, InsertUser, Stash, CommitRotation
    <3> QED BY <3>1, <3>3 DEF ToStore
  <2>4. CASE ResetPassword(w)
    <3>1. pc[w] = "reset" /\ pc'[w] = "seal" /\ hand'[w] = account' /\ UNCHANGED <<job, current>> /\ ~Writes(w)
          /\ kind[job[w]] = "regenerate"
      BY <2>4 DEF ResetPassword, SetPassword, AloneInv, JobsHold, JobHolds, Writes, Stash, CommitRotation
    <3> QED BY <1>1, <2>0, <3>1 DEF SignBody, ToStore
  <2>5. CASE Seal(w)
    <3>1. pc[w] = "seal" /\ pc'[w] = (IF kind[job[w]] = "create" THEN "stash" ELSE "commit") /\ ~Writes(w)
          /\ UNCHANGED <<job, current, hand, account>>
      BY <2>5 DEF Seal, Writes, Stash, CommitRotation
    <3> QED BY <1>1, <2>0, <3>1 DEF SignBody, ToStore
  <2>6. CASE ReadCurrent(w) /\ ~Leave(w)
    <3>1. /\ \E d \in IF CurrentFor = {} THEN {NoDoc} ELSE CurrentFor : current' = [current EXCEPT ![w] = d]
          /\ pc'[w] \in {"reset", "confirm"} /\ ~Writes(w)
      BY <2>6 DEF ReadCurrent, Writes, Stash, CommitRotation
    <3>2. ASSUME NEW r \in Requests, Valid(r) PROVE r = current'[w]
      BY <3>1, <3>2, FindsTheValid
    <3>3. \A r \in Requests : Valid(r)' => r = current'[w]
      BY <2>0, <3>1, <3>2
    <3> QED BY <3>1, <3>3 DEF ToStore
  <2>7. CASE Leave(w)
    BY <2>2, <2>7 DEF Leave
  <2>8. Probe(w) \/ Stash(w) \/ CommitRotation(w) \/ RecordConfirmed(w) \/ DeleteUser(w)
        => pc'[w] \in {"idle", "insert", "settle"}
    BY DEF Probe, Stash, CommitRotation, RecordConfirmed, DeleteUser
  <2> QED BY <2>1, <2>2, <2>3, <2>4, <2>5, <2>6, <2>7, <2>8
          DEF Execution, SetPasswordRefused, Settle, SetPasswordUnanswered, StepFails, Crash
<1> QED BY <1>2, <1>3

LEMMA SignInvStep == ASSUME Known, OneCopy, AloneInv, SignInv, [Next]_vars PROVE SignInv'
<1> SUFFICES ASSUME ~overlapped', NoDelete' PROVE SignBody'
  BY DEF SignInv, SignBody
<1>1. NoDelete
  BY KindsStep DEF AloneInv
<1>2. CASE UNCHANGED vars
  BY <1>1, <1>2 DEF vars, execVars, readVars, histVars, SignInv, SignBody, ToStore, SignsIn, Valid, CredentialState,
     HeldBy, SealedIn, TakenBy, GoneFor
<1>3. CASE Environment
  <2>1. ~overlapped
    BY <1>3, EnvironmentLeaves DEF EnvironmentEffect, histVars
  <2> QED BY <1>1, <1>3, <2>1, EnvironmentSigns DEF SignInv, SignBody
<1>4. ASSUME NEW a \in Readers, Retrieval(a) PROVE SignBody'
  <2>1. ~overlapped
    BY <1>4, RetrievalLeaves
  <2> QED BY <1>1, <1>4, <2>1, RetrievalSigns DEF SignInv, SignBody
<1>5. ASSUME NEW w \in Workers, Execution(w) PROVE SignBody'
  <2>1. ~overlapped
    BY <1>5, ExecutionLeaves DEF ExecutionEffect
  <2>2. SignBody
    BY <1>1, <2>1 DEF SignInv, SignBody
  <2> QED BY <1>1, <1>5, <2>2, ExecutionSignsIn, WriteSignsIn, ExecutionToStore DEF SignBody
<1> QED BY <1>2, <1>3, <1>4, <1>5 DEF Next

LEMMA InitSigns == Init => KeyInv /\ SignInv
<1> SUFFICES ASSUME Init PROVE KeyInv /\ SignInv
  OBVIOUS
<1>1. \A r \in Requests : ~handoff[r].exists
  BY DEF Init, NoRecord
<1>2. \A w \in Workers : pc[w] = "idle"
  BY DEF Init
<1>3. (\A a \in Readers : rpc[a] = "idle") /\ lost = {}
  BY DEF Init
<1> QED BY <1>1, <1>2, <1>3
        DEF KeyInv, SignInv, WrittenHolds, Written, ToWrite, KeyHeld, ToStore, SignsIn, Valid

-----------------------------------------------------------------------------

\* What holds until two executions overlap: one works alone, a record is written once, and
\* what can be handed over is the account's password, or the account has one that is newer
\* and in a worker's hand or lost.
THEOREM AloneInductive == Spec => [](AloneInv /\ KeyInv /\ SignInv)
<1>1. Init => AloneInv /\ KeyInv /\ SignInv
  BY InitAlone, InitSigns
<1>2. IInv /\ AloneInv /\ KeyInv /\ SignInv /\ [Next]_vars => (AloneInv /\ KeyInv /\ SignInv)'
  BY KnownParts, AloneInvStep, KeyInvStep, SignInvStep DEF IInv
<1> QED BY <1>1, <1>2, Inductive, PTL DEF Spec

\* The key is in hand before the claim (credentials.ts, retrieveOnce): a retrieval never
\* destroys a ciphertext it then cannot open, unless its record was sealed again behind it.
THEOREM ClaimsOpen == Spec => []NothingClaimedIsLost
<1>1. IInv /\ KeyInv => NothingClaimedIsLost
  BY HandoffAssumption DEF IInv, TypeOK, KeyInv, Quiet, NothingClaimedIsLost, NoDelete
<1> QED BY <1>1, AloneInductive, Inductive, PTL

\* A record that can be handed over holds the password the account has, unless a rotation
\* is under way or a failure lost it (credentials.ts, rotate; store.ts, recordCredential).
THEOREM HandedOverSignsIn == Spec => []ValidSignsIn
<1>1. IInv /\ SignInv => ValidSignsIn
  <2> SUFFICES ASSUME IInv, SignInv, NEW r \in Requests, Valid(r), ~overlapped, NoDelete
               PROVE  \/ handoff[r].password = account
                      \/ HeldBy(account) # {}
                      \/ (Phase[account] = "gone" /\ faults > 0)
    BY DEF ValidSignsIn, NoDelete
  <2>1. ASSUME NEW p, GoneFor(p) PROVE Phase[p] = "gone"
    <3>1. ~(p > issued) /\ ~(given[p] > 0) /\ p \in Passwords
      BY <2>1, HandoffAssumption DEF GoneFor, IInv, TypeOK, Passwords
    <3> QED BY <2>1, <3>1 DEF GoneFor, Phase
  <2> QED BY <2>1 DEF SignInv, SignsIn
<1> QED BY <1>1, AloneInductive, Inductive, PTL

=============================================================================
