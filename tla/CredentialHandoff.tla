------------------------- MODULE CredentialHandoff -------------------------
(***************************************************************************)
(* The one-time password of one Workspace account: how a step generates    *)
(* it, sets it in Workspace, seals and stores it (phases/create.ts,        *)
(* phases/notify.ts, shared/credentials.ts, shared/store.ts), how the      *)
(* requester retrieves it (api/routes/requests.ts), and how the key that   *)
(* seals it is rotated under them (shared/credentials.ts, docs/runbook.md).*)
(*                                                                         *)
(* One worker is one execution of the step of a request that deals with    *)
(* the password; one reader is one retrieval served by an API instance.    *)
(* Workers and readers await between any two of their actions. A password  *)
(* is the number of its generation, a key the number of its version.       *)
(***************************************************************************)
EXTENDS Naturals

CONSTANTS
    Requests, Workers, Readers,
    SlowSteps,     \* may a step be claimed again while it still executes?
    Emergency,     \* may the operator destroy a version before it drained?
    CredentialTtl, \* CREDENTIAL_TTL_HOURS
    LatestTtl,     \* LATEST_TTL_MS
    Drain,         \* how long docs/runbook.md leaves a replaced version enabled
    MaxPasswords, MaxVersions, MaxTime, MaxFaults, MaxResumes \* bounds of the model

NoDoc == "no-document"
Kinds == {"create", "regenerate", "resend", "delete"}

ASSUME HandoffAssumption ==
    /\ SlowSteps \in BOOLEAN /\ Emergency \in BOOLEAN
    /\ CredentialTtl \in Nat /\ LatestTtl \in Nat /\ Drain \in Nat
    /\ MaxPasswords \in Nat /\ MaxVersions \in Nat \ {0} /\ MaxTime \in Nat
    /\ MaxFaults \in Nat /\ MaxResumes \in Nat
    /\ NoDoc \notin Requests

\* docs/runbook.md asks for a drain of the records' time to live. A warm instance goes on
\* sealing under its cached answer, which it drops the hour that answer expires, so the
\* drain has to cover that as well.
DrainAssumption == Drain >= CredentialTtl /\ Drain + 1 >= CredentialTtl + LatestTtl

VARIABLES
    now,         \* the hour
    account,     \* the password Workspace accepts, or Absent
    issued,      \* how many passwords were generated
    kind,        \* what each request does to the password
    status,      \* of each request, as far as this step is concerned
    credential,  \* step.credential of each request
    handoff,     \* credentialHandoffs/{requestId}
    latest,      \* the newest version of the key
    version,     \* the state of each version
    replacedAt,  \* when the next version was added
    cache,       \* what each worker instance resolved `latest` to
    pc, job, hand, sealed, current,    \* of a worker: its execution
    rpc, doc, pre, claimed,       \* of a reader: its retrieval
    known,       \* the concrete versions each reader's instance has read
    given,       \* history: how often each password was handed over
    lost,        \* history: passwords destroyed by a retrieval that could not open them
    overlapped,  \* history: two executions were under way at once
    resumes, faults

keyVars    == <<latest, version, replacedAt>>
execVars   == <<pc, job, hand, sealed, current, cache>>
readVars   == <<rpc, doc, pre, claimed, known>>
histVars   == <<given, lost, overlapped>>
vars == <<now, account, issued, kind, status, credential, handoff, keyVars, execVars,
          readVars, histVars, resumes, faults>>

Passwords == 1..MaxPasswords
Versions == 1..MaxVersions
Absent == 0
NoPassword == 0
NoKey == 0
NoRecord == [password |-> NoPassword, key |-> 1, expires |-> 0, text |-> FALSE,
             retrieved |-> FALSE, superseded |-> FALSE, exists |-> FALSE]
NoPointer == [doc |-> NoDoc, rotated |-> FALSE]

Records == [password : 0..MaxPasswords, key : Versions, expires : Nat, text : BOOLEAN,
            retrieved : BOOLEAN, superseded : BOOLEAN, exists : BOOLEAN]

RequestState == {"new", "submitted", "running", "refused", "failed", "done"}
WorkerLabels == {"idle", "probe", "insert", "current", "reset", "seal", "stash", "commit",
                 "confirm", "delete", "settle"}
ReaderLabels == {"idle", "preread", "claim", "open"}

TypeOK ==
    /\ now \in 0..MaxTime
    /\ issued \in 0..MaxPasswords
    /\ account \in 0..MaxPasswords
    /\ kind \in [Requests -> Kinds \cup {"none"}]
    /\ status \in [Requests -> RequestState]
    /\ credential \in [Requests -> [doc : Requests \cup {NoDoc}, rotated : BOOLEAN]]
    /\ handoff \in [Requests -> Records]
    /\ latest \in Versions
    /\ version \in [Versions -> {"none", "enabled", "disabled", "destroyed"}]
    /\ replacedAt \in [Versions -> Nat]
    /\ cache \in [Workers -> [version : Versions, until : Nat]]
    /\ pc \in [Workers -> WorkerLabels]
    /\ job \in [Workers -> Requests \cup {NoDoc}]
    /\ hand \in [Workers -> 0..MaxPasswords]
    /\ sealed \in [Workers -> Records]
    /\ current \in [Workers -> Requests \cup {NoDoc}]
    /\ rpc \in [Readers -> ReaderLabels]
    /\ doc \in [Readers -> Requests \cup {NoDoc}]
    /\ pre \in [Readers -> {NoKey} \cup Versions]
    /\ claimed \in [Readers -> Records]
    /\ known \in [Readers -> SUBSET Versions]
    /\ given \in [Passwords -> Nat]
    /\ lost \in SUBSET Passwords
    /\ overlapped \in BOOLEAN
    /\ resumes \in 0..MaxResumes
    /\ faults \in 0..MaxFaults

Init ==
    /\ now = 0 /\ account = Absent /\ issued = 0
    /\ kind = [r \in Requests |-> "none"]
    /\ status = [r \in Requests |-> "new"]
    /\ credential = [r \in Requests |-> NoPointer]
    /\ handoff = [r \in Requests |-> NoRecord]
    /\ latest = 1
    /\ version = [v \in Versions |-> IF v = 1 THEN "enabled" ELSE "none"]
    /\ replacedAt = [v \in Versions |-> 0]
    /\ cache = [w \in Workers |-> [version |-> 1, until |-> 0]]
    /\ pc = [w \in Workers |-> "idle"]
    /\ job = [w \in Workers |-> NoDoc]
    /\ hand = [w \in Workers |-> NoPassword]
    /\ sealed = [w \in Workers |-> NoRecord]
    /\ current = [w \in Workers |-> NoDoc]
    /\ rpc = [a \in Readers |-> "idle"]
    /\ doc = [a \in Readers |-> NoDoc]
    /\ pre = [a \in Readers |-> NoKey]
    /\ claimed = [a \in Readers |-> NoRecord]
    /\ known = [a \in Readers |-> {}]
    /\ given = [p \in Passwords |-> 0]
    /\ lost = {} /\ overlapped = FALSE
    /\ resumes = 0 /\ faults = 0

-----------------------------------------------------------------------------
\* The rules of the records (shared/model.ts) and of the key (shared/credentials.ts).

\* credentialState(): why a record can or cannot be handed over.
CredentialState(c) ==
    CASE c.superseded     -> "superseded"
      [] c.retrieved      -> "retrieved"
      [] c.expires <= now -> "expired"
      [] ~c.text          -> "destroyed"
      [] OTHER            -> "valid"

Valid(r) == handoff[r].exists /\ CredentialState(handoff[r]) = "valid"

\* currentFor(): the newest record of the account that can still be handed over. Of
\* two that expire within the hour, the one whose password was generated later.
Newer(c, d) == \/ c.expires > d.expires
               \/ c.expires = d.expires /\ c.password > d.password

CurrentFor ==
    {r \in Requests : Valid(r) /\ \A o \in Requests :
                          Valid(o) => ~Newer(handoff[o], handoff[r])}

LatestForMutant(w) == IF cache[w].until > 0 THEN cache[w].version ELSE latest

\* `latest`, as an instance resolves it: its own answer until that is too old.
LatestFor(w) == IF cache[w].until > now THEN cache[w].version ELSE latest

\* A concrete version, once read, stays in the instance's cache for ever.
Accessible(a, v) == version[v] = "enabled" \/ v \in known[a]

-----------------------------------------------------------------------------
\* The operator, the clock and the key.

Tick ==
    /\ now < MaxTime
    /\ now' = now + 1
    /\ UNCHANGED <<account, issued, kind, status, credential, handoff, keyVars, execVars,
                   readVars, histVars, resumes, faults>>

AddVersion ==
    /\ latest < MaxVersions
    /\ latest' = latest + 1
    /\ version' = [version EXCEPT ![latest + 1] = "enabled"]
    /\ replacedAt' = [replacedAt EXCEPT ![latest] = now]
    /\ UNCHANGED <<now, account, issued, kind, status, credential, handoff, execVars, readVars,
                   histVars, resumes, faults>>

Retire(v, state) ==
    /\ v < latest /\ version[v] = "enabled"
    /\ version' = [version EXCEPT ![v] = state]
    /\ UNCHANGED <<now, account, issued, kind, status, credential, handoff, latest, replacedAt,
                   execVars, readVars, histVars, resumes, faults>>

\* docs/runbook.md: the previous version is disabled once it has drained.
DisableVersion(v) == now >= replacedAt[v] + Drain /\ Retire(v, "disabled")

\* An emergency rotation destroys it without waiting.
DestroyVersion(v) == Emergency /\ Retire(v, "destroyed")

\* Firestore's time to live removes an expired record, whenever it gets to it.
FirestoreTtl(r) ==
    /\ handoff[r].exists /\ handoff[r].expires <= now
    /\ handoff' = [handoff EXCEPT ![r] = NoRecord]
    /\ UNCHANGED <<now, account, issued, kind, status, credential, keyVars, execVars, readVars,
                   histVars, resumes, faults>>

\* A request about this account is admitted when no other one is in flight.
Submit(r, k) ==
    /\ status[r] = "new"
    /\ \A o \in Requests : status[o] \notin {"submitted", "running"}
    /\ kind' = [kind EXCEPT ![r] = k]
    /\ status' = [status EXCEPT ![r] = "submitted"]
    /\ UNCHANGED <<now, account, issued, credential, handoff, keyVars, execVars, readVars,
                   histVars, resumes, faults>>

\* The first step of the plan: a create refuses an account that exists, a letter
\* one that does not, and an offboarding cannot suspend it.
Validate(r) ==
    /\ status[r] = "submitted"
    /\ status' = [status EXCEPT ![r] =
                      IF (kind[r] = "create") = (account = Absent) THEN "running" ELSE "refused"]
    /\ UNCHANGED <<now, account, issued, kind, credential, handoff, keyVars, execVars, readVars,
                   histVars, resumes, faults>>

\* resumeRequest() takes the failed step up again, and looks for no other request.
Resume(r) ==
    /\ status[r] \in {"refused", "failed"} /\ resumes < MaxResumes
    /\ status' = [status EXCEPT ![r] = IF @ = "refused" THEN "submitted" ELSE "running"]
    /\ resumes' = resumes + 1
    /\ UNCHANGED <<now, account, issued, kind, credential, handoff, keyVars, execVars, readVars,
                   histVars, faults>>

-----------------------------------------------------------------------------
\* A worker: one execution of the step that deals with the password.

Executing(r) == \E w \in Workers : pc[w] # "idle" /\ job[w] = r

\* Where the handler goes once it has read its own step (credential[r]).
FirstMove(r) ==
    CASE kind[r] = "create"     -> "probe"
      [] kind[r] = "delete"     -> "delete"
      [] kind[r] = "regenerate" -> IF credential[r].rotated THEN "settle" ELSE "current"
      [] kind[r] = "resend"     -> IF credential[r].doc # NoDoc THEN "settle" ELSE "current"

\* The step is claimed: the first time, or after a crash, or past its lease.
Begin(w, r) ==
    /\ pc[w] = "idle" /\ status[r] = "running"
    /\ SlowSteps \/ ~Executing(r)
    /\ pc' = [pc EXCEPT ![w] = FirstMove(r)]
    /\ job' = [job EXCEPT ![w] = r]
    /\ overlapped' = (overlapped \/ \E o \in Requests : Executing(o))
    /\ UNCHANGED <<now, account, issued, kind, status, credential, handoff, keyVars, hand, sealed,
                   current, cache, readVars, given, lost, resumes, faults>>

Goto(w, label) == pc' = [pc EXCEPT ![w] = label]

\* The execution is over: the handler's locals are gone.
Leave(w) ==
    /\ Goto(w, "idle")
    /\ job' = [job EXCEPT ![w] = NoDoc]
    /\ hand' = [hand EXCEPT ![w] = NoPassword]
    /\ sealed' = [sealed EXCEPT ![w] = NoRecord]
    /\ current' = [current EXCEPT ![w] = NoDoc]

SettleAsMutant(r, outcome) == status' = [status EXCEPT ![r] = "succeeded"]

\* The executor settles the step; another execution may have done so before.
SettleAs(r, outcome) ==
    status' = [status EXCEPT ![r] = IF @ = "running" THEN outcome ELSE @]

\* create-user: an account that is there already is somebody's earlier attempt.
Probe(w) ==
    /\ pc[w] = "probe"
    /\ Goto(w, IF account = Absent THEN "insert" ELSE "settle")
    /\ UNCHANGED <<now, account, issued, kind, status, credential, handoff, keyVars, job, hand,
                   sealed, current, cache, readVars, histVars, resumes, faults>>

\* A fresh password is generated and Workspace accepts it: insertUser, resetPassword.
SetPassword(w) ==
    /\ issued < MaxPasswords
    /\ issued' = issued + 1
    /\ account' = issued + 1
    /\ hand' = [hand EXCEPT ![w] = issued + 1]
    /\ Goto(w, "seal")
    /\ UNCHANGED <<now, kind, status, credential, handoff, keyVars, job, sealed, current, cache,
                   readVars, histVars, resumes, faults>>

InsertUser(w) == pc[w] = "insert" /\ account = Absent /\ SetPassword(w)
ResetPassword(w) == pc[w] = "reset" /\ account # Absent /\ SetPassword(w)

\* Workspace answers with an error, and nothing landed: the account is in the
\* way of an insert, or missing from under a reset.
SetPasswordRefused(w) ==
    /\ \/ pc[w] = "insert" /\ account # Absent
       \/ pc[w] = "reset" /\ account = Absent
    /\ SettleAs(job[w], "failed")
    /\ Leave(w)
    /\ UNCHANGED <<now, account, issued, kind, credential, handoff, keyVars, cache, readVars,
                   histVars, resumes, faults>>

Fault == faults < MaxFaults /\ faults' = faults + 1

\* The call lands and its answer is lost: the client's retry of an insert meets a
\* conflict, that of a reset spends its attempts. The password is dropped.
SetPasswordUnanswered(w) ==
    /\ \/ pc[w] = "insert" /\ account = Absent
       \/ pc[w] = "reset" /\ account # Absent
    /\ issued < MaxPasswords
    /\ issued' = issued + 1
    /\ account' = issued + 1
    /\ SettleAs(job[w], "failed")
    /\ Leave(w)
    /\ Fault
    /\ UNCHANGED <<now, kind, credential, handoff, keyVars, cache, readVars, histVars, resumes>>

\* seal(): under `latest`, and expiring a time to live from now.
Seal(w) ==
    /\ pc[w] = "seal"
    /\ sealed' = [sealed EXCEPT ![w] =
           [NoRecord EXCEPT !.password = hand[w], !.key = LatestFor(w), !.text = TRUE,
                            !.expires = now + CredentialTtl, !.exists = TRUE]]
    /\ cache' = [cache EXCEPT ![w] =
           IF @.until > now THEN @ ELSE [version |-> latest, until |-> now + LatestTtl]]
    /\ Goto(w, IF kind[job[w]] = "create" THEN "stash" ELSE "commit")
    /\ UNCHANGED <<now, account, issued, kind, status, credential, handoff, keyVars, job, hand,
                   current, readVars, histVars, resumes, faults>>

\* stash(): a plain write, whatever was there.
Stash(w) ==
    /\ pc[w] = "stash"
    /\ handoff' = [handoff EXCEPT ![job[w]] = sealed[w]]
    /\ hand' = [hand EXCEPT ![w] = NoPassword]
    /\ sealed' = [sealed EXCEPT ![w] = NoRecord]
    /\ Goto(w, "settle")
    /\ UNCHANGED <<now, account, issued, kind, status, credential, keyVars, job, current, cache,
                   readVars, histVars, resumes, faults>>

\* regenerate-credential and confirm-credential read what there is to replace or to
\* reuse. A resend with nothing to reuse is refused.
ReadCurrent(w) ==
    /\ pc[w] = "current"
    /\ \/ /\ kind[job[w]] = "regenerate" \/ CurrentFor # {}
          /\ \E d \in IF CurrentFor = {} THEN {NoDoc} ELSE CurrentFor :
                 current' = [current EXCEPT ![w] = d]
          /\ Goto(w, IF kind[job[w]] = "regenerate" THEN "reset" ELSE "confirm")
          /\ UNCHANGED <<status, job, hand, sealed>>
       \/ /\ kind[job[w]] = "resend" /\ CurrentFor = {}
          /\ SettleAs(job[w], "failed")
          /\ Leave(w)
    /\ UNCHANGED <<now, account, issued, kind, credential, handoff, keyVars, cache, readVars,
                   histVars, resumes, faults>>

Superseded(c) == [c EXCEPT !.text = FALSE, !.superseded = TRUE]

RotatedMutant(w) == [handoff EXCEPT ![job[w]] = sealed[w]]

\* The documents after a rotation: the new one is set, the old one emptied, in this
\* order, so that a record that replaces itself ends up empty.
Rotated(w) ==
    LET set == [handoff EXCEPT ![job[w]] = sealed[w]]
        d == current[w]
    IN  IF d # NoDoc /\ handoff[d].exists THEN [set EXCEPT ![d] = Superseded(@)] ELSE set

\* recordCredential() of a rotation: one transaction.
CommitRotation(w) ==
    /\ pc[w] = "commit"
    /\ handoff' = Rotated(w)
    /\ credential' = [credential EXCEPT ![job[w]] = [doc |-> job[w], rotated |-> TRUE]]
    /\ hand' = [hand EXCEPT ![w] = NoPassword]
    /\ sealed' = [sealed EXCEPT ![w] = NoRecord]
    /\ Goto(w, "settle")
    /\ UNCHANGED <<now, account, issued, kind, status, keyVars, job, current, cache, readVars,
                   histVars, resumes, faults>>

\* recordCredential() of a resend: it points at the record it found.
RecordConfirmed(w) ==
    /\ pc[w] = "confirm"
    /\ credential' = [credential EXCEPT ![job[w]] = [doc |-> current[w], rotated |-> FALSE]]
    /\ Goto(w, "settle")
    /\ UNCHANGED <<now, account, issued, kind, status, handoff, keyVars, job, hand, sealed, current,
                   cache, readVars, histVars, resumes, faults>>

\* delete-user takes the account and leaves the records alone.
DeleteUser(w) ==
    /\ pc[w] = "delete"
    /\ account' = Absent
    /\ Goto(w, "settle")
    /\ UNCHANGED <<now, issued, kind, status, credential, handoff, keyVars, job, hand, sealed,
                   current, cache, readVars, histVars, resumes, faults>>

Settle(w) ==
    /\ pc[w] = "settle"
    /\ SettleAs(job[w], "done")
    /\ Leave(w)
    /\ UNCHANGED <<now, account, issued, kind, credential, handoff, keyVars, cache, readVars,
                   histVars, resumes, faults>>

\* Any call of the handler throws: the step fails, or is left to be tried again.
StepFails(w) ==
    /\ pc[w] \notin {"idle", "settle"}
    /\ \E outcome \in {"running", "failed"} : SettleAs(job[w], outcome)
    /\ Leave(w)
    /\ Fault
    /\ UNCHANGED <<now, account, issued, kind, credential, handoff, keyVars, cache, readVars,
                   histVars, resumes>>

\* The worker's instance dies: its locals and its key cache with it.
Crash(w) ==
    /\ pc[w] # "idle"
    /\ Leave(w)
    /\ cache' = [cache EXCEPT ![w] = [version |-> 1, until |-> 0]]
    /\ Fault
    /\ UNCHANGED <<now, account, issued, kind, status, credential, handoff, keyVars, readVars,
                   histVars, resumes>>

-----------------------------------------------------------------------------
\* A reader: GET /requests/:requestId/credential by the requester.

Answered(a) ==
    /\ rpc' = [rpc EXCEPT ![a] = "idle"]
    /\ doc' = [doc EXCEPT ![a] = NoDoc]
    /\ pre' = [pre EXCEPT ![a] = NoKey]
    /\ claimed' = [claimed EXCEPT ![a] = NoRecord]

writeVars == <<now, account, issued, kind, status, credential, keyVars, execVars, resumes>>

\* resolveCredentialRequestId(): the record a step points at, or the request's own.
ResolvePointer(a, r) ==
    /\ rpc[a] = "idle" /\ status[r] # "new"
    /\ rpc' = [rpc EXCEPT ![a] = "preread"]
    /\ doc' = [doc EXCEPT ![a] = IF credential[r].doc = NoDoc THEN r ELSE credential[r].doc]
    /\ UNCHANGED <<writeVars, handoff, pre, claimed, known, histVars, faults>>

PreReadMutant(a) ==
    /\ rpc[a] = "preread"
    /\ rpc' = [rpc EXCEPT ![a] = "claim"]
    /\ UNCHANGED <<writeVars, handoff, doc, pre, claimed, known, histVars, faults>>

\* retrieveOnce() reads the record and its key before it claims anything.
PreRead(a) ==
    /\ rpc[a] = "preread"
    /\ LET c == handoff[doc[a]]
           readable == c.exists /\ Accessible(a, c.key)
       IN  \/ /\ readable
              /\ pre' = [pre EXCEPT ![a] = c.key]
              /\ known' = [known EXCEPT ![a] = @ \cup {c.key}]
              /\ rpc' = [rpc EXCEPT ![a] = "claim"]
              /\ UNCHANGED <<doc, claimed>>
           \/ ~readable /\ Answered(a) /\ UNCHANGED known
    /\ UNCHANGED <<writeVars, handoff, histVars, faults>>

ClaimMutant(a) ==
    /\ rpc[a] = "claim"
    /\ LET d == doc[a] IN
        \/ /\ Valid(d)
           /\ claimed' = [claimed EXCEPT ![a] = handoff[d]]
           /\ rpc' = [rpc EXCEPT ![a] = "open"]
           /\ UNCHANGED <<doc, pre>>
        \/ ~Valid(d) /\ Answered(a)
    /\ UNCHANGED <<writeVars, handoff, known, histVars, faults>>

\* The claim transaction: a valid record is taken and emptied, an expired one emptied.
Claim(a) ==
    /\ rpc[a] = "claim"
    /\ LET d == doc[a]
           state == IF handoff[d].exists THEN CredentialState(handoff[d]) ELSE "missing"
       IN  \/ /\ state = "valid"
              /\ handoff' = [handoff EXCEPT ![d].text = FALSE, ![d].retrieved = TRUE]
              /\ claimed' = [claimed EXCEPT ![a] = handoff[d]]
              /\ rpc' = [rpc EXCEPT ![a] = "open"]
              /\ UNCHANGED <<doc, pre>>
           \/ /\ state # "valid"
              /\ handoff' = IF state = "expired" THEN [handoff EXCEPT ![d].text = FALSE]
                                                 ELSE handoff
              /\ Answered(a)
    /\ UNCHANGED <<writeVars, known, histVars, faults>>

\* The key is resolved again if the record was rewritten since the pre-read.
Open(a) ==
    /\ rpc[a] = "open"
    /\ LET c == claimed[a]
           opens == c.key = pre[a] \/ Accessible(a, c.key)
       IN  /\ given' = IF opens THEN [given EXCEPT ![c.password] = @ + 1] ELSE given
           /\ lost' = IF opens THEN lost ELSE lost \cup {c.password}
           /\ known' = IF opens THEN [known EXCEPT ![a] = @ \cup {c.key}] ELSE known
    /\ Answered(a)
    /\ UNCHANGED <<writeVars, handoff, overlapped, faults>>

\* The API instance dies under a retrieval: its answer and its key cache are lost.
ReaderCrash(a) ==
    /\ rpc[a] # "idle"
    /\ Answered(a)
    /\ known' = [known EXCEPT ![a] = {}]
    /\ Fault
    /\ UNCHANGED <<writeVars, handoff, histVars>>

-----------------------------------------------------------------------------

Environment ==
    \/ Tick \/ AddVersion
    \/ \E v \in Versions : DisableVersion(v) \/ DestroyVersion(v)
    \/ \E r \in Requests : FirestoreTtl(r) \/ Validate(r) \/ Resume(r)
    \/ \E r \in Requests, k \in Kinds : Submit(r, k)

Execution(w) ==
    \/ \E r \in Requests : Begin(w, r)
    \/ Probe(w) \/ InsertUser(w) \/ ResetPassword(w) \/ SetPasswordRefused(w)
    \/ Seal(w) \/ Stash(w) \/ ReadCurrent(w) \/ CommitRotation(w) \/ RecordConfirmed(w)
    \/ DeleteUser(w) \/ Settle(w)
    \/ SetPasswordUnanswered(w) \/ StepFails(w) \/ Crash(w)

Retrieval(a) ==
    \/ \E r \in Requests : ResolvePointer(a, r)
    \/ PreRead(a) \/ Claim(a) \/ Open(a) \/ ReaderCrash(a)

Next ==
    \/ Environment
    \/ \E w \in Workers : Execution(w)
    \/ \E a \in Readers : Retrieval(a)

Spec == Init /\ [][Next]_vars

-----------------------------------------------------------------------------
\* Where a password can be.

HeldBy(p)   == {w \in Workers : hand[w] = p}
SealedIn(p) == {r \in Requests : handoff[r].text /\ handoff[r].password = p}
TakenBy(p)  == {a \in Readers : rpc[a] = "open" /\ claimed[a].password = p}

Phase == [p \in Passwords |->
    CASE p > issued         -> "unborn"
      [] HeldBy(p) # {}     -> "in-hand"
      [] SealedIn(p) # {}   -> "sealed"
      [] TakenBy(p) # {}    -> "taken"
      [] given[p] > 0       -> "given"
      [] OTHER              -> "gone"]

OneTime == INSTANCE OneTimePassword WITH phase <- Phase, handed <- given

\* The handoff implements the one-time password: through crashes, redeliveries,
\* rotations and concurrent retrievals no password comes back from where it went,
\* and none is handed to an operator twice (docs/runbook.md, retrieveOnce()).
HandsOverOnce == OneTime!Spec

\* A password is in one place at a time: the hand of one execution, one record that
\* can still be decrypted, one retrieval, or the operator's hand. Two copies are
\* what a retrieval outside the claim transaction, or a rotation that forgets the
\* record it replaces, would leave behind (shared/credentials.ts, retrieveOnce).
OneCopy ==
    \A p \in Passwords :
        /\ \A v, w \in HeldBy(p) : v = w
        /\ \A q, r \in SealedIn(p) : q = r
        /\ \A a, b \in TakenBy(p) : a = b
        /\ HeldBy(p) # {} => SealedIn(p) = {} /\ TakenBy(p) = {} /\ given[p] = 0
        /\ SealedIn(p) # {} => TakenBy(p) = {} /\ given[p] = 0
        /\ TakenBy(p) # {} => given[p] = 0
        /\ given[p] <= 1
        /\ p > issued => HeldBy(p) = {} /\ SealedIn(p) = {} /\ TakenBy(p) = {} /\ given[p] = 0

\* A key version that was disabled after its drain window seals nothing that could
\* still be handed over, whatever a warm instance went on sealing under its cached
\* `latest` (SecretManagerKeyProvider.access, docs/runbook.md).
ValidIsReadable == \A r \in Requests : Valid(r) => version[handoff[r].key] # "disabled"

\* A retrieval never destroys a ciphertext it then cannot open, not even while an
\* emergency rotation destroys the key: the key is in hand before the claim
\* (retrieveOnce, "Resolve the key BEFORE the claim transaction"). What defeats it is
\* a record sealed again, under another version, between the first read and the claim:
\* two executions of one step do that, or the re-run of a create that crashed once its
\* record was stored, after another request deleted the account it had made.
NothingClaimedIsLost ==
    lost # {} => overlapped \/ (faults > 0 /\ \E r \in Requests : kind[r] = "delete")

\* Unless a failure left the account with a password nobody holds, or a rotation is
\* between Workspace and its commit, a record that can be handed over holds the
\* password the account has; so there is one at most (recordCredential: "two live
\* credentials for one account, only one of which actually signs in"). Executions
\* that overlapped are excepted, and a deletion leaves the records behind.
ValidSignsIn ==
    \A r \in Requests :
        Valid(r) /\ ~overlapped /\ (\A o \in Requests : kind[o] # "delete") =>
            \/ handoff[r].password = account
            \/ HeldBy(account) # {}
            \/ Phase[account] = "gone" /\ faults > 0

=============================================================================
