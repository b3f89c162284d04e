# Lifecycle console: TLA+ models, checks and proofs

The repository is a console for the life cycle of Google Workspace accounts. An
operator submits a request (create, notify, update or delete an account); the
request becomes a fixed plan of steps; each step is dispatched as a Cloud Tasks
task, executed by a worker against the Workspace directory, and followed by the
next. Some steps halt for a second person. This directory holds the TLA+ models of
that engine and of the parts around it (one-time passwords, notices, roles, the
frozen update diff, the audit mirror), the configurations TLC checks them with, and
the theorems TLAPS proves about them. Paths below are relative to the repository's
root (`src/` here); `shared/` is `packages/shared/src/`, `api/` is
`services/api/src/`, `worker/` is `services/worker/src/`.

    tlc -config cancel_race.cfg MCLifecycle      # faults, two_requests, liveness alike
    tlc -config handoff.cfg MCCredentialHandoff  # key_rotation alike
    tlc -config authorization.cfg MCAuthorization         # v_decision_role alike
    tlc -config admission.cfg MCAdmission        # audit_mirror, notification, update: MCAuditMirror, ...
    tlapm LifecycleProofs.tla                    # and every other *Proofs.tla

## 1. Inventory

### Components, their state and operations

| Component | State | Operations | Where it lives |
|---|---|---|---|
| Status model | none | two vocabularies, two transition tables, two asserts | `shared/model.ts`, `transitions.ts` |
| Step plans | none | plan of a phase, idempotency key | `shared/stepPlans.ts` |
| Approval policy | the live document | resolve, default, normalise | `shared/policy.ts` |
| Request factory | none | `buildNewRequest` | `shared/requestFactory.ts` |
| Lifecycle store | request, step, audit, policy and binding documents in Firestore | one transaction per operation: create, start, decide, cancel, compensate, resume, expire, claim, transition step / request, record results | `shared/store.ts` |
| Request routes | none between requests | submit, approve, reject, cancel, list, retrieve a credential | `api/routes/requests.ts` |
| Admin routes | none | edit policy, cancel, resume, list audit | `api/routes/admin.ts` |
| Dispatcher and queue | the tasks held, the names remembered, attempts | enqueue by name; deliver, retry, give up | `shared/dispatcher.ts`, `infra/tasks.tf` |
| Executor | locals of one delivery | claim, run the handler, settle, advance, fail | `worker/steps/executor.ts`, `handler.ts` |
| Advance | locals | finish the request, release or halt the next step, follow a halt | `worker/steps/advance.ts` |
| Step handlers | the Workspace account | read the account, act on it, report a result or a class of error | `worker/phases/*.ts` |
| Directory client | none | calls with their own retries | `worker/workspace/directoryClient.ts` |
| Approver notification | the notification record of a step | read, send, record | `worker/notify/*.ts` |
| Credential handoff | sealed credential, its key and its record | stash, rotate, retrieve once | `shared/credentials.ts` |
| Audit mirror | a watermark | sweep committed events into the log | `shared/auditMirror.ts` |
| Roles | bindings, cached group memberships | resolve roles, edit bindings | `api/roles.ts`, `authz.ts`, `routes/roleBindings.ts`, `lookup/` |
| Authentication, protected accounts, schemas, lookup, console, bootstrap, Terraform | caches and configuration | stateless checks, reads, rendering | `api/`, `worker/`, `services/console`, `infra/` |

### How they interact

An API route runs one Firestore transaction, answers, and enqueues what the
commit requires: a task to execute a step, to notify the approvers, to expire the
halt. The queue delivers a task to a worker route; `execute-step` claims the step
in a transaction, calls the handler, settles the step in a transaction, then
`advance` reads the request, reads its steps, and runs one or two transactions and
up to two enqueues. Firestore and Cloud Tasks share no transaction. Nothing but a
task makes the worker look at a request: the store is not swept.

### What is hard

* Every gap between two transactions of one handler: an approval, a rejection, an
  expiry, two kinds of cancellation, a resume and two deliveries of one task may
  all fit into it.
* Crashes between the commit and the enqueue, and between the side effect in
  Workspace and the commit; redelivery after both.
* Two unrelated retry counters (the body's `attempt`, the queue's attempts), a
  lease that outlasts the queue, a task name that is remembered.
* Decisions taken on stale reads: the cancel route's steps, `advance`'s request
  and steps, the policy loaded before the transaction.
* Legal calls in an unusual order: cancel, failed compensation, resume.
* Things that age or change under a process that holds a copy: a cached membership, a
  cached key version, a kept relay connection, an account read before it is patched, a
  watermark over events that commit out of order.

The full list, one entry per line of code where it bites, is `hazards` in
`PROJECT.json`.

### What makes each component correct

* Store: no document leaves its tables; a request and its halted step agree; one
  request in flight per account.
* Approval: a deletion, and whatever the snapshot marks, runs only after somebody
  other than the requester approved it; a rejection is final.
* Executor and advance: one execution of a step at a time, in plan order; a
  request reported succeeded is complete; a terminal request dispatches nothing.
* Queue and store together: a request that says `running` has somebody to run it; a
  `ready` step has a task; a halt's notification is not stranded.
* Cancellation: the account is given back when the offboarding suspended it.
* Credential handoff: a password is in one place at a time and is given once; what can
  be retrieved signs in, and can be decrypted until it expires.
* Notification: the message goes out once, arrives while anybody can be asked, and its
  silence is explained.
* Roles: a withdrawn role stops working in bounded time, and an outage refuses nobody
  their own role.
* Update: what an approver was not shown is not changed, or a later diff and an edit
  explain it; what was not asked for survives; success means the account is as requested.
* Audit mirror: nothing the watermark passed is missing, and an alarm means tampering.

## 2. The modules

| Module | What it is |
|---|---|
| `LifecycleModel` | the status vocabularies and the transition tables |
| `StepPlans` | the plan of each phase, step ids and keys, the policy and its floor |
| `Lifecycle` | the engine: store, routes, worker, queue and Workspace account |
| `LifecycleProperties` | what the engine promises, and its fairness |
| `Admission` | a submission becoming documents, under an edited policy |
| `OneTimePassword` | the abstract promise: a password moves forward only, and is given once |
| `CredentialHandoff` | the detailed handoff: handlers, records, retrievals, the sealing key |
| `Notification` | one message, from the queued task to the record of it |
| `Authorization` | `requireRole`, the membership cache, the bindings and the decision |
| `UpdatePhase` | the frozen diff, the approval, the patch, the verification |
| `AuditMirror` | the sweep of committed events and the auditor |
| `MCLifecycle`, `MCAdmission`, `MCCredentialHandoff`, `MCNotification`, `MCAuthorization`, `MCUpdatePhase`, `MCAuditMirror` | the instances for TLC |
| `LifecycleProofs` | theorems about `Lifecycle`: types, approval, the order of a plan, how a request ends |
| `DispatchProofs` | theorems that build on those: compensation, tasks, halts, what drives a request |
| `AdmissionProofs`, `UpdatePhaseProofs`, `AuditMirrorProofs`, `NotificationProofs`, `AuthorizationProofs` | theorems about those modules |
| `CredentialProofs` | theorems about `CredentialHandoff`, the refinement among them |

`Lifecycle` extends `StepPlans` and `LifecycleModel`, and composes store, queue, workers
and account. The other components meet it at one step: `CredentialHandoff`,
`Notification` and `UpdatePhase` take from `Lifecycle` what surrounds a step (it is
claimed, may be executed twice, fails, is resumed) as actions of their own, and
model inside it what `Lifecycle` abstracts to a result. `Authorization` decides who may
call the routes whose effects `Lifecycle` has; `AuditMirror` sees every transaction as
an event that is stamped and committed.

**`...Mutant` definitions** are the definition below them with a plausible bug. No action
uses them; they are there to show that a property can fail.

### `Lifecycle`: state and actions against the code

**Store.** `request`, `step`, `approval`, `notice` and `snapshot` are fields of the
request and step documents; a step is addressed by its ordinal. `policy` is
`approvalPolicy/current`, as the slice of the one phase a run uses. Audit events
and timestamps are written in the same transactions and tell no property apart;
they are left out. `Absent` is a document that does not exist.

**One transaction is one action.** `CreateRequest`, `StartFirstStep`, `DecideStep`,
`CancelRequest` (called by `RequesterCancel` and `AdminCancel`),
`AppendCompensatingStep`, `ResumeRequest`, `ExpireApproval`, `ClaimStep`,
`SettleStep`/`SettleFailure` (`transitionStep`), `FinishRequest`, `FollowHalt` and
`FailRequest` (`transitionRequest`) are the transactions of `store.ts`, with their guards,
their no-op returns and their asserts. An assert that throws is an action of its
own where the caller does something about it (`StartRefused`, `ExpiryRefused`,
`FinishThrows`).

**API handlers.** What a route still has to do after a commit waits in `calls` (its
next transaction) and `owed` (an enqueue), where anything may overtake it, and
where a failure may lose it (`LoseCall`, `LoseOwed`). `ReadForCancel` is the part
of the cancel route that reads the steps and picks the transaction.

**Queue.** `queue` holds tasks, `names` the names it remembers. `Enqueue` of a
remembered name is taken for success, as `dispatcher.ts` takes ALREADY_EXISTS; a
name that is no longer held may also be accepted again, so both outcomes are
explored. `FailDelivery` counts attempts and drops the task at the queue's limit.
A task delivered beside a live delivery of itself is a fault (`duplicate`).

**Worker.** One worker is one delivery of `execute-step`. `pc` is where it stands:
`exec` and `mutate` (the handler's read and act), `settle`, `advance` and `plan`
(the two reads of `advance.ts`), `finish`, `release`/`enqueue`, `halt`/`follow`/
`notify`/`expiry`, `failing`/`failRequest` (`settleFailure`), `ack`/`nack`. Its
locals are the task, what it read of the account, the result and the next step.

**Workspace.** `account` is the target's state; `suspendedBy` is a history variable,
the request whose handler suspended it. Each handler reads and then acts, so the
account may change in between. Attributes, groups, credentials and Drive
transfers are abstracted to the result the handler reports; `HandlerError` is any
error of the class the client maps it to, and the change the handler was about to make
may have landed before it (`Lands`).

**Failures** are bounded by `MaxFaults` and named in `FaultKinds`: `crash` (the
instance dies, or the store throws outside the try block), `throw` (a store or
queue call throws inside it), `lose` (the API process dies before its next call),
`duplicate`. `LeaseMayExpire` says when a step that is `running` may be claimed again.

Abstractions worth knowing: reading, sending and recording a notification are one
action here, and several in `Notification`; attributes, groups and passwords are in
`UpdatePhase` and `CredentialHandoff`, which look at one step of a plan at a time; the
wall clock is not modelled, so an expiry may fire at any time after it is
enqueued and a lease may expire whenever `LeaseMayExpire` allows.

### `CredentialHandoff`

**State.** `handoff` is `credentialHandoffs/{requestId}`, `credential` the pointer on the
step, `version`/`latest`/`replacedAt` the key in Secret Manager, `cache` what a
worker's instance resolved `latest` to and for how long, `known` the concrete versions
an API instance has read. A password is the number of its generation, an hour
the unit of time. `kind` and `status` are as much of a request as this step sees.

**A worker** is one execution of `create-user` (`Probe`, `InsertUser`, `Seal`, `Stash`),
`regenerate-credential` (`ReadCurrent`, `ResetPassword`, `Seal`, `CommitRotation`),
`confirm-credential` (`ReadCurrent`, `RecordConfirmed`) or `delete-user`; each label is
an await, and any may be the last (`StepFails`, `Crash`). `SetPasswordUnanswered` is
the call that lands and whose answer is lost. `CommitRotation` is one transaction that
sets the new record and empties the old one, in this order, so that a record that
replaces itself ends up empty, as in `recordCredential`.

**A reader** is `GET /requests/:requestId/credential`: `ResolvePointer`, `PreRead` (which
gets the key before anything is claimed), `Claim` (the transaction that empties the
record), `Open`. `AddVersion`, `DisableVersion` and `DestroyVersion` are the operator
following `docs/runbook.md`, or an emergency; `FirestoreTtl` removes an expired record.

**Refinement.** `Phase` maps the detailed state to `OneTimePassword`: a password is
unborn, in a hand, sealed, taken, given or gone. `HandsOverOnce` is
`OneTime!Spec` under that mapping, checked by `handoff` and proved in
`CredentialProofs`.

### `Notification`

One message: the notice of a halted step, or the welcome letter. A delivery of
the task reads (`Read`), and then suppresses (`Suppress`), lists the approvers (`List`), finds nobody
(`NobodyToAsk`) or sends; the sender connects with the latest secret and keeps the
connection (`Connect`), is accepted, has its credentials refused once and reconnects
(`AuthRefused`), or fails (`SendFails`, after which the relay may have the message);
then the outcome is recorded (`RecordSent`, `RecordFailed`), and `RecordSentFails` is the
record that fails inside the same `try` as the send. `EditHolders`, `StepMovesOn` and
the rotation of the app password go on around it. Every fault is counted.

### `Authorization`

One call is `requireRole` and what it awaits, in order: the operator's own binding
(`Begin`), the groups from the cache (`CacheHit`) or from a lookup that concurrent calls
share (`CacheMiss`, `LookupReads`, `LookupAnswers`, `LookupFails`), the bindings of the groups
(`Resolve`), and then the handler (`SetRoleBinding`, `RemoveRoleBinding`, `Decide`). Time is
counted down, so the model has no last instant. `could` and `must` are history: whether the
needed role was granted at some instant the call may have seen, and by which binding
throughout.

### `UpdatePhase`

The account is a set of fields, some of which live in one object that a patch
replaces as a whole (`Whole`), and a set of groups. `GetUser` reads the account and `ComputeDiff`
records the diff; `DiffLands` is the commit alone, which a failing or a straggling execution may
also make. The approval is two calls: `Look` is the page that shows the recorded diff
(`GET /requests/:requestId`), as often as the approver likes; `Approve` and `Reject` are the
decision, which carries no diff and no version and may come long after the page was loaded, or
without one. `shown` and `seen` are what the last page held; `superseded` that the diff was
recorded again since; `edited` the fields that somebody else has edited. `ApplyAttributes` reads the account again and patches what
is marked and still differs; `ChangeGroup` is one membership; `VerifyPasses` reads everything
back. `Edit...` is somebody in the admin console, `Fails` an execution that dies with or
without its call having landed or its diff having been recorded, and two executions may overlap up to a bound.

### `AuditMirror`

An event is stamped inside its transaction (`Stamp`) and visible later (`Commit`). A
sweep is four awaits: read the watermark, query a batch, write the log, save
the watermark; two may overlap and each may die. The auditor reads Firestore, then the
log. `late` holds the events that committed behind an instant a sweep had read.

## 3. What the runs check

| Run | Instance | Question and answer |
|---|---|---|
| `cancel_race` | 1 request (suspend, revoke, delete), 2 workers, an expiring gate, handlers may fail, requester and admin cancel, one duplicate delivery | Do store, queue, workers and account agree under every interleaving of people, expiry and deliveries, and does an ended request dispatch nothing? All thirteen properties hold. |
| `faults` | suspend, delete; 1 worker; one fault of any of four kinds; one resume; a cancellation; retryable errors | What survives a failure: approval, but for a compensated request. |
| `two_requests` | a create and a delete of one account, 2 workers, one resume each, the policy edited between | The snapshot decides what is gated; the admission guard serialises the requests and what their workers do; a resume is the only way around it. |
| `liveness` | suspend, delete, an expiring gate, a cancellation, terminal errors | A started request settles or waits for a person; a halt is notified; an expiring halt ends. |
| `admission` | 2 requests, every phase, 16 payloads with repeated groups, 3 policy documents | The deletion stays gated, keys are distinct. |
| `handoff` | 2 requests on one account, 2 workers that may overlap, 2 retrievals, 3 passwords, a fault, a resume, no time | The handoff implements `OneTimePassword`; what can be handed over signs in, or a failure or a rotation under way explains why not. |
| `key_rotation` | 2 requests, 1 worker, 1 retrieval, 3 key versions, 3 hours, an emergency, a fault, a resume | One copy of a password; nothing valid is sealed under a drained version; a retrieval destroys what it cannot open only if its record was sealed again by a re-run after a crash and a deletion (section 5). |
| `audit_mirror` | 3 events, 2 sweeps, batches of 2, 2 instants | Nothing is skipped but a late commit; a quiet sweep is caught up unless one instant fills a batch; an alarm is a deletion. |
| `authorization` | 2 operators (one outside Workspace, a bootstrap admin), a group, 2 calls, entries that live 1, lookups that take up to 1 | A role that was never held opens nothing, past the cache's window; a role held throughout is never refused, through outages and shared lookups. |
| `notification` | 2 deliveries, 2 subjects, 4 attempts, 2 faults, 3 app passwords | One message, one more per fault at most; silence is recorded; the notice arrives. |
| `update` | 3 fields of one object (one that no request can name), a group, 2 executions, 2 edits, 1 overlap | What an approver who looked was not shown is changed only if the diff was recorded again behind them and somebody else edited that field; nothing unasked is lost; success means it is so. |
| `v_decision_role` | that of `authorization` | Ends in a violation: section 5. |

`cancel_race` states what no failure may be needed to break: `RunningIsDriven`,
`ReadyStepHasTask`, `HaltIsDecidable` and `HaltIsDrained` are the two-store invariants,
and each is one that a crash or a throwing call does break (section 5). Its one fault is
a duplicate delivery, which none of them may notice; it is what
`ExclusiveExecution` and `PlanOrder` are about. `TerminalDispatchesNothing` is there too: a
call that throws inside the executor breaks it once there are two workers and three steps
(section 5), so it is stated where no call throws and not in `faults`, whose single worker
would only hide that. `faults` checks what must hold in spite of crashes.

**Bounds.** One request is enough for every property of the engine but those about one
account shared by two, which `two_requests` checks; requests interact only through the
account and the admission guard. Two workers, sweeps, calls, deliveries or executions give
every pair; a third would repeat a pair. A plan needs a step before the gate, the gated step and
the compensating one; three steps add one that is neither first nor last. One
fault breaks whatever can be broken by one. One
resume reaches every state a resume creates but for those of a second one, whose only
trace is its nonce. `QueueAttempts` 2 shows a retry and the last attempt; in
`notification` the attempts outnumber the faults and the rotations that may each cost one
(`AttemptsOutlastFaults`), for otherwise the queue legitimately gives up. Three passwords
let two requests rotate over a third one; three events let a batch of two end inside or
between instants. `handoff` and `key_rotation` split one module: the first has concurrency
and no clock, the second the clock and no concurrency of workers, because what
the key does depends on when, and what two workers do to each other does not. `key_rotation` needs
three versions: the one a record is sealed under, the one its re-run seals it under and the
one in use when that is destroyed. Identical
processes are a symmetry set in the configurations that name `Symmetry`, none of which checks
liveness and none of whose properties names a process. Deadlock is not checked: a
system in which every request has ended and no operator acts has stopped legitimately.

**Fairness.** `LifecycleProperties!FairSpec`: weak fairness of an API handler's next
transaction and enqueue, of the queue's delivery of each task, and of a worker's next
move: a process that runs continues, and Cloud Tasks delivers a task that stays
deliverable. `Notification!FairSpec`: weak fairness of each delivery's own moves and of the
queue's delivery while attempts are left, for the same reason. Nothing is assumed
of people (no decision, cancellation, edit or resume is fair) nor of failures. `liveness` allows
no infrastructure failure and no retryable errors, since with either one the code does
not settle (section 5): what it shows is that the protocol itself neither deadlocks nor starves.
`NoticeArrives` allows faults, and rests on their being fewer than the attempts.

## 4. What is proved

Every theorem holds for every value of the constants the named assumptions allow: any
number of requests, workers, people, retrievals, sweeps, deliveries, executions,
failures, resumes, steps, events, versions.

| Module | Theorem | States |
|---|---|---|
| `LifecycleProofs` | `TypeCorrect` | `TypeOK` |
| | `ApprovalHolds` | `TwoPartyUnlessCompensated` |
| | `NothingUnapproved` | `TwoPartyApproval`, where no requester may cancel |
| | `DeletionApproved` | `DeletionIsApproved`, where no requester may cancel or nobody resumes |
| | `ClaimIsExclusive`, `PlanIsOrdered`, `RejectionStands` | `ExclusiveExecution`, `PlanOrder`, `RejectionIsFinal`, where a lease outlives every step |
| | `SuccessIsComplete` | `SucceededIsComplete`, where moreover no requester may cancel |
| | `AdmissionIsExclusive`, `EndedDispatchesNothing` | `OneInFlightUnlessResumed`, `TerminalDispatchesNothing`, where moreover no store call throws inside the executor |
| `DispatchProofs` | `CompensationUndoes` | `CompensationRestores`, where a lease outlives every step |
| | `WritersAreSerialized` | two requests act on one account at once only after a resume or a cancellation of one, where moreover no store call throws |
| | `OneWriter` | `OneWriterUnlessResumed`, where moreover nobody cancels |
| | `TasksFollowDispatch` | every task of a step was made by a dispatch of it, where a lease outlives every step |
| | `ReadyIsTasked` | `ReadyStepHasTask`, where moreover tasks are at most duplicated and no handler raises a retryable error |
| | `HaltsAreDecidable` | `HaltIsDecidable`, where a lease outlives every step, no instance dies and no store call throws |
| | `HaltsAreDrained` | `HaltIsDrained`, where a lease outlives every step, tasks are at most duplicated and somebody may decide |
| | `AwaitingHasHalt` | `AwaitingMatchesHalt`, where a lease outlives every step and no store call throws |
| | `RunningHasDriver` | `RunningIsDriven`, under the hypotheses of `ReadyIsTasked`, where nobody resumes or no requester may cancel |
| `AdmissionProofs` | `DeletionGated`, `KeysDistinct` | `DeletionStaysGated`, `KeysAreDistinct` |
| `CredentialProofs` | `TypeCorrect`, `KeptOnce` | `TypeOK`, `OneCopy` |
| | `ImplementsOneTimePassword` | `HandsOverOnce`, the refinement |
| | `DrainSuffices` | `ValidIsReadable`, if the drain covers a record's and a cached answer's time to live |
| | `ClaimsOpen`, `HandedOverSignsIn` | `NothingClaimedIsLost`, `ValidSignsIn` |
| `UpdatePhaseProofs` | `ShownIsDone`, `NothingIsLost`, `VerifiedIsSo` | `OnlyShownAttributes`, `BystandersSurvive`, `VerifiedIsAsRequested` |
| `AuditMirrorProofs` | `MirrorSkipsNothing`, `MirrorCatchesUp`, `AlarmsAreExplained` | `NothingSkipped`, `NothingFreshMeansCaughtUp`, `AlarmIsExplained` |
| `NotificationProofs` | `OncePerFault` | `MailedOncePerFault` |
| | `SilenceExplained` | `SilenceIsRecorded`, when the attempts outnumber the faults |
| `AuthorizationProofs` | `AllowedHeldIt`, `HeldNotRefused` | `AllowedWasHeld`, `HeldIsNeverRefused` |

So every invariant and action property that a passing run checks is the statement of a
theorem. The modules also prove their type invariants and name the inductive
invariants behind the theorems (`Inductive`, `GateInductive`, `OrderInductive`,
`FailureInductive`, `TasksFollowDispatch`, `ReadyInductive`, `HaltInductive`,
`LeadInductive`, `AloneInductive`, `AuthInductive`).

**The provisos.** A theorem of the engine that needs one asks no more than the run that checks
its property has: `cancel_race` (a duplicate delivery, terminal errors, both
cancellations, no resume) for what no failure may be needed to break, `two_requests`
(nobody cancels) for `OneWriter`. Most are sharp: with two workers and one proviso lifted,
TLC finds a behaviour of the code that breaks the property.

| Property | Is false once there is |
|---|---|
| `RunningIsDriven` | a crash; a lost enqueue; a retryable error; a resume of a compensated request |
| `ReadyStepHasTask` | a crash or a call that throws between release and enqueue; a lost enqueue; a retryable error |
| `HaltIsDecidable` | a crash or a call that throws between the halt's transactions |
| `HaltIsDrained` | a crash or a call that throws before the notification is enqueued |
| `AwaitingMatchesHalt`, `CompensationRestores` | a lease that ends before its step, and a duplicate delivery |
| `OneWriterUnlessResumed` | a cancellation, by either route; a call that throws; a lease that ends before its step |

The others are what the argument needs, and TLC found no violation on those instances without them: a
throwing call for `RunningIsDriven` and `AwaitingMatchesHalt`, a lease that ends early for the first four. A lost enqueue
strands a notification only where the first step of a plan is gated, which the plans of
the runs do not have. That a lease outlives every step is what the 600 seconds are for.

**`ApprovalHolds`.** The property alone is not inductive: a resume
makes a *failed* step `ready`, and a worker makes a step it chose earlier `ready`.
`IInv` therefore adds (a) `GateHolds`, which counts a failed step as dispatched unless its
request was rejected or cancelled, two statuses no transition leaves; (b) of a worker
at `release`, that the snapshot does not gate the step it is about to release
(`LocalsOf`), which stays true because a snapshot changes only with its request's creation;
(c) that documents exist where the code assumes so (`DocumentExists`,
`CallsExist`), so that the transition tables are applied only inside their domain. `NeededIsGated`
is the lemma that ties the promise to the code: whatever `docs/approval-policy.md` says
needs approval, `resolveStepPolicy` gates. Each action then has a lemma
(`...Preserves`) saying what it does to one step document, and `DocumentsStep`
collects them.

**`NothingUnapproved`, `DeletionApproved`.** They say exactly what the exception in
`ApprovalHolds` costs. `GateInv` strengthens `IInv`: the gate of a dispatched step is open by an
approval of somebody else, or by a compensating step *and* a resume together; the
step in a worker's hands has its gate open; where nobody can cancel there is no compensating
step. Both provisos are then read off, and the deletion follows because a worker that is
about to delete holds a step whose gate is open, whatever the store says of it by then.

**Order and exclusion.** `OrderInv` says what a worker may rely on: its step is
`running` until it is settled and finished after that (`Holds`), no other worker
answers for that step while it is `running` (`Excludes`), and a step is dispatched only when what comes before
it is finished (`Sequenced`). None of the three is inductive without the others: exclusion is what keeps a
step `running` under its worker, a worker that keeps its step dispatches in
order, and the order is why at most one step of a request is unfinished. `OrderStep`, `RequestStep` and
`ProgressStep` say once what an action may do to a step, a request and a worker; the invariant
follows from those three. The assumption `SlowSteps = FALSE` (the 600 seconds of a
lease outlive every step) is needed: past its lease a step has two workers. A rejection failed a
step of the plan, so by the order nothing after it is `ready`, and `RejectionStands`.

**How a request ends.** `FailInv` adds that a worker about to fail its request has just failed
a step of it, or has found the plan finished, and that it is alone. So a failed request has
nothing left to approve, and only a resume puts it in flight again: `AdmissionIsExclusive`. With
a cancelled request's steps all stopped, a step that pends in a request that has
ended comes after a failed one, and no worker is about to dispatch it:
`EndedDispatchesNothing`. A call that throws inside the executor fails the request after the step has
been settled, and breaks both (section 5).

**`CompensationUndoes`.** `suspendedBy` names the request whose step suspended an account.
`RestoreInv` says that nothing is compensated but a suspension that is over
(`SuspensionDone`), and that a compensating step whose handler finds nothing to undo,
or has undone it, leaves none of its request's behind (`Restores`). No later step of the request
can suspend again, since its plan suspends once: `SuspendsOnce`, which `PlanSuspendsOnce` proves of
the plans `stepPlans.ts` generates.

**`WritersAreSerialized`, `OneWriter`.** A worker acts for a request that is in flight, or was cancelled
under it. By `AdmissionIsExclusive` two requests on one account are in flight only after a
resume; what is left is the step that a cancellation lets run on.

**Tasks.** Cloud Tasks remembers names, so a step that needs a task again needs a name it
has not used. `TaskInv` says that no name of a step exists before the step is dispatched,
and none with a nonce beyond the resumes there were. So a dispatch always meets a free name:
`ReadyInv` follows a ready step from the transaction that released it (the task is
owed, or a worker is about to enqueue it) to the queue and to the delivery
that claims it; a delivery that finds the step not claimable finds it no longer ready.

**Halts.** A halt is two transactions, `HaltStep` and `FollowHalt`, and a notification.
`HaltInv` says that a halted step is in a request that awaits approval, or that one worker is about
to make it so, and that a cancelled request has no halted step, so that nothing is left between the two for a
cancellation to strand. `NoticeInv` follows the notification of a halted step like
`ReadyInv` the task of a ready one.

**`AwaitingHasHalt`, `RunningHasDriver`.** Both need to know that nobody has moved the plan behind a
worker's back. `LeadInv` says so: until the request is cancelled, the worker that settled a step is alone with it
(`OneDriver`), the next step is the one it dispatches, and the steps beyond are as the plan
left them (`Leads`). A follow-up of a halt therefore finds the step still halted, and
a worker that reads the plan finds its next step still pending. `DriveInv` then
hands a running request from a step that is ready or running to the worker that settled it
(`Carries`) and back; once there is a compensating step, only that one counts.

**`KeptOnce`, `ImplementsOneTimePassword`.** `OneCopy` needs only that a worker about
to store a record has the password of that record in its hand (`HandsKnown`), and that a
text is that of a real password. For the refinement every action is classified by where
it may put a password: `Traced` says that each place a password is in after the step it was in
before, or came from the place before it; `Given` is the one step that hands it over. `TracedStep` turns
either into a move of `OneTimePassword`, with `OneCopy` before and after to exclude that two
places hold it.

**`DrainSuffices`.** `DrainInv` bounds when a text expires: a time to live from now while its
version is the newest, and `replacedAt + Drain` from then on; for a text sealed under a cached
answer that is old by less than its own time to live, the second bound holds at once. The
assumption is sharp: `docs/runbook.md` asks for 72 hours, the record's time to live, and
the few minutes a cached answer lives on top of it are the gap section 5 mentions.

**`ClaimsOpen`, `HandedOverSignsIn`.** Both are about executions that do not overlap, which crashes, lost
answers and resumes do not change. `AloneInv` says what that gives: one worker is
busy, and it executes the request's own step. `ClaimsOpen` rests on a record being written once
(`KeyInv`): a re-run finds the rotation recorded, or the account there, so a
retrieval's claim meets the version it has resolved before; only a create run again after a
deletion writes twice. `HandedOverSignsIn` rests on `SignInv`: a worker about to store a password
holds the account's, and has read the pointer to every record that can still be handed over,
so that it supersedes it with the same write. A password that a crash
took is `GoneFor` good, which `OneCopy`'s account of places keeps true.

**Update.** `NothingIsLost` follows from what an execution read and what has changed
`since`; `VerifiedIsSo` from the read-back. `ShownIsDone` has to bridge a page that may be stale.
`PageInv` says that the recorded diff, and the diff an execution of the patch holds, are what the
page showed unless they were `superseded`. That leaves the stragglers, and `UneditedInv` bounds
them: an attribute that a diff left out held what was submitted (`AsRequested`), for every execution that
is reading as well, and only an edit by somebody else can change that, since a patch writes back
what was read or what was submitted. So a later diff adds only fields that were `edited`. Without
the last clause the property would excuse whatever a straggler does; without the exception it is false, and TLC finds the
behaviour: two executions of `compute-update-diff`, an edit between them, a look before the second one commits.

**Audit mirror.** Every watermark, in the document or in a sweep's hand, "tells
the truth": what lies below it and was not late is in the log, and so is what it names at its
own instant. It survives a blind overwrite by an older sweep, since an older watermark is true
too. `MirrorCatchesUp` counts the batch: full and at one instant, or all there is.

**Notification.** `MailInv` is an account: deliveries that may still submit the message, plus the
messages accepted, never exceed the faults by more than one; a redelivery after the record only looks. `Attempted`
charges every attempt that left no record to a fault, but the one under way.

**Authorization.** `could` and `must` of a call bracket what it may find: whether its role was granted at some
instant since it came in, and the subjects that granted it throughout. `AuthInv` keeps what the handler has read
so far between the two, which needs that a cached membership, a lookup under way and an answer
shared with another call are each no older than their time to live (`Fresh`,
`LookupHolds`). A failed lookup refuses nobody, for it ends the call with a 500, and
`must` claims nothing of a membership that had not settled.

**Only model-checked.** All liveness, since fairness and ENABLED are beyond the prover:
`RunningSettles`, `HaltIsNotified`, `ExpiringHaltEnds`, `NoticeArrives`.

## 5. Disagreements

One run ends in a violation; `PROJECT.json` (`findings`) has the lines.

| Run | Property | What the counterexample shows |
|---|---|---|
| `v_decision_role` | `DecisionsMatchInbox` | The snapshot asks an admin to approve; the inbox resolves that role and hides the step from an approver (`api/routes/requests.ts:499`), and the decision route, which only asks for `approver` (`:227`), lets that approver through (also `docs/approval-policy.md:44`, `worker/notify/approvers.ts:56`). |

Observed while modelling, without a run of their own. The engine:

* `worker/steps/executor.ts:93`: a crash between the settlement and `advance` leaves the
  request `running` for ever; the redelivery finds the step settled and answers 409 until the
  task is dropped (`docs/architecture.md:211`).
* `shared/dispatcher.ts:188`: every body says `attempt: 1`, so the executor's budget is never
  exhausted; a step that meets only retryable errors is left `ready` with no task
  (`executor.emulator.test.ts:261`).
* `api/routes/admin.ts:139`: the admin route cancels without compensating, and the account stays
  suspended by a cancelled request (`docs/runbook.md:106`).
* `worker/steps/advance.ts:91`: a compensation replayed after a crash is `skipped`, and the
  cancelled offboarding is reported `succeeded`.
* `shared/store.ts:815`: cancel an offboarding at its gate, let `unsuspend-user` fail, resume: the first
  failed step is the gated deletion, which runs unapproved. This is the exception of
  `TwoPartyUnlessCompensated` and the proviso of `NothingUnapproved`.
  Once the deletion is done, `advance` meets the compensating step, still `failed`, and moves
  nothing: the request stays `running` for ever, and only a failed one can be resumed
  (the proviso of `RunningHasDriver`).
* `shared/store.ts:799` `resumeRequest` looks for no conflicting request, against
  `docs/architecture.md:306` (the reason for `...UnlessResumed`).
* `worker/routes/tasks.ts:173`: the 409 answers for a dead worker's step count as attempts; eight of
  them back off for 555 seconds, the lease is 600 (`docs/runbook.md:52`).
* `worker/steps/advance.ts:25` says a redelivery that finds the halt applied still enqueues; it
  never gets there, because the step before the halt is settled and not claimable.
* `worker/steps/executor.ts:96`: `advance` is inside the try block, so a throwing enqueue
  fails the request with no failed step, which a resume refuses
  (`docs/architecture.md:318`). After a halt the step is left awaiting on a failed
  request, and an approval then revives it without a resume, beside whatever request
  was admitted meanwhile: the proviso of `AdmissionIsExclusive`.
* `worker/steps/advance.ts:73` "a terminal request dispatches nothing further": the status is read
  before the steps are, and the transition that follows looks at the step only. When an
  execution whose enqueue threw after the halt fails the request between the two, the execution of the approved
  step halts or releases the next one: the proviso of `EndedDispatchesNothing`. It takes two workers and three steps,
  and a call that throws, which `cancel_race` does not have.
* `api/routes/requests.ts:665` relies on a reconciliation sweep that does not exist.
* `shared/store.ts:628`, `:653`: a `ready` step of a cancelled request still runs; a deletion approved
  just before the cancellation still deletes (against `worker/phases/delete.ts:260`).
* `worker/phases/delete.ts:44`: a suspension replayed after a crash is `skipped`, and the cancel
  route (`api/routes/requests.ts:315`) then does not compensate it.
* `shared/store.ts:1190`: an execution that outlives its lease still advances after its
  own settlement was refused (against `worker/steps/advance.ts:48`).
* `worker/phases/create.ts:66`: re-running a create is refused (`docs/runbook.md:77`).
* `shared/policy.ts:31` gates `apply-attributes`, which no update plan contains
  (`policy.ts:20`).
* `worker/notify/approvers.ts:156`: the deadline in the mail is computed from `startedAt`, which a
  halted step does not have yet.

The one-time password:

* A retrieval between `resetPassword` and `recordCredential` hands over a password the
  account no longer has (the second alternative of `ValidSignsIn`); two overlapping
  executions of `regenerate-credential` can end with a record that supersedes itself.
* `shared/credentials.ts:338`: the key is resolved before the claim so that a claim never destroys
  what cannot be opened. A record may be sealed again in between: a create crashes
  after storing its record, another request deletes the account, the resumed create seals
  the record under the next version. Destroyed in an emergency before the claim, that
  version takes the password with it (the exception of `NothingClaimedIsLost`).
* An insert that landed and was not answered is retried into a 409: the account
  exists with a password nobody stored.
* `worker/phases/notify.ts:107`: after several requests a resend may point at a record that is not
  the newest one of the account.
* `docs/runbook.md:209`: a drain of the record's time to live is short by the life of a cached
  `latest`; see `DrainAssumption`. The runbook also says that the worker decrypts; it is the API.

Notices:

* `worker/notify/approvers.ts:155`: the success is recorded inside the `try` of the send, so a failed
  record makes an accepted mail "failed", and it is sent again; an overlapping delivery can overwrite "sent".
* `worker/routes/tasks.ts:109` "a later attempt should then succeed" holds until the attempts run out.

Roles:

* `api/lookup/groupMemberships.ts` calls its window the time to live; it is that plus
  the latency of the lookup.
* A role that moves from a group to the operator's own binding in the middle of a call may be
  refused, and a fresh grant to a group reaches somebody who has just left it.
* Two admins may remove each other; bootstrap admins, who have no binding, are not
  notified as approvers.

Update:

* An organization after the first is dropped by a patch of the first, and what somebody else
  writes to an object between the read and the patch is lost (`since` in `BystandersSurvive`).
* `recordComputedDiff` is "written once" by convention only, and the decision carries neither the
  diff nor a version of it (`api/routes/requests.ts:227`, `shared/store.ts:446`; the mail to the approver holds
  no diff either). A straggling `compute-update-diff` records another diff after the approver loaded
  the page, before the decision or after it, and what somebody edited in between is then changed without having been shown:
  the exception of `OnlyShownAttributes`, against `shared/stepPlans.ts:129`. A decision
  without any look, or from a page loaded before there was a diff, is possible too; the property says nothing of it.
* A group that drifted after the approval is changed though the diff showed it as
  unchanged (`shared/stepPlans.ts:129`); attributes are not.

Audit mirror:

* An instant with as many events as a batch holds stops the sweep for ever (`Crowded`); a
  transaction that commits behind the watermark is never mirrored (`late`).
* `reconcileAudit` reads Firestore before the log, so an event that committed and
  was swept in between looks like tampering; nothing but tests calls it. Timestamps have the
  precision of milliseconds, not of microseconds.

## 6. Not modelled

`PROJECT.json` (`components`) lists every part with its status. Left out: token
verification and protected accounts (stateless checks), field validation and
templates (formatting), the lookups behind forms and listings (reads), the console (a
client), bootstrap and Terraform but for the numbers used. Of the create phase, the groups
and attributes it assigns are an outcome; of the directory client, the pace of its
retries; of an offboarding, the Drive transfer.

The components around the engine are composed with it by abstraction, not in one state
space: that `Lifecycle` really gives a step the surroundings the other modules
assume (claimed, overlapping at most when a lease expired, failed, resumed) is read from
the code and not checked.

## 7. What is left

1. `RequestContract`: an abstract request (submitted, running, waiting, ended; approved or
   not) that `Lifecycle` implements by a refinement mapping, with TLC first and
   the step simulation proved after, the way `OneTimePassword` is.
2. Theorems: `RunningIsDriven` where resumes and cancellations meet, once a run has shown
   what remains true there; the invariants of `DispatchProofs` past a lease that ends too soon.
3. Runs for the disagreements of section 5 that still have none, a crash after the settlement and
   the admin's cancellation first.
4. The groups and attributes of the create phase, step by step, as in `UpdatePhase`.
