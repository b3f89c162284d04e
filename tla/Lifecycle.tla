------------------------------ MODULE Lifecycle ------------------------------
(***************************************************************************)
(* The engine of the console: the lifecycle store, the API routes and the  *)
(* worker that change it, the Cloud Tasks queue between them, and the      *)
(* Workspace account the steps act on.                                     *)
(*                                                                         *)
(* Every Firestore transaction is one action.  Between two transactions of *)
(* one handler another handler may run, the process may die, or the next   *)
(* call may throw: a worker therefore has a program counter, and what an   *)
(* API handler still has to do after its transaction sits in calls (the    *)
(* transactions) and owed (the tasks it has not enqueued yet).             *)
(*                                                                         *)
(* A definition named ...Mutant is the one below it with a plausible bug;  *)
(* nothing uses it but the runs that show a property can fail.             *)
(***************************************************************************)
EXTENDS LifecycleModel, StepPlans, FiniteSets

CONSTANTS
    Requests,        \* request ids
    Users,           \* Workspace accounts
    Humans,          \* console operators
    Workers,         \* concurrent executions of /tasks/execute-step
    Plan,            \* [Requests -> sequences of step names], from StepPlanFor
    Target,          \* [Requests -> Users], the request's targetUser
    Requester,       \* [Requests -> Humans], requestedBy
    Approvers,       \* the humans whose bindings give them 'approver'
    Admins,          \* the humans whose bindings give them 'admin'
    Policies,        \* the phase slices an admin may store
    InitialAccounts, \* the states an account may start in
    MaxOrdinal,      \* longest plan, plus the compensating step
    MaxAttempts,     \* DEFAULT_MAX_ATTEMPTS of the executor
    QueueAttempts,   \* max_attempts of the queue
    MaxResumes,      \* bound: resumes of one request
    MaxFaults,       \* bound: how often the environment fails
    FaultKinds,      \* the ways it may: crash, throw, lose, duplicate
    HandlerFaults,   \* the errors a step handler may raise: retryable, terminal
    SlowSteps,       \* a lease may expire under a live worker
    Cancellers,      \* bound: the requests a requester may cancel
    AdminCancellers  \* bound: the requests an admin may cancel

Ordinals == 1..MaxOrdinal
AccountState == {"active", "suspended", "absent"}

ASSUME ConstantsAssumption ==
    /\ MaxOrdinal \in Nat /\ MaxAttempts \in Nat /\ QueueAttempts \in Nat \ {0}
    /\ MaxResumes \in Nat /\ MaxFaults \in Nat
    /\ SlowSteps \in BOOLEAN
    /\ FaultKinds \subseteq {"crash", "throw", "lose", "duplicate"}
    /\ HandlerFaults \subseteq {"retryable", "terminal"}
    /\ InitialAccounts \subseteq AccountState
    /\ Target \in [Requests -> Users]
    /\ Requester \in [Requests -> Humans]
    /\ Approvers \subseteq Humans /\ Admins \subseteq Humans

ASSUME PlanAssumption ==
    \A r \in Requests :
        /\ Len(Plan[r]) \in 1..(MaxOrdinal - 1)
        /\ \A i \in 1..Len(Plan[r]) : Plan[r][i] # CompensatingStep

ASSUME PolicyAssumption ==
    \A p \in Policies : \A name \in DOMAIN p : p[name] \in StepPolicy

VARIABLES
    request,      \* status of the request document
    step,         \* status of each step document
    approval,     \* the ApprovalRecord of a step
    notice,       \* the approver-notification record of a step
    snapshot,     \* policySnapshot of a request
    policy,       \* the live approvalPolicy document
    account,      \* Workspace: the state of each account
    suspendedBy,  \* history: the request whose handler suspended the account
    calls,        \* transactions an API handler has yet to run
    owed,         \* tasks an API handler has yet to enqueue
    queue,        \* tasks the queue holds
    names,        \* task names the queue remembers
    tries,        \* failed deliveries of a task so far
    pc, job, seen, out, nxt,   \* a worker: where it is, and its locals
    resumes, faults            \* bounds

storeVars == <<request, step, approval, notice, snapshot, policy>>
envVars   == <<account, suspendedBy>>
apiVars   == <<calls, owed>>
queueVars == <<queue, names, tries>>
workVars  == <<pc, job, seen, out, nxt>>
vars == <<storeVars, envVars, apiVars, queueVars, workVars, resumes, faults>>

-----------------------------------------------------------------------------
(* Documents and tasks *)

NoOne == "no-one"
NoRequest == "no-request"
NoTask == [kind |-> "none"]

\* No document is named what stands for none.
ASSUME RequestAssumption == NoRequest \notin Requests

\* A step nobody has decided: its approval field is null.
Undecided == [by |-> NoOne, decision |-> "none"]

\* The compensating step, if it is ever appended, follows the plan's last step.
CompOrdinal(r) == Len(Plan[r]) + 1
NameOf(r, i) == IF i \in 1..Len(Plan[r]) THEN Plan[r][i] ELSE CompensatingStep

\* The live policy instead of the snapshot.
PolicyOfMutant(r, i) == ResolveStepPolicy(policy, NameOf(r, i))

PolicyOf(r, i) == ResolveStepPolicy(snapshot[r], NameOf(r, i))

\* A step of the plan the snapshot gates.  A compensating step never is.
Gated(r, i) == i \in 1..Len(Plan[r]) /\ PolicyOf(r, i).requiresApproval

Terminal(r) == request[r] \in TerminalRequestStatus

Task == [kind : {"execute", "notify", "expire"}, req : Requests,
         ord : Ordinals, nonce : 0..MaxResumes]

\* A task name that leaves the step out.
ExecuteTaskMutant(r, i, nonce) == [kind |-> "execute", req |-> r, ord |-> 1, nonce |-> nonce]

ExecuteTask(r, i, nonce) == [kind |-> "execute", req |-> r, ord |-> i, nonce |-> nonce]
NotifyTask(r, i) == [kind |-> "notify", req |-> r, ord |-> i, nonce |-> 0]
ExpiryTask(r, i) == [kind |-> "expire", req |-> r, ord |-> i, nonce |-> 0]

\* What enqueueStep puts in every body it sends.
Attempt == 1

\* createTask.  ALREADY_EXISTS, for a live task or a remembered name, is taken
\* for deduplication; a name the queue has forgotten is accepted again.
Enqueue(t) ==
    \/ /\ t \in names
       /\ UNCHANGED queueVars
    \/ /\ t \notin queue
       /\ queue' = queue \cup {t}
       /\ names' = names \cup {t}
       /\ UNCHANGED tries

\* A 2xx answer: the task is done.
Acknowledge(t) ==
    /\ queue' = queue \ {t}
    /\ tries' = [tries EXCEPT ![t] = 0]
    /\ UNCHANGED names

\* Any other answer, or none: the task stays until its attempts are spent.  A
\* duplicate's failure finds no task that its twin has finished.
FailDelivery(t) ==
    \/ /\ t \in queue /\ tries[t] + 1 < QueueAttempts
       /\ tries' = [tries EXCEPT ![t] = @ + 1]
       /\ UNCHANGED <<queue, names>>
    \/ /\ t \notin queue \/ tries[t] + 1 >= QueueAttempts
       /\ Acknowledge(t)

Fault(kind) ==
    /\ kind \in FaultKinds
    /\ faults < MaxFaults
    /\ faults' = faults + 1

-----------------------------------------------------------------------------
(* API service: the request routes and the admin routes *)

Init ==
    /\ request = [r \in Requests |-> Absent]
    /\ step = [r \in Requests |-> [i \in Ordinals |-> Absent]]
    /\ approval = [r \in Requests |-> [i \in Ordinals |-> Undecided]]
    /\ notice = [r \in Requests |-> [i \in Ordinals |-> "none"]]
    /\ policy \in Policies
    /\ snapshot = [r \in Requests |-> policy]
    /\ account \in [Users -> InitialAccounts]
    /\ suspendedBy = [u \in Users |-> NoRequest]
    /\ calls = {} /\ owed = {}
    /\ queue = {} /\ names = {} /\ tries = [t \in Task |-> 0]
    /\ pc = [w \in Workers |-> "idle"]
    /\ job = [w \in Workers |-> NoTask]
    /\ seen = [w \in Workers |-> "absent"]
    /\ out = [w \in Workers |-> "none"]
    /\ nxt = [w \in Workers |-> 0]
    /\ resumes = [r \in Requests |-> 0]
    /\ faults = 0

\* PUT /admin/approval-policy.  Requests keep the snapshot they took.
SetApprovalPolicy(p) ==
    /\ policy' = p
    /\ UNCHANGED <<request, step, approval, notice, snapshot,
                   envVars, apiVars, queueVars, workVars, resumes, faults>>

\* A conflict query that looks for running requests only.
ConflictingMutant(r) ==
    {q \in Requests : Target[q] = Target[r] /\ request[q] = "running"}

\* createRequest: the conflict query and the writes are one transaction.  The
\* policy was loaded before it, so an admin may have stored another since.
\* Starting the first step is the route's next transaction.
Conflicting(r) ==
    {q \in Requests : Target[q] = Target[r] /\ request[q] \in NonTerminalRequestStatus}

CreateRequest(r, loaded) ==
    /\ request[r] = Absent
    /\ Conflicting(r) = {}
    /\ request' = [request EXCEPT ![r] = "draft"]
    /\ step' = [step EXCEPT ![r] =
                  [i \in Ordinals |-> IF i \in 1..Len(Plan[r]) THEN "pending" ELSE Absent]]
    /\ snapshot' = [snapshot EXCEPT ![r] = loaded]
    /\ calls' = calls \cup {[op |-> "start", req |-> r]}
    /\ UNCHANGED <<approval, notice, policy, envVars, owed, queueVars, workVars,
                   resumes, faults>>

\* startFirstStep, then what enqueueForStep must enqueue.
StartFirstStep(r) ==
    /\ [op |-> "start", req |-> r] \in calls
    /\ calls' = calls \ {[op |-> "start", req |-> r]}
    /\ CanTransitionRequest(request[r], "running")
    /\ \/ /\ Gated(r, 1)
          /\ CanTransitionStep(step[r][1], "awaiting_approval")
          /\ step' = [step EXCEPT ![r][1] = "awaiting_approval"]
          /\ notice' = [notice EXCEPT ![r][1] = "outstanding"]
          /\ request' = [request EXCEPT ![r] = "awaiting_approval"]
          /\ owed' = owed \cup {NotifyTask(r, 1)}
                          \cup (IF PolicyOf(r, 1).expires THEN {ExpiryTask(r, 1)} ELSE {})
       \/ /\ ~Gated(r, 1)
          /\ CanTransitionStep(step[r][1], "ready")
          /\ step' = [step EXCEPT ![r][1] = "ready"]
          /\ request' = [request EXCEPT ![r] = "running"]
          /\ owed' = owed \cup {ExecuteTask(r, 1, 0)}
          /\ UNCHANGED notice
    /\ UNCHANGED <<approval, snapshot, policy, envVars, queueVars, workVars,
                   resumes, faults>>

\* assertRequestTransition throws: the request was cancelled in between.
StartRefused(r) ==
    /\ [op |-> "start", req |-> r] \in calls
    /\ ~CanTransitionRequest(request[r], "running")
    /\ calls' = calls \ {[op |-> "start", req |-> r]}
    /\ UNCHANGED <<storeVars, envVars, owed, queueVars, workVars, resumes, faults>>

\* Any approver, the requester too.
MayDecideMutant(r, approver) == approver \in Approvers

\* decideStep behind requireRole('approver').  An approval releases the step,
\* a rejection ends the request; both assert the request's transition too.
MayDecide(r, approver) == approver \in Approvers /\ approver # Requester[r]

DecideStep(r, i, approver, decision) ==
    LET stepTo == IF decision = "approved" THEN "ready" ELSE "failed"
        requestTo == IF decision = "approved" THEN "running" ELSE "rejected"
    IN  /\ step[r][i] = "awaiting_approval"
        /\ MayDecide(r, approver)
        /\ CanTransitionStep(step[r][i], stepTo)
        /\ CanTransitionRequest(request[r], requestTo)
        /\ step' = [step EXCEPT ![r][i] = stepTo]
        /\ request' = [request EXCEPT ![r] = requestTo]
        /\ approval' = [approval EXCEPT ![r][i] = [by |-> approver, decision |-> decision]]
        /\ owed' = IF decision = "approved" THEN owed \cup {ExecuteTask(r, i, 0)} ELSE owed
        /\ UNCHANGED <<notice, snapshot, policy, envVars, calls, queueVars, workVars,
                       resumes, faults>>

\* The request's status written on a step.
StoppedTypeMutant(s) == CASE s = "pending" -> "cancelled"
                          [] s = "awaiting_approval" -> "failed"
                          [] OTHER -> s

\* The pending steps forgotten.
StoppedMutant(s) == IF s = "awaiting_approval" THEN "failed" ELSE s

\* What a cancellation does to a step that has not been dispatched.
Stopped(s) == CASE s = "pending" -> "skipped"
                [] s = "awaiting_approval" -> "failed"
                [] OTHER -> s

\* No look at the request's status.
CancelRequestMutant(r) ==
    /\ step' = [step EXCEPT ![r] = [i \in Ordinals |-> Stopped(step[r][i])]]
    /\ request' = [request EXCEPT ![r] = "cancelled"]
    /\ UNCHANGED <<approval, notice, snapshot, policy>>

\* cancelRequest.  A terminal request is left as it is; so is a step that is
\* 'ready' or 'running'.
CancelRequest(r) ==
    IF Terminal(r) THEN UNCHANGED storeVars
    ELSE /\ CanTransitionRequest(request[r], "cancelled")
         /\ step' = [step EXCEPT ![r] = [i \in Ordinals |-> Stopped(step[r][i])]]
         /\ request' = [request EXCEPT ![r] = "cancelled"]
         /\ UNCHANGED <<approval, notice, snapshot, policy>>

\* A suspension that is still under way counts as done.
ReadForCancelMutant(r) ==
    LET weSuspended == \E i \in Ordinals : /\ NameOf(r, i) = "suspend-user"
                                           /\ step[r][i] \in {"running", "succeeded"}
    IN  /\ r \in Cancellers
        /\ request[r] \notin {Absent, "succeeded", "rejected", "cancelled"}
        /\ calls' = calls \cup {[op |-> IF weSuspended THEN "compensate" ELSE "cancel",
                                 req |-> r]}
        /\ UNCHANGED <<storeVars, envVars, owed, queueVars, workVars, resumes, faults>>

\* POST /requests/:id/cancel reads the steps outside any transaction and picks
\* the route from what it read: compensate only a suspension of our own.  A request
\* that no step can leave is answered 409 and not modelled.
ReadForCancel(r) ==
    LET weSuspended == \E i \in Ordinals : /\ NameOf(r, i) = "suspend-user"
                                           /\ step[r][i] = "succeeded"
    IN  /\ r \in Cancellers
        /\ request[r] \notin {Absent, "succeeded", "rejected", "cancelled"}
        /\ calls' = calls \cup {[op |-> IF weSuspended THEN "compensate" ELSE "cancel",
                                 req |-> r]}
        /\ UNCHANGED <<storeVars, envVars, owed, queueVars, workVars, resumes, faults>>

RequesterCancel(r) ==
    /\ [op |-> "cancel", req |-> r] \in calls
    /\ calls' = calls \ {[op |-> "cancel", req |-> r]}
    /\ CancelRequest(r)
    /\ UNCHANGED <<envVars, owed, queueVars, workVars, resumes, faults>>

\* The admin route calls cancelRequest whatever the request has done.
AdminCancel(r) ==
    /\ r \in AdminCancellers
    /\ request[r] \in NonTerminalRequestStatus
    /\ CancelRequest(r)
    /\ UNCHANGED <<envVars, apiVars, queueVars, workVars, resumes, faults>>

\* appendCompensatingStep.  An existing compensating step is handed back to be
\* dispatched again; a terminal request is refused.
AppendCompensatingStep(r) ==
    LET c == CompOrdinal(r)
    IN  /\ [op |-> "compensate", req |-> r] \in calls
        /\ calls' = calls \ {[op |-> "compensate", req |-> r]}
        /\ \/ /\ Terminal(r)
              /\ UNCHANGED <<storeVars, owed>>
           \/ /\ ~Terminal(r) /\ step[r][c] # Absent
              /\ owed' = owed \cup {ExecuteTask(r, c, 0)}
              /\ UNCHANGED storeVars
           \/ /\ ~Terminal(r) /\ step[r][c] = Absent
              /\ request[r] # "running" => CanTransitionRequest(request[r], "running")
              /\ step' = [step EXCEPT ![r] =
                            [i \in Ordinals |-> IF i = c THEN "ready" ELSE Stopped(step[r][i])]]
              /\ request' = [request EXCEPT ![r] = "running"]
              /\ owed' = owed \cup {ExecuteTask(r, c, 0)}
              /\ UNCHANGED <<approval, notice, snapshot, policy>>
        /\ UNCHANGED <<envVars, queueVars, workVars, resumes, faults>>

\* resumeRequest: the FIRST failed step goes back to 'ready'.  The nonce keeps
\* the new task from being taken for the one that already ran.
ResumeRequest(r, i) ==
    /\ resumes[r] < MaxResumes
    /\ request[r] = "failed"
    /\ step[r][i] = "failed"
    /\ \A j \in 1..(i - 1) : step[r][j] # "failed"
    /\ CanTransitionStep(step[r][i], "ready") /\ CanTransitionRequest(request[r], "running")
    /\ step' = [step EXCEPT ![r][i] = "ready"]
    /\ request' = [request EXCEPT ![r] = "running"]
    /\ resumes' = [resumes EXCEPT ![r] = @ + 1]
    /\ owed' = owed \cup {ExecuteTask(r, i, resumes[r] + 1)}
    /\ UNCHANGED <<approval, notice, snapshot, policy, envVars, calls, queueVars, workVars,
                   faults>>

\* tryEnqueue, after the commit.
EnqueueOwed(t) ==
    /\ t \in owed
    /\ owed' = owed \ {t}
    /\ Enqueue(t)
    /\ UNCHANGED <<storeVars, envVars, calls, workVars, resumes, faults>>

\* The enqueue fails ('deferred'), or the API process dies before it: nothing
\* in the code comes back to it.
LoseOwed(t) ==
    /\ t \in owed
    /\ owed' = owed \ {t}
    /\ Fault("lose")
    /\ UNCHANGED <<storeVars, envVars, calls, queueVars, workVars, resumes>>

\* The API process dies, or the store throws, between two transactions.
LoseCall(c) ==
    /\ c \in calls
    /\ calls' = calls \ {c}
    /\ Fault("lose")
    /\ UNCHANGED <<storeVars, envVars, owed, queueVars, workVars, resumes>>

-----------------------------------------------------------------------------
(* Worker service: /tasks/expire-approval, /tasks/notify-approvers *)

\* expireApproval.  A step nobody decided fails and the request is rejected;
\* a decided step, or a terminal request, makes the firing a no-op.
ExpireApproval(r, i) ==
    LET t == ExpiryTask(r, i)
    IN  /\ t \in queue
        /\ \/ /\ step[r][i] # "awaiting_approval" \/ Terminal(r)
              /\ UNCHANGED storeVars
           \/ /\ step[r][i] = "awaiting_approval" /\ ~Terminal(r)
              /\ CanTransitionRequest(request[r], "rejected")
              /\ step' = [step EXCEPT ![r][i] = "failed"]
              /\ request' = [request EXCEPT ![r] = "rejected"]
              /\ UNCHANGED <<approval, notice, snapshot, policy>>
        /\ Acknowledge(t)
        /\ UNCHANGED <<envVars, apiVars, workVars, resumes, faults>>

\* The halt's second transaction has not run, so 'rejected' is no legal move of
\* the request and the assertion throws: 500.
ExpiryRefused(r, i) ==
    LET t == ExpiryTask(r, i)
    IN  /\ t \in queue
        /\ step[r][i] = "awaiting_approval" /\ ~Terminal(r)
        /\ ~CanTransitionRequest(request[r], "rejected")
        /\ FailDelivery(t)
        /\ UNCHANGED <<storeVars, envVars, apiVars, workVars, resumes, faults>>

RoleHolders(role) == IF role = "admin" THEN Admins ELSE Approvers

\* eligibleApprovers: whoever holds the step's role, but not the requester.
EligibleApprovers(r, i) == RoleHolders(PolicyOf(r, i).approverRole) \ {Requester[r]}

\* notifyApprovers: sends once, and only while the step still waits.
NotifyApprovers(r, i) ==
    LET t == NotifyTask(r, i)
    IN  /\ t \in queue
        /\ \/ /\ notice[r][i] = "sent"
              /\ UNCHANGED notice
           \/ /\ notice[r][i] # "sent" /\ step[r][i] # "awaiting_approval"
              /\ notice' = [notice EXCEPT ![r][i] = "suppressed"]
           \/ /\ notice[r][i] # "sent" /\ step[r][i] = "awaiting_approval"
              /\ EligibleApprovers(r, i) # {}
              /\ notice' = [notice EXCEPT ![r][i] = "sent"]
        /\ Acknowledge(t)
        /\ UNCHANGED <<request, step, approval, snapshot, policy, envVars, apiVars,
                       workVars, resumes, faults>>

\* Nobody can decide, or the relay refuses: the record keeps the error, the
\* notice stays outstanding and the task is retried.
NotifyUndelivered(r, i) ==
    LET t == NotifyTask(r, i)
    IN  /\ t \in queue /\ notice[r][i] # "sent" /\ step[r][i] = "awaiting_approval"
        /\ FailDelivery(t)
        /\ UNCHANGED <<storeVars, envVars, apiVars, workVars, resumes>>

NotifyRefused(r, i) ==
    /\ EligibleApprovers(r, i) = {}
    /\ NotifyUndelivered(r, i)
    /\ UNCHANGED faults

NotifyFails(r, i) ==
    /\ EligibleApprovers(r, i) # {}
    /\ NotifyUndelivered(r, i)
    /\ Fault("throw")

-----------------------------------------------------------------------------
(* Worker service: /tasks/execute-step *)

R(w) == job[w].req
I(w) == job[w].ord
Account(w) == account[Target[R(w)]]
Handles(w, name) == pc[w] = "mutate" /\ NameOf(R(w), I(w)) = name

Goto(w, label) == pc' = [pc EXCEPT ![w] = label]

\* The request is answered; the instance forgets it.
Finished(w) ==
    /\ pc' = [pc EXCEPT ![w] = "idle"]
    /\ job' = [job EXCEPT ![w] = NoTask]
    /\ seen' = [seen EXCEPT ![w] = "absent"]
    /\ out' = [out EXCEPT ![w] = "none"]
    /\ nxt' = [nxt EXCEPT ![w] = 0]

InFlight(t) == \E w \in Workers : pc[w] # "idle" /\ job[w] = t

\* A worker that has claimed the step and has not answered for it yet.
Executing(r, i) ==
    \E w \in Workers : /\ pc[w] \in {"exec", "mutate", "settle", "failing"}
                       /\ R(w) = r /\ I(w) = i

\* The queue delivers a task once at a time; a second delivery beside a live
\* one (a duplicate, a passed dispatch deadline) counts as a fault.
Deliverable(t) ==
    /\ t \in queue /\ t.kind = "execute"
    /\ IF InFlight(t) THEN Fault("duplicate") ELSE UNCHANGED faults

\* The lease is startedAt plus 600 seconds.  With SlowSteps false it was chosen
\* above the longest step, so only a dead worker's lease expires.
LeaseMayExpire(r, i) == SlowSteps \/ ~Executing(r, i)

\* The lease ignored.
ClaimableMutant(r, i) == step[r][i] \in {"ready", "running"}

\* executeStep up to its try block: claimStep, which does not look at the
\* request's status.
Claimable(r, i) ==
    \/ step[r][i] = "ready"
    \/ step[r][i] = "running" /\ LeaseMayExpire(r, i)

ClaimStep(w, t) ==
    LET r == t.req
        i == t.ord
    IN  /\ pc[w] = "idle"
        /\ Deliverable(t)
        /\ Claimable(r, i)
        /\ CanTransitionStep(step[r][i], "running")
        /\ step' = [step EXCEPT ![r][i] = "running"]
        /\ job' = [job EXCEPT ![w] = t]
        /\ Goto(w, "exec")
        /\ UNCHANGED <<request, approval, notice, snapshot, policy, envVars, apiVars,
                       queueVars, seen, out, nxt, resumes>>

\* Not claimable: 409, which the queue retries like any other failure.
NotClaimable(t) ==
    /\ Deliverable(t)
    /\ step[t.req][t.ord] # "ready"
    /\ FailDelivery(t)
    /\ UNCHANGED <<storeVars, envVars, apiVars, workVars, resumes>>

\* Every handler reads the account before it acts.
ReadAccount(w) ==
    /\ pc[w] = "exec"
    /\ seen' = [seen EXCEPT ![w] = Account(w)]
    /\ Goto(w, "mutate")
    /\ UNCHANGED <<storeVars, envVars, apiVars, queueVars, job, out, nxt, resumes, faults>>

\* A handler returns a status, or raises an error of a class.
Yields(w, result) ==
    /\ out' = [out EXCEPT ![w] = result]
    /\ Goto(w, IF result \in {"succeeded", "skipped"} THEN "settle" ELSE "failing")
    /\ UNCHANGED <<storeVars, apiVars, queueVars, job, seen, nxt, resumes, faults>>

SetAccount(w, state, by) ==
    /\ account' = [account EXCEPT ![Target[R(w)]] = state]
    /\ suspendedBy' = [suspendedBy EXCEPT ![Target[R(w)]] = by]

\* What the handlers do to the account, having found it as they expect it.
Suspends(w) == /\ seen[w] = "active" /\ Account(w) # "absent"
               /\ SetAccount(w, "suspended", R(w))
Unsuspends(w) == /\ seen[w] = "suspended" /\ Account(w) # "absent"
                 /\ SetAccount(w, "active", NoRequest)
Deletes(w) == SetAccount(w, "absent", NoRequest)
Creates(w) == /\ seen[w] = "absent" /\ Account(w) = "absent"
              /\ SetAccount(w, "active", NoRequest)

SuspendUser(w) ==
    /\ Handles(w, "suspend-user")
    /\ \/ /\ seen[w] = "suspended"
          /\ Yields(w, "skipped") /\ UNCHANGED envVars
       \/ Suspends(w) /\ Yields(w, "succeeded")
       \/ /\ seen[w] = "absent" \/ (seen[w] = "active" /\ Account(w) = "absent")
          /\ Yields(w, "terminal") /\ UNCHANGED envVars

UnsuspendUser(w) ==
    /\ Handles(w, CompensatingStep)
    /\ \/ /\ seen[w] = "active"
          /\ Yields(w, "skipped") /\ UNCHANGED envVars
       \/ Unsuspends(w) /\ Yields(w, "succeeded")
       \/ /\ seen[w] = "absent" \/ (seen[w] = "suspended" /\ Account(w) = "absent")
          /\ Yields(w, "terminal") /\ UNCHANGED envVars

DeleteUser(w) ==
    /\ Handles(w, "delete-user")
    /\ Deletes(w) /\ Yields(w, IF Account(w) = "absent" THEN "skipped" ELSE "succeeded")

CreateUser(w) ==
    /\ Handles(w, "create-user")
    /\ \/ /\ seen[w] # "absent"
          /\ Yields(w, "skipped") /\ UNCHANGED envVars
       \/ Creates(w) /\ Yields(w, "succeeded")
       \/ /\ seen[w] = "absent" /\ Account(w) # "absent"
          /\ Yields(w, "terminal") /\ UNCHANGED envVars

\* The handlers that leave the account's state alone.  A letter or a credential
\* already recorded on the step is a skip, whatever the account is.
ActsOnAccount == {"suspend-user", CompensatingStep, "delete-user", "create-user"}
MaySkip == {"apply-attributes", "assign-group", "confirm-credential",
            "regenerate-credential", "send-welcome-letter", "apply-update-attributes",
            "add-group", "remove-group", "remove-memberships"}
IgnoresAbsence == {"confirm-credential", "send-welcome-letter", "remove-memberships",
                   "remove-group"}

OtherHandler(w) ==
    LET name == NameOf(R(w), I(w))
        refuses == CASE name = "validate-request" -> seen[w] # "absent"
                     [] name \in IgnoresAbsence   -> FALSE
                     [] OTHER                     -> seen[w] = "absent"
    IN  /\ pc[w] = "mutate" /\ name \notin ActsOnAccount
        /\ UNCHANGED envVars
        /\ \/ refuses /\ Yields(w, "terminal")
           \/ ~refuses /\ Yields(w, "succeeded")
           \/ name \in MaySkip /\ (refuses => name = "regenerate-credential")
              /\ Yields(w, "skipped")

\* The change that the worker's handler makes.
Lands(w) ==
    \/ Handles(w, "suspend-user") /\ Suspends(w)
    \/ Handles(w, CompensatingStep) /\ Unsuspends(w)
    \/ Handles(w, "delete-user") /\ Deletes(w)
    \/ Handles(w, "create-user") /\ Creates(w)

\* Workspace refuses, or a check of the handler fails (a Drive transfer still under
\* way, a verification that finds a difference): a retryable class, or any other.
\* The change may have been made all the same, when it is the answer that was lost.
HandlerError(w, error) ==
    /\ pc[w] \in {"exec", "mutate"}
    /\ error \in HandlerFaults
    /\ Yields(w, error)
    /\ UNCHANGED envVars \/ Lands(w)

\* transitionStep running -> result.  A step that is no longer 'running' is left
\* alone, and the executor advances all the same.
SettleStep(w) ==
    /\ pc[w] = "settle"
    /\ step' = IF step[R(w)][I(w)] = "running"
               THEN [step EXCEPT ![R(w)][I(w)] = out[w]] ELSE step
    /\ Goto(w, "advance")
    /\ UNCHANGED <<request, approval, notice, snapshot, policy, envVars, apiVars,
                   queueVars, job, seen, out, nxt, resumes, faults>>

-----------------------------------------------------------------------------
(* advance: what follows a finished step *)

AdvanceReadRequest(w) ==
    /\ pc[w] = "advance"
    /\ Goto(w, IF Terminal(R(w)) THEN "ack" ELSE "plan")
    /\ UNCHANGED <<storeVars, envVars, apiVars, queueVars, job, seen, out, nxt,
                   resumes, faults>>

FinishedStep == {"succeeded", "skipped"}

\* An off-by-one in the slice after the finished step.
UnfinishedMutant(r, i) ==
    {j \in Ordinals : j > i + 1 /\ step[r][j] \notin FinishedStep \cup {Absent}}

\* The steps the plan still waits on after step i, whatever state they are in.
Unfinished(r, i) == {j \in Ordinals : j > i /\ step[r][j] \notin FinishedStep \cup {Absent}}

\* A plan that ends in a SUCCEEDED compensating step was cancelled.
Outcome(r) == IF step[r][CompOrdinal(r)] = "succeeded" THEN "cancelled" ELSE "succeeded"

\* Only a pending step is moved, and a gated one halts; a step halted by an
\* earlier delivery is followed up; anything else belongs to another delivery.
NextMove(r, j) ==
    CASE step[r][j] = "awaiting_approval"        -> "follow"
      [] step[r][j] = "pending" /\ Gated(r, j)  -> "halt"
      [] step[r][j] = "pending" /\ ~Gated(r, j) -> "release"
      [] OTHER                                   -> "ack"

\* listSteps, nextUnfinished, and the choice of what to do with the answer.
AdvanceReadSteps(w) ==
    LET r == R(w)
        left == Unfinished(r, I(w))
    IN  /\ pc[w] = "plan"
        /\ \/ /\ left = {}
              /\ out' = [out EXCEPT ![w] = Outcome(r)]
              /\ Goto(w, "finish")
              /\ UNCHANGED nxt
           \/ \E j \in left :
                /\ \A k \in left : j <= k
                /\ nxt' = [nxt EXCEPT ![w] = j]
                /\ Goto(w, NextMove(r, j))
                /\ UNCHANGED out
        /\ UNCHANGED <<storeVars, envVars, apiVars, queueVars, job, seen, resumes, faults>>

\* transitionRequest without its expectedFrom.
MoveRequestMutant(r, expected, to) == request' = [request EXCEPT ![r] = to]

\* transitionRequest, guarded by the statuses it expects.
MoveRequest(r, expected, to) ==
    request' = IF request[r] \in expected THEN [request EXCEPT ![r] = to] ELSE request

FinishRequest(w) ==
    /\ pc[w] = "finish"
    /\ MoveRequest(R(w), {"running", "awaiting_approval", "held"}, out[w])
    /\ request[R(w)] \in {"running", "awaiting_approval", "held"}
          => CanTransitionRequest(request[R(w)], out[w])
    /\ Goto(w, "ack")
    /\ UNCHANGED <<step, approval, notice, snapshot, policy, envVars, apiVars, queueVars,
                   job, seen, out, nxt, resumes, faults>>

\* An assertion of the transition table throws inside the try block.
FinishThrows(w) ==
    /\ pc[w] = "finish"
    /\ request[R(w)] \in {"running", "awaiting_approval", "held"}
    /\ ~CanTransitionRequest(request[R(w)], out[w])
    /\ out' = [out EXCEPT ![w] = "terminal"]
    /\ Goto(w, "failing")
    /\ UNCHANGED <<storeVars, envVars, apiVars, queueVars, job, seen, nxt, resumes, faults>>

\* pending -> to, unless another delivery got there first.
ReleaseStep(w) ==
    LET r == R(w)
        j == nxt[w]
    IN  /\ pc[w] = "release"
        /\ \/ /\ step[r][j] = "pending"
              /\ step' = [step EXCEPT ![r][j] = "ready"]
              /\ Goto(w, "enqueue")
           \/ /\ step[r][j] # "pending"
              /\ Goto(w, "ack")
              /\ UNCHANGED step
        /\ UNCHANGED <<request, approval, notice, snapshot, policy, envVars, apiVars,
                       queueVars, job, seen, out, nxt, resumes, faults>>

\* The notification record is written with the halt; followHalt drains it.
HaltStep(w) ==
    LET r == R(w)
        j == nxt[w]
    IN  /\ pc[w] = "halt"
        /\ \/ /\ step[r][j] = "pending"
              /\ step' = [step EXCEPT ![r][j] = "awaiting_approval"]
              /\ notice' = [notice EXCEPT ![r][j] = "outstanding"]
              /\ Goto(w, "follow")
           \/ /\ step[r][j] # "pending"
              /\ Goto(w, "ack")
              /\ UNCHANGED <<step, notice>>
        /\ UNCHANGED <<request, approval, snapshot, policy, envVars, apiVars,
                       queueVars, job, seen, out, nxt, resumes, faults>>

\* The request of an ordinary halt is left 'running'.
FollowHaltMutant(w) ==
    /\ pc[w] = "follow"
    /\ MoveRequest(R(w), {"draft"}, "awaiting_approval")
    /\ Goto(w, "notify")
    /\ UNCHANGED <<step, approval, notice, snapshot, policy, envVars, apiVars, queueVars,
                   job, seen, out, nxt, resumes, faults>>

FollowHalt(w) ==
    /\ pc[w] = "follow"
    /\ MoveRequest(R(w), {"running", "draft"}, "awaiting_approval")
    /\ Goto(w, "notify")
    /\ UNCHANGED <<step, approval, notice, snapshot, policy, envVars, apiVars, queueVars,
                   job, seen, out, nxt, resumes, faults>>

\* The drain of the notification record forgotten.
EnqueueNotificationMutant(w) ==
    /\ pc[w] = "notify"
    /\ Goto(w, "ack")
    /\ UNCHANGED <<storeVars, envVars, apiVars, queueVars, job, seen, out, nxt, resumes, faults>>

EnqueueNotification(w) ==
    /\ pc[w] = "notify"
    /\ Enqueue(NotifyTask(R(w), nxt[w]))
    /\ Goto(w, IF PolicyOf(R(w), nxt[w]).expires THEN "expiry" ELSE "ack")
    /\ UNCHANGED <<storeVars, envVars, apiVars, job, seen, out, nxt, resumes, faults>>

EnqueueExpiry(w) ==
    /\ pc[w] = "expiry"
    /\ Enqueue(ExpiryTask(R(w), nxt[w]))
    /\ Goto(w, "ack")
    /\ UNCHANGED <<storeVars, envVars, apiVars, job, seen, out, nxt, resumes, faults>>

EnqueueNext(w) ==
    /\ pc[w] = "enqueue"
    /\ Enqueue(ExecuteTask(R(w), nxt[w], 0))
    /\ Goto(w, "ack")
    /\ UNCHANGED <<storeVars, envVars, apiVars, job, seen, out, nxt, resumes, faults>>

\* A Firestore or Cloud Tasks call throws inside the executor's try block: not
\* a WorkspaceError, so the failure is terminal whatever has been settled.
CallThrows(w) ==
    /\ pc[w] \in {"settle", "advance", "plan", "finish", "release", "enqueue",
                  "halt", "follow", "notify", "expiry"}
    /\ Fault("throw")
    /\ out' = [out EXCEPT ![w] = "terminal"]
    /\ Goto(w, "failing")
    /\ UNCHANGED <<storeVars, envVars, apiVars, queueVars, job, seen, nxt, resumes>>

-----------------------------------------------------------------------------
(* settleFailure, the answer, and the end of an instance *)

\* A retryable error with budget left hands the step back to the queue; any
\* other fails the step, if it is still running.
SettleFailure(w) ==
    LET handBack == out[w] = "retryable" /\ Attempt < MaxAttempts
    IN  /\ pc[w] = "failing"
        /\ step' = IF step[R(w)][I(w)] = "running"
                   THEN [step EXCEPT ![R(w)][I(w)] = IF handBack THEN "ready" ELSE "failed"]
                   ELSE step
        /\ Goto(w, IF handBack THEN "nack" ELSE "failRequest")
        /\ UNCHANGED <<request, approval, notice, snapshot, policy, envVars, apiVars,
                       queueVars, job, seen, out, nxt, resumes, faults>>

FailRequest(w) ==
    /\ pc[w] = "failRequest"
    /\ MoveRequest(R(w), {"running", "awaiting_approval", "held"}, "failed")
    /\ Goto(w, "ack")
    /\ UNCHANGED <<step, approval, notice, snapshot, policy, envVars, apiVars, queueVars,
                   job, seen, out, nxt, resumes, faults>>

Answer200(w) ==
    /\ pc[w] = "ack"
    /\ Acknowledge(job[w])
    /\ Finished(w)
    /\ UNCHANGED <<storeVars, envVars, apiVars, resumes, faults>>

Answer500(w) ==
    /\ pc[w] = "nack"
    /\ FailDelivery(job[w])
    /\ Finished(w)
    /\ UNCHANGED <<storeVars, envVars, apiVars, resumes, faults>>

\* The instance dies, or a store call throws outside the try block (500): the
\* delivery failed, and nothing of it survives but what was committed.
Crash(w) ==
    /\ pc[w] # "idle"
    /\ Fault("crash")
    /\ FailDelivery(job[w])
    /\ Finished(w)
    /\ UNCHANGED <<storeVars, envVars, apiVars, resumes>>

-----------------------------------------------------------------------------

Operator ==
    \/ \E p \in Policies : SetApprovalPolicy(p)
    \/ \E r \in Requests :
          \/ \E loaded \in Policies : CreateRequest(r, loaded)
          \/ ReadForCancel(r) \/ AdminCancel(r)
          \/ \E i \in Ordinals :
                \/ ResumeRequest(r, i)
                \/ \E h \in Humans, d \in {"approved", "rejected"} : DecideStep(r, i, h, d)

ServeStart(r) == StartFirstStep(r) \/ StartRefused(r)
ServeCancel(r) == RequesterCancel(r) \/ AppendCompensatingStep(r)

Api ==
    \/ \E r \in Requests : ServeStart(r) \/ ServeCancel(r)
    \/ \E t \in owed : EnqueueOwed(t)

\* The queue delivers a task to the route of its kind.
Deliver(t) ==
    \/ NotClaimable(t) \/ \E w \in Workers : ClaimStep(w, t)
    \/ t.kind = "expire" /\ (ExpireApproval(t.req, t.ord) \/ ExpiryRefused(t.req, t.ord))
    \/ t.kind = "notify" /\ (NotifyApprovers(t.req, t.ord) \/ NotifyRefused(t.req, t.ord))

Handler(w) ==
    \/ ReadAccount(w) \/ SuspendUser(w) \/ UnsuspendUser(w) \/ DeleteUser(w)
    \/ CreateUser(w) \/ OtherHandler(w) \/ \E e \in HandlerFaults : HandlerError(w, e)

Advance(w) ==
    \/ SettleStep(w) \/ AdvanceReadRequest(w) \/ AdvanceReadSteps(w)
    \/ FinishRequest(w) \/ FinishThrows(w) \/ ReleaseStep(w) \/ HaltStep(w)
    \/ FollowHalt(w) \/ EnqueueNotification(w) \/ EnqueueExpiry(w) \/ EnqueueNext(w)
    \/ SettleFailure(w) \/ FailRequest(w) \/ Answer200(w) \/ Answer500(w)

Failures ==
    \/ \E w \in Workers : Crash(w) \/ CallThrows(w)
    \/ \E r \in Requests, i \in Ordinals : NotifyFails(r, i)
    \/ \E t \in owed : LoseOwed(t)
    \/ \E c \in calls : LoseCall(c)

Next ==
    \/ Operator \/ Api \/ Failures
    \/ \E t \in queue : Deliver(t)
    \/ \E w \in Workers : Handler(w) \/ Advance(w)

Spec == Init /\ [][Next]_vars

=============================================================================
