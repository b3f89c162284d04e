--------------------------- MODULE LifecycleProofs ---------------------------
(***************************************************************************)
(* Proofs about Lifecycle for every number of requests, workers, people,   *)
(* steps, faults and resumes.                                              *)
(***************************************************************************)
EXTENDS LifecycleProperties, TLAPS

\* What a busy worker's locals say, beyond their types: the result it is about to
\* settle, the step it is about to move, that its request exists, and that a
\* step it is about to release is not gated.
LocalsOf(w) ==
    /\ pc[w] = "settle" => out[w] \in FinishedStep
    /\ pc[w] \in {"release", "enqueue", "halt", "follow", "notify", "expiry"}
          => nxt[w] \in Ordinals
    /\ pc[w] # "idle" => request[R(w)] # Absent
    /\ pc[w] = "release" => ~Gated(R(w), nxt[w])

WorkerLocals == \A w \in Workers : LocalsOf(w)

\* A step of a request that does not exist, or beyond the compensating one,
\* does not exist either.
DocumentExists(r, i) == request[r] = Absent \/ i > CompOrdinal(r) => step[r][i] = Absent

\* A step that needs approval and was dispatched has it, or its request was given
\* a compensating step.  A failed step counts as dispatched, for a resume
\* dispatches it again, unless its request was rejected or cancelled.
GateHolds(r, i) ==
    NeedsApproval(r, i)
        => \/ Approved(r, i) \/ Compensating(r)
           \/ step[r][i] \notin {"ready", "running", "succeeded", "failed"}
           \/ step[r][i] = "failed" /\ request[r] \in {"rejected", "cancelled"}

\* The transactions an API handler still has to run are of requests that exist.
CallsExist == \A c \in calls : request[c.req] # Absent

IInv ==
    /\ TypeOK
    /\ WorkerLocals
    /\ CallsExist
    /\ \A r \in Requests, i \in Ordinals : DocumentExists(r, i) /\ GateHolds(r, i)

-----------------------------------------------------------------------------
(* Lemmas about the tables, the plan and the policy *)

\* The transition tables stay within the vocabularies.
LEMMA TransitionTypes ==
    /\ \A from \in StepStatus : StepTransitions[from] \subseteq StepStatus
    /\ \A from \in RequestStatus : RequestTransitions[from] \subseteq RequestStatus
BY DEF StepTransitions, RequestTransitions, StepStatus, RequestStatus

\* The compensating step has an ordinal of its own, after the plan's.
LEMMA CompOrdinalType ==
    ASSUME NEW r \in Requests
    PROVE  /\ CompOrdinal(r) \in Ordinals
           /\ 1 \in Ordinals /\ 1 \in 1..Len(Plan[r])
           /\ 1..Len(Plan[r]) \subseteq Ordinals
           /\ \A i \in 1..Len(Plan[r]) : i # CompOrdinal(r) /\ ~(i > CompOrdinal(r))
           /\ \A i \in Ordinals :
                 i \in 1..Len(Plan[r]) \/ i = CompOrdinal(r) \/ i > CompOrdinal(r)
           /\ ~(CompOrdinal(r) > CompOrdinal(r))
BY ConstantsAssumption, PlanAssumption DEF CompOrdinal, Ordinals

\* A plan step that needs approval is one the dispatch gates (resolveStepPolicy
\* puts the floor under the deletion).
LEMMA NeededIsGated ==
    ASSUME snapshot \in [Requests -> Policies], NEW r \in Requests,
           NEW i \in 1..Len(Plan[r]), NeedsApproval(r, i)
    PROVE  Gated(r, i)
<1>1. snapshot[r] \in Policies
  OBVIOUS
<1>2. \A name \in DOMAIN snapshot[r] : snapshot[r][name] \in StepPolicy
  BY <1>1, PolicyAssumption
<1> DEFINE name == NameOf(r, i)
           configured == IF name \in DOMAIN snapshot[r] THEN snapshot[r][name] ELSE NoApproval
<1>3. configured \in StepPolicy
  BY <1>2 DEF NoApproval, StepPolicy
<1>4. CASE name \in MandatoryApprovalSteps
  BY <1>3, <1>4 DEF Gated, PolicyOf, ResolveStepPolicy, StepPolicy
<1>5. CASE name \notin MandatoryApprovalSteps
  <2>1. name \in DOMAIN snapshot[r] /\ snapshot[r][name].requiresApproval
    BY <1>5 DEF NeedsApproval
  <2> QED BY <1>5, <2>1 DEF Gated, PolicyOf, ResolveStepPolicy
<1> QED BY <1>4, <1>5

\* The tasks the actions build are tasks.
LEMMA BuiltTasks ==
    ASSUME NEW r \in Requests, NEW i \in Ordinals
    PROVE  /\ \A nonce \in 0..MaxResumes : ExecuteTask(r, i, nonce) \in Task
           /\ ExecuteTask(r, i, 0) \in Task
           /\ NotifyTask(r, i) \in Task
           /\ ExpiryTask(r, i) \in Task
BY ConstantsAssumption DEF ExecuteTask, NotifyTask, ExpiryTask, Task

LEMMA InitIInv == Init => IInv
<1> SUFFICES ASSUME Init PROVE IInv
  OBVIOUS
<1>1. TypeOK
  <2>1. /\ request \in [Requests -> RequestStatus \cup {Absent}]
        /\ step \in [Requests -> [Ordinals -> StepStatus \cup {Absent}]]
        /\ approval \in [Requests -> [Ordinals -> Approval \cup {Undecided}]]
        /\ notice \in [Requests -> [Ordinals -> {"none", "outstanding", "sent", "suppressed"}]]
    BY DEF Init
  <2>2. /\ policy \in Policies /\ snapshot \in [Requests -> Policies]
        /\ suspendedBy \in [Users -> Requests \cup {NoRequest}]
        /\ calls = {} /\ owed = {} /\ queue = {} /\ names = {}
    BY DEF Init
  <2>3. account \in [Users -> AccountState]
    BY ConstantsAssumption DEF Init
  <2>4. /\ tries \in [Task -> 0..QueueAttempts]
        /\ resumes \in [Requests -> 0..MaxResumes]
        /\ faults \in 0..MaxFaults
    BY ConstantsAssumption DEF Init
  <2>5. /\ pc = [w \in Workers |-> "idle"]
        /\ job \in [Workers -> Task \cup {NoTask}]
        /\ seen \in [Workers -> AccountState]
        /\ out = [w \in Workers |-> "none"]
        /\ nxt \in [Workers -> {0} \cup Ordinals]
    BY DEF Init, AccountState
  <2> QED BY <2>1, <2>2, <2>3, <2>4, <2>5 
       DEF TypeOK, StoreTypes, EnvironmentTypes, ApiTypes, QueueTypes, WorkerTypes,
           BoundTypes, Label
<1>2. WorkerLocals
  BY DEF Init, WorkerLocals, LocalsOf
<1>3. CallsExist /\ \A r \in Requests, i \in Ordinals : DocumentExists(r, i) /\ GateHolds(r, i)
  BY DEF Init, CallsExist, DocumentExists, GateHolds, Absent
<1> QED BY <1>1, <1>2, <1>3 DEF IInv

-----------------------------------------------------------------------------
(* Lemmas about the parts of an action *)

\* What leaves a group of variables alone keeps their types.
LEMMA TypeFrames ==
    /\ StoreTypes /\ UNCHANGED storeVars => StoreTypes'
    /\ EnvironmentTypes /\ UNCHANGED envVars => EnvironmentTypes'
    /\ ApiTypes /\ UNCHANGED apiVars => ApiTypes'
    /\ QueueTypes /\ UNCHANGED queueVars => QueueTypes'
    /\ WorkerTypes /\ UNCHANGED workVars => WorkerTypes'
    /\ BoundTypes /\ UNCHANGED <<resumes, faults>> => BoundTypes'
<1>1. StoreTypes /\ UNCHANGED storeVars => StoreTypes'
  BY DEF StoreTypes, storeVars
<1>2. EnvironmentTypes /\ UNCHANGED envVars => EnvironmentTypes'
  BY DEF EnvironmentTypes, envVars
<1>3. ApiTypes /\ UNCHANGED apiVars => ApiTypes'
  BY DEF ApiTypes, apiVars
<1>4. QueueTypes /\ UNCHANGED queueVars => QueueTypes'
  BY DEF QueueTypes, queueVars
<1>5. WorkerTypes /\ UNCHANGED workVars => WorkerTypes'
  BY DEF WorkerTypes, workVars
<1>6. BoundTypes /\ UNCHANGED <<resumes, faults>> => BoundTypes'
  BY DEF BoundTypes
<1> QED BY <1>1, <1>2, <1>3, <1>4, <1>5, <1>6

\* The queue keeps tasks, and never counts past its attempts.
LEMMA QueueSteps ==
    ASSUME QueueTypes, NEW t \in Task, Enqueue(t) \/ Acknowledge(t) \/ FailDelivery(t)
    PROVE  QueueTypes'
<1>1. CASE Enqueue(t)
  BY <1>1 DEF QueueTypes, Enqueue, queueVars
<1>2. CASE Acknowledge(t)
  BY <1>2, ConstantsAssumption DEF QueueTypes, Acknowledge
<1>3. CASE FailDelivery(t)
  <2>1. QueueAttempts \in Nat /\ tries[t] \in 0..QueueAttempts
    BY ConstantsAssumption DEF QueueTypes
  <2>2. CASE tries' = [tries EXCEPT ![t] = @ + 1] /\ UNCHANGED <<queue, names>>
                /\ tries[t] + 1 < QueueAttempts
    BY <2>1, <2>2 DEF QueueTypes
  <2>3. CASE Acknowledge(t)
    BY <2>3, ConstantsAssumption DEF QueueTypes, Acknowledge
  <2> QED BY <1>3, <2>2, <2>3 DEF FailDelivery
<1> QED BY <1>1, <1>2, <1>3

\* A fault stays within its bound.
LEMMA FaultStep ==
    ASSUME BoundTypes, UNCHANGED resumes,
           (\E kind \in {"crash", "throw", "lose", "duplicate"} : Fault(kind)) \/ UNCHANGED faults
    PROVE  BoundTypes'
BY ConstantsAssumption DEF BoundTypes, Fault

\* A step, a notice or a request moved to one of its statuses.
LEMMA StepMoves ==
    ASSUME StoreTypes, NEW r \in Requests, NEW i \in Ordinals, NEW s \in StepStatus
    PROVE  [step EXCEPT ![r][i] = s] \in [Requests -> [Ordinals -> StepStatus \cup {Absent}]]
BY DEF StoreTypes

LEMMA NoticeMoves ==
    ASSUME StoreTypes, NEW r \in Requests, NEW i \in Ordinals,
           NEW n \in {"none", "outstanding", "sent", "suppressed"}
    PROVE  [notice EXCEPT ![r][i] = n]
                \in [Requests -> [Ordinals -> {"none", "outstanding", "sent", "suppressed"}]]
BY DEF StoreTypes

LEMMA RequestMoves ==
    ASSUME StoreTypes, NEW r \in Requests, NEW s \in RequestStatus
    PROVE  [request EXCEPT ![r] = s] \in [Requests -> RequestStatus \cup {Absent}]
BY DEF StoreTypes

\* The steps of a request rewritten one by one.
LEMMA StepsRewritten ==
    ASSUME StoreTypes, NEW r \in Requests, NEW F \in [Ordinals -> StepStatus \cup {Absent}]
    PROVE  [step EXCEPT ![r] = F] \in [Requests -> [Ordinals -> StepStatus \cup {Absent}]]
BY DEF StoreTypes

\* What is stopped is a step still.
LEMMA StoppedTypes ==
    ASSUME StoreTypes, NEW r \in Requests, NEW i \in Ordinals
    PROVE  Stopped(step[r][i]) \in StepStatus \cup {Absent}
BY DEF StoreTypes, Stopped, StepStatus

\* A cancellation writes statuses.
LEMMA CancelTypes ==
    ASSUME StoreTypes, NEW r \in Requests, CancelRequest(r)
    PROVE  StoreTypes'
<1>1. CASE Terminal(r)
  BY <1>1, TypeFrames DEF CancelRequest
<1>2. CASE ~Terminal(r)
  <2> DEFINE F == [i \in Ordinals |-> Stopped(step[r][i])]
  <2>1. F \in [Ordinals -> StepStatus \cup {Absent}]
    BY StoppedTypes
  <2>2. step' = [step EXCEPT ![r] = F]
    BY <1>2 DEF CancelRequest
  <2>3. step' \in [Requests -> [Ordinals -> StepStatus \cup {Absent}]]
    <3> HIDE DEF F
    <3> QED BY <2>1, <2>2, StepsRewritten
  <2>4. request' \in [Requests -> RequestStatus \cup {Absent}]
    BY <1>2 DEF CancelRequest, StoreTypes, RequestStatus
  <2> QED BY <1>2, <2>3, <2>4 DEF CancelRequest, StoreTypes
<1> QED BY <1>1, <1>2

\* A busy worker works on a step of a request.
LEMMA BusyJob ==
    ASSUME WorkerTypes, NEW w \in Workers, pc[w] # "idle"
    PROVE  R(w) \in Requests /\ I(w) \in Ordinals /\ job[w] \in Task
BY DEF WorkerTypes, R, I, Task

\* A move of one worker's program counter.
LEMMA GotoTypes ==
    ASSUME WorkerTypes, NEW w \in Workers, pc[w] # "idle", NEW label \in Label,
           Goto(w, label), UNCHANGED <<job, seen, out, nxt>>
    PROVE  WorkerTypes'
BY DEF WorkerTypes, Goto

\* The result of a handler.
LEMMA YieldsTypes ==
    ASSUME WorkerTypes, NEW w \in Workers, pc[w] # "idle",
           NEW result \in {"succeeded", "skipped", "retryable", "terminal"}, Yields(w, result)
    PROVE  WorkerTypes'
BY DEF WorkerTypes, Yields, Goto, Label

LEMMA FinishedTypes ==
    ASSUME WorkerTypes, NEW w \in Workers, Finished(w)
    PROVE  WorkerTypes'
BY DEF WorkerTypes, Finished, Label, AccountState

-----------------------------------------------------------------------------
(* Types *)

\* A task of the queue names a request and a step.
LEMMA DeliveredTask ==
    ASSUME QueueTypes, NEW t \in queue
    PROVE  t \in Task /\ t.req \in Requests /\ t.ord \in Ordinals
BY DEF QueueTypes, Task

\* People: requests, decisions, cancellations, resumes, policies.
LEMMA OperatorTypes ==
    ASSUME TypeOK, WorkerLocals, Operator
    PROVE  TypeOK'
<1>1. ASSUME NEW p \in Policies, SetApprovalPolicy(p) PROVE TypeOK'
  BY <1>1, TypeFrames DEF TypeOK, StoreTypes, SetApprovalPolicy
<1>2. ASSUME NEW r \in Requests, NEW loaded \in Policies, CreateRequest(r, loaded) PROVE TypeOK'
  BY <1>2, TypeFrames DEF TypeOK, StoreTypes, ApiTypes, CreateRequest, StepStatus,
     RequestStatus
<1>3. ASSUME NEW r \in Requests, ReadForCancel(r) PROVE TypeOK'
  BY <1>3, TypeFrames DEF TypeOK, ApiTypes, ReadForCancel
<1>4. ASSUME NEW r \in Requests, AdminCancel(r) PROVE TypeOK'
  BY <1>4, TypeFrames, CancelTypes DEF TypeOK, AdminCancel
<1>5. ASSUME NEW r \in Requests, NEW i \in Ordinals, ResumeRequest(r, i) PROVE TypeOK'
  BY <1>5, TypeFrames, BuiltTasks, ConstantsAssumption DEF TypeOK, StoreTypes, ApiTypes,
     BoundTypes, ResumeRequest, StepStatus, RequestStatus
<1>6. ASSUME NEW r \in Requests, NEW i \in Ordinals, NEW h \in Humans, NEW d \in {"approved", "rejected"}, DecideStep(r, i, h, d) PROVE TypeOK'
  BY <1>6, TypeFrames, BuiltTasks DEF TypeOK, StoreTypes, ApiTypes, DecideStep,
     Approval, StepStatus, RequestStatus
<1> QED BY <1>1, <1>2, <1>3, <1>4, <1>5, <1>6 DEF Operator

\* The transactions and enqueues an API handler still has to run.
LEMMA ApiStepTypes ==
    ASSUME TypeOK, WorkerLocals, Api
    PROVE  TypeOK'
<1>1. ASSUME NEW r \in Requests, StartFirstStep(r) PROVE TypeOK'
  <2> DEFINE S == [Requests -> [Ordinals -> StepStatus \cup {Absent}]]
             Q == [Requests -> RequestStatus \cup {Absent}]
  <2>1. /\ [step EXCEPT ![r][1] = "awaiting_approval"] \in S
        /\ [step EXCEPT ![r][1] = "ready"] \in S
    BY StepMoves, CompOrdinalType DEF TypeOK, StepStatus
  <2>2. /\ [request EXCEPT ![r] = "awaiting_approval"] \in Q
        /\ [request EXCEPT ![r] = "running"] \in Q
    BY RequestMoves DEF TypeOK, RequestStatus
  <2>3. [notice EXCEPT ![r][1] = "outstanding"]
            \in [Requests -> [Ordinals -> {"none", "outstanding", "sent", "suppressed"}]]
    BY NoticeMoves, CompOrdinalType DEF TypeOK
  <2>4. StoreTypes'
    BY <1>1, <2>1, <2>2, <2>3 DEF StartFirstStep, TypeOK, StoreTypes
  <2>5. ApiTypes'
    BY <1>1, BuiltTasks, CompOrdinalType DEF StartFirstStep, TypeOK, ApiTypes
  <2> QED BY <1>1, <2>4, <2>5, TypeFrames DEF StartFirstStep, TypeOK
<1>2. ASSUME NEW r \in Requests, StartRefused(r) PROVE TypeOK'
  BY <1>2, TypeFrames DEF TypeOK, ApiTypes, StartRefused
<1>3. ASSUME NEW r \in Requests, RequesterCancel(r) PROVE TypeOK'
  BY <1>3, TypeFrames, CancelTypes DEF TypeOK, ApiTypes, RequesterCancel
<1>4. ASSUME NEW r \in Requests, AppendCompensatingStep(r) PROVE TypeOK'
  <2> DEFINE F == [i \in Ordinals |-> IF i = CompOrdinal(r) THEN "ready" ELSE Stopped(step[r][i])]
  <2>1. F \in [Ordinals -> StepStatus \cup {Absent}]
    BY StoppedTypes DEF TypeOK, StepStatus
  <2>2. CASE UNCHANGED storeVars
    BY <1>4, <2>2, BuiltTasks, CompOrdinalType, TypeFrames
       DEF AppendCompensatingStep, TypeOK, ApiTypes
  <2>3. CASE step' = [step EXCEPT ![r] = F] /\ request' = [request EXCEPT ![r] = "running"]
                /\ owed' = owed \cup {ExecuteTask(r, CompOrdinal(r), 0)}
                /\ UNCHANGED <<approval, notice, snapshot, policy>>
    <3>1. step' \in [Requests -> [Ordinals -> StepStatus \cup {Absent}]]
      <4> HIDE DEF F
      <4> QED BY <2>1, <2>3, StepsRewritten DEF TypeOK
    <3>2. StoreTypes'
      BY <2>3, <3>1 DEF TypeOK, StoreTypes, RequestStatus
    <3> QED BY <1>4, <2>3, <3>2, BuiltTasks, CompOrdinalType, TypeFrames
            DEF AppendCompensatingStep, TypeOK, ApiTypes
  <2> QED BY <1>4, <2>2, <2>3 DEF AppendCompensatingStep
<1>5. ASSUME NEW t \in owed, EnqueueOwed(t) PROVE TypeOK'
  BY <1>5, TypeFrames, QueueSteps DEF TypeOK, ApiTypes, EnqueueOwed
<1> QED BY <1>1, <1>2, <1>3, <1>4, <1>5 DEF Api, ServeStart, ServeCancel

\* A delivery of a task.
LEMMA DeliverTypes ==
    ASSUME TypeOK, WorkerLocals, NEW t \in queue, Deliver(t)
    PROVE  TypeOK'
<1>1. ASSUME NEW w \in Workers, ClaimStep(w, t) PROVE TypeOK'
  BY <1>1, TypeFrames, FaultStep DEF TypeOK, StoreTypes, QueueTypes, WorkerTypes,
     ClaimStep, Deliverable, Goto, StepStatus, Label, Task
<1>2. ASSUME NotClaimable(t) PROVE TypeOK'
  BY <1>2, TypeFrames, QueueSteps, FaultStep DEF TypeOK, QueueTypes, NotClaimable,
     Deliverable
<1>3. ASSUME NEW r \in Requests, NEW i \in Ordinals, ExpireApproval(r, i) PROVE TypeOK'
  <2>1. StoreTypes'
    <3>1. CASE UNCHANGED storeVars
      BY <3>1, TypeFrames DEF TypeOK
    <3>2. CASE /\ step' = [step EXCEPT ![r][i] = "failed"]
               /\ request' = [request EXCEPT ![r] = "rejected"]
               /\ UNCHANGED <<approval, notice, snapshot, policy>>
      BY <3>2, StepMoves, RequestMoves DEF TypeOK, StoreTypes, StepStatus, RequestStatus
    <3> QED BY <1>3, <3>1, <3>2 DEF ExpireApproval
  <2> QED BY <1>3, <2>1, QueueSteps, BuiltTasks, TypeFrames DEF ExpireApproval, TypeOK
<1>4. ASSUME NEW r \in Requests, NEW i \in Ordinals, ExpiryRefused(r, i) PROVE TypeOK'
  BY <1>4, TypeFrames, QueueSteps, BuiltTasks DEF TypeOK, ExpiryRefused
<1>5. ASSUME NEW r \in Requests, NEW i \in Ordinals, NotifyApprovers(r, i) PROVE TypeOK'
  <2> DEFINE N == [Requests -> [Ordinals -> {"none", "outstanding", "sent", "suppressed"}]]
  <2>1. notice' \in [Requests -> [Ordinals -> {"none", "outstanding", "sent", "suppressed"}]]
    <3>1. /\ [notice EXCEPT ![r][i] = "suppressed"] \in N
          /\ [notice EXCEPT ![r][i] = "sent"] \in N
      BY NoticeMoves DEF TypeOK
    <3> QED BY <1>5, <3>1 DEF NotifyApprovers, TypeOK, StoreTypes
  <2>2. StoreTypes'
    BY <1>5, <2>1 DEF NotifyApprovers, TypeOK, StoreTypes
  <2> QED BY <1>5, <2>2, QueueSteps, BuiltTasks, TypeFrames DEF NotifyApprovers, TypeOK
<1>6. ASSUME NEW r \in Requests, NEW i \in Ordinals, NotifyRefused(r, i) PROVE TypeOK'
  BY <1>6, TypeFrames, QueueSteps, BuiltTasks DEF TypeOK, NotifyRefused,
     NotifyUndelivered
<1>7. t \in Task /\ t.req \in Requests /\ t.ord \in Ordinals
  BY DeliveredTask DEF TypeOK
<1> QED BY <1>1, <1>2, <1>3, <1>4, <1>5, <1>6, <1>7 DEF Deliver

\* A step handler.
LEMMA HandlerTypes ==
    ASSUME TypeOK, WorkerLocals, NEW w \in Workers, Handler(w)
    PROVE  TypeOK'
<1>1. ASSUME ReadAccount(w) PROVE TypeOK'
  BY <1>1, BusyJob, TypeFrames, ConstantsAssumption DEF TypeOK, EnvironmentTypes,
     WorkerTypes, ReadAccount, Account, Goto, Label
<1>2. ASSUME SuspendUser(w) PROVE TypeOK'
  BY <1>2, TypeFrames, YieldsTypes, BusyJob DEF TypeOK, EnvironmentTypes, AccountState,
     SuspendUser, Suspends, Handles, SetAccount, Yields
<1>3. ASSUME UnsuspendUser(w) PROVE TypeOK'
  BY <1>3, TypeFrames, YieldsTypes, BusyJob DEF TypeOK, EnvironmentTypes, AccountState,
     UnsuspendUser, Unsuspends, Handles, SetAccount, Yields
<1>4. ASSUME DeleteUser(w) PROVE TypeOK'
  BY <1>4, TypeFrames, YieldsTypes, BusyJob DEF TypeOK, EnvironmentTypes, AccountState,
     DeleteUser, Deletes, Handles, SetAccount, Yields
<1>5. ASSUME CreateUser(w) PROVE TypeOK'
  BY <1>5, TypeFrames, YieldsTypes, BusyJob DEF TypeOK, EnvironmentTypes, AccountState,
     CreateUser, Creates, Handles, SetAccount, Yields
<1>6. ASSUME OtherHandler(w) PROVE TypeOK'
  BY <1>6, TypeFrames, YieldsTypes DEF TypeOK, OtherHandler, Yields
<1>7. ASSUME NEW e \in HandlerFaults, HandlerError(w, e) PROVE TypeOK'
  <2>1. CASE UNCHANGED envVars
    BY <1>7, <2>1, TypeFrames, YieldsTypes, ConstantsAssumption DEF TypeOK, HandlerError, Yields
  <2>2. CASE Lands(w)
    <3>1. EnvironmentTypes'
      BY <2>2, BusyJob DEF TypeOK, EnvironmentTypes, AccountState, Lands, Suspends, Unsuspends,
         Deletes, Creates, Handles, SetAccount
    <3> QED BY <1>7, <3>1, TypeFrames, YieldsTypes, ConstantsAssumption DEF TypeOK, HandlerError, Yields
  <2> QED BY <1>7, <2>1, <2>2 DEF HandlerError
<1> QED BY <1>1, <1>2, <1>3, <1>4, <1>5, <1>6, <1>7 DEF Handler

\* The executor and advance.
LEMMA AdvanceTypes ==
    ASSUME TypeOK, WorkerLocals, NEW w \in Workers, Advance(w)
    PROVE  TypeOK'
<1>1. ASSUME SettleStep(w) PROVE TypeOK'
  BY <1>1, BusyJob, TypeFrames, GotoTypes DEF TypeOK, StoreTypes, WorkerLocals,
     LocalsOf, FinishedStep, SettleStep, StepStatus, Label
<1>2. ASSUME AdvanceReadRequest(w) PROVE TypeOK'
  BY <1>2, BusyJob, TypeFrames, GotoTypes DEF TypeOK, AdvanceReadRequest, Label
<1>3. ASSUME AdvanceReadSteps(w) PROVE TypeOK'
  BY <1>3, BusyJob, TypeFrames DEF TypeOK, WorkerTypes, AdvanceReadSteps, Goto,
     NextMove, Outcome, Unfinished, Label
<1>4. ASSUME FinishRequest(w) PROVE TypeOK'
  BY <1>4, BusyJob, TypeFrames, GotoTypes, TransitionTypes DEF TypeOK, StoreTypes,
     FinishRequest, MoveRequest, CanTransitionRequest, RequestStatus, Label
<1>5. ASSUME FinishThrows(w) PROVE TypeOK'
  BY <1>5, BusyJob, TypeFrames DEF TypeOK, WorkerTypes, FinishThrows, Goto, Label
<1>6. ASSUME ReleaseStep(w) PROVE TypeOK'
  <2>1. R(w) \in Requests /\ nxt[w] \in Ordinals
    BY <1>6, BusyJob DEF ReleaseStep, TypeOK, WorkerLocals, LocalsOf
  <2>2. step' \in [Requests -> [Ordinals -> StepStatus \cup {Absent}]]
    <3>1. [step EXCEPT ![R(w)][nxt[w]] = "ready"]
              \in [Requests -> [Ordinals -> StepStatus \cup {Absent}]]
      BY <2>1, StepMoves DEF TypeOK, StepStatus
    <3> QED BY <1>6, <3>1 DEF ReleaseStep, TypeOK, StoreTypes
  <2>3. StoreTypes'
    BY <1>6, <2>2 DEF ReleaseStep, TypeOK, StoreTypes
  <2> QED BY <1>6, <2>3, GotoTypes, TypeFrames DEF ReleaseStep, TypeOK, Label
<1>7. ASSUME HaltStep(w) PROVE TypeOK'
  <2>1. R(w) \in Requests /\ nxt[w] \in Ordinals
    BY <1>7, BusyJob DEF HaltStep, TypeOK, WorkerLocals, LocalsOf
  <2>2. /\ step' \in [Requests -> [Ordinals -> StepStatus \cup {Absent}]]
        /\ notice' \in [Requests -> [Ordinals -> {"none", "outstanding", "sent", "suppressed"}]]
    <3>1. [step EXCEPT ![R(w)][nxt[w]] = "awaiting_approval"]
              \in [Requests -> [Ordinals -> StepStatus \cup {Absent}]]
      BY <2>1, StepMoves DEF TypeOK, StepStatus
    <3>2. [notice EXCEPT ![R(w)][nxt[w]] = "outstanding"]
              \in [Requests -> [Ordinals -> {"none", "outstanding", "sent", "suppressed"}]]
      BY <2>1, NoticeMoves DEF TypeOK
    <3> QED BY <1>7, <3>1, <3>2 DEF HaltStep, TypeOK, StoreTypes
  <2>3. StoreTypes'
    BY <1>7, <2>2 DEF HaltStep, TypeOK, StoreTypes
  <2> QED BY <1>7, <2>3, GotoTypes, TypeFrames DEF HaltStep, TypeOK, Label
<1>8. ASSUME FollowHalt(w) PROVE TypeOK'
  BY <1>8, BusyJob, TypeFrames, GotoTypes DEF TypeOK, StoreTypes, FollowHalt,
     MoveRequest, RequestStatus, Label
<1>9. ASSUME EnqueueNotification(w) PROVE TypeOK'
  BY <1>9, BusyJob, TypeFrames, GotoTypes, QueueSteps, BuiltTasks DEF TypeOK,
     WorkerLocals, LocalsOf, EnqueueNotification, Label
<1>10. ASSUME EnqueueExpiry(w) PROVE TypeOK'
  BY <1>10, BusyJob, TypeFrames, GotoTypes, QueueSteps, BuiltTasks DEF TypeOK,
     WorkerLocals, LocalsOf, EnqueueExpiry, Label
<1>11. ASSUME EnqueueNext(w) PROVE TypeOK'
  BY <1>11, BusyJob, TypeFrames, GotoTypes, QueueSteps, BuiltTasks DEF TypeOK,
     WorkerLocals, LocalsOf, EnqueueNext, Label
<1>12. ASSUME SettleFailure(w) PROVE TypeOK'
  BY <1>12, BusyJob, TypeFrames, GotoTypes DEF TypeOK, StoreTypes, SettleFailure,
     StepStatus, Label
<1>13. ASSUME FailRequest(w) PROVE TypeOK'
  BY <1>13, BusyJob, TypeFrames, GotoTypes DEF TypeOK, StoreTypes, FailRequest,
     MoveRequest, RequestStatus, Label
<1>14. ASSUME Answer200(w) PROVE TypeOK'
  BY <1>14, BusyJob, TypeFrames, QueueSteps, FinishedTypes DEF TypeOK, Answer200
<1>15. ASSUME Answer500(w) PROVE TypeOK'
  BY <1>15, BusyJob, TypeFrames, QueueSteps, FinishedTypes DEF TypeOK, Answer500
<1> QED BY <1>1, <1>2, <1>3, <1>4, <1>5, <1>6, <1>7, <1>8, <1>9, <1>10, <1>11, <1>12,
   <1>13, <1>14, <1>15 DEF Advance

\* Failures.
LEMMA FailureTypes ==
    ASSUME TypeOK, WorkerLocals, Failures
    PROVE  TypeOK'
<1>1. ASSUME NEW w \in Workers, Crash(w) PROVE TypeOK'
  BY <1>1, BusyJob, TypeFrames, QueueSteps, FinishedTypes, FaultStep DEF TypeOK, Crash
<1>2. ASSUME NEW w \in Workers, CallThrows(w) PROVE TypeOK'
  BY <1>2, BusyJob, TypeFrames, FaultStep DEF TypeOK, WorkerTypes, CallThrows, Goto,
     Label
<1>3. ASSUME NEW r \in Requests, NEW i \in Ordinals, NotifyFails(r, i) PROVE TypeOK'
  BY <1>3, TypeFrames, QueueSteps, BuiltTasks, FaultStep DEF TypeOK, NotifyFails,
     NotifyUndelivered
<1>4. ASSUME NEW t \in owed, LoseOwed(t) PROVE TypeOK'
  BY <1>4, TypeFrames, FaultStep DEF TypeOK, ApiTypes, LoseOwed
<1>5. ASSUME NEW c \in calls, LoseCall(c) PROVE TypeOK'
  BY <1>5, TypeFrames, FaultStep DEF TypeOK, ApiTypes, LoseCall
<1> QED BY <1>1, <1>2, <1>3, <1>4, <1>5 DEF Failures

\* Every step, and a stuttering one, keeps the types.
LEMMA TypeStep ==
    ASSUME TypeOK, WorkerLocals, [Next]_vars
    PROVE  TypeOK'
<1>1. CASE UNCHANGED vars
  BY <1>1, TypeFrames DEF TypeOK, vars
<1>2. CASE Next
  BY <1>2, OperatorTypes, ApiStepTypes, DeliverTypes, HandlerTypes, AdvanceTypes, FailureTypes
     DEF Next
<1> QED BY <1>1, <1>2

-----------------------------------------------------------------------------
(* Approval: what a step of the system does to one step document *)

\* A document stays, with its snapshot; it exists only in a request that does;
\* and its gate holds.
Preserved(r, i) ==
    /\ request[r] # Absent => request'[r] # Absent /\ snapshot'[r] = snapshot[r]
    /\ DocumentExists(r, i)'
    /\ GateHolds(r, i)'

\* What leaves the documents alone.
LEMMA UntouchedPreserves ==
    ASSUME IInv, NEW q \in Requests, NEW i \in Ordinals,
           UNCHANGED <<request, step, approval, snapshot>>
    PROVE  Preserved(q, i)
BY DEF IInv, Preserved, DocumentExists, GateHolds, NeedsApproval, Approved, Compensating

\* A new request: nothing of it is dispatched.
LEMMA CreatePreserves ==
    ASSUME IInv, NEW q \in Requests, NEW i \in Ordinals,
           NEW r \in Requests, NEW loaded \in Policies, CreateRequest(r, loaded)
    PROVE  Preserved(q, i)
<1>1. CASE q # r
  <2>1. /\ request'[q] = request[q] /\ snapshot'[q] = snapshot[q]
        /\ step'[q] = step[q] /\ approval' = approval
    BY <1>1 DEF CreateRequest, IInv, TypeOK, StoreTypes
  <2> QED BY <2>1 DEF IInv, Preserved, DocumentExists, GateHolds, NeedsApproval, Approved,
             Compensating
<1>2. CASE q = r
  <2>1. request[q] = Absent /\ request'[q] = "draft"
    BY <1>2 DEF CreateRequest, IInv, TypeOK, StoreTypes
  <2>2. \A k \in Ordinals : step'[q][k] = IF k \in 1..Len(Plan[q]) THEN "pending" ELSE Absent
    BY <1>2 DEF CreateRequest, IInv, TypeOK, StoreTypes
  <2> QED BY <2>1, <2>2, CompOrdinalType DEF Preserved, DocumentExists, GateHolds, Absent
<1> QED BY <1>1, <1>2

\* The first step is released only when the snapshot does not gate it.
LEMMA StartPreserves ==
    ASSUME IInv, NEW q \in Requests, NEW i \in Ordinals,
           NEW r \in Requests, StartFirstStep(r)
    PROVE  Preserved(q, i)
<1>1. request[r] # Absent
  BY DEF StartFirstStep, IInv, CallsExist
<1>2. /\ snapshot' = snapshot /\ approval' = approval
      /\ request'[q] = request[q] \/ request[q] \notin {"rejected", "cancelled"}
      /\ request[q] # Absent => request'[q] # Absent
      /\ request[q] = Absent => request'[q] = Absent
  BY <1>1 DEF StartFirstStep, IInv, TypeOK, StoreTypes, CanTransitionRequest,
         RequestTransitions, RequestStatus, Absent
<1>3. CASE q = r /\ i = 1
  <2>1. ~(i > CompOrdinal(q)) /\ i \in 1..Len(Plan[q])
    BY <1>3, CompOrdinalType
  <2>2. \/ step'[q][i] = "awaiting_approval"
        \/ step'[q][i] = "ready" /\ ~Gated(q, i)
    BY <1>3 DEF StartFirstStep, IInv, TypeOK, StoreTypes
  <2>3. Gated(q, i) \/ ~NeedsApproval(q, i)
    BY <2>1, NeededIsGated DEF IInv, TypeOK, StoreTypes
  <2> QED BY <1>1, <1>2, <1>3, <2>1, <2>2, <2>3 
       DEF Preserved, DocumentExists, GateHolds, NeedsApproval
<1>4. CASE ~(q = r /\ i = 1)
  <2>1. step'[q][i] = step[q][i] /\ step'[q][CompOrdinal(q)] = step[q][CompOrdinal(q)]
    BY <1>4, CompOrdinalType DEF StartFirstStep, IInv, TypeOK, StoreTypes
  <2> QED BY <1>2, <2>1 DEF IInv, Preserved, DocumentExists, GateHolds, NeedsApproval, Approved,
             Compensating
<1> QED BY <1>3, <1>4

\* A cancellation dispatches nothing.
LEMMA CancelPreserves ==
    ASSUME IInv, NEW q \in Requests, NEW i \in Ordinals,
           NEW r \in Requests, request[r] # Absent, CancelRequest(r)
    PROVE  Preserved(q, i)
<1>1. CASE q # r \/ Terminal(r)
  <2>1. /\ request'[q] = request[q] /\ snapshot'[q] = snapshot[q]
        /\ step'[q] = step[q] /\ approval' = approval
    BY <1>1 DEF CancelRequest, IInv, TypeOK, StoreTypes, storeVars
  <2> QED BY <2>1 DEF IInv, Preserved, DocumentExists, GateHolds, NeedsApproval, Approved,
             Compensating
<1>2. CASE q = r /\ ~Terminal(r)
  <2>1. request'[q] = "cancelled" /\ snapshot' = snapshot /\ approval' = approval
    BY <1>2 DEF CancelRequest, IInv, TypeOK, StoreTypes
  <2>2. \A k \in Ordinals : step'[q][k] = Stopped(step[q][k])
    BY <1>2 DEF CancelRequest, IInv, TypeOK, StoreTypes
  <2>3. \A s : /\ Stopped(s) = Absent <=> s = Absent
               /\ Stopped(s) \in {"ready", "running", "succeeded"} => Stopped(s) = s
    BY DEF Stopped, Absent
  <2>4. /\ step'[q][CompOrdinal(q)] = Absent <=> step[q][CompOrdinal(q)] = Absent
        /\ step'[q][i] = Absent <=> step[q][i] = Absent
        /\ step'[q][i] \in {"ready", "running", "succeeded"} => step'[q][i] = step[q][i]
    BY <2>2, <2>3, CompOrdinalType
  <2>5. DocumentExists(q, i) /\ GateHolds(q, i)
    BY DEF IInv
  <2> QED BY <1>2, <2>1, <2>4, <2>5
          DEF Preserved, DocumentExists, GateHolds, NeedsApproval, Approved, Compensating, Absent
<1> QED BY <1>1, <1>2

\* A compensating step lifts the gate of its request: the exception in GateHolds.
LEMMA CompensatePreserves ==
    ASSUME IInv, NEW q \in Requests, NEW i \in Ordinals,
           NEW r \in Requests, AppendCompensatingStep(r)
    PROVE  Preserved(q, i)
<1>1. request[r] # Absent
  BY DEF AppendCompensatingStep, IInv, CallsExist
<1>2. CASE q # r \/ UNCHANGED storeVars
  <2>1. /\ request'[q] = request[q] /\ snapshot'[q] = snapshot[q]
        /\ step'[q] = step[q] /\ approval' = approval
    BY <1>2 DEF AppendCompensatingStep, IInv, TypeOK, StoreTypes, storeVars
  <2> QED BY <2>1 DEF IInv, Preserved, DocumentExists, GateHolds, NeedsApproval, Approved,
             Compensating
<1>3. CASE q = r /\ ~UNCHANGED storeVars
  <2>1. request'[q] = "running" /\ snapshot' = snapshot
    BY <1>3 DEF AppendCompensatingStep, IInv, TypeOK, StoreTypes, storeVars
  <2>2. \A k \in Ordinals :
           step'[q][k] = IF k = CompOrdinal(q) THEN "ready" ELSE Stopped(step[q][k])
    BY <1>3 DEF AppendCompensatingStep, IInv, TypeOK, StoreTypes, storeVars
  <2>3. step'[q][CompOrdinal(q)] = "ready"
    BY <2>2, CompOrdinalType
  <2>4. i > CompOrdinal(q) => i # CompOrdinal(q)
    BY CompOrdinalType
  <2>5. i > CompOrdinal(q) => step'[q][i] = Absent
    BY <2>2, <2>4 DEF Stopped, Absent, IInv, DocumentExists
  <2> QED BY <1>1, <1>3, <2>1, <2>3, <2>5 DEF Preserved, DocumentExists, GateHolds, Compensating, Absent
<1> QED BY <1>2, <1>3

\* A decision approves by another person, or fails the step and rejects the request.
LEMMA DecidePreserves ==
    ASSUME IInv, NEW q \in Requests, NEW i \in Ordinals,
           NEW r \in Requests, NEW j \in Ordinals, NEW h \in Humans,
           NEW d \in {"approved", "rejected"}, DecideStep(r, j, h, d)
    PROVE  Preserved(q, i)
<1>1. request[r] # Absent /\ ~(j > CompOrdinal(r))
  BY DEF DecideStep, IInv, DocumentExists, Absent
<1>2. /\ snapshot' = snapshot
      /\ request'[q] = request[q] \/ request[q] \notin {"rejected", "cancelled"}
      /\ request[q] # Absent => request'[q] # Absent
      /\ request[q] = Absent => request'[q] = Absent
  BY <1>1 DEF DecideStep, IInv, TypeOK, StoreTypes, CanTransitionRequest,
         RequestTransitions, RequestStatus, Absent
<1>3. CASE q = r /\ i = j
  <2>1. \/ /\ d = "approved"
           /\ approval'[q][i] = [by |-> h, decision |-> "approved"] /\ h # Requester[q]
        \/ /\ step'[q][i] = "failed" /\ request'[q] = "rejected"
    BY <1>3 DEF DecideStep, MayDecide, IInv, TypeOK, StoreTypes
  <2> QED BY <1>1, <1>2, <1>3, <2>1
       DEF Preserved, DocumentExists, GateHolds, Approved
<1>4. CASE ~(q = r /\ i = j)
  <2>1. step'[q][i] = step[q][i] /\ approval'[q][i] = approval[q][i]
    BY <1>4 DEF DecideStep, IInv, TypeOK, StoreTypes
  <2>2. Compensating(q) => Compensating(q)'
    BY CompOrdinalType DEF Compensating, DecideStep, IInv, TypeOK, StoreTypes, Absent
  <2> QED BY <1>2, <2>1, <2>2 DEF IInv, Preserved, DocumentExists, GateHolds, NeedsApproval, Approved
<1> QED BY <1>3, <1>4

\* advance releases only a step the snapshot does not gate.
LEMMA ReleasePreserves ==
    ASSUME IInv, NEW q \in Requests, NEW i \in Ordinals,
           NEW w \in Workers, ReleaseStep(w)
    PROVE  Preserved(q, i)
<1> DEFINE r == R(w)
           j == nxt[w]
<1>1. r \in Requests /\ j \in Ordinals /\ ~Gated(r, j)
  BY BusyJob DEF ReleaseStep, IInv, TypeOK, WorkerLocals, LocalsOf
<1>2. request' = request /\ snapshot' = snapshot /\ approval' = approval
  BY DEF ReleaseStep
<1>3. CASE q = r /\ i = j /\ step[q][i] = "pending"
  <2>1. step'[q][i] = "ready"
    BY <1>3 DEF ReleaseStep, IInv, TypeOK, StoreTypes
  <2>2. ~(i > CompOrdinal(q)) /\ request[q] # Absent
    BY <1>3 DEF IInv, DocumentExists, Absent
  <2>3. CASE i = CompOrdinal(q)
    BY <1>2, <2>1, <2>2, <2>3 DEF Preserved, DocumentExists, GateHolds, Compensating, Absent
  <2>4. CASE i \in 1..Len(Plan[q])
    <3>1. ~NeedsApproval(q, i)
      BY <1>1, <1>3, <2>4, NeededIsGated DEF IInv, TypeOK, StoreTypes
    <3> QED BY <1>2, <2>1, <2>2, <3>1 DEF Preserved, DocumentExists, GateHolds, NeedsApproval
  <2> QED BY <2>2, <2>3, <2>4, CompOrdinalType
<1>4. CASE ~(q = r /\ i = j /\ step[q][i] = "pending")
  <2>1. step'[q][i] = step[q][i]
    BY <1>1, <1>4 DEF ReleaseStep, IInv, TypeOK, StoreTypes
  <2>2. \A k \in Ordinals : step'[q][k] = step[q][k] \/ step'[q][k] = "ready"
    BY <1>1 DEF ReleaseStep, IInv, TypeOK, StoreTypes
  <2>3. Compensating(q) => Compensating(q)'
    BY <2>2, CompOrdinalType DEF Compensating, Absent
  <2> QED BY <1>2, <2>1, <2>3
          DEF IInv, Preserved, DocumentExists, GateHolds, NeedsApproval, Approved
<1> QED BY <1>3, <1>4

\* A halt dispatches nothing.
LEMMA HaltPreserves ==
    ASSUME IInv, NEW q \in Requests, NEW i \in Ordinals,
           NEW w \in Workers, HaltStep(w)
    PROVE  Preserved(q, i)
<1> DEFINE r == R(w)
           j == nxt[w]
<1>1. r \in Requests /\ j \in Ordinals
  BY BusyJob DEF HaltStep, IInv, TypeOK, WorkerLocals, LocalsOf
<1>2. request' = request /\ snapshot' = snapshot /\ approval' = approval
  BY DEF HaltStep
<1>3. CASE q = r /\ i = j /\ step[q][i] = "pending"
  <2>1. step'[q][i] = "awaiting_approval"
    BY <1>3 DEF HaltStep, IInv, TypeOK, StoreTypes
  <2>2. ~(i > CompOrdinal(q)) /\ request[q] # Absent
    BY <1>3 DEF IInv, DocumentExists, Absent
  <2> QED BY <1>2, <2>1, <2>2 DEF Preserved, DocumentExists, GateHolds
<1>4. CASE ~(q = r /\ i = j /\ step[q][i] = "pending")
  <2>1. step'[q][i] = step[q][i]
    BY <1>1, <1>4 DEF HaltStep, IInv, TypeOK, StoreTypes
  <2>2. \A k \in Ordinals : step'[q][k] = step[q][k] \/ step'[q][k] = "awaiting_approval"
    <3>1. step' = step \/ step' = [step EXCEPT ![r][j] = "awaiting_approval"]
      BY DEF HaltStep
    <3> HIDE DEF r, j
    <3> QED BY <1>1, <3>1 DEF IInv, TypeOK, StoreTypes
  <2>3. Compensating(q) => Compensating(q)'
    BY <2>2, CompOrdinalType DEF Compensating, Absent
  <2> QED BY <1>2, <2>1, <2>3
          DEF IInv, Preserved, DocumentExists, GateHolds, NeedsApproval, Approved
<1> QED BY <1>3, <1>4

\* A resume dispatches a step that was dispatched before.
LEMMA ResumePreserves ==
    ASSUME IInv, NEW q \in Requests, NEW i \in Ordinals,
           NEW r \in Requests, NEW j \in Ordinals, ResumeRequest(r, j)
    PROVE  Preserved(q, i)
<1>1. request[q] # Absent => request'[q] # Absent /\ snapshot'[q] = snapshot[q]
  BY CompOrdinalType
  DEF IInv, TypeOK, StoreTypes, Absent,
       ResumeRequest
<1>2. DocumentExists(q, i)'
  BY CompOrdinalType
  DEF IInv, TypeOK, StoreTypes, DocumentExists, Absent,
       ResumeRequest
<1>3. GateHolds(q, i)'
  BY CompOrdinalType
  DEF IInv, TypeOK, StoreTypes, GateHolds, NeedsApproval, Approved, Compensating, Absent,
       ResumeRequest
<1> QED BY <1>1, <1>2, <1>3 DEF Preserved

\* An expiry fails the step and rejects the request.
LEMMA ExpirePreserves ==
    ASSUME IInv, NEW q \in Requests, NEW i \in Ordinals,
           NEW r \in Requests, NEW j \in Ordinals, ExpireApproval(r, j)
    PROVE  Preserved(q, i)
<1>1. request[q] # Absent => request'[q] # Absent /\ snapshot'[q] = snapshot[q]
  BY CompOrdinalType
  DEF IInv, TypeOK, StoreTypes, Absent,
       ExpireApproval, Terminal, TerminalRequestStatus, storeVars
<1>2. DocumentExists(q, i)'
  BY CompOrdinalType
  DEF IInv, TypeOK, StoreTypes, DocumentExists, Absent,
       ExpireApproval, Terminal, TerminalRequestStatus, storeVars
<1>3. GateHolds(q, i)'
  BY CompOrdinalType
  DEF IInv, TypeOK, StoreTypes, GateHolds, NeedsApproval, Approved, Compensating, Absent,
       ExpireApproval, Terminal, TerminalRequestStatus, storeVars
<1> QED BY <1>1, <1>2, <1>3 DEF Preserved

\* A step is claimed only when it was dispatched.
LEMMA ClaimPreserves ==
    ASSUME IInv, NEW q \in Requests, NEW i \in Ordinals,
           NEW t \in queue, NEW w \in Workers, ClaimStep(w, t)
    PROVE  Preserved(q, i)
<1>1. request[q] # Absent => request'[q] # Absent /\ snapshot'[q] = snapshot[q]
  BY CompOrdinalType, DeliveredTask
  DEF IInv, TypeOK, StoreTypes, Absent,
       ClaimStep, Claimable, Deliverable
<1>2. DocumentExists(q, i)'
  BY CompOrdinalType, DeliveredTask
  DEF IInv, TypeOK, StoreTypes, DocumentExists, Absent,
       ClaimStep, Claimable, Deliverable
<1>3. GateHolds(q, i)'
  BY CompOrdinalType, DeliveredTask
  DEF IInv, TypeOK, StoreTypes, GateHolds, NeedsApproval, Approved, Compensating, Absent,
       ClaimStep, Claimable, Deliverable
<1> QED BY <1>1, <1>2, <1>3 DEF Preserved

\* A running step was dispatched.
LEMMA SettlePreserves ==
    ASSUME IInv, NEW q \in Requests, NEW i \in Ordinals,
           NEW w \in Workers, SettleStep(w)
    PROVE  Preserved(q, i)
<1>1. /\ R(w) \in Requests /\ I(w) \in Ordinals
      /\ out[w] \in {"succeeded", "skipped"}
  BY BusyJob DEF SettleStep, FinishedStep, IInv, TypeOK, WorkerLocals, LocalsOf
<1>2. request' = request /\ snapshot' = snapshot /\ approval' = approval
  BY DEF SettleStep
<1>3. \/ step'[q][i] = step[q][i]
      \/ step[q][i] = "running" /\ step'[q][i] \in {"succeeded", "skipped"}
  BY <1>1 DEF SettleStep, IInv, TypeOK, StoreTypes
<1>4. \A k \in Ordinals :
         step'[q][k] = step[q][k] \/ step'[q][k] \in {"succeeded", "skipped"}
  BY <1>1 DEF SettleStep, IInv, TypeOK, StoreTypes
<1>5. Compensating(q) => Compensating(q)'
  BY <1>4, CompOrdinalType DEF Compensating, Absent
<1> QED BY <1>2, <1>3, <1>5
        DEF IInv, Preserved, DocumentExists, GateHolds, NeedsApproval, Approved, Absent

\* A step that fails, or goes back to the queue, was running.
LEMMA FailurePreserves ==
    ASSUME IInv, NEW q \in Requests, NEW i \in Ordinals,
           NEW w \in Workers, SettleFailure(w)
    PROVE  Preserved(q, i)
<1>1. request[q] # Absent => request'[q] # Absent /\ snapshot'[q] = snapshot[q]
  BY CompOrdinalType, BusyJob
  DEF IInv, TypeOK, StoreTypes, Absent,
       SettleFailure
<1>2. DocumentExists(q, i)'
  BY CompOrdinalType, BusyJob
  DEF IInv, TypeOK, StoreTypes, DocumentExists, Absent,
       SettleFailure
<1>3. GateHolds(q, i)'
  BY CompOrdinalType, BusyJob
  DEF IInv, TypeOK, StoreTypes, GateHolds, NeedsApproval, Approved, Compensating, Absent,
       SettleFailure
<1> QED BY <1>1, <1>2, <1>3 DEF Preserved

\* The request's status moves, never out of a rejection or a cancellation.
LEMMA MoveRequestPreserves ==
    ASSUME IInv, NEW q \in Requests, NEW i \in Ordinals,
           NEW r \in Requests, NEW expected, NEW to \in RequestStatus,
           expected \cap {"rejected", "cancelled", Absent} = {},
           request' = request \/ MoveRequest(r, expected, to),
           UNCHANGED <<step, approval, snapshot>>
    PROVE  Preserved(q, i)
<1>1. /\ request'[q] = request[q] \/ request[q] \notin {"rejected", "cancelled"}
      /\ request'[q] = Absent <=> request[q] = Absent
  BY DEF IInv, TypeOK, StoreTypes, MoveRequest, RequestStatus, Absent
<1> QED BY <1>1 DEF IInv, Preserved, DocumentExists, GateHolds, NeedsApproval, Approved,
                    Compensating

LEMMA FinishPreserves ==
    ASSUME IInv, NEW q \in Requests, NEW i \in Ordinals,
           NEW w \in Workers, FinishRequest(w)
    PROVE  Preserved(q, i)
<1> DEFINE expected == {"running", "awaiting_approval", "held"}
<1>1. R(w) \in Requests
  BY BusyJob DEF FinishRequest, IInv, TypeOK
<1>2. CASE request[R(w)] \in expected
  <2>1. out[w] \in RequestStatus
    BY <1>2, TransitionTypes DEF FinishRequest, CanTransitionRequest, RequestStatus
  <2> QED BY <1>1, <2>1, MoveRequestPreserves DEF FinishRequest, Absent
<1>3. CASE request[R(w)] \notin expected
  BY <1>3, UntouchedPreserves DEF FinishRequest, MoveRequest
<1> QED BY <1>2, <1>3

LEMMA FollowPreserves ==
    ASSUME IInv, NEW q \in Requests, NEW i \in Ordinals,
           NEW w \in Workers, FollowHalt(w)
    PROVE  Preserved(q, i)
<1>1. R(w) \in Requests
  BY BusyJob DEF FollowHalt, IInv, TypeOK
<1> QED BY <1>1, MoveRequestPreserves DEF FollowHalt, RequestStatus, Absent

LEMMA FailPreserves ==
    ASSUME IInv, NEW q \in Requests, NEW i \in Ordinals,
           NEW w \in Workers, FailRequest(w)
    PROVE  Preserved(q, i)
<1>1. R(w) \in Requests
  BY BusyJob DEF FailRequest, IInv, TypeOK
<1> QED BY <1>1, MoveRequestPreserves DEF FailRequest, RequestStatus, Absent

LEMMA DocumentsStep ==
    ASSUME IInv, [Next]_vars, NEW q \in Requests, NEW i \in Ordinals
    PROVE  Preserved(q, i)
<1> DEFINE Untouched == UNCHANGED <<request, step, approval, snapshot>>
<1>1. CASE UNCHANGED vars
  BY <1>1, UntouchedPreserves DEF vars, storeVars
<1>2. CASE Operator
  <2>1. ASSUME NEW r \in Requests, AdminCancel(r) PROVE Preserved(q, i)
    <3>1. request[r] # Absent
      BY <2>1 DEF AdminCancel, NonTerminalRequestStatus, RequestStatus, Absent
    <3> QED BY <2>1, <3>1, CancelPreserves DEF AdminCancel
  <2>2. ASSUME NEW r \in Requests, ReadForCancel(r) PROVE Preserved(q, i)
    BY <2>2, UntouchedPreserves DEF ReadForCancel, storeVars
  <2>3. ASSUME NEW p \in Policies, SetApprovalPolicy(p) PROVE Preserved(q, i)
    BY <2>3, UntouchedPreserves DEF SetApprovalPolicy
  <2> QED BY <1>2, <2>1, <2>2, <2>3, CreatePreserves, ResumePreserves, DecidePreserves
          DEF Operator
<1>3. CASE Api
  <2>1. ASSUME NEW r \in Requests, RequesterCancel(r) PROVE Preserved(q, i)
    <3>1. request[r] # Absent
      BY <2>1 DEF RequesterCancel, IInv, CallsExist
    <3> QED BY <2>1, <3>1, CancelPreserves DEF RequesterCancel
  <2>2. ASSUME NEW r \in Requests, StartRefused(r) PROVE Preserved(q, i)
    BY <2>2, UntouchedPreserves DEF StartRefused, storeVars
  <2>3. ASSUME NEW t \in owed, EnqueueOwed(t) PROVE Preserved(q, i)
    BY <2>3, UntouchedPreserves DEF EnqueueOwed, storeVars
  <2> QED BY <1>3, <2>1, <2>2, <2>3, StartPreserves, CompensatePreserves
          DEF Api, ServeStart, ServeCancel
<1>4. ASSUME NEW t \in queue, Deliver(t) PROVE Preserved(q, i)
  <2>1. t \in Task /\ t.req \in Requests /\ t.ord \in Ordinals
    BY DeliveredTask DEF IInv, TypeOK
  <2>2. CASE NotClaimable(t)
    BY <2>2, UntouchedPreserves DEF NotClaimable, storeVars
  <2>3. CASE ExpiryRefused(t.req, t.ord)
    BY <2>3, UntouchedPreserves DEF ExpiryRefused, storeVars
  <2>4. CASE NotifyApprovers(t.req, t.ord)
    BY <2>4, UntouchedPreserves DEF NotifyApprovers
  <2>5. CASE NotifyRefused(t.req, t.ord)
    BY <2>5, UntouchedPreserves DEF NotifyRefused, NotifyUndelivered, storeVars
  <2> QED BY <1>4, <2>1, <2>2, <2>3, <2>4, <2>5, ClaimPreserves, ExpirePreserves DEF Deliver
<1>5. ASSUME NEW w \in Workers, Handler(w) PROVE Preserved(q, i)
  <2>1. Untouched
    BY <1>5 DEF Handler, ReadAccount, SuspendUser, UnsuspendUser, DeleteUser, CreateUser,
                OtherHandler, HandlerError, Yields, storeVars
  <2> QED BY <2>1, UntouchedPreserves
<1>6. ASSUME NEW w \in Workers, Advance(w) PROVE Preserved(q, i)
  <2>1. CASE \/ AdvanceReadRequest(w) \/ AdvanceReadSteps(w) \/ FinishThrows(w)
             \/ EnqueueNotification(w) \/ EnqueueExpiry(w) \/ EnqueueNext(w)
             \/ Answer200(w) \/ Answer500(w)
    BY <2>1, UntouchedPreserves
       DEF AdvanceReadRequest, AdvanceReadSteps, FinishThrows, EnqueueNotification,
           EnqueueExpiry, EnqueueNext, Answer200, Answer500, storeVars
  <2> QED BY <1>6, <2>1, SettlePreserves, FinishPreserves, ReleasePreserves, HaltPreserves,
             FollowPreserves, FailurePreserves, FailPreserves DEF Advance
<1>7. CASE Failures
  <2>1. Untouched
    BY <1>7 DEF Failures, Crash, CallThrows, NotifyFails, NotifyUndelivered, LoseOwed,
                LoseCall, storeVars
  <2> QED BY <2>1, UntouchedPreserves
<1> QED BY <1>1, <1>2, <1>3, <1>4, <1>5, <1>6, <1>7 DEF Next

-----------------------------------------------------------------------------
(* What the API handlers and the workers remember *)

\* A handler's next transaction is of a request that exists, and stays.
LEMMA CallsStep ==
    ASSUME IInv, [Next]_vars
    PROVE  CallsExist'
<1>1. \A r \in Requests : request[r] # Absent => request'[r] # Absent
  BY DocumentsStep, CompOrdinalType DEF Preserved
<1>2. \A c \in calls : c.req \in Requests /\ request[c.req] # Absent
  BY DEF IInv, TypeOK, ApiTypes, CallsExist
<1>3. CASE calls' \subseteq calls
  BY <1>1, <1>2, <1>3 DEF CallsExist
<1>4. ASSUME NEW r \in Requests, NEW loaded \in Policies, CreateRequest(r, loaded)
      PROVE  CallsExist'
  BY <1>1, <1>2, <1>4 DEF CallsExist, CreateRequest, IInv, TypeOK, StoreTypes, Absent
<1>5. ASSUME NEW r \in Requests, ReadForCancel(r)
      PROVE  CallsExist'
  BY <1>1, <1>2, <1>5 DEF CallsExist, ReadForCancel, storeVars
<1>6. \/ calls' \subseteq calls
      \/ \E r \in Requests : ReadForCancel(r) \/ \E loaded \in Policies : CreateRequest(r, loaded)
  <2>1. CASE UNCHANGED vars
    BY <2>1 DEF vars, apiVars
  <2>2. CASE Operator
    BY <2>2 DEF Operator, SetApprovalPolicy, AdminCancel, ResumeRequest, DecideStep, apiVars
  <2>3. CASE Api
    BY <2>3 DEF Api, ServeStart, ServeCancel, StartFirstStep, StartRefused, RequesterCancel,
                AppendCompensatingStep, EnqueueOwed
  <2>4. ASSUME NEW t \in queue, Deliver(t) PROVE calls' = calls
    BY <2>4 DEF Deliver, NotClaimable, ClaimStep, ExpireApproval, ExpiryRefused,
                NotifyApprovers, NotifyRefused, NotifyUndelivered, apiVars
  <2>5. ASSUME NEW w \in Workers, Handler(w) PROVE calls' = calls
    BY <2>5 DEF Handler, ReadAccount, SuspendUser, UnsuspendUser, DeleteUser, CreateUser,
                OtherHandler, HandlerError, Yields, apiVars
  <2>6. ASSUME NEW w \in Workers, Advance(w) PROVE calls' = calls
    BY <2>6 DEF Advance, SettleStep, AdvanceReadRequest, AdvanceReadSteps, FinishRequest,
                FinishThrows, ReleaseStep, HaltStep, FollowHalt, EnqueueNotification,
                EnqueueExpiry, EnqueueNext, SettleFailure, FailRequest, Answer200,
                Answer500, apiVars
  <2>7. CASE Failures
    BY <2>7 DEF Failures, Crash, CallThrows, NotifyFails, NotifyUndelivered, LoseOwed,
                LoseCall, apiVars
  <2> QED BY <2>1, <2>2, <2>3, <2>4, <2>5, <2>6, <2>7 DEF Next
<1> QED BY <1>3, <1>4, <1>5, <1>6

\* A worker nobody moves remembers what it did.
LEMMA LocalsKept ==
    ASSUME IInv, NEW w \in Workers,
           \A r \in Requests :
              request[r] # Absent => request'[r] # Absent /\ snapshot'[r] = snapshot[r],
           pc'[w] = pc[w], job'[w] = job[w], out'[w] = out[w], nxt'[w] = nxt[w]
    PROVE  LocalsOf(w)'
<1>1. LocalsOf(w)
  BY DEF IInv, WorkerLocals
<1>2. CASE pc[w] = "idle"
  BY <1>2 DEF LocalsOf
<1>3. CASE pc[w] # "idle"
  <2>1. R(w)' = R(w) /\ I(w)' = I(w) /\ R(w) \in Requests
    BY <1>3, BusyJob DEF R, I, IInv, TypeOK
  <2>2. request'[R(w)] # Absent /\ snapshot'[R(w)] = snapshot[R(w)]
    BY <1>1, <1>3, <2>1 DEF LocalsOf
  <2> QED BY <1>1, <2>1, <2>2 DEF LocalsOf, Gated, PolicyOf
<1> QED BY <1>2, <1>3

\* What a worker's own step leaves it with.  The handlers:
LEMMA HandlerLocals ==
    ASSUME IInv, NEW w \in Workers, Handler(w)
    PROVE  LocalsOf(w)'
<1>1. pc[w] # "idle" /\ request' = request /\ job' = job
  BY DEF Handler, ReadAccount, SuspendUser, UnsuspendUser, DeleteUser, CreateUser,
         OtherHandler, HandlerError, Handles, Yields, storeVars
<1>2. request'[R(w)'] # Absent
  BY <1>1 DEF R, IInv, WorkerLocals, LocalsOf
<1>3. \/ pc'[w] \in {"mutate", "failing"}
      \/ pc'[w] = "settle" /\ out'[w] \in FinishedStep
  <2>1. ASSUME NEW result, Yields(w, result)
        PROVE  pc'[w] = "failing" \/ (pc'[w] = "settle" /\ out'[w] \in FinishedStep)
    BY <2>1 DEF Yields, Goto, FinishedStep, IInv, TypeOK, WorkerTypes
  <2>2. CASE ReadAccount(w)
    BY <2>2 DEF ReadAccount, Goto, IInv, TypeOK, WorkerTypes
  <2>3. (\E result : Yields(w, result)) \/ ReadAccount(w)
    BY DEF Handler, SuspendUser, UnsuspendUser, DeleteUser, CreateUser,
           OtherHandler, HandlerError
  <2> QED BY <2>1, <2>2, <2>3
<1> QED BY <1>2, <1>3 DEF LocalsOf

\* The executor and advance.  Only AdvanceReadSteps chooses a step, one it read,
\* and sends it to "release" only when the snapshot does not gate it.
LEMMA AdvanceLocals ==
    ASSUME IInv, NEW w \in Workers, Advance(w),
           \A r \in Requests :
              request[r] # Absent => request'[r] # Absent /\ snapshot'[r] = snapshot[r]
    PROVE  LocalsOf(w)'
<1>1. pc[w] # "idle" /\ LocalsOf(w) /\ R(w) \in Requests /\ request'[R(w)] # Absent
  <2>1. pc[w] # "idle"
    BY DEF Advance, SettleStep, AdvanceReadRequest, AdvanceReadSteps, FinishRequest,
           FinishThrows, ReleaseStep, HaltStep, FollowHalt, EnqueueNotification,
           EnqueueExpiry, EnqueueNext, SettleFailure, FailRequest, Answer200, Answer500
  <2> QED BY <2>1, BusyJob DEF IInv, TypeOK, WorkerLocals, LocalsOf
<1> DEFINE Settled == \/ pc'[w] = "idle"
                      \/ /\ pc'[w] \in {"advance", "plan", "finish", "failing", "failRequest",
                                        "ack", "nack"}
                         /\ job' = job
<1>2. CASE Settled
  BY <1>1, <1>2 DEF LocalsOf, R
<1>3. CASE AdvanceReadSteps(w)
  <2>1. job' = job /\ snapshot' = snapshot /\ request' = request
    BY <1>3 DEF AdvanceReadSteps, storeVars
  <2>2. CASE pc'[w] = "finish"
    BY <1>2, <2>1, <2>2
  <2>3. ASSUME NEW j \in Ordinals, nxt' = [nxt EXCEPT ![w] = j], Goto(w, NextMove(R(w), j))
        PROVE  LocalsOf(w)'
    <3>1. nxt'[w] = j /\ pc'[w] = NextMove(R(w), j)
      BY <2>3 DEF Goto, IInv, TypeOK, WorkerTypes
    <3>2. \/ pc'[w] \in {"follow", "halt", "ack"}
          \/ pc'[w] = "release" /\ ~Gated(R(w), j)
      BY <3>1 DEF NextMove
    <3>3. Gated(R(w), j)' <=> Gated(R(w), j)
      BY <2>1 DEF Gated, PolicyOf, R
    <3> QED BY <1>1, <2>1, <2>3, <3>1, <3>2, <3>3 DEF LocalsOf, R, Gated, PolicyOf
  <2>4. \/ pc'[w] = "finish"
        \/ \E j \in Ordinals : nxt' = [nxt EXCEPT ![w] = j] /\ Goto(w, NextMove(R(w), j))
    BY <1>3 DEF AdvanceReadSteps, Goto, Unfinished, IInv, TypeOK, WorkerTypes
  <2> QED BY <2>2, <2>3, <2>4
<1>4. CASE /\ pc[w] \in {"release", "halt", "follow", "notify"}
           /\ pc'[w] \in {"enqueue", "follow", "notify", "expiry"}
           /\ job' = job /\ nxt' = nxt
  BY <1>1, <1>4 DEF LocalsOf, R
<1>5. CASE ReleaseStep(w) \/ HaltStep(w) \/ FollowHalt(w) \/ EnqueueNotification(w)
  BY <1>2, <1>4, <1>5
     DEF ReleaseStep, HaltStep, FollowHalt, EnqueueNotification, Goto, IInv, TypeOK, WorkerTypes
<1>6. CASE \/ SettleStep(w) \/ AdvanceReadRequest(w) \/ FinishRequest(w) \/ FinishThrows(w)
           \/ EnqueueExpiry(w) \/ EnqueueNext(w) \/ SettleFailure(w) \/ FailRequest(w)
           \/ Answer200(w) \/ Answer500(w)
  <2>1. Settled
    BY <1>6 DEF SettleStep, AdvanceReadRequest, FinishRequest, FinishThrows, EnqueueExpiry,
                EnqueueNext, SettleFailure, FailRequest, Answer200, Answer500, Finished, Goto,
                IInv, TypeOK, WorkerTypes
  <2> QED BY <1>2, <2>1
<1> QED BY <1>3, <1>5, <1>6 DEF Advance

LEMMA LocalsStep ==
    ASSUME IInv, [Next]_vars
    PROVE  WorkerLocals'
<1> SUFFICES ASSUME NEW v \in Workers PROVE LocalsOf(v)'
  BY DEF WorkerLocals
<1>1. \A r \in Requests :
         request[r] # Absent => request'[r] # Absent /\ snapshot'[r] = snapshot[r]
  BY DocumentsStep, CompOrdinalType DEF Preserved
<1>2. CASE pc'[v] = pc[v] /\ job'[v] = job[v] /\ out'[v] = out[v] /\ nxt'[v] = nxt[v]
  BY <1>1, <1>2, LocalsKept
<1>3. CASE UNCHANGED workVars
  BY <1>2, <1>3 DEF workVars
<1>4. CASE UNCHANGED vars \/ Operator \/ Api
  <2>1. CASE UNCHANGED vars
    BY <1>3, <2>1 DEF vars
  <2>2. CASE Operator
    BY <1>3, <2>2 DEF Operator, SetApprovalPolicy, CreateRequest, ReadForCancel, AdminCancel,
                      ResumeRequest, DecideStep
  <2>3. CASE Api
    BY <1>3, <2>3 DEF Api, ServeStart, ServeCancel, StartFirstStep, StartRefused,
                      RequesterCancel, AppendCompensatingStep, EnqueueOwed
  <2> QED BY <1>4, <2>1, <2>2, <2>3
<1>5. ASSUME NEW t \in queue, Deliver(t) PROVE LocalsOf(v)'
  <2>1. t \in Task /\ t.req \in Requests /\ t.ord \in Ordinals
    BY DeliveredTask DEF IInv, TypeOK
  <2>2. ASSUME NEW w \in Workers, ClaimStep(w, t) PROVE LocalsOf(v)'
    <3>1. CASE v # w
      BY <1>2, <2>2, <3>1 DEF ClaimStep, Goto, IInv, TypeOK, WorkerTypes
    <3>2. CASE v = w
      <4>1. pc'[v] = "exec" /\ job'[v] = t
        BY <2>2, <3>2 DEF ClaimStep, Goto, IInv, TypeOK, WorkerTypes
      <4>2. request[t.req] # Absent
        BY <2>1, <2>2 DEF ClaimStep, Claimable, IInv, DocumentExists, Absent
      <4> QED BY <1>1, <2>1, <4>1, <4>2 DEF LocalsOf, R
    <3> QED BY <3>1, <3>2
  <2>3. (\E w \in Workers : ClaimStep(w, t)) \/ UNCHANGED workVars
    BY <1>5 DEF Deliver, NotClaimable, ExpireApproval, ExpiryRefused, NotifyApprovers,
                NotifyRefused, NotifyUndelivered
  <2> QED BY <1>3, <2>2, <2>3
<1>6. ASSUME NEW w \in Workers, Handler(w) PROVE LocalsOf(v)'
  <2>1. CASE v # w
    BY <1>2, <1>6, <2>1
       DEF Handler, ReadAccount, SuspendUser, UnsuspendUser, DeleteUser, CreateUser,
           OtherHandler, HandlerError, Yields, Goto, IInv, TypeOK, WorkerTypes
  <2> QED BY <1>6, <2>1, HandlerLocals
<1>7. ASSUME NEW w \in Workers, Advance(w) PROVE LocalsOf(v)'
  <2>1. CASE v # w
    BY <1>2, <1>7, <2>1
       DEF Advance, SettleStep, AdvanceReadRequest, AdvanceReadSteps, FinishRequest,
           FinishThrows, ReleaseStep, HaltStep, FollowHalt, EnqueueNotification,
           EnqueueExpiry, EnqueueNext, SettleFailure, FailRequest, Answer200, Answer500,
           Finished, Goto, IInv, TypeOK, WorkerTypes
  <2> QED BY <1>1, <1>7, <2>1, AdvanceLocals
<1>8. CASE Failures
  <2>1. ASSUME NEW w \in Workers, Crash(w) \/ CallThrows(w) PROVE LocalsOf(v)'
    <3>1. CASE v # w
      BY <1>2, <2>1, <3>1 DEF Crash, CallThrows, Finished, Goto, IInv, TypeOK, WorkerTypes
    <3>2. CASE Crash(w) /\ v = w
      BY <3>2 DEF Crash, Finished, LocalsOf, IInv, TypeOK, WorkerTypes
    <3>3. CASE CallThrows(w) /\ v = w
      <4>1. pc[v] # "idle" /\ pc'[v] = "failing" /\ job' = job /\ request' = request
        BY <3>3 DEF CallThrows, Goto, IInv, TypeOK, WorkerTypes, storeVars
      <4> QED BY <4>1 DEF IInv, WorkerLocals, LocalsOf, R
    <3> QED BY <2>1, <3>1, <3>2, <3>3
  <2>2. (\E w \in Workers : Crash(w) \/ CallThrows(w)) \/ UNCHANGED workVars
    BY <1>8 DEF Failures, NotifyFails, NotifyUndelivered, LoseOwed, LoseCall
  <2> QED BY <1>3, <2>1, <2>2
<1> QED BY <1>4, <1>5, <1>6, <1>7, <1>8 DEF Next

-----------------------------------------------------------------------------
(* The theorems *)

LEMMA InvariantStep ==
    ASSUME IInv, [Next]_vars
    PROVE  IInv'
<1>1. TypeOK'
  BY TypeStep DEF IInv
<1>2. WorkerLocals' /\ CallsExist'
  BY LocalsStep, CallsStep
<1>3. \A r \in Requests, i \in Ordinals : DocumentExists(r, i)' /\ GateHolds(r, i)'
  BY DocumentsStep DEF Preserved
<1> QED BY <1>1, <1>2, <1>3 DEF IInv

THEOREM Inductive == Spec => []IInv
<1>1. Init => IInv
  BY InitIInv
<1>2. IInv /\ [Next]_vars => IInv'
  BY InvariantStep
<1> QED BY <1>1, <1>2, PTL DEF Spec

\* Every document, task and local of a worker always has one of its shapes.
THEOREM TypeCorrect == Spec => []TypeOK
<1>1. IInv => TypeOK
  BY DEF IInv
<1> QED BY <1>1, Inductive, PTL

\* No step that needs approval is released, run or done without the approval of
\* somebody other than the requester, unless its request was given a compensating step.
THEOREM ApprovalHolds == Spec => []TwoPartyUnlessCompensated
<1>1. IInv => TwoPartyUnlessCompensated
  BY DEF IInv, GateHolds, TwoPartyUnlessCompensated
<1> QED BY <1>1, Inductive, PTL

-----------------------------------------------------------------------------
(***************************************************************************)
(* More about the approval gate: exactly what lifts it.  A compensating    *)
(* step alone does not; it takes a resume of the request too.  So the two  *)
(* properties the engine's runs check hold without exception where nobody  *)
(* may cancel, and the deletion's where nobody resumes.                    *)
(***************************************************************************)

Live == {"ready", "running", "succeeded"}
Waiting == {Absent, "pending", "awaiting_approval"}

\* The request was given a compensating step, and resumed.
Lifted(r) == Compensating(r) /\ resumes[r] > 0

Released(r, i) ==
    i # CompOrdinal(r) /\ NeedsApproval(r, i) => Approved(r, i) \/ Lifted(r)

\* A step is dispatched only when its gate is open, and decided only once it was halted.
StepHolds(r, i) ==
    /\ step[r][i] \in Live => Released(r, i)
    /\ step[r][i] \in Waiting => approval[r][i] = Undecided

\* A worker acts on a step whose gate was open, whatever has become of the step since.
WorkerHolds(w) == pc[w] \in {"exec", "mutate"} => Released(R(w), I(w))

\* Where nobody may cancel, nothing is compensated.
NoCompensation ==
    Cancellers = {} => /\ \A c \in calls : c.op = "start"
                       /\ \A r \in Requests : ~Compensating(r)

GateInv ==
    /\ IInv
    /\ \A r \in Requests, i \in Ordinals : StepHolds(r, i)
    /\ \A w \in Workers : WorkerHolds(w)
    /\ NoCompensation

-----------------------------------------------------------------------------

\* What one step of the system may do to one step document and to its decision.
Effect(r, i) ==
    /\ step[r][i] # Absent => step'[r][i] # Absent
    /\ step[r][i] = Absent /\ step'[r][i] # Absent
          => i # CompOrdinal(r) \/ \E c \in calls : c.op = "compensate"
    /\ step'[r][i] \in Waiting => step[r][i] \in Waiting
    /\ approval'[r][i] # approval[r][i] => step[r][i] = "awaiting_approval" /\ step'[r][i] \notin Waiting
    /\ step'[r][i] \in Live /\ step[r][i] \notin Live
          => \/ i = CompOrdinal(r)
             \/ ~NeedsApproval(r, i)'
             \/ Approved(r, i)'
             \/ step[r][i] = "failed" /\ request[r] = "failed" /\ resumes'[r] > 0

LEMMA UntouchedEffect ==
    ASSUME NEW q \in Requests, NEW i \in Ordinals, UNCHANGED <<step, approval>>
    PROVE  Effect(q, i)
BY DEF Effect

\* One document of one request is moved, to where no gate stands, or by what opens it.
LEMMA MovedEffect ==
    ASSUME IInv, NEW q \in Requests, NEW i \in Ordinals, NEW r \in Requests, NEW j \in Ordinals,
           NEW s \in StepStatus, step' = [step EXCEPT ![r][j] = s], UNCHANGED approval,
           s \in Waiting => step[r][j] \in Waiting,
           j = CompOrdinal(r) => step[r][j] # Absent,
           s \in Live => \/ step[r][j] \in Live
                         \/ ~Gated(r, j) /\ ~(j > CompOrdinal(r)) /\ UNCHANGED snapshot
                         \/ step[r][j] = "failed" /\ request[r] = "failed" /\ resumes'[r] > 0
    PROVE  Effect(q, i)
<1>1. CASE q = r /\ i = j
  <2>1. step'[q][i] = s /\ s # Absent
    BY <1>1 DEF IInv, TypeOK, StoreTypes, StepStatus, Absent
  <2>2. ASSUME ~Gated(r, j), ~(j > CompOrdinal(r)), UNCHANGED snapshot
        PROVE  i = CompOrdinal(r) \/ ~NeedsApproval(r, i)'
    <3>2. CASE i \in 1..Len(Plan[r])
      <4>1. ~NeedsApproval(r, i)
        BY <1>1, <2>2, <3>2, NeededIsGated DEF IInv, TypeOK, StoreTypes
      <4> QED BY <2>2, <4>1 DEF NeedsApproval
    <3> QED BY <1>1, <2>2, <3>2, CompOrdinalType
  <2> QED BY <1>1, <2>1, <2>2 DEF Effect
<1>2. CASE ~(q = r /\ i = j)
  <2>1. step'[q][i] = step[q][i]
    BY <1>2 DEF IInv, TypeOK, StoreTypes
  <2> QED BY <2>1 DEF Effect
<1> QED BY <1>1, <1>2

LEMMA CreateEffect ==
    ASSUME IInv, NEW q \in Requests, NEW i \in Ordinals,
           NEW r \in Requests, NEW loaded \in Policies, CreateRequest(r, loaded)
    PROVE  Effect(q, i)
<1>1. CASE q = r
  <2>1. step[q][i] = Absent
    BY <1>1 DEF CreateRequest, IInv, DocumentExists
  <2>2. step'[q][i] \in {"pending", Absent} /\ approval' = approval
    BY <1>1 DEF CreateRequest, IInv, TypeOK, StoreTypes
  <2>3. i = CompOrdinal(q) => step'[q][i] = Absent
    BY <1>1, CompOrdinalType DEF CreateRequest, IInv, TypeOK, StoreTypes
  <2> QED BY <2>1, <2>2, <2>3 DEF Effect, Waiting, Live, Absent
<1>2. CASE q # r
  <2>1. step'[q] = step[q] /\ approval' = approval
    BY <1>2 DEF CreateRequest, IInv, TypeOK, StoreTypes
  <2> QED BY <2>1 DEF Effect
<1> QED BY <1>1, <1>2

LEMMA StartEffect ==
    ASSUME IInv, NEW q \in Requests, NEW i \in Ordinals, NEW r \in Requests, StartFirstStep(r)
    PROVE  Effect(q, i)
<1>1. 1 \in Ordinals /\ 1 \in 1..Len(Plan[r]) /\ 1 # CompOrdinal(r) /\ request[r] # Absent
  BY CompOrdinalType DEF StartFirstStep, IInv, CallsExist
<1>2. UNCHANGED <<approval, snapshot>>
  BY DEF StartFirstStep
<1>3. CASE step' = [step EXCEPT ![r][1] = "awaiting_approval"] /\ CanTransitionStep(step[r][1], "awaiting_approval")
  <2>1. step[r][1] \in Waiting
    BY <1>1, <1>3 DEF CanTransitionStep, StepTransitions, StepStatus, Waiting, Absent, IInv, TypeOK, StoreTypes
  <2>2. "awaiting_approval" \in StepStatus /\ "awaiting_approval" \notin Live
    BY DEF StepStatus, Live
  <2> QED BY <1>1, <1>2, <1>3, <2>1, <2>2, MovedEffect
<1>4. CASE step' = [step EXCEPT ![r][1] = "ready"] /\ ~Gated(r, 1)
  <2>1. ~(1 > CompOrdinal(r))
    BY <1>1, CompOrdinalType
  <2>2. "ready" \in StepStatus /\ "ready" \notin Waiting
    BY DEF StepStatus, Waiting, Absent
  <2> QED BY <1>1, <1>2, <1>4, <2>1, <2>2, MovedEffect
<1> QED BY <1>3, <1>4 DEF StartFirstStep

LEMMA DecideEffect ==
    ASSUME IInv, NEW q \in Requests, NEW i \in Ordinals, NEW r \in Requests, NEW j \in Ordinals,
           NEW h \in Humans, NEW d \in {"approved", "rejected"}, DecideStep(r, j, h, d)
    PROVE  Effect(q, i)
<1>1. CASE q = r /\ i = j
  <2>1. step[q][i] = "awaiting_approval" /\ step'[q][i] \in {"ready", "failed"}
        /\ (step'[q][i] = "ready" => d = "approved")
    <3>1. \/ d = "approved" /\ step' = [step EXCEPT ![r][j] = "ready"]
          \/ step' = [step EXCEPT ![r][j] = "failed"]
      BY DEF DecideStep
    <3> QED BY <1>1, <3>1 DEF DecideStep, IInv, TypeOK, StoreTypes
  <2>2. d = "approved" => Approved(q, i)'
    BY <1>1 DEF DecideStep, MayDecide, Approved, IInv, TypeOK, StoreTypes
  <2> QED BY <2>1, <2>2 DEF Effect, Live, Waiting, Absent
<1>2. CASE ~(q = r /\ i = j)
  <2>1. step'[q][i] = step[q][i] /\ approval'[q][i] = approval[q][i]
    BY <1>2 DEF DecideStep, IInv, TypeOK, StoreTypes
  <2> QED BY <2>1 DEF Effect
<1> QED BY <1>1, <1>2

LEMMA StoppedEffect ==
    ASSUME NEW q \in Requests, NEW i \in Ordinals, approval' = approval,
           step'[q][i] \in {step[q][i], Stopped(step[q][i])}
    PROVE  Effect(q, i)
BY DEF Effect, Stopped, Live, Waiting, Absent

LEMMA CancelEffect ==
    ASSUME IInv, NEW q \in Requests, NEW i \in Ordinals, NEW r \in Requests, CancelRequest(r)
    PROVE  Effect(q, i)
<1>1. approval' = approval
      /\ (step' = step \/ step' = [step EXCEPT ![r] = [k \in Ordinals |-> Stopped(step[r][k])]])
  BY DEF CancelRequest, storeVars
<1>2. step'[q][i] \in {step[q][i], Stopped(step[q][i])}
  <2>1. CASE q = r /\ step' # step
    BY <1>1, <2>1 DEF IInv, TypeOK, StoreTypes
  <2>2. CASE q # r \/ step' = step
    BY <1>1, <2>2 DEF IInv, TypeOK, StoreTypes
  <2> QED BY <2>1, <2>2
<1> QED BY <1>1, <1>2, StoppedEffect

LEMMA CompensateEffect ==
    ASSUME IInv, NEW q \in Requests, NEW i \in Ordinals, NEW r \in Requests, AppendCompensatingStep(r)
    PROVE  Effect(q, i)
<1>1. approval' = approval
  BY DEF AppendCompensatingStep, storeVars
<1>2. CASE q = r /\ i = CompOrdinal(r) /\ ~UNCHANGED storeVars
  <2>1. step'[q][i] = "ready"
    BY <1>2 DEF AppendCompensatingStep, IInv, TypeOK, StoreTypes, storeVars
  <2>2. \E c \in calls : c.op = "compensate"
    BY DEF AppendCompensatingStep
  <2> QED BY <1>1, <1>2, <2>1, <2>2 DEF Effect, Live, Waiting, Absent
<1>3. CASE ~(q = r /\ i = CompOrdinal(r) /\ ~UNCHANGED storeVars)
  <2>1. step'[q][i] \in {step[q][i], Stopped(step[q][i])}
    BY <1>3 DEF AppendCompensatingStep, IInv, TypeOK, StoreTypes, storeVars
  <2> QED BY <1>1, <2>1, StoppedEffect
<1> QED BY <1>2, <1>3

LEMMA ResumeEffect ==
    ASSUME IInv, NEW q \in Requests, NEW i \in Ordinals, NEW r \in Requests, NEW j \in Ordinals,
           ResumeRequest(r, j)
    PROVE  Effect(q, i)
<1>1. resumes'[r] > 0
  BY ConstantsAssumption DEF ResumeRequest, IInv, TypeOK, BoundTypes
<1>2. "ready" \in StepStatus /\ "ready" \notin Waiting
  BY DEF StepStatus, Waiting, Absent
<1>3. step[r][j] # Absent
  BY DEF ResumeRequest, Absent
<1> QED BY <1>1, <1>2, <1>3, MovedEffect DEF ResumeRequest

LEMMA ExpireEffect ==
    ASSUME IInv, NEW q \in Requests, NEW i \in Ordinals, NEW r \in Requests, NEW j \in Ordinals,
           ExpireApproval(r, j)
    PROVE  Effect(q, i)
<1>1. "failed" \in StepStatus /\ "failed" \notin Waiting /\ "failed" \notin Live
  BY DEF StepStatus, Waiting, Live, Absent
<1>2. /\ step' = step \/ (step' = [step EXCEPT ![r][j] = "failed"] /\ step[r][j] # Absent)
      /\ approval' = approval
  BY DEF ExpireApproval, storeVars, Absent
<1> QED BY <1>1, <1>2, MovedEffect, UntouchedEffect

LEMMA ClaimEffect ==
    ASSUME IInv, NEW q \in Requests, NEW i \in Ordinals, NEW t \in queue, NEW w \in Workers,
           ClaimStep(w, t)
    PROVE  Effect(q, i)
<1>1. t.req \in Requests /\ t.ord \in Ordinals
  BY DeliveredTask DEF IInv, TypeOK
<1>2. "running" \in StepStatus /\ "running" \notin Waiting
  BY DEF StepStatus, Waiting, Absent
<1>3. step[t.req][t.ord] \in Live /\ step[t.req][t.ord] # Absent
  BY DEF ClaimStep, Claimable, Live, Absent
<1> QED BY <1>1, <1>2, <1>3, MovedEffect DEF ClaimStep

LEMMA WorkerEffect ==
    ASSUME IInv, NEW q \in Requests, NEW i \in Ordinals, NEW w \in Workers,
           SettleStep(w) \/ SettleFailure(w) \/ ReleaseStep(w) \/ HaltStep(w)
    PROVE  Effect(q, i)
<1> DEFINE r == R(w)
<1>1. r \in Requests /\ I(w) \in Ordinals
  BY BusyJob DEF SettleStep, SettleFailure, ReleaseStep, HaltStep, IInv, TypeOK
<1>2. CASE SettleStep(w) \/ SettleFailure(w)
  <2>1. \/ step' = step
        \/ step[r][I(w)] = "running"
           /\ \E s \in {"succeeded", "skipped", "ready", "failed"} : step' = [step EXCEPT ![r][I(w)] = s]
    <3>1. CASE SettleStep(w)
      <4>1. out[w] \in {"succeeded", "skipped"}
        BY <3>1 DEF SettleStep, IInv, WorkerLocals, LocalsOf, FinishedStep
      <4> QED BY <3>1, <4>1 DEF SettleStep
    <3>2. CASE SettleFailure(w)
      BY <3>2 DEF SettleFailure
    <3> QED BY <1>2, <3>1, <3>2
  <2>2. \A s \in {"succeeded", "skipped", "ready", "failed"} : s \in StepStatus /\ s \notin Waiting
    BY DEF StepStatus, Waiting, Absent
  <2>3. "running" \in Live /\ "running" # Absent /\ approval' = approval
    BY <1>2 DEF Live, SettleStep, SettleFailure, Absent
  <2> QED BY <1>1, <2>1, <2>2, <2>3, MovedEffect, UntouchedEffect
<1>3. CASE ReleaseStep(w)
  <2>1. nxt[w] \in Ordinals /\ ~Gated(r, nxt[w])
    BY <1>3 DEF ReleaseStep, IInv, WorkerLocals, LocalsOf
  <2>4. approval' = approval /\ snapshot' = snapshot
    BY <1>3 DEF ReleaseStep
  <2>2. step' = step \/ (step[r][nxt[w]] = "pending" /\ step' = [step EXCEPT ![r][nxt[w]] = "ready"])
    BY <1>3 DEF ReleaseStep
  <2>7. step' # step => ~(nxt[w] > CompOrdinal(r))
    BY <1>1, <2>1, <2>2 DEF IInv, DocumentExists, Absent
  <2>3. "ready" \in StepStatus /\ "ready" \notin Waiting /\ "pending" # Absent
    BY DEF StepStatus, Waiting, Absent
  <2>5. CASE step' = step
    BY <2>4, <2>5, UntouchedEffect
  <2>6. CASE step' # step
    BY <1>1, <2>1, <2>2, <2>3, <2>4, <2>6, <2>7, MovedEffect
  <2> QED BY <2>5, <2>6
<1>4. CASE HaltStep(w)
  <2>1. nxt[w] \in Ordinals
    BY <1>4 DEF HaltStep, IInv, WorkerLocals, LocalsOf
  <2>4. approval' = approval
    BY <1>4 DEF HaltStep
  <2>2. step' = step \/ (step[r][nxt[w]] = "pending" /\ step' = [step EXCEPT ![r][nxt[w]] = "awaiting_approval"])
    BY <1>4 DEF HaltStep
  <2>3. "awaiting_approval" \in StepStatus /\ "awaiting_approval" \notin Live /\ "pending" \in Waiting /\ "pending" # Absent
    BY DEF StepStatus, Waiting, Live, Absent
  <2>5. CASE step' = step
    BY <2>4, <2>5, UntouchedEffect
  <2>6. CASE step' # step
    BY <1>1, <2>1, <2>2, <2>3, <2>4, <2>6, MovedEffect
  <2> QED BY <2>5, <2>6
<1> QED BY <1>2, <1>3, <1>4

LEMMA EffectStep ==
    ASSUME IInv, [Next]_vars, NEW q \in Requests, NEW i \in Ordinals
    PROVE  Effect(q, i)
<1>1. CASE UNCHANGED vars
  BY <1>1, UntouchedEffect DEF vars, storeVars
<1>2. CASE Operator
  BY <1>2, UntouchedEffect, CreateEffect, CancelEffect, ResumeEffect, DecideEffect
     DEF Operator, SetApprovalPolicy, ReadForCancel, AdminCancel, storeVars
<1>3. CASE Api
  BY <1>3, UntouchedEffect, StartEffect, CancelEffect, CompensateEffect
     DEF Api, ServeStart, ServeCancel, StartRefused, RequesterCancel, EnqueueOwed, storeVars
<1>4. ASSUME NEW t \in queue, Deliver(t) PROVE Effect(q, i)
  <2>1. t.req \in Requests /\ t.ord \in Ordinals
    BY DeliveredTask DEF IInv, TypeOK
  <2> QED BY <1>4, <2>1, UntouchedEffect, ClaimEffect, ExpireEffect
          DEF Deliver, NotClaimable, ExpiryRefused, NotifyApprovers, NotifyRefused,
              NotifyUndelivered, storeVars
<1>5. ASSUME NEW w \in Workers, Handler(w) PROVE Effect(q, i)
  BY <1>5, UntouchedEffect
     DEF Handler, ReadAccount, SuspendUser, UnsuspendUser, DeleteUser, CreateUser,
         OtherHandler, HandlerError, Yields, storeVars
<1>6. ASSUME NEW w \in Workers, Advance(w) PROVE Effect(q, i)
  BY <1>6, UntouchedEffect, WorkerEffect
     DEF Advance, AdvanceReadRequest, AdvanceReadSteps, FinishRequest, FinishThrows, FollowHalt,
         EnqueueNotification, EnqueueExpiry, EnqueueNext, FailRequest, Answer200, Answer500, storeVars
<1>7. CASE Failures
  BY <1>7, UntouchedEffect
     DEF Failures, Crash, CallThrows, NotifyFails, NotifyUndelivered, LoseOwed, LoseCall, storeVars
<1> QED BY <1>1, <1>2, <1>3, <1>4, <1>5, <1>6, <1>7 DEF Next

-----------------------------------------------------------------------------

\* Nothing but a resume counts as one.
LEMMA ResumingStep ==
    ASSUME [Next]_vars
    PROVE  UNCHANGED resumes \/ \E q \in Requests, i \in Ordinals : ResumeRequest(q, i)
<1>1. CASE UNCHANGED vars
  BY <1>1 DEF vars
<1>2. CASE Operator
  BY <1>2 DEF Operator, SetApprovalPolicy, CreateRequest, ReadForCancel, AdminCancel, DecideStep
<1>3. CASE Api
  BY <1>3 DEF Api, ServeStart, ServeCancel, StartFirstStep, StartRefused, RequesterCancel,
              AppendCompensatingStep, EnqueueOwed
<1>4. ASSUME NEW t \in queue, Deliver(t) PROVE UNCHANGED resumes
  BY <1>4 DEF Deliver, NotClaimable, ClaimStep, ExpireApproval, ExpiryRefused, NotifyApprovers,
              NotifyRefused, NotifyUndelivered
<1>5. ASSUME NEW w \in Workers, Handler(w) PROVE UNCHANGED resumes
  BY <1>5 DEF Handler, ReadAccount, SuspendUser, UnsuspendUser, DeleteUser, CreateUser,
              OtherHandler, HandlerError, Yields
<1>6. ASSUME NEW w \in Workers, Advance(w) PROVE UNCHANGED resumes
  BY <1>6 DEF Advance, SettleStep, AdvanceReadRequest, AdvanceReadSteps, FinishRequest,
              FinishThrows, ReleaseStep, HaltStep, FollowHalt, EnqueueNotification,
              EnqueueExpiry, EnqueueNext, SettleFailure, FailRequest, Answer200, Answer500
<1>7. CASE Failures
  BY <1>7 DEF Failures, Crash, CallThrows, NotifyFails, NotifyUndelivered, LoseOwed, LoseCall
<1> QED BY <1>1, <1>2, <1>3, <1>4, <1>5, <1>6, <1>7 DEF Next

LEMMA ResumesStep ==
    ASSUME TypeOK, [Next]_vars, NEW r \in Requests, resumes[r] > 0
    PROVE  resumes'[r] > 0
<1>1. resumes \in [Requests -> Nat]
  BY ConstantsAssumption DEF TypeOK, BoundTypes
<1>2. CASE UNCHANGED resumes
  BY <1>2
<1>3. ASSUME NEW q \in Requests, NEW i \in Ordinals, ResumeRequest(q, i) PROVE resumes'[r] > 0
  BY <1>1, <1>3 DEF ResumeRequest
<1> QED BY <1>2, <1>3, ResumingStep

\* An approval stays, and so does what lifts a gate.
LEMMA ApprovedKept ==
    ASSUME GateInv, [Next]_vars, NEW r \in Requests, NEW i \in Ordinals
    PROVE  /\ Approved(r, i) => Approved(r, i)'
           /\ Compensating(r) => Compensating(r)'
           /\ Lifted(r) => Lifted(r)'
<1>1. Effect(r, i) /\ Effect(r, CompOrdinal(r)) /\ StepHolds(r, i)
  BY EffectStep, CompOrdinalType DEF GateInv
<1>2. Approved(r, i) => approval'[r][i] = approval[r][i]
  BY <1>1 DEF Effect, StepHolds, Approved, Undecided, Waiting
<1>3. Compensating(r) => Compensating(r)'
  BY <1>1 DEF Effect, Compensating
<1>4. resumes[r] > 0 => resumes'[r] > 0
  BY ResumesStep DEF GateInv, IInv
<1> QED BY <1>2, <1>3, <1>4 DEF Approved, Lifted

LEMMA ReleasedKept ==
    ASSUME GateInv, [Next]_vars, NEW r \in Requests, NEW i \in Ordinals,
           request[r] # Absent, Released(r, i)
    PROVE  Released(r, i)'
<1>1. snapshot'[r] = snapshot[r]
  BY DocumentsStep DEF GateInv, Preserved
<1>2. NeedsApproval(r, i)' => NeedsApproval(r, i)
  BY <1>1 DEF NeedsApproval
<1> QED BY <1>2, ApprovedKept DEF Released

LEMMA StepHoldsStep ==
    ASSUME GateInv, [Next]_vars, NEW r \in Requests, NEW i \in Ordinals
    PROVE  StepHolds(r, i)'
<1>1. Effect(r, i) /\ StepHolds(r, i) /\ DocumentExists(r, i) /\ GateHolds(r, i)
  BY EffectStep DEF GateInv, IInv
<1>2. ASSUME step'[r][i] \in Waiting PROVE approval'[r][i] = Undecided
  BY <1>1, <1>2 DEF Effect, StepHolds
<1>3. ASSUME step'[r][i] \in Live PROVE Released(r, i)'
  <2>1. CASE step[r][i] \in Live
    <3>1. request[r] # Absent
      BY <1>1, <2>1 DEF DocumentExists, Live, Absent
    <3> QED BY <1>1, <2>1, <3>1, ReleasedKept DEF StepHolds
  <2>2. CASE step[r][i] \notin Live
    <3>1. CASE i = CompOrdinal(r) \/ ~NeedsApproval(r, i)' \/ Approved(r, i)'
      BY <3>1 DEF Released, CompOrdinal
    <3>2. CASE step[r][i] = "failed" /\ request[r] = "failed" /\ resumes'[r] > 0
      <4>1. snapshot'[r] = snapshot[r]
        BY <3>2, DocumentsStep DEF GateInv, Preserved, Absent
      <4>2. NeedsApproval(r, i)' => Approved(r, i) \/ Compensating(r)
        BY <1>1, <3>2, <4>1 DEF GateHolds, NeedsApproval
      <4>3. NeedsApproval(r, i)' => Approved(r, i)' \/ Compensating(r)'
        BY <4>2, ApprovedKept
      <4> QED BY <3>2, <4>3 DEF Released, Lifted
    <3> QED BY <1>1, <1>3, <2>2, <3>1, <3>2 DEF Effect
  <2> QED BY <2>1, <2>2
<1> QED BY <1>2, <1>3 DEF StepHolds

\* Only a claim gives a worker a step to act on.
LEMMA ActsAfterClaim ==
    ASSUME IInv, [Next]_vars, NEW w \in Workers, pc'[w] \in {"exec", "mutate"}
    PROVE  \/ pc[w] \in {"exec", "mutate"} /\ job'[w] = job[w]
           \/ \E t \in queue : ClaimStep(w, t)
<1> USE DEF IInv, TypeOK, WorkerTypes, Goto
<1>1. CASE UNCHANGED workVars
  BY <1>1 DEF workVars
<1>2. CASE UNCHANGED vars \/ Operator
  <2>1. UNCHANGED workVars
    BY <1>2 DEF vars, Operator, SetApprovalPolicy, CreateRequest, ReadForCancel, AdminCancel,
                ResumeRequest, DecideStep
  <2> QED BY <1>1, <2>1
<1>3. CASE Api
  <2>1. UNCHANGED workVars
    BY <1>3 DEF Api, ServeStart, ServeCancel, StartFirstStep, StartRefused, RequesterCancel,
                AppendCompensatingStep, EnqueueOwed
  <2> QED BY <1>1, <2>1
<1>4. ASSUME NEW t \in queue, NEW v \in Workers, ClaimStep(v, t)
      PROVE  (pc[w] \in {"exec", "mutate"} /\ job'[w] = job[w]) \/ ClaimStep(w, t)
  BY <1>4 DEF ClaimStep
<1>5. ASSUME NEW t \in queue, Deliver(t)
      PROVE  UNCHANGED workVars \/ \E v \in Workers : ClaimStep(v, t)
  BY <1>5 DEF Deliver, NotClaimable, ExpireApproval, ExpiryRefused, NotifyApprovers,
              NotifyRefused, NotifyUndelivered
<1>6. ASSUME NEW v \in Workers, Handler(v) PROVE pc[w] \in {"exec", "mutate"} /\ job'[w] = job[w]
  <2>1. pc[v] \in {"exec", "mutate"} /\ job' = job /\ \E label : Goto(v, label)
    BY <1>6 DEF Handler, ReadAccount, SuspendUser, UnsuspendUser, DeleteUser, CreateUser,
                OtherHandler, HandlerError, Handles, Yields
  <2> QED BY <2>1
<1>7. ASSUME NEW v \in Workers, Advance(v) \/ Crash(v) \/ CallThrows(v)
      PROVE  pc[w] \in {"exec", "mutate"} /\ job'[w] = job[w]
  <2>1. v # w
    BY <1>7 DEF Advance, SettleStep, AdvanceReadRequest, AdvanceReadSteps, FinishRequest,
                FinishThrows, ReleaseStep, HaltStep, FollowHalt, EnqueueNotification,
                EnqueueExpiry, EnqueueNext, SettleFailure, FailRequest, Answer200, Answer500,
                Finished, NextMove, Crash, CallThrows
  <2>2. pc'[w] = pc[w] /\ job'[w] = job[w]
    BY <1>7, <2>1
       DEF Advance, SettleStep, AdvanceReadRequest, AdvanceReadSteps, FinishRequest,
           FinishThrows, ReleaseStep, HaltStep, FollowHalt, EnqueueNotification,
           EnqueueExpiry, EnqueueNext, SettleFailure, FailRequest, Answer200, Answer500,
           Finished, Crash, CallThrows
  <2> QED BY <2>2
<1>8. CASE Failures
  <2>1. UNCHANGED workVars \/ \E v \in Workers : Crash(v) \/ CallThrows(v)
    BY <1>8 DEF Failures, NotifyFails, NotifyUndelivered, LoseOwed, LoseCall
  <2> QED BY <1>1, <1>7, <2>1
<1> QED BY <1>1, <1>2, <1>3, <1>4, <1>5, <1>6, <1>7, <1>8 DEF Next

LEMMA WorkerHoldsStep ==
    ASSUME GateInv, [Next]_vars, NEW w \in Workers
    PROVE  WorkerHolds(w)'
<1> SUFFICES ASSUME pc'[w] \in {"exec", "mutate"} PROVE Released(R(w), I(w))'
  BY DEF WorkerHolds
<1>1. CASE pc[w] \in {"exec", "mutate"} /\ job'[w] = job[w]
  <2>1. R(w) \in Requests /\ I(w) \in Ordinals /\ request[R(w)] # Absent
    BY <1>1, BusyJob DEF GateInv, IInv, TypeOK, WorkerLocals, LocalsOf
  <2>2. Released(R(w), I(w))
    BY <1>1 DEF GateInv, WorkerHolds
  <2>3. R(w)' = R(w) /\ I(w)' = I(w)
    BY <1>1 DEF R, I
  <2>4. PICK r \in Requests, i \in Ordinals : r = R(w) /\ i = I(w)
    BY <2>1
  <2>5. Released(r, i)'
    BY <2>1, <2>2, <2>4, ReleasedKept
  <2>6. r = R(w)' /\ i = I(w)'
    BY <2>3, <2>4
  <2> QED BY <2>5, <2>6 DEF Released, NeedsApproval, Approved, Lifted, Compensating
<1>2. ASSUME NEW t \in queue, ClaimStep(w, t) PROVE Released(R(w), I(w))'
  <2>1. t.req \in Requests /\ t.ord \in Ordinals
    BY DeliveredTask DEF GateInv, IInv, TypeOK
  <2>2. step[t.req][t.ord] \in Live
    BY <1>2 DEF ClaimStep, Claimable, Live
  <2>3. request[t.req] # Absent /\ Released(t.req, t.ord)
    BY <2>1, <2>2 DEF GateInv, IInv, DocumentExists, StepHolds, Live, Absent
  <2>4. Released(t.req, t.ord)'
    BY <2>1, <2>3, ReleasedKept
  <2>5. job'[w] = t
    BY <1>2 DEF ClaimStep, GateInv, IInv, TypeOK, WorkerTypes
  <2> QED BY <2>4, <2>5 DEF Released, NeedsApproval, Approved, Lifted, Compensating, R, I
<1> QED BY <1>1, <1>2, ActsAfterClaim DEF GateInv

LEMMA NoCompensationStep ==
    ASSUME GateInv, [Next]_vars
    PROVE  NoCompensation'
<1> SUFFICES ASSUME Cancellers = {}
             PROVE  (\A c \in calls' : c.op = "start") /\ \A r \in Requests : ~Compensating(r)'
  BY DEF NoCompensation
<1>1. (\A c \in calls : c.op = "start") /\ \A r \in Requests : ~Compensating(r)
  BY DEF GateInv, NoCompensation
<1>2. \A r \in Requests : ~Compensating(r)'
  <2>1. \A r \in Requests : Effect(r, CompOrdinal(r))
    BY EffectStep, CompOrdinalType DEF GateInv
  <2> QED BY <1>1, <2>1 DEF Effect, Compensating
<1>3. calls' \subseteq calls \cup [op : {"start"}, req : Requests]
  <2>1. CASE UNCHANGED vars
    BY <2>1 DEF vars, apiVars
  <2>2. CASE Operator
    BY <2>2 DEF Operator, SetApprovalPolicy, CreateRequest, ReadForCancel, AdminCancel,
                ResumeRequest, DecideStep, apiVars
  <2>3. CASE Api
    BY <2>3 DEF Api, ServeStart, ServeCancel, StartFirstStep, StartRefused, RequesterCancel,
                AppendCompensatingStep, EnqueueOwed
  <2>4. ASSUME NEW t \in queue, Deliver(t) PROVE calls' = calls
    BY <2>4 DEF Deliver, NotClaimable, ClaimStep, ExpireApproval, ExpiryRefused,
                NotifyApprovers, NotifyRefused, NotifyUndelivered, apiVars
  <2>5. ASSUME NEW w \in Workers, Handler(w) PROVE calls' = calls
    BY <2>5 DEF Handler, ReadAccount, SuspendUser, UnsuspendUser, DeleteUser, CreateUser,
                OtherHandler, HandlerError, Yields, apiVars
  <2>6. ASSUME NEW w \in Workers, Advance(w) PROVE calls' = calls
    BY <2>6 DEF Advance, SettleStep, AdvanceReadRequest, AdvanceReadSteps, FinishRequest,
                FinishThrows, ReleaseStep, HaltStep, FollowHalt, EnqueueNotification,
                EnqueueExpiry, EnqueueNext, SettleFailure, FailRequest, Answer200,
                Answer500, apiVars
  <2>7. CASE Failures
    BY <2>7 DEF Failures, Crash, CallThrows, NotifyFails, NotifyUndelivered, LoseOwed,
                LoseCall, apiVars
  <2> QED BY <2>1, <2>2, <2>3, <2>4, <2>5, <2>6, <2>7 DEF Next
<1> QED BY <1>1, <1>2, <1>3

LEMMA InitGateInv == Init => GateInv
<1> SUFFICES ASSUME Init PROVE GateInv
  OBVIOUS
<1>1. IInv
  BY InitIInv
<1>2. \A r \in Requests, i \in Ordinals : step[r][i] = Absent /\ approval[r][i] = Undecided
  BY DEF Init
<1>3. \A r \in Requests : ~Compensating(r)
  BY <1>2, CompOrdinalType DEF Compensating
<1>4. \A w \in Workers : WorkerHolds(w)
  BY DEF Init, WorkerHolds
<1> QED BY <1>1, <1>2, <1>3, <1>4 DEF Init, GateInv, StepHolds, Live, Waiting, Absent, NoCompensation

LEMMA GateInvStep == GateInv /\ [Next]_vars => GateInv'
<1> SUFFICES ASSUME GateInv, [Next]_vars PROVE GateInv'
  OBVIOUS
<1>1. IInv'
  BY InvariantStep DEF GateInv
<1> QED BY <1>1, StepHoldsStep, WorkerHoldsStep, NoCompensationStep DEF GateInv

-----------------------------------------------------------------------------

\* What is behind both: the gate of a dispatched step is open, by an approval, or by a
\* compensating step and a resume together (store.ts, decideStep and resumeRequest).
THEOREM GateInductive == Spec => []GateInv
BY InitGateInv, GateInvStep, PTL DEF Spec

\* Where no requester may cancel, a step that needs approval is released, run or done only
\* after somebody other than the requester approved it (policy.ts, decideStep).
THEOREM NothingUnapproved == Cancellers = {} => (Spec => []TwoPartyApproval)
<1> SUFFICES ASSUME Cancellers = {} PROVE Spec => []TwoPartyApproval
  OBVIOUS
<1>1. GateInv => TwoPartyApproval
  <2> SUFFICES ASSUME GateInv, NEW r \in Requests, NEW i \in Ordinals,
                      NeedsApproval(r, i), step[r][i] \in Live
               PROVE  Approved(r, i)
    BY DEF TwoPartyApproval, Live
  <2>1. ~Compensating(r)
    BY DEF GateInv, NoCompensation
  <2>2. i # CompOrdinal(r)
    BY <2>1 DEF Compensating, Live, Absent
  <2>3. Released(r, i)
    BY DEF GateInv, StepHolds
  <2> QED BY <2>1, <2>2, <2>3 DEF Released, Lifted
<1> QED BY <1>1, GateInductive, PTL

\* Nothing but a handler writes the directory.
LEMMA HandlersWrite ==
    ASSUME [Next]_vars
    PROVE  UNCHANGED envVars \/ \E w \in Workers : Lands(w)
<1>1. ASSUME NEW w \in Workers, Handler(w) PROVE UNCHANGED envVars \/ Lands(w)
  BY <1>1 DEF Handler, ReadAccount, SuspendUser, UnsuspendUser, DeleteUser, CreateUser, OtherHandler,
              HandlerError, Lands
<1>2. CASE UNCHANGED vars
  BY <1>2 DEF vars
<1>3. CASE Operator
  BY <1>3 DEF Operator, SetApprovalPolicy, CreateRequest, ReadForCancel, AdminCancel,
              ResumeRequest, DecideStep
<1>4. CASE Api
  BY <1>4 DEF Api, ServeStart, ServeCancel, StartFirstStep, StartRefused, RequesterCancel,
              AppendCompensatingStep, EnqueueOwed
<1>5. ASSUME NEW t \in queue, Deliver(t) PROVE UNCHANGED envVars
  BY <1>5 DEF Deliver, NotClaimable, ClaimStep, ExpireApproval, ExpiryRefused, NotifyApprovers,
              NotifyRefused, NotifyUndelivered
<1>6. ASSUME NEW w \in Workers, Advance(w) PROVE UNCHANGED envVars
  BY <1>6
     DEF Advance, SettleStep, AdvanceReadRequest, AdvanceReadSteps, FinishRequest, FinishThrows,
         ReleaseStep, HaltStep, FollowHalt, EnqueueNotification, EnqueueExpiry, EnqueueNext,
         SettleFailure, FailRequest, Answer200, Answer500
<1>7. CASE Failures
  BY <1>7
     DEF Failures, Crash, CallThrows, NotifyFails, NotifyUndelivered, LoseOwed, LoseCall
<1> QED BY <1>1, <1>2, <1>3, <1>4, <1>5, <1>6, <1>7 DEF Next

\* Where no requester may cancel, or nobody resumes, the account is deleted only by a step
\* somebody other than the requester approved, whatever the store says of that step by
\* then (REQ-006 AC-3; worker/phases/delete.ts).
THEOREM DeletionApproved == Cancellers = {} \/ MaxResumes = 0 => (Spec => DeletionIsApproved)
<1> SUFFICES ASSUME Cancellers = {} \/ MaxResumes = 0 PROVE Spec => DeletionIsApproved
  OBVIOUS
<1>1. ASSUME GateInv, NEW w \in Workers, Handles(w, "delete-user") PROVE Approved(R(w), I(w))
  <2>1. pc[w] = "mutate" /\ NameOf(R(w), I(w)) = "delete-user"
    BY <1>1 DEF Handles
  <2>2. R(w) \in Requests /\ I(w) \in Ordinals /\ Released(R(w), I(w))
    BY <1>1, <2>1, BusyJob DEF GateInv, IInv, TypeOK, WorkerHolds
  <2>3. NeedsApproval(R(w), I(w))
    BY <2>1 DEF NeedsApproval, MandatoryApprovalSteps
  <2>4. NameOf(R(w), CompOrdinal(R(w))) = CompensatingStep
    BY <2>2, CompOrdinalType DEF NameOf
  <2>5. I(w) # CompOrdinal(R(w))
    BY <2>1, <2>4 DEF CompensatingStep
  <2>6. ~Lifted(R(w))
    BY <1>1, <2>2, ConstantsAssumption DEF GateInv, NoCompensation, Lifted, IInv, TypeOK, BoundTypes
  <2> QED BY <2>2, <2>3, <2>5, <2>6 DEF Released
<1>2. ASSUME GateInv, [Next]_vars, NEW u \in Users, account[u] # "absent", account'[u] = "absent"
      PROVE  \E w \in Workers : /\ Handles(w, "delete-user") /\ Target[R(w)] = u
                                /\ Approved(R(w), I(w))
  <2>1. PICK w \in Workers : Lands(w)
    BY <1>2, HandlersWrite DEF envVars
  <2>2. account'[u] = "absent" /\ account[u] # "absent" /\ account \in [Users -> AccountState]
    BY <1>2 DEF GateInv, IInv, TypeOK, EnvironmentTypes
  <2>3. Handles(w, "delete-user") /\ Target[R(w)] = u
    BY <2>1, <2>2 DEF Lands, Suspends, Unsuspends, Deletes, Creates, SetAccount
  <2> QED BY <1>1, <1>2, <2>3
<1>3. GateInv /\ [Next]_vars
          => [\A u \in Users :
                 account[u] # "absent" /\ account'[u] = "absent"
                     => \E w \in Workers : /\ Handles(w, "delete-user") /\ Target[R(w)] = u
                                           /\ Approved(R(w), I(w))]_<<account, approval>>
  BY <1>2
<1> QED BY <1>3, GateInductive, PTL DEF Spec, DeletionIsApproved

-----------------------------------------------------------------------------
(* The order of the plan, and the exclusion of two deliveries *)

\* A worker that has a step to answer for, and one that has settled it.
Claimed == {"exec", "mutate", "settle", "failing"}
Advancing == {"advance", "plan", "finish", "release", "enqueue", "halt", "follow",
              "notify", "expiry"}

\* What the order of the plan says something about, and what is still to be decided.
Dispatched == {"awaiting_approval", "ready", "running", "succeeded", "failed"}
Undispatched == {"pending", "awaiting_approval"}

\* Every step before i is finished, unless the plan was cut short by a compensation.
InOrder(r, i) == (\A j \in 1..(i - 1) : step[r][j] \in FinishedStep) \/ Compensating(r)

\* A worker's step is running until it is settled and finished after that, and every step
\* before it, or before the one it is about to dispatch, is finished; so is the whole
\* plan, if it is about to end the request.
Holds(w) ==
    /\ pc[w] \in {"exec", "mutate", "settle"} => step[R(w)][I(w)] = "running"
    /\ pc[w] = "failing" => step[R(w)][I(w)] \in FinishedStep \cup {"running"}
    /\ pc[w] \in Advancing => step[R(w)][I(w)] \in FinishedStep
    /\ pc[w] \in Claimed \cup Advancing => InOrder(R(w), I(w))
    /\ pc[w] \in {"release", "halt"} => InOrder(R(w), nxt[w])
    /\ pc[w] = "finish" => InOrder(R(w), CompOrdinal(R(w)))

\* Two workers never answer for one running step.
Excludes(v, w) ==
    v # w /\ pc[v] \in Claimed /\ pc[w] \in Claimed /\ R(v) = R(w) /\ I(v) = I(w)
        => step[R(v)][I(v)] # "running"

\* A step is dispatched in its turn; a success ends a finished plan; a compensation
\* leaves nothing to decide; and a rejection failed a step of the plan.
Sequenced(r) ==
    /\ \A i \in 1..Len(Plan[r]) :
          /\ step[r][i] \in Dispatched => InOrder(r, i)
          /\ request[r] # Absent => step[r][i] # Absent
    /\ request[r] = "succeeded" => InOrder(r, CompOrdinal(r))
    /\ Compensating(r) => \A i \in Ordinals : step[r][i] \notin Undispatched
    /\ request[r] = "rejected" => /\ ~Compensating(r)
                                  /\ \E i \in 1..Len(Plan[r]) : step[r][i] = "failed"

\* A request that was not started has dispatched nothing, and nothing of it can be
\* compensated; what still starts it finds it a draft, or cancelled.
Drafted(r) ==
    /\ [op |-> "start", req |-> r] \in calls => request[r] \in {"draft", "cancelled"}
    /\ request[r] = "draft" => /\ \A i \in Ordinals : step[r][i] \in {"pending", Absent}
                               /\ [op |-> "compensate", req |-> r] \notin calls

OrderInv ==
    /\ \A w \in Workers : Holds(w)
    /\ \A v, w \in Workers : Excludes(v, w)
    /\ \A r \in Requests : Sequenced(r) /\ Drafted(r)

-----------------------------------------------------------------------------
(* What one step of the system may do to a step document *)

\* The worker that answers for a step which is running.
Settler(q, i) ==
    \E w \in Workers : /\ pc[w] \in {"settle", "failing"} /\ R(w) = q /\ I(w) = i
                       /\ pc'[w] \notin Claimed

\* The worker that dispatches a step of the plan.
Dispatcher(q, i) ==
    \E w \in Workers : /\ pc[w] \in {"release", "halt"} /\ R(w) = q /\ nxt[w] = i
                       /\ pc'[w] \notin {"release", "halt"}

MovesTo(q, i, to) ==
    LET from == step[q][i]
    IN  /\ from \in FinishedStep => to \in FinishedStep
        /\ to \in Dispatched /\ from \notin Dispatched
              => i = 1 \/ i = CompOrdinal(q) \/ Dispatcher(q, i)
        /\ from = "running" /\ to # "running" => Settler(q, i)
        /\ to \in FinishedStep /\ from \notin FinishedStep
              => from \in Undispatched \/ \E w \in Workers : pc[w] = "settle" /\ R(w) = q /\ I(w) = i
        /\ to = "running" /\ from # "running" => from = "ready"
        /\ from = "ready" /\ to # "ready"
              => \E w \in Workers, t \in queue : ClaimStep(w, t) /\ t.req = q /\ t.ord = i
        /\ to \in Undispatched => from \in Undispatched \/ request[q] = Absent
        /\ to = "pending" => from = "pending" \/ request[q] = Absent
        /\ from = "failed" /\ to # "failed" => request[q] = "failed" /\ request'[q] = "running"
        /\ from = "awaiting_approval" /\ to # from
              => \/ request[q] # "running" /\ request'[q] # "awaiting_approval"
                 \/ request'[q] = "cancelled" \/ Compensating(q)'
        /\ from \in Undispatched /\ to = "skipped" => request'[q] = "cancelled" \/ Compensating(q)'
        /\ request[q] = "draft" /\ request'[q] = "draft" => to = from

OrderEffect(q, i) == MovesTo(q, i, step'[q][i])

LEMMA StillInOrder ==
    ASSUME NEW q \in Requests, NEW i \in Ordinals, step'[q][i] = step[q][i]
    PROVE  OrderEffect(q, i)
BY DEF OrderEffect, MovesTo, Undispatched

LEMMA OneMoves ==
    ASSUME IInv, NEW q \in Requests, NEW i \in Ordinals, NEW r \in Requests, NEW j \in Ordinals,
           NEW s \in StepStatus, step' = [step EXCEPT ![r][j] = s], MovesTo(r, j, s)
    PROVE  OrderEffect(q, i)
<1>1. CASE q = r /\ i = j
  <2>1. step'[q][i] = s
    BY <1>1 DEF IInv, TypeOK, StoreTypes
  <2> QED BY <1>1, <2>1 DEF OrderEffect
<1>2. CASE ~(q = r /\ i = j)
  <2>1. step'[q][i] = step[q][i]
    BY <1>2 DEF IInv, TypeOK, StoreTypes
  <2> QED BY <2>1, StillInOrder
<1> QED BY <1>1, <1>2

LEMMA StoppedInOrder ==
    ASSUME NEW q \in Requests, NEW i \in Ordinals, request[q] # "rejected",
           request'[q] = "cancelled" \/ Compensating(q)',
           request'[q] # "draft", step'[q][i] = Stopped(step[q][i])
    PROVE  OrderEffect(q, i)
BY DEF OrderEffect, MovesTo, Stopped, FinishedStep, Dispatched, Undispatched

LEMMA CancelInOrder ==
    ASSUME IInv, NEW q \in Requests, NEW i \in Ordinals, NEW r \in Requests, CancelRequest(r)
    PROVE  OrderEffect(q, i)
<1>1. CASE Terminal(r)
  BY <1>1, StillInOrder DEF CancelRequest, storeVars
<1>2. CASE ~Terminal(r)
  <2>1. request[r] # "rejected" /\ request'[r] = "cancelled"
    BY <1>2 DEF Terminal, TerminalRequestStatus, CancelRequest, IInv, TypeOK, StoreTypes
  <2>2. step' = [step EXCEPT ![r] = [k \in Ordinals |-> Stopped(step[r][k])]]
    BY <1>2 DEF CancelRequest
  <2>3. CASE q = r
    BY <2>1, <2>2, <2>3, StoppedInOrder DEF IInv, TypeOK, StoreTypes
  <2>4. CASE q # r
    BY <2>2, <2>4, StillInOrder DEF IInv, TypeOK, StoreTypes
  <2> QED BY <2>3, <2>4
<1> QED BY <1>1, <1>2

LEMMA CompensateInOrder ==
    ASSUME IInv, NEW q \in Requests, NEW i \in Ordinals, NEW r \in Requests, AppendCompensatingStep(r)
    PROVE  OrderEffect(q, i)
<1> DEFINE F == [k \in Ordinals |-> IF k = CompOrdinal(r) THEN "ready" ELSE Stopped(step[r][k])]
<1>1. CASE UNCHANGED storeVars
  BY <1>1, StillInOrder DEF storeVars
<1>2. CASE ~Terminal(r) /\ step[r][CompOrdinal(r)] = Absent /\ step' = [step EXCEPT ![r] = F]
           /\ request' = [request EXCEPT ![r] = "running"]
  <2>1. request[r] # "rejected" /\ request'[r] # "draft"
    BY <1>2 DEF Terminal, TerminalRequestStatus, IInv, TypeOK, StoreTypes
  <2>2. CASE q # r
    BY <1>2, <2>2, StillInOrder DEF IInv, TypeOK, StoreTypes
  <2>3. CASE q = r /\ i = CompOrdinal(r)
    <3>1. step'[q][i] = "ready" /\ step[q][i] = Absent
      BY <1>2, <2>3 DEF IInv, TypeOK, StoreTypes
    <3> QED BY <2>1, <2>3, <3>1 DEF OrderEffect, MovesTo, FinishedStep, Undispatched, Absent
  <2>4. CASE q = r /\ i # CompOrdinal(r)
    <3>1. step'[q][i] = Stopped(step[q][i])
      BY <1>2, <2>4 DEF IInv, TypeOK, StoreTypes
    <3>2. Compensating(r)'
      BY <1>2, CompOrdinalType DEF Compensating, Absent, IInv, TypeOK, StoreTypes
    <3> QED BY <2>1, <2>4, <3>1, <3>2, StoppedInOrder
  <2> QED BY <2>2, <2>3, <2>4
<1> QED BY <1>1, <1>2 DEF AppendCompensatingStep

LEMMA CreateInOrder ==
    ASSUME IInv, NEW q \in Requests, NEW i \in Ordinals,
           NEW r \in Requests, NEW loaded \in Policies, CreateRequest(r, loaded)
    PROVE  OrderEffect(q, i)
<1>1. CASE q = r
  <2>1. step[q][i] = Absent /\ request[q] = Absent
    BY <1>1 DEF CreateRequest, IInv, DocumentExists
  <2>2. step'[q][i] \in {"pending", Absent}
    BY <1>1 DEF CreateRequest, IInv, TypeOK, StoreTypes
  <2> QED BY <2>1, <2>2 DEF OrderEffect, MovesTo, FinishedStep, Dispatched, Undispatched, Absent
<1>2. CASE q # r
  BY <1>2, StillInOrder DEF CreateRequest, IInv, TypeOK, StoreTypes
<1> QED BY <1>1, <1>2

LEMMA StartInOrder ==
    ASSUME IInv, OrderInv, NEW q \in Requests, NEW i \in Ordinals, NEW r \in Requests, StartFirstStep(r)
    PROVE  OrderEffect(q, i)
<1>1. PICK s \in {"awaiting_approval", "ready"} : step' = [step EXCEPT ![r][1] = s]
  BY DEF StartFirstStep
<1>2. 1 \in Ordinals /\ s \in StepStatus
  BY CompOrdinalType DEF StepStatus
<1>3. request[r] = "draft"
  BY DEF OrderInv, Drafted, StartFirstStep, CanTransitionRequest, RequestTransitions, RequestStatus
<1>4. step[r][1] \in {"pending", Absent}
  BY <1>2, <1>3 DEF OrderInv, Drafted
<1>5. step[r][1] = "pending"
  BY <1>3, <1>4, CompOrdinalType DEF OrderInv, Sequenced, Absent
<1>6. request'[r] # "draft"
  BY DEF StartFirstStep, IInv, TypeOK, StoreTypes
<1>7. MovesTo(r, 1, s)
  BY <1>3, <1>5, <1>6 DEF MovesTo, FinishedStep, Dispatched, Undispatched
<1> QED BY <1>1, <1>2, <1>7, OneMoves

\* A request that is a draft has no step in any of these states.
LEMMA NotDraft ==
    ASSUME OrderInv, NEW r \in Requests, NEW j \in Ordinals, step[r][j] \notin {"pending", Absent}
    PROVE  request[r] # "draft"
BY DEF OrderInv, Drafted

LEMMA DecideInOrder ==
    ASSUME IInv, OrderInv, NEW q \in Requests, NEW i \in Ordinals, NEW r \in Requests, NEW j \in Ordinals,
           NEW h \in Humans, NEW d \in {"approved", "rejected"}, DecideStep(r, j, h, d)
    PROVE  OrderEffect(q, i)
<1>1. PICK s \in {"ready", "failed"} : step' = [step EXCEPT ![r][j] = s]
  BY DEF DecideStep
<1>2. step[r][j] = "awaiting_approval" /\ request[r] # "draft"
  BY NotDraft DEF DecideStep, Absent
<1>3. request[r] # "running" /\ request'[r] # "awaiting_approval"
  BY DEF DecideStep, CanTransitionRequest, RequestTransitions, RequestStatus, IInv, TypeOK, StoreTypes
<1>4. MovesTo(r, j, s) /\ s \in StepStatus
  BY <1>2, <1>3 DEF MovesTo, FinishedStep, Dispatched, Undispatched, StepStatus
<1> QED BY <1>1, <1>4, OneMoves

LEMMA ResumeInOrder ==
    ASSUME IInv, NEW q \in Requests, NEW i \in Ordinals, NEW r \in Requests, NEW j \in Ordinals,
           ResumeRequest(r, j)
    PROVE  OrderEffect(q, i)
<1>1. /\ step' = [step EXCEPT ![r][j] = "ready"] /\ step[r][j] = "failed"
      /\ request[r] = "failed" /\ request'[r] = "running"
  BY DEF ResumeRequest, IInv, TypeOK, StoreTypes
<1>2. MovesTo(r, j, "ready") /\ "ready" \in StepStatus
  BY <1>1 DEF MovesTo, FinishedStep, Dispatched, Undispatched, StepStatus
<1> QED BY <1>1, <1>2, OneMoves

LEMMA ExpireInOrder ==
    ASSUME IInv, OrderInv, NEW q \in Requests, NEW i \in Ordinals, NEW r \in Requests, NEW j \in Ordinals,
           ExpireApproval(r, j)
    PROVE  OrderEffect(q, i)
<1>1. CASE UNCHANGED storeVars
  BY <1>1, StillInOrder DEF storeVars
<1>2. CASE /\ step[r][j] = "awaiting_approval" /\ step' = [step EXCEPT ![r][j] = "failed"]
           /\ CanTransitionRequest(request[r], "rejected") /\ request' = [request EXCEPT ![r] = "rejected"]
  <2>1. request[r] \notin {"draft", "running"} /\ request'[r] = "rejected"
    BY <1>2, NotDraft
       DEF CanTransitionRequest, RequestTransitions, RequestStatus, Absent, IInv, TypeOK, StoreTypes
  <2>2. MovesTo(r, j, "failed") /\ "failed" \in StepStatus
    BY <1>2, <2>1 DEF MovesTo, FinishedStep, Dispatched, Undispatched, StepStatus
  <2> QED BY <1>2, <2>2, OneMoves
<1> QED BY <1>1, <1>2 DEF ExpireApproval

LEMMA ClaimInOrder ==
    ASSUME IInv, OrderInv, NEW q \in Requests, NEW i \in Ordinals, NEW w \in Workers, NEW t \in queue,
           ClaimStep(w, t)
    PROVE  OrderEffect(q, i)
<1>1. t.req \in Requests /\ t.ord \in Ordinals
  BY DeliveredTask DEF IInv, TypeOK
<1>2. step' = [step EXCEPT ![t.req][t.ord] = "running"] /\ step[t.req][t.ord] \in {"ready", "running"}
  BY DEF ClaimStep, Claimable
<1>3. request[t.req] # "draft"
  BY <1>1, <1>2, NotDraft DEF Absent
<1>4. MovesTo(t.req, t.ord, "running") /\ "running" \in StepStatus
  BY <1>2, <1>3 DEF MovesTo, FinishedStep, Dispatched, Undispatched, StepStatus
<1> QED BY <1>1, <1>2, <1>4, OneMoves

LEMMA SettleInOrder ==
    ASSUME IInv, OrderInv, NEW q \in Requests, NEW i \in Ordinals, NEW w \in Workers,
           SettleStep(w) \/ SettleFailure(w)
    PROVE  OrderEffect(q, i)
<1>1. R(w) \in Requests /\ I(w) \in Ordinals
  BY BusyJob DEF SettleStep, SettleFailure, IInv, TypeOK
<1>2. CASE step' = step
  BY <1>2, StillInOrder
<1>3. ASSUME NEW s \in FinishedStep \cup {"ready", "failed"}, step[R(w)][I(w)] = "running",
             step' = [step EXCEPT ![R(w)][I(w)] = s], s \in FinishedStep => pc[w] = "settle"
      PROVE  OrderEffect(q, i)
  <2>1. pc[w] \in {"settle", "failing"} /\ pc'[w] \notin Claimed
    BY DEF SettleStep, SettleFailure, Goto, Claimed, IInv, TypeOK, WorkerTypes
  <2>2. Settler(R(w), I(w))
    BY <2>1 DEF Settler
  <2>3. request[R(w)] # "draft"
    BY <1>1, <1>3, NotDraft DEF Absent
  <2>4. MovesTo(R(w), I(w), s) /\ s \in StepStatus
    BY <1>3, <2>2, <2>3 DEF MovesTo, FinishedStep, Dispatched, Undispatched, StepStatus
  <2> QED BY <1>1, <1>3, <2>4, OneMoves
<1>4. CASE SettleStep(w)
  <2>1. out[w] \in FinishedStep
    BY <1>4 DEF SettleStep, IInv, WorkerLocals, LocalsOf
  <2> QED BY <1>2, <1>3, <1>4, <2>1 DEF SettleStep
<1>5. CASE SettleFailure(w)
  BY <1>2, <1>3, <1>5 DEF SettleFailure, FinishedStep
<1> QED BY <1>4, <1>5

LEMMA DispatchInOrder ==
    ASSUME IInv, OrderInv, NEW q \in Requests, NEW i \in Ordinals, NEW w \in Workers,
           ReleaseStep(w) \/ HaltStep(w)
    PROVE  OrderEffect(q, i)
<1>1. R(w) \in Requests /\ I(w) \in Ordinals /\ nxt[w] \in Ordinals /\ pc[w] \in {"release", "halt"}
  BY BusyJob DEF ReleaseStep, HaltStep, IInv, TypeOK, WorkerLocals, LocalsOf
<1>2. CASE step' = step
  BY <1>2, StillInOrder
<1>3. ASSUME NEW s \in {"ready", "awaiting_approval"}, step[R(w)][nxt[w]] = "pending",
             step' = [step EXCEPT ![R(w)][nxt[w]] = s]
      PROVE  OrderEffect(q, i)
  <2>1. Dispatcher(R(w), nxt[w])
    BY <1>1 DEF Dispatcher, ReleaseStep, HaltStep, Goto, IInv, TypeOK, WorkerTypes
  <2>2. step[R(w)][I(w)] \in FinishedStep
    BY <1>1 DEF OrderInv, Holds, Advancing
  <2>3. request[R(w)] # "draft"
    BY <1>1, <2>2, NotDraft DEF FinishedStep, Absent
  <2>4. MovesTo(R(w), nxt[w], s) /\ s \in StepStatus
    BY <1>3, <2>1, <2>3 DEF MovesTo, FinishedStep, Dispatched, Undispatched, StepStatus
  <2> QED BY <1>1, <1>3, <2>4, OneMoves
<1> QED BY <1>2, <1>3 DEF ReleaseStep, HaltStep

LEMMA OrderStep ==
    ASSUME IInv, OrderInv, [Next]_vars, NEW q \in Requests, NEW i \in Ordinals
    PROVE  OrderEffect(q, i)
<1>1. CASE UNCHANGED vars
  BY <1>1, StillInOrder DEF vars, storeVars
<1>2. CASE Operator
  BY <1>2, StillInOrder, CreateInOrder, CancelInOrder, ResumeInOrder, DecideInOrder
     DEF Operator, SetApprovalPolicy, ReadForCancel, AdminCancel, storeVars
<1>3. CASE Api
  BY <1>3, StillInOrder, StartInOrder, CancelInOrder, CompensateInOrder
     DEF Api, ServeStart, ServeCancel, StartRefused, RequesterCancel, EnqueueOwed, storeVars
<1>4. ASSUME NEW t \in queue, Deliver(t) PROVE OrderEffect(q, i)
  <2>1. t.req \in Requests /\ t.ord \in Ordinals
    BY DeliveredTask DEF IInv, TypeOK
  <2> QED BY <1>4, <2>1, StillInOrder, ClaimInOrder, ExpireInOrder
          DEF Deliver, NotClaimable, ExpiryRefused, NotifyApprovers, NotifyRefused,
              NotifyUndelivered, storeVars
<1>5. ASSUME NEW w \in Workers, Handler(w) PROVE OrderEffect(q, i)
  BY <1>5, StillInOrder
     DEF Handler, ReadAccount, SuspendUser, UnsuspendUser, DeleteUser, CreateUser,
         OtherHandler, HandlerError, Yields, storeVars
<1>6. ASSUME NEW w \in Workers, Advance(w) PROVE OrderEffect(q, i)
  BY <1>6, StillInOrder, SettleInOrder, DispatchInOrder
     DEF Advance, AdvanceReadRequest, AdvanceReadSteps, FinishRequest, FinishThrows, FollowHalt,
         EnqueueNotification, EnqueueExpiry, EnqueueNext, FailRequest, Answer200, Answer500, storeVars
<1>7. CASE Failures
  BY <1>7, StillInOrder
     DEF Failures, Crash, CallThrows, NotifyFails, NotifyUndelivered, LoseOwed, LoseCall, storeVars
<1> QED BY <1>1, <1>2, <1>3, <1>4, <1>5, <1>6, <1>7 DEF Next

-----------------------------------------------------------------------------
(* What it may do to a worker *)

\* The worker keeps its place, is done with its step, or takes the one step of the
\* engine that is next.
Progress(w) ==
    \/ pc'[w] = pc[w] /\ job'[w] = job[w] /\ nxt'[w] = nxt[w]
    \/ pc'[w] \notin Claimed \cup Advancing
    \/ pc[w] = "idle" /\ \E t \in queue : ClaimStep(w, t)
    \/ /\ pc[w] \in {"exec", "mutate"} /\ pc'[w] \in {"mutate", "settle", "failing"}
       /\ job'[w] = job[w] /\ step' = step
    \/ SettleStep(w) /\ pc'[w] = "advance" /\ job'[w] = job[w]
    \/ /\ pc[w] \in Advancing \cup {"settle"} /\ pc'[w] = "failing"
       /\ job'[w] = job[w] /\ step' = step
    \/ /\ pc[w] \in Advancing /\ pc'[w] \in Advancing \ {"release", "halt", "finish"}
       /\ job'[w] = job[w]
    \/ AdvanceReadSteps(w) /\ pc'[w] \in Advancing \cup {"ack"} /\ job'[w] = job[w]

LEMMA IdleProgress ==
    ASSUME NEW w \in Workers, UNCHANGED workVars
    PROVE  Progress(w)
BY DEF Progress, workVars

LEMMA OtherProgress ==
    ASSUME WorkerTypes, NEW v \in Workers, NEW w \in Workers, v # w,
           Handler(v) \/ Advance(v) \/ Crash(v) \/ CallThrows(v)
    PROVE  Progress(w)
<1>1. pc'[w] = pc[w] /\ job'[w] = job[w] /\ nxt'[w] = nxt[w]
  BY DEF Handler, ReadAccount, SuspendUser, UnsuspendUser, DeleteUser, CreateUser, OtherHandler,
         HandlerError, Yields, Advance, SettleStep, AdvanceReadRequest, AdvanceReadSteps,
         FinishRequest, FinishThrows, ReleaseStep, HaltStep, FollowHalt, EnqueueNotification,
         EnqueueExpiry, EnqueueNext, SettleFailure, FailRequest, Answer200, Answer500,
         Finished, Crash, CallThrows, Goto, WorkerTypes
<1> QED BY <1>1 DEF Progress

LEMMA OwnProgress ==
    ASSUME WorkerTypes, NEW w \in Workers, Handler(w) \/ Advance(w) \/ Crash(w) \/ CallThrows(w)
    PROVE  Progress(w)
<1> USE DEF WorkerTypes, Goto
<1>1. CASE Handler(w)
  <2>1. pc[w] \in {"exec", "mutate"} /\ job' = job /\ step' = step
        /\ \E label \in {"mutate", "settle", "failing"} : Goto(w, label)
    BY <1>1 DEF Handler, ReadAccount, SuspendUser, UnsuspendUser, DeleteUser, CreateUser,
                OtherHandler, HandlerError, Handles, Yields, storeVars
  <2> QED BY <2>1 DEF Progress
<1>2. CASE SettleStep(w)
  BY <1>2 DEF SettleStep, Progress
<1>3. CASE AdvanceReadSteps(w)
  <2>1. job' = job /\ \E label \in Advancing \cup {"ack"} : Goto(w, label)
    BY <1>3 DEF AdvanceReadSteps, NextMove, Advancing
  <2> QED BY <1>3, <2>1 DEF Progress
<1>4. CASE Answer200(w) \/ Answer500(w) \/ Crash(w) \/ SettleFailure(w) \/ FailRequest(w)
  <2>1. \E label \in {"idle", "nack", "failRequest", "ack"} : pc' = [pc EXCEPT ![w] = label]
    BY <1>4 DEF Answer200, Answer500, Crash, SettleFailure, FailRequest, Finished
  <2> QED BY <2>1 DEF Progress, Claimed, Advancing
<1>5. CASE CallThrows(w) \/ FinishThrows(w)
  BY <1>5 DEF CallThrows, FinishThrows, Progress, Advancing, storeVars
<1>6. CASE AdvanceReadRequest(w) \/ FinishRequest(w) \/ ReleaseStep(w) \/ HaltStep(w) \/ FollowHalt(w)
           \/ EnqueueNotification(w) \/ EnqueueExpiry(w) \/ EnqueueNext(w)
  <2>1. pc[w] \in Advancing /\ job' = job
        /\ \E label \in {"ack", "plan", "enqueue", "follow", "notify", "expiry"} : Goto(w, label)
    BY <1>6 DEF AdvanceReadRequest, FinishRequest, ReleaseStep, HaltStep, FollowHalt,
                EnqueueNotification, EnqueueExpiry, EnqueueNext, Advancing
  <2> QED BY <2>1 DEF Progress, Claimed, Advancing
<1> QED BY <1>1, <1>2, <1>3, <1>4, <1>5, <1>6 DEF Advance

LEMMA ProgressStep ==
    ASSUME IInv, [Next]_vars, NEW w \in Workers
    PROVE  Progress(w)
<1>1. CASE UNCHANGED vars \/ Operator
  <2>1. UNCHANGED workVars
    BY <1>1 DEF vars, Operator, SetApprovalPolicy, CreateRequest, ReadForCancel, AdminCancel,
                ResumeRequest, DecideStep
  <2> QED BY <2>1, IdleProgress
<1>2. CASE Api
  <2>1. UNCHANGED workVars
    BY <1>2 DEF Api, ServeStart, ServeCancel, StartFirstStep, StartRefused, RequesterCancel,
                AppendCompensatingStep, EnqueueOwed
  <2> QED BY <2>1, IdleProgress
<1>3. ASSUME NEW t \in queue, NEW v \in Workers, ClaimStep(v, t) PROVE Progress(w)
  BY <1>3 DEF ClaimStep, Goto, Progress, IInv, TypeOK, WorkerTypes
<1>4. ASSUME NEW t \in queue, Deliver(t) PROVE Progress(w)
  <2>1. UNCHANGED workVars \/ \E v \in Workers : ClaimStep(v, t)
    BY <1>4 DEF Deliver, NotClaimable, ExpireApproval, ExpiryRefused, NotifyApprovers,
                NotifyRefused, NotifyUndelivered
  <2> QED BY <1>3, <2>1, IdleProgress
<1>5. ASSUME NEW v \in Workers, Handler(v) \/ Advance(v) \/ Crash(v) \/ CallThrows(v)
      PROVE  Progress(w)
  BY <1>5, OtherProgress, OwnProgress DEF IInv, TypeOK
<1>6. CASE Failures
  <2>1. UNCHANGED workVars \/ \E v \in Workers : Crash(v) \/ CallThrows(v)
    BY <1>6 DEF Failures, NotifyFails, NotifyUndelivered, LoseOwed, LoseCall
  <2> QED BY <1>5, <2>1, IdleProgress
<1> QED BY <1>1, <1>2, <1>4, <1>5, <1>6 DEF Next

-----------------------------------------------------------------------------
(* What it may do to a request and to the calls about it *)

RequestEffect(r) ==
    /\ request[r] = "rejected" => request'[r] = "rejected"
    /\ request'[r] = "rejected" /\ request[r] # "rejected"
          => \E i \in Ordinals : step[r][i] = "awaiting_approval" /\ step'[r][i] = "failed"
    /\ Compensating(r)' /\ ~Compensating(r)
          => /\ request'[r] # "rejected"
             /\ \A i \in Ordinals : step'[r][i] \notin Undispatched
    /\ request[r] = Absent /\ request'[r] # Absent
          => \A i \in 1..Len(Plan[r]) : step'[r][i] # Absent
    /\ request'[r] = "draft" /\ request[r] # "draft"
          => \A i \in Ordinals : step'[r][i] \in {"pending", Absent}
    /\ request'[r] = "draft" => [op |-> "compensate", req |-> r] \notin calls'
    /\ request'[r] = "succeeded" /\ request[r] # "succeeded"
          => \E w \in Workers : pc[w] = "finish" /\ R(w) = r
    /\ [op |-> "start", req |-> r] \in calls' => request'[r] \in {"draft", "cancelled"}
    /\ Compensating(r)' /\ ~Compensating(r)
          => [op |-> "compensate", req |-> r] \in calls /\ step'[r][CompOrdinal(r)] = "ready"
    /\ [op |-> "compensate", req |-> r] \in calls' \ calls
          => \E i \in Ordinals : NameOf(r, i) = "suspend-user" /\ step[r][i] = "succeeded"

\* A step that exists already is no new compensation.
LEMMA NoNewCompensation ==
    ASSUME StoreTypes, NEW r \in Requests, NEW q \in Requests, NEW j \in Ordinals, NEW s \in StepStatus,
           step[q][j] # Absent, step' = [step EXCEPT ![q][j] = s], Compensating(r)'
    PROVE  Compensating(r)
BY CompOrdinalType DEF Compensating, StoreTypes

LEMMA StillRequest ==
    ASSUME OrderInv, NEW r \in Requests, request'[r] = request[r], calls' \subseteq calls,
           Compensating(r)' => Compensating(r)
    PROVE  RequestEffect(r)
BY DEF OrderInv, Drafted, RequestEffect

LEMMA MovedRequest ==
    ASSUME IInv, OrderInv, NEW r \in Requests, NEW q \in Requests, NEW to \in RequestStatus,
           request' = [request EXCEPT ![q] = to], to \notin {"rejected", "draft"},
           request[q] \notin {"rejected", "draft", "cancelled", Absent},
           to = "succeeded" => \E w \in Workers : pc[w] = "finish" /\ R(w) = q,
           calls' \subseteq calls, Compensating(r)' => Compensating(r)
    PROVE  RequestEffect(r)
<1>1. CASE r = q
  <2>1. request'[r] = to /\ [op |-> "start", req |-> r] \notin calls
    BY <1>1 DEF IInv, TypeOK, StoreTypes, OrderInv, Drafted
  <2> QED BY <1>1, <2>1 DEF RequestEffect
<1>2. CASE r # q
  BY <1>2, StillRequest DEF IInv, TypeOK, StoreTypes
<1> QED BY <1>1, <1>2

LEMMA CreateRequestEffect ==
    ASSUME IInv, OrderInv, NEW r \in Requests, NEW q \in Requests, NEW loaded \in Policies,
           CreateRequest(q, loaded)
    PROVE  RequestEffect(r)
<1>1. CASE r = q
  <2>1. request[r] = Absent /\ request'[r] = "draft"
    BY <1>1 DEF CreateRequest, IInv, TypeOK, StoreTypes
  <2>2. \A i \in Ordinals : step'[r][i] = IF i \in 1..Len(Plan[r]) THEN "pending" ELSE Absent
    BY <1>1 DEF CreateRequest, IInv, TypeOK, StoreTypes
  <2>3. ~Compensating(r)'
    BY <2>2, CompOrdinalType DEF Compensating
  <2>4. [op |-> "compensate", req |-> r] \notin calls'
    BY <2>1 DEF CreateRequest, IInv, CallsExist
  <2> QED BY <2>1, <2>2, <2>3, <2>4, CompOrdinalType DEF RequestEffect, Absent
<1>2. CASE r # q
  <2>1. request'[r] = request[r] /\ step'[r] = step[r]
    BY <1>2 DEF CreateRequest, IInv, TypeOK, StoreTypes
  <2>2. \A op \in {"start", "compensate"} : [op |-> op, req |-> r] \in calls' => [op |-> op, req |-> r] \in calls
    BY <1>2 DEF CreateRequest
  <2> QED BY <2>1, <2>2 DEF RequestEffect, OrderInv, Drafted, Compensating
<1> QED BY <1>1, <1>2

LEMMA ReadForCancelEffect ==
    ASSUME IInv, OrderInv, NEW r \in Requests, NEW q \in Requests, ReadForCancel(q)
    PROVE  RequestEffect(r)
<1>1. UNCHANGED <<request, step>>
  BY DEF ReadForCancel, storeVars
<1>2. [op |-> "start", req |-> r] \in calls' => [op |-> "start", req |-> r] \in calls
  BY DEF ReadForCancel
<1>3. request[r] = "draft" => [op |-> "compensate", req |-> r] \notin calls'
  <2> SUFFICES ASSUME request[r] = "draft", [op |-> "compensate", req |-> r] \in calls' PROVE FALSE
    OBVIOUS
  <2>1. [op |-> "compensate", req |-> r] \notin calls
    BY DEF OrderInv, Drafted
  <2>2. r = q /\ \E i \in Ordinals : step[r][i] = "succeeded"
    BY <2>1 DEF ReadForCancel
  <2> QED BY <2>2, NotDraft DEF Absent
<1>4. [op |-> "compensate", req |-> r] \in calls' \ calls
          => \E i \in Ordinals : NameOf(r, i) = "suspend-user" /\ step[r][i] = "succeeded"
  BY DEF ReadForCancel
<1> QED BY <1>1, <1>2, <1>3, <1>4 DEF RequestEffect, OrderInv, Drafted, Compensating

LEMMA StartRequestEffect ==
    ASSUME IInv, OrderInv, NEW r \in Requests, NEW q \in Requests, StartFirstStep(q)
    PROVE  RequestEffect(r)
<1>1. PICK s \in {"awaiting_approval", "ready"}, to \in {"awaiting_approval", "running"} :
          step' = [step EXCEPT ![q][1] = s] /\ request' = [request EXCEPT ![q] = to]
  BY DEF StartFirstStep
<1>2. request[q] = "draft" /\ calls' = calls \ {[op |-> "start", req |-> q]}
  BY DEF OrderInv, Drafted, StartFirstStep, CanTransitionRequest, RequestTransitions, RequestStatus
<1>3. Compensating(r)' => Compensating(r)
  BY <1>1, CompOrdinalType DEF Compensating, IInv, TypeOK, StoreTypes
<1>4. CASE r = q
  <2>1. request'[r] = to
    BY <1>1, <1>4 DEF IInv, TypeOK, StoreTypes
  <2> QED BY <1>2, <1>3, <1>4, <2>1 DEF RequestEffect, Absent
<1>5. CASE r # q
  BY <1>1, <1>2, <1>3, <1>5, StillRequest DEF IInv, TypeOK, StoreTypes
<1> QED BY <1>4, <1>5

LEMMA DecideRequestEffect ==
    ASSUME IInv, OrderInv, NEW r \in Requests, NEW q \in Requests, NEW j \in Ordinals,
           NEW h \in Humans, NEW d \in {"approved", "rejected"}, DecideStep(q, j, h, d)
    PROVE  RequestEffect(r)
<1>1. PICK s \in {"ready", "failed"}, to \in {"running", "rejected"} :
          /\ step' = [step EXCEPT ![q][j] = s] /\ request' = [request EXCEPT ![q] = to]
          /\ to = "rejected" => s = "failed"
          /\ CanTransitionRequest(request[q], to)
  BY DEF DecideStep
<1>2. step[q][j] = "awaiting_approval" /\ calls' = calls
  BY DEF DecideStep
<1>3. request[q] # "draft" /\ request[q] # Absent
  BY <1>2, NotDraft DEF IInv, DocumentExists, Absent
<1>4. request[q] \notin {"rejected", "cancelled"}
  BY <1>1 DEF CanTransitionRequest, RequestTransitions, RequestStatus
<1>5. s \in StepStatus /\ to \in RequestStatus
  BY DEF StepStatus, RequestStatus
<1>6. Compensating(r)' => Compensating(r)
  BY <1>1, <1>2, <1>5, NoNewCompensation DEF Absent, IInv, TypeOK
<1>7. CASE r # q
  BY <1>1, <1>2, <1>6, <1>7, StillRequest DEF IInv, TypeOK, StoreTypes
<1>8. CASE r = q
  <2>1. request'[r] = to /\ step'[r][j] = s
    BY <1>1, <1>8 DEF IInv, TypeOK, StoreTypes
  <2>2. [op |-> "start", req |-> r] \notin calls
    BY <1>3, <1>4, <1>8 DEF OrderInv, Drafted
  <2> QED BY <1>1, <1>2, <1>3, <1>4, <1>6, <1>8, <2>1, <2>2 DEF RequestEffect
<1> QED BY <1>7, <1>8

LEMMA CancelRequestEffect ==
    ASSUME IInv, OrderInv, NEW r \in Requests, NEW q \in Requests, request[q] # Absent,
           CancelRequest(q), calls' \subseteq calls
    PROVE  RequestEffect(r)
<1>1. CASE UNCHANGED storeVars
  BY <1>1, StillRequest DEF storeVars, Compensating
<1>2. CASE /\ ~Terminal(q) /\ request' = [request EXCEPT ![q] = "cancelled"]
           /\ step' = [step EXCEPT ![q] = [k \in Ordinals |-> Stopped(step[q][k])]]
           /\ CanTransitionRequest(request[q], "cancelled")
  <2>1. Compensating(r)' => Compensating(r)
    <3> DEFINE c == CompOrdinal(r)
    <3>1. c \in Ordinals
      BY CompOrdinalType
    <3>2. step'[r][c] \in {step[r][c], Stopped(step[r][c])}
      BY <1>2, <3>1 DEF IInv, TypeOK, StoreTypes
    <3> QED BY <3>2 DEF Compensating, Stopped, Absent
  <2>2. CASE r # q
    BY <1>2, <2>1, <2>2, StillRequest DEF IInv, TypeOK, StoreTypes
  <2>3. CASE r = q
    <3>1. request'[r] = "cancelled" /\ request[r] # "rejected"
      BY <1>2, <2>3 DEF IInv, TypeOK, StoreTypes, Terminal, TerminalRequestStatus
    <3> QED BY <2>1, <2>3, <3>1 DEF RequestEffect, Absent
  <2> QED BY <2>2, <2>3
<1> QED BY <1>1, <1>2 DEF CancelRequest

LEMMA CompensateRequestEffect ==
    ASSUME IInv, OrderInv, NEW r \in Requests, NEW q \in Requests, AppendCompensatingStep(q)
    PROVE  RequestEffect(r)
<1>1. calls' \subseteq calls /\ request[q] \notin {"draft", Absent}
  BY DEF AppendCompensatingStep, OrderInv, Drafted, IInv, CallsExist
<1>2. CASE UNCHANGED storeVars
  BY <1>1, <1>2, StillRequest DEF storeVars, Compensating
<1>3. CASE /\ ~Terminal(q) /\ request' = [request EXCEPT ![q] = "running"]
           /\ step' = [step EXCEPT ![q] = [i \in Ordinals |->
                          IF i = CompOrdinal(q) THEN "ready" ELSE Stopped(step[q][i])]]
  <2>1. CASE r # q
    <3>1. request'[r] = request[r] /\ step'[r] = step[r]
      BY <1>3, <2>1 DEF IInv, TypeOK, StoreTypes
    <3> QED BY <1>1, <3>1, StillRequest DEF Compensating
  <2>2. CASE r = q
    <3>1. request'[r] = "running" /\ request[r] \notin {"rejected", "cancelled"}
      BY <1>3, <2>2 DEF IInv, TypeOK, StoreTypes, Terminal, TerminalRequestStatus
    <3>2. \A i \in Ordinals : step'[r][i] \notin Undispatched
      BY <1>3, <2>2 DEF IInv, TypeOK, StoreTypes, Stopped, Undispatched
    <3>3. [op |-> "start", req |-> r] \notin calls
      BY <1>1, <2>2, <3>1 DEF OrderInv, Drafted
    <3>4. [op |-> "compensate", req |-> r] \in calls
      BY <2>2 DEF AppendCompensatingStep
    <3>5. step'[r][CompOrdinal(r)] = "ready"
      BY <1>3, <2>2, CompOrdinalType DEF IInv, TypeOK, StoreTypes
    <3> QED BY <1>1, <2>2, <3>1, <3>2, <3>3, <3>4, <3>5 DEF RequestEffect
  <2> QED BY <2>1, <2>2
<1> QED BY <1>2, <1>3 DEF AppendCompensatingStep

LEMMA ResumeRequestEffect ==
    ASSUME IInv, OrderInv, NEW r \in Requests, NEW q \in Requests, NEW j \in Ordinals, ResumeRequest(q, j)
    PROVE  RequestEffect(r)
<1>1. /\ step' = [step EXCEPT ![q][j] = "ready"] /\ step[q][j] = "failed"
      /\ request' = [request EXCEPT ![q] = "running"] /\ request[q] = "failed" /\ calls' = calls
  BY DEF ResumeRequest
<1>2. "ready" \in StepStatus /\ "running" \in RequestStatus
  BY DEF StepStatus, RequestStatus
<1>3. Compensating(r)' => Compensating(r)
  BY <1>1, <1>2, NoNewCompensation DEF Absent, IInv, TypeOK
<1> QED BY <1>1, <1>2, <1>3, MovedRequest DEF Absent

LEMMA ExpireRequestEffect ==
    ASSUME IInv, OrderInv, NEW r \in Requests, NEW q \in Requests, NEW j \in Ordinals, ExpireApproval(q, j)
    PROVE  RequestEffect(r)
<1>1. calls' = calls
  BY DEF ExpireApproval, apiVars
<1>2. CASE UNCHANGED storeVars
  BY <1>1, <1>2, StillRequest DEF storeVars, Compensating
<1>3. CASE /\ step[q][j] = "awaiting_approval" /\ step' = [step EXCEPT ![q][j] = "failed"]
           /\ request' = [request EXCEPT ![q] = "rejected"] /\ ~Terminal(q)
  <2>1. request[q] \notin {"draft", "cancelled"}
    BY <1>3, NotDraft DEF Terminal, TerminalRequestStatus, Absent
  <2>2. Compensating(r)' => Compensating(r)
    BY <1>3, NoNewCompensation DEF StepStatus, Absent, IInv, TypeOK
  <2>3. CASE r # q
    BY <1>1, <1>3, <2>2, <2>3, StillRequest DEF IInv, TypeOK, StoreTypes
  <2>4. CASE r = q
    <3>1. request'[r] = "rejected" /\ step'[r][j] = "failed" /\ request[r] # Absent
      BY <1>3, <2>4 DEF IInv, TypeOK, StoreTypes, DocumentExists, Absent
    <3>2. [op |-> "start", req |-> r] \notin calls
      BY <2>1, <2>4 DEF OrderInv, Drafted
    <3> QED BY <1>1, <1>3, <2>2, <2>4, <3>1, <3>2 DEF RequestEffect
  <2> QED BY <2>3, <2>4
<1> QED BY <1>2, <1>3 DEF ExpireApproval

LEMMA WorkerRequestEffect ==
    ASSUME IInv, OrderInv, NEW r \in Requests, NEW w \in Workers,
           \/ \E t \in queue : ClaimStep(w, t)
           \/ SettleStep(w) \/ SettleFailure(w) \/ ReleaseStep(w) \/ HaltStep(w)
    PROVE  RequestEffect(r)
<1>1. request' = request /\ calls' = calls
  BY DEF ClaimStep, SettleStep, SettleFailure, ReleaseStep, HaltStep, apiVars
<1>2. ASSUME NEW q \in Requests, NEW j \in Ordinals, NEW s \in StepStatus,
             step[q][j] # Absent, step' = step \/ step' = [step EXCEPT ![q][j] = s]
      PROVE  RequestEffect(r)
  <2>1. Compensating(r)' => Compensating(r)
    BY <1>2, NoNewCompensation DEF IInv, TypeOK, Compensating
  <2> QED BY <1>1, <2>1, StillRequest
<1>3. CASE step' = step
  BY <1>1, <1>3, StillRequest DEF Compensating
<1>4. ASSUME NEW t \in queue, ClaimStep(w, t) PROVE RequestEffect(r)
  <2>1. t.req \in Requests /\ t.ord \in Ordinals
    BY DeliveredTask DEF IInv, TypeOK
  <2>2. step[t.req][t.ord] # Absent /\ step' = [step EXCEPT ![t.req][t.ord] = "running"]
    BY <1>4 DEF ClaimStep, Claimable, Absent
  <2> QED BY <1>2, <2>1, <2>2 DEF StepStatus
<1>5. CASE SettleStep(w) \/ SettleFailure(w)
  <2>1. R(w) \in Requests /\ I(w) \in Ordinals
    BY <1>5, BusyJob DEF SettleStep, SettleFailure, IInv, TypeOK
  <2>2. step' = step \/ \E s \in {"succeeded", "skipped", "ready", "failed"} :
                            /\ step[R(w)][I(w)] = "running"
                            /\ step' = [step EXCEPT ![R(w)][I(w)] = s]
    BY <1>5 DEF SettleStep, SettleFailure, IInv, WorkerLocals, LocalsOf, FinishedStep
  <2> QED BY <1>2, <1>3, <2>1, <2>2 DEF StepStatus, Absent
<1>6. CASE ReleaseStep(w) \/ HaltStep(w)
  <2>1. R(w) \in Requests /\ nxt[w] \in Ordinals
    BY <1>6, BusyJob DEF ReleaseStep, HaltStep, IInv, TypeOK, WorkerLocals, LocalsOf
  <2>2. step' = step \/ \E s \in {"awaiting_approval", "ready"} :
                            /\ step[R(w)][nxt[w]] = "pending"
                            /\ step' = [step EXCEPT ![R(w)][nxt[w]] = s]
    BY <1>6 DEF ReleaseStep, HaltStep
  <2> QED BY <1>2, <1>3, <2>1, <2>2 DEF StepStatus, Absent
<1> QED BY <1>4, <1>5, <1>6

LEMMA MoveRequestEffect ==
    ASSUME IInv, OrderInv, NEW r \in Requests, NEW w \in Workers,
           FinishRequest(w) \/ FollowHalt(w) \/ FailRequest(w)
    PROVE  RequestEffect(r)
<1>1. step' = step /\ calls' = calls /\ R(w) \in Requests
  BY BusyJob DEF FinishRequest, FollowHalt, FailRequest, apiVars, IInv, TypeOK
<1>2. CASE request' = request
  BY <1>1, <1>2, StillRequest DEF Compensating
<1>3. ASSUME NEW to \in RequestStatus \ {"rejected", "draft"}, request' = [request EXCEPT ![R(w)] = to],
             request[R(w)] \in {"running", "awaiting_approval", "held"},
             to = "succeeded" => pc[w] = "finish"
      PROVE  RequestEffect(r)
  BY <1>1, <1>3, MovedRequest DEF Compensating, Absent
<1>4. CASE FinishRequest(w)
  <2>1. request[R(w)] \in {"running", "awaiting_approval", "held"}
            => out[w] \in RequestStatus \ {"rejected", "draft"}
    BY <1>4 DEF FinishRequest, CanTransitionRequest, RequestTransitions, RequestStatus,
                IInv, TypeOK, WorkerTypes
  <2>2. pc[w] = "finish"
    BY <1>4 DEF FinishRequest
  <2> QED BY <1>2, <1>3, <1>4, <2>1, <2>2 DEF FinishRequest, MoveRequest
<1>5. CASE FailRequest(w)
  BY <1>2, <1>3, <1>5 DEF FailRequest, MoveRequest, RequestStatus
<1>6. CASE FollowHalt(w)
  <2>1. step[R(w)][I(w)] \in FinishedStep /\ I(w) \in Ordinals
    BY <1>6, BusyJob DEF FollowHalt, OrderInv, Holds, Advancing, IInv, TypeOK
  <2>2. request[R(w)] # "draft"
    BY <1>1, <2>1, NotDraft DEF FinishedStep, Absent
  <2> QED BY <1>2, <1>3, <1>6, <2>2 DEF FollowHalt, MoveRequest, RequestStatus
<1> QED BY <1>4, <1>5, <1>6

LEMMA RequestStep ==
    ASSUME IInv, OrderInv, [Next]_vars, NEW r \in Requests
    PROVE  RequestEffect(r)
<1> DEFINE Quiet == UNCHANGED <<request, step>> /\ calls' \subseteq calls
<1>1. CASE Quiet
  BY <1>1, StillRequest DEF Compensating
<1>2. CASE UNCHANGED vars
  BY <1>1, <1>2 DEF vars, storeVars, apiVars
<1>3. CASE Operator
  <2>1. ASSUME NEW q \in Requests, AdminCancel(q) PROVE RequestEffect(r)
    BY <2>1, CancelRequestEffect DEF AdminCancel, NonTerminalRequestStatus, RequestStatus, Absent, apiVars
  <2> QED BY <1>1, <1>3, <2>1, CreateRequestEffect, ReadForCancelEffect, ResumeRequestEffect,
             DecideRequestEffect DEF Operator, SetApprovalPolicy, apiVars
<1>4. CASE Api
  <2>1. ASSUME NEW q \in Requests, RequesterCancel(q) PROVE RequestEffect(r)
    <3>1. request[q] # Absent
      BY <2>1 DEF RequesterCancel, IInv, CallsExist
    <3> QED BY <2>1, <3>1, CancelRequestEffect DEF RequesterCancel
  <2> QED BY <1>1, <1>4, <2>1, StartRequestEffect, CompensateRequestEffect
          DEF Api, ServeStart, ServeCancel, StartRefused, EnqueueOwed, storeVars
<1>5. ASSUME NEW t \in queue, Deliver(t) PROVE RequestEffect(r)
  <2>1. t.req \in Requests /\ t.ord \in Ordinals
    BY DeliveredTask DEF IInv, TypeOK
  <2> QED BY <1>1, <1>5, <2>1, WorkerRequestEffect, ExpireRequestEffect
          DEF Deliver, NotClaimable, ExpiryRefused, NotifyApprovers, NotifyRefused,
              NotifyUndelivered, storeVars, apiVars
<1>6. ASSUME NEW w \in Workers, Handler(w) PROVE RequestEffect(r)
  BY <1>1, <1>6
     DEF Handler, ReadAccount, SuspendUser, UnsuspendUser, DeleteUser, CreateUser,
         OtherHandler, HandlerError, Yields, storeVars, apiVars
<1>7. ASSUME NEW w \in Workers, Advance(w) PROVE RequestEffect(r)
  BY <1>1, <1>7, WorkerRequestEffect, MoveRequestEffect
     DEF Advance, AdvanceReadRequest, AdvanceReadSteps, FinishThrows, EnqueueNotification,
         EnqueueExpiry, EnqueueNext, Answer200, Answer500, storeVars, apiVars
<1>8. CASE Failures
  BY <1>1, <1>8
     DEF Failures, Crash, CallThrows, NotifyFails, NotifyUndelivered, LoseOwed, LoseCall, storeVars, apiVars
<1> QED BY <1>2, <1>3, <1>4, <1>5, <1>6, <1>7, <1>8 DEF Next

-----------------------------------------------------------------------------
(* The invariant *)

\* A finished step stays finished, and a compensating step stays.
LEMMA InOrderKept ==
    ASSUME IInv, OrderInv, [Next]_vars, NEW r \in Requests, NEW i \in Ordinals, InOrder(r, i)
    PROVE  InOrder(r, i)'
<1>1. CASE Compensating(r)
  <2>1. Effect(r, CompOrdinal(r))
    BY EffectStep, CompOrdinalType
  <2> QED BY <1>1, <2>1 DEF Effect, Compensating, InOrder
<1>2. CASE \A j \in 1..(i - 1) : step[r][j] \in FinishedStep
  <2>1. \A j \in 1..(i - 1) : j \in Ordinals
    BY ConstantsAssumption DEF Ordinals
  <2>2. \A j \in 1..(i - 1) : step'[r][j] \in FinishedStep
    BY <1>2, <2>1, OrderStep DEF OrderEffect, MovesTo
  <2> QED BY <2>2 DEF InOrder, FinishedStep
<1> QED BY <1>1, <1>2 DEF InOrder

\* The step of a worker that answers for it, or has settled it, is a document.
LEMMA WorkerStep ==
    ASSUME IInv, OrderInv, NEW w \in Workers, pc[w] \in Claimed \cup Advancing
    PROVE  /\ R(w) \in Requests /\ I(w) \in Ordinals
           /\ step[R(w)][I(w)] \in FinishedStep \cup {"running"}
           /\ InOrder(R(w), I(w))
           /\ step[R(w)][I(w)] # Absent
<1>1. pc[w] # "idle"
  BY DEF Claimed, Advancing
<1>2. R(w) \in Requests /\ I(w) \in Ordinals
  BY <1>1, BusyJob DEF IInv, TypeOK
<1>3. Holds(w)
  BY DEF OrderInv
<1> QED BY <1>2, <1>3 DEF Holds, Claimed, Advancing, FinishedStep, Absent

\* A step in its turn is finished or has only finished steps before it; beyond the
\* plan a compensation has put it there.
LEMMA DispatchedInOrder ==
    ASSUME IInv, OrderInv, NEW r \in Requests, NEW i \in Ordinals, step[r][i] \in Dispatched
    PROVE  InOrder(r, i)
<1>1. step[r][i] # Absent
  BY DEF Dispatched, Absent
<1>2. CASE i \in 1..Len(Plan[r])
  BY <1>2 DEF OrderInv, Sequenced
<1>3. CASE i = CompOrdinal(r)
  BY <1>1, <1>3 DEF InOrder, Compensating
<1>4. ~(i > CompOrdinal(r))
  BY <1>1 DEF IInv, DocumentExists
<1> QED BY <1>2, <1>3, <1>4, CompOrdinalType

\* The step AdvanceReadSteps chooses is the first one that is not finished.
LEMMA ChosenInOrder ==
    ASSUME IInv, OrderInv, NEW w \in Workers, AdvanceReadSteps(w), pc'[w] \in {"release", "halt"}
    PROVE  nxt'[w] \in Ordinals /\ InOrder(R(w), nxt'[w])
<1>1. R(w) \in Requests /\ I(w) \in Ordinals /\ InOrder(R(w), I(w)) /\ step[R(w)][I(w)] \in FinishedStep
  <2>1. pc[w] = "plan"
    BY DEF AdvanceReadSteps
  <2>2. Holds(w)
    BY DEF OrderInv
  <2> QED BY <2>1, <2>2, WorkerStep DEF Advancing, Holds
<1> DEFINE r == R(w)
           left == Unfinished(r, I(w))
<1>2. PICK j \in left : (\A k \in left : j <= k) /\ nxt' = [nxt EXCEPT ![w] = j]
  BY DEF AdvanceReadSteps, Goto, IInv, TypeOK, WorkerTypes
<1>3. nxt'[w] = j /\ j \in Ordinals /\ j > I(w) /\ step[r][j] # Absent
  BY <1>2 DEF Unfinished, IInv, TypeOK, WorkerTypes
<1>4. CASE Compensating(r)
  BY <1>3, <1>4 DEF InOrder
<1>5. CASE ~Compensating(r)
  <2>1. request[r] # Absent /\ j \in 1..Len(Plan[r])
    BY <1>1, <1>3, <1>5, CompOrdinalType DEF IInv, DocumentExists, Compensating
  <2>2. ASSUME NEW k \in 1..(j - 1) PROVE step[r][k] \in FinishedStep
    <3>1. k \in Ordinals /\ k \in 1..Len(Plan[r]) /\ k < j /\ k \in Nat /\ I(w) \in Nat /\ j \in Nat
      BY <1>1, <1>3, <2>1, ConstantsAssumption, PlanAssumption DEF Ordinals
    <3>2. CASE k < I(w)
      <4>1. k \in 1..(I(w) - 1)
        BY <3>1, <3>2
      <4> QED BY <1>1, <1>5, <4>1 DEF InOrder
    <3>3. CASE k = I(w)
      BY <1>1, <3>3
    <3>4. CASE k > I(w)
      <4>1. step[r][k] # Absent
        BY <1>1, <2>1, <3>1 DEF OrderInv, Sequenced
      <4>2. k \notin left
        BY <1>2, <3>1
      <4> QED BY <3>1, <3>4, <4>1, <4>2 DEF Unfinished
    <3> QED BY <3>1, <3>2, <3>3, <3>4
  <2> QED BY <1>3, <2>2 DEF InOrder
<1> QED BY <1>4, <1>5

\* It ends the request when there is none.
LEMMA EndInOrder ==
    ASSUME IInv, OrderInv, NEW w \in Workers, AdvanceReadSteps(w), pc'[w] = "finish"
    PROVE  InOrder(R(w), CompOrdinal(R(w)))
<1>1. pc[w] = "plan" /\ Unfinished(R(w), I(w)) = {}
  BY DEF AdvanceReadSteps, NextMove, Goto, IInv, TypeOK, WorkerTypes
<1>2. R(w) \in Requests /\ I(w) \in Ordinals /\ InOrder(R(w), I(w)) /\ step[R(w)][I(w)] \in FinishedStep
  BY <1>1, WorkerStep DEF Advancing, OrderInv, Holds
<1> DEFINE r == R(w)
<1> SUFFICES ASSUME ~Compensating(r), NEW k \in 1..(CompOrdinal(r) - 1)
             PROVE  step[r][k] \in FinishedStep
  BY DEF InOrder
<1>3. k \in 1..Len(Plan[r]) /\ k \in Ordinals /\ k \in Nat /\ I(w) \in Nat
  BY <1>2, ConstantsAssumption, PlanAssumption DEF CompOrdinal, Ordinals
<1>4. CASE k < I(w)
  <2>1. k \in 1..(I(w) - 1)
    BY <1>3, <1>4
  <2> QED BY <1>2, <2>1 DEF InOrder
<1>5. CASE k = I(w)
  BY <1>2, <1>5
<1>6. CASE k > I(w)
  <2>1. request[r] # Absent
    BY <1>2 DEF IInv, DocumentExists, FinishedStep, Absent
  <2>2. step[r][k] # Absent
    BY <1>2, <1>3, <2>1 DEF OrderInv, Sequenced
  <2> QED BY <1>1, <1>3, <1>6, <2>2 DEF Unfinished
<1> QED BY <1>3, <1>4, <1>5, <1>6

\* A worker in transit between two steps of its own does not change what it holds.
LEMMA RunningKept ==
    ASSUME IInv, OrderInv, [Next]_vars, NEW w \in Workers, pc[w] \in Claimed, pc'[w] \in Claimed,
           step[R(w)][I(w)] = "running"
    PROVE  step'[R(w)][I(w)] = "running"
<1>1. R(w) \in Requests /\ I(w) \in Ordinals
  BY WorkerStep
<1>2. PICK r \in Requests, i \in Ordinals : r = R(w) /\ i = I(w)
  BY <1>1
<1>3. ASSUME step'[r][i] # "running" PROVE FALSE
  <2>1. Settler(r, i)
    BY <1>2, <1>3, OrderStep DEF OrderEffect, MovesTo
  <2>2. PICK v \in Workers : /\ pc[v] \in {"settle", "failing"} /\ R(v) = r /\ I(v) = i
                             /\ pc'[v] \notin Claimed
    BY <2>1 DEF Settler
  <2>3. v # w
    BY <2>2
  <2> QED BY <1>2, <2>2, <2>3 DEF OrderInv, Excludes, Claimed
<1> QED BY <1>2, <1>3

LEMMA FinishedKept ==
    ASSUME IInv, OrderInv, [Next]_vars, NEW w \in Workers, pc[w] \in Claimed \cup Advancing,
           step[R(w)][I(w)] \in FinishedStep
    PROVE  step'[R(w)][I(w)] \in FinishedStep
<1>1. PICK r \in Requests, i \in Ordinals : r = R(w) /\ i = I(w)
  BY WorkerStep
<1> QED BY <1>1, OrderStep DEF OrderEffect, MovesTo

\* A worker that keeps its task keeps its turn.
LEMMA TurnKept ==
    ASSUME IInv, OrderInv, [Next]_vars, NEW w \in Workers, pc[w] \in Claimed \cup Advancing,
           job'[w] = job[w]
    PROVE  R(w)' = R(w) /\ I(w)' = I(w) /\ InOrder(R(w), I(w))'
<1>1. R(w)' = R(w) /\ I(w)' = I(w)
  BY DEF R, I
<1>2. PICK r \in Requests, i \in Ordinals : r = R(w) /\ i = I(w)
  BY WorkerStep
<1>3. InOrder(r, i)'
  BY <1>2, WorkerStep, InOrderKept
<1>4. r = R(w)' /\ i = I(w)'
  BY <1>1, <1>2
<1> QED BY <1>1, <1>3, <1>4 DEF InOrder, Compensating

LEMMA HoldsStep ==
    ASSUME IInv, OrderInv, [Next]_vars, NEW w \in Workers
    PROVE  Holds(w)'
<1> SUFFICES ASSUME pc'[w] \in Claimed \cup Advancing PROVE Holds(w)'
  BY DEF Holds, Claimed, Advancing
<1>1. Holds(w)
  BY DEF OrderInv
<1>2. CASE pc'[w] = pc[w] /\ job'[w] = job[w] /\ nxt'[w] = nxt[w]
  <2>1. R(w)' = R(w) /\ I(w)' = I(w) /\ InOrder(R(w), I(w))'
    BY <1>2, TurnKept
  <2>2. pc[w] \in {"exec", "mutate", "settle"} => step'[R(w)][I(w)] = "running"
    BY <1>1, <1>2, RunningKept DEF Holds, Claimed
  <2>3. pc[w] \in Advancing => step'[R(w)][I(w)] \in FinishedStep
    BY <1>1, <1>2, FinishedKept DEF Holds
  <2>4. pc[w] = "failing" => step'[R(w)][I(w)] \in FinishedStep \cup {"running"}
    BY <1>1, <1>2, FinishedKept, RunningKept DEF Holds, Claimed
  <2>5. pc[w] \in {"release", "halt"} => InOrder(R(w), nxt[w])'
    <3> SUFFICES ASSUME pc[w] \in {"release", "halt"} PROVE InOrder(R(w), nxt[w])'
      OBVIOUS
    <3>1. nxt[w] \in Ordinals
      BY DEF IInv, WorkerLocals, LocalsOf
    <3>2. PICK r \in Requests, i \in Ordinals : r = R(w) /\ i = nxt[w]
      BY <1>2, <3>1, WorkerStep
    <3>3. InOrder(r, i)'
      BY <1>1, <3>2, InOrderKept DEF Holds
    <3>4. r = R(w)' /\ i = nxt'[w]
      BY <1>2, <2>1, <3>2
    <3> QED BY <3>3, <3>4 DEF InOrder, Compensating
  <2>6. pc[w] = "finish" => InOrder(R(w), CompOrdinal(R(w)))'
    <3> SUFFICES ASSUME pc[w] = "finish" PROVE InOrder(R(w), CompOrdinal(R(w)))'
      OBVIOUS
    <3>1. PICK r \in Requests, i \in Ordinals : r = R(w) /\ i = CompOrdinal(R(w))
      BY <1>2, WorkerStep, CompOrdinalType
    <3>2. InOrder(r, i)'
      BY <1>1, <3>1, InOrderKept DEF Holds
    <3>3. r = R(w)' /\ i = CompOrdinal(R(w)')
      BY <2>1, <3>1
    <3> QED BY <3>2, <3>3 DEF InOrder, Compensating
  <2> QED BY <1>2, <2>1, <2>2, <2>3, <2>4, <2>5, <2>6 DEF Holds
<1>3. ASSUME NEW t \in queue, ClaimStep(w, t) PROVE Holds(w)'
  <2>1. t.req \in Requests /\ t.ord \in Ordinals
    BY DeliveredTask DEF IInv, TypeOK
  <2>2. job'[w] = t /\ pc'[w] = "exec"
    BY <1>3 DEF ClaimStep, Goto, IInv, TypeOK, WorkerTypes
  <2>3. step'[t.req][t.ord] = "running"
    BY <1>3, <2>1 DEF ClaimStep, IInv, TypeOK, StoreTypes
  <2>4. step[t.req][t.ord] \in Dispatched
    BY <1>3 DEF ClaimStep, Claimable, Dispatched
  <2>5. InOrder(t.req, t.ord)'
    BY <2>1, <2>4, DispatchedInOrder, InOrderKept
  <2>6. R(w)' = t.req /\ I(w)' = t.ord
    BY <2>2 DEF R, I
  <2>7. InOrder(R(w), I(w))'
    BY <2>5, <2>6 DEF InOrder, Compensating
  <2> QED BY <2>2, <2>3, <2>6, <2>7 DEF Holds, Advancing
<1>4. CASE /\ pc[w] \in {"exec", "mutate"} /\ pc'[w] \in {"mutate", "settle", "failing"}
           /\ job'[w] = job[w] /\ step' = step
  <2>1. R(w)' = R(w) /\ I(w)' = I(w) /\ InOrder(R(w), I(w))'
    BY <1>4, TurnKept DEF Claimed
  <2> QED BY <1>1, <1>4, <2>1 DEF Holds, Advancing
<1>5. CASE SettleStep(w) /\ pc'[w] = "advance" /\ job'[w] = job[w]
  <2>1. pc[w] = "settle" /\ out[w] \in FinishedStep
    BY <1>5 DEF SettleStep, IInv, WorkerLocals, LocalsOf
  <2>2. R(w)' = R(w) /\ I(w)' = I(w) /\ InOrder(R(w), I(w))'
    BY <1>5, <2>1, TurnKept DEF Claimed
  <2>3. step[R(w)][I(w)] = "running" /\ R(w) \in Requests /\ I(w) \in Ordinals
    BY <1>1, <2>1, WorkerStep DEF Holds, Claimed
  <2>4. step'[R(w)][I(w)] \in FinishedStep
    BY <1>5, <2>1, <2>3 DEF SettleStep, IInv, TypeOK, StoreTypes
  <2> QED BY <1>5, <2>2, <2>4 DEF Holds
<1>6. CASE /\ pc[w] \in Advancing \cup {"settle"} /\ pc'[w] = "failing"
           /\ job'[w] = job[w] /\ step' = step
  <2>1. R(w)' = R(w) /\ I(w)' = I(w) /\ InOrder(R(w), I(w))'
    BY <1>6, TurnKept DEF Claimed
  <2> QED BY <1>1, <1>6, <2>1 DEF Holds, Advancing
<1>7. CASE /\ pc[w] \in Advancing /\ pc'[w] \in Advancing \ {"release", "halt", "finish"} /\ job'[w] = job[w]
  <2>1. R(w)' = R(w) /\ I(w)' = I(w) /\ InOrder(R(w), I(w))'
    BY <1>7, TurnKept
  <2>2. step'[R(w)][I(w)] \in FinishedStep
    BY <1>1, <1>7, FinishedKept DEF Holds
  <2> QED BY <1>7, <2>1, <2>2 DEF Holds, Advancing
<1>8. CASE AdvanceReadSteps(w) /\ pc'[w] \in Advancing \cup {"ack"} /\ job'[w] = job[w]
  <2>1. pc[w] = "plan" /\ step' = step
    BY <1>8 DEF AdvanceReadSteps, storeVars
  <2>2. R(w)' = R(w) /\ I(w)' = I(w) /\ InOrder(R(w), I(w))'
    BY <1>8, <2>1, TurnKept DEF Advancing
  <2>3. step'[R(w)][I(w)] \in FinishedStep
    BY <1>1, <2>1 DEF Holds, Advancing
  <2>4. pc'[w] \in {"release", "halt"} => InOrder(R(w), nxt[w])'
    BY <1>8, <2>1, <2>2, ChosenInOrder DEF InOrder, Compensating
  <2>5. pc'[w] = "finish" => InOrder(R(w), CompOrdinal(R(w)))'
    BY <1>8, <2>1, <2>2, EndInOrder DEF InOrder, Compensating
  <2> QED BY <1>8, <2>2, <2>3, <2>4, <2>5 DEF Holds, Advancing
<1> QED BY <1>2, <1>3, <1>4, <1>5, <1>6, <1>7, <1>8, ProgressStep DEF Progress

\* A worker that answers for a step claims it now, or answered for it or had
\* finished it before.
LEMMA BecomesClaimed ==
    ASSUME IInv, OrderInv, [Next]_vars, NEW w \in Workers, pc'[w] \in Claimed
    PROVE  \/ pc[w] \in Claimed /\ job'[w] = job[w]
           \/ pc[w] = "idle" /\ \E t \in queue : ClaimStep(w, t)
           \/ pc[w] \in Advancing /\ job'[w] = job[w] /\ step' = step
BY ProgressStep DEF Progress, Claimed, Advancing

\* While a worker answers for a running step its lease stands, so nobody claims it.
LEMMA ClaimExcludes ==
    ASSUME ~SlowSteps, IInv, OrderInv, NEW v \in Workers, NEW w \in Workers, NEW t \in queue,
           ClaimStep(w, t), pc[v] \in Claimed
    PROVE  ~(t.req = R(v) /\ t.ord = I(v))
<1> SUFFICES ASSUME t.req = R(v), t.ord = I(v) PROVE FALSE
  OBVIOUS
<1>1. Executing(t.req, t.ord)
  BY DEF Executing, Claimed
<1>2. step[t.req][t.ord] = "ready"
  BY <1>1 DEF ClaimStep, Claimable, LeaseMayExpire
<1> QED BY <1>2, WorkerStep DEF FinishedStep

LEMMA ExcludesStep ==
    ASSUME ~SlowSteps, IInv, OrderInv, [Next]_vars, NEW v \in Workers, NEW w \in Workers
    PROVE  Excludes(v, w)'
<1> SUFFICES ASSUME v # w, pc'[v] \in Claimed, pc'[w] \in Claimed, R(v)' = R(w)', I(v)' = I(w)',
                    step'[R(v)'][I(v)'] = "running"
             PROVE  FALSE
  BY DEF Excludes
<1>1. ASSUME NEW x \in Workers, pc[x] \in Advancing, job'[x] = job[x], step' = step,
             step'[R(x)'][I(x)'] = "running"
      PROVE  FALSE
  <2>1. R(x)' = R(x) /\ I(x)' = I(x) /\ step[R(x)][I(x)] \in FinishedStep
    BY <1>1 DEF R, I, OrderInv, Holds
  <2> QED BY <1>1, <2>1 DEF FinishedStep
<1>2. ASSUME NEW x \in Workers, NEW y \in Workers, x # y, NEW t \in queue, ClaimStep(x, t),
             pc'[y] \in Claimed, R(x)' = R(y)', I(x)' = I(y)', step'[R(y)'][I(y)'] = "running"
      PROVE  FALSE
  <2>1. R(x)' = t.req /\ I(x)' = t.ord
    BY <1>2 DEF ClaimStep, R, I, IInv, TypeOK, WorkerTypes
  <2>2. pc'[y] = pc[y] /\ job'[y] = job[y]
    BY <1>2 DEF ClaimStep, Goto, IInv, TypeOK, WorkerTypes
  <2>3. R(y)' = R(y) /\ I(y)' = I(y)
    BY <2>2 DEF R, I
  <2> QED BY <1>2, <2>1, <2>2, <2>3, ClaimExcludes
<1>3. ASSUME pc[v] \in Claimed, job'[v] = job[v], pc[w] \in Claimed, job'[w] = job[w]
      PROVE  FALSE
  <2>1. R(v)' = R(v) /\ I(v)' = I(v) /\ R(w)' = R(w) /\ I(w)' = I(w)
    BY <1>3 DEF R, I
  <2>2. step[R(v)][I(v)] # "running"
    BY <1>3, <2>1 DEF OrderInv, Excludes
  <2>3. PICK r \in Requests, i \in Ordinals : r = R(v) /\ i = I(v)
    BY <1>3, WorkerStep
  <2>4. step[r][i] = "ready"
    BY <2>1, <2>2, <2>3, OrderStep DEF OrderEffect, MovesTo
  <2> QED BY <1>3, <2>3, <2>4, WorkerStep DEF FinishedStep
<1> QED BY <1>1, <1>2, <1>3, BecomesClaimed

\* A step becomes dispatched in its turn.
LEMMA DispatchStep ==
    ASSUME IInv, OrderInv, [Next]_vars, NEW r \in Requests, NEW i \in 1..Len(Plan[r]),
           step'[r][i] \in Dispatched
    PROVE  InOrder(r, i)'
<1>1. i \in Ordinals /\ i # CompOrdinal(r)
  BY CompOrdinalType
<1>2. CASE step[r][i] \in Dispatched
  BY <1>1, <1>2, DispatchedInOrder, InOrderKept
<1>3. CASE i = 1
  BY <1>3 DEF InOrder
<1>4. ASSUME NEW w \in Workers, pc[w] \in {"release", "halt"}, R(w) = r, nxt[w] = i
      PROVE  InOrder(r, i)'
  <2>1. InOrder(r, i)
    BY <1>4 DEF OrderInv, Holds
  <2> QED BY <1>1, <2>1, InOrderKept
<1>5. OrderEffect(r, i)
  BY <1>1, OrderStep
<1> QED BY <1>1, <1>2, <1>3, <1>4, <1>5 DEF OrderEffect, MovesTo, Dispatcher

\* The plan of a request that exists is there.
LEMMA PlanStays ==
    ASSUME IInv, OrderInv, [Next]_vars, NEW r \in Requests, NEW i \in 1..Len(Plan[r]),
           request'[r] # Absent
    PROVE  step'[r][i] # Absent
<1>1. CASE request[r] = Absent
  <2>1. RequestEffect(r)
    BY RequestStep
  <2>2. \A k \in 1..Len(Plan[r]) : step'[r][k] # Absent
    BY <1>1, <2>1 DEF RequestEffect
  <2> QED BY <2>2
<1>2. CASE request[r] # Absent
  <2>1. step[r][i] # Absent /\ i \in Ordinals
    BY <1>2, CompOrdinalType DEF OrderInv, Sequenced
  <2> QED BY <2>1, EffectStep DEF Effect
<1> QED BY <1>1, <1>2

LEMMA CompensatedStep ==
    ASSUME IInv, OrderInv, [Next]_vars, NEW r \in Requests, Compensating(r)', NEW i \in Ordinals
    PROVE  step'[r][i] \notin Undispatched
<1>1. CASE ~Compensating(r)
  BY <1>1, RequestStep DEF RequestEffect
<1>2. CASE Compensating(r)
  <2>1. request[r] # Absent
    BY <1>2, CompOrdinalType DEF IInv, DocumentExists, Compensating
  <2>2. step[r][i] \notin Undispatched
    BY <1>2 DEF OrderInv, Sequenced
  <2> QED BY <2>1, <2>2, OrderStep DEF OrderEffect, MovesTo
<1> QED BY <1>1, <1>2

\* A request is rejected by failing a step of its plan that waited, and stays so.
LEMMA RejectedStep ==
    ASSUME IInv, OrderInv, [Next]_vars, NEW r \in Requests, request'[r] = "rejected"
    PROVE  /\ ~Compensating(r)'
           /\ \E i \in 1..Len(Plan[r]) : step'[r][i] = "failed"
<1>1. Compensating(r)' => Compensating(r)
  BY RequestStep DEF RequestEffect
<1>2. CASE request[r] = "rejected"
  <2>1. PICK i \in 1..Len(Plan[r]) : step[r][i] = "failed"
    BY <1>2 DEF OrderInv, Sequenced
  <2>2. step'[r][i] = "failed"
    BY <1>2, <2>1, OrderStep, CompOrdinalType DEF OrderEffect, MovesTo
  <2> QED BY <1>1, <1>2, <2>2 DEF OrderInv, Sequenced
<1>3. CASE request[r] # "rejected"
  <2>1. PICK i \in Ordinals : step[r][i] = "awaiting_approval" /\ step'[r][i] = "failed"
    BY <1>3, RequestStep DEF RequestEffect
  <2>2. ~Compensating(r)
    BY <2>1 DEF OrderInv, Sequenced, Undispatched
  <2>3. i \in 1..Len(Plan[r])
    BY <2>1, <2>2, CompOrdinalType DEF Compensating, IInv, DocumentExists, Absent
  <2> QED BY <1>1, <2>1, <2>2, <2>3
<1> QED BY <1>2, <1>3

LEMMA SucceededStep ==
    ASSUME IInv, OrderInv, [Next]_vars, NEW r \in Requests, request'[r] = "succeeded"
    PROVE  InOrder(r, CompOrdinal(r))'
<1>1. InOrder(r, CompOrdinal(r))
  <2>1. CASE request[r] = "succeeded"
    BY <2>1 DEF OrderInv, Sequenced
  <2>2. CASE request[r] # "succeeded"
    <3>1. \E w \in Workers : pc[w] = "finish" /\ R(w) = r
      BY <2>2, RequestStep DEF RequestEffect
    <3> QED BY <3>1 DEF OrderInv, Holds
  <2> QED BY <2>1, <2>2
<1> QED BY <1>1, InOrderKept, CompOrdinalType

LEMMA SequencedStep ==
    ASSUME IInv, OrderInv, [Next]_vars, NEW r \in Requests
    PROVE  Sequenced(r)'
BY DispatchStep, PlanStays, SucceededStep, CompensatedStep, RejectedStep DEF Sequenced

LEMMA DraftedStep ==
    ASSUME IInv, OrderInv, [Next]_vars, NEW r \in Requests
    PROVE  Drafted(r)'
<1>1. RequestEffect(r)
  BY RequestStep
<1>2. ASSUME request'[r] = "draft", NEW i \in Ordinals PROVE step'[r][i] \in {"pending", Absent}
  <2>1. CASE request[r] = "draft"
    <3>1. step[r][i] \in {"pending", Absent}
      BY <2>1 DEF OrderInv, Drafted
    <3>2. MovesTo(r, i, step'[r][i])
      BY OrderStep DEF OrderEffect
    <3>3. request'[r] = "draft"
      BY <1>2
    <3> HIDE <1>2
    <3> QED BY <2>1, <3>1, <3>2, <3>3 DEF MovesTo
  <2> QED BY <1>1, <1>2, <2>1 DEF RequestEffect
<1> QED BY <1>1, <1>2 DEF RequestEffect, Drafted

LEMMA InitOrder == Init => OrderInv
<1> SUFFICES ASSUME Init PROVE OrderInv
  OBVIOUS
<1>1. \A w \in Workers : pc[w] = "idle"
  BY DEF Init
<1>2. \A w \in Workers : Holds(w)
  BY <1>1 DEF Holds, Claimed, Advancing
<1>3. \A v, w \in Workers : Excludes(v, w)
  BY <1>1 DEF Excludes, Claimed
<1>4. \A r \in Requests : request[r] = Absent /\ \A i \in Ordinals : step[r][i] = Absent
  BY DEF Init
<1>5. \A r \in Requests : Sequenced(r) /\ Drafted(r)
  BY <1>4, CompOrdinalType DEF Init, Sequenced, Drafted, Compensating, Dispatched, Absent
<1> QED BY <1>2, <1>3, <1>5 DEF OrderInv

-----------------------------------------------------------------------------
(* Requests in flight, and how they fail *)

\* The statuses in flight, one by one.
LEMMA InFlightStatus ==
    NonTerminalRequestStatus = {"draft", "running", "awaiting_approval", "held"}
BY DEF NonTerminalRequestStatus, RequestStatus, TerminalRequestStatus

\* What puts a request in flight: its creation, a resume, or the decision of a step
\* that still waits though the request failed.
Revived(r) ==
    \/ \E loaded \in Policies : CreateRequest(r, loaded)
    \/ \E i \in Ordinals : ResumeRequest(r, i)
    \/ request[r] = "failed" /\ \E i \in Ordinals : step[r][i] = "awaiting_approval"

FlightEffect(r) ==
    /\ request'[r] = "failed" /\ request[r] # "failed"
          => \E w \in Workers : FailRequest(w) /\ R(w) = r
    /\ request'[r] \in NonTerminalRequestStatus /\ request[r] \notin NonTerminalRequestStatus
          => Revived(r)

LEMMA StillFlies ==
    ASSUME NEW r \in Requests, request'[r] = request[r]
    PROVE  FlightEffect(r)
BY DEF FlightEffect

\* A request in flight moves on, or lands.
LEMMA MovedFlies ==
    ASSUME StoreTypes, NEW r \in Requests, NEW q \in Requests, NEW to,
           request' = [request EXCEPT ![q] = to], request[q] \in NonTerminalRequestStatus,
           to = "failed" => \E w \in Workers : FailRequest(w) /\ R(w) = q
    PROVE  FlightEffect(r)
<1>1. CASE r = q
  BY <1>1 DEF FlightEffect, StoreTypes
<1>2. CASE r # q
  BY <1>2, StillFlies DEF StoreTypes
<1> QED BY <1>1, <1>2

LEMMA OperatorFlies ==
    ASSUME IInv, NEW r \in Requests, Operator
    PROVE  FlightEffect(r)
<1> USE DEF IInv, TypeOK, StoreTypes
<1>1. ASSUME NEW p \in Policies, SetApprovalPolicy(p) PROVE FlightEffect(r)
  BY <1>1, StillFlies DEF SetApprovalPolicy
<1>2. ASSUME NEW q \in Requests, ReadForCancel(q) PROVE FlightEffect(r)
  BY <1>2, StillFlies DEF ReadForCancel, storeVars
<1>3. ASSUME NEW q \in Requests, NEW loaded \in Policies, CreateRequest(q, loaded)
      PROVE  FlightEffect(r)
  <2>1. request' = [request EXCEPT ![q] = "draft"]
    BY <1>3 DEF CreateRequest
  <2>2. CASE q = r
    BY <1>3, <2>1, <2>2 DEF FlightEffect, Revived
  <2>3. CASE q # r
    BY <2>1, <2>3, StillFlies
  <2> QED BY <2>2, <2>3
<1>4. ASSUME NEW q \in Requests, NEW i \in Ordinals, ResumeRequest(q, i) PROVE FlightEffect(r)
  <2>1. request' = [request EXCEPT ![q] = "running"]
    BY <1>4 DEF ResumeRequest
  <2>2. CASE q = r
    BY <1>4, <2>1, <2>2 DEF FlightEffect, Revived
  <2>3. CASE q # r
    BY <2>1, <2>3, StillFlies
  <2> QED BY <2>2, <2>3
<1>5. ASSUME NEW q \in Requests, AdminCancel(q) PROVE FlightEffect(r)
  <2>1. request[q] \in NonTerminalRequestStatus
        /\ (UNCHANGED request \/ request' = [request EXCEPT ![q] = "cancelled"])
    BY <1>5 DEF AdminCancel, CancelRequest, storeVars
  <2> QED BY <2>1, StillFlies, MovedFlies
<1>6. ASSUME NEW q \in Requests, NEW i \in Ordinals, NEW h \in Humans, NEW d \in {"approved", "rejected"},
             DecideStep(q, i, h, d)
      PROVE  FlightEffect(r)
  <2>1. PICK to \in {"running", "rejected"} :
            request' = [request EXCEPT ![q] = to] /\ CanTransitionRequest(request[q], to)
    BY <1>6 DEF DecideStep
  <2>2. step[q][i] = "awaiting_approval" /\ request[q] \in RequestStatus
    BY <1>6 DEF DecideStep, DocumentExists, Absent
  <2>3. request[q] \in NonTerminalRequestStatus \/ (request[q] = "failed" /\ to = "running")
    BY <2>1, <2>2, InFlightStatus DEF CanTransitionRequest, RequestTransitions, RequestStatus
  <2>4. CASE q # r
    BY <2>1, <2>4, StillFlies
  <2>5. CASE q = r
    BY <2>1, <2>2, <2>3, <2>5 DEF FlightEffect, Revived
  <2> QED BY <2>4, <2>5
<1> QED BY <1>1, <1>2, <1>3, <1>4, <1>5, <1>6 DEF Operator

LEMMA ApiFlies ==
    ASSUME IInv, OrderInv, NEW r \in Requests, Api
    PROVE  FlightEffect(r)
<1> USE DEF IInv, TypeOK
<1>1. ASSUME NEW q \in Requests, NEW to \in {"awaiting_approval", "running", "cancelled"},
             request[q] # Absent, ~Terminal(q), request' = [request EXCEPT ![q] = to]
      PROVE  FlightEffect(r)
  <2>1. request[q] \in NonTerminalRequestStatus
    BY <1>1 DEF Terminal, NonTerminalRequestStatus, StoreTypes
  <2> QED BY <1>1, <2>1, MovedFlies
<1>2. ASSUME NEW q \in Requests, StartFirstStep(q) PROVE FlightEffect(r)
  <2>1. request[q] = "draft"
    BY <1>2 DEF OrderInv, Drafted, StartFirstStep, CanTransitionRequest, RequestTransitions, RequestStatus
  <2> QED BY <1>1, <1>2, <2>1 DEF StartFirstStep, Terminal, TerminalRequestStatus, Absent
<1>3. ASSUME NEW q \in Requests, RequesterCancel(q) PROVE FlightEffect(r)
  BY <1>1, <1>3, StillFlies DEF RequesterCancel, CancelRequest, CallsExist, storeVars
<1>4. ASSUME NEW q \in Requests, AppendCompensatingStep(q) PROVE FlightEffect(r)
  BY <1>1, <1>4, StillFlies DEF AppendCompensatingStep, CallsExist, storeVars
<1> QED BY <1>2, <1>3, <1>4, StillFlies
        DEF Api, ServeStart, ServeCancel, StartRefused, EnqueueOwed, storeVars

LEMMA WorkerFlies ==
    ASSUME IInv, NEW r \in Requests, NEW w \in Workers, Advance(w)
    PROVE  FlightEffect(r)
<1> USE DEF IInv, TypeOK
<1>1. CASE FinishRequest(w) \/ FollowHalt(w) \/ FailRequest(w)
  <2>1. R(w) \in Requests
    BY <1>1, BusyJob DEF FinishRequest, FollowHalt, FailRequest
  <2>2. CASE UNCHANGED request
    BY <2>2, StillFlies
  <2>3. ASSUME NEW to, request' = [request EXCEPT ![R(w)] = to],
               request[R(w)] \in {"draft", "running", "awaiting_approval", "held"},
               to = "failed" => FailRequest(w)
        PROVE  FlightEffect(r)
    BY <2>1, <2>3, MovedFlies, InFlightStatus
  <2>4. CASE FinishRequest(w)
    <3>1. pc[w] = "finish"
      BY <2>4 DEF FinishRequest
    <3> QED BY <2>2, <2>3, <2>4, <3>1 DEF FinishRequest, MoveRequest, WorkerTypes
  <2>5. CASE FollowHalt(w)
    BY <2>2, <2>3, <2>5 DEF FollowHalt, MoveRequest
  <2>6. CASE FailRequest(w)
    BY <2>2, <2>3, <2>6 DEF FailRequest, MoveRequest
  <2> QED BY <1>1, <2>4, <2>5, <2>6
<1>2. CASE ~(FinishRequest(w) \/ FollowHalt(w) \/ FailRequest(w))
  <2>1. UNCHANGED request
    BY <1>2 DEF Advance, SettleStep, AdvanceReadRequest, AdvanceReadSteps, FinishThrows, ReleaseStep,
                HaltStep, EnqueueNotification, EnqueueExpiry, EnqueueNext, SettleFailure, Answer200,
                Answer500, storeVars
  <2> QED BY <2>1, StillFlies
<1> QED BY <1>1, <1>2

LEMMA FlightStep ==
    ASSUME IInv, OrderInv, [Next]_vars, NEW r \in Requests
    PROVE  FlightEffect(r)
<1>1. CASE UNCHANGED vars
  BY <1>1, StillFlies DEF vars, storeVars
<1>2. ASSUME NEW t \in queue, Deliver(t) PROVE FlightEffect(r)
  <2>1. t.req \in Requests /\ t.ord \in Ordinals
    BY DeliveredTask DEF IInv, TypeOK
  <2>2. CASE UNCHANGED request
    BY <2>2, StillFlies
  <2>3. ASSUME ExpireApproval(t.req, t.ord) PROVE FlightEffect(r)
    <3>1. CASE /\ step[t.req][t.ord] = "awaiting_approval" /\ ~Terminal(t.req)
               /\ request' = [request EXCEPT ![t.req] = "rejected"]
      <4>1. request[t.req] # Absent
        BY <2>1, <3>1 DEF IInv, DocumentExists, Absent
      <4>2. request[t.req] \in NonTerminalRequestStatus
        BY <2>1, <3>1, <4>1 DEF Terminal, NonTerminalRequestStatus, IInv, TypeOK, StoreTypes
      <4> QED BY <2>1, <3>1, <4>2, MovedFlies DEF IInv, TypeOK
    <3> QED BY <2>2, <2>3, <3>1 DEF ExpireApproval, storeVars
  <2> QED BY <1>2, <2>2, <2>3
          DEF Deliver, NotClaimable, ClaimStep, ExpiryRefused, NotifyApprovers, NotifyRefused,
              NotifyUndelivered, storeVars
<1>3. ASSUME NEW w \in Workers, Handler(w) PROVE FlightEffect(r)
  BY <1>3, StillFlies
     DEF Handler, ReadAccount, SuspendUser, UnsuspendUser, DeleteUser, CreateUser,
         OtherHandler, HandlerError, Yields, storeVars
<1>4. CASE Failures
  BY <1>4, StillFlies
     DEF Failures, Crash, CallThrows, NotifyFails, NotifyUndelivered, LoseOwed, LoseCall, storeVars
<1> QED BY <1>1, <1>2, <1>3, <1>4, OperatorFlies, ApiFlies, WorkerFlies DEF Next

\* A worker about to fail its step finds it running, and one about to fail the request
\* has failed a step of it; or the plan is finished and its end was refused.
FailHolds(w) ==
    /\ pc[w] = "failing" => \/ step[R(w)][I(w)] = "running"
                            \/ InOrder(R(w), CompOrdinal(R(w)))
    /\ pc[w] = "failRequest" => \/ step[R(w)][I(w)] = "failed" /\ request[R(w)] # "failed"
                                \/ InOrder(R(w), CompOrdinal(R(w)))

FailsAlone(v, w) ==
    v # w /\ pc[v] = "failRequest" /\ pc[w] = "failRequest" /\ R(v) = R(w)
        => InOrder(R(v), CompOrdinal(R(v)))

FailedHolds(r) ==
    request[r] = "failed" => \/ \E i \in Ordinals : step[r][i] = "failed"
                             \/ InOrder(r, CompOrdinal(r))

FailInv ==
    /\ \A w \in Workers : FailHolds(w)
    /\ \A v, w \in Workers : FailsAlone(v, w)
    /\ \A r \in Requests : FailedHolds(r)

\* Of two steps of one request that are neither finished nor still to come, a
\* compensation has overtaken one.
LEMMA OneUnfinished ==
    ASSUME IInv, OrderInv, NEW r \in Requests, NEW i \in Ordinals, NEW j \in Ordinals, i # j,
           step[r][i] \in Dispatched \ FinishedStep, step[r][j] \in Dispatched \ FinishedStep
    PROVE  InOrder(r, CompOrdinal(r))
<1>1. InOrder(r, i) /\ InOrder(r, j) /\ i \in Nat /\ j \in Nat /\ i >= 1 /\ j >= 1
  BY DispatchedInOrder, ConstantsAssumption DEF Ordinals
<1>2. i \in 1..(j - 1) \/ j \in 1..(i - 1)
  BY <1>1
<1> QED BY <1>1, <1>2 DEF InOrder

\* A finished plan leaves nothing to decide.
LEMMA NothingWaits ==
    ASSUME IInv, OrderInv, NEW r \in Requests, InOrder(r, CompOrdinal(r)), NEW i \in Ordinals
    PROVE  step[r][i] # "awaiting_approval"
<1> SUFFICES ASSUME step[r][i] = "awaiting_approval" PROVE FALSE
  OBVIOUS
<1>1. ~Compensating(r)
  BY DEF OrderInv, Sequenced, Undispatched
<1>2. i # CompOrdinal(r)
  BY <1>1 DEF Compensating, Absent
<1>3. ~(i > CompOrdinal(r))
  BY DEF IInv, DocumentExists, Absent
<1>4. i \in 1..(CompOrdinal(r) - 1)
  BY <1>2, <1>3, CompOrdinalType, ConstantsAssumption DEF Ordinals
<1> QED BY <1>1, <1>4 DEF InOrder, FinishedStep

LEMMA FailedIsDecided ==
    ASSUME IInv, OrderInv, FailInv, NEW r \in Requests, request[r] = "failed", NEW i \in Ordinals
    PROVE  step[r][i] # "awaiting_approval"
<1> SUFFICES ASSUME step[r][i] = "awaiting_approval" PROVE FALSE
  OBVIOUS
<1>1. CASE InOrder(r, CompOrdinal(r))
  BY <1>1, NothingWaits
<1>2. ASSUME NEW j \in Ordinals, step[r][j] = "failed" PROVE FALSE
  <2>1. i # j
    BY <1>2
  <2>2. InOrder(r, CompOrdinal(r))
    BY <1>2, <2>1, OneUnfinished DEF Dispatched, FinishedStep
  <2> QED BY <2>2, NothingWaits
<1> QED BY <1>1, <1>2 DEF FailInv, FailedHolds

\* A finished plan stays finished for the worker that saw it so.
LEMMA EndKept ==
    ASSUME IInv, OrderInv, [Next]_vars, NEW w \in Workers, R(w) \in Requests, job'[w] = job[w],
           InOrder(R(w), CompOrdinal(R(w)))
    PROVE  InOrder(R(w), CompOrdinal(R(w)))'
<1>1. PICK r \in Requests : r = R(w)
  OBVIOUS
<1>2. InOrder(r, CompOrdinal(r))'
  BY <1>1, CompOrdinalType, InOrderKept
<1>3. r = R(w)'
  BY <1>1 DEF R
<1> QED BY <1>2, <1>3 DEF InOrder, Compensating

\* A worker comes to fail its step, or the request, in one of these ways.
LEMMA ComesToFail ==
    ASSUME IInv, [Next]_vars, NEW w \in Workers, pc'[w] \in {"failing", "failRequest"}
    PROVE  \/ pc'[w] = pc[w] /\ job'[w] = job[w]
           \/ pc'[w] = "failing" /\ pc[w] \in {"exec", "mutate"} /\ job'[w] = job[w] /\ step' = step
           \/ pc'[w] = "failing" /\ FinishThrows(w) /\ job'[w] = job[w]
           \/ CallThrows(w)
           \/ pc'[w] = "failRequest" /\ SettleFailure(w) /\ job'[w] = job[w]
<1> USE DEF IInv, TypeOK, WorkerTypes, Goto
<1> DEFINE Stays == pc'[w] = pc[w] /\ job'[w] = job[w]
<1>1. CASE UNCHANGED workVars
  BY <1>1 DEF workVars
<1>2. ASSUME NEW v \in Workers, v # w, Handler(v) \/ Advance(v) \/ Crash(v) \/ CallThrows(v) PROVE Stays
  BY <1>2
     DEF Handler, ReadAccount, SuspendUser, UnsuspendUser, DeleteUser, CreateUser, OtherHandler,
         HandlerError, Yields, Advance, SettleStep, AdvanceReadRequest, AdvanceReadSteps,
         FinishRequest, FinishThrows, ReleaseStep, HaltStep, FollowHalt, EnqueueNotification,
         EnqueueExpiry, EnqueueNext, SettleFailure, FailRequest, Answer200, Answer500, Finished,
         Crash, CallThrows
<1>3. CASE Handler(w)
  BY <1>3
     DEF Handler, Handles, ReadAccount, SuspendUser, UnsuspendUser, DeleteUser, CreateUser,
         OtherHandler, HandlerError, Yields, storeVars
<1>4. CASE Advance(w)
  BY <1>4
     DEF Advance, SettleStep, AdvanceReadRequest, AdvanceReadSteps, NextMove, FinishRequest,
         FinishThrows, ReleaseStep, HaltStep, FollowHalt, EnqueueNotification, EnqueueExpiry,
         EnqueueNext, SettleFailure, FailRequest, Answer200, Answer500, Finished
<1>5. CASE Crash(w)
  BY <1>5 DEF Crash, Finished
<1>6. ASSUME NEW t \in queue, NEW v \in Workers, ClaimStep(v, t) PROVE Stays
  BY <1>6 DEF ClaimStep
<1>7. ASSUME NEW t \in queue, Deliver(t), ~\E v \in Workers : ClaimStep(v, t) PROVE UNCHANGED workVars
  BY <1>7 DEF Deliver, NotClaimable, ExpireApproval, ExpiryRefused, NotifyApprovers,
              NotifyRefused, NotifyUndelivered
<1>8. CASE UNCHANGED vars \/ Operator
  BY <1>1, <1>8 DEF vars, Operator, SetApprovalPolicy, CreateRequest, ReadForCancel, AdminCancel,
                    ResumeRequest, DecideStep
<1>9. CASE Api
  BY <1>1, <1>9 DEF Api, ServeStart, ServeCancel, StartFirstStep, StartRefused, RequesterCancel,
                    AppendCompensatingStep, EnqueueOwed
<1>10. CASE Failures
  <2>1. CASE \E v \in Workers : Crash(v) \/ CallThrows(v)
    BY <1>2, <1>5, <2>1
  <2>2. CASE ~\E v \in Workers : Crash(v) \/ CallThrows(v)
    BY <1>1, <1>10, <2>2 DEF Failures, NotifyFails, NotifyUndelivered, LoseOwed, LoseCall
  <2> QED BY <2>1, <2>2
<1> QED BY <1>1, <1>2, <1>3, <1>4, <1>6, <1>7, <1>8, <1>9, <1>10 DEF Next

LEMMA FailHoldsStep ==
    ASSUME ~SlowSteps, "throw" \notin FaultKinds, IInv, OrderInv, FailInv, [Next]_vars,
           NEW w \in Workers
    PROVE  FailHolds(w)'
<1> SUFFICES ASSUME pc'[w] \in {"failing", "failRequest"} PROVE FailHolds(w)'
  BY DEF FailHolds
<1>1. FailHolds(w)
  BY DEF FailInv
<1>2. pc[w] # "idle" /\ job'[w] = job[w]
  BY ComesToFail DEF FinishThrows, SettleFailure, CallThrows, Fault
<1>3. PICK r \in Requests, i \in Ordinals : r = R(w) /\ i = I(w)
  BY <1>2, BusyJob DEF IInv, TypeOK
<1>4. R(w)' = r /\ I(w)' = i
  BY <1>2, <1>3 DEF R, I
<1>5. CASE InOrder(r, CompOrdinal(r))
  <2>1. InOrder(R(w), CompOrdinal(R(w)))'
    BY <1>2, <1>3, <1>5, EndKept
  <2> QED BY <2>1 DEF FailHolds
<1>6. CASE ~InOrder(r, CompOrdinal(r)) /\ pc'[w] = "failing"
  <2>1. pc[w] \in {"failing", "exec", "mutate"} /\ step[r][i] = "running"
    BY <1>1, <1>3, <1>6, ComesToFail
       DEF FailHolds, OrderInv, Holds, FinishThrows, CallThrows, Fault
  <2>2. step'[r][i] = "running"
    BY <1>3, <1>6, <2>1, RunningKept DEF Claimed
  <2> QED BY <1>4, <1>6, <2>2 DEF FailHolds
<1>7. CASE ~InOrder(r, CompOrdinal(r)) /\ pc'[w] = "failRequest" /\ SettleFailure(w)
  <2>1. pc[w] = "failing" /\ step[r][i] = "running"
    BY <1>1, <1>3, <1>7 DEF SettleFailure, FailHolds
  <2>2. step'[r][i] = "failed"
    <3>1. ~(out[w] = "retryable" /\ Attempt < MaxAttempts)
      BY <1>7 DEF SettleFailure, Goto, IInv, TypeOK, WorkerTypes
    <3> QED BY <1>3, <1>7, <2>1, <3>1 DEF SettleFailure, IInv, TypeOK, StoreTypes
  <2>3. request[r] # "failed"
    <3> SUFFICES ASSUME request[r] = "failed" PROVE FALSE
      OBVIOUS
    <3>1. PICK j \in Ordinals : step[r][j] = "failed"
      BY <1>7 DEF FailInv, FailedHolds
    <3> QED BY <1>7, <2>1, <3>1, OneUnfinished DEF Dispatched, FinishedStep
  <2>4. request'[r] = request[r]
    BY <1>7 DEF SettleFailure
  <2> QED BY <1>4, <1>7, <2>2, <2>3, <2>4 DEF FailHolds
<1>8. CASE ~InOrder(r, CompOrdinal(r)) /\ pc'[w] = "failRequest" /\ pc[w] = "failRequest"
  <2>1. step[r][i] = "failed" /\ request[r] # "failed"
    BY <1>1, <1>3, <1>8 DEF FailHolds
  <2>2. step'[r][i] = "failed"
    BY <2>1, OrderStep DEF OrderEffect, MovesTo
  <2>3. request'[r] # "failed"
    <3> SUFFICES ASSUME request'[r] = "failed" PROVE FALSE
      OBVIOUS
    <3>1. PICK v \in Workers : FailRequest(v) /\ R(v) = r
      BY <2>1, FlightStep DEF FlightEffect
    <3>2. v # w
      BY <1>8, <3>1 DEF FailRequest, Goto, IInv, TypeOK, WorkerTypes
    <3> QED BY <1>3, <1>8, <3>1, <3>2 DEF FailRequest, FailInv, FailsAlone
  <2> QED BY <1>4, <1>8, <2>2, <2>3 DEF FailHolds
<1>9. pc'[w] = "failRequest" => SettleFailure(w) \/ pc[w] = "failRequest"
  BY ComesToFail DEF CallThrows, Fault
<1> QED BY <1>5, <1>6, <1>7, <1>8, <1>9

LEMMA FailsAloneStep ==
    ASSUME "throw" \notin FaultKinds, IInv, OrderInv, FailInv, [Next]_vars,
           NEW v \in Workers, NEW w \in Workers
    PROVE  FailsAlone(v, w)'
<1> SUFFICES ASSUME v # w, pc'[v] = "failRequest", pc'[w] = "failRequest", R(v)' = R(w)'
             PROVE  InOrder(R(v), CompOrdinal(R(v)))'
  BY DEF FailsAlone
<1>1. ASSUME NEW x \in Workers, pc'[x] = "failRequest"
      PROVE  /\ pc[x] # "idle" /\ job'[x] = job[x]
             /\ pc[x] = "failRequest" \/ (SettleFailure(x) /\ pc[x] = "failing")
  BY <1>1, ComesToFail DEF CallThrows, Fault, SettleFailure
<1>2. R(v)' = R(v) /\ R(w)' = R(w) /\ R(v) = R(w)
  BY <1>1 DEF R
<1>3. R(v) \in Requests /\ I(v) \in Ordinals /\ I(w) \in Ordinals
  BY <1>1, BusyJob DEF IInv, TypeOK
\* One of the two comes after the other: it found its step running, the other's failed.
<1>4. ASSUME NEW x \in Workers, NEW y \in Workers, R(x) = R(v), R(y) = R(v),
             I(x) \in Ordinals, I(y) \in Ordinals, pc[x] = "failing", pc[y] = "failRequest"
      PROVE  InOrder(R(v), CompOrdinal(R(v)))
  <2>1. FailHolds(x) /\ FailHolds(y)
    BY DEF FailInv
  <2> QED BY <1>3, <1>4, <2>1, OneUnfinished DEF FailHolds, Dispatched, FinishedStep
<1>5. ~(SettleFailure(v) /\ pc[v] = "failing" /\ SettleFailure(w) /\ pc[w] = "failing")
  <2> SUFFICES ASSUME SettleFailure(v), pc[w] = "failing" PROVE FALSE
    OBVIOUS
  <2> QED BY DEF SettleFailure, Goto, IInv, TypeOK, WorkerTypes
<1>6. InOrder(R(v), CompOrdinal(R(v)))
  <2>1. CASE pc[v] = "failRequest" /\ pc[w] = "failRequest"
    BY <1>2, <2>1 DEF FailInv, FailsAlone
  <2> QED BY <1>1, <1>2, <1>3, <1>4, <1>5, <2>1
<1> QED BY <1>1, <1>3, <1>6, EndKept

LEMMA FailedHoldsStep ==
    ASSUME IInv, OrderInv, FailInv, [Next]_vars, NEW r \in Requests
    PROVE  FailedHolds(r)'
<1> SUFFICES ASSUME request'[r] = "failed" PROVE FailedHolds(r)'
  BY DEF FailedHolds
<1>1. CASE InOrder(r, CompOrdinal(r))
  BY <1>1, CompOrdinalType, InOrderKept DEF FailedHolds
<1>2. CASE request[r] = "failed" /\ ~InOrder(r, CompOrdinal(r))
  <2>1. PICK i \in Ordinals : step[r][i] = "failed"
    BY <1>2 DEF FailInv, FailedHolds
  <2>2. step'[r][i] = "failed"
    BY <2>1, OrderStep DEF OrderEffect, MovesTo
  <2> QED BY <2>2 DEF FailedHolds
<1>3. CASE request[r] # "failed" /\ ~InOrder(r, CompOrdinal(r))
  <2>1. PICK w \in Workers : FailRequest(w) /\ R(w) = r
    BY <1>3, FlightStep DEF FlightEffect
  <2>2. pc[w] = "failRequest" /\ step' = step
    BY <2>1 DEF FailRequest
  <2>3. step[r][I(w)] = "failed" /\ I(w) \in Ordinals
    BY <1>3, <2>1, <2>2, BusyJob DEF FailInv, FailHolds, IInv, TypeOK
  <2> QED BY <2>2, <2>3 DEF FailedHolds
<1> QED BY <1>1, <1>2, <1>3

\* The admission guard, and what keeps it once a request is admitted.
LEMMA OneInFlightStep ==
    ASSUME IInv, OrderInv, FailInv, OneInFlightUnlessResumed, [Next]_vars
    PROVE  OneInFlightUnlessResumed'
<1> SUFFICES ASSUME NEW q \in Requests, NEW r \in Requests, q # r, Target[q] = Target[r],
                    InFlightRequest(q)', InFlightRequest(r)'
             PROVE  resumes'[q] > 0 \/ resumes'[r] > 0
  BY DEF OneInFlightUnlessResumed
<1>1. CASE InFlightRequest(q) /\ InFlightRequest(r)
  BY <1>1, ResumesStep DEF OneInFlightUnlessResumed, IInv
<1>2. ASSUME NEW x \in Requests, NEW y \in Requests, x # y, Target[x] = Target[y],
             ~InFlightRequest(x), InFlightRequest(x)', InFlightRequest(y)'
      PROVE  resumes'[x] > 0
  <2>1. Revived(x)
    BY <1>2, FlightStep DEF FlightEffect, InFlightRequest
  <2>2. ASSUME NEW loaded \in Policies, CreateRequest(x, loaded) PROVE FALSE
    <3>1. request'[y] = request[y]
      BY <1>2, <2>2 DEF CreateRequest
    <3>2. y \in Conflicting(x)
      BY <1>2, <3>1 DEF Conflicting, InFlightRequest
    <3> QED BY <2>2, <3>2 DEF CreateRequest
  <2>3. ASSUME NEW i \in Ordinals, ResumeRequest(x, i) PROVE resumes'[x] > 0
    BY <2>3, ConstantsAssumption DEF ResumeRequest, IInv, TypeOK, BoundTypes
  <2> QED BY <2>1, <2>2, <2>3, FailedIsDecided DEF Revived
<1> QED BY <1>1, <1>2

-----------------------------------------------------------------------------
(* A cancelled request has nothing left to dispatch *)

CancelledHolds(r) ==
    request[r] = "cancelled" => \A i \in Ordinals : step[r][i] \notin Undispatched

\* What cancels a request stops its steps, or has found its plan finished.
CancelLeaves(r) ==
    request'[r] = "cancelled" /\ request[r] # "cancelled"
        => \/ /\ \A i \in Ordinals : step'[r][i] \notin Undispatched
              /\ r \in AdminCancellers \/ [op |-> "cancel", req |-> r] \in calls
           \/ /\ step' = step
              /\ \E w \in Workers : pc[w] = "finish" /\ R(w) = r /\ out[w] = "cancelled"

LEMMA CancelStops ==
    ASSUME IInv, NEW r \in Requests, NEW q \in Requests, CancelRequest(q),
           q \in AdminCancellers \/ [op |-> "cancel", req |-> q] \in calls
    PROVE  CancelLeaves(r)
<1>1. CASE Terminal(q)
  BY <1>1 DEF CancelRequest, storeVars, CancelLeaves
<1>2. CASE ~Terminal(q) /\ r = q
  BY <1>2 DEF CancelRequest, CancelLeaves, IInv, TypeOK, StoreTypes, Stopped, Undispatched
<1>3. CASE ~Terminal(q) /\ r # q
  BY <1>3 DEF CancelRequest, CancelLeaves, IInv, TypeOK, StoreTypes
<1> QED BY <1>1, <1>2, <1>3

LEMMA FinishCancels ==
    ASSUME IInv, NEW r \in Requests, NEW w \in Workers, Advance(w)
    PROVE  CancelLeaves(r)
<1> USE DEF CancelLeaves
<1>1. CASE FinishRequest(w)
  <2>1. pc[w] = "finish" /\ step' = step
    BY <1>1 DEF FinishRequest
  <2>2. request'[r] # request[r] => R(w) = r /\ request'[r] = out[w]
    BY <1>1 DEF FinishRequest, MoveRequest, IInv, TypeOK, StoreTypes
  <2> QED BY <2>1, <2>2
<1>2. CASE FollowHalt(w) \/ FailRequest(w)
  <2>1. UNCHANGED request \/ \E to \in {"awaiting_approval", "failed"} :
                                 request' = [request EXCEPT ![R(w)] = to]
    BY <1>2 DEF FollowHalt, FailRequest, MoveRequest
  <2> QED BY <2>1 DEF IInv, TypeOK, StoreTypes
<1>3. CASE ~(FinishRequest(w) \/ FollowHalt(w) \/ FailRequest(w))
  BY <1>3 DEF Advance, SettleStep, AdvanceReadRequest, AdvanceReadSteps, FinishThrows, ReleaseStep,
              HaltStep, EnqueueNotification, EnqueueExpiry, EnqueueNext, SettleFailure, Answer200,
              Answer500, storeVars
<1> QED BY <1>1, <1>2, <1>3

LEMMA CancelStep ==
    ASSUME IInv, [Next]_vars, NEW r \in Requests
    PROVE  CancelLeaves(r)
<1> DEFINE Spares == \E q \in Requests, to \in RequestStatus \ {"cancelled"} :
                         request' = [request EXCEPT ![q] = to]
<1>1. CASE UNCHANGED request \/ Spares
  BY <1>1 DEF CancelLeaves, IInv, TypeOK, StoreTypes
<1>2. CASE UNCHANGED vars
  BY <1>1, <1>2 DEF vars, storeVars
<1>3. CASE Operator
  <2>1. ASSUME NEW q \in Requests, AdminCancel(q) PROVE CancelLeaves(r)
    BY <2>1, CancelStops DEF AdminCancel
  <2>2. CASE ~\E q \in Requests : AdminCancel(q)
    <3>1. ASSUME NEW q \in Requests, NEW i \in Ordinals, NEW h \in Humans,
                 NEW d \in {"approved", "rejected"}, DecideStep(q, i, h, d)
          PROVE  Spares
      <4>1. PICK to \in {"running", "rejected"} : request' = [request EXCEPT ![q] = to]
        BY <3>1 DEF DecideStep
      <4> QED BY <4>1 DEF RequestStatus
    <3>2. ASSUME NEW q \in Requests, NEW loaded \in Policies, CreateRequest(q, loaded) PROVE Spares
      BY <3>2 DEF CreateRequest, RequestStatus
    <3>3. ASSUME NEW q \in Requests, NEW i \in Ordinals, ResumeRequest(q, i) PROVE Spares
      BY <3>3 DEF ResumeRequest, RequestStatus
    <3> HIDE DEF Spares
    <3>4. Spares \/ UNCHANGED request
      BY <1>3, <2>2, <3>1, <3>2, <3>3 DEF Operator, SetApprovalPolicy, ReadForCancel, storeVars
    <3> QED BY <1>1, <3>4
  <2> QED BY <2>1, <2>2
<1>4. CASE Api
  <2>1. ASSUME NEW q \in Requests, RequesterCancel(q) PROVE CancelLeaves(r)
    BY <2>1, CancelStops DEF RequesterCancel
  <2>2. CASE ~\E q \in Requests : RequesterCancel(q)
    BY <1>1, <1>4, <2>2
       DEF Api, ServeStart, ServeCancel, StartFirstStep, StartRefused, AppendCompensatingStep,
           EnqueueOwed, storeVars, RequestStatus
  <2> QED BY <2>1, <2>2
<1>5. ASSUME NEW t \in queue, Deliver(t) PROVE CancelLeaves(r)
  <2>1. t.req \in Requests
    BY DeliveredTask DEF IInv, TypeOK
  <2> QED BY <1>1, <1>5, <2>1
          DEF Deliver, NotClaimable, ClaimStep, ExpireApproval, ExpiryRefused, NotifyApprovers,
              NotifyRefused, NotifyUndelivered, storeVars, RequestStatus
<1>6. ASSUME NEW w \in Workers, Handler(w) PROVE CancelLeaves(r)
  BY <1>1, <1>6
     DEF Handler, ReadAccount, SuspendUser, UnsuspendUser, DeleteUser, CreateUser,
         OtherHandler, HandlerError, Yields, storeVars
<1>7. CASE Failures
  BY <1>1, <1>7
     DEF Failures, Crash, CallThrows, NotifyFails, NotifyUndelivered, LoseOwed, LoseCall, storeVars
<1> QED BY <1>2, <1>3, <1>4, <1>5, <1>6, <1>7, FinishCancels DEF Next

\* A finished plan leaves nothing undispatched.
LEMMA NothingPends ==
    ASSUME IInv, OrderInv, NEW r \in Requests, InOrder(r, CompOrdinal(r)), NEW i \in Ordinals
    PROVE  step[r][i] \notin Undispatched
<1> SUFFICES ASSUME step[r][i] \in Undispatched PROVE FALSE
  OBVIOUS
<1>1. ~Compensating(r)
  BY DEF OrderInv, Sequenced
<1>2. i # CompOrdinal(r)
  BY <1>1 DEF Compensating, Absent, Undispatched
<1>3. ~(i > CompOrdinal(r))
  BY DEF IInv, DocumentExists, Absent, Undispatched
<1>4. i \in 1..(CompOrdinal(r) - 1)
  BY <1>2, <1>3, CompOrdinalType, ConstantsAssumption DEF Ordinals
<1> QED BY <1>1, <1>4 DEF InOrder, FinishedStep, Undispatched

LEMMA CancelledStep ==
    ASSUME IInv, OrderInv, NEW r \in Requests, CancelledHolds(r), [Next]_vars
    PROVE  CancelledHolds(r)'
<1> SUFFICES ASSUME request'[r] = "cancelled", NEW i \in Ordinals PROVE step'[r][i] \notin Undispatched
  BY DEF CancelledHolds
<1>1. CASE request[r] = "cancelled"
  BY <1>1, OrderStep DEF CancelledHolds, OrderEffect, MovesTo, Absent
<1>2. CASE request[r] # "cancelled"
  BY <1>2, CancelStep, NothingPends DEF CancelLeaves, OrderInv, Holds
<1> QED BY <1>1, <1>2

\* A step that pends in a request that has ended is not in its turn.
LEMMA EndedPends ==
    ASSUME IInv, OrderInv, FailInv, NEW r \in Requests, CancelledHolds(r),
           request[r] \in TerminalRequestStatus, NEW i \in Ordinals, step[r][i] = "pending"
    PROVE  ~Compensating(r) /\ i \in 1..Len(Plan[r]) /\ ~InOrder(r, i) /\ i # 1
<1>1. ~Compensating(r)
  BY DEF OrderInv, Sequenced, Undispatched
<1>2. ~InOrder(r, CompOrdinal(r)) /\ request[r] # "cancelled"
  BY NothingPends DEF CancelledHolds, Undispatched
<1>3. PICK j \in Ordinals : step[r][j] = "failed"
  BY <1>2, CompOrdinalType
     DEF TerminalRequestStatus, OrderInv, Sequenced, FailInv, FailedHolds
<1>4. InOrder(r, j) /\ i \in Nat /\ j \in Nat /\ i >= 1 /\ j >= 1 /\ i # j
  BY <1>3, DispatchedInOrder, ConstantsAssumption DEF Dispatched, Ordinals
<1>5. ~(i < j)
  <2> SUFFICES ASSUME i < j PROVE FALSE
    OBVIOUS
  <2>1. i \in 1..(j - 1)
    BY <1>4
  <2> QED BY <1>1, <1>4, <2>1 DEF InOrder, FinishedStep
<1>6. j \in 1..(i - 1) /\ i # 1
  BY <1>4, <1>5
<1>7. i # CompOrdinal(r) /\ ~(i > CompOrdinal(r))
  BY <1>1 DEF Compensating, IInv, DocumentExists, Absent
<1>8. i \in 1..Len(Plan[r])
  BY <1>4, <1>7, PlanAssumption, ConstantsAssumption DEF CompOrdinal
<1> QED BY <1>1, <1>3, <1>6, <1>8 DEF InOrder, FinishedStep

-----------------------------------------------------------------------------

\* Where a lease outlives every step, a worker's step is running until it is settled, one
\* worker answers for it, and the plan is dispatched in order (executor.ts, advance.ts).
THEOREM OrderInductive == SlowSteps = FALSE => (Spec => [](IInv /\ OrderInv))
<1> SUFFICES ASSUME SlowSteps = FALSE PROVE Spec => [](IInv /\ OrderInv)
  OBVIOUS
<1>1. Init => IInv /\ OrderInv
  BY InitIInv, InitOrder
<1>2. IInv /\ OrderInv /\ [Next]_vars => (IInv /\ OrderInv)'
  <2> SUFFICES ASSUME IInv, OrderInv, [Next]_vars PROVE IInv' /\ OrderInv'
    OBVIOUS
  <2> QED BY InvariantStep, HoldsStep, ExcludesStep, SequencedStep, DraftedStep DEF OrderInv
<1> QED BY <1>1, <1>2, PTL DEF Spec

\* A claim is exclusive: two deliveries never execute one running step at the same time,
\* whatever the queue duplicates and whoever crashes (store.ts, claimStep).
THEOREM ClaimIsExclusive == SlowSteps = FALSE => (Spec => []ExclusiveExecution)
<1> SUFFICES ASSUME SlowSteps = FALSE PROVE Spec => []ExclusiveExecution
  OBVIOUS
<1>1. OrderInv => ExclusiveExecution
  BY DEF OrderInv, Excludes, ExclusiveExecution, Claimed
<1> QED BY <1>1, OrderInductive, PTL

\* A step of the plan is dispatched, halted or done only when every step before it is
\* finished, or a compensation has cut the plan short (advance.ts, nextUnfinished).
THEOREM PlanIsOrdered == SlowSteps = FALSE => (Spec => []PlanOrder)
<1> SUFFICES ASSUME SlowSteps = FALSE PROVE Spec => []PlanOrder
  OBVIOUS
<1>1. OrderInv => PlanOrder
  BY DEF OrderInv, Sequenced, InOrder, PlanOrder, Dispatched
<1> QED BY <1>1, OrderInductive, PTL

\* Where no requester may cancel, a request reported succeeded has finished its plan
\* (advance.ts).  A compensation replayed after a crash is the exception.
THEOREM SuccessIsComplete ==
    SlowSteps = FALSE /\ Cancellers = {} => (Spec => []SucceededIsComplete)
<1> SUFFICES ASSUME SlowSteps = FALSE, Cancellers = {} PROVE Spec => []SucceededIsComplete
  OBVIOUS
<1>1. GateInv /\ OrderInv => SucceededIsComplete
  <2> SUFFICES ASSUME GateInv, OrderInv, NEW r \in Requests, request[r] = "succeeded",
                      NEW i \in 1..Len(Plan[r])
               PROVE  step[r][i] \in FinishedStep
    BY DEF SucceededIsComplete
  <2>1. InOrder(r, CompOrdinal(r)) /\ ~Compensating(r)
    BY DEF OrderInv, Sequenced, GateInv, NoCompensation
  <2>2. i \in 1..(CompOrdinal(r) - 1)
    BY PlanAssumption, ConstantsAssumption DEF CompOrdinal
  <2> QED BY <2>1, <2>2 DEF InOrder
<1> QED BY <1>1, GateInductive, OrderInductive, PTL

\* A rejection stands, and starts no step of the request again (store.ts, decideStep,
\* expireApproval and resumeRequest).
THEOREM RejectionStands == SlowSteps = FALSE => (Spec => RejectionIsFinal)
<1> SUFFICES ASSUME SlowSteps = FALSE PROVE Spec => RejectionIsFinal
  OBVIOUS
<1> DEFINE Final == \A r \in Requests :
                       request[r] = "rejected" => /\ request'[r] = "rejected"
                                                  /\ \A i \in Ordinals : step'[r][i] # "running"
<1>1. IInv /\ OrderInv /\ [Next]_vars => Final
  <2> SUFFICES ASSUME IInv, OrderInv, [Next]_vars, NEW r \in Requests, request[r] = "rejected"
               PROVE  request'[r] = "rejected" /\ \A i \in Ordinals : step'[r][i] # "running"
    OBVIOUS
  <2>1. request'[r] = "rejected"
    BY RequestStep DEF RequestEffect
  <2>2. PICK j \in 1..Len(Plan[r]) : step[r][j] = "failed"
    BY DEF OrderInv, Sequenced
  <2>3. ~Compensating(r) /\ InOrder(r, j) /\ j \in Ordinals
    BY <2>2, CompOrdinalType DEF OrderInv, Sequenced, Dispatched
  <2>4. ASSUME NEW i \in Ordinals, step[r][i] \in {"ready", "running"} PROVE FALSE
    <3>1. InOrder(r, i) /\ i \in Nat /\ j \in Nat /\ i # j
      BY <2>2, <2>3, <2>4, DispatchedInOrder DEF Dispatched, Ordinals
    <3>2. i \in 1..(j - 1) \/ j \in 1..(i - 1)
      BY <2>3, <2>4, <3>1 DEF Ordinals
    <3> QED BY <2>2, <2>3, <2>4, <3>1, <3>2 DEF InOrder, FinishedStep
  <2>5. ASSUME NEW i \in Ordinals PROVE step'[r][i] # "running"
    BY <2>4, OrderStep DEF OrderEffect, MovesTo
  <2> QED BY <2>1, <2>5
<1>2. IInv /\ OrderInv /\ [Next]_vars => [Final]_<<request, step>>
  BY <1>1
<1> QED BY <1>2, OrderInductive, PTL DEF Spec, RejectionIsFinal

\* How a request fails, where no store call throws inside the executor (executor.ts).
THEOREM FailureInductive ==
    SlowSteps = FALSE /\ "throw" \notin FaultKinds => (Spec => []FailInv)
<1> SUFFICES ASSUME SlowSteps = FALSE, "throw" \notin FaultKinds PROVE Spec => []FailInv
  OBVIOUS
<1>1. Init => FailInv
  <2> SUFFICES ASSUME Init PROVE FailInv
    OBVIOUS
  <2>1. /\ \A w \in Workers : pc[w] = "idle"
        /\ \A r \in Requests : request[r] = "absent"
    BY DEF Init, Absent
  <2> QED BY <2>1 DEF FailInv, FailHolds, FailsAlone, FailedHolds
<1>2. IInv /\ OrderInv /\ FailInv /\ [Next]_vars => FailInv'
  <2> SUFFICES ASSUME IInv, OrderInv, FailInv, [Next]_vars PROVE FailInv'
    OBVIOUS
  <2> QED BY FailHoldsStep, FailsAloneStep, FailedHoldsStep DEF FailInv
<1> QED BY <1>1, <1>2, OrderInductive, PTL DEF Spec

\* An account is the target of one request in flight, or one of them was resumed: nothing
\* else puts a request that has landed in flight again (store.ts, createRequest).  Where a
\* store call may throw the approval of a halted step does, too.
THEOREM AdmissionIsExclusive ==
    SlowSteps = FALSE /\ "throw" \notin FaultKinds => (Spec => []OneInFlightUnlessResumed)
<1> SUFFICES ASSUME SlowSteps = FALSE, "throw" \notin FaultKinds
             PROVE  Spec => []OneInFlightUnlessResumed
  OBVIOUS
<1>1. Init => OneInFlightUnlessResumed
  BY DEF Init, Absent, OneInFlightUnlessResumed, InFlightRequest, NonTerminalRequestStatus,
         RequestStatus
<1>2. IInv /\ OrderInv /\ FailInv /\ OneInFlightUnlessResumed /\ [Next]_vars
          => OneInFlightUnlessResumed'
  BY OneInFlightStep
<1> QED BY <1>1, <1>2, FailureInductive, OrderInductive, PTL DEF Spec

\* A request that has ended dispatches nothing further, whoever had read it before it
\* ended (advance.ts, settleFailure).  A call that throws after a halt is the exception:
\* the execution that halted can fail the request while a later one is at its next step.
THEOREM EndedDispatchesNothing ==
    SlowSteps = FALSE /\ "throw" \notin FaultKinds => (Spec => TerminalDispatchesNothing)
<1> SUFFICES ASSUME SlowSteps = FALSE, "throw" \notin FaultKinds
             PROVE  Spec => TerminalDispatchesNothing
  OBVIOUS
<1> DEFINE Cancelled == \A r \in Requests : CancelledHolds(r)
           Quiet == \A r \in Requests, i \in Ordinals :
                       request[r] \in TerminalRequestStatus /\ step[r][i] = "pending"
                           => step'[r][i] \notin {"ready", "awaiting_approval"}
<1>1. Init => Cancelled
  BY DEF Init, Absent, CancelledHolds
<1>2. IInv /\ OrderInv /\ Cancelled /\ [Next]_vars => Cancelled'
  BY CancelledStep
<1>3. IInv /\ OrderInv /\ FailInv /\ Cancelled /\ [Next]_vars => Quiet
  <2> SUFFICES ASSUME IInv, OrderInv, FailInv, Cancelled, [Next]_vars,
                      NEW r \in Requests, NEW i \in Ordinals,
                      request[r] \in TerminalRequestStatus, step[r][i] = "pending",
                      step'[r][i] \in {"ready", "awaiting_approval"}
               PROVE  FALSE
    OBVIOUS
  <2>1. ~Compensating(r) /\ i \in 1..Len(Plan[r]) /\ ~InOrder(r, i) /\ i # 1
    BY EndedPends
  <2>2. Dispatcher(r, i)
    BY <2>1, OrderStep, CompOrdinalType DEF OrderEffect, MovesTo, Dispatched
  <2> QED BY <2>1, <2>2 DEF Dispatcher, OrderInv, Holds
<1>4. IInv /\ OrderInv /\ FailInv /\ Cancelled /\ [Next]_vars => [Quiet]_<<request, step>>
  BY <1>3
<1> QED BY <1>1, <1>2, <1>4, FailureInductive, OrderInductive, PTL
        DEF Spec, TerminalDispatchesNothing
=============================================================================
