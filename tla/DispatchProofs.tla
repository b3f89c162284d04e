---------------------------- MODULE DispatchProofs ----------------------------
(***************************************************************************)
(* What follows the order of the plan in Lifecycle: the compensation that  *)
(* gives an account back, the steps of two requests on one account, the    *)
(* tasks of a step, and what is never stranded: a ready step, a halted     *)
(* step and its notification, a request that awaits an approval and one    *)
(* that runs.                                                              *)
(***************************************************************************)
EXTENDS LifecycleProofs

-----------------------------------------------------------------------------
(* A compensation gives the account back *)

\* A plan suspends the account at most once.
SuspendsOnce ==
    \A r \in Requests : \A i, j \in 1..Len(Plan[r]) :
        Plan[r][i] = "suspend-user" /\ Plan[r][j] = "suspend-user" => i = j

\* The suspension of the request's own plan is over.
SuspensionDone(r) ==
    \E i \in 1..Len(Plan[r]) : Plan[r][i] = "suspend-user" /\ step[r][i] \in FinishedStep

Cancelling(r) == Compensating(r) \/ [op |-> "compensate", req |-> r] \in calls

\* An account suspended by a request is suspended; nothing is compensated but a suspension
\* that is over; and a compensating step whose handler finds nothing to undo, or has
\* undone it, leaves no suspension of the request behind.
Restores(w) ==
    I(w) = CompOrdinal(R(w)) /\ (pc[w] = "settle" \/ (pc[w] = "mutate" /\ seen[w] = "active"))
        => suspendedBy[Target[R(w)]] # R(w)

RestoreInv ==
    /\ \A u \in Users : suspendedBy[u] # NoRequest => account[u] = "suspended"
    /\ \A r \in Requests : Cancelling(r) => SuspensionDone(r)
    /\ \A w \in Workers : pc[w] # "idle" => Restores(w)
    /\ CompensationRestores

\* What a step may do to an account: nothing, end a suspension, or a new one.
AccountEffect(u) ==
    \/ account'[u] = account[u] /\ suspendedBy'[u] = suspendedBy[u]
    \/ suspendedBy'[u] = NoRequest
    \/ /\ account'[u] = "suspended"
       /\ \E w \in Workers : Handles(w, "suspend-user") /\ suspendedBy'[u] = R(w)

LEMMA AccountStep ==
    ASSUME IInv, [Next]_vars, NEW u \in Users
    PROVE  AccountEffect(u)
<1>1. CASE UNCHANGED envVars
  BY <1>1 DEF AccountEffect, envVars
<1>2. ASSUME NEW w \in Workers, Lands(w) PROVE AccountEffect(u)
  <2>1. ASSUME NEW state, NEW by, SetAccount(w, state, by),
               by = NoRequest \/ (by = R(w) /\ state = "suspended" /\ Handles(w, "suspend-user"))
        PROVE  AccountEffect(u)
    BY <2>1 DEF SetAccount, AccountEffect, IInv, TypeOK, EnvironmentTypes
  <2> QED BY <1>2, <2>1 DEF Lands, Suspends, Unsuspends, Deletes, Creates
<1> QED BY <1>1, <1>2, HandlersWrite

\* Nobody but a worker itself, or the delivery it takes, changes what it is about.
LEMMA WorkerMoves ==
    ASSUME IInv, [Next]_vars, NEW w \in Workers
    PROVE  \/ /\ pc'[w] = pc[w] /\ job'[w] = job[w] /\ seen'[w] = seen[w]
              /\ out'[w] = out[w] /\ nxt'[w] = nxt[w]
           \/ Handler(w) \/ Advance(w) \/ Crash(w) \/ CallThrows(w)
           \/ pc[w] = "idle" /\ \E t \in queue : ClaimStep(w, t)
<1> DEFINE Stays == /\ pc'[w] = pc[w] /\ job'[w] = job[w] /\ seen'[w] = seen[w]
                    /\ out'[w] = out[w] /\ nxt'[w] = nxt[w]
<1> USE DEF IInv, TypeOK, WorkerTypes, Goto
<1>1. CASE UNCHANGED workVars
  BY <1>1 DEF workVars
<1>2. ASSUME NEW v \in Workers, v # w, Handler(v) PROVE Stays
  BY <1>2
     DEF Handler, ReadAccount, SuspendUser, UnsuspendUser, DeleteUser, CreateUser, OtherHandler,
         HandlerError, Yields
<1>3. ASSUME NEW v \in Workers, v # w, Advance(v) \/ Crash(v) \/ CallThrows(v) PROVE Stays
  BY <1>3
     DEF Advance, SettleStep, AdvanceReadRequest, AdvanceReadSteps,
         FinishRequest, FinishThrows, ReleaseStep, HaltStep, FollowHalt, EnqueueNotification,
         EnqueueExpiry, EnqueueNext, SettleFailure, FailRequest, Answer200, Answer500, Finished,
         Crash, CallThrows
<1>4. ASSUME NEW t \in queue, NEW v \in Workers, v # w, ClaimStep(v, t) PROVE Stays
  BY <1>4 DEF ClaimStep
<1>5. ASSUME NEW t \in queue, ClaimStep(w, t) PROVE pc[w] = "idle"
  BY <1>5 DEF ClaimStep
<1>6. ASSUME NEW t \in queue, Deliver(t), ~\E v \in Workers : ClaimStep(v, t) PROVE UNCHANGED workVars
  BY <1>6 DEF Deliver, NotClaimable, ExpireApproval, ExpiryRefused, NotifyApprovers,
              NotifyRefused, NotifyUndelivered
<1>7. CASE UNCHANGED vars \/ Operator
  BY <1>1, <1>7 DEF vars, Operator, SetApprovalPolicy, CreateRequest, ReadForCancel, AdminCancel,
                    ResumeRequest, DecideStep
<1>8. CASE Api
  BY <1>1, <1>8 DEF Api, ServeStart, ServeCancel, StartFirstStep, StartRefused, RequesterCancel,
                    AppendCompensatingStep, EnqueueOwed
<1>9. CASE Failures
  <2>1. CASE \E v \in Workers : Crash(v) \/ CallThrows(v)
    BY <1>3, <2>1
  <2>2. CASE ~\E v \in Workers : Crash(v) \/ CallThrows(v)
    BY <1>1, <1>9, <2>2 DEF Failures, NotifyFails, NotifyUndelivered, LoseOwed, LoseCall
  <2> QED BY <2>1, <2>2
<1> QED BY <1>1, <1>2, <1>3, <1>4, <1>5, <1>6, <1>7, <1>8, <1>9 DEF Next

\* A worker that suspends the account runs a step of the plan, and its request has not
\* been asked to compensate.
LEMMA SuspendingIsNotCancelling ==
    ASSUME SuspendsOnce, IInv, OrderInv, RestoreInv, NEW w \in Workers, Handles(w, "suspend-user")
    PROVE  ~Cancelling(R(w))
<1>1. R(w) \in Requests /\ I(w) \in Ordinals /\ step[R(w)][I(w)] = "running"
  BY WorkerStep DEF OrderInv, Holds, Handles, Claimed
<1>2. I(w) \in 1..Len(Plan[R(w)]) /\ Plan[R(w)][I(w)] = "suspend-user"
  BY <1>1 DEF Handles, NameOf, CompensatingStep
<1> SUFFICES ASSUME Cancelling(R(w)) PROVE FALSE
  OBVIOUS
<1>3. PICK i \in 1..Len(Plan[R(w)]) : Plan[R(w)][i] = "suspend-user" /\ step[R(w)][i] \in FinishedStep
  BY <1>1 DEF RestoreInv, SuspensionDone
<1>4. i = I(w)
  BY <1>1, <1>2, <1>3 DEF SuspendsOnce
<1> QED BY <1>1, <1>3, <1>4 DEF FinishedStep

\* What is being compensated stays free of a suspension by its own request.
LEMMA FreedomKept ==
    ASSUME SuspendsOnce, IInv, OrderInv, RestoreInv, [Next]_vars, NEW r \in Requests,
           Cancelling(r), suspendedBy[Target[r]] # r
    PROVE  suspendedBy'[Target[r]] # r
<1>1. Target[r] \in Users
  BY ConstantsAssumption
<1>2. AccountEffect(Target[r])
  BY <1>1, AccountStep
<1> QED BY <1>2, SuspendingIsNotCancelling, RequestAssumption DEF AccountEffect

\* A step of a compensated request, or the compensating step, is finished by its worker.
LEMMA FinishedBySettling ==
    ASSUME IInv, OrderInv, [Next]_vars, NEW r \in Requests,
           step'[r][CompOrdinal(r)] \in FinishedStep, step[r][CompOrdinal(r)] \notin FinishedStep
    PROVE  \E w \in Workers : pc[w] = "settle" /\ R(w) = r /\ I(w) = CompOrdinal(r)
<1> DEFINE c == CompOrdinal(r)
<1>1. c \in Ordinals
  BY CompOrdinalType
<1>2. step[r][c] \notin Undispatched
  BY <1>1 DEF OrderInv, Sequenced, Compensating, Undispatched, Absent
<1>3. OrderEffect(r, c)
  BY <1>1, OrderStep
<1> QED BY <1>2, <1>3 DEF OrderEffect, MovesTo

\* Compensation is asked for only after the suspension.
LEMMA CancellingStep ==
    ASSUME IInv, OrderInv, RestoreInv, [Next]_vars, NEW r \in Requests, Cancelling(r)'
    PROVE  SuspensionDone(r)'
<1>1. CASE SuspensionDone(r)
  <2>1. PICK i \in 1..Len(Plan[r]) : Plan[r][i] = "suspend-user" /\ step[r][i] \in FinishedStep
    BY <1>1 DEF SuspensionDone
  <2>2. step'[r][i] \in FinishedStep
    BY <2>1, CompOrdinalType, OrderStep DEF OrderEffect, MovesTo
  <2> QED BY <2>1, <2>2 DEF SuspensionDone
<1>2. CASE ~Cancelling(r)
  <2>1. PICK i \in Ordinals : NameOf(r, i) = "suspend-user" /\ step[r][i] = "succeeded"
    BY <1>2, RequestStep DEF RequestEffect, Cancelling
  <2>2. i \in 1..Len(Plan[r]) /\ Plan[r][i] = "suspend-user"
    BY <2>1 DEF NameOf, CompensatingStep
  <2>3. SuspensionDone(r)
    BY <2>1, <2>2 DEF SuspensionDone, FinishedStep
  <2> QED BY <1>1, <2>3
<1> QED BY <1>1, <1>2 DEF RestoreInv

\* A busy worker on the compensating step.
LEMMA CompensatorCancels ==
    ASSUME IInv, OrderInv, NEW w \in Workers, pc[w] \in Claimed \cup Advancing, I(w) = CompOrdinal(R(w))
    PROVE  R(w) \in Requests /\ Cancelling(R(w))
BY WorkerStep DEF Cancelling, Compensating

\* The compensating handler's own step.
LEMMA HandlerRestores ==
    ASSUME IInv, OrderInv, RestoreInv, NEW w \in Workers, Handler(w), I(w) = CompOrdinal(R(w)),
           pc'[w] = "settle" \/ (pc'[w] = "mutate" /\ seen'[w] = "active")
    PROVE  suspendedBy'[Target[R(w)]] # R(w)
<1>1. pc[w] \in {"exec", "mutate"} /\ R(w) \in Requests /\ I(w) \in Ordinals /\ Target[R(w)] \in Users
  <2>1. pc[w] \in {"exec", "mutate"}
    BY DEF Handler, ReadAccount, SuspendUser, UnsuspendUser, DeleteUser, CreateUser, OtherHandler,
           HandlerError, Handles
  <2> QED BY <2>1, BusyJob, ConstantsAssumption DEF IInv, TypeOK
<1>2. NameOf(R(w), I(w)) = CompensatingStep
  BY <1>1, CompOrdinalType DEF NameOf
<1>3. Restores(w)
  BY <1>1 DEF RestoreInv
<1>4. CASE ReadAccount(w)
  <2>1. pc'[w] = "mutate" /\ seen'[w] = Account(w) /\ suspendedBy' = suspendedBy
    BY <1>4 DEF ReadAccount, Goto, envVars, IInv, TypeOK, WorkerTypes
  <2>2. suspendedBy[Target[R(w)]] # NoRequest => Account(w) = "suspended"
    BY <1>1 DEF RestoreInv, Account
  <2> QED BY <1>1, <2>1, <2>2, RequestAssumption
<1>5. CASE UnsuspendUser(w)
  <2>1. CASE seen[w] = "active" /\ UNCHANGED envVars
    BY <1>3, <1>5, <2>1 DEF Restores, UnsuspendUser, Handles, envVars
  <2>2. CASE SetAccount(w, "active", NoRequest)
    BY <1>1, <2>2, RequestAssumption DEF SetAccount, IInv, TypeOK, EnvironmentTypes
  <2>3. CASE Yields(w, "terminal")
    BY <2>3 DEF Yields, Goto, IInv, TypeOK, WorkerTypes
  <2> QED BY <1>5, <2>1, <2>2, <2>3 DEF UnsuspendUser, Unsuspends
<1>6. CASE \E e \in HandlerFaults : HandlerError(w, e)
  BY <1>6, ConstantsAssumption DEF HandlerError, Yields, Goto, IInv, TypeOK, WorkerTypes
<1> QED BY <1>2, <1>4, <1>5, <1>6
        DEF Handler, SuspendUser, DeleteUser, CreateUser, OtherHandler, Handles, ActsOnAccount, CompensatingStep

LEMMA RestoresStep ==
    ASSUME SuspendsOnce, IInv, OrderInv, RestoreInv, [Next]_vars, NEW w \in Workers, pc'[w] # "idle"
    PROVE  Restores(w)'
<1> SUFFICES ASSUME I(w)' = CompOrdinal(R(w)'), pc'[w] = "settle" \/ (pc'[w] = "mutate" /\ seen'[w] = "active")
             PROVE  suspendedBy'[Target[R(w)']] # R(w)'
  BY DEF Restores, CompOrdinal
<1>1. CASE pc'[w] = pc[w] /\ job'[w] = job[w] /\ seen'[w] = seen[w]
  <2>1. R(w)' = R(w) /\ I(w)' = I(w)
    BY <1>1 DEF R, I
  <2>2. suspendedBy[Target[R(w)]] # R(w)
    BY <1>1, <2>1 DEF RestoreInv, Restores
  <2>3. R(w) \in Requests /\ Cancelling(R(w))
    BY <1>1, <2>1, CompensatorCancels DEF Claimed
  <2> QED BY <2>1, <2>2, <2>3, FreedomKept
<1>2. CASE Handler(w)
  <2>1. job' = job
    BY <1>2 DEF Handler, ReadAccount, SuspendUser, UnsuspendUser, DeleteUser, CreateUser, OtherHandler,
                HandlerError, Yields
  <2>2. R(w)' = R(w) /\ I(w)' = I(w)
    BY <2>1 DEF R, I
  <2> QED BY <1>2, <2>2, HandlerRestores
<1>3. \/ pc'[w] = pc[w] /\ job'[w] = job[w] /\ seen'[w] = seen[w]
      \/ Handler(w)
  <2>1. ASSUME Advance(w) \/ Crash(w) \/ CallThrows(w) PROVE pc'[w] \notin {"mutate", "settle"}
    BY <2>1 DEF Advance, SettleStep, AdvanceReadRequest, AdvanceReadSteps, NextMove, FinishRequest,
         FinishThrows, ReleaseStep, HaltStep, FollowHalt, EnqueueNotification, EnqueueExpiry,
         EnqueueNext, SettleFailure, FailRequest, Answer200, Answer500, Finished, Crash, CallThrows,
         Goto, IInv, TypeOK, WorkerTypes
  <2>2. ASSUME NEW t \in queue, ClaimStep(w, t) PROVE pc'[w] = "exec"
    BY <2>2 DEF ClaimStep, Goto, IInv, TypeOK, WorkerTypes
  <2> QED BY <2>1, <2>2, WorkerMoves
<1> QED BY <1>1, <1>2, <1>3

\* A compensating step that is finished was settled by a worker that left no suspension.
LEMMA CompensatedRestores ==
    ASSUME SuspendsOnce, IInv, OrderInv, RestoreInv, [Next]_vars, NEW r \in Requests,
           step'[r][CompOrdinal(r)] \in FinishedStep
    PROVE  suspendedBy'[Target[r]] # r
<1> DEFINE c == CompOrdinal(r)
<1>1. c \in Ordinals
  BY CompOrdinalType
<1>2. Cancelling(r) /\ suspendedBy[Target[r]] # r
  <2>1. CASE step[r][c] \in FinishedStep
    BY <2>1 DEF RestoreInv, CompensationRestores, Cancelling, Compensating, FinishedStep, Absent
  <2>2. CASE step[r][c] \notin FinishedStep
    <3>1. PICK w \in Workers : pc[w] = "settle" /\ R(w) = r /\ I(w) = c
      BY <1>1, <2>2, FinishedBySettling
    <3> QED BY <3>1, CompensatorCancels DEF RestoreInv, Restores, Claimed
  <2> QED BY <2>1, <2>2
<1> QED BY <1>2, FreedomKept

LEMMA RestoreStep ==
    ASSUME SuspendsOnce, IInv, OrderInv, RestoreInv, [Next]_vars
    PROVE  RestoreInv'
<1>1. ASSUME NEW u \in Users, suspendedBy'[u] # NoRequest PROVE account'[u] = "suspended"
  BY <1>1, AccountStep DEF RestoreInv, AccountEffect
<1>2. ASSUME NEW r \in Requests, Cancelling(r)' PROVE SuspensionDone(r)'
  BY <1>2, CancellingStep
<1>3. ASSUME NEW w \in Workers, pc'[w] # "idle" PROVE Restores(w)'
  BY <1>3, RestoresStep
<1>4. CompensationRestores'
  BY CompensatedRestores DEF CompensationRestores, CompOrdinal
<1> QED BY <1>1, <1>2, <1>3, <1>4 DEF RestoreInv

\* A finished compensating step has given the account back for good, whatever else the
\* request still had queued, whoever crashes and however often it is delivered or resumed
\* (store.ts, appendCompensatingStep; phases/delete.ts, unsuspend-user).
THEOREM CompensationUndoes ==
    SlowSteps = FALSE /\ SuspendsOnce => (Spec => []CompensationRestores)
<1> SUFFICES ASSUME SlowSteps = FALSE, SuspendsOnce PROVE Spec => []CompensationRestores
  OBVIOUS
<1>1. Init => RestoreInv
  <2> SUFFICES ASSUME Init PROVE RestoreInv
    OBVIOUS
  <2>1. \A r \in Requests : CompOrdinal(r) \in Ordinals
    BY CompOrdinalType
  <2> QED BY <2>1 DEF Init, RestoreInv, Cancelling, Compensating, CompensationRestores, FinishedStep, Absent
<1>2. IInv /\ OrderInv /\ RestoreInv /\ [Next]_vars => RestoreInv'
  BY RestoreStep
<1>3. RestoreInv => CompensationRestores
  BY DEF RestoreInv
<1> QED BY <1>1, <1>2, <1>3, OrderInductive, PTL DEF Spec

\* The entries of a plan, named from a set of names.
Entries(steps, inputs) == [name : steps, input : inputs \cup {NoInput}]

\* Only a deletion's plan names "suspend-user", and it does once (stepPlans.ts): what
\* SuspendsOnce assumes of every plan.
LEMMA PlanSuspendsOnce ==
    ASSUME NEW inputs, NEW payload, NEW phase \in Phases,
           phase = "create" => payload.groups \in Seq(inputs),
           phase = "update" => payload.addGroups \in Seq(inputs) /\ payload.removeGroups \in Seq(inputs),
           NEW i \in DOMAIN StepPlanFor(phase, payload), NEW j \in DOMAIN StepPlanFor(phase, payload),
           StepPlanFor(phase, payload)[i].name = "suspend-user",
           StepPlanFor(phase, payload)[j].name = "suspend-user"
    PROVE  i = j
<1> DEFINE Others == {"validate-request", "create-user", "apply-attributes", "assign-group",
                      "verify-account", "validate-update-request", "compute-update-diff",
                      "apply-update-attributes", "add-group", "remove-group", "verify-update"}
           E == Entries(Others, inputs)
<1>1. ASSUME NEW name \in Others, NEW groups \in Seq(inputs)
      PROVE  GroupSteps(name, groups) \in Seq(E)
  BY <1>1 DEF GroupSteps, Entries
<1>2. \A name \in Others : Entry(name) \in E
  BY DEF Entry, Entries
<1>3. ASSUME StepPlanFor(phase, payload) \in Seq(E) PROVE FALSE
  <2>1. StepPlanFor(phase, payload)[i] \in E
    BY <1>3
  <2> QED BY <2>1 DEF Entries
<1>4. CASE phase = "delete"
  BY <1>4 DEF StepPlanFor, DeletePlan, Entry
<1>5. CASE phase = "notify"
  BY <1>5 DEF StepPlanFor, NotifyPlan, Entry
<1> HIDE DEF E
<1>6. ASSUME NEW e \in E PROVE <<e>> \in Seq(E)
  OBVIOUS
<1>7. ASSUME NEW s \in Seq(E), NEW t \in Seq(E) PROVE s \o t \in Seq(E)
  OBVIOUS
<1>8. CASE phase = "create"
  <2>1. GroupSteps("assign-group", payload.groups) \in Seq(E)
    BY <1>1, <1>8
  <2>2. <<Entry("validate-request"), Entry("create-user"), Entry("apply-attributes")>> \in Seq(E)
    BY <1>2
  <2>3. <<Entry("verify-account")>> \in Seq(E)
    BY <1>2
  <2>4. CreatePlan(payload) \in Seq(E)
    BY <1>7, <2>1, <2>2, <2>3 DEF CreatePlan
  <2> QED BY <1>3, <1>8, <2>4 DEF StepPlanFor
<1>9. CASE phase = "update"
  <2>1. GroupSteps("add-group", payload.addGroups) \in Seq(E) /\ GroupSteps("remove-group", payload.removeGroups) \in Seq(E)
    BY <1>1, <1>9
  <2>2. <<Entry("validate-update-request"), Entry("compute-update-diff")>> \in Seq(E)
    BY <1>2
  <2>3. (IF payload.attributes THEN <<Entry("apply-update-attributes")>> ELSE <<>>) \in Seq(E)
    BY <1>2
  <2>4. <<Entry("verify-update")>> \in Seq(E)
    BY <1>2
  <2>5. UpdatePlan(payload) \in Seq(E)
    BY <1>7, <2>1, <2>2, <2>3, <2>4 DEF UpdatePlan
  <2> QED BY <1>3, <1>9, <2>5 DEF StepPlanFor
<1> QED BY <1>4, <1>5, <1>8, <1>9 DEF Phases

-----------------------------------------------------------------------------
(* One writer of an account *)

\* The request was cancelled, or is being.
Withdrawn(r) == request[r] = "cancelled" \/ Compensating(r)

\* A step that runs belongs to a request in flight, unless that was cancelled.
LEMMA RunningInFlight ==
    ASSUME IInv, OrderInv, FailInv, NEW r \in Requests, NEW i \in Ordinals, step[r][i] = "running"
    PROVE  InFlightRequest(r) \/ Withdrawn(r)
<1> SUFFICES ASSUME ~Withdrawn(r) PROVE InFlightRequest(r)
  OBVIOUS
<1>1. request[r] # Absent /\ request[r] \in RequestStatus \cup {Absent}
  BY DEF IInv, TypeOK, StoreTypes, DocumentExists, Absent
<1>2. ~InOrder(r, CompOrdinal(r))
  <2> SUFFICES ASSUME InOrder(r, CompOrdinal(r)) PROVE FALSE
    OBVIOUS
  <2>1. i # CompOrdinal(r) /\ ~(i > CompOrdinal(r))
    BY DEF Withdrawn, Compensating, IInv, DocumentExists, Absent
  <2>2. i \in 1..(CompOrdinal(r) - 1)
    BY <2>1, CompOrdinalType, ConstantsAssumption DEF Ordinals
  <2> QED BY <2>2 DEF InOrder, Withdrawn, FinishedStep
<1>3. ASSUME NEW j \in Ordinals, step[r][j] = "failed" PROVE FALSE
  BY <1>2, <1>3, OneUnfinished DEF Dispatched, FinishedStep
<1>4. request[r] \notin TerminalRequestStatus
  BY <1>2, <1>3, CompOrdinalType
     DEF TerminalRequestStatus, OrderInv, Sequenced, FailInv, FailedHolds, Withdrawn
<1> QED BY <1>1, <1>4 DEF InFlightRequest, NonTerminalRequestStatus

\* Two requests act on one account at the same time only after a resume or a cancellation.
Serialized ==
    \A v, w \in Workers :
        pc[v] = "mutate" /\ pc[w] = "mutate" /\ Target[R(v)] = Target[R(w)]
            => \/ R(v) = R(w)
               \/ \E r \in {R(v), R(w)} : resumes[r] > 0 \/ Withdrawn(r)

LEMMA WritersSerialize == IInv /\ OrderInv /\ FailInv /\ OneInFlightUnlessResumed => Serialized
<1> SUFFICES ASSUME IInv, OrderInv, FailInv, OneInFlightUnlessResumed,
                    NEW v \in Workers, NEW w \in Workers,
                    pc[v] = "mutate", pc[w] = "mutate", Target[R(v)] = Target[R(w)], R(v) # R(w),
                    ~Withdrawn(R(v)), ~Withdrawn(R(w))
             PROVE  resumes[R(v)] > 0 \/ resumes[R(w)] > 0
  BY DEF Serialized
<1>1. ASSUME NEW x \in Workers, pc[x] = "mutate", ~Withdrawn(R(x))
      PROVE  R(x) \in Requests /\ InFlightRequest(R(x))
  <2>1. R(x) \in Requests /\ I(x) \in Ordinals /\ step[R(x)][I(x)] = "running"
    BY <1>1, WorkerStep DEF OrderInv, Holds, Claimed
  <2> QED BY <1>1, <2>1, RunningInFlight
<1> QED BY <1>1 DEF OneInFlightUnlessResumed

\* Where nobody cancels, no request is cancelled.
NotCancelled ==
    /\ \A r \in Requests : request[r] # "cancelled"
    /\ \A w \in Workers : pc[w] = "finish" => out[w] # "cancelled"

LEMMA NotCancelledStep ==
    ASSUME Cancellers = {}, AdminCancellers = {}, GateInv, NotCancelled, [Next]_vars
    PROVE  NotCancelled'
<1>1. IInv /\ \A r \in Requests : ~Compensating(r)
  BY DEF GateInv, NoCompensation
<1>2. ASSUME NEW w \in Workers, pc'[w] = "finish" PROVE out'[w] # "cancelled"
  <2>1. CASE pc'[w] = pc[w] /\ out'[w] = out[w]
    BY <1>2, <2>1 DEF NotCancelled
  <2>2. CASE AdvanceReadSteps(w)
    <3>1. out'[w] = Outcome(R(w)) /\ R(w) \in Requests
      BY <1>1, <1>2, <2>2, BusyJob DEF AdvanceReadSteps, NextMove, Goto, IInv, TypeOK, WorkerTypes
    <3> QED BY <1>1, <3>1 DEF Outcome, Compensating, Absent
  <2>3. ASSUME Handler(w) \/ Crash(w) \/ CallThrows(w) \/ \E t \in queue : ClaimStep(w, t) PROVE FALSE
    BY <1>1, <1>2, <2>3
       DEF Handler, ReadAccount, SuspendUser, UnsuspendUser, DeleteUser, CreateUser, OtherHandler,
           HandlerError, Yields, Crash, Finished, CallThrows, ClaimStep, Goto, IInv, TypeOK, WorkerTypes
  <2>4. ASSUME Advance(w), ~AdvanceReadSteps(w) PROVE FALSE
    BY <1>1, <1>2, <2>4
       DEF Advance, SettleStep, AdvanceReadRequest, FinishRequest,
         FinishThrows, ReleaseStep, HaltStep, FollowHalt, EnqueueNotification, EnqueueExpiry,
         EnqueueNext, SettleFailure, FailRequest, Answer200, Answer500, Finished,
         Goto, IInv, TypeOK, WorkerTypes
  <2> QED BY <1>1, <2>1, <2>2, <2>3, <2>4, WorkerMoves
<1>3. ASSUME NEW r \in Requests PROVE request'[r] # "cancelled"
  BY CancelStep, <1>1 DEF CancelLeaves, NotCancelled, GateInv, NoCompensation
<1> QED BY <1>2, <1>3 DEF NotCancelled

\* Two requests act on one account at the same time only after a resume, or after one of
\* them was cancelled: a cancellation leaves the step that runs alone (store.ts, cancelRequest).
THEOREM WritersAreSerialized ==
    SlowSteps = FALSE /\ "throw" \notin FaultKinds => (Spec => []Serialized)
<1> SUFFICES ASSUME SlowSteps = FALSE, "throw" \notin FaultKinds PROVE Spec => []Serialized
  OBVIOUS
<1> QED BY WritersSerialize, OrderInductive, FailureInductive, AdmissionIsExclusive, PTL

\* So where nobody cancels the admission guard serialises what the workers do, unless a
\* request is resumed (store.ts, createRequest).
THEOREM OneWriter ==
    SlowSteps = FALSE /\ "throw" \notin FaultKinds /\ Cancellers = {} /\ AdminCancellers = {}
        => (Spec => []OneWriterUnlessResumed)
<1> SUFFICES ASSUME SlowSteps = FALSE, "throw" \notin FaultKinds, Cancellers = {}, AdminCancellers = {}
             PROVE  Spec => []OneWriterUnlessResumed
  OBVIOUS
<1>1. Init => NotCancelled
  BY DEF Init, NotCancelled, Absent
<1>2. GateInv /\ NotCancelled /\ [Next]_vars => NotCancelled'
  BY NotCancelledStep
<1>3. GateInv /\ NotCancelled /\ Serialized => OneWriterUnlessResumed
  <2> SUFFICES ASSUME GateInv, NotCancelled, Serialized, NEW v \in Workers, NEW w \in Workers,
                      pc[v] = "mutate", pc[w] = "mutate", Target[R(v)] = Target[R(w)]
               PROVE  R(v) = R(w) \/ resumes[R(v)] > 0 \/ resumes[R(w)] > 0
    BY DEF OneWriterUnlessResumed
  <2>1. R(v) \in Requests /\ R(w) \in Requests
    BY BusyJob DEF GateInv, IInv, TypeOK
  <2> QED BY <2>1 DEF Serialized, Withdrawn, NotCancelled, GateInv, NoCompensation
<1> QED BY <1>1, <1>2, <1>3, GateInductive, WritersAreSerialized, PTL DEF Spec

-----------------------------------------------------------------------------
(* The tasks of a step *)

\* A task's name tells its step and its nonce, and no two kinds share one.
LEMMA TaskNames ==
    ASSUME NEW r \in Requests, NEW i \in Ordinals, NEW n \in 0..MaxResumes,
           NEW q \in Requests, NEW j \in Ordinals, NEW m \in 0..MaxResumes
    PROVE  /\ ExecuteTask(r, i, n) = ExecuteTask(q, j, m) => r = q /\ i = j /\ n = m
           /\ ExecuteTask(r, i, n) \notin {NotifyTask(q, j), ExpiryTask(q, j)}
           /\ NotifyTask(q, j) = NotifyTask(r, i) => q = r /\ j = i
           /\ NotifyTask(q, j) # ExpiryTask(r, i)
           /\ ExecuteTask(r, i, n) \in Task /\ ExecuteTask(r, i, n).kind = "execute"
           /\ ExecuteTask(r, i, n).req = r /\ ExecuteTask(r, i, n).ord = i
BY DEF ExecuteTask, NotifyTask, ExpiryTask, Task

LEMMA TaskOfStep ==
    ASSUME NEW t \in Task, t.kind = "execute"
    PROVE  t.nonce \in 0..MaxResumes /\ t = ExecuteTask(t.req, t.ord, t.nonce)
BY DEF ExecuteTask, Task

LEMMA ZeroNonce == 0 \in 0..MaxResumes
BY ConstantsAssumption

\* createTask, and what the queue does with an answer.
LEMMA EnqueueMoves ==
    ASSUME NEW t, Enqueue(t)
    PROVE  /\ names' = names \cup {t}
           /\ queue \subseteq queue' /\ queue' \subseteq queue \cup {t}
           /\ t \notin names => t \in queue'
BY DEF Enqueue, queueVars

LEMMA AnswerMoves ==
    ASSUME NEW t, Acknowledge(t) \/ FailDelivery(t)
    PROVE  /\ names' = names
           /\ queue' \subseteq queue /\ queue \ {t} \subseteq queue'
BY DEF Acknowledge, FailDelivery

\* The ways a task comes to be owed.
Issues(r, i, n) ==
    \/ /\ n = 0 /\ step'[r][i] = "ready" /\ step[r][i] \in Undispatched \cup {Absent}
    \/ n = 0 /\ i = CompOrdinal(r) /\ step[r][i] # Absent
    \/ n = resumes[r] + 1 /\ resumes'[r] = n /\ step[r][i] = "failed" /\ step'[r][i] = "ready"

Enqueues(w, r, i) == pc[w] = "enqueue" /\ R(w) = r /\ nxt[w] = i

OwedEffect(r, i, n) ==
    LET t == ExecuteTask(r, i, n) IN
    /\ t \in owed' \ owed => Issues(r, i, n)
    /\ t \in owed \ owed' => \/ "lose" \in FaultKinds
                             \/ t \in names' /\ (t \in names \/ t \in queue')

LEMMA OwedStep ==
    ASSUME IInv, OrderInv, [Next]_vars, NEW r \in Requests, NEW i \in Ordinals, NEW n \in 0..MaxResumes
    PROVE  OwedEffect(r, i, n)
<1> DEFINE t == ExecuteTask(r, i, n)
<1> USE DEF OwedEffect
<1> HIDE DEF t
<1>1. CASE UNCHANGED owed
  BY <1>1
<1>2. ASSUME NEW q \in Requests, StartFirstStep(q) PROVE OwedEffect(r, i, n)
  <2>1. t \in owed' => t \in owed \/ (r = q /\ i = 1 /\ n = 0 /\ step' = [step EXCEPT ![q][1] = "ready"])
    <3>1. t \notin {NotifyTask(q, 1), ExpiryTask(q, 1)}
      BY TaskNames, CompOrdinalType, ZeroNonce DEF t
    <3>2. t = ExecuteTask(q, 1, 0) => r = q /\ i = 1 /\ n = 0
      BY TaskNames, CompOrdinalType, ZeroNonce DEF t
    <3>3. \/ owed' = owed \cup {NotifyTask(q, 1)}
                        \cup (IF PolicyOf(q, 1).expires THEN {ExpiryTask(q, 1)} ELSE {})
          \/ owed' = owed \cup {ExecuteTask(q, 1, 0)} /\ step' = [step EXCEPT ![q][1] = "ready"]
      BY <1>2 DEF StartFirstStep
    <3> QED BY <3>1, <3>2, <3>3
  <2>2. owed \subseteq owed'
    BY <1>2 DEF StartFirstStep
  <2>3. CanTransitionRequest(request[q], "running") /\ [op |-> "start", req |-> q] \in calls
    BY <1>2 DEF StartFirstStep
  <2>4. request[q] = "draft"
    BY <2>3 DEF OrderInv, Drafted, CanTransitionRequest, RequestTransitions, RequestStatus
  <2>5. step[q][1] \in {"pending", Absent}
    BY <2>4, CompOrdinalType DEF OrderInv, Drafted
  <2>6. ASSUME t \in owed' \ owed PROVE Issues(r, i, n)
    <3>1. r = q /\ i = 1 /\ n = 0 /\ step' = [step EXCEPT ![q][1] = "ready"]
      BY <2>1, <2>6
    <3>2. step'[r][i] = "ready"
      BY <3>1, CompOrdinalType DEF IInv, TypeOK, StoreTypes
    <3> QED BY <2>5, <3>1, <3>2 DEF Issues, Undispatched
  <2> QED BY <2>2, <2>6 DEF t
<1>3. ASSUME NEW q \in Requests, NEW j \in Ordinals, NEW h, NEW d, DecideStep(q, j, h, d)
      PROVE OwedEffect(r, i, n)
  <2>1. owed \subseteq owed'
    BY <1>3 DEF DecideStep
  <2>2. ASSUME t \in owed' \ owed PROVE Issues(r, i, n)
    <3>1. t = ExecuteTask(q, j, 0) /\ d = "approved"
      BY <1>3, <2>2 DEF DecideStep
    <3>2. r = q /\ i = j /\ n = 0
      BY <3>1, TaskNames, ZeroNonce DEF t
    <3>3. step'[r][i] = "ready" /\ step[r][i] = "awaiting_approval"
      BY <1>3, <3>1, <3>2 DEF DecideStep, IInv, TypeOK, StoreTypes
    <3> QED BY <3>2, <3>3 DEF Issues, Undispatched
  <2> QED BY <2>1, <2>2 DEF t
<1>4. ASSUME NEW q \in Requests, AppendCompensatingStep(q) PROVE OwedEffect(r, i, n)
  <2>1. owed \subseteq owed'
    BY <1>4 DEF AppendCompensatingStep
  <2>2. ASSUME t \in owed' \ owed PROVE Issues(r, i, n)
    <3>1. t = ExecuteTask(q, CompOrdinal(q), 0)
      BY <1>4, <2>2 DEF AppendCompensatingStep
    <3>2. r = q /\ i = CompOrdinal(q) /\ n = 0
      BY <3>1, TaskNames, ZeroNonce, CompOrdinalType DEF t
    <3>3. CASE step[q][CompOrdinal(q)] = Absent
      <4>1. step' = [step EXCEPT ![q] = [k \in Ordinals |-> IF k = CompOrdinal(q) THEN "ready" ELSE Stopped(step[q][k])]]
        BY <1>4, <2>2, <3>3 DEF AppendCompensatingStep
      <4>2. step'[r][i] = "ready"
        BY <3>2, <4>1 DEF IInv, TypeOK, StoreTypes
      <4> QED BY <3>2, <3>3, <4>2 DEF Issues
    <3> QED BY <3>2, <3>3 DEF Issues
  <2> QED BY <2>1, <2>2 DEF t
<1>5. ASSUME NEW q \in Requests, NEW j \in Ordinals, ResumeRequest(q, j) PROVE OwedEffect(r, i, n)
  <2>1. owed \subseteq owed'
    BY <1>5 DEF ResumeRequest
  <2>2. resumes[q] + 1 \in 0..MaxResumes
    BY <1>5, ConstantsAssumption DEF ResumeRequest, IInv, TypeOK, BoundTypes
  <2>3. ASSUME t \in owed' \ owed PROVE Issues(r, i, n)
    <3>1. t = ExecuteTask(q, j, resumes[q] + 1)
      BY <1>5, <2>3 DEF ResumeRequest
    <3>2. r = q /\ i = j /\ n = resumes[q] + 1
      BY <2>2, <3>1, TaskNames DEF t
    <3>3. step'[r][i] = "ready" /\ step[r][i] = "failed" /\ resumes'[r] = resumes[r] + 1
      BY <1>5, <3>2 DEF ResumeRequest, IInv, TypeOK, StoreTypes, BoundTypes
    <3> QED BY <3>2, <3>3 DEF Issues
  <2> QED BY <2>1, <2>3 DEF t
<1>6. ASSUME NEW x \in owed, EnqueueOwed(x) PROVE OwedEffect(r, i, n)
  <2>1. owed' = owed \ {x} /\ names' = names \cup {x} /\ (x \notin names => x \in queue')
    BY <1>6, EnqueueMoves DEF EnqueueOwed
  <2> QED BY <2>1
<1>7. ASSUME NEW x \in owed, LoseOwed(x) PROVE OwedEffect(r, i, n)
  BY <1>7 DEF LoseOwed, Fault
<1>8. CASE UNCHANGED vars
  BY <1>1, <1>8 DEF vars, apiVars
<1>9. CASE Operator
  BY <1>1, <1>3, <1>5, <1>9
     DEF Operator, SetApprovalPolicy, CreateRequest, ReadForCancel, AdminCancel, apiVars
<1>10. CASE Api
  BY <1>1, <1>2, <1>4, <1>6, <1>10
     DEF Api, ServeStart, ServeCancel, StartRefused, RequesterCancel
<1>11. ASSUME NEW x \in queue, Deliver(x) PROVE OwedEffect(r, i, n)
  BY <1>1, <1>11 DEF Deliver, NotClaimable, ClaimStep, ExpireApproval, ExpiryRefused, NotifyApprovers,
                     NotifyRefused, NotifyUndelivered, apiVars
<1>12. ASSUME NEW w \in Workers, Handler(w) \/ Advance(w) PROVE OwedEffect(r, i, n)
  <2>1. CASE Handler(w)
    BY <1>1, <2>1
       DEF Handler, ReadAccount, SuspendUser, UnsuspendUser, DeleteUser, CreateUser, OtherHandler,
           HandlerError, Yields, apiVars
  <2>2. CASE Advance(w)
    BY <1>1, <2>2
       DEF Advance, SettleStep, AdvanceReadRequest, AdvanceReadSteps, FinishRequest, FinishThrows,
           ReleaseStep, HaltStep, FollowHalt, EnqueueNotification, EnqueueExpiry, EnqueueNext,
           SettleFailure, FailRequest, Answer200, Answer500, apiVars
  <2> QED BY <1>12, <2>1, <2>2
<1>13. CASE Failures
  BY <1>1, <1>7, <1>13
     DEF Failures, Crash, CallThrows, NotifyFails, NotifyUndelivered, LoseCall, apiVars
<1> QED BY <1>8, <1>9, <1>10, <1>11, <1>12, <1>13 DEF Next

\* The ways a task comes to the queue and leaves it.
QueueEffect(r, i, n) ==
    LET t == ExecuteTask(r, i, n) IN
    /\ t \in names => t \in names'
    /\ t \in names' \ names
          => /\ t \in queue'
             /\ t \in owed \/ (n = 0 /\ \E w \in Workers : Enqueues(w, r, i) /\ EnqueueNext(w))
    /\ t \in queue \ queue'
          => \/ step[r][i] # "ready" /\ step' = step
             \/ \E w \in Workers : pc[w] # "idle" /\ job[w] = t /\ pc'[w] = "idle"

LEMMA QueueStep ==
    ASSUME IInv, [Next]_vars, NEW r \in Requests, NEW i \in Ordinals, NEW n \in 0..MaxResumes
    PROVE  QueueEffect(r, i, n)
<1> DEFINE t == ExecuteTask(r, i, n)
<1> USE DEF QueueEffect
<1>1. CASE UNCHANGED queueVars
  BY <1>1 DEF queueVars
<1>2. ASSUME NEW x \in owed, EnqueueOwed(x) PROVE QueueEffect(r, i, n)
  BY <1>2, EnqueueMoves DEF EnqueueOwed
<1>3. ASSUME NEW w \in Workers, EnqueueNotification(w) \/ EnqueueExpiry(w) PROVE QueueEffect(r, i, n)
  <2>1. pc[w] # "idle" /\ nxt[w] \in Ordinals
    BY <1>3 DEF EnqueueNotification, EnqueueExpiry, IInv, WorkerLocals, LocalsOf
  <2>2. R(w) \in Requests
    BY <2>1, BusyJob DEF IInv, TypeOK
  <2>3. \E x : Enqueue(x) /\ x # t
    BY <1>3, <2>1, <2>2, TaskNames DEF EnqueueNotification, EnqueueExpiry
  <2> QED BY <2>3, EnqueueMoves
<1>4. ASSUME NEW w \in Workers, EnqueueNext(w) PROVE QueueEffect(r, i, n)
  <2>1. pc[w] = "enqueue" /\ nxt[w] \in Ordinals /\ Enqueue(ExecuteTask(R(w), nxt[w], 0))
    BY <1>4 DEF EnqueueNext, IInv, WorkerLocals, LocalsOf
  <2>2. R(w) \in Requests
    BY <2>1, BusyJob DEF IInv, TypeOK
  <2>3. t = ExecuteTask(R(w), nxt[w], 0) => n = 0 /\ Enqueues(w, r, i)
    BY <2>1, <2>2, TaskNames, ZeroNonce DEF Enqueues
  <2> HIDE DEF t
  <2>4. /\ names' = names \cup {ExecuteTask(R(w), nxt[w], 0)} /\ queue \subseteq queue'
        /\ ExecuteTask(R(w), nxt[w], 0) \notin names => ExecuteTask(R(w), nxt[w], 0) \in queue'
    BY <2>1, EnqueueMoves
  <2> QED BY <1>4, <2>3, <2>4 DEF t
<1>5. ASSUME NEW w \in Workers, Answer200(w) \/ Answer500(w) \/ Crash(w) PROVE QueueEffect(r, i, n)
  <2>1. pc[w] # "idle" /\ pc'[w] = "idle" /\ (Acknowledge(job[w]) \/ FailDelivery(job[w]))
    BY <1>5 DEF Answer200, Answer500, Crash, Finished, IInv, TypeOK, WorkerTypes
  <2> QED BY <2>1, AnswerMoves
<1>6. ASSUME NEW x \in queue, NotClaimable(x) PROVE QueueEffect(r, i, n)
  <2>1. step' = step /\ FailDelivery(x) /\ step[x.req][x.ord] # "ready"
    BY <1>6 DEF NotClaimable, storeVars
  <2>2. x = t => x.req = r /\ x.ord = i
    BY TaskNames
  <2> QED BY <2>1, <2>2, AnswerMoves
<1>7. ASSUME NEW q \in Requests, NEW j \in Ordinals,
             \/ ExpireApproval(q, j) \/ ExpiryRefused(q, j) \/ NotifyApprovers(q, j)
             \/ NotifyUndelivered(q, j)
      PROVE  QueueEffect(r, i, n)
  <2>1. \E x : x # t /\ (Acknowledge(x) \/ FailDelivery(x))
    BY <1>7, TaskNames DEF ExpireApproval, ExpiryRefused, NotifyApprovers, NotifyUndelivered
  <2> QED BY <2>1, AnswerMoves
<1>8. CASE UNCHANGED vars \/ Operator
  BY <1>1, <1>8 DEF vars, Operator, SetApprovalPolicy, CreateRequest, ReadForCancel, AdminCancel,
                    ResumeRequest, DecideStep
<1>9. CASE Api
  BY <1>1, <1>2, <1>9 DEF Api, ServeStart, ServeCancel, StartFirstStep, StartRefused, RequesterCancel,
                          AppendCompensatingStep
<1>10. ASSUME NEW x \in queue, Deliver(x) PROVE QueueEffect(r, i, n)
  <2>1. x.req \in Requests /\ x.ord \in Ordinals
    BY DeliveredTask DEF IInv, TypeOK
  <2>2. CASE \E w \in Workers : ClaimStep(w, x)
    BY <1>1, <2>2 DEF ClaimStep
  <2>3. CASE ~\E w \in Workers : ClaimStep(w, x)
    BY <1>6, <1>7, <1>10, <2>1, <2>3 DEF Deliver, NotifyRefused
  <2> QED BY <2>2, <2>3
<1>11. ASSUME NEW w \in Workers, Handler(w) PROVE QueueEffect(r, i, n)
  BY <1>1, <1>11
     DEF Handler, ReadAccount, SuspendUser, UnsuspendUser, DeleteUser, CreateUser, OtherHandler,
         HandlerError, Yields
<1>12. ASSUME NEW w \in Workers, Advance(w) PROVE QueueEffect(r, i, n)
  BY <1>1, <1>3, <1>4, <1>5, <1>12
     DEF Advance, SettleStep, AdvanceReadRequest, AdvanceReadSteps, FinishRequest, FinishThrows,
         ReleaseStep, HaltStep, FollowHalt, SettleFailure, FailRequest
<1>13. CASE Failures
  BY <1>1, <1>5, <1>7, <1>13 DEF Failures, CallThrows, NotifyFails, LoseOwed, LoseCall
<1> QED BY <1>8, <1>9, <1>10, <1>11, <1>12, <1>13 DEF Next

-----------------------------------------------------------------------------
(* The invariant of the tasks *)

\* No task of the step was ever enqueued, nor is owed.
NoTaskYet(r, i) == \A n \in 0..MaxResumes : ExecuteTask(r, i, n) \notin names \cup owed

\* The tasks of a step follow its dispatch: none before it, none while the worker that
\* released the step is about to enqueue the first, and a resume's nonce is never one
\* the queue has seen.
TaskHolds(r, i) ==
    /\ step[r][i] \in Undispatched \cup {Absent} => NoTaskYet(r, i)
    /\ \A n \in 0..MaxResumes : ExecuteTask(r, i, n) \in names \cup owed => n <= resumes[r]

EnqueueHolds(w, r, i) ==
    Enqueues(w, r, i) => /\ step[r][i] = "ready" /\ i # CompOrdinal(r) /\ NoTaskYet(r, i)
                         /\ \A v \in Workers : Enqueues(v, r, i) => v = w

TaskInv ==
    /\ queue \subseteq names
    /\ \A w \in Workers : pc[w] # "idle" => job[w] \in names /\ job[w].kind = "execute"
    /\ \A r \in Requests, i \in Ordinals : TaskHolds(r, i)
    /\ \A w \in Workers, r \in Requests, i \in Ordinals : EnqueueHolds(w, r, i)

\* A worker's task is the one it claimed.
LEMMA BusyWith ==
    ASSUME IInv, [Next]_vars, NEW w \in Workers, pc'[w] # "idle"
    PROVE  \/ pc[w] # "idle" /\ job'[w] = job[w]
           \/ pc[w] = "idle" /\ pc'[w] = "exec" /\ \E t \in queue : ClaimStep(w, t) /\ job'[w] = t
<1> USE DEF IInv, TypeOK, WorkerTypes, Goto
<1>1. ASSUME NEW t \in queue, ClaimStep(w, t) PROVE job'[w] = t /\ pc[w] = "idle" /\ pc'[w] = "exec"
  BY <1>1 DEF ClaimStep
<1>2. CASE Handler(w) \/ CallThrows(w)
  BY <1>2 DEF Handler, ReadAccount, SuspendUser, UnsuspendUser, DeleteUser, CreateUser, OtherHandler,
              HandlerError, Handles, Yields, CallThrows
<1>3. CASE Crash(w)
  BY <1>3 DEF Crash, Finished
<1>4. CASE Advance(w)
  BY <1>4
     DEF Advance, SettleStep, AdvanceReadRequest, AdvanceReadSteps, FinishRequest, FinishThrows,
         ReleaseStep, HaltStep, FollowHalt, EnqueueNotification, EnqueueExpiry, EnqueueNext,
         SettleFailure, FailRequest, Answer200, Answer500, Finished
<1> QED BY <1>1, <1>2, <1>3, <1>4, WorkerMoves

\* A worker comes to enqueue a step by releasing it.
LEMMA ComesToEnqueue ==
    ASSUME IInv, [Next]_vars, NEW w \in Workers, pc'[w] = "enqueue"
    PROVE  /\ job'[w] = job[w] /\ nxt'[w] = nxt[w]
           /\ pc[w] = "enqueue" \/ (ReleaseStep(w) /\ step[R(w)][nxt[w]] = "pending")
<1> USE DEF IInv, TypeOK, WorkerTypes, Goto
<1>1. CASE Handler(w) \/ CallThrows(w) \/ Crash(w)
  BY <1>1 DEF Handler, ReadAccount, SuspendUser, UnsuspendUser, DeleteUser, CreateUser, OtherHandler,
              HandlerError, Yields, CallThrows, Crash, Finished
<1>2. CASE Advance(w)
  BY <1>2
     DEF Advance, SettleStep, AdvanceReadRequest, AdvanceReadSteps, NextMove, FinishRequest, FinishThrows,
         ReleaseStep, HaltStep, FollowHalt, EnqueueNotification, EnqueueExpiry, EnqueueNext,
         SettleFailure, FailRequest, Answer200, Answer500, Finished
<1>3. CASE \E t \in queue : ClaimStep(w, t)
  BY <1>3 DEF ClaimStep
<1> QED BY <1>1, <1>2, <1>3, WorkerMoves

LEMMA QueueNames ==
    ASSUME IInv, [Next]_vars, queue \subseteq names
    PROVE  queue' \subseteq names' /\ names \subseteq names'
<1>1. CASE UNCHANGED queueVars
  BY <1>1 DEF queueVars
<1>2. ASSUME NEW x, Enqueue(x) \/ Acknowledge(x) \/ FailDelivery(x)
      PROVE  queue' \subseteq names' /\ names \subseteq names'
  BY <1>2, EnqueueMoves, AnswerMoves
<1>3. CASE UNCHANGED vars \/ Operator
  BY <1>1, <1>3 DEF vars, Operator, SetApprovalPolicy, CreateRequest, ReadForCancel, AdminCancel,
                    ResumeRequest, DecideStep
<1>4. CASE Api
  BY <1>1, <1>2, <1>4 DEF Api, ServeStart, ServeCancel, StartFirstStep, StartRefused, RequesterCancel,
                          AppendCompensatingStep, EnqueueOwed
<1>5. ASSUME NEW t \in queue, Deliver(t) PROVE queue' \subseteq names' /\ names \subseteq names'
  BY <1>1, <1>2, <1>5
     DEF Deliver, NotClaimable, ClaimStep, ExpireApproval, ExpiryRefused, NotifyApprovers,
         NotifyRefused, NotifyUndelivered
<1>6. ASSUME NEW w \in Workers, Handler(w) PROVE queue' \subseteq names' /\ names \subseteq names'
  BY <1>1, <1>6
     DEF Handler, ReadAccount, SuspendUser, UnsuspendUser, DeleteUser, CreateUser, OtherHandler,
         HandlerError, Yields
<1>7. ASSUME NEW w \in Workers, Advance(w) PROVE queue' \subseteq names' /\ names \subseteq names'
  BY <1>1, <1>2, <1>7
     DEF Advance, SettleStep, AdvanceReadRequest, AdvanceReadSteps, FinishRequest, FinishThrows,
         ReleaseStep, HaltStep, FollowHalt, EnqueueNotification, EnqueueExpiry, EnqueueNext,
         SettleFailure, FailRequest, Answer200, Answer500
<1>8. CASE Failures
  BY <1>1, <1>2, <1>8 DEF Failures, Crash, CallThrows, NotifyFails, NotifyUndelivered, LoseOwed, LoseCall
<1> QED BY <1>3, <1>4, <1>5, <1>6, <1>7, <1>8 DEF Next

LEMMA ResumesGrow ==
    ASSUME IInv, [Next]_vars, NEW r \in Requests
    PROVE  resumes[r] \in Nat /\ resumes'[r] \in Nat /\ resumes[r] <= resumes'[r]
<1>1. resumes \in [Requests -> Nat]
  BY ConstantsAssumption DEF IInv, TypeOK, BoundTypes
<1>2. CASE UNCHANGED resumes
  BY <1>1, <1>2
<1>3. ASSUME NEW q \in Requests, NEW i \in Ordinals, ResumeRequest(q, i)
      PROVE  resumes'[r] \in Nat /\ resumes[r] <= resumes'[r]
  BY <1>1, <1>3 DEF ResumeRequest
<1> QED BY <1>1, <1>2, <1>3, ResumingStep DEF IInv
-----------------------------------------------------------------------------

\* A task is new only by the ways above.
LEMMA TaskAppears ==
    ASSUME IInv, OrderInv, [Next]_vars, NEW r \in Requests, NEW i \in Ordinals, NEW n \in 0..MaxResumes,
           ExecuteTask(r, i, n) \in names' \cup owed', ExecuteTask(r, i, n) \notin names \cup owed
    PROVE  Issues(r, i, n) \/ (n = 0 /\ \E w \in Workers : Enqueues(w, r, i) /\ EnqueueNext(w))
<1>1. OwedEffect(r, i, n) /\ QueueEffect(r, i, n)
  BY OwedStep, QueueStep
<1> HIDE DEF Issues
<1> QED BY <1>1 DEF OwedEffect, QueueEffect

\* A document that is there to be decided was so before.
LEMMA WasUndispatched ==
    ASSUME IInv, OrderInv, [Next]_vars, NEW r \in Requests, NEW i \in Ordinals,
           step'[r][i] \in Undispatched \cup {Absent}
    PROVE  step[r][i] \in Undispatched \cup {Absent}
<1>1. OrderEffect(r, i) /\ Effect(r, i)
  BY OrderStep, EffectStep
<1>2. CASE step'[r][i] = Absent
  BY <1>1, <1>2 DEF Effect
<1>3. CASE step'[r][i] \in Undispatched
  BY <1>1, <1>3 DEF OrderEffect, MovesTo, IInv, DocumentExists
<1> QED BY <1>2, <1>3

LEMMA TaskHoldsStep ==
    ASSUME IInv, OrderInv, TaskInv, [Next]_vars, NEW r \in Requests, NEW i \in Ordinals
    PROVE  TaskHolds(r, i)'
<1>1. ASSUME step'[r][i] \in Undispatched \cup {Absent}, NEW n \in 0..MaxResumes,
             ExecuteTask(r, i, n) \in names' \cup owed'
      PROVE  FALSE
  <2>1. step[r][i] \in Undispatched \cup {Absent}
    BY <1>1, WasUndispatched
  <2>2. ExecuteTask(r, i, n) \notin names \cup owed
    BY <2>1 DEF TaskInv, TaskHolds, NoTaskYet
  <2>3. Issues(r, i, n) \/ (n = 0 /\ \E w \in Workers : Enqueues(w, r, i) /\ EnqueueNext(w))
    BY <1>1, <2>2, TaskAppears
  <2>4. ~Issues(r, i, n)
    BY <1>1, <2>1 DEF Issues, Undispatched, OrderInv, Sequenced, Compensating, Absent
  <2>5. ASSUME NEW w \in Workers, Enqueues(w, r, i) PROVE FALSE
    BY <2>1, <2>5 DEF TaskInv, EnqueueHolds, Undispatched, Absent
  <2> QED BY <2>3, <2>4, <2>5
<1>2. ASSUME NEW n \in 0..MaxResumes, ExecuteTask(r, i, n) \in names' \cup owed' PROVE n <= resumes'[r]
  <2>1. resumes[r] \in Nat /\ resumes'[r] \in Nat /\ resumes[r] <= resumes'[r]
    BY ResumesGrow
  <2>2. CASE ExecuteTask(r, i, n) \in names \cup owed
    BY <2>1, <2>2 DEF TaskInv, TaskHolds
  <2>3. CASE ExecuteTask(r, i, n) \notin names \cup owed
    BY <1>2, <2>1, <2>3, TaskAppears DEF Issues
  <2> QED BY <2>2, <2>3
<1> QED BY <1>1, <1>2 DEF TaskHolds, NoTaskYet

LEMMA EnqueueHoldsStep ==
    ASSUME IInv, OrderInv, TaskInv, [Next]_vars, NEW w \in Workers, NEW r \in Requests, NEW i \in Ordinals
    PROVE  EnqueueHolds(w, r, i)'
<1> SUFFICES ASSUME pc'[w] = "enqueue", R(w)' = r, nxt'[w] = i
             PROVE  /\ step'[r][i] = "ready" /\ i # CompOrdinal(r) /\ NoTaskYet(r, i)'
                    /\ \A v \in Workers : Enqueues(v, r, i)' => v = w
  BY DEF EnqueueHolds, Enqueues, CompOrdinal
<1>1. ASSUME NEW v \in Workers, Enqueues(v, r, i)'
      PROVE  \/ Enqueues(v, r, i) /\ ~EnqueueNext(v)
             \/ ReleaseStep(v) /\ step[r][i] = "pending" /\ R(v) = r /\ nxt[v] = i
  <2>1. pc'[v] = "enqueue" /\ job'[v].req = r /\ nxt'[v] = i
    BY <1>1 DEF Enqueues, R
  <2>2. ~EnqueueNext(v)
    BY <2>1 DEF EnqueueNext, Goto, IInv, TypeOK, WorkerTypes
  <2> QED BY <2>1, <2>2, ComesToEnqueue DEF Enqueues, R
<1>2. Enqueues(w, r, i)'
  BY DEF Enqueues
<1>3. CASE Enqueues(w, r, i) /\ ~EnqueueNext(w)
  <2>1. /\ step[r][i] = "ready" /\ i # CompOrdinal(r) /\ NoTaskYet(r, i)
        /\ \A v \in Workers : Enqueues(v, r, i) => v = w
    BY <1>3 DEF TaskInv, EnqueueHolds
  <2>2. ASSUME NEW v \in Workers, NEW t \in queue, ClaimStep(v, t), t.req = r, t.ord = i PROVE FALSE
    <3>1. t \in Task /\ t.kind = "execute"
      BY <2>2, DeliveredTask DEF ClaimStep, Deliverable, IInv, TypeOK
    <3>2. t.nonce \in 0..MaxResumes /\ t = ExecuteTask(r, i, t.nonce)
      BY <2>2, <3>1, TaskOfStep
    <3> QED BY <2>1, <3>2 DEF NoTaskYet, TaskInv
  <2>3. step'[r][i] = "ready"
    <3>1. OrderEffect(r, i)
      BY OrderStep
    <3> QED BY <2>1, <2>2, <3>1 DEF OrderEffect, MovesTo
  <2>4. ASSUME NEW n \in 0..MaxResumes, ExecuteTask(r, i, n) \in names' \cup owed' PROVE FALSE
    <3>1. ExecuteTask(r, i, n) \notin names \cup owed
      BY <2>1 DEF NoTaskYet
    <3>2. Issues(r, i, n) \/ (n = 0 /\ \E v \in Workers : Enqueues(v, r, i) /\ EnqueueNext(v))
      BY <2>4, <3>1, TaskAppears
    <3>3. ~Issues(r, i, n)
      BY <2>1 DEF Issues, Undispatched, Absent
    <3> QED BY <1>3, <2>1, <3>2, <3>3
  <2> QED BY <1>1, <2>1, <2>3, <2>4 DEF NoTaskYet
<1>4. CASE ReleaseStep(w) /\ step[r][i] = "pending" /\ R(w) = r /\ nxt[w] = i
  <2>1. step'[r][i] = "ready" /\ names' = names /\ owed' = owed
    BY <1>4 DEF ReleaseStep, queueVars, apiVars, IInv, TypeOK, StoreTypes
  <2>2. NoTaskYet(r, i)
    BY <1>4 DEF TaskInv, TaskHolds, Undispatched
  <2>3. NoTaskYet(r, i)'
    BY <2>1, <2>2 DEF NoTaskYet
  <2>4. i # CompOrdinal(r)
    BY <1>4 DEF OrderInv, Sequenced, Compensating, Undispatched, Absent
  <2>5. ASSUME NEW v \in Workers, Enqueues(v, r, i)' PROVE v = w
    <3>1. ~Enqueues(v, r, i)
      BY <1>4 DEF TaskInv, EnqueueHolds
    <3>2. ReleaseStep(v)
      BY <1>1, <2>5, <3>1
    <3> QED BY <1>4, <2>5, <3>1, <3>2 DEF ReleaseStep, Goto, Enqueues, R, IInv, TypeOK, WorkerTypes
  <2> QED BY <2>1, <2>3, <2>4, <2>5
<1> QED BY <1>1, <1>2, <1>3, <1>4

LEMMA TaskStep ==
    ASSUME IInv, OrderInv, TaskInv, [Next]_vars
    PROVE  TaskInv'
<1>1. queue' \subseteq names' /\ names \subseteq names'
  BY QueueNames DEF TaskInv
<1>2. ASSUME NEW w \in Workers, pc'[w] # "idle" PROVE job'[w] \in names' /\ job'[w].kind = "execute"
  <2>1. CASE pc[w] # "idle" /\ job'[w] = job[w]
    BY <1>1, <2>1 DEF TaskInv
  <2>2. ASSUME NEW t \in queue, ClaimStep(w, t), job'[w] = t PROVE job'[w] \in names' /\ job'[w].kind = "execute"
    BY <1>1, <2>2 DEF TaskInv, ClaimStep, Deliverable
  <2> QED BY <1>2, <2>1, <2>2, BusyWith
<1> QED BY <1>1, <1>2, TaskHoldsStep, EnqueueHoldsStep DEF TaskInv

LEMMA InitTasks == Init => TaskInv
BY DEF Init, TaskInv, TaskHolds, NoTaskYet, EnqueueHolds, Enqueues

\* The tasks of a step follow its dispatch (dispatcher.ts, taskNameFor; store.ts,
\* resumeRequest): no delivery, duplicate, crash or resume makes a task of a step that was not
\* dispatched, or one with a nonce beyond the resumes there were.
THEOREM TasksFollowDispatch == SlowSteps = FALSE => (Spec => []TaskInv)
<1> SUFFICES ASSUME SlowSteps = FALSE PROVE Spec => []TaskInv
  OBVIOUS
<1>1. IInv /\ OrderInv /\ TaskInv /\ [Next]_vars => TaskInv'
  BY TaskStep
<1> QED BY <1>1, InitTasks, OrderInductive, PTL DEF Spec

-----------------------------------------------------------------------------
(* What drives a ready step *)

\* A ready step has a task nobody has taken yet, or one that is going to be enqueued.
ReadyHolds(r, i) ==
    step[r][i] = "ready"
        => \/ \E n \in 0..MaxResumes :
                 \/ ExecuteTask(r, i, n) \in queue /\ ~InFlight(ExecuteTask(r, i, n))
                 \/ ExecuteTask(r, i, n) \in owed \ names
           \/ \E w \in Workers : Enqueues(w, r, i)

\* No handler raises an error that hands its step back.
NoRetry == \A w \in Workers : out[w] # "retryable"

ReadyInv == NoRetry /\ \A r \in Requests, i \in Ordinals : ReadyHolds(r, i)

LEMMA NoRetryStep ==
    ASSUME "retryable" \notin HandlerFaults, IInv, NoRetry, [Next]_vars
    PROVE  NoRetry'
<1> SUFFICES ASSUME NEW w \in Workers PROVE out'[w] # "retryable"
  BY DEF NoRetry
<1> USE DEF NoRetry, IInv, TypeOK, WorkerTypes
<1>1. CASE Handler(w)
  BY <1>1, ConstantsAssumption
     DEF Handler, ReadAccount, SuspendUser, UnsuspendUser, DeleteUser, CreateUser, OtherHandler,
         HandlerError, Yields
<1>2. CASE Advance(w)
  BY <1>2
     DEF Advance, SettleStep, AdvanceReadRequest, AdvanceReadSteps, Outcome, FinishRequest, FinishThrows,
         ReleaseStep, HaltStep, FollowHalt, EnqueueNotification, EnqueueExpiry, EnqueueNext,
         SettleFailure, FailRequest, Answer200, Answer500, Finished
<1>3. CASE Crash(w) \/ CallThrows(w) \/ \E t \in queue : ClaimStep(w, t)
  BY <1>3 DEF Crash, Finished, CallThrows, ClaimStep
<1> QED BY <1>1, <1>2, <1>3, WorkerMoves

\* The ways a step becomes ready, but for the hand-back of a retryable error.
ComesWithTask(r, i) ==
    \/ \E n \in 0..MaxResumes :
          /\ ExecuteTask(r, i, n) \in owed' /\ names' = names
          /\ (n = 0 /\ step[r][i] \in Undispatched \cup {Absent}) \/ n = resumes[r] + 1
    \/ \E w \in Workers : Enqueues(w, r, i)'

LEMMA BecomesReady ==
    ASSUME IInv, OrderInv, NoRetry, [Next]_vars, NEW r \in Requests, NEW i \in Ordinals,
           step'[r][i] = "ready", step[r][i] # "ready"
    PROVE  ComesWithTask(r, i)
<1> USE DEF IInv, TypeOK, StoreTypes
<1>1. CASE UNCHANGED step
  BY <1>1
<1>2. ASSUME NEW q \in Requests, NEW j \in Ordinals, NEW s, step' = [step EXCEPT ![q][j] = s]
      PROVE  q = r /\ j = i /\ s = "ready"
  BY <1>2
<1>3. ASSUME NEW q \in Requests, NEW f, step' = [step EXCEPT ![q] = f]
      PROVE  q = r /\ f[i] = "ready"
  BY <1>3
<1>4. ASSUME NEW q \in Requests, NEW p, CreateRequest(q, p) PROVE FALSE
  BY <1>3, <1>4 DEF CreateRequest, Absent
<1>5. ASSUME NEW q \in Requests, StartFirstStep(q) PROVE ComesWithTask(r, i)
  <2>1. \E s \in {"awaiting_approval", "ready"} : step' = [step EXCEPT ![q][1] = s]
    BY <1>5 DEF StartFirstStep
  <2>2. q = r /\ 1 = i /\ step' = [step EXCEPT ![q][1] = "ready"]
    <3>1. PICK s \in {"awaiting_approval", "ready"} : step' = [step EXCEPT ![q][1] = s]
      BY <2>1
    <3>2. q = r /\ 1 = i /\ s = "ready"
      BY <1>2, <3>1, CompOrdinalType
    <3> QED BY <3>1, <3>2
  <2>3. ExecuteTask(r, i, 0) \in owed' /\ names' = names
    <3>1. step[q][1] = step[r][i] /\ step'[q][1] = "ready"
      BY <2>2
    <3>2. CASE step' = [step EXCEPT ![q][1] = "awaiting_approval"]
      BY <1>2, <3>2, CompOrdinalType
    <3>3. CASE owed' = owed \cup {ExecuteTask(q, 1, 0)}
      BY <1>5, <2>2, <3>3 DEF StartFirstStep, queueVars
    <3> QED BY <1>5, <3>2, <3>3 DEF StartFirstStep
  <2>4. CanTransitionRequest(request[q], "running") /\ [op |-> "start", req |-> q] \in calls
    BY <1>5 DEF StartFirstStep
  <2>5. request[q] = "draft"
    BY <2>4 DEF OrderInv, Drafted, CanTransitionRequest, RequestTransitions, RequestStatus
  <2>6. step[r][i] \in Undispatched \cup {Absent}
    BY <2>2, <2>5 DEF OrderInv, Drafted, Undispatched
  <2> QED BY <2>3, <2>6, ZeroNonce DEF ComesWithTask
<1>6. ASSUME NEW q \in Requests, NEW j \in Ordinals, NEW h, NEW d, DecideStep(q, j, h, d)
      PROVE  ComesWithTask(r, i)
  <2>1. \E s \in {"failed", "ready"} : step' = [step EXCEPT ![q][j] = s]
    BY <1>6 DEF DecideStep
  <2>2. q = r /\ j = i
    BY <1>2, <2>1
  <2>3. d = "approved"
    BY <1>2, <1>6 DEF DecideStep
  <2> QED BY <1>6, <2>2, <2>3, ZeroNonce DEF DecideStep, ComesWithTask, Undispatched, queueVars
<1>7. ASSUME NEW q \in Requests, CancelRequest(q) PROVE FALSE
  BY <1>1, <1>3, <1>7 DEF CancelRequest, storeVars, Stopped
<1>8. ASSUME NEW q \in Requests, AppendCompensatingStep(q) PROVE ComesWithTask(r, i)
  <2>1. CASE step' = step
    BY <2>1
  <2>2. CASE step' # step
    <3>1. /\ step[q][CompOrdinal(q)] = Absent /\ owed' = owed \cup {ExecuteTask(q, CompOrdinal(q), 0)}
          /\ step' = [step EXCEPT ![q] = [k \in Ordinals |->
                        IF k = CompOrdinal(q) THEN "ready" ELSE Stopped(step[q][k])]]
          /\ names' = names
      BY <1>8, <2>2 DEF AppendCompensatingStep, storeVars, queueVars
    <3>2. q = r /\ (IF i = CompOrdinal(q) THEN "ready" ELSE Stopped(step[q][i])) = "ready"
      BY <1>3, <3>1
    <3>3. i = CompOrdinal(r)
      BY <3>2 DEF Stopped
    <3> QED BY <3>1, <3>2, <3>3, ZeroNonce DEF ComesWithTask
  <2> QED BY <2>1, <2>2
<1>9. ASSUME NEW q \in Requests, NEW j \in Ordinals, ResumeRequest(q, j) PROVE ComesWithTask(r, i)
  <2>1. q = r /\ j = i
    BY <1>2, <1>9 DEF ResumeRequest
  <2>2. resumes[r] + 1 \in 0..MaxResumes
    BY <1>9, <2>1, ConstantsAssumption DEF ResumeRequest, BoundTypes
  <2> QED BY <1>9, <2>1, <2>2 DEF ResumeRequest, ComesWithTask, queueVars
<1>10. ASSUME NEW q \in Requests, NEW j \in Ordinals, ExpireApproval(q, j) PROVE FALSE
  <2>1. step' = step \/ step' = [step EXCEPT ![q][j] = "failed"]
    BY <1>10 DEF ExpireApproval, storeVars
  <2>2. CASE step' = [step EXCEPT ![q][j] = "failed"]
    <3>1. "failed" = "ready"
      BY <1>2, <2>2
    <3> QED BY <3>1
  <2> QED BY <1>1, <2>1, <2>2
<1>11. ASSUME NEW w \in Workers, NEW t \in queue, ClaimStep(w, t) PROVE FALSE
  <2>1. t.req \in Requests /\ t.ord \in Ordinals
    BY DeliveredTask
  <2> QED BY <1>2, <1>11, <2>1 DEF ClaimStep
<1>12. ASSUME NEW w \in Workers, pc[w] # "idle", step' # step, SettleStep(w) \/ SettleFailure(w) PROVE FALSE
  <2>1. R(w) \in Requests /\ I(w) \in Ordinals
    BY <1>12, BusyJob
  <2>2. SettleStep(w) => out[w] \in FinishedStep
    BY DEF SettleStep, WorkerLocals, LocalsOf
  <2>3. SettleStep(w) => step' = [step EXCEPT ![R(w)][I(w)] = out[w]]
    BY <1>12 DEF SettleStep
  <2>4. SettleFailure(w) => step' = [step EXCEPT ![R(w)][I(w)] = "failed"]
    BY <1>12 DEF SettleFailure, NoRetry
  <2>5. ASSUME NEW s, s # "ready", step' = [step EXCEPT ![R(w)][I(w)] = s] PROVE FALSE
    BY <1>2, <2>1, <2>5
  <2> QED BY <1>12, <2>2, <2>3, <2>4, <2>5 DEF FinishedStep
<1>13. ASSUME NEW w \in Workers, ReleaseStep(w) PROVE ComesWithTask(r, i)
  <2>1. R(w) \in Requests /\ nxt[w] \in Ordinals
    BY <1>13, BusyJob DEF ReleaseStep, WorkerLocals, LocalsOf
  <2>2. CASE step' = step
    BY <2>2
  <2>3. CASE step' # step
    <3>1. step' = [step EXCEPT ![R(w)][nxt[w]] = "ready"] /\ pc'[w] = "enqueue" /\ job' = job /\ nxt' = nxt
      BY <1>13, <2>3 DEF ReleaseStep, Goto, WorkerTypes
    <3>2. R(w) = r /\ nxt[w] = i
      BY <1>2, <2>1, <3>1
    <3>3. Enqueues(w, r, i)'
      BY <3>1, <3>2 DEF Enqueues, R
    <3> QED BY <3>3 DEF ComesWithTask
  <2> QED BY <2>2, <2>3
<1>14. ASSUME NEW w \in Workers, HaltStep(w) PROVE FALSE
  <2>1. R(w) \in Requests /\ nxt[w] \in Ordinals
    BY <1>14, BusyJob DEF HaltStep, WorkerLocals, LocalsOf
  <2>2. step' = step \/ step' = [step EXCEPT ![R(w)][nxt[w]] = "awaiting_approval"]
    BY <1>14 DEF HaltStep
  <2>3. CASE step' = [step EXCEPT ![R(w)][nxt[w]] = "awaiting_approval"]
    <3>1. "awaiting_approval" = "ready"
      BY <1>2, <2>1, <2>3
    <3> QED BY <3>1
  <2> QED BY <1>1, <2>2, <2>3
<1>15. CASE UNCHANGED vars
  BY <1>1, <1>15 DEF vars, storeVars
<1>16. CASE Operator
  BY <1>1, <1>4, <1>6, <1>7, <1>9, <1>16 DEF Operator, SetApprovalPolicy, ReadForCancel, AdminCancel, storeVars
<1>17. CASE Api
  BY <1>1, <1>5, <1>7, <1>8, <1>17
     DEF Api, ServeStart, ServeCancel, StartRefused, RequesterCancel, EnqueueOwed, storeVars
<1>18. ASSUME NEW t \in queue, Deliver(t) PROVE ComesWithTask(r, i)
  <2>1. t.req \in Requests /\ t.ord \in Ordinals
    BY DeliveredTask
  <2> QED BY <1>1, <1>10, <1>11, <1>18, <2>1
          DEF Deliver, NotClaimable, ExpiryRefused, NotifyApprovers, NotifyRefused,
              NotifyUndelivered, storeVars
<1>19. ASSUME NEW w \in Workers, Handler(w) PROVE FALSE
  BY <1>1, <1>19
     DEF Handler, ReadAccount, SuspendUser, UnsuspendUser, DeleteUser, CreateUser, OtherHandler,
         HandlerError, Yields, storeVars
<1>20. ASSUME NEW w \in Workers, Advance(w) PROVE ComesWithTask(r, i)
  <2>1. CASE SettleStep(w) \/ SettleFailure(w)
    <3>1. pc[w] # "idle"
      BY <2>1 DEF SettleStep, SettleFailure
    <3> QED BY <1>1, <1>12, <2>1, <3>1
  <2> QED BY <1>1, <1>13, <1>14, <1>20, <2>1
     DEF Advance, AdvanceReadRequest, AdvanceReadSteps, FinishRequest, FinishThrows,
         FollowHalt, EnqueueNotification, EnqueueExpiry, EnqueueNext,
         FailRequest, Answer200, Answer500, storeVars
<1>21. CASE Failures
  BY <1>1, <1>21
     DEF Failures, Crash, CallThrows, NotifyFails, NotifyUndelivered, LoseOwed, LoseCall, storeVars
<1> QED BY <1>15, <1>16, <1>17, <1>18, <1>19, <1>20, <1>21 DEF Next

\* A task of a ready step is taken by a claim, which leaves the step running.
LEMMA NotTaken ==
    ASSUME IInv, [Next]_vars, NEW r \in Requests, NEW i \in Ordinals, NEW n \in 0..MaxResumes,
           step'[r][i] = "ready", ~InFlight(ExecuteTask(r, i, n))
    PROVE  ~InFlight(ExecuteTask(r, i, n))'
<1> SUFFICES ASSUME NEW w \in Workers, pc'[w] # "idle", job'[w] = ExecuteTask(r, i, n) PROVE FALSE
  BY DEF InFlight, ExecuteTask
<1>1. ~(pc[w] # "idle" /\ job'[w] = job[w])
  BY DEF InFlight
<1>2. PICK t \in queue : ClaimStep(w, t) /\ job'[w] = t
  BY <1>1, BusyWith
<1>3. t.req = r /\ t.ord = i
  BY <1>2 DEF ExecuteTask
<1> QED BY <1>2, <1>3 DEF ClaimStep, IInv, TypeOK, StoreTypes

LEMMA NewTask ==
    ASSUME TaskInv, NEW t, t \notin names
    PROVE  t \notin queue /\ ~InFlight(t)
BY DEF TaskInv, InFlight

LEMMA ReadyStep ==
    ASSUME FaultKinds \subseteq {"duplicate"}, IInv, OrderInv, TaskInv, ReadyInv, [Next]_vars,
           NEW r \in Requests, NEW i \in Ordinals
    PROVE  ReadyHolds(r, i)'
<1> DEFINE Reached(n) == \/ ExecuteTask(r, i, n) \in queue' /\ ~InFlight(ExecuteTask(r, i, n))'
                        \/ ExecuteTask(r, i, n) \in owed' \ names'
<1> SUFFICES ASSUME step'[r][i] = "ready"
             PROVE  (\E n \in 0..MaxResumes : Reached(n)) \/ \E w \in Workers : Enqueues(w, r, i)'
  BY DEF ReadyHolds, InFlight, ExecuteTask
<1>1. ASSUME NEW n \in 0..MaxResumes, ExecuteTask(r, i, n) \in queue, ~InFlight(ExecuteTask(r, i, n)),
             step[r][i] = "ready"
      PROVE  Reached(n)
  <2>1. ~InFlight(ExecuteTask(r, i, n))'
    BY <1>1, NotTaken
  <2>2. ExecuteTask(r, i, n) \in queue'
    BY <1>1, QueueStep DEF QueueEffect, InFlight
  <2> QED BY <2>1, <2>2
<1>2. ASSUME NEW n \in 0..MaxResumes, ExecuteTask(r, i, n) \in owed \ names
      PROVE  Reached(n)
  <2>1. ~InFlight(ExecuteTask(r, i, n))'
    BY <1>2, NotTaken, NewTask
  <2>2. ExecuteTask(r, i, n) \in names' => ExecuteTask(r, i, n) \in queue'
    BY <1>2, QueueStep DEF QueueEffect
  <2>3. ExecuteTask(r, i, n) \in owed' \/ ExecuteTask(r, i, n) \in names'
    BY <1>2, OwedStep DEF OwedEffect
  <2> QED BY <2>1, <2>2, <2>3
<1>3. ASSUME NEW w \in Workers, Enqueues(w, r, i)
      PROVE  Enqueues(w, r, i)' \/ Reached(0)
  <2>1. CASE pc'[w] = pc[w] /\ job'[w] = job[w] /\ nxt'[w] = nxt[w]
    BY <1>3, <2>1 DEF Enqueues, R
  <2>2. CASE EnqueueNext(w)
    <3>1. Enqueue(ExecuteTask(r, i, 0))
      BY <1>3, <2>2 DEF EnqueueNext, Enqueues
    <3>2. ExecuteTask(r, i, 0) \notin names
      BY <1>3, ZeroNonce DEF TaskInv, EnqueueHolds, NoTaskYet
    <3>3. ExecuteTask(r, i, 0) \in queue'
      BY <3>1, <3>2, EnqueueMoves
    <3>4. ~InFlight(ExecuteTask(r, i, 0))'
      BY <3>2, NotTaken, NewTask, ZeroNonce
    <3> QED BY <3>3, <3>4
  <2>3. \/ pc'[w] = pc[w] /\ job'[w] = job[w] /\ nxt'[w] = nxt[w]
        \/ EnqueueNext(w)
    BY <1>3, WorkerMoves
       DEF Enqueues, Handler, ReadAccount, SuspendUser, UnsuspendUser, DeleteUser, CreateUser, OtherHandler,
           HandlerError, Handles, CallThrows, Crash, Fault, Advance, SettleStep, AdvanceReadRequest,
           AdvanceReadSteps, FinishRequest, FinishThrows, ReleaseStep, HaltStep, FollowHalt,
           EnqueueNotification, EnqueueExpiry, SettleFailure, FailRequest, Answer200, Answer500
  <2> QED BY <2>1, <2>2, <2>3
<1>4. CASE step[r][i] = "ready"
  <2>1. CASE \E w \in Workers : Enqueues(w, r, i)
    BY <1>3, <2>1, ZeroNonce
  <2>2. CASE ~\E w \in Workers : Enqueues(w, r, i)
    <3>1. PICK n \in 0..MaxResumes : \/ ExecuteTask(r, i, n) \in queue /\ ~InFlight(ExecuteTask(r, i, n))
                                     \/ ExecuteTask(r, i, n) \in owed \ names
      BY <1>4, <2>2 DEF ReadyInv, ReadyHolds
    <3>2. Reached(n)
      BY <1>1, <1>2, <1>4, <3>1
    <3> QED BY <3>2
  <2> QED BY <2>1, <2>2
<1>5. CASE step[r][i] # "ready"
  <2>1. ComesWithTask(r, i)
    BY <1>5, BecomesReady DEF ReadyInv
  <2>2. ASSUME NEW n \in 0..MaxResumes, ExecuteTask(r, i, n) \in owed', names' = names,
               (n = 0 /\ step[r][i] \in Undispatched \cup {Absent}) \/ n = resumes[r] + 1
        PROVE  Reached(n)
    <3>1. ExecuteTask(r, i, n) \notin names
      BY <2>2, ResumesGrow DEF TaskInv, TaskHolds, NoTaskYet
    <3> QED BY <2>2, <3>1
  <2> QED BY <2>1, <2>2 DEF ComesWithTask
<1> QED BY <1>4, <1>5

\* The invariant behind ReadyIsTasked: a ready step has a task in the queue that nobody has
\* taken, one that is owed, or a worker about to enqueue it.
THEOREM ReadyInductive ==
    /\ SlowSteps = FALSE /\ FaultKinds \subseteq {"duplicate"} /\ "retryable" \notin HandlerFaults
    => (Spec => []ReadyInv)
<1> SUFFICES ASSUME SlowSteps = FALSE, FaultKinds \subseteq {"duplicate"}, "retryable" \notin HandlerFaults
             PROVE  Spec => []ReadyInv
  OBVIOUS
<1>1. Init => ReadyInv
  BY DEF Init, ReadyInv, NoRetry, ReadyHolds, Absent
<1>2. IInv /\ OrderInv /\ TaskInv /\ ReadyInv /\ [Next]_vars => ReadyInv'
  BY NoRetryStep, ReadyStep DEF ReadyInv
<1> QED BY <1>1, <1>2, OrderInductive, TasksFollowDispatch, PTL DEF Spec

\* A ready step of a live request is never left without a delivery to come, in a system
\* whose instances do not die and whose calls do not fail: a claim, a decision, an approval that
\* expires, a cancellation, a resume and a duplicate delivery all hand it on
\* (routes/requests.ts, tryEnqueue; advance.ts).
THEOREM ReadyIsTasked ==
    /\ SlowSteps = FALSE /\ FaultKinds \subseteq {"duplicate"} /\ "retryable" \notin HandlerFaults
    => (Spec => []ReadyStepHasTask)
<1>1. ReadyInv => ReadyStepHasTask
  BY TaskNames DEF ReadyInv, ReadyHolds, ReadyStepHasTask, Enqueues
<1> QED BY <1>1, ReadyInductive, PTL

-----------------------------------------------------------------------------
(* The ways a request moves, and a step halts *)

Decided(r, i) ==
    /\ step[r][i] = "awaiting_approval"
    /\ \/ request'[r] = "running" /\ step'[r][i] = "ready"
       \/ request'[r] = "rejected" /\ step'[r][i] = "failed"

RequestMove(r) ==
    \/ request'[r] = request[r]
    \/ request[r] = Absent /\ request'[r] = "draft"
    \/ /\ request[r] = "draft"
       /\ \/ request'[r] = "running" /\ step'[r][1] = "ready"
          \/ request'[r] = "awaiting_approval" /\ step'[r][1] = "awaiting_approval"
    \/ request[r] \in {"awaiting_approval", "held", "failed"} /\ \E i \in Ordinals : Decided(r, i)
    \/ request'[r] = "cancelled" /\ \A i \in Ordinals : step'[r][i] \notin Undispatched
    \/ /\ request'[r] = "running" /\ \A i \in Ordinals : step'[r][i] \notin Undispatched
       /\ step'[r][CompOrdinal(r)] = "ready" /\ ~Compensating(r)
    \/ /\ request[r] = "failed" /\ request'[r] = "running" /\ MaxResumes > 0
       /\ \E i \in Ordinals : step[r][i] = "failed" /\ step'[r][i] = "ready"
    \/ \E w \in Workers : FinishRequest(w) /\ R(w) = r /\ request'[r] = out[w]
    \/ \E w \in Workers : FailRequest(w) /\ R(w) = r /\ request'[r] = "failed"
    \/ /\ request[r] \in {"running", "draft"} /\ request'[r] = "awaiting_approval"
       /\ \E w \in Workers : FollowHalt(w) /\ R(w) = r

LEMMA RequestMovesStep ==
    ASSUME IInv, OrderInv, [Next]_vars, NEW r \in Requests
    PROVE  RequestMove(r)
<1> USE DEF IInv, TypeOK, StoreTypes
<1>1. CASE UNCHANGED request
  BY <1>1 DEF RequestMove
<1>2. ASSUME NEW q \in Requests, NEW s, request' = [request EXCEPT ![q] = s]
      PROVE  request'[r] = request[r] \/ (q = r /\ request'[r] = s)
  BY <1>2
<1>3. ASSUME NEW q \in Requests, NEW p, CreateRequest(q, p) PROVE RequestMove(r)
  BY <1>2, <1>3 DEF CreateRequest, RequestMove
<1>4. ASSUME NEW q \in Requests, StartFirstStep(q) PROVE RequestMove(r)
  <2>1. CanTransitionRequest(request[q], "running") /\ [op |-> "start", req |-> q] \in calls
    BY <1>4 DEF StartFirstStep
  <2>2. request[q] = "draft"
    BY <2>1 DEF OrderInv, Drafted, CanTransitionRequest, RequestTransitions, RequestStatus
  <2>3. CASE request' = [request EXCEPT ![q] = "running"] /\ step' = [step EXCEPT ![q][1] = "ready"]
    BY <2>2, <2>3, CompOrdinalType DEF RequestMove
  <2>4. CASE /\ request' = [request EXCEPT ![q] = "awaiting_approval"]
             /\ step' = [step EXCEPT ![q][1] = "awaiting_approval"]
    BY <2>2, <2>4, CompOrdinalType DEF RequestMove
  <2> QED BY <1>4, <2>3, <2>4 DEF StartFirstStep
<1>5. ASSUME NEW q \in Requests, NEW j \in Ordinals, NEW h, NEW d \in {"approved", "rejected"},
             DecideStep(q, j, h, d)
      PROVE  RequestMove(r)
  <2>1. CASE q # r
    BY <1>5, <2>1 DEF DecideStep, RequestMove
  <2>2. CASE q = r
    <3>1. step[r][j] = "awaiting_approval"
      BY <1>5, <2>2 DEF DecideStep
    <3>2. \/ request'[r] = "running" /\ step'[r][j] = "ready"
          \/ request'[r] = "rejected" /\ step'[r][j] = "failed"
      BY <1>5, <2>2 DEF DecideStep
    <3>3. CanTransitionRequest(request[r], "running") \/ CanTransitionRequest(request[r], "rejected")
      BY <1>5, <2>2 DEF DecideStep
    <3>4. request[r] \notin {"draft", Absent}
      BY <3>1 DEF OrderInv, Drafted, DocumentExists, Absent
    <3> QED BY <3>1, <3>2, <3>3, <3>4
            DEF CanTransitionRequest, RequestTransitions, RequestStatus, RequestMove, Decided
  <2> QED BY <2>1, <2>2
<1>6. ASSUME NEW q \in Requests, CancelRequest(q) PROVE RequestMove(r)
  <2>1. CASE q # r \/ Terminal(q)
    BY <1>6, <2>1 DEF CancelRequest, storeVars, RequestMove
  <2>2. CASE q = r /\ ~Terminal(q)
    <3>1. request'[r] = "cancelled" /\ \A i \in Ordinals : step'[r][i] = Stopped(step[r][i])
      BY <1>6, <2>2 DEF CancelRequest
    <3> QED BY <3>1 DEF RequestMove, Stopped, Undispatched
  <2> QED BY <2>1, <2>2
<1>7. ASSUME NEW q \in Requests, AppendCompensatingStep(q) PROVE RequestMove(r)
  <2>1. CASE q # r \/ request' = request
    BY <1>7, <2>1 DEF AppendCompensatingStep, storeVars, RequestMove
  <2>2. CASE q = r /\ request' # request
    <3>1. /\ request'[r] = "running" /\ ~Compensating(r)
          /\ \A i \in Ordinals : step'[r][i] = IF i = CompOrdinal(r) THEN "ready" ELSE Stopped(step[r][i])
      BY <1>7, <2>2 DEF AppendCompensatingStep, storeVars, Compensating
    <3> QED BY <3>1, CompOrdinalType DEF RequestMove, Stopped, Undispatched
  <2> QED BY <2>1, <2>2
<1>8. ASSUME NEW q \in Requests, NEW j \in Ordinals, ResumeRequest(q, j) PROVE RequestMove(r)
  <2>1. CASE q # r
    BY <1>8, <2>1 DEF ResumeRequest, RequestMove
  <2>2. CASE q = r
    <3>1. /\ request[r] = "failed" /\ request'[r] = "running"
          /\ step[r][j] = "failed" /\ step'[r][j] = "ready"
      BY <1>8, <2>2 DEF ResumeRequest
    <3>2. MaxResumes > 0
      BY <1>8, <2>2, ConstantsAssumption DEF ResumeRequest, BoundTypes
    <3> QED BY <3>1, <3>2 DEF RequestMove
  <2> QED BY <2>1, <2>2
<1>9. ASSUME NEW q \in Requests, NEW j \in Ordinals, ExpireApproval(q, j) PROVE RequestMove(r)
  <2>1. CASE q # r \/ request' = request
    BY <1>9, <2>1 DEF ExpireApproval, storeVars, RequestMove
  <2>2. CASE q = r /\ request' # request
    <3>1. /\ step[r][j] = "awaiting_approval" /\ request'[r] = "rejected" /\ step'[r][j] = "failed"
          /\ CanTransitionRequest(request[r], "rejected")
      BY <1>9, <2>2 DEF ExpireApproval, storeVars
    <3>2. request[r] = "awaiting_approval"
      BY <3>1 DEF DocumentExists, Absent, CanTransitionRequest, RequestTransitions, RequestStatus
    <3> QED BY <3>1, <3>2 DEF RequestMove, Decided
  <2> QED BY <2>1, <2>2
<1>10. ASSUME NEW w \in Workers, FinishRequest(w) \/ FailRequest(w) \/ FollowHalt(w)
       PROVE  RequestMove(r)
  <2>1. pc[w] # "idle"
    BY <1>10 DEF FinishRequest, FailRequest, FollowHalt
  <2>2. R(w) \in Requests
    BY <2>1, BusyJob
  <2>3. ASSUME NEW from, NEW to, MoveRequest(R(w), from, to)
        PROVE  request'[r] = request[r] \/ (R(w) = r /\ request'[r] = to /\ request[r] \in from)
    BY <2>2, <2>3 DEF MoveRequest
  <2>4. CASE FinishRequest(w)
    BY <2>3, <2>4 DEF FinishRequest, RequestMove
  <2>5. CASE FailRequest(w)
    BY <2>3, <2>5 DEF FailRequest, RequestMove
  <2>6. CASE FollowHalt(w)
    BY <2>3, <2>6 DEF FollowHalt, RequestMove
  <2> QED BY <1>10, <2>4, <2>5, <2>6
<1>11. CASE UNCHANGED vars
  BY <1>1, <1>11 DEF vars, storeVars
<1>12. CASE Operator
  BY <1>1, <1>3, <1>5, <1>6, <1>8, <1>12 DEF Operator, SetApprovalPolicy, ReadForCancel, AdminCancel, storeVars
<1>13. CASE Api
  BY <1>1, <1>4, <1>6, <1>7, <1>13
     DEF Api, ServeStart, ServeCancel, StartRefused, RequesterCancel, EnqueueOwed, storeVars
<1>14. ASSUME NEW t \in queue, Deliver(t) PROVE RequestMove(r)
  <2>1. t.req \in Requests /\ t.ord \in Ordinals
    BY DeliveredTask
  <2> QED BY <1>1, <1>9, <1>14, <2>1
          DEF Deliver, NotClaimable, ClaimStep, ExpiryRefused, NotifyApprovers, NotifyRefused,
              NotifyUndelivered, storeVars
<1>15. ASSUME NEW w \in Workers, Handler(w) PROVE RequestMove(r)
  BY <1>1, <1>15
     DEF Handler, ReadAccount, SuspendUser, UnsuspendUser, DeleteUser, CreateUser, OtherHandler,
         HandlerError, Yields, storeVars
<1>16. ASSUME NEW w \in Workers, Advance(w) PROVE RequestMove(r)
  BY <1>1, <1>10, <1>16
     DEF Advance, SettleStep, AdvanceReadRequest, AdvanceReadSteps, FinishThrows, ReleaseStep, HaltStep,
         EnqueueNotification, EnqueueExpiry, EnqueueNext, SettleFailure, Answer200, Answer500, storeVars
<1>17. CASE Failures
  BY <1>1, <1>17
     DEF Failures, Crash, CallThrows, NotifyFails, NotifyUndelivered, LoseOwed, LoseCall, storeVars
<1> QED BY <1>11, <1>12, <1>13, <1>14, <1>15, <1>16, <1>17 DEF Next

\* A step halts with the start of its request, or by the worker that has finished the one
\* before it.
Halts(w, r, i) ==
    /\ HaltStep(w) /\ R(w) = r /\ nxt[w] = i /\ step[r][i] = "pending"
    /\ pc'[w] = "follow" /\ R(w)' = r /\ nxt'[w] = i /\ request' = request

LEMMA ComesToHalt ==
    ASSUME IInv, OrderInv, [Next]_vars, NEW r \in Requests, NEW i \in Ordinals,
           step'[r][i] = "awaiting_approval", step[r][i] # "awaiting_approval"
    PROVE  \/ StartFirstStep(r) /\ i = 1 /\ request'[r] = "awaiting_approval"
           \/ \E w \in Workers : Halts(w, r, i)
<1> DEFINE Goal == \/ StartFirstStep(r) /\ i = 1 /\ request'[r] = "awaiting_approval"
                   \/ \E w \in Workers : Halts(w, r, i)
<1> SUFFICES Goal
  OBVIOUS
<1> HIDE DEF Goal
<1> USE DEF IInv, TypeOK, StoreTypes
<1>1. CASE UNCHANGED step
  BY <1>1
<1>2. ASSUME NEW q \in Requests, NEW j \in Ordinals, NEW s, step' = [step EXCEPT ![q][j] = s]
      PROVE  q = r /\ j = i /\ s = "awaiting_approval"
  BY <1>2
<1>3. ASSUME NEW q \in Requests, NEW f, step' = [step EXCEPT ![q] = f]
      PROVE  q = r /\ f[i] = "awaiting_approval"
  BY <1>3
<1>4. ASSUME NEW q \in Requests, NEW j \in Ordinals, NEW s, s # "awaiting_approval",
             step' = [step EXCEPT ![q][j] = s]
      PROVE  FALSE
  BY <1>2, <1>4
<1>5. ASSUME NEW q \in Requests, NEW p, CreateRequest(q, p) PROVE FALSE
  BY <1>3, <1>5 DEF CreateRequest, Absent
<1>6. ASSUME NEW q \in Requests, StartFirstStep(q) PROVE Goal
  <2>1. CASE step' = [step EXCEPT ![q][1] = "ready"]
    BY <1>4, <2>1, CompOrdinalType
  <2>2. CASE /\ step' = [step EXCEPT ![q][1] = "awaiting_approval"]
             /\ request' = [request EXCEPT ![q] = "awaiting_approval"]
    <3>1. q = r /\ 1 = i
      BY <1>2, <2>2, CompOrdinalType
    <3> QED BY <1>6, <2>2, <3>1 DEF Goal
  <2> QED BY <1>6, <2>1, <2>2 DEF StartFirstStep
<1>7. ASSUME NEW q \in Requests, NEW j \in Ordinals, NEW h, NEW d, DecideStep(q, j, h, d) PROVE FALSE
  <2>1. step' = [step EXCEPT ![q][j] = "ready"] \/ step' = [step EXCEPT ![q][j] = "failed"]
    BY <1>7 DEF DecideStep
  <2> QED BY <1>4, <2>1
<1>8. ASSUME NEW q \in Requests, CancelRequest(q) PROVE FALSE
  BY <1>1, <1>3, <1>8 DEF CancelRequest, storeVars, Stopped
<1>9. ASSUME NEW q \in Requests, AppendCompensatingStep(q) PROVE FALSE
  <2>1. \/ step' = step
        \/ step' = [step EXCEPT ![q] = [k \in Ordinals |->
                       IF k = CompOrdinal(q) THEN "ready" ELSE Stopped(step[q][k])]]
    BY <1>9 DEF AppendCompensatingStep, storeVars
  <2>2. CASE step' = [step EXCEPT ![q] = [k \in Ordinals |->
                       IF k = CompOrdinal(q) THEN "ready" ELSE Stopped(step[q][k])]]
    <3>1. (IF i = CompOrdinal(q) THEN "ready" ELSE Stopped(step[q][i])) = "awaiting_approval" /\ q = r
      BY <1>3, <2>2
    <3> QED BY <3>1 DEF Stopped
  <2> QED BY <1>1, <2>1, <2>2
<1>10. ASSUME NEW q \in Requests, NEW j \in Ordinals, ResumeRequest(q, j) PROVE FALSE
  <2>1. step' = [step EXCEPT ![q][j] = "ready"]
    BY <1>10 DEF ResumeRequest
  <2> QED BY <1>4, <2>1
<1>11. ASSUME NEW q \in Requests, NEW j \in Ordinals, ExpireApproval(q, j) PROVE FALSE
  <2>1. step' = step \/ step' = [step EXCEPT ![q][j] = "failed"]
    BY <1>11 DEF ExpireApproval, storeVars
  <2> QED BY <1>1, <1>4, <2>1
<1>12. ASSUME NEW w \in Workers, NEW t \in queue, ClaimStep(w, t) PROVE FALSE
  <2>1. t.req \in Requests /\ t.ord \in Ordinals /\ step' = [step EXCEPT ![t.req][t.ord] = "running"]
    BY <1>12, DeliveredTask DEF ClaimStep
  <2> QED BY <1>4, <2>1
<1>13. ASSUME NEW w \in Workers, SettleStep(w) \/ SettleFailure(w) \/ ReleaseStep(w) PROVE FALSE
  <2>1. R(w) \in Requests /\ I(w) \in Ordinals /\ (ReleaseStep(w) => nxt[w] \in Ordinals)
        /\ (SettleStep(w) => out[w] \in FinishedStep)
    <3>1. pc[w] # "idle"
      BY <1>13 DEF SettleStep, SettleFailure, ReleaseStep
    <3> QED BY <3>1, BusyJob DEF SettleStep, ReleaseStep, WorkerLocals, LocalsOf
  <2>2. \/ step' = step
        \/ \E s \in {"ready", "failed"} : step' = [step EXCEPT ![R(w)][I(w)] = s]
        \/ step' = [step EXCEPT ![R(w)][I(w)] = out[w]] /\ out[w] \in FinishedStep
        \/ step' = [step EXCEPT ![R(w)][nxt[w]] = "ready"] /\ nxt[w] \in Ordinals
    BY <1>13, <2>1 DEF SettleStep, SettleFailure, ReleaseStep
  <2>3. CASE \E s \in {"ready", "failed"} : step' = [step EXCEPT ![R(w)][I(w)] = s]
    BY <1>4, <2>1, <2>3
  <2>4. CASE step' = [step EXCEPT ![R(w)][I(w)] = out[w]] /\ out[w] \in FinishedStep
    BY <1>4, <2>1, <2>4 DEF FinishedStep
  <2>5. CASE step' = [step EXCEPT ![R(w)][nxt[w]] = "ready"] /\ nxt[w] \in Ordinals
    BY <1>4, <2>1, <2>5
  <2> QED BY <1>1, <2>2, <2>3, <2>4, <2>5
<1>14. ASSUME NEW w \in Workers, HaltStep(w) PROVE Goal
  <2>1. R(w) \in Requests /\ nxt[w] \in Ordinals
    BY <1>14, BusyJob DEF HaltStep, WorkerLocals, LocalsOf
  <2>2. CASE step' = step
    BY <2>2
  <2>3. CASE step' # step
    <3>1. /\ step' = [step EXCEPT ![R(w)][nxt[w]] = "awaiting_approval"]
          /\ step[R(w)][nxt[w]] = "pending" /\ pc'[w] = "follow" /\ job' = job /\ nxt' = nxt
          /\ request' = request
      BY <1>14, <2>3 DEF HaltStep, Goto, WorkerTypes
    <3>2. R(w) = r /\ nxt[w] = i
      BY <1>2, <2>1, <3>1
    <3>3. Halts(w, r, i)
      BY <1>14, <3>1, <3>2 DEF Halts, R
    <3> QED BY <3>3 DEF Goal
  <2> QED BY <2>2, <2>3
<1>15. CASE UNCHANGED vars
  BY <1>1, <1>15 DEF vars, storeVars
<1>16. CASE Operator
  BY <1>1, <1>5, <1>7, <1>8, <1>10, <1>16 DEF Operator, SetApprovalPolicy, ReadForCancel, AdminCancel, storeVars
<1>17. CASE Api
  <2>1. step' = step \/ \E q \in Requests : StartFirstStep(q) \/ CancelRequest(q) \/ AppendCompensatingStep(q)
    BY <1>17 DEF Api, ServeStart, ServeCancel, StartRefused, RequesterCancel, EnqueueOwed, storeVars
  <2> QED BY <1>1, <1>6, <1>8, <1>9, <2>1
<1>18. ASSUME NEW t \in queue, Deliver(t) PROVE Goal
  <2>1. t.req \in Requests /\ t.ord \in Ordinals
    BY DeliveredTask
  <2> QED BY <1>1, <1>11, <1>12, <1>18, <2>1
          DEF Deliver, NotClaimable, ExpiryRefused, NotifyApprovers, NotifyRefused,
              NotifyUndelivered, storeVars
<1>19. ASSUME NEW w \in Workers, Handler(w) PROVE Goal
  BY <1>1, <1>19
     DEF Handler, ReadAccount, SuspendUser, UnsuspendUser, DeleteUser, CreateUser, OtherHandler,
         HandlerError, Yields, storeVars
<1>20. ASSUME NEW w \in Workers, Advance(w) PROVE Goal
  BY <1>1, <1>13, <1>14, <1>20
     DEF Advance, AdvanceReadRequest, AdvanceReadSteps, FinishRequest, FinishThrows,
         FollowHalt, EnqueueNotification, EnqueueExpiry, EnqueueNext,
         FailRequest, Answer200, Answer500, storeVars
<1>21. CASE Failures
  BY <1>1, <1>21
     DEF Failures, Crash, CallThrows, NotifyFails, NotifyUndelivered, LoseOwed, LoseCall, storeVars
<1> QED BY <1>15, <1>16, <1>17, <1>18, <1>19, <1>20, <1>21 DEF Next

-----------------------------------------------------------------------------
(* A halted step can be decided *)

\* A halted step's request awaits approval, or is about to.
HaltHolds(r, i) ==
    step[r][i] = "awaiting_approval"
        => \/ request[r] = "awaiting_approval"
           \/ request[r] = "running" /\ \E w \in Workers : pc[w] = "follow" /\ R(w) = r /\ nxt[w] = i

HaltInv ==
    /\ \A r \in Requests : request[r] # "held" /\ CancelledHolds(r)
    /\ \A r \in Requests, i \in Ordinals : HaltHolds(r, i)

\* Nothing is held (no code writes the status yet).
LEMMA NotHeldStep ==
    ASSUME IInv, OrderInv, [Next]_vars, NEW r \in Requests, request[r] # "held"
    PROVE  request'[r] # "held"
BY RequestMovesStep DEF RequestMove, Decided, IInv, TypeOK, WorkerTypes

\* While a step of it is halted nobody ends a request but by deciding that step.
LEMMA HaltedNotEnded ==
    ASSUME IInv, OrderInv, FailInv, NEW r \in Requests, NEW i \in Ordinals,
           step[r][i] = "awaiting_approval"
    PROVE  /\ \A w \in Workers : R(w) = r => pc[w] \notin {"finish", "failRequest"}
           /\ \A j \in Ordinals : step[r][j] \in {"failed", "awaiting_approval"} => j = i
           /\ request[r] \notin {"failed", "draft"}
<1>1. ~InOrder(r, CompOrdinal(r))
  BY NothingWaits
<1>2. \A j \in Ordinals : step[r][j] \in {"failed", "awaiting_approval"} => j = i
  BY <1>1, OneUnfinished DEF Dispatched, FinishedStep
<1>3. ASSUME NEW w \in Workers, R(w) = r, pc[w] \in {"finish", "failRequest"} PROVE FALSE
  <2>1. I(w) \in Ordinals
    BY <1>3, BusyJob DEF IInv, TypeOK
  <2> QED BY <1>1, <1>2, <1>3, <2>1 DEF OrderInv, Holds, FailInv, FailHolds
<1>4. request[r] # "failed"
  BY FailedIsDecided
<1>5. request[r] # "draft"
  BY DEF OrderInv, Drafted, Absent
<1> QED BY <1>2, <1>3, <1>4, <1>5

\* A worker at a halt's second transaction leaves by running it.
LEMMA LeavesFollow ==
    ASSUME FaultKinds \cap {"crash", "throw"} = {}, IInv, [Next]_vars, NEW w \in Workers, pc[w] = "follow"
    PROVE  \/ pc'[w] = "follow" /\ R(w)' = R(w) /\ nxt'[w] = nxt[w]
           \/ FollowHalt(w) /\ pc'[w] = "notify" /\ R(w)' = R(w) /\ nxt'[w] = nxt[w]
<1>1. CASE pc'[w] = pc[w] /\ job'[w] = job[w] /\ nxt'[w] = nxt[w]
  BY <1>1 DEF R
<1>2. CASE FollowHalt(w)
  BY <1>2 DEF FollowHalt, Goto, R, IInv, TypeOK, WorkerTypes
<1>3. \/ pc'[w] = pc[w] /\ job'[w] = job[w] /\ nxt'[w] = nxt[w]
      \/ FollowHalt(w)
  BY WorkerMoves
     DEF Handler, ReadAccount, SuspendUser, UnsuspendUser, DeleteUser, CreateUser, OtherHandler,
         HandlerError, Handles, CallThrows, Crash, Fault, Advance, SettleStep, AdvanceReadRequest,
         AdvanceReadSteps, FinishRequest, FinishThrows, ReleaseStep, HaltStep, EnqueueNext,
         EnqueueNotification, EnqueueExpiry, SettleFailure, FailRequest, Answer200, Answer500
<1> QED BY <1>1, <1>2, <1>3

LEMMA HaltHoldsStep ==
    ASSUME FaultKinds \cap {"crash", "throw"} = {}, IInv, OrderInv, FailInv, HaltInv, [Next]_vars,
           NEW r \in Requests, NEW i \in Ordinals
    PROVE  HaltHolds(r, i)'
<1> SUFFICES ASSUME step'[r][i] = "awaiting_approval"
             PROVE  \/ request'[r] = "awaiting_approval"
                    \/ /\ request'[r] = "running"
                       /\ \E w \in Workers : pc'[w] = "follow" /\ R(w)' = r /\ nxt'[w] = i
  BY DEF HaltHolds
<1>1. CASE step[r][i] = "awaiting_approval"
  <2>1. /\ \A w \in Workers : R(w) = r => pc[w] \notin {"finish", "failRequest"}
        /\ \A j \in Ordinals : step[r][j] \in {"failed", "awaiting_approval"} => j = i
        /\ request[r] \notin {"failed", "draft", Absent}
    BY <1>1, HaltedNotEnded DEF IInv, DocumentExists, Absent
  <2>2. request'[r] = request[r] \/ (request[r] = "running" /\ request'[r] = "awaiting_approval")
    BY <1>1, <2>1, RequestMovesStep
       DEF RequestMove, Decided, Undispatched, FinishRequest, FailRequest
  <2>3. CASE request[r] = "awaiting_approval"
    BY <2>2, <2>3
  <2>4. ASSUME NEW w \in Workers, pc[w] = "follow", R(w) = r, nxt[w] = i, request[r] = "running"
        PROVE  \/ request'[r] = "awaiting_approval"
               \/ request'[r] = "running" /\ pc'[w] = "follow" /\ R(w)' = r /\ nxt'[w] = i
    <3>1. FollowHalt(w) => request'[r] = "awaiting_approval"
      BY <2>4 DEF FollowHalt, MoveRequest, IInv, TypeOK, StoreTypes
    <3> QED BY <2>2, <2>4, <3>1, LeavesFollow
  <2> QED BY <1>1, <2>3, <2>4 DEF HaltInv, HaltHolds
<1>2. ASSUME NEW w \in Workers, Halts(w, r, i), request'[r] # "awaiting_approval"
      PROVE  request'[r] = "running"
  <2>1. pc[w] = "halt" /\ R(w) = r /\ nxt[w] = i /\ request'[r] = request[r] /\ step[r][i] = "pending"
    BY <1>2 DEF Halts, HaltStep
  <2>2. InOrder(r, i)
    BY <2>1 DEF OrderInv, Holds
  <2>3. request[r] \notin TerminalRequestStatus
    BY <2>1, <2>2, EndedPends DEF HaltInv
  <2>4. request[r] # Absent
    BY <2>1 DEF IInv, DocumentExists, Absent
  <2>5. request[r] # "draft"
    <3>1. I(w) \in Ordinals /\ step[r][I(w)] \in FinishedStep
      BY <2>1, WorkerStep DEF OrderInv, Holds, Advancing
    <3> QED BY <3>1 DEF OrderInv, Drafted, FinishedStep, Absent
  <2>6. request[r] \in RequestStatus \cup {Absent}
    BY DEF IInv, TypeOK, StoreTypes
  <2> QED BY <1>2, <2>1, <2>3, <2>4, <2>5, <2>6 DEF HaltInv, TerminalRequestStatus, RequestStatus
<1>3. CASE step[r][i] # "awaiting_approval"
  <2>1. request'[r] = "awaiting_approval" \/ \E w \in Workers : Halts(w, r, i)
    BY <1>3, ComesToHalt
  <2> QED BY <1>2, <2>1 DEF Halts
<1> QED BY <1>1, <1>3

LEMMA HaltInvStep ==
    ASSUME FaultKinds \cap {"crash", "throw"} = {}, IInv, OrderInv, FailInv, HaltInv, [Next]_vars
    PROVE  HaltInv'
<1>1. \A r \in Requests : request'[r] # "held" /\ CancelledHolds(r)'
  BY NotHeldStep, CancelledStep DEF HaltInv
<1> QED BY <1>1, HaltHoldsStep DEF HaltInv

LEMMA InitHalt == Init => HaltInv
BY DEF Init, HaltInv, HaltHolds, CancelledHolds, Absent

\* A halt's two transactions, seen from anywhere between them (advance.ts, advance
\* and followHalt), and a request that a cancellation left without a halted step.
THEOREM HaltInductive ==
    SlowSteps = FALSE /\ FaultKinds \cap {"crash", "throw"} = {} => (Spec => []HaltInv)
<1> SUFFICES ASSUME SlowSteps = FALSE, FaultKinds \cap {"crash", "throw"} = {} PROVE Spec => []HaltInv
  OBVIOUS
<1>1. IInv /\ OrderInv /\ FailInv /\ HaltInv /\ [Next]_vars => HaltInv'
  BY HaltInvStep
<1>2. "throw" \notin FaultKinds
  OBVIOUS
<1> QED BY <1>1, <1>2, InitHalt, OrderInductive, FailureInductive, PTL DEF Spec

\* A halted step can always be decided: its request awaits approval, or is about to, whatever
\* is cancelled, resumed, lost or delivered twice, where no instance dies between
\* the halt's two transactions and no call of the second throws (advance.ts, followHalt).
THEOREM HaltsAreDecidable ==
    SlowSteps = FALSE /\ FaultKinds \cap {"crash", "throw"} = {} => (Spec => []HaltIsDecidable)
<1> SUFFICES ASSUME SlowSteps = FALSE, FaultKinds \cap {"crash", "throw"} = {}
             PROVE  Spec => []HaltIsDecidable
  OBVIOUS
<1>1. HaltInv => HaltIsDecidable
  BY DEF HaltInv, HaltHolds, HaltIsDecidable, Following
<1> QED BY <1>1, HaltInductive, PTL

-----------------------------------------------------------------------------
(* The notification of a halted step *)

\* Every request has somebody of each role, other than its requester, to decide it.
SomebodyDecides ==
    \A r \in Requests : Admins \ {Requester[r]} # {} /\ Approvers \ {Requester[r]} # {}

Notifies(w, r, i) == pc[w] \in {"follow", "notify"} /\ R(w) = r /\ nxt[w] = i

\* A step that was not dispatched has no notification, and none is about to be enqueued; one
\* that waits with its notice outstanding has it queued, owed, or about to be.
NoticeHolds(r, i) ==
    LET t == NotifyTask(r, i) IN
    /\ step[r][i] \in {"pending", Absent} => t \notin names \cup owed
    /\ \A w \in Workers : Notifies(w, r, i) => step[r][i] \notin {"pending", Absent}
    /\ step[r][i] = "awaiting_approval" /\ notice[r][i] = "outstanding"
          => \/ t \in queue \/ t \in owed \ names
             \/ t \notin names /\ \E w \in Workers : Notifies(w, r, i)

NoticeInv == \A r \in Requests, i \in Ordinals : NoticeHolds(r, i)

StartHalts(r, i) ==
    /\ StartFirstStep(r) /\ i = 1 /\ step'[r][i] = "awaiting_approval"

NotifyEffect(r, i) ==
    LET t == NotifyTask(r, i) IN
    /\ t \in owed' \ owed => StartHalts(r, i)
    /\ t \in owed \ owed' => "lose" \in FaultKinds \/ (t \in names' /\ (t \in names \/ t \in queue'))
    /\ t \in names' \ names
          => /\ t \in queue'
             /\ t \in owed \/ \E w \in Workers : EnqueueNotification(w) /\ R(w) = r /\ nxt[w] = i
    /\ t \in queue \ queue' => NotifyApprovers(r, i) \/ NotifyRefused(r, i) \/ NotifyFails(r, i)

LEMMA NotifyNames ==
    ASSUME NEW r \in Requests, NEW i \in Ordinals, NEW q \in Requests, NEW j \in Ordinals
    PROVE  /\ NotifyTask(r, i) = NotifyTask(q, j) => r = q /\ i = j
           /\ NotifyTask(r, i) # ExpiryTask(q, j)
           /\ NotifyTask(r, i).req = r /\ NotifyTask(r, i).ord = i /\ NotifyTask(r, i).kind = "notify"
           /\ \A n : NotifyTask(r, i) # ExecuteTask(q, j, n)
BY DEF NotifyTask, ExpiryTask, ExecuteTask

LEMMA NotifyOwedStep ==
    ASSUME IInv, OrderInv, [Next]_vars, NEW r \in Requests, NEW i \in Ordinals
    PROVE  LET t == NotifyTask(r, i) IN
           /\ t \in owed' \ owed => StartHalts(r, i)
           /\ t \in owed \ owed' => "lose" \in FaultKinds \/ (t \in names' /\ (t \in names \/ t \in queue'))
<1> DEFINE t == NotifyTask(r, i)
           Goal == /\ t \in owed' \ owed => StartHalts(r, i)
                   /\ t \in owed \ owed'
                         => "lose" \in FaultKinds \/ (t \in names' /\ (t \in names \/ t \in queue'))
<1> SUFFICES Goal
  OBVIOUS
<1>0. t \in Task
  BY BuiltTasks
<1> HIDE DEF t
<1>1. CASE UNCHANGED owed
  BY <1>1
<1>2. ASSUME NEW q \in Requests, NEW x, owed' = owed \cup {x},
             \E j \in Ordinals, n \in 0..MaxResumes : x = ExecuteTask(q, j, n)
      PROVE  Goal
  BY <1>2, NotifyNames DEF t
<1>3. ASSUME NEW q \in Requests, StartFirstStep(q) PROVE Goal
  <2>1. owed \subseteq owed'
    BY <1>3 DEF StartFirstStep
  <2>2. ASSUME t \in owed' \ owed PROVE StartHalts(r, i)
    <3>1. t # ExecuteTask(q, 1, 0) /\ t # ExpiryTask(q, 1)
      BY NotifyNames, CompOrdinalType DEF t
    <3>2. t = NotifyTask(q, 1) /\ step' = [step EXCEPT ![q][1] = "awaiting_approval"]
      BY <1>3, <2>2, <3>1 DEF StartFirstStep
    <3>3. r = q /\ i = 1
      BY <3>2, NotifyNames, CompOrdinalType DEF t
    <3> QED BY <1>3, <3>2, <3>3 DEF StartHalts, IInv, TypeOK, StoreTypes
  <2> QED BY <2>1, <2>2
<1>4. ASSUME NEW q \in Requests, NEW j \in Ordinals, NEW h, NEW d, DecideStep(q, j, h, d) PROVE Goal
  <2>1. owed' = owed \/ owed' = owed \cup {ExecuteTask(q, j, 0)}
    BY <1>4 DEF DecideStep
  <2> HIDE DEF Goal
  <2> QED BY <1>1, <1>2, <2>1, ZeroNonce
<1>5. ASSUME NEW q \in Requests, AppendCompensatingStep(q) PROVE Goal
  <2>1. owed' = owed \/ owed' = owed \cup {ExecuteTask(q, CompOrdinal(q), 0)}
    BY <1>5 DEF AppendCompensatingStep
  <2> HIDE DEF Goal
  <2> QED BY <1>1, <1>2, <2>1, ZeroNonce, CompOrdinalType
<1>6. ASSUME NEW q \in Requests, NEW j \in Ordinals, ResumeRequest(q, j) PROVE Goal
  <2>1. owed' = owed \cup {ExecuteTask(q, j, resumes[q] + 1)} /\ resumes[q] + 1 \in 0..MaxResumes
    BY <1>6, ConstantsAssumption DEF ResumeRequest, IInv, TypeOK, BoundTypes
  <2> HIDE DEF Goal
  <2> QED BY <1>2, <2>1
<1>7. ASSUME NEW x \in owed, EnqueueOwed(x) PROVE Goal
  <2>1. owed' = owed \ {x} /\ names' = names \cup {x} /\ (x \notin names => x \in queue')
    BY <1>7, EnqueueMoves DEF EnqueueOwed
  <2> QED BY <2>1
<1>8. ASSUME NEW x \in owed, LoseOwed(x) PROVE Goal
  BY <1>8 DEF LoseOwed, Fault
<1> HIDE DEF Goal
<1>9. CASE UNCHANGED vars
  BY <1>1, <1>9 DEF vars, apiVars
<1>10. CASE Operator
  BY <1>1, <1>4, <1>6, <1>10
     DEF Operator, SetApprovalPolicy, CreateRequest, ReadForCancel, AdminCancel, apiVars
<1>11. CASE Api
  BY <1>1, <1>3, <1>5, <1>7, <1>11
     DEF Api, ServeStart, ServeCancel, StartRefused, RequesterCancel
<1>12. ASSUME NEW x \in queue, Deliver(x) PROVE Goal
  BY <1>1, <1>12 DEF Deliver, NotClaimable, ClaimStep, ExpireApproval, ExpiryRefused, NotifyApprovers,
                     NotifyRefused, NotifyUndelivered, apiVars
<1>13. ASSUME NEW w \in Workers, Handler(w) PROVE Goal
  BY <1>1, <1>13
     DEF Handler, ReadAccount, SuspendUser, UnsuspendUser, DeleteUser, CreateUser, OtherHandler,
         HandlerError, Yields, apiVars
<1>14. ASSUME NEW w \in Workers, Advance(w) PROVE Goal
  BY <1>1, <1>14
     DEF Advance, SettleStep, AdvanceReadRequest, AdvanceReadSteps, FinishRequest, FinishThrows,
         ReleaseStep, HaltStep, FollowHalt, EnqueueNotification, EnqueueExpiry, EnqueueNext,
         SettleFailure, FailRequest, Answer200, Answer500, apiVars
<1>15. CASE Failures
  BY <1>1, <1>8, <1>15
     DEF Failures, Crash, CallThrows, NotifyFails, NotifyUndelivered, LoseCall, apiVars
<1> QED BY <1>9, <1>10, <1>11, <1>12, <1>13, <1>14, <1>15 DEF Next

LEMMA NotifyQueueStep ==
    ASSUME IInv, OrderInv, TaskInv, [Next]_vars, NEW r \in Requests, NEW i \in Ordinals
    PROVE  LET t == NotifyTask(r, i) IN
           /\ t \in names' \ names
                 => /\ t \in queue'
                    /\ t \in owed \/ \E w \in Workers : EnqueueNotification(w) /\ R(w) = r /\ nxt[w] = i
           /\ t \in queue \ queue' => NotifyApprovers(r, i) \/ NotifyRefused(r, i) \/ NotifyFails(r, i)
<1> DEFINE t == NotifyTask(r, i)
           Goal == /\ t \in names' \ names
                         => /\ t \in queue'
                            /\ t \in owed \/ \E w \in Workers : EnqueueNotification(w) /\ R(w) = r /\ nxt[w] = i
                   /\ t \in queue \ queue'
                         => NotifyApprovers(r, i) \/ NotifyRefused(r, i) \/ NotifyFails(r, i)
<1> SUFFICES Goal
  OBVIOUS
<1> HIDE DEF t
<1>1. CASE UNCHANGED queueVars
  BY <1>1 DEF queueVars
<1>2. ASSUME NEW x \in owed, EnqueueOwed(x) PROVE Goal
  BY <1>2, EnqueueMoves DEF EnqueueOwed
<1>3. ASSUME NEW x, x # t, Enqueue(x) \/ Acknowledge(x) \/ FailDelivery(x) PROVE Goal
  BY <1>3, EnqueueMoves, AnswerMoves
<1>4. ASSUME NEW w \in Workers, EnqueueNotification(w) PROVE Goal
  <2>1. pc[w] # "idle" /\ nxt[w] \in Ordinals /\ Enqueue(NotifyTask(R(w), nxt[w]))
    BY <1>4 DEF EnqueueNotification, IInv, WorkerLocals, LocalsOf
  <2>2. R(w) \in Requests
    BY <2>1, BusyJob DEF IInv, TypeOK
  <2>3. t = NotifyTask(R(w), nxt[w]) => R(w) = r /\ nxt[w] = i
    BY <2>1, <2>2, NotifyNames DEF t
  <2> DEFINE x == NotifyTask(R(w), nxt[w])
  <2>4. names' = names \cup {x} /\ queue \subseteq queue' /\ (x \notin names => x \in queue')
    BY <2>1, EnqueueMoves
  <2> HIDE DEF x
  <2> QED BY <1>4, <2>3, <2>4 DEF x
<1>5. ASSUME NEW w \in Workers, EnqueueExpiry(w) \/ EnqueueNext(w) PROVE Goal
  <2>1. pc[w] # "idle" /\ nxt[w] \in Ordinals
    BY <1>5 DEF EnqueueExpiry, EnqueueNext, IInv, WorkerLocals, LocalsOf
  <2>2. R(w) \in Requests
    BY <2>1, BusyJob DEF IInv, TypeOK
  <2>3. \E x : x # t /\ Enqueue(x)
    BY <1>5, <2>1, <2>2, NotifyNames DEF t, EnqueueExpiry, EnqueueNext
  <2> HIDE DEF Goal
  <2> QED BY <1>3, <2>3
<1>6. ASSUME NEW w \in Workers, Answer200(w) \/ Answer500(w) \/ Crash(w) PROVE Goal
  <2>1. pc[w] # "idle" /\ (Acknowledge(job[w]) \/ FailDelivery(job[w]))
    BY <1>6 DEF Answer200, Answer500, Crash
  <2>2. job[w] # t
    BY <2>1, NotifyNames DEF TaskInv, t
  <2> HIDE DEF Goal
  <2> QED BY <1>3, <2>1, <2>2
<1>7. ASSUME NEW x \in queue, NotClaimable(x) PROVE Goal
  <2>1. FailDelivery(x) /\ x # t
    BY <1>7, NotifyNames DEF NotClaimable, Deliverable, t
  <2> HIDE DEF Goal
  <2> QED BY <1>3, <2>1
<1>8. ASSUME NEW q \in Requests, NEW j \in Ordinals, ExpireApproval(q, j) \/ ExpiryRefused(q, j) PROVE Goal
  <2>1. \E x : x # t /\ (Acknowledge(x) \/ FailDelivery(x))
    BY <1>8, NotifyNames DEF ExpireApproval, ExpiryRefused, t
  <2> HIDE DEF Goal
  <2> QED BY <1>3, <2>1
<1>9. ASSUME NEW q \in Requests, NEW j \in Ordinals,
             NotifyApprovers(q, j) \/ NotifyRefused(q, j) \/ NotifyFails(q, j)
      PROVE  Goal
  <2>1. PICK x : x = NotifyTask(q, j) /\ (Acknowledge(x) \/ FailDelivery(x))
    BY <1>9 DEF NotifyApprovers, NotifyRefused, NotifyFails, NotifyUndelivered
  <2>2. CASE x = t
    <3>1. q = r /\ j = i
      <4>1. NotifyTask(q, j) = NotifyTask(r, i)
        BY <2>1, <2>2 DEF t
      <4> QED BY <4>1, NotifyNames
    <3>2. names' = names
      BY <2>1, AnswerMoves
    <3> QED BY <1>9, <3>1, <3>2
  <2>3. CASE x # t
    <3> HIDE DEF Goal
    <3> QED BY <1>3, <2>1, <2>3
  <2> QED BY <2>2, <2>3
<1> HIDE DEF Goal
<1>10. CASE UNCHANGED vars \/ Operator
  BY <1>1, <1>10 DEF vars, Operator, SetApprovalPolicy, CreateRequest, ReadForCancel, AdminCancel,
                     ResumeRequest, DecideStep
<1>11. CASE Api
  BY <1>1, <1>2, <1>11 DEF Api, ServeStart, ServeCancel, StartFirstStep, StartRefused, RequesterCancel,
                           AppendCompensatingStep
<1>12. ASSUME NEW x \in queue, Deliver(x) PROVE Goal
  <2>1. x.req \in Requests /\ x.ord \in Ordinals
    BY DeliveredTask DEF IInv, TypeOK
  <2>2. CASE \E w \in Workers : ClaimStep(w, x)
    BY <1>1, <2>2 DEF ClaimStep
  <2>3. CASE ~\E w \in Workers : ClaimStep(w, x)
    BY <1>7, <1>8, <1>9, <1>12, <2>1, <2>3 DEF Deliver
  <2> QED BY <2>2, <2>3
<1>13. ASSUME NEW w \in Workers, Handler(w) PROVE Goal
  BY <1>1, <1>13
     DEF Handler, ReadAccount, SuspendUser, UnsuspendUser, DeleteUser, CreateUser, OtherHandler,
         HandlerError, Yields
<1>14. ASSUME NEW w \in Workers, Advance(w) PROVE Goal
  BY <1>1, <1>4, <1>5, <1>6, <1>14
     DEF Advance, SettleStep, AdvanceReadRequest, AdvanceReadSteps, FinishRequest, FinishThrows,
         ReleaseStep, HaltStep, FollowHalt, SettleFailure, FailRequest
<1>15. CASE Failures
  BY <1>1, <1>6, <1>9, <1>15 DEF Failures, CallThrows, LoseOwed, LoseCall
<1> QED BY <1>10, <1>11, <1>12, <1>13, <1>14, <1>15 DEF Next

\* A notice becomes outstanding with the halt of its step.
LEMMA NoticeStep ==
    ASSUME IInv, OrderInv, [Next]_vars, NEW r \in Requests, NEW i \in Ordinals,
           notice'[r][i] = "outstanding", step[r][i] = "awaiting_approval"
    PROVE  notice[r][i] = "outstanding"
<1> SUFFICES ASSUME notice[r][i] # "outstanding" PROVE FALSE
  OBVIOUS
<1> USE DEF IInv, TypeOK, StoreTypes
<1>1. CASE UNCHANGED notice
  BY <1>1
<1>2. ASSUME NEW q \in Requests, NEW j \in Ordinals, NEW s, notice' = [notice EXCEPT ![q][j] = s],
             s # "outstanding" \/ step[q][j] # "awaiting_approval"
      PROVE  FALSE
  BY <1>2
<1>3. ASSUME NEW q \in Requests, StartFirstStep(q) PROVE FALSE
  <2>1. CASE notice' = [notice EXCEPT ![q][1] = "outstanding"]
    <3>1. CanTransitionStep(step[q][1], "awaiting_approval") \/ notice' = notice
      BY <1>3 DEF StartFirstStep
    <3>2. step[q][1] = "awaiting_approval" => ~CanTransitionStep(step[q][1], "awaiting_approval")
      BY DEF CanTransitionStep, StepTransitions, StepStatus
    <3> QED BY <1>1, <1>2, <2>1, <3>1, <3>2, CompOrdinalType
  <2> QED BY <1>1, <1>3, <2>1 DEF StartFirstStep
<1>4. ASSUME NEW q \in Requests, NEW j \in Ordinals, NotifyApprovers(q, j) PROVE FALSE
  <2>1. notice' = notice \/ \E s \in {"sent", "suppressed"} : notice' = [notice EXCEPT ![q][j] = s]
    BY <1>4 DEF NotifyApprovers
  <2> QED BY <1>1, <1>2, <2>1
<1>5. ASSUME NEW w \in Workers, HaltStep(w) PROVE FALSE
  <2>1. R(w) \in Requests /\ nxt[w] \in Ordinals
    BY <1>5, BusyJob DEF HaltStep, WorkerLocals, LocalsOf
  <2>2. notice' = notice \/ (notice' = [notice EXCEPT ![R(w)][nxt[w]] = "outstanding"]
                             /\ step[R(w)][nxt[w]] # "awaiting_approval")
    BY <1>5 DEF HaltStep
  <2> QED BY <1>1, <1>2, <2>1, <2>2
<1>6. CASE UNCHANGED vars
  BY <1>1, <1>6 DEF vars, storeVars
<1>7. CASE Operator
  BY <1>1, <1>7 DEF Operator, SetApprovalPolicy, CreateRequest, ReadForCancel, AdminCancel, ResumeRequest,
                    DecideStep, CancelRequest, storeVars
<1>8. CASE Api
  BY <1>1, <1>3, <1>8
     DEF Api, ServeStart, ServeCancel, StartRefused, RequesterCancel, CancelRequest, AppendCompensatingStep,
         EnqueueOwed, storeVars
<1>9. ASSUME NEW t \in queue, Deliver(t) PROVE FALSE
  <2>1. t.req \in Requests /\ t.ord \in Ordinals
    BY DeliveredTask
  <2> QED BY <1>1, <1>4, <1>9, <2>1
          DEF Deliver, NotClaimable, ClaimStep, ExpireApproval, ExpiryRefused, NotifyRefused,
              NotifyUndelivered, storeVars
<1>10. ASSUME NEW w \in Workers, Handler(w) PROVE FALSE
  BY <1>1, <1>10
     DEF Handler, ReadAccount, SuspendUser, UnsuspendUser, DeleteUser, CreateUser, OtherHandler,
         HandlerError, Yields, storeVars
<1>11. ASSUME NEW w \in Workers, Advance(w) PROVE FALSE
  BY <1>1, <1>5, <1>11
     DEF Advance, SettleStep, AdvanceReadRequest, AdvanceReadSteps, FinishRequest, FinishThrows,
         ReleaseStep, FollowHalt, EnqueueNotification, EnqueueExpiry, EnqueueNext,
         SettleFailure, FailRequest, Answer200, Answer500, storeVars
<1>12. CASE Failures
  BY <1>1, <1>12
     DEF Failures, Crash, CallThrows, NotifyFails, NotifyUndelivered, LoseOwed, LoseCall, storeVars
<1> QED BY <1>6, <1>7, <1>8, <1>9, <1>10, <1>11, <1>12 DEF Next

\* A worker comes to notify by halting a step, or by finding one halted.
LEMMA ComesToNotify ==
    ASSUME IInv, [Next]_vars, NEW w \in Workers, pc'[w] \in {"follow", "notify"}
    PROVE  /\ job'[w] = job[w]
           /\ \/ pc[w] \in {"follow", "notify"} /\ nxt'[w] = nxt[w]
              \/ HaltStep(w) /\ nxt'[w] = nxt[w] /\ step' = [step EXCEPT ![R(w)][nxt[w]] = "awaiting_approval"]
              \/ AdvanceReadSteps(w) /\ step[R(w)][nxt'[w]] = "awaiting_approval"
<1> USE DEF IInv, TypeOK, WorkerTypes, Goto
<1>1. CASE Handler(w) \/ CallThrows(w) \/ Crash(w)
  BY <1>1 DEF Handler, ReadAccount, SuspendUser, UnsuspendUser, DeleteUser, CreateUser, OtherHandler,
              HandlerError, Yields, CallThrows, Crash, Finished
<1>2. CASE AdvanceReadSteps(w)
  <2>1. job' = job /\ nxt'[w] \in Ordinals /\ pc'[w] = NextMove(R(w), nxt'[w])
    BY <1>2 DEF AdvanceReadSteps, Unfinished
  <2>2. step[R(w)][nxt'[w]] = "awaiting_approval"
    BY <2>1 DEF NextMove
  <2> QED BY <1>2, <2>1, <2>2
<1>3. CASE Advance(w) /\ ~AdvanceReadSteps(w)
  BY <1>3
     DEF Advance, SettleStep, AdvanceReadRequest, FinishRequest, FinishThrows,
         ReleaseStep, HaltStep, FollowHalt, EnqueueNotification, EnqueueExpiry, EnqueueNext,
         SettleFailure, FailRequest, Answer200, Answer500, Finished
<1>4. CASE \E t \in queue : ClaimStep(w, t)
  BY <1>4 DEF ClaimStep
<1> QED BY <1>1, <1>2, <1>3, <1>4, WorkerMoves

LEMMA NoticeHoldsStep ==
    ASSUME FaultKinds \subseteq {"duplicate"}, SomebodyDecides, IInv, OrderInv, TaskInv, NoticeInv,
           [Next]_vars, NEW r \in Requests, NEW i \in Ordinals
    PROVE  NoticeHolds(r, i)'
<1> DEFINE t == NotifyTask(r, i)
<1>1. NoticeHolds(r, i)
  BY DEF NoticeInv
<1>2. /\ t \in owed' \ owed => StartHalts(r, i)
      /\ t \in owed \ owed' => t \in names' /\ (t \in names \/ t \in queue')
  BY NotifyOwedStep
<1>3. /\ t \in names' \ names
            => /\ t \in queue'
               /\ t \in owed \/ \E w \in Workers : EnqueueNotification(w) /\ R(w) = r /\ nxt[w] = i
      /\ t \in queue \ queue' => NotifyApprovers(r, i) \/ NotifyRefused(r, i) \/ NotifyFails(r, i)
  BY NotifyQueueStep
<1>4. step'[r][i] \in {"pending", Absent} => step[r][i] \in {"pending", Absent}
  <2>1. OrderEffect(r, i) /\ Effect(r, i)
    BY OrderStep, EffectStep
  <2> QED BY <2>1 DEF OrderEffect, MovesTo, Effect, IInv, DocumentExists
<1>5. ASSUME NEW w \in Workers, EnqueueNotification(w), R(w) = r, nxt[w] = i PROVE Notifies(w, r, i)
  BY <1>5 DEF EnqueueNotification, Notifies
<1> HIDE DEF t
<1>6. ASSUME step'[r][i] \in {"pending", Absent} PROVE t \notin names' \cup owed'
  <2>1. t \notin names \cup owed /\ \A w \in Workers : ~Notifies(w, r, i)
    BY <1>1, <1>4, <1>6 DEF NoticeHolds, t
  <2>2. ~StartHalts(r, i)
    BY <1>6 DEF StartHalts, Absent
  <2> QED BY <1>2, <1>3, <1>5, <2>1, <2>2
<1>7. ASSUME NEW w \in Workers, Notifies(w, r, i)' PROVE step'[r][i] \notin {"pending", Absent}
  <2>1. pc'[w] \in {"follow", "notify"} /\ R(w)' = r /\ nxt'[w] = i
    BY <1>7 DEF Notifies
  <2>2. R(w) = r
    BY <2>1, ComesToNotify DEF R
  <2>3. CASE step[r][i] \notin {"pending", Absent}
    BY <1>4, <2>3
  <2>4. CASE step' = [step EXCEPT ![r][i] = "awaiting_approval"]
    BY <2>4 DEF IInv, TypeOK, StoreTypes, Absent
  <2> QED BY <1>1, <2>1, <2>2, <2>3, <2>4, ComesToNotify DEF NoticeHolds, Notifies, Absent
<1>8. ASSUME step'[r][i] = "awaiting_approval", notice'[r][i] = "outstanding"
      PROVE  \/ t \in queue' \/ t \in owed' \ names'
             \/ t \notin names' /\ \E w \in Workers : Notifies(w, r, i)'
  <2>1. CASE step[r][i] = "awaiting_approval"
    <3>1. \/ t \in queue \/ t \in owed \ names
          \/ t \notin names /\ \E w \in Workers : Notifies(w, r, i)
      BY <1>1, <1>8, <2>1, NoticeStep DEF NoticeHolds, t
    <3>2. CASE t \in queue
      <4>1. ~NotifyApprovers(r, i)
        BY <1>8, <2>1 DEF NotifyApprovers, IInv, TypeOK, StoreTypes
      <4>2. ~NotifyRefused(r, i) /\ ~NotifyFails(r, i)
        BY DEF NotifyRefused, NotifyFails, Fault, EligibleApprovers, RoleHolders, SomebodyDecides
      <4> QED BY <1>3, <3>2, <4>1, <4>2
    <3>3. CASE t \in owed \ names
      BY <1>2, <1>3, <3>3
    <3>4. ASSUME NEW w \in Workers, Notifies(w, r, i), t \notin names
          PROVE  t \in queue' \/ (t \notin names' /\ Notifies(w, r, i)')
      <4>1. CASE EnqueueNotification(w)
        <5>1. Enqueue(t)
          BY <3>4, <4>1 DEF EnqueueNotification, Notifies, t
        <5> QED BY <3>4, <5>1, EnqueueMoves
      <4>2. CASE ~EnqueueNotification(w)
        <5>1. Notifies(w, r, i)'
          <6>1. CASE pc[w] = "follow"
            BY <3>4, <6>1, LeavesFollow DEF Notifies
          <6>2. CASE pc[w] = "notify"
            <7>1. pc'[w] = pc[w] /\ job'[w] = job[w] /\ nxt'[w] = nxt[w]
              BY <4>2, <6>2, WorkerMoves
                 DEF Handler, ReadAccount, SuspendUser, UnsuspendUser, DeleteUser, CreateUser, OtherHandler,
                     HandlerError, Handles, CallThrows, Crash, Fault, Advance, SettleStep,
                     AdvanceReadRequest, AdvanceReadSteps, FinishRequest, FinishThrows, ReleaseStep,
                     HaltStep, FollowHalt, EnqueueNext, EnqueueExpiry, SettleFailure, FailRequest,
                     Answer200, Answer500
            <7> QED BY <3>4, <7>1 DEF Notifies, R
          <6> QED BY <3>4, <6>1, <6>2 DEF Notifies
        <5> QED BY <1>3, <3>4, <5>1
      <4> QED BY <4>1, <4>2
    <3> QED BY <3>1, <3>2, <3>3, <3>4
  <2>2. CASE step[r][i] # "awaiting_approval"
    <3>1. CASE StartFirstStep(r) /\ i = 1
      <4>1. CanTransitionStep(step[r][1], "ready") \/ t \in owed'
        BY <3>1 DEF StartFirstStep, t
      <4>2. names' = names /\ (t \in owed' \/ step' = [step EXCEPT ![r][1] = "ready"])
        BY <3>1 DEF StartFirstStep, t, queueVars
      <4>3. t \in owed'
        BY <1>8, <3>1, <4>2 DEF IInv, TypeOK, StoreTypes
      <4>4. CanTransitionRequest(request[r], "running") /\ [op |-> "start", req |-> r] \in calls
        BY <3>1 DEF StartFirstStep
      <4>5. request[r] = "draft"
        BY <4>4 DEF OrderInv, Drafted, CanTransitionRequest, RequestTransitions, RequestStatus
      <4>6. step[r][i] \in {"pending", Absent}
        BY <4>5 DEF OrderInv, Drafted
      <4> QED BY <1>1, <4>2, <4>3, <4>6 DEF NoticeHolds, t
    <3>2. ASSUME NEW w \in Workers, Halts(w, r, i)
          PROVE  t \notin names' /\ Notifies(w, r, i)'
      <4>1. names' = names /\ step[r][i] = "pending"
        BY <3>2 DEF Halts, HaltStep, queueVars
      <4>2. Notifies(w, r, i)'
        BY <3>2 DEF Halts, Notifies
      <4> QED BY <1>1, <4>1, <4>2 DEF NoticeHolds, t
    <3> QED BY <1>8, <2>2, <3>1, <3>2, ComesToHalt
  <2> QED BY <2>1, <2>2
<1>9. t' = t
  BY DEF t, NotifyTask
<1> QED BY <1>6, <1>7, <1>8, <1>9 DEF NoticeHolds, t, NotifyTask

\* The notification of a halted step is never stranded, where no call is lost or fails and
\* somebody may decide: it is queued, owed, or about to be, until it is sent
\* or the step is decided (advance.ts, followHalt; approvers.ts, notifyApprovers).
THEOREM HaltsAreDrained ==
    /\ SlowSteps = FALSE /\ FaultKinds \subseteq {"duplicate"} /\ SomebodyDecides
    => (Spec => []HaltIsDrained)
<1> SUFFICES ASSUME SlowSteps = FALSE, FaultKinds \subseteq {"duplicate"}, SomebodyDecides
             PROVE  Spec => []HaltIsDrained
  OBVIOUS
<1>1. Init => NoticeInv
  BY DEF Init, NoticeInv, NoticeHolds, Notifies, Absent
<1>2. IInv /\ OrderInv /\ TaskInv /\ NoticeInv /\ [Next]_vars => NoticeInv'
  BY NoticeHoldsStep DEF NoticeInv
<1>3. NoticeInv => HaltIsDrained
  BY DEF NoticeInv, NoticeHolds, HaltIsDrained, Following, Notifies
<1> QED BY <1>1, <1>2, <1>3, OrderInductive, TasksFollowDispatch, PTL DEF Spec

-----------------------------------------------------------------------------
(* One worker moves a plan *)

\* Nobody has cancelled the request.
Standing(r) == ~Withdrawn(r)

\* Between a finished step and the dispatch of the next.
Transit == {"advance", "plan", "finish", "release", "halt", "enqueue", "follow"}

\* Between the claim of a step and that.
Driving == {"exec", "mutate", "settle"} \cup Transit

\* The steps beyond a worker's own, but for the one it has just dispatched.
Beyond(w) == {k \in Ordinals : k > I(w) /\ ~(k = nxt[w] /\ pc[w] \in {"enqueue", "follow"})}

\* The worker that has finished a step dispatches the one after it, and nobody has
\* dispatched a later one.
Leads(w) ==
    pc[w] \in Transit /\ Standing(R(w)) =>
        /\ pc[w] \in {"release", "halt", "enqueue", "follow"}
              => nxt[w] = I(w) + 1 /\ step[R(w)][nxt[w]] # Absent
        /\ \A k \in Beyond(w) : step[R(w)][k] \in {"pending", Absent}
        /\ pc[w] = "follow" => request[R(w)] = "running" /\ step[R(w)][nxt[w]] = "awaiting_approval"

OneDriver(v, w) ==
    v # w /\ pc[v] \in Driving /\ pc[w] \in Driving => ~(R(v) = R(w) /\ I(v) = I(w))

Awaits(r) ==
    request[r] = "awaiting_approval"
        => (\E i \in Ordinals : step[r][i] = "awaiting_approval") \/ Compensating(r)

LeadInv ==
    /\ \A w \in Workers : Leads(w)
    /\ \A v, w \in Workers : OneDriver(v, w)
    /\ \A r \in Requests : Awaits(r) /\ request[r] # "held" /\ CancelledHolds(r)
    /\ \A r \in Requests, i \in Ordinals : Standing(r) /\ step[r][i] = "skipped" => InOrder(r, i)

\* A worker comes to drive a step by claiming it.
LEMMA ComesToDrive ==
    ASSUME IInv, [Next]_vars, NEW w \in Workers, pc'[w] \in Driving
    PROVE  \/ pc[w] \in Driving /\ job'[w] = job[w]
           \/ pc[w] = "idle" /\ \E t \in queue : ClaimStep(w, t) /\ job'[w] = t /\ pc'[w] = "exec"
<1> USE DEF IInv, TypeOK, WorkerTypes, Goto, Driving, Transit
<1>1. CASE Handler(w) \/ CallThrows(w) \/ Crash(w)
  BY <1>1 DEF Handler, ReadAccount, SuspendUser, UnsuspendUser, DeleteUser, CreateUser, OtherHandler,
              HandlerError, Handles, Yields, CallThrows, Crash, Finished
<1>2. CASE Advance(w)
  BY <1>2
     DEF Advance, SettleStep, AdvanceReadRequest, AdvanceReadSteps, FinishRequest, FinishThrows,
         ReleaseStep, HaltStep, FollowHalt, EnqueueNotification, EnqueueExpiry, EnqueueNext,
         SettleFailure, FailRequest, Answer200, Answer500, Finished
<1>3. ASSUME NEW t \in queue, ClaimStep(w, t) PROVE job'[w] = t /\ pc'[w] = "exec"
  BY <1>3 DEF ClaimStep
<1> QED BY <1>1, <1>2, <1>3, WorkerMoves

\* A driver's step is running, or finished.
LEMMA DrivenStep ==
    ASSUME IInv, OrderInv, NEW w \in Workers, pc[w] \in Driving
    PROVE  /\ R(w) \in Requests /\ I(w) \in Ordinals
           /\ pc[w] \in {"exec", "mutate", "settle"} => step[R(w)][I(w)] = "running"
           /\ pc[w] \in Transit => step[R(w)][I(w)] \in FinishedStep
BY WorkerStep DEF OrderInv, Holds, Driving, Transit, Claimed, Advancing

\* Nobody claims a step that has a driver.
LEMMA ClaimsUndriven ==
    ASSUME ~SlowSteps, IInv, OrderInv, NEW w \in Workers, NEW v \in Workers, NEW t \in queue,
           ClaimStep(w, t), pc[v] \in Driving
    PROVE  ~(R(v) = t.req /\ I(v) = t.ord)
<1> SUFFICES ASSUME R(v) = t.req, I(v) = t.ord PROVE FALSE
  OBVIOUS
<1>1. step[t.req][t.ord] = "ready" \/ (step[t.req][t.ord] = "running" /\ ~Executing(t.req, t.ord))
  BY DEF ClaimStep, Claimable, LeaseMayExpire
<1>2. pc[v] \in {"exec", "mutate", "settle"} => Executing(t.req, t.ord) /\ step[t.req][t.ord] = "running"
  BY DrivenStep DEF Executing
<1> QED BY <1>1, <1>2, DrivenStep DEF Driving, FinishedStep

LEMMA OneDriverStep ==
    ASSUME ~SlowSteps, IInv, OrderInv, LeadInv, [Next]_vars, NEW v \in Workers, NEW w \in Workers
    PROVE  OneDriver(v, w)'
<1> SUFFICES ASSUME v # w, pc'[v] \in Driving, pc'[w] \in Driving
             PROVE  ~(R(v)' = R(w)' /\ I(v)' = I(w)')
  BY DEF OneDriver
<1>1. ASSUME NEW x \in Workers, NEW y \in Workers, x # y, NEW t \in queue, ClaimStep(x, t),
             job'[x] = t, pc[x] = "idle", pc'[y] \in Driving
      PROVE  ~(R(x)' = R(y)' /\ I(x)' = I(y)')
  <2>1. pc[y] = pc'[y] /\ job'[y] = job[y]
    BY <1>1 DEF ClaimStep, Goto, IInv, TypeOK, WorkerTypes
  <2>2. ~(R(y) = t.req /\ I(y) = t.ord)
    BY <1>1, <2>1, ClaimsUndriven
  <2> QED BY <1>1, <2>1, <2>2 DEF R, I
<1>2. CASE pc[v] \in Driving /\ job'[v] = job[v] /\ pc[w] \in Driving /\ job'[w] = job[w]
  BY <1>2 DEF LeadInv, OneDriver, R, I
<1> QED BY <1>1, <1>2, ComesToDrive

\* The moves of a worker between two steps.
LEMMA TransitMoves ==
    ASSUME IInv, [Next]_vars, NEW w \in Workers, pc'[w] \in Transit
    PROVE  /\ R(w)' = R(w) /\ I(w)' = I(w)
           /\ \/ pc'[w] = pc[w] /\ nxt'[w] = nxt[w]
              \/ SettleStep(w) /\ pc'[w] = "advance" /\ nxt'[w] = nxt[w]
              \/ AdvanceReadRequest(w) /\ pc'[w] = "plan" /\ nxt'[w] = nxt[w]
              \/ AdvanceReadSteps(w)
              \/ /\ ReleaseStep(w) /\ pc'[w] = "enqueue" /\ nxt'[w] = nxt[w]
                 /\ step' = [step EXCEPT ![R(w)][nxt[w]] = "ready"]
              \/ Halts(w, R(w), nxt[w]) /\ nxt'[w] = nxt[w]
<1> USE DEF IInv, TypeOK, WorkerTypes, Goto, Transit, R, I
<1>1. CASE Handler(w) \/ CallThrows(w) \/ Crash(w)
  BY <1>1 DEF Handler, ReadAccount, SuspendUser, UnsuspendUser, DeleteUser, CreateUser, OtherHandler,
              HandlerError, Handles, Yields, CallThrows, Crash, Finished
<1>2. CASE HaltStep(w)
  BY <1>2 DEF HaltStep, Halts
<1>3. CASE Advance(w) /\ ~HaltStep(w)
  BY <1>3
     DEF Advance, SettleStep, AdvanceReadRequest, AdvanceReadSteps, FinishRequest, FinishThrows,
         ReleaseStep, FollowHalt, EnqueueNotification, EnqueueExpiry, EnqueueNext,
         SettleFailure, FailRequest, Answer200, Answer500, Finished
<1>4. CASE \E t \in queue : ClaimStep(w, t)
  BY <1>4 DEF ClaimStep
<1> QED BY <1>1, <1>2, <1>3, <1>4, WorkerMoves

LEMMA StandingBefore ==
    ASSUME IInv, OrderInv, [Next]_vars, NEW r \in Requests, Standing(r)'
    PROVE  Standing(r)
<1>1. Effect(r, CompOrdinal(r)) /\ CompOrdinal(r) \in Ordinals
  BY EffectStep, CompOrdinalType
<1>2. ~Compensating(r) /\ ~Compensating(r)'
  BY <1>1 DEF Standing, Withdrawn, Effect, Compensating, CompOrdinal
<1>3. request[r] # "cancelled"
  <2> SUFFICES ASSUME request[r] = "cancelled" PROVE FALSE
    OBVIOUS
  <2>1. request'[r] # "cancelled"
    BY DEF Standing, Withdrawn
  <2>2. \A w \in Workers : R(w) = r => ~(FinishRequest(w) /\ request'[r] # request[r])
                                       /\ ~(FailRequest(w) /\ request'[r] # request[r])
    BY DEF FinishRequest, FailRequest, MoveRequest
  <2>3. request'[r] = "running" => step'[r][CompOrdinal(r)] # "ready"
    BY <1>2 DEF Compensating, CompOrdinal, Absent
  <2> QED BY <2>1, <2>2, <2>3, RequestMovesStep DEF RequestMove, Absent
<1> QED BY <1>2, <1>3 DEF Standing, Withdrawn
\* A step of a request in flight is a document, or beyond the plan.
LEMMA StepsOfPlan ==
    ASSUME IInv, OrderInv, NEW r \in Requests, request[r] # Absent, Standing(r), NEW i \in Ordinals
    PROVE  /\ i \in 1..Len(Plan[r]) <=> step[r][i] # Absent
           /\ i # CompOrdinal(r) => (step[r][i] = Absent <=> i > CompOrdinal(r))
<1>1. i \in 1..Len(Plan[r]) => step[r][i] # Absent
  BY DEF OrderInv, Sequenced
<1>2. i = CompOrdinal(r) => step[r][i] = Absent
  BY DEF Standing, Withdrawn, Compensating, CompOrdinal
<1>3. i > CompOrdinal(r) => step[r][i] = Absent
  BY DEF IInv, DocumentExists
<1> QED BY <1>1, <1>2, <1>3, CompOrdinalType

\* A worker about to dispatch a step is the one that has finished the step before it: two
\* never dispatch beyond one another.
LEMMA OneDispatcher ==
    ASSUME IInv, OrderInv, TaskInv, LeadInv, NEW v \in Workers, NEW w \in Workers, v # w,
           pc[v] \in {"release", "halt"}, pc[w] \in Transit, R(v) = R(w), Standing(R(w)),
           nxt[v] \in Beyond(w)
    PROVE  FALSE
<1>1. /\ R(w) \in Requests /\ I(w) \in Ordinals /\ I(v) \in Ordinals
      /\ step[R(w)][I(w)] \in FinishedStep /\ step[R(w)][I(v)] \in FinishedStep
  BY DrivenStep DEF Driving, Transit
<1>2. nxt[v] = I(v) + 1 /\ \A k \in Ordinals : k > I(v) => step[R(w)][k] \in {"pending", Absent}
  BY DEF LeadInv, Leads, Transit, Beyond
<1>3. I(v) # I(w)
  BY DEF LeadInv, OneDriver, Driving, Transit
<1>4. ~(I(w) > I(v))
  BY <1>1, <1>2 DEF FinishedStep, Absent
<1>5. I(v) > I(w)
  BY <1>1, <1>3, <1>4 DEF Ordinals
<1>6. \A k \in Beyond(w) : step[R(w)][k] \in {"pending", Absent}
  BY DEF LeadInv, Leads
<1>7. I(v) \notin Beyond(w)
  BY <1>1, <1>6 DEF FinishedStep, Absent
<1>8. I(v) = nxt[w] /\ pc[w] \in {"enqueue", "follow"}
  BY <1>1, <1>5, <1>7 DEF Beyond
<1>9. CASE pc[w] = "enqueue"
  <2>1. step[R(w)][nxt[w]] = "ready"
    BY <1>1, <1>8, <1>9 DEF TaskInv, EnqueueHolds, Enqueues
  <2> QED BY <1>1, <1>8, <2>1 DEF FinishedStep
<1>10. CASE pc[w] = "follow"
  <2>1. step[R(w)][nxt[w]] = "awaiting_approval"
    BY <1>10 DEF LeadInv, Leads, Transit
  <2> QED BY <1>1, <1>8, <2>1 DEF FinishedStep
<1> QED BY <1>8, <1>9, <1>10

\* While a worker is between two steps nobody moves a step beyond.
LEMMA BeyondStays ==
    ASSUME IInv, OrderInv, TaskInv, LeadInv, [Next]_vars, NEW w \in Workers, pc[w] \in Transit,
           NEW r \in Requests, R(w) = r, Standing(r), Standing(r)', pc'[w] = pc[w], NEW k \in Beyond(w)
    PROVE  step'[r][k] = step[r][k]
<1>1. I(w) \in Ordinals /\ k \in Ordinals /\ k > I(w) /\ request[r] # Absent
  BY BusyJob DEF Beyond, IInv, TypeOK, WorkerLocals, LocalsOf, Transit
<1>2. step[r][k] \in {"pending", Absent}
  BY DEF LeadInv, Leads
<1>3. k > CompOrdinal(r) => step'[r][k] = Absent
  BY <1>1, DocumentsStep DEF Preserved, DocumentExists, CompOrdinal
<1>4. /\ step[r][CompOrdinal(r)] = Absent /\ step'[r][CompOrdinal(r)] = Absent
      /\ request'[r] # "cancelled"
  BY DEF Standing, Withdrawn, Compensating, CompOrdinal
<1>5. OrderEffect(r, k) /\ Effect(r, k)
  BY <1>1, OrderStep, EffectStep
<1>6. CASE step[r][k] = Absent
  <2>1. k = CompOrdinal(r) \/ k > CompOrdinal(r)
    BY <1>1, <1>6, CompOrdinalType DEF OrderInv, Sequenced
  <2>2. step'[r][k] = Absent
    BY <1>3, <1>4, <2>1
  <2> QED BY <1>6, <2>2
<1>7. ASSUME step[r][k] = "pending", step'[r][k] # "pending" PROVE FALSE
  <2>1. step'[r][k] \in StepStatus
    <3>1. step'[r][k] # Absent
      BY <1>5, <1>7 DEF Effect, Absent
    <3>2. TypeOK'
      BY InvariantStep DEF IInv
    <3> QED BY <1>1, <3>1, <3>2 DEF TypeOK, StoreTypes
  <2>2. step'[r][k] # "skipped"
    <3>1. ~Compensating(r)'
      BY <1>4 DEF Compensating, CompOrdinal, Absent
    <3> QED BY <1>4, <1>5, <1>7, <3>1 DEF OrderEffect, MovesTo, Undispatched
  <2>3. k # 1 /\ k # CompOrdinal(r)
    <3>1. k # 1
      BY <1>1 DEF Ordinals
    <3>2. k # CompOrdinal(r)
      BY <1>4, <1>7 DEF Absent
    <3> QED BY <3>1, <3>2
  <2>4. Dispatcher(r, k)
    BY <1>5, <1>7, <2>1, <2>2, <2>3 DEF OrderEffect, MovesTo, Dispatched, StepStatus
  <2>5. PICK v \in Workers : /\ pc[v] \in {"release", "halt"} /\ R(v) = r /\ nxt[v] = k
                             /\ pc'[v] \notin {"release", "halt"}
    BY <2>4 DEF Dispatcher
  <2>6. v # w
    BY <2>5
  <2> QED BY <2>5, <2>6, OneDispatcher
<1> QED BY <1>2, <1>6, <1>7
\* Until its second transaction has run, nobody decides a halt nor ends its request.
LEMMA FollowStays ==
    ASSUME IInv, OrderInv, FailInv, TaskInv, LeadInv, [Next]_vars, NEW w \in Workers, pc[w] = "follow",
           NEW r \in Requests, R(w) = r, Standing(r), Standing(r)', pc'[w] = pc[w]
    PROVE  request'[r] = "running" /\ step'[r][nxt[w]] = "awaiting_approval"
<1> DEFINE i == nxt[w]
<1>1. /\ request[r] = "running" /\ step[r][i] = "awaiting_approval" /\ i = I(w) + 1
      /\ I(w) \in Ordinals /\ i \in Ordinals
  BY BusyJob DEF LeadInv, Leads, Transit, IInv, TypeOK, WorkerLocals, LocalsOf
<1>2. request'[r] # "cancelled" /\ ~Compensating(r)'
  BY DEF Standing, Withdrawn
<1> HIDE DEF i
<1>3. step'[r][i] = "awaiting_approval"
  BY <1>1, <1>2, OrderStep DEF OrderEffect, MovesTo
<1>4. /\ \A v \in Workers : R(v) = r => pc[v] \notin {"finish", "failRequest"}
      /\ \A j \in Ordinals : step[r][j] \in {"failed", "awaiting_approval"} => j = i
  BY <1>1, HaltedNotEnded
<1>5. ASSUME NEW v \in Workers, FollowHalt(v), R(v) = r PROVE FALSE
  <2>1. pc[v] = "follow" /\ v # w
    BY <1>5 DEF FollowHalt, Goto, IInv, TypeOK, WorkerTypes
  <2>2. /\ step[r][nxt[v]] = "awaiting_approval" /\ nxt[v] = I(v) + 1
        /\ I(v) \in Ordinals /\ nxt[v] \in Ordinals
    BY <1>5, <2>1, BusyJob DEF LeadInv, Leads, Transit, IInv, TypeOK, WorkerLocals, LocalsOf
  <2>3. I(v) = I(w)
    BY <1>1, <1>4, <2>2 DEF Ordinals
  <2> QED BY <1>5, <2>1, <2>3 DEF LeadInv, OneDriver, Driving, Transit
<1>6. request'[r] = "running"
  BY <1>1, <1>2, <1>4, <1>5, RequestMovesStep DEF RequestMove, FinishRequest, FailRequest, Absent
<1> QED BY <1>3, <1>6 DEF i

\* A halt finds its request running.
LEMMA HaltRuns ==
    ASSUME IInv, OrderInv, FailInv, LeadInv, NEW w \in Workers, pc[w] = "halt",
           NEW r \in Requests, R(w) = r, Standing(r), step[r][nxt[w]] = "pending"
    PROVE  request[r] = "running"
<1>1. /\ I(w) \in Ordinals /\ nxt[w] \in Ordinals /\ request[r] # Absent
      /\ step[r][I(w)] \in FinishedStep /\ InOrder(r, I(w)) /\ InOrder(r, nxt[w])
  BY BusyJob DEF OrderInv, Holds, Advancing, IInv, TypeOK, WorkerLocals, LocalsOf
<1>2. request[r] \notin TerminalRequestStatus
  BY <1>1, EndedPends DEF LeadInv
<1>3. request[r] # "draft"
  BY <1>1 DEF OrderInv, Drafted, FinishedStep, Absent
<1>4. request[r] # "awaiting_approval"
  <2> SUFFICES ASSUME NEW k \in Ordinals, step[r][k] = "awaiting_approval" PROVE FALSE
    BY DEF LeadInv, Awaits, Standing, Withdrawn
  <2>1. ~(k > I(w))
    BY DEF LeadInv, Leads, Transit, Beyond, Absent
  <2>2. k # I(w)
    BY <1>1 DEF FinishedStep
  <2>3. k \in 1..(I(w) - 1)
    BY <1>1, <2>1, <2>2 DEF Ordinals
  <2> QED BY <1>1, <2>3 DEF InOrder, FinishedStep, Standing, Withdrawn
<1>5. request[r] \in RequestStatus
  BY <1>1 DEF IInv, TypeOK, StoreTypes
<1> QED BY <1>2, <1>3, <1>4, <1>5 DEF LeadInv, TerminalRequestStatus, RequestStatus

\* A step that was just settled has nothing dispatched beyond it.
LEMMA SettledLeads ==
    ASSUME IInv, OrderInv, LeadInv, NEW r \in Requests, Standing(r), request[r] # Absent,
           NEW i \in Ordinals, step[r][i] = "running", NEW k \in Ordinals, k > i
    PROVE  step[r][k] \in {"pending", Absent}
<1>1. i \in 1..(k - 1)
  BY DEF Ordinals
<1>2. ~InOrder(r, k)
  BY <1>1 DEF InOrder, FinishedStep, Standing, Withdrawn
<1>3. step[r][k] \notin Dispatched /\ step[r][k] # "skipped"
  BY <1>2, DispatchedInOrder DEF LeadInv
<1> QED BY <1>3 DEF Dispatched, IInv, TypeOK, StoreTypes, StepStatus
LEMMA LeadsStep ==
    ASSUME IInv, OrderInv, FailInv, TaskInv, LeadInv, [Next]_vars, NEW w \in Workers
    PROVE  Leads(w)'
<1> SUFFICES ASSUME pc'[w] \in Transit, (Standing(R(w)))' PROVE Leads(w)'
  BY DEF Leads
<1>1. R(w)' = R(w) /\ I(w)' = I(w)
  BY TransitMoves
<1>2. pc[w] \in Driving
  BY ComesToDrive, TransitMoves DEF Driving, Transit, SettleStep, AdvanceReadRequest, AdvanceReadSteps,
                                    ReleaseStep, Halts, HaltStep
<1>3. PICK r \in Requests : R(w) = r
  BY <1>2, DrivenStep
<1>4. PICK i \in Ordinals : I(w) = i
  BY <1>2, DrivenStep
<1>5. Standing(r)'
  BY <1>1, <1>3 DEF Standing, Withdrawn, Compensating, CompOrdinal
<1>6. Standing(r) /\ request[r] # Absent /\ ~Compensating(r)
  <2>1. request[r] # Absent
    BY <1>2, <1>3 DEF IInv, WorkerLocals, LocalsOf, Driving, Transit
  <2> QED BY <1>5, <2>1, StandingBefore DEF Standing, Withdrawn
<1>7. \A k \in Beyond(w) : pc[w] \in Transit => step[r][k] \in {"pending", Absent}
  BY <1>3, <1>6 DEF LeadInv, Leads
<1>8. /\ i \in Nat /\ \A k \in Ordinals : k \in Nat
      /\ \A k \in Ordinals : k \in Beyond(w) <=> k > i /\ ~(k = nxt[w] /\ pc[w] \in {"enqueue", "follow"})
  BY <1>4 DEF Beyond, Ordinals
<1> SUFFICES /\ pc'[w] \in {"release", "halt", "enqueue", "follow"}
                   => nxt'[w] = i + 1 /\ step'[r][nxt'[w]] # Absent
             /\ \A k \in Ordinals :
                   k > i => \/ step'[r][k] \in {"pending", Absent}
                            \/ k = nxt'[w] /\ pc'[w] \in {"enqueue", "follow"}
             /\ pc'[w] = "follow" => request'[r] = "running" /\ step'[r][nxt'[w]] = "awaiting_approval"
  BY <1>1, <1>3, <1>4 DEF Leads, Beyond, Absent, Ordinals
<1>9. CASE pc'[w] = pc[w] /\ nxt'[w] = nxt[w]
  <2>1. pc[w] \in {"release", "halt", "enqueue", "follow"} => nxt[w] = i + 1 /\ step'[r][nxt[w]] # Absent
    <3>1. pc[w] \in {"release", "halt", "enqueue", "follow"}
            => nxt[w] = i + 1 /\ nxt[w] \in Ordinals /\ step[r][nxt[w]] # Absent
      BY <1>3, <1>4, <1>6 DEF LeadInv, Leads, Transit, IInv, WorkerLocals, LocalsOf
    <3> QED BY <3>1, EffectStep DEF Effect
  <2>2. \A k \in Beyond(w) : step'[r][k] = step[r][k]
    BY <1>3, <1>5, <1>6, <1>9, BeyondStays
  <2>3. pc[w] = "follow" => request'[r] = "running" /\ step'[r][nxt[w]] = "awaiting_approval"
    BY <1>3, <1>5, <1>6, <1>9, FollowStays
  <2> QED BY <1>7, <1>8, <1>9, <2>1, <2>2, <2>3
<1>10. CASE SettleStep(w) /\ pc'[w] = "advance"
  <2>1. step[r][i] = "running"
    BY <1>3, <1>4, <1>10, DrivenStep DEF SettleStep, Driving
  <2>2. step' = [step EXCEPT ![r][i] = out[w]]
    BY <1>3, <1>4, <1>10, <2>1 DEF SettleStep
  <2>3. \A k \in Ordinals : k > i => step'[r][k] \in {"pending", Absent}
    <3> SUFFICES ASSUME NEW k \in Ordinals, k > i PROVE step'[r][k] \in {"pending", Absent}
      OBVIOUS
    <3>1. step'[r][k] = step[r][k]
      BY <1>8, <2>2 DEF IInv, TypeOK, StoreTypes
    <3> QED BY <1>6, <2>1, <3>1, SettledLeads
  <2> QED BY <1>10, <2>3
<1>11. CASE AdvanceReadRequest(w) /\ pc'[w] = "plan"
  <2>1. step' = step /\ pc[w] = "advance"
    BY <1>11 DEF AdvanceReadRequest, storeVars
  <2> QED BY <1>7, <1>8, <1>11, <2>1 DEF Transit
<1>12. CASE AdvanceReadSteps(w)
  <2>1. step' = step /\ pc[w] = "plan"
    BY <1>12 DEF AdvanceReadSteps, storeVars
  <2>2. \A k \in Ordinals : k > i => step[r][k] \in {"pending", Absent}
    BY <1>7, <1>8, <2>1 DEF Transit
  <2>3. ASSUME NEW j \in Unfinished(r, i), \A k \in Unfinished(r, i) : j <= k,
               nxt'[w] = j, pc'[w] = NextMove(r, j)
        PROVE  j = i + 1 /\ pc'[w] \in {"release", "halt"} /\ step[r][j] # Absent
    <3>1. j \in Ordinals /\ j > i /\ step[r][j] = "pending"
      BY <2>2, <2>3 DEF Unfinished
    <3>2. pc'[w] \in {"release", "halt"}
      BY <2>3, <3>1 DEF NextMove
    <3>3. j \in 1..Len(Plan[r])
      BY <1>6, <3>1, StepsOfPlan DEF Absent
    <3>4. i + 1 \in 1..Len(Plan[r]) /\ i + 1 \in Ordinals /\ i + 1 > i
      BY <3>1, <3>3, PlanAssumption, ConstantsAssumption DEF Ordinals
    <3>5. step[r][i + 1] # Absent
      BY <1>6, <3>4, StepsOfPlan
    <3>6. step[r][i + 1] = "pending"
      BY <2>2, <3>4, <3>5
    <3>7. i + 1 \in Unfinished(r, i)
      BY <3>4, <3>6 DEF Unfinished, FinishedStep, Absent
    <3>8. j <= i + 1
      BY <2>3, <3>7
    <3> QED BY <1>8, <3>1, <3>2, <3>8 DEF Absent
  <2>4. \/ pc'[w] = "finish"
        \/ \E j \in Unfinished(r, i) : /\ \A k \in Unfinished(r, i) : j <= k
                                       /\ nxt'[w] = j /\ pc'[w] = NextMove(r, j)
    BY <1>3, <1>4, <1>12 DEF AdvanceReadSteps, Goto, IInv, TypeOK, WorkerTypes
  <2> QED BY <2>1, <2>2, <2>3, <2>4
<1>13. CASE /\ ReleaseStep(w) /\ pc'[w] = "enqueue" /\ nxt'[w] = nxt[w]
            /\ step' = [step EXCEPT ![R(w)][nxt[w]] = "ready"]
  <2>1. pc[w] = "release"
    BY <1>13 DEF ReleaseStep
  <2>2. nxt[w] = i + 1 /\ nxt[w] \in Ordinals
    BY <1>3, <1>4, <1>6, <2>1 DEF LeadInv, Leads, Transit, IInv, WorkerLocals, LocalsOf
  <2>3. /\ step'[r][nxt[w]] # Absent
        /\ \A k \in Ordinals : k # nxt[w] => step'[r][k] = step[r][k]
    BY <1>3, <1>13, <2>2 DEF IInv, TypeOK, StoreTypes, Absent
  <2> QED BY <1>7, <1>8, <1>13, <2>1, <2>2, <2>3 DEF Transit
<1>14. CASE Halts(w, R(w), nxt[w]) /\ nxt'[w] = nxt[w]
  <2>1. pc[w] = "halt" /\ pc'[w] = "follow" /\ request' = request /\ step[r][nxt[w]] = "pending"
    BY <1>3, <1>14 DEF Halts, HaltStep
  <2>2. step' = [step EXCEPT ![r][nxt[w]] = "awaiting_approval"]
    BY <1>3, <1>14, <2>1 DEF Halts, HaltStep
  <2>3. nxt[w] = i + 1 /\ nxt[w] \in Ordinals
    BY <1>3, <1>4, <1>6, <2>1 DEF LeadInv, Leads, Transit, IInv, WorkerLocals, LocalsOf
  <2>4. /\ step'[r][nxt[w]] = "awaiting_approval"
        /\ \A k \in Ordinals : k # nxt[w] => step'[r][k] = step[r][k]
    BY <2>2, <2>3 DEF IInv, TypeOK, StoreTypes
  <2>5. request[r] = "running"
    BY <1>3, <1>6, <2>1, HaltRuns
  <2> QED BY <1>7, <1>8, <1>14, <2>1, <2>3, <2>4, <2>5 DEF Transit, Absent
<1> QED BY <1>9, <1>10, <1>11, <1>12, <1>13, <1>14, TransitMoves

\* A request that awaits approval has a halted step; while it stands, nothing is skipped
\* out of turn.
LEMMA AwaitsStep ==
    ASSUME IInv, OrderInv, LeadInv, [Next]_vars, NEW r \in Requests
    PROVE  Awaits(r)'
<1> SUFFICES ASSUME request'[r] = "awaiting_approval", ~Compensating(r)'
             PROVE  \E i \in Ordinals : step'[r][i] = "awaiting_approval"
  BY DEF Awaits
<1>1. Standing(r)' /\ Standing(r) /\ ~Compensating(r)
  <2>1. Standing(r)'
    BY DEF Standing, Withdrawn
  <2> QED BY <2>1, StandingBefore DEF Standing, Withdrawn
<1>2. CASE request[r] = "awaiting_approval"
  <2>1. PICK i \in Ordinals : step[r][i] = "awaiting_approval"
    BY <1>1, <1>2 DEF LeadInv, Awaits
  <2>2. step'[r][i] = "awaiting_approval"
    BY <2>1, OrderStep DEF OrderEffect, MovesTo
  <2> QED BY <2>2
<1>3. ASSUME NEW w \in Workers, FollowHalt(w), R(w) = r
      PROVE  \E i \in Ordinals : step'[r][i] = "awaiting_approval"
  <2>1. pc[w] = "follow" /\ step' = step /\ nxt[w] \in Ordinals
    BY <1>3 DEF FollowHalt, IInv, WorkerLocals, LocalsOf
  <2> QED BY <1>1, <1>3, <2>1 DEF LeadInv, Leads, Transit
<1>4. \A w \in Workers : out[w] # "awaiting_approval"
  BY DEF IInv, TypeOK, WorkerTypes
<1> QED BY <1>2, <1>3, <1>4, RequestMovesStep, CompOrdinalType DEF RequestMove, Decided, Absent

LEMMA SkippedStep ==
    ASSUME IInv, OrderInv, LeadInv, [Next]_vars, NEW r \in Requests, NEW i \in Ordinals,
           Standing(r)', step'[r][i] = "skipped"
    PROVE  InOrder(r, i)'
<1>1. Standing(r) /\ request'[r] # "cancelled" /\ ~Compensating(r)'
  BY StandingBefore DEF Standing, Withdrawn
<1>2. CASE step[r][i] = "skipped"
  BY <1>1, <1>2, InOrderKept DEF LeadInv
<1>3. ASSUME step[r][i] # "skipped" PROVE InOrder(r, i)
  <2>1. CASE step[r][i] = "succeeded"
    BY <2>1, DispatchedInOrder DEF Dispatched
  <2>2. ASSUME NEW w \in Workers, pc[w] = "settle", R(w) = r, I(w) = i PROVE InOrder(r, i)
    BY <2>2 DEF OrderInv, Holds, Claimed
  <2> QED BY <1>1, <1>3, <2>1, <2>2, OrderStep DEF OrderEffect, MovesTo, FinishedStep
<1> QED BY <1>2, <1>3, InOrderKept

LEMMA InitLeads == Init => LeadInv
BY DEF Init, LeadInv, Leads, OneDriver, Awaits, CancelledHolds, Transit, Driving, Absent

\* The worker that has finished a step is the only one to move the plan on (executor.ts,
\* claimStep; advance.ts), and a request that waits for a decision has a step to decide,
\* whatever is cancelled, resumed, retried, lost, delivered twice or killed.
THEOREM LeadInductive ==
    SlowSteps = FALSE /\ "throw" \notin FaultKinds => (Spec => []LeadInv)
<1> SUFFICES ASSUME SlowSteps = FALSE, "throw" \notin FaultKinds PROVE Spec => []LeadInv
  OBVIOUS
<1>1. IInv /\ OrderInv /\ FailInv /\ TaskInv /\ LeadInv /\ [Next]_vars => LeadInv'
  <2> SUFFICES ASSUME IInv, OrderInv, FailInv, TaskInv, LeadInv, [Next]_vars PROVE LeadInv'
    OBVIOUS
  <2>1. \A w \in Workers : Leads(w)'
    BY LeadsStep
  <2>2. \A v, w \in Workers : OneDriver(v, w)'
    BY OneDriverStep
  <2>3. \A r \in Requests : Awaits(r)' /\ request'[r] # "held" /\ CancelledHolds(r)'
    BY AwaitsStep, NotHeldStep, CancelledStep DEF LeadInv
  <2>4. \A r \in Requests, i \in Ordinals : Standing(r)' /\ step'[r][i] = "skipped" => InOrder(r, i)'
    BY SkippedStep
  <2> QED BY <2>1, <2>2, <2>3, <2>4 DEF LeadInv
<1> QED BY <1>1, InitLeads, OrderInductive, FailureInductive, TasksFollowDispatch, PTL DEF Spec

\* A request that awaits approval has a step that does, unless a compensation has
\* overtaken its plan (advance.ts, followHalt; store.ts, decideStep).
THEOREM AwaitingHasHalt ==
    SlowSteps = FALSE /\ "throw" \notin FaultKinds => (Spec => []AwaitingMatchesHalt)
<1> SUFFICES ASSUME SlowSteps = FALSE, "throw" \notin FaultKinds PROVE Spec => []AwaitingMatchesHalt
  OBVIOUS
<1>1. LeadInv => AwaitingMatchesHalt
  BY DEF LeadInv, Awaits, AwaitingMatchesHalt
<1> QED BY <1>1, LeadInductive, PTL

-----------------------------------------------------------------------------
(* What drives a running request *)

\* A worker that has settled a step and not yet done with it what the plan asks for; the
\* compensating step, once there is one.
Carries(w, r) ==
    /\ pc[w] \in {"advance", "plan", "finish", "release", "halt", "follow", "failing", "failRequest"}
    /\ R(w) = r
    /\ Compensating(r) => I(w) = CompOrdinal(r) /\ pc[w] \notin {"release", "halt", "follow"}

\* A step to be taken, or being taken; the compensating step, once there is one.
Takes(r, i) == step[r][i] \in {"ready", "running"} /\ (Compensating(r) => i = CompOrdinal(r))

DriveHolds(r) ==
    request[r] = "running" => \/ \E i \in Ordinals : Takes(r, i)
                              \/ \E w \in Workers : Carries(w, r)

DriveInv ==
    /\ \A r \in Requests, i \in Ordinals : step[r][i] = "running" => Executing(r, i)
    /\ \A r \in Requests : DriveHolds(r)

\* Where no instance dies and no call throws, a worker leaves a step by answering for it.
LEMMA LeavesExecution ==
    ASSUME FaultKinds \cap {"crash", "throw"} = {}, IInv, [Next]_vars, NEW w \in Workers,
           pc[w] \in {"exec", "mutate", "settle", "failing"}
    PROVE  /\ R(w)' = R(w) /\ I(w)' = I(w)
           /\ \/ pc'[w] \in {"exec", "mutate", "settle", "failing"}
              \/ SettleStep(w) /\ pc'[w] = "advance"
              \/ SettleFailure(w) /\ pc'[w] \in {"failRequest", "nack"}
                                  /\ (pc'[w] = "nack" => out[w] = "retryable")
<1> USE DEF IInv, TypeOK, WorkerTypes, Goto, R, I
<1>1. CASE Handler(w)
  BY <1>1 DEF Handler, ReadAccount, SuspendUser, UnsuspendUser, DeleteUser, CreateUser, OtherHandler,
              HandlerError, Handles, Yields
<1>2. ~CallThrows(w) /\ ~Crash(w)
  BY DEF CallThrows, Crash, Fault
<1>3. CASE Advance(w)
  BY <1>3
     DEF Advance, SettleStep, AdvanceReadRequest, AdvanceReadSteps, FinishRequest, FinishThrows,
         ReleaseStep, HaltStep, FollowHalt, EnqueueNotification, EnqueueExpiry, EnqueueNext,
         SettleFailure, FailRequest, Answer200, Answer500
<1> QED BY <1>1, <1>2, <1>3, WorkerMoves

\* A running step has somebody who answers for it.
LEMMA ExecutingStep ==
    ASSUME FaultKinds \cap {"crash", "throw"} = {}, IInv, OrderInv, DriveInv, [Next]_vars,
           NEW r \in Requests, NEW i \in Ordinals, step'[r][i] = "running"
    PROVE  Executing(r, i)'
<1>1. CASE step[r][i] = "running"
  <2>1. PICK w \in Workers : pc[w] \in {"exec", "mutate", "settle", "failing"} /\ R(w) = r /\ I(w) = i
    BY <1>1 DEF DriveInv, Executing
  <2>2. ASSUME SettleStep(w) PROVE FALSE
    <3>1. step'[r][i] = out[w] /\ out[w] \in FinishedStep
      BY <1>1, <2>1, <2>2 DEF SettleStep, IInv, TypeOK, StoreTypes, WorkerLocals, LocalsOf
    <3> QED BY <3>1 DEF FinishedStep
  <2>3. ~SettleFailure(w)
    BY <1>1, <2>1 DEF SettleFailure, IInv, TypeOK, StoreTypes
  <2> QED BY <2>1, <2>2, <2>3, LeavesExecution DEF Executing
<1>2. CASE step[r][i] # "running"
  <2>1. step[r][i] = "ready"
    BY <1>2, OrderStep DEF OrderEffect, MovesTo
  <2>2. PICK w \in Workers, t \in queue : ClaimStep(w, t) /\ t.req = r /\ t.ord = i
    BY <2>1, OrderStep DEF OrderEffect, MovesTo
  <2>3. pc'[w] = "exec" /\ R(w)' = r /\ I(w)' = i
    BY <2>2 DEF ClaimStep, Goto, R, I, IInv, TypeOK, WorkerTypes
  <2> QED BY <2>3 DEF Executing
<1> QED BY <1>1, <1>2

\* A step that is being taken becomes the business of the worker that settles it.
LEMMA TakenStep ==
    ASSUME FaultKinds \cap {"crash", "throw"} = {}, IInv, OrderInv, NoRetry, DriveInv, [Next]_vars,
           NEW r \in Requests, NEW i \in Ordinals, Takes(r, i), Compensating(r)' => Compensating(r)
    PROVE  Takes(r, i)' \/ \E w \in Workers : Carries(w, r)'
<1>1. CompOrdinal(r)' = CompOrdinal(r)
  BY DEF CompOrdinal
<1>2. CASE step'[r][i] \in {"ready", "running"}
  BY <1>1, <1>2 DEF Takes
<1>3. CASE step[r][i] = "ready" /\ step'[r][i] # "ready"
  <2>1. PICK w \in Workers, t \in queue : ClaimStep(w, t) /\ t.req = r /\ t.ord = i
    BY <1>3, OrderStep DEF OrderEffect, MovesTo
  <2>2. step'[r][i] = "running"
    BY <2>1 DEF ClaimStep, IInv, TypeOK, StoreTypes
  <2> QED BY <1>2, <2>2
<1>4. CASE step[r][i] = "running" /\ step'[r][i] # "running"
  <2>1. PICK w \in Workers : /\ pc[w] \in {"settle", "failing"} /\ R(w) = r /\ I(w) = i
                             /\ pc'[w] \notin Claimed
    BY <1>4, OrderStep DEF OrderEffect, MovesTo, Settler
  <2>2. /\ R(w)' = r /\ I(w)' = i /\ pc'[w] \in {"advance", "failRequest"}
    BY <2>1, LeavesExecution DEF NoRetry, Claimed
  <2> QED BY <1>1, <2>1, <2>2 DEF Carries, Takes
<1> QED BY <1>2, <1>3, <1>4 DEF Takes
\* The moves of a worker that carries a request.
LEMMA LeavesCarrying ==
    ASSUME FaultKinds \cap {"crash", "throw"} = {}, IInv, [Next]_vars, NEW w \in Workers,
           pc[w] \in {"advance", "plan", "finish", "release", "halt", "follow", "failing", "failRequest"}
    PROVE  /\ R(w)' = R(w) /\ I(w)' = I(w)
           /\ \/ pc'[w] = pc[w]
              \/ AdvanceReadRequest(w) \/ AdvanceReadSteps(w) \/ FinishRequest(w)
              \/ FinishThrows(w) \/ ReleaseStep(w) \/ HaltStep(w) \/ FollowHalt(w)
              \/ SettleFailure(w) \/ FailRequest(w)
<1> USE DEF IInv, TypeOK, WorkerTypes, Goto, R, I
<1>1. ~CallThrows(w) /\ ~Crash(w) /\ ~Handler(w)
  BY DEF CallThrows, Crash, Fault, Handler, ReadAccount, SuspendUser, UnsuspendUser, DeleteUser,
         CreateUser, OtherHandler, HandlerError, Handles
<1>2. CASE Advance(w)
  BY <1>2
     DEF Advance, SettleStep, AdvanceReadRequest, AdvanceReadSteps, FinishRequest, FinishThrows,
         ReleaseStep, HaltStep, FollowHalt, EnqueueNotification, EnqueueExpiry, EnqueueNext,
         SettleFailure, FailRequest, Answer200, Answer500
<1> QED BY <1>1, <1>2, WorkerMoves

\* What a worker carries it hands on: to its next move, or to the step it has released.
LEMMA CarriedStep ==
    ASSUME FaultKinds \cap {"crash", "throw"} = {}, IInv, OrderInv, LeadInv, NoRetry, [Next]_vars,
           NEW r \in Requests, request[r] = "running", request'[r] = "running",
           Compensating(r)' => Compensating(r), NEW w \in Workers, Carries(w, r)
    PROVE  (\E i \in Ordinals : Takes(r, i)') \/ Carries(w, r)'
<1>1. R(w) = r /\ R(w)' = r /\ I(w)' = I(w) /\ I(w) \in Ordinals /\ CompOrdinal(r)' = CompOrdinal(r)
  BY LeavesCarrying, BusyJob DEF Carries, CompOrdinal, IInv, TypeOK
<1> DEFINE Going == {"advance", "plan", "finish", "failing", "failRequest"}
<1>2. ASSUME pc'[w] \in Going PROVE Carries(w, r)'
  <2>1. Compensating(r)' => I(w)' = CompOrdinal(r)
    BY <1>1 DEF Carries
  <2> QED BY <1>1, <1>2, <2>1 DEF Carries
<1>3. CASE pc'[w] = pc[w]
  BY <1>1, <1>3 DEF Carries
<1>4. ~FinishRequest(w) /\ ~FailRequest(w) /\ ~FollowHalt(w)
  <2>1. request'[r] = IF FinishRequest(w) THEN out[w] ELSE request'[r]
    BY <1>1 DEF FinishRequest, MoveRequest, IInv, TypeOK, StoreTypes
  <2>2. out[w] # "running"
    BY DEF IInv, TypeOK, WorkerTypes
  <2>3. ~FailRequest(w) /\ ~FollowHalt(w)
    BY <1>1 DEF FailRequest, FollowHalt, MoveRequest, IInv, TypeOK, StoreTypes
  <2> QED BY <2>1, <2>2, <2>3
<1>5. CASE AdvanceReadRequest(w)
  <2>1. ~Terminal(r)
    BY DEF Terminal, TerminalRequestStatus
  <2>2. pc'[w] = "plan"
    BY <1>1, <1>5, <2>1 DEF AdvanceReadRequest, Goto, IInv, TypeOK, WorkerTypes
  <2> QED BY <1>2, <2>2
<1>6. CASE FinishThrows(w)
  <2>1. pc'[w] = "failing"
    BY <1>6 DEF FinishThrows, Goto, IInv, TypeOK, WorkerTypes
  <2> QED BY <1>2, <2>1
<1>7. CASE SettleFailure(w)
  <2>1. pc'[w] = "failRequest"
    BY <1>7 DEF SettleFailure, NoRetry, Goto, IInv, TypeOK, WorkerTypes
  <2> QED BY <1>2, <2>1
<1>8. CASE AdvanceReadSteps(w)
  <2>1. pc[w] = "plan" /\ step' = step
    BY <1>8 DEF AdvanceReadSteps, storeVars
  <2>2. \/ pc'[w] = "finish"
        \/ \E j \in Unfinished(r, I(w)) : pc'[w] = NextMove(r, j)
    BY <1>1, <1>8 DEF AdvanceReadSteps, Goto, IInv, TypeOK, WorkerTypes
  <2>3. ASSUME NEW j \in Unfinished(r, I(w)), pc'[w] = NextMove(r, j) PROVE Carries(w, r)'
    <3>1. j \in Ordinals /\ j > I(w) /\ step[r][j] \notin FinishedStep \cup {Absent}
      BY <2>3 DEF Unfinished
    <3>2. ~Compensating(r)
      <4> SUFFICES ASSUME Compensating(r) PROVE FALSE
        OBVIOUS
      <4>1. j > CompOrdinal(r)
        BY <3>1 DEF Carries
      <4> QED BY <3>1, <4>1 DEF IInv, DocumentExists
    <3>3. Standing(r)
      BY <3>2 DEF Standing, Withdrawn
    <3>4. step[r][j] = "pending"
      BY <1>1, <2>1, <3>1, <3>3 DEF LeadInv, Leads, Transit, Beyond
    <3>5. pc'[w] \in {"release", "halt"}
      BY <2>3, <3>4 DEF NextMove
    <3> QED BY <1>1, <3>2, <3>5 DEF Carries
  <2> QED BY <1>2, <2>2, <2>3
<1>9. ASSUME pc[w] \in {"release", "halt"}
      PROVE  ~Compensating(r) /\ nxt[w] \in Ordinals /\ step[r][nxt[w]] = "pending"
  <2>1. ~Compensating(r)
    BY <1>9 DEF Carries
  <2>2. Standing(r)
    BY <2>1 DEF Standing, Withdrawn
  <2>3. nxt[w] \in Ordinals /\ I(w) \in Nat
    BY <1>1, <1>9 DEF IInv, WorkerLocals, LocalsOf, Ordinals
  <2>4. nxt[w] = I(w) + 1 /\ step[r][nxt[w]] # Absent
    BY <1>1, <1>9, <2>2 DEF LeadInv, Leads, Transit
  <2>5. nxt[w] \in Beyond(w)
    BY <1>9, <2>3, <2>4 DEF Beyond
  <2> QED BY <1>1, <1>9, <2>1, <2>2, <2>3, <2>4, <2>5 DEF LeadInv, Leads, Transit
<1>10. CASE ReleaseStep(w)
  <2>1. pc[w] = "release"
    BY <1>10 DEF ReleaseStep
  <2>2. step'[r][nxt[w]] = "ready"
    BY <1>1, <1>9, <1>10, <2>1 DEF ReleaseStep, IInv, TypeOK, StoreTypes
  <2> QED BY <1>9, <2>1, <2>2 DEF Takes
<1>11. CASE HaltStep(w)
  <2>1. pc[w] = "halt"
    BY <1>11 DEF HaltStep
  <2>2. pc'[w] = "follow"
    BY <1>1, <1>9, <1>11, <2>1 DEF HaltStep, Goto, IInv, TypeOK, WorkerTypes
  <2> QED BY <1>1, <1>9, <2>1, <2>2 DEF Carries
<1> QED BY <1>3, <1>4, <1>5, <1>6, <1>7, <1>8, <1>10, <1>11, LeavesCarrying DEF Carries

\* A request that comes to run has a step to be taken.
LEMMA ComesToRun ==
    ASSUME MaxResumes = 0 \/ Cancellers = {}, GateInv, OrderInv, FailInv, [Next]_vars,
           NEW r \in Requests, request[r] # "running", request'[r] = "running"
    PROVE  \E i \in Ordinals : Takes(r, i)'
<1>1. CompOrdinal(r)' = CompOrdinal(r) /\ CompOrdinal(r) \in Ordinals /\ 1 \in Ordinals /\ IInv
  BY CompOrdinalType DEF CompOrdinal, GateInv
<1>2. CASE Compensating(r)' /\ ~Compensating(r)
  <2>1. step'[r][CompOrdinal(r)] = "ready"
    BY <1>1, <1>2, RequestStep DEF RequestEffect
  <2> QED BY <1>1, <2>1 DEF Takes
<1>3. CASE step'[r][CompOrdinal(r)] = "ready"
  BY <1>1, <1>3 DEF Takes
<1>4. ASSUME NEW i \in Ordinals, step'[r][i] = "ready", ~Compensating(r), ~(Compensating(r)' /\ ~Compensating(r))
      PROVE  \E k \in Ordinals : Takes(r, k)'
  BY <1>4 DEF Takes
<1>5. CASE Compensating(r)
  <2>1. MaxResumes = 0
    BY <1>5 DEF GateInv, NoCompensation
  <2>2. \A i \in Ordinals : step[r][i] \notin Undispatched
    BY <1>5 DEF OrderInv, Sequenced
  <2>3. step[r][CompOrdinal(r)] # Absent
    BY <1>5 DEF Compensating
  <2>4. request[r] # "draft"
    BY <1>1, <2>2, <2>3 DEF OrderInv, Drafted, Undispatched
  <2>5. \A w \in Workers : out[w] # "running"
    BY <1>1 DEF IInv, TypeOK, WorkerTypes
  <2> QED BY <1>1, <1>3, <2>1, <2>2, <2>4, <2>5, RequestMovesStep DEF RequestMove, Decided, Undispatched, Absent
<1>6. CASE ~Compensating(r)
  <2>1. \A w \in Workers : out[w] # "running"
    BY <1>1 DEF IInv, TypeOK, WorkerTypes
  <2>2. \E i \in Ordinals : step'[r][i] = "ready"
    BY <1>1, <2>1, RequestMovesStep DEF RequestMove, Decided, Absent
  <2> QED BY <1>2, <1>4, <1>6, <2>2
<1> QED BY <1>5, <1>6

LEMMA DriveHoldsStep ==
    ASSUME FaultKinds \cap {"crash", "throw"} = {}, MaxResumes = 0 \/ Cancellers = {},
           GateInv, OrderInv, FailInv, LeadInv, NoRetry, DriveInv, [Next]_vars, NEW r \in Requests
    PROVE  DriveHolds(r)'
<1> SUFFICES ASSUME request'[r] = "running"
             PROVE  (\E i \in Ordinals : Takes(r, i)') \/ \E w \in Workers : Carries(w, r)'
  BY DEF DriveHolds
<1>1. IInv /\ CompOrdinal(r)' = CompOrdinal(r) /\ CompOrdinal(r) \in Ordinals
  BY CompOrdinalType DEF GateInv, CompOrdinal
<1>2. CASE Compensating(r)' /\ ~Compensating(r)
  <2>1. step'[r][CompOrdinal(r)] = "ready"
    BY <1>1, <1>2, RequestStep DEF RequestEffect
  <2> QED BY <1>1, <2>1 DEF Takes
<1>3. CASE request[r] # "running"
  BY <1>3, ComesToRun
<1>4. CASE request[r] = "running" /\ (Compensating(r)' => Compensating(r))
  <2>1. ASSUME NEW i \in Ordinals, Takes(r, i)
        PROVE  Takes(r, i)' \/ \E w \in Workers : Carries(w, r)'
    BY <1>1, <1>4, <2>1, TakenStep
  <2>2. ASSUME NEW w \in Workers, Carries(w, r)
        PROVE  (\E i \in Ordinals : Takes(r, i)') \/ Carries(w, r)'
    BY <1>1, <1>4, <2>2, CarriedStep
  <2> QED BY <1>4, <2>1, <2>2 DEF DriveInv, DriveHolds
<1> QED BY <1>2, <1>3, <1>4

\* A running request always has something that will move it: a step with a task, or a worker
\* (executor.ts; advance.ts; store.ts, appendCompensatingStep), where nothing is lost or fails
\* but by a handler's own terminal error, and a resume never meets a compensation.
THEOREM RunningHasDriver ==
    /\ SlowSteps = FALSE /\ FaultKinds \subseteq {"duplicate"} /\ "retryable" \notin HandlerFaults
    /\ MaxResumes = 0 \/ Cancellers = {}
    => (Spec => []RunningIsDriven)
<1> SUFFICES ASSUME SlowSteps = FALSE, FaultKinds \subseteq {"duplicate"}, "retryable" \notin HandlerFaults,
                    MaxResumes = 0 \/ Cancellers = {}
             PROVE  Spec => []RunningIsDriven
  OBVIOUS
<1>1. Init => DriveInv
  BY DEF Init, DriveInv, DriveHolds, Absent
<1>2. FaultKinds \cap {"crash", "throw"} = {} /\ "throw" \notin FaultKinds
  OBVIOUS
<1>3. GateInv /\ OrderInv /\ FailInv /\ LeadInv /\ ReadyInv /\ DriveInv /\ [Next]_vars => DriveInv'
  <2> SUFFICES ASSUME GateInv, OrderInv, FailInv, LeadInv, NoRetry, DriveInv, [Next]_vars PROVE DriveInv'
    BY DEF ReadyInv
  <2>1. \A r \in Requests, i \in Ordinals : step'[r][i] = "running" => Executing(r, i)'
    BY <1>2, ExecutingStep DEF GateInv
  <2> QED BY <1>2, <2>1, DriveHoldsStep DEF DriveInv
<1>4. ReadyInv /\ DriveInv => RunningIsDriven
  <2> SUFFICES ASSUME ReadyInv, DriveInv, NEW r \in Requests, request[r] = "running" PROVE Driven(r)
    BY DEF RunningIsDriven
  <2>1. ASSUME NEW i \in Ordinals, step[r][i] = "ready" PROVE Driven(r)
    <3>1. ASSUME NEW n \in 0..MaxResumes, ExecuteTask(r, i, n) \in queue \cup owed PROVE Driven(r)
      <4>1. ExecuteTask(r, i, n).kind = "execute" /\ ExecuteTask(r, i, n).req = r
        BY DEF ExecuteTask
      <4> QED BY <3>1, <4>1 DEF Driven
    <3>2. ASSUME NEW w \in Workers, Enqueues(w, r, i) PROVE Driven(r)
      BY <3>2 DEF Enqueues, Driven, Busy
    <3> QED BY <2>1, <3>1, <3>2 DEF ReadyInv, ReadyHolds
  <2>2. ASSUME NEW i \in Ordinals, step[r][i] = "running" PROVE Driven(r)
    BY <2>2 DEF DriveInv, Executing, Driven, Busy
  <2>3. ASSUME NEW w \in Workers, Carries(w, r) PROVE Driven(r)
    BY <2>3 DEF Carries, Driven, Busy
  <2> QED BY <2>1, <2>2, <2>3 DEF DriveInv, DriveHolds, Takes
<1> QED BY <1>1, <1>2, <1>3, <1>4, GateInductive, OrderInductive, FailureInductive, LeadInductive,
           ReadyInductive, PTL DEF Spec
=============================================================================
