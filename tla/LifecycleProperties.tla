------------------------ MODULE LifecycleProperties ------------------------
(***************************************************************************)
(* What the engine promises, as invariants, action properties and liveness *)
(* properties of Lifecycle.  Each is named and cited in README.md with the *)
(* runs that check it.                                                     *)
(***************************************************************************)
EXTENDS Lifecycle

Approval == [by : Humans, decision : {"approved", "rejected"}]

StoreTypes ==
    /\ request \in [Requests -> RequestStatus \cup {Absent}]
    /\ step \in [Requests -> [Ordinals -> StepStatus \cup {Absent}]]
    /\ approval \in [Requests -> [Ordinals -> Approval \cup {Undecided}]]
    /\ notice \in [Requests -> [Ordinals -> {"none", "outstanding", "sent", "suppressed"}]]
    /\ snapshot \in [Requests -> Policies]
    /\ policy \in Policies

EnvironmentTypes ==
    /\ account \in [Users -> AccountState]
    /\ suspendedBy \in [Users -> Requests \cup {NoRequest}]

ApiTypes ==
    /\ calls \subseteq [op : {"start", "cancel", "compensate"}, req : Requests]
    /\ owed \subseteq Task

QueueTypes ==
    /\ queue \subseteq Task
    /\ names \subseteq Task
    /\ tries \in [Task -> 0..QueueAttempts]

Label == {"idle", "exec", "mutate", "settle", "advance", "plan", "finish", "release",
          "enqueue", "halt", "follow", "notify", "expiry", "failing", "failRequest",
          "ack", "nack"}

\* A busy worker has a task to work on.
WorkerTypes ==
    /\ pc \in [Workers -> Label]
    /\ job \in [Workers -> Task \cup {NoTask}]
    /\ seen \in [Workers -> AccountState]
    /\ out \in [Workers -> {"none", "succeeded", "skipped", "cancelled",
                            "retryable", "terminal"}]
    /\ nxt \in [Workers -> {0} \cup Ordinals]
    /\ \A w \in Workers : pc[w] # "idle" => job[w] \in Task

BoundTypes ==
    /\ resumes \in [Requests -> 0..MaxResumes]
    /\ faults \in 0..MaxFaults

\* Every document, task and local of a worker has one of the shapes the code
\* gives it.
TypeOK ==
    /\ StoreTypes /\ EnvironmentTypes /\ ApiTypes /\ QueueTypes /\ WorkerTypes
    /\ BoundTypes

-----------------------------------------------------------------------------
(* Approval *)

Compensating(r) == step[r][CompOrdinal(r)] # Absent

Approved(r, i) ==
    /\ approval[r][i].decision = "approved"
    /\ approval[r][i].by # Requester[r]

\* What docs/approval-policy.md says needs a second person: a deletion, always,
\* and whatever the snapshot the request took marks.
NeedsApproval(r, i) ==
    LET name == NameOf(r, i)
    IN  \/ name \in MandatoryApprovalSteps
        \/ name \in DOMAIN snapshot[r] /\ snapshot[r][name].requiresApproval

\* A step that needs approval is released, run or done only after somebody
\* other than the requester approved it (policy.ts, decideStep).
TwoPartyApproval ==
    \A r \in Requests, i \in Ordinals :
        NeedsApproval(r, i) /\ step[r][i] \in {"ready", "running", "succeeded"} => Approved(r, i)

\* The same, with the one exception the code has: a request whose cancellation
\* appended a compensating step.
TwoPartyUnlessCompensated ==
    \A r \in Requests, i \in Ordinals :
        NeedsApproval(r, i) /\ step[r][i] \in {"ready", "running", "succeeded"}
            => Approved(r, i) \/ Compensating(r)

\* No account is deleted but by a step somebody other than the requester
\* approved (REQ-006 AC-3), whatever the store says of that step by then.
DeletionIsApproved ==
    [][\A u \in Users :
          account[u] # "absent" /\ account'[u] = "absent"
              => \E w \in Workers : /\ Handles(w, "delete-user") /\ Target[R(w)] = u
                                    /\ Approved(R(w), I(w))]_<<account, approval>>

-----------------------------------------------------------------------------
(* Order and exclusion *)

\* A step of the plan is dispatched, halted or done only when every step before
\* it is finished (nextUnfinished: "only a finished step may be stepped over").
PlanOrder ==
    \A r \in Requests : \A i \in 1..Len(Plan[r]) :
        step[r][i] \in {"awaiting_approval", "ready", "running", "succeeded"}
            => \/ \A j \in 1..(i - 1) : step[r][j] \in FinishedStep
               \/ Compensating(r)

\* A request is reported succeeded only when every step of it is finished.
SucceededIsComplete ==
    \A r \in Requests :
        request[r] = "succeeded" => \A i \in 1..Len(Plan[r]) : step[r][i] \in FinishedStep

\* Two deliveries never execute one step at the same time (claimStep).
ExclusiveExecution ==
    \A v, w \in Workers :
        /\ v # w
        /\ pc[v] \in {"exec", "mutate", "settle", "failing"}
        /\ pc[w] \in {"exec", "mutate", "settle", "failing"}
        => <<R(v), I(v)>> # <<R(w), I(w)>> \/ step[R(v)][I(v)] # "running"

InFlightRequest(r) == request[r] \in NonTerminalRequestStatus

\* One account is the target of at most one request in flight (createRequest,
\* REQ-001 AC-2), unless one of them was resumed: a resume looks for no conflict.
OneInFlightUnlessResumed ==
    \A q, r \in Requests :
        q # r /\ Target[q] = Target[r] /\ InFlightRequest(q) /\ InFlightRequest(r)
            => resumes[q] > 0 \/ resumes[r] > 0

\* Two requests act on one account at the same time only after a resume: the
\* admission guard serialises what the workers do, too.
OneWriterUnlessResumed ==
    \A v, w \in Workers :
        pc[v] = "mutate" /\ pc[w] = "mutate" /\ Target[R(v)] = Target[R(w)]
            => R(v) = R(w) \/ resumes[R(v)] > 0 \/ resumes[R(w)] > 0

\* Once a request is terminal no step of it that had not been dispatched is
\* released or halted (advance: "a terminal request dispatches nothing further").
TerminalDispatchesNothing ==
    [][\A r \in Requests, i \in Ordinals :
          request[r] \in TerminalRequestStatus /\ step[r][i] = "pending"
              => step'[r][i] \notin {"ready", "awaiting_approval"}]_<<request, step>>

\* A rejection, by a person or by the expiry, starts no step of the request ever
\* again: whatever task is still queued, and whatever a resume may find.
RejectionIsFinal ==
    [][\A r \in Requests :
          request[r] = "rejected" => /\ request'[r] = "rejected"
                                     /\ \A i \in Ordinals : step'[r][i] # "running"
      ]_<<request, step>>

-----------------------------------------------------------------------------
(* Nothing is lost between the two stores *)

Busy(r) == \E w \in Workers : pc[w] # "idle" /\ R(w) = r

\* Something in the system will still move the request.
Driven(r) ==
    \/ Busy(r)
    \/ \E t \in queue \cup owed : t.kind = "execute" /\ t.req = r
    \/ \E c \in calls : c.req = r

\* A request that says 'running' has somebody working on it or a task queued.
RunningIsDriven ==
    \A r \in Requests : request[r] = "running" => Driven(r)

\* A 'ready' step of a request in flight has a task, a dispatch owed to it, or
\* the worker that released it about to enqueue.
ReadyStepHasTask ==
    \A r \in Requests, i \in Ordinals :
        InFlightRequest(r) /\ step[r][i] = "ready"
            => \/ \E t \in queue \cup owed : t.kind = "execute" /\ t.req = r /\ t.ord = i
               \/ \E w \in Workers : pc[w] = "enqueue" /\ R(w) = r /\ nxt[w] = i

\* Somebody is between the halt of step i and what must follow it.
Following(r, i) ==
    \E w \in Workers : pc[w] \in {"follow", "notify", "expiry"} /\ R(w) = r /\ nxt[w] = i

\* A halted step belongs to a request that awaits approval, unless the halt's
\* second transaction is about to run: otherwise no decision on it is legal.
HaltIsDecidable ==
    \A r \in Requests, i \in Ordinals :
        step[r][i] = "awaiting_approval" /\ ~Following(r, i)
            => request[r] = "awaiting_approval"

\* A request awaits approval only while one of its steps does.
AwaitingMatchesHalt ==
    \A r \in Requests :
        request[r] = "awaiting_approval"
            => \/ \E i \in Ordinals : step[r][i] = "awaiting_approval"
               \/ Compensating(r)

\* The notification record of a halt is never stranded: a task or an enqueue
\* for it is under way, or a redelivery of the step before it is to come.
HaltIsDrained ==
    \A r \in Requests, i \in Ordinals :
        step[r][i] = "awaiting_approval" /\ notice[r][i] = "outstanding"
            => \/ NotifyTask(r, i) \in queue \cup owed
               \/ Following(r, i)
               \/ \E t \in queue : t.kind = "execute" /\ t.req = r /\ t.ord < i

-----------------------------------------------------------------------------
(* Cancelling an offboarding *)

\* A compensating step that reports itself done has given the account back, and
\* nothing the request still had queued takes it away again.
CompensationRestores ==
    \A r \in Requests :
        step[r][CompOrdinal(r)] \in FinishedStep => suspendedBy[Target[r]] # r

-----------------------------------------------------------------------------
(* Liveness.  What the processes do with what they hold is fair; what people  *)
(* and the failures do is not.                                                *)

Fairness ==
    /\ \A r \in Requests : WF_vars(ServeStart(r)) /\ WF_vars(ServeCancel(r))
    /\ \A t \in Task : WF_vars(EnqueueOwed(t)) /\ WF_vars(Deliver(t))
    /\ \A w \in Workers : WF_vars(Handler(w)) /\ WF_vars(Advance(w))

FairSpec == Spec /\ Fairness

\* A request that was started is driven until it ends or waits for a person.
RunningSettles ==
    \A r \in Requests :
        request[r] \in {"draft", "running"}
            ~> request[r] \in TerminalRequestStatus \cup {"awaiting_approval"}

\* The approvers of a halted step are told, unless it is decided before that.
HaltIsNotified ==
    \A r \in Requests, i \in Ordinals :
        step[r][i] = "awaiting_approval"
            ~> notice[r][i] = "sent" \/ step[r][i] # "awaiting_approval"

\* A halt whose policy expires never waits for ever.
ExpiringHaltEnds ==
    \A r \in Requests, i \in Ordinals :
        step[r][i] = "awaiting_approval" /\ PolicyOf(r, i).expires
            ~> step[r][i] # "awaiting_approval"

=============================================================================
