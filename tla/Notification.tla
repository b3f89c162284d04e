---------------------------- MODULE Notification ----------------------------
(***************************************************************************)
(* One outbound message: the notice to the approvers of a halted step       *)
(* (worker/notify/approvers.ts) or the welcome letter                       *)
(* (worker/phases/notify.ts, send-welcome-letter), sent through the one     *)
(* relay (worker/notify/sender.ts) and recorded on the step                 *)
(* (shared/store.ts, recordNotification). A queued task is delivered at     *)
(* least once and at most MaxAttempts times (infra/tasks.tf); the app       *)
(* password it is sent with is rotated underneath it (docs/runbook.md).     *)
(*                                                                         *)
(* A fault is what the queue, the instance, the relay or Firestore may do   *)
(* to a delivery: repeat it, kill it, lose an answer, refuse a call.        *)
(***************************************************************************)
EXTENDS Naturals, FiniteSets

CONSTANTS
    Deliveries,   \* deliveries of the task that may overlap
    Subjects,     \* who may hold the role the step's snapshotted policy asks for
    Requester,    \* the operator who submitted the request
    Hire,         \* the letter's addressee
    MaxAttempts,  \* queue_max_attempts
    MaxPasswords, MaxFaults \* bounds of the model

ASSUME NotificationAssumption ==
    /\ IsFiniteSet(Deliveries)
    /\ Requester \in Subjects /\ Hire \notin Subjects
    /\ MaxAttempts \in Nat \ {0} /\ MaxPasswords \in Nat \ {0} /\ MaxFaults \in Nat

VARIABLES
    kind,         \* which of the two messages this is
    awaiting,     \* the step still awaits what the message is about
    holders,      \* the subjects whose binding grants the role
    record,       \* the notification record of the step
    pending,      \* the queue holds the task
    attempts,     \* times the queue has delivered it
    pc, to, tries, \* of a delivery: its recipients, its submissions
    accepted,     \* the app passwords the relay takes
    secret,       \* the latest version in Secret Manager
    transporter,  \* the password the sender's connection was made with, 0 for none
    mails,        \* messages the relay has accepted
    faults

taskVars == <<pending, attempts>>
relayVars == <<accepted, secret>>
vars == <<kind, awaiting, holders, record, taskVars, pc, to, tries,
          relayVars, transporter, mails, faults>>

Passwords == 1..MaxPasswords

TypeOK ==
    /\ kind \in {"notice", "letter"}
    /\ awaiting \in BOOLEAN
    /\ holders \in SUBSET Subjects
    /\ record \in {"none", "sent", "failed", "suppressed", "nobody"}
    /\ pending \in BOOLEAN /\ attempts \in 0..MaxAttempts
    /\ pc \in [Deliveries -> {"idle", "read", "list", "suppress", "nobody", "send", "record", "fail"}]
    /\ to \in [Deliveries -> SUBSET (Subjects \cup {Hire})]
    /\ tries \in [Deliveries -> 0..1]
    /\ accepted \in SUBSET Passwords /\ secret \in Passwords
    /\ transporter \in {0} \cup Passwords
    /\ mails \in 0..(MaxFaults + 1)
    /\ faults \in 0..MaxFaults

Init ==
    /\ kind \in {"notice", "letter"}
    /\ awaiting = TRUE
    /\ holders \in SUBSET Subjects
    /\ record = "none"
    /\ pending = TRUE /\ attempts = 0
    /\ pc = [d \in Deliveries |-> "idle"]
    /\ to = [d \in Deliveries |-> {}]
    /\ tries = [d \in Deliveries |-> 0]
    /\ accepted = {1} /\ secret = 1 /\ transporter \in {0, 1}
    /\ mails = 0 /\ faults = 0

-----------------------------------------------------------------------------
\* What goes on around the message.

\* The halted step is approved, rejected, expired or cancelled.
StepMovesOn ==
    /\ kind = "notice" /\ awaiting
    /\ awaiting' = FALSE
    /\ UNCHANGED <<kind, holders, record, taskVars, pc, to, tries, relayVars, transporter, mails, faults>>

\* An admin edits a binding.
EditHolders ==
    /\ kind = "notice"
    /\ \E x \in Subjects : holders' \in {holders \cup {x}, holders \ {x}}
    /\ UNCHANGED <<kind, awaiting, record, taskVars, pc, to, tries, relayVars, transporter, mails, faults>>

\* The rotation: a new app password, then a new version of the secret, then the old
\* password is withdrawn.
NewPassword ==
    /\ accepted = {secret} /\ secret < MaxPasswords
    /\ accepted' = accepted \cup {secret + 1}
    /\ UNCHANGED <<kind, awaiting, holders, record, taskVars, pc, to, tries, secret, transporter, mails, faults>>

StoreSecret ==
    /\ secret + 1 \in accepted
    /\ secret' = secret + 1
    /\ UNCHANGED <<kind, awaiting, holders, record, taskVars, pc, to, tries, accepted, transporter, mails, faults>>

WithdrawOld ==
    /\ secret \in accepted
    /\ accepted' = {v \in accepted : v >= secret}
    /\ accepted' # accepted
    /\ UNCHANGED <<kind, awaiting, holders, record, taskVars, pc, to, tries, secret, transporter, mails, faults>>

\* The sender's instance is recycled.
Recycle ==
    /\ transporter # 0 /\ \A d \in Deliveries : pc[d] = "idle"
    /\ transporter' = 0
    /\ UNCHANGED <<kind, awaiting, holders, record, taskVars, pc, to, tries, relayVars, mails, faults>>

-----------------------------------------------------------------------------
\* A delivery.

Goto(d, label) == pc' = [pc EXCEPT ![d] = label]

Fault == faults < MaxFaults /\ faults' = faults + 1

\* The queue delivers the task, and does so again until it is answered 200.
Deliver(d) ==
    /\ pending /\ attempts < MaxAttempts
    /\ \A e \in Deliveries : pc[e] = "idle"
    /\ attempts' = attempts + 1
    /\ Goto(d, "read")
    /\ UNCHANGED <<kind, awaiting, holders, record, pending, to, tries, relayVars, transporter, mails, faults>>

\* It may deliver it once more, whether or not it was answered; at the cost of a fault
\* when a delivery is under way.
DeliverAgain(d) ==
    /\ pc[d] = "idle" /\ attempts > 0
    /\ IF \A e \in Deliveries : pc[e] = "idle" THEN UNCHANGED faults ELSE Fault
    /\ Goto(d, "read")
    /\ UNCHANGED <<kind, awaiting, holders, record, taskVars, to, tries, relayVars, transporter, mails>>

\* The delivery is over: answered 200 it leaves the queue, answered 500 it stays.
Over(d, answer) ==
    /\ pc' = [pc EXCEPT ![d] = "idle"]
    /\ to' = [to EXCEPT ![d] = {}]
    /\ tries' = [tries EXCEPT ![d] = 0]
    /\ pending' = (pending /\ answer # 200)

\* Mutant: a redelivered task does not look at the record.
ReadMutant(d) ==
    /\ pc[d] = "read"
    /\ IF ~awaiting THEN Goto(d, "suppress") /\ UNCHANGED to
       ELSE IF kind = "letter" THEN Goto(d, "send") /\ to' = [to EXCEPT ![d] = {Hire}]
       ELSE Goto(d, "list") /\ UNCHANGED to
    /\ UNCHANGED <<kind, awaiting, holders, record, taskVars, tries, relayVars, transporter, mails, faults>>

\* The request and the step are read: a record with a delivery id ends the delivery.
Read(d) ==
    /\ pc[d] = "read"
    /\ IF record = "sent"
         THEN Over(d, 200)
         ELSE /\ IF ~awaiting THEN Goto(d, "suppress") /\ UNCHANGED to
                 ELSE IF kind = "letter" THEN Goto(d, "send") /\ to' = [to EXCEPT ![d] = {Hire}]
                 ELSE Goto(d, "list") /\ UNCHANGED to
              /\ UNCHANGED <<tries, pending>>
    /\ UNCHANGED <<kind, awaiting, holders, record, attempts, relayVars, transporter, mails, faults>>

Suppress(d) ==
    /\ pc[d] = "suppress"
    /\ record' = "suppressed"
    /\ Over(d, 200)
    /\ UNCHANGED <<kind, awaiting, holders, attempts, relayVars, transporter, mails, faults>>

\* eligibleApprovers(): never the requester.
List(d) ==
    /\ pc[d] = "list"
    /\ LET recipients == holders \ {Requester}
       IN  /\ to' = [to EXCEPT ![d] = recipients]
           /\ Goto(d, IF recipients = {} THEN "nobody" ELSE "send")
    /\ UNCHANGED <<kind, awaiting, holders, record, taskVars, tries, relayVars, transporter, mails, faults>>

\* Mutant: nobody to ask is thrown before it is recorded.
NobodyToAskMutant(d) ==
    /\ pc[d] = "nobody"
    /\ Over(d, 500)
    /\ UNCHANGED <<kind, awaiting, holders, record, attempts, relayVars, transporter, mails, faults>>

\* Nobody to ask is recorded, and the task is retried.
NobodyToAsk(d) ==
    /\ pc[d] = "nobody"
    /\ record' = "nobody"
    /\ Over(d, 500)
    /\ UNCHANGED <<kind, awaiting, holders, attempts, relayVars, transporter, mails, faults>>

-----------------------------------------------------------------------------
\* The sender: send(), submit(), connect().

\* A connection is made with the latest version, and kept.
Connect(d) ==
    /\ pc[d] = "send" /\ transporter = 0
    /\ transporter' = secret
    /\ UNCHANGED <<kind, awaiting, holders, record, taskVars, pc, to, tries, relayVars, mails, faults>>

Accept(d) ==
    /\ pc[d] = "send" /\ transporter \in accepted
    /\ mails' = mails + 1
    /\ Goto(d, "record")
    /\ UNCHANGED <<kind, awaiting, holders, record, taskVars, to, tries, relayVars, transporter, faults>>

\* Mutant: a refused connection is kept.
AuthRefusedMutant(d) ==
    /\ pc[d] = "send" /\ transporter # 0 /\ transporter \notin accepted
    /\ Goto(d, "fail")
    /\ UNCHANGED <<kind, awaiting, holders, record, taskVars, to, tries, relayVars, transporter, mails, faults>>

\* The credentials are refused: the connection is dropped and tried once more.
AuthRefused(d) ==
    /\ pc[d] = "send" /\ transporter # 0 /\ transporter \notin accepted
    /\ IF tries[d] = 0
         THEN transporter' = 0 /\ tries' = [tries EXCEPT ![d] = 1] /\ UNCHANGED pc
         ELSE Goto(d, "fail") /\ UNCHANGED <<transporter, tries>>
    /\ UNCHANGED <<kind, awaiting, holders, record, taskVars, to, relayVars, mails, faults>>

\* Any other failure, of the secret or of the relay; the relay may have taken the message.
SendFails(d) ==
    /\ pc[d] = "send"
    /\ Fault
    /\ mails' \in {mails, IF transporter \in accepted THEN mails + 1 ELSE mails}
    /\ Goto(d, "fail")
    /\ UNCHANGED <<kind, awaiting, holders, record, taskVars, to, tries, relayVars, transporter>>

-----------------------------------------------------------------------------
\* The record of it.

RecordSent(d) ==
    /\ pc[d] = "record"
    /\ record' = "sent"
    /\ Over(d, 200)
    /\ UNCHANGED <<kind, awaiting, holders, attempts, relayVars, transporter, mails, faults>>

\* The record fails inside the same try as the send, so it is handled as a failed send.
RecordSentFails(d) ==
    /\ pc[d] = "record"
    /\ Fault
    /\ record' \in {record, "sent"}
    /\ Goto(d, "fail")
    /\ UNCHANGED <<kind, awaiting, holders, taskVars, to, tries, relayVars, transporter, mails>>

\* The failure is recorded and thrown on. A notice is retried; a letter whose failure the
\* relay calls permanent fails its step, and leaves the queue until somebody resumes it.
RecordFailed(d) ==
    /\ pc[d] = "fail"
    /\ record' = "failed"
    /\ \E answer \in (IF kind = "notice" THEN {500} ELSE {200, 500}) : Over(d, answer)
    /\ UNCHANGED <<kind, awaiting, holders, attempts, relayVars, transporter, mails, faults>>

\* An operator resumes the request: the step's task is enqueued anew.
Resume ==
    /\ kind = "letter" /\ record = "failed"
    /\ ~pending \/ attempts = MaxAttempts
    /\ \A d \in Deliveries : pc[d] = "idle"
    /\ pending' = TRUE /\ attempts' = 0
    /\ UNCHANGED <<kind, awaiting, holders, record, pc, to, tries, relayVars, transporter, mails, faults>>

\* The instance dies, or Firestore fails the delivery where nothing catches it.
Crash(d) ==
    /\ pc[d] # "idle"
    /\ Fault
    /\ Over(d, 500)
    /\ transporter' \in {0, transporter}
    /\ UNCHANGED <<kind, awaiting, holders, record, attempts, relayVars, mails>>

-----------------------------------------------------------------------------

Handle(d) ==
    \/ Read(d) \/ Suppress(d) \/ List(d) \/ NobodyToAsk(d)
    \/ Connect(d) \/ Accept(d) \/ AuthRefused(d)
    \/ RecordSent(d) \/ RecordFailed(d)

Faults(d) == DeliverAgain(d) \/ SendFails(d) \/ RecordSentFails(d) \/ Crash(d)

Rotation == NewPassword \/ StoreSecret \/ WithdrawOld \/ Recycle

Next ==
    \/ StepMovesOn \/ EditHolders \/ Rotation \/ Resume
    \/ \E d \in Deliveries : Deliver(d) \/ Handle(d) \/ Faults(d)

\* The queue delivers what it holds while attempts are left, and a handler that does not
\* die runs on to its answer.
Fairness ==
    /\ \A d \in Deliveries : WF_vars(Handle(d))
    /\ WF_vars(\E d \in Deliveries : Deliver(d))

Spec == Init /\ [][Next]_vars

FairSpec == Spec /\ Fairness

-----------------------------------------------------------------------------

\* One message, and one more for each thing that went wrong: no rotation, suppression,
\* retry or record of another delivery makes the relay take it again (approvers.ts: "a
\* redelivered task that finds a delivery id returns without sending again").
MailedOncePerFault == mails <= 1 + faults

\* When the queue has given up on a notice that never went out, the step says why
\* (approvers.ts: "Loudly, not quietly").
GaveUp == attempts = MaxAttempts /\ pending /\ \A d \in Deliveries : pc[d] = "idle"

SilenceIsRecorded ==
    kind = "notice" /\ awaiting /\ mails = 0 /\ GaveUp => record \in {"failed", "nobody"}

\* While there is somebody to ask and something to ask, a notice goes out: the attempts
\* outlast the faults, and a rotation costs none of them (runbook.md: "the first send
\* after a rotation succeeds with the new password").
Askable == awaiting /\ holders \ {Requester} # {}

NoticeArrives == kind = "notice" /\ []Askable => <>(mails > 0)

=============================================================================
