---------------------------- MODULE AuditMirror ----------------------------
(***************************************************************************)
(* The second copy of the audit trail: transactions append events to       *)
(* Firestore (shared/store.ts, appendAuditEvent), a scheduled sweep carries *)
(* the committed ones into a log nobody may shorten (shared/auditMirror.ts, *)
(* shared/cloudLoggingAudit.ts, worker/routes/tasks.ts), and an auditor    *)
(* compares the two (reconcileAudit).                                      *)
(*                                                                         *)
(* An event is a natural number, and its number is the order of its        *)
(* document id. Its timestamp is taken inside the transaction's body, so a *)
(* transaction may commit after one that carries a later timestamp. Two    *)
(* sweeps may be under way at once: the queue delivers at least once.      *)
(***************************************************************************)
EXTENDS Naturals, FiniteSets

CONSTANTS
    Events,      \* the events the transactions may append
    Sweeps,      \* deliveries of the mirror-audit task
    BatchSize,   \* options.batchSize, 500 in the code
    MaxTime      \* bound of the model: the last instant an event is stamped with

ASSUME MirrorAssumption ==
    Events \in SUBSET Nat /\ BatchSize \in Nat \ {0} /\ MaxTime \in Nat

VARIABLES
    now,       \* the millisecond
    state,     \* of each event: not attempted, in an open transaction, committed, deleted
    ts,        \* the timestamp each event carries
    log,       \* the events Cloud Logging holds
    progress,  \* the watermark document
    pc, prog, batch,   \* of a sweep: the watermark it read and the batch it chose
    audit,     \* of the auditor: what Firestore held when it read it
    late,      \* history: events that committed behind an instant a sweep had read
    unseen     \* history: events that committed while the auditor was reading

eventVars == <<now, state, ts>>
sweepVars == <<pc, prog, batch>>
vars == <<eventVars, log, progress, sweepVars, audit, late, unseen>>

Instants == 0..MaxTime
Watermark == [through : Instants, mirroredAt : SUBSET Events]

\* What readProgress() yields when nothing was ever mirrored: a bound below all.
NoProgress == [through |-> 0, mirroredAt |-> {}]

TypeOK ==
    /\ now \in Instants
    /\ state \in [Events -> {"none", "open", "committed", "deleted"}]
    /\ ts \in [Events -> Instants]
    /\ log \in SUBSET Events
    /\ progress \in Watermark
    /\ pc \in [Sweeps -> {"idle", "query", "write", "save"}]
    /\ prog \in [Sweeps -> Watermark]
    /\ batch \in [Sweeps -> SUBSET Events]
    /\ audit \in [reading : BOOLEAN, stored : SUBSET Events]
    /\ late \in SUBSET Events
    /\ unseen \in SUBSET Events

Init ==
    /\ now = 0
    /\ state = [e \in Events |-> "none"]
    /\ ts = [e \in Events |-> 0]
    /\ log = {} /\ progress = NoProgress
    /\ pc = [s \in Sweeps |-> "idle"]
    /\ prog = [s \in Sweeps |-> NoProgress]
    /\ batch = [s \in Sweeps |-> {}]
    /\ audit = [reading |-> FALSE, stored |-> {}]
    /\ late = {} /\ unseen = {}

-----------------------------------------------------------------------------
\* The trail: the application's transactions, and the deletion the mirror is for.

Committed == {e \in Events : state[e] = "committed"}

\* Some sweep has read past this instant, and will not look behind it again.
ReadPast(t) ==
    \/ t < progress.through
    \/ \E s \in Sweeps : t < prog[s].through \/ \E d \in batch[s] : t < ts[d]

Tick ==
    /\ now < MaxTime
    /\ now' = now + 1
    /\ UNCHANGED <<state, ts, log, progress, sweepVars, audit, late, unseen>>

\* A transaction body runs and stamps its event. An attempt that aborts leaves
\* nothing behind, so this is the one that commits.
Stamp(e) ==
    /\ state[e] = "none"
    /\ state' = [state EXCEPT ![e] = "open"]
    /\ ts' = [ts EXCEPT ![e] = now]
    /\ UNCHANGED <<now, log, progress, sweepVars, audit, late, unseen>>

Commit(e) ==
    /\ state[e] = "open"
    /\ state' = [state EXCEPT ![e] = "committed"]
    /\ late' = IF ReadPast(ts[e]) THEN late \cup {e} ELSE late
    /\ unseen' = IF audit.reading THEN unseen \cup {e} ELSE unseen
    /\ UNCHANGED <<now, ts, log, progress, sweepVars, audit>>

\* Somebody removes an event from Firestore: what the mirror makes evident.
Delete(e) ==
    /\ state[e] = "committed"
    /\ state' = [state EXCEPT ![e] = "deleted"]
    /\ UNCHANGED <<now, ts, log, progress, sweepVars, audit, late, unseen>>

-----------------------------------------------------------------------------
\* A sweep.

\* Firestore's order: by timestamp, then by document id.
Before(d, e) == ts[d] < ts[e] \/ (ts[d] = ts[e] /\ d < e)

\* The first n of a set of events.
IsBatch(B, S, n) ==
    /\ B \subseteq S
    /\ Cardinality(B) = n \/ B = S
    /\ Cardinality(B) <= n
    /\ \A e \in B, d \in S : Before(d, e) => d \in B

\* Mutant: the bound is exclusive, and the boundary instant is read only once.
ChoicesMutant(s) == {B \in SUBSET Events :
                  IsBatch(B, {e \in Committed : ts[e] > prog[s].through}, BatchSize)}

\* startAt(progress.through) is inclusive; of batchSize + 1 events the last only says that
\* there are more.
Choices(s) == {B \in SUBSET Events :
                  IsBatch(B, {e \in Committed : ts[e] >= prog[s].through}, BatchSize)}

Fresh(s) == batch[s] \ prog[s].mirroredAt

Goto(s, label) == pc' = [pc EXCEPT ![s] = label]

\* The sweep is over, and forgets what it read.
Leave(s) ==
    /\ Goto(s, "idle")
    /\ prog' = [prog EXCEPT ![s] = NoProgress]
    /\ batch' = [batch EXCEPT ![s] = {}]

ReadProgress(s) ==
    /\ pc[s] = "idle"
    /\ prog' = [prog EXCEPT ![s] = progress]
    /\ Goto(s, "query")
    /\ UNCHANGED <<eventVars, log, progress, batch, audit, late, unseen>>

\* The first batch at or after the watermark.
QueryFinds(s) ==
    /\ pc[s] = "query"
    /\ \E B \in Choices(s) :
          /\ ~(B \subseteq prog[s].mirroredAt)
          /\ batch' = [batch EXCEPT ![s] = B]
    /\ Goto(s, "write")
    /\ UNCHANGED <<eventVars, log, progress, prog, audit, late, unseen>>

\* Nothing fresh in it: the sweep returns, and does not move the watermark.
QueryFindsNothing(s) ==
    /\ pc[s] = "query"
    /\ \E B \in Choices(s) : B \subseteq prog[s].mirroredAt
    /\ Leave(s)
    /\ UNCHANGED <<eventVars, log, progress, audit, late, unseen>>

\* Mutant: what shares the boundary instant is taken to be in the log already.
WriteLogMutant(s) ==
    /\ pc[s] = "write"
    /\ log' = log \cup {e \in Fresh(s) : ts[e] # prog[s].through}
    /\ Goto(s, "save")
    /\ UNCHANGED <<eventVars, progress, prog, batch, audit, late, unseen>>

\* The log takes all of it; an event it holds already is not written twice.
WriteLog(s) ==
    /\ pc[s] = "write"
    /\ log' = log \cup Fresh(s)
    /\ Goto(s, "save")
    /\ UNCHANGED <<eventVars, progress, prog, batch, audit, late, unseen>>

\* Mutant: the watermark moves to the instant after the last event.
SaveProgressMutant(s) ==
    /\ pc[s] = "save"
    /\ \E last \in batch[s] :
          /\ \A e \in batch[s] : ts[e] <= ts[last]
          /\ progress' = [through |-> ts[last] + 1, mirroredAt |-> {}]
    /\ Leave(s)
    /\ UNCHANGED <<eventVars, log, audit, late, unseen>>

\* The watermark moves to the last event of the batch, written blindly.
SaveProgress(s) ==
    /\ pc[s] = "save"
    /\ \E last \in batch[s] :
          /\ \A e \in batch[s] : ts[e] <= ts[last]
          /\ progress' = [through |-> ts[last],
                          mirroredAt |-> {e \in batch[s] : ts[e] = ts[last]}]
    /\ Leave(s)
    /\ UNCHANGED <<eventVars, log, audit, late, unseen>>

\* The instance dies, or a call throws, at any point.
SweepFails(s) ==
    /\ pc[s] # "idle"
    /\ Leave(s)
    /\ UNCHANGED <<eventVars, log, progress, audit, late, unseen>>

-----------------------------------------------------------------------------
\* The auditor: reconcileAudit() over a window that covers every instant. It writes
\* nothing.

\* Mutant: Firestore's window ends before the log's.
ReadTrailMutant ==
    /\ ~audit.reading
    /\ audit' = [reading |-> TRUE, stored |-> {e \in Committed : ts[e] < now}]
    /\ UNCHANGED <<eventVars, log, progress, sweepVars, late, unseen>>

ReadTrail ==
    /\ ~audit.reading
    /\ audit' = [reading |-> TRUE, stored |-> Committed]
    /\ UNCHANGED <<eventVars, log, progress, sweepVars, late, unseen>>

\* missingFromFirestore, if the log were read now.
Missing == log \ audit.stored

\* The log is read, and what is missing from Firestore is reported.
ReadLog ==
    /\ audit.reading
    /\ audit' = [reading |-> FALSE, stored |-> {}]
    /\ unseen' = {}
    /\ UNCHANGED <<eventVars, log, progress, sweepVars, late>>

-----------------------------------------------------------------------------

Trail == Tick \/ \E e \in Events : Stamp(e) \/ Commit(e) \/ Delete(e)

Sweep(s) ==
    \/ ReadProgress(s) \/ QueryFinds(s) \/ QueryFindsNothing(s)
    \/ WriteLog(s) \/ SaveProgress(s)

Auditor == ReadTrail \/ ReadLog

Next == Trail \/ Auditor \/ \E s \in Sweeps : Sweep(s) \/ SweepFails(s)

Spec == Init /\ [][Next]_vars

-----------------------------------------------------------------------------

\* What the watermark has passed is in the log, in every interleaving of sweeps,
\* crashes and commits: nothing is skipped but an event that committed behind an
\* instant a sweep had already read (sweep(): "skipping is not" harmless).
NothingSkipped ==
    \A e \in Committed \ late :
        ts[e] < progress.through \/ e \in progress.mirroredAt => e \in log

\* An alarm means what reconcileAudit says: an event that is missing from Firestore was
\* deleted. The one exception is an event that committed, and was swept, between the
\* auditor's two reads.
AlarmIsExplained ==
    audit.reading => \A e \in Missing : state[e] = "deleted" \/ e \in unseen

\* A sweep that finds nothing fresh, and leaves the watermark where it is, leaves
\* nothing behind: every event that committed in time is in the log (sweep():
\* "Carries every committed audit event since the watermark"). The exception is a
\* watermark at an instant that holds a whole batch: such a sweep reads the same batch
\* for ever.
Crowded(s) == \E B \in Choices(s) :
    /\ Cardinality(B) = BatchSize
    /\ \A e \in B : ts[e] = prog[s].through

NothingFreshMeansCaughtUp ==
    \A s \in Sweeps :
        pc[s] = "query" /\ (\E B \in Choices(s) : B \subseteq prog[s].mirroredAt) =>
            Crowded(s) \/ Committed \ late \subseteq log

=============================================================================
