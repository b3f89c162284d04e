-------------------------- MODULE AuditMirrorProofs --------------------------
(***************************************************************************)
(* Proofs about AuditMirror: for any events, batches of any size and any   *)
(* number of overlapping sweeps, the mirror skips nothing that committed   *)
(* in time, and an alarm means a deletion.                                 *)
(***************************************************************************)
EXTENDS AuditMirror, TLAPS

\* Events that committed, whatever became of them: their timestamps stay.
Settled == {e \in Events : state[e] \in {"committed", "deleted"}}

\* A watermark tells the truth: what it lists is in the log at its instant, and so is what
\* lies before it.
Truthful(p) ==
    /\ p.mirroredAt \subseteq log
    /\ \A e \in p.mirroredAt : ts[e] = p.through
    /\ \A e \in Committed \ late : ts[e] < p.through => e \in log

\* A batch holds all that lies before anything it holds, but for what the log has.
BatchInv(s) ==
    /\ batch[s] \subseteq Settled
    /\ \A e \in Committed \ late, d \in batch[s] : ts[e] < ts[d] => e \in log \cup batch[s]
    /\ pc[s] = "save" => batch[s] \subseteq log

\* What the auditor did not see in Firestore committed later, or is no longer there.
AuditInv == audit.reading => \A e \in Committed \ audit.stored : e \in unseen

MirrorInv ==
    /\ log \subseteq Settled
    /\ Truthful(progress)
    /\ \A s \in Sweeps : Truthful(prog[s]) /\ BatchInv(s)
    /\ AuditInv

IInv == TypeOK /\ MirrorInv

-----------------------------------------------------------------------------

LEMMA InitIInv == Init => IInv
<1> SUFFICES ASSUME Init PROVE IInv
  OBVIOUS
<1>1. NoProgress \in Watermark /\ 0 \in Instants
  BY MirrorAssumption DEF NoProgress, Watermark, Instants
<1>2. TypeOK
  BY <1>1 DEF Init, TypeOK
<1>3. Committed = {}
  BY DEF Init, Committed
<1>4. Truthful(NoProgress)
  BY <1>3 DEF Truthful, NoProgress
<1>5. MirrorInv
  BY <1>3, <1>4 DEF Init, MirrorInv, BatchInv, AuditInv, Settled
<1> QED BY <1>2, <1>5 DEF IInv

\* A sweep that ends keeps its types.
LEMMA LeaveTypes ==
    ASSUME TypeOK, NEW s \in Sweeps, Leave(s)
    PROVE  /\ pc' \in [Sweeps -> {"idle", "query", "write", "save"}]
           /\ prog' \in [Sweeps -> Watermark]
           /\ batch' \in [Sweeps -> SUBSET Events]
<1>1. NoProgress \in Watermark
  BY MirrorAssumption DEF NoProgress, Watermark, Instants
<1> QED BY <1>1 DEF TypeOK, Leave, Goto

LEMMA ChoicesType == ASSUME NEW s, NEW B \in Choices(s) PROVE B \subseteq Committed
BY DEF Choices, IsBatch

LEMMA TypeStep ==
    ASSUME TypeOK, [Next]_vars
    PROVE  TypeOK'
<1> USE DEF TypeOK
<1>1. CASE UNCHANGED vars
  BY <1>1 DEF vars, eventVars, sweepVars
<1>2. CASE Tick
  BY <1>2, MirrorAssumption DEF Tick, sweepVars, Instants
<1>3. ASSUME NEW e \in Events, Stamp(e) \/ Commit(e) \/ Delete(e) PROVE TypeOK'
  BY <1>3 DEF Stamp, Commit, Delete, sweepVars
<1>4. CASE Auditor
  <2>1. Committed \subseteq Events
    BY DEF Committed
  <2>2. audit' \in [reading : BOOLEAN, stored : SUBSET Events]
    <3>1. CASE ReadTrail
      BY <2>1, <3>1 DEF ReadTrail
    <3>2. CASE ReadLog
      BY <3>2 DEF ReadLog
    <3> QED BY <1>4, <3>1, <3>2 DEF Auditor
  <2>3. UNCHANGED <<eventVars, log, progress, sweepVars, late>> /\ unseen' \in {unseen, {}}
    BY <1>4 DEF Auditor, ReadTrail, ReadLog
  <2> QED BY <2>2, <2>3 DEF eventVars, sweepVars
<1>5. ASSUME NEW s \in Sweeps, Sweep(s) PROVE TypeOK'
  <2>1. CASE ReadProgress(s)
    BY <2>1 DEF ReadProgress, Goto, eventVars
  <2>2. CASE QueryFinds(s)
    <3>1. PICK B \in Choices(s) : batch' = [batch EXCEPT ![s] = B]
      BY <2>2 DEF QueryFinds
    <3>2. B \in SUBSET Events
      BY ChoicesType DEF Committed
    <3> QED BY <2>2, <3>1, <3>2 DEF QueryFinds, Goto, eventVars
  <2>3. CASE QueryFindsNothing(s)
    BY <2>3, LeaveTypes DEF QueryFindsNothing, eventVars
  <2>4. CASE WriteLog(s)
    BY <2>4 DEF WriteLog, Fresh, Goto, eventVars
  <2>5. CASE SaveProgress(s)
    <3>1. progress' \in Watermark
      BY <2>5 DEF SaveProgress, Watermark
    <3> QED BY <2>5, <3>1, LeaveTypes DEF SaveProgress, eventVars
  <2> QED BY <1>5, <2>1, <2>2, <2>3, <2>4, <2>5 DEF Sweep
<1>6. ASSUME NEW s \in Sweeps, SweepFails(s) PROVE TypeOK'
  BY <1>6, LeaveTypes DEF SweepFails, eventVars
<1> QED BY <1>1, <1>2, <1>3, <1>4, <1>5, <1>6 DEF Next, Trail

-----------------------------------------------------------------------------

\* A step that only adds to the log, and leaves the trail alone.
LEMMA LogGrows ==
    ASSUME UNCHANGED eventVars, late' = late, log \subseteq log', NEW p, Truthful(p)
    PROVE  Truthful(p)'
BY DEF eventVars, Truthful, Committed

\* The trail goes on: a commit behind what a sweep has read is late.
LEMMA TrailStep ==
    ASSUME IInv, Trail
    PROVE  MirrorInv'
<1>1. CASE Tick
  BY <1>1 DEF Tick, sweepVars, IInv, MirrorInv, Truthful, BatchInv, AuditInv, Committed, Settled
<1>2. ASSUME NEW e \in Events, Stamp(e) PROVE MirrorInv'
  <2>1. /\ Committed' = Committed /\ Settled' = Settled /\ UNCHANGED <<log, progress, sweepVars, audit, late, unseen>>
        /\ \A d \in Settled : ts'[d] = ts[d]
    BY <1>2 DEF Stamp, Committed, Settled, IInv, TypeOK
  <2>2. Committed \subseteq Settled
    BY DEF Committed, Settled
  <2>3. ASSUME NEW p, Truthful(p) PROVE Truthful(p)'
    BY <2>1, <2>2, <2>3 DEF Truthful, IInv, MirrorInv
  <2>4. ASSUME NEW s \in Sweeps PROVE BatchInv(s)'
    BY <2>1, <2>2 DEF BatchInv, sweepVars, IInv, MirrorInv
  <2>5. Truthful(progress)' /\ \A s \in Sweeps : Truthful(prog[s])'
    BY <2>1, <2>3 DEF sweepVars, IInv, MirrorInv
  <2> QED BY <2>1, <2>4, <2>5 DEF IInv, MirrorInv, AuditInv
<1>3. ASSUME NEW e \in Events, Commit(e) PROVE MirrorInv'
  <2>1. /\ Committed' = Committed \cup {e} /\ Settled' = Settled \cup {e}
        /\ UNCHANGED <<ts, log, progress, sweepVars, audit>>
        /\ late' = IF ReadPast(ts[e]) THEN late \cup {e} ELSE late
        /\ unseen' = IF audit.reading THEN unseen \cup {e} ELSE unseen
    BY <1>3 DEF Commit, Committed, Settled, IInv, TypeOK
  <2>2. ASSUME NEW p, Truthful(p), ts[e] < p.through => ReadPast(ts[e]) PROVE Truthful(p)'
    BY <2>1, <2>2 DEF Truthful
  <2>3. ASSUME NEW s \in Sweeps PROVE BatchInv(s)'
    <3>1. ASSUME NEW d \in batch[s], ts[e] < ts[d] PROVE ReadPast(ts[e])
      BY <3>1 DEF ReadPast
    <3> QED BY <2>1, <3>1 DEF BatchInv, sweepVars, IInv, MirrorInv
  <2>4. Truthful(progress)' /\ \A s \in Sweeps : Truthful(prog[s])'
    BY <2>1, <2>2 DEF ReadPast, sweepVars, IInv, MirrorInv
  <2> QED BY <2>1, <2>3, <2>4 DEF IInv, MirrorInv, AuditInv
<1>4. ASSUME NEW e \in Events, Delete(e) PROVE MirrorInv'
  <2>1. /\ Committed' = Committed \ {e} /\ Settled' = Settled
        /\ UNCHANGED <<ts, log, progress, sweepVars, audit, late, unseen>>
    BY <1>4 DEF Delete, Committed, Settled, IInv, TypeOK
  <2> QED BY <2>1 DEF sweepVars, IInv, MirrorInv, Truthful, BatchInv, AuditInv
<1> QED BY <1>1, <1>2, <1>3, <1>4 DEF Trail

LEMMA AuditorStep ==
    ASSUME IInv, Auditor
    PROVE  MirrorInv'
BY DEF Auditor, ReadTrail, ReadLog, eventVars, sweepVars, IInv, TypeOK, MirrorInv, Truthful,
       BatchInv, AuditInv, Committed, Settled

\* A sweep that ends leaves the other sweeps as they are.
LEMMA LeaveStep ==
    ASSUME IInv, NEW s \in Sweeps, Leave(s), UNCHANGED <<eventVars, log, audit, late, unseen>>,
           Truthful(progress)'
    PROVE  MirrorInv'
<1>1. Committed' = Committed /\ Settled' = Settled /\ ts' = ts
  BY DEF eventVars, Committed, Settled
<1>2. Truthful(NoProgress)'
  BY <1>1 DEF Truthful, NoProgress, IInv, TypeOK, Instants, Committed
<1>3. ASSUME NEW z \in Sweeps PROVE Truthful(prog[z])' /\ BatchInv(z)'
  <2>1. CASE z = s
    BY <1>1, <1>2, <2>1 DEF Leave, Goto, IInv, TypeOK, BatchInv, Truthful
  <2>2. CASE z # s
    <3>1. prog'[z] = prog[z] /\ batch'[z] = batch[z] /\ pc'[z] = pc[z]
      BY <2>2 DEF Leave, Goto, IInv, TypeOK
    <3> QED BY <1>1, <3>1 DEF IInv, MirrorInv, BatchInv, Truthful
  <2> QED BY <2>1, <2>2
<1> QED BY <1>1, <1>3 DEF IInv, MirrorInv, AuditInv

LEMMA SweepStep ==
    ASSUME IInv, NEW s \in Sweeps, Sweep(s) \/ SweepFails(s)
    PROVE  MirrorInv'
<1>0. UNCHANGED <<eventVars, late>> /\ Committed' = Committed /\ Settled' = Settled /\ ts' = ts
  BY DEF Sweep, ReadProgress, QueryFinds, QueryFindsNothing, WriteLog, SaveProgress, SweepFails,
         eventVars, Committed, Settled
<1>1. CASE ReadProgress(s)
  <2>1. ASSUME NEW z \in Sweeps PROVE Truthful(prog[z])' /\ BatchInv(z)'
    BY <1>0, <1>1 DEF ReadProgress, Goto, IInv, TypeOK, MirrorInv, BatchInv, Truthful
  <2> QED BY <1>0, <1>1, <2>1 DEF ReadProgress, IInv, MirrorInv, AuditInv, Truthful
<1>2. CASE QueryFinds(s)
  <2>1. PICK B \in Choices(s) : batch' = [batch EXCEPT ![s] = B]
    BY <1>2 DEF QueryFinds
  <2>2. B \subseteq Settled
    BY ChoicesType DEF Committed, Settled
  <2>3. ASSUME NEW e \in Committed \ late, NEW d \in B, ts[e] < ts[d] PROVE e \in log \cup B
    <3>1. CASE ts[e] < prog[s].through
      BY <3>1 DEF IInv, MirrorInv, Truthful
    <3>2. CASE ts[e] >= prog[s].through
      BY <2>3, <3>2 DEF Choices, IsBatch, Before
    <3>3. ts[e] \in Nat /\ prog[s].through \in Nat
      BY DEF IInv, TypeOK, Watermark, Instants, Committed
    <3> QED BY <3>1, <3>2, <3>3
  <2>4. /\ pc' = [pc EXCEPT ![s] = "write"]
        /\ UNCHANGED <<log, progress, prog, audit, unseen>>
    BY <1>2 DEF QueryFinds, Goto
  <2>5. ASSUME NEW z \in Sweeps PROVE BatchInv(z)'
    <3>1. CASE z = s
      BY <1>0, <2>1, <2>2, <2>3, <2>4, <3>1 DEF BatchInv, IInv, TypeOK
    <3>2. CASE z # s
      BY <1>0, <2>1, <2>4, <3>2 DEF BatchInv, IInv, TypeOK, MirrorInv
    <3> QED BY <3>1, <3>2
  <2> QED BY <1>0, <2>4, <2>5 DEF IInv, MirrorInv, Truthful, AuditInv
<1>3. CASE WriteLog(s)
  <2>1. log \subseteq log' /\ log' = log \cup batch[s]
    BY <1>3 DEF WriteLog, Fresh, IInv, MirrorInv, Truthful
  <2>2. UNCHANGED <<progress, prog, batch, audit, unseen>> /\ pc' = [pc EXCEPT ![s] = "save"]
    BY <1>3 DEF WriteLog, Goto
  <2>3. ASSUME NEW z \in Sweeps PROVE Truthful(prog[z])' /\ BatchInv(z)'
    BY <1>0, <2>1, <2>2 DEF IInv, TypeOK, MirrorInv, BatchInv, Truthful
  <2>4. log' \subseteq Settled /\ Truthful(progress)'
    BY <1>0, <2>1, <2>2 DEF IInv, MirrorInv, BatchInv, Truthful
  <2> QED BY <1>0, <2>2, <2>3, <2>4 DEF IInv, MirrorInv, AuditInv
<1>4. CASE SaveProgress(s)
  <2>1. PICK last \in batch[s] :
          /\ \A e \in batch[s] : ts[e] <= ts[last]
          /\ progress' = [through |-> ts[last], mirroredAt |-> {e \in batch[s] : ts[e] = ts[last]}]
    BY <1>4 DEF SaveProgress
  <2>2. batch[s] \subseteq log /\ log' = log
    BY <1>4 DEF SaveProgress, IInv, MirrorInv, BatchInv
  <2>3. \A e \in Committed \ late : ts[e] < ts[last] => e \in log
    BY <2>2 DEF IInv, MirrorInv, BatchInv
  <2>4. Truthful(progress)'
    BY <1>0, <2>1, <2>2, <2>3 DEF Truthful
  <2> QED BY <1>4, <2>4, LeaveStep DEF SaveProgress
<1>5. CASE QueryFindsNothing(s) \/ SweepFails(s)
  <2>1. Truthful(progress)'
    BY <1>0, <1>5 DEF QueryFindsNothing, SweepFails, Truthful, IInv, MirrorInv
  <2> QED BY <1>5, <2>1, LeaveStep DEF QueryFindsNothing, SweepFails
<1> QED BY <1>1, <1>2, <1>3, <1>4, <1>5 DEF Sweep

LEMMA InvariantStep == IInv /\ [Next]_vars => IInv'
<1> SUFFICES ASSUME IInv, [Next]_vars PROVE IInv'
  OBVIOUS
<1>1. TypeOK'
  BY TypeStep DEF IInv
<1>2. CASE UNCHANGED vars
  <2>1. MirrorInv'
    BY <1>2 DEF vars, eventVars, sweepVars, IInv, MirrorInv, Truthful, BatchInv, AuditInv, Committed, Settled
  <2> QED BY <1>1, <2>1 DEF IInv
<1>3. CASE Next
  BY <1>1, <1>3, TrailStep, AuditorStep, SweepStep DEF Next, IInv
<1> QED BY <1>2, <1>3

-----------------------------------------------------------------------------

\* The inductive invariant: every watermark a process holds tells the truth, every batch
\* is complete below what it holds.
THEOREM Inductive == Spec => []IInv
BY InitIInv, InvariantStep, PTL DEF Spec

\* Every variable keeps its shape.
THEOREM TypeCorrect == Spec => []TypeOK
<1>1. IInv => TypeOK
  BY DEF IInv
<1> QED BY <1>1, Inductive, PTL

\* What the watermark has passed is in the log, but for an event that committed behind it.
THEOREM MirrorSkipsNothing == Spec => []NothingSkipped
<1>1. IInv => NothingSkipped
  BY DEF IInv, MirrorInv, Truthful, NothingSkipped
<1> QED BY <1>1, Inductive, PTL

\* A sweep that finds nothing fresh leaves nothing behind, unless an instant holds a
\* whole batch.
THEOREM MirrorCatchesUp == Spec => []NothingFreshMeansCaughtUp
<1>1. IInv => NothingFreshMeansCaughtUp
  <2> SUFFICES ASSUME IInv, NEW s \in Sweeps, NEW B \in Choices(s), B \subseteq prog[s].mirroredAt,
                      ~Crowded(s), NEW e \in Committed \ late
               PROVE  e \in log
    BY DEF NothingFreshMeansCaughtUp
  <2>1. prog[s].mirroredAt \subseteq log /\ \A d \in prog[s].mirroredAt : ts[d] = prog[s].through
    BY DEF IInv, MirrorInv, Truthful
  <2>2. B = {d \in Committed : ts[d] >= prog[s].through}
    BY <2>1 DEF Crowded, Choices, IsBatch
  <2>3. CASE ts[e] < prog[s].through
    BY <2>3 DEF IInv, MirrorInv, Truthful
  <2>4. CASE ts[e] >= prog[s].through
    BY <2>1, <2>2, <2>4
  <2>5. ts[e] \in Nat /\ prog[s].through \in Nat
    BY DEF IInv, TypeOK, Watermark, Instants, Committed
  <2> QED BY <2>3, <2>4, <2>5
<1> QED BY <1>1, Inductive, PTL

\* An alarm means a deletion, or a commit between the auditor's two reads.
THEOREM AlarmsAreExplained == Spec => []AlarmIsExplained
<1>1. IInv => AlarmIsExplained
  BY DEF IInv, MirrorInv, AuditInv, AlarmIsExplained, Missing, Settled, Committed
<1> QED BY <1>1, Inductive, PTL

=============================================================================
