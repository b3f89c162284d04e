------------------------- MODULE NotificationProofs -------------------------
(***************************************************************************)
(* Proofs about Notification: however many deliveries overlap, and however *)
(* often the app password is rotated, the relay takes one message and one  *)
(* more for each fault, and a notice that never went out left a record, as *)
(* long as the queue's attempts outnumber the faults.                      *)
(***************************************************************************)
EXTENDS Notification, FiniteSetTheorems, TLAPS

Active == {d \in Deliveries : pc[d] # "idle"}

\* Deliveries that may still submit the message, or end with another record than "sent".
Mailing == {d \in Deliveries : pc[d] \notin {"idle", "record"}}

\* Each of them is paid for: the first by the one message, the others by a fault. Once
\* it is recorded, a redelivery may still come, and only looks.
MailInv ==
    \/ /\ record = "sent" /\ mails <= 1 + faults
       /\ \A d \in Deliveries : pc[d] \in {"idle", "read"}
    \/ /\ mails + Cardinality(Mailing) <= 1 + faults
       /\ Active = {} => mails <= faults

\* What is never recorded of a notice that is awaited and has not gone out.
Silent ==
    /\ awaiting => record # "suppressed" /\ \A d \in Deliveries : pc[d] # "suppress"
    /\ mails = 0 => record # "sent" /\ \A d \in Deliveries : pc[d] # "record"

\* Each attempt that left no record was killed by a fault, but the one under way.
Attempted == record = "none" => attempts <= faults + (IF Active = {} THEN 0 ELSE 1)

IInv == TypeOK /\ MailInv /\ Silent /\ Attempted

-----------------------------------------------------------------------------

LEMMA InitIInv == Init => IInv
<1> SUFFICES ASSUME Init PROVE IInv
  OBVIOUS
<1>1. TypeOK
  BY NotificationAssumption DEF Init, TypeOK, Passwords
<1>2. Mailing = {} /\ Active = {}
  BY DEF Init, Mailing, Active
<1>3. Cardinality({}) = 0
  BY FS_EmptySet
<1>4. MailInv /\ Silent /\ Attempted
  BY <1>2, <1>3 DEF Init, MailInv, Silent, Attempted
<1> QED BY <1>1, <1>4 DEF IInv

\* Moving one delivery.
LEMMA Move ==
    ASSUME TypeOK, NEW d \in Deliveries, NEW label, pc' = [pc EXCEPT ![d] = label]
    PROVE  /\ label \notin {"idle", "record"} => Mailing' = Mailing \cup {d}
           /\ label \in {"idle", "record"} => Mailing' = Mailing \ {d}
           /\ label # "idle" => Active' # {}
           /\ d \in Mailing <=> pc[d] \notin {"idle", "record"}
BY DEF TypeOK, Mailing, Active

LEMMA MailingCount == IsFiniteSet(Mailing) /\ Cardinality(Mailing) \in Nat
<1>1. Mailing \in SUBSET Deliveries
  BY DEF Mailing
<1>2. IsFiniteSet(Deliveries)
  BY NotificationAssumption
<1> QED BY <1>1, <1>2, FS_Subset, FS_CardinalityType

LEMMA Counts ==
    ASSUME NEW d
    PROVE  /\ Cardinality(Mailing) \in Nat
           /\ Cardinality(Mailing \cup {d}) = IF d \in Mailing THEN Cardinality(Mailing) ELSE Cardinality(Mailing) + 1
           /\ Cardinality(Mailing \cup {d}) \in Nat /\ Cardinality(Mailing \ {d}) \in Nat
           /\ Cardinality(Mailing \ {d}) = IF d \in Mailing THEN Cardinality(Mailing) - 1 ELSE Cardinality(Mailing)
BY MailingCount, FS_CardinalityType, FS_AddElement, FS_RemoveElement

\* What no delivery does.
LEMMA QuietStep ==
    ASSUME MailInv, UNCHANGED <<record, pc, mails, faults>>
    PROVE  MailInv'
BY DEF MailInv, Mailing, Active

\* A delivery starts: the first with the message's own money, another with a fault's.
LEMMA StartStep ==
    ASSUME TypeOK, MailInv, NEW d \in Deliveries, pc[d] = "idle", pc' = [pc EXCEPT ![d] = "read"],
           UNCHANGED <<record, mails>>,
           IF Active = {} THEN faults' = faults ELSE faults' = faults + 1
    PROVE  MailInv'
<1>1. d \notin Mailing /\ Mailing' = Mailing \cup {d} /\ Active' # {}
  <2>1. "read" \notin {"idle", "record"}
    OBVIOUS
  <2> QED BY <2>1, Move
<1>2. Cardinality(Mailing') = Cardinality(Mailing) + 1 /\ Cardinality(Mailing) \in Nat
  BY <1>1, Counts
<1>3. mails \in Nat /\ faults \in Nat
  BY DEF TypeOK
<1>4. CASE record = "sent" /\ mails <= 1 + faults /\ \A e \in Deliveries : pc[e] \in {"idle", "read"}
  BY <1>3, <1>4 DEF MailInv, TypeOK
<1>5. CASE mails + Cardinality(Mailing) <= 1 + faults /\ (Active = {} => mails <= faults)
  <2>1. Active = {} => Mailing = {}
    BY DEF Active, Mailing
  <2>2. CASE Active = {}
    <3>1. Cardinality(Mailing) = 0
      BY <2>1, <2>2, FS_EmptySet
    <3> QED BY <1>1, <1>2, <1>3, <1>5, <2>2, <3>1 DEF MailInv
  <2>3. CASE Active # {}
    BY <1>1, <1>2, <1>3, <1>5, <2>3 DEF MailInv
  <2> QED BY <2>2, <2>3
<1> QED BY <1>4, <1>5 DEF MailInv

\* While a delivery may still submit, each one that may is paid for.
LEMMA Paid ==
    ASSUME TypeOK, MailInv, NEW d \in Deliveries, pc[d] # "idle", record = "sent" => pc[d] # "read"
    PROVE  mails + Cardinality(Mailing) <= 1 + faults
BY DEF MailInv

\* A delivery that may still submit goes on, and may submit at the cost of a fault.
LEMMA GoStep ==
    ASSUME TypeOK, MailInv, NEW d \in Deliveries, pc[d] \notin {"idle", "record"}, record = "sent" => pc[d] # "read",
           NEW label, label \notin {"idle", "record"}, pc' = [pc EXCEPT ![d] = label],
           record' = record, mails' \in {mails, mails + (faults' - faults)}, mails' \in Nat,
           faults' \in {faults, faults + 1}
    PROVE  MailInv'
<1>1. Mailing' = Mailing \cup {d} /\ Active' # {}
  BY Move
<1>2. Mailing' = Mailing
  <2>1. d \in Mailing
    BY DEF Mailing
  <2> QED BY <1>1, <2>1
<1>3. mails + Cardinality(Mailing) <= 1 + faults
  BY Paid
<1>4. Cardinality(Mailing) \in Nat /\ mails \in Nat /\ faults \in Nat
  BY MailingCount DEF TypeOK
<1>5. Cardinality(Mailing') = Cardinality(Mailing)
  BY <1>2
<1>6. mails' + Cardinality(Mailing') <= 1 + faults'
  <2>1. CASE faults' = faults
    BY <1>3, <1>4, <1>5, <2>1
  <2>2. CASE faults' = faults + 1
    <3>1. mails' \in {mails, mails + 1}
      BY <1>4, <2>2
    <3> QED BY <1>3, <1>4, <1>5, <2>2, <3>1
  <2> QED BY <2>1, <2>2
<1> QED BY <1>1, <1>6 DEF MailInv

\* A delivery ends. If it may have submitted, it gives its money back.
LEMMA EndStep ==
    ASSUME TypeOK, MailInv, NEW d \in Deliveries, pc[d] \notin {"idle", "record"}, record = "sent" => pc[d] # "read",
           pc' = [pc EXCEPT ![d] = "idle"], UNCHANGED <<mails, faults>>
    PROVE  MailInv'
<1>1. Mailing' = Mailing \ {d}
  BY Move
<1>2. mails + Cardinality(Mailing) <= 1 + faults
  BY Paid
<1>3. d \in Mailing
  BY Move
<1>5. Cardinality(Mailing') = Cardinality(Mailing) - 1 /\ Cardinality(Mailing') \in Nat /\ Cardinality(Mailing) \in Nat
  BY <1>1, <1>3, Counts
<1>4. mails \in Nat /\ faults \in Nat
  BY DEF TypeOK
<1> QED BY <1>2, <1>4, <1>5 DEF MailInv

\* A delivery ends at the cost of a fault.
LEMMA DieStep ==
    ASSUME TypeOK, MailInv, NEW d \in Deliveries, pc[d] # "idle", pc' = [pc EXCEPT ![d] = "idle"],
           UNCHANGED <<record, mails>>, faults' = faults + 1
    PROVE  MailInv'
<1>1. Mailing' = Mailing \ {d}
  BY Move
<1>2. Cardinality(Mailing') <= Cardinality(Mailing) /\ Cardinality(Mailing) \in Nat /\ Cardinality(Mailing') \in Nat
  <2>1. /\ Cardinality(Mailing) \in Nat /\ Cardinality(Mailing \ {d}) \in Nat
        /\ Cardinality(Mailing \ {d}) = IF d \in Mailing THEN Cardinality(Mailing) - 1 ELSE Cardinality(Mailing)
    BY Counts
  <2>2. Cardinality(Mailing \ {d}) <= Cardinality(Mailing)
    BY <2>1
  <2> QED BY <1>1, <2>1, <2>2
<1>3. mails \in Nat /\ faults \in Nat
  BY DEF TypeOK
<1>4. CASE record = "sent" /\ mails <= 1 + faults /\ \A e \in Deliveries : pc[e] \in {"idle", "read"}
  BY <1>3, <1>4 DEF MailInv, TypeOK
<1>5. CASE mails + Cardinality(Mailing) <= 1 + faults
  BY <1>2, <1>3, <1>5 DEF MailInv
<1> QED BY <1>4, <1>5 DEF MailInv

LEMMA MailStep ==
    ASSUME TypeOK, MailInv, [Next]_vars
    PROVE  MailInv'
<1> USE DEF Goto, Over
<1>1. CASE UNCHANGED vars \/ StepMovesOn \/ EditHolders \/ Rotation \/ Resume
  <2>1. UNCHANGED <<record, pc, mails, faults>>
    BY <1>1 DEF vars, StepMovesOn, EditHolders, Rotation, NewPassword, StoreSecret, WithdrawOld,
                Recycle, Resume
  <2> QED BY <2>1, QuietStep
<1>2. ASSUME NEW d \in Deliveries, Deliver(d) PROVE MailInv'
  <2>1. Active = {} /\ pc[d] = "idle"
    BY <1>2 DEF Deliver, Active
  <2> QED BY <1>2, <2>1, StartStep DEF Deliver
<1>3. ASSUME NEW d \in Deliveries, DeliverAgain(d) PROVE MailInv'
  <2>1. IF Active = {} THEN faults' = faults ELSE faults' = faults + 1
    BY <1>3 DEF DeliverAgain, Active, Fault
  <2> QED BY <1>3, <2>1, StartStep DEF DeliverAgain
<1>4. ASSUME NEW d \in Deliveries, Read(d) PROVE MailInv'
  <2>0. pc[d] = "read"
    BY <1>4 DEF Read
  <2>1. CASE record = "sent"
    <3>1. pc' = [pc EXCEPT ![d] = "idle"] /\ UNCHANGED <<record, mails, faults>>
      BY <1>4, <2>1 DEF Read
    <3>2. Mailing' = Mailing \ {d} /\ d \in Mailing
      BY <2>0, <3>1, Move
    <3>3. Cardinality(Mailing') = Cardinality(Mailing) - 1 /\ Cardinality(Mailing') \in Nat /\ Cardinality(Mailing) \in Nat
      BY <3>2, Counts
    <3>6. mails \in Nat /\ faults \in Nat
      BY DEF TypeOK
    <3>4. CASE Active' = {}
      <4>1. mails <= 1 + faults
        BY <3>3, <3>6 DEF MailInv
      <4>2. \A e \in Deliveries : pc'[e] = "idle"
        BY <3>4 DEF Active
      <4> QED BY <2>1, <3>1, <4>1, <4>2 DEF MailInv
    <3>5. CASE Active' # {}
      <4>1. CASE mails <= 1 + faults /\ \A e \in Deliveries : pc[e] \in {"idle", "read"}
        <5>1. \A e \in Deliveries : pc'[e] \in {"idle", "read"}
          BY <3>1, <4>1 DEF TypeOK
        <5> QED BY <2>1, <3>1, <4>1, <5>1 DEF MailInv
      <4>2. CASE mails + Cardinality(Mailing) <= 1 + faults
        BY <3>1, <3>3, <3>5, <3>6, <4>2 DEF MailInv
      <4> QED BY <4>1, <4>2 DEF MailInv
    <3> QED BY <3>4, <3>5
  <2>2. CASE record # "sent"
    <3>1. \E label \in {"suppress", "send", "list"} : pc' = [pc EXCEPT ![d] = label]
      BY <1>4, <2>2 DEF Read
    <3>2. UNCHANGED <<record, mails, faults>> /\ mails \in Nat /\ faults \in Nat
      BY <1>4 DEF Read, TypeOK
    <3>3. PICK label \in {"suppress", "send", "list"} : pc' = [pc EXCEPT ![d] = label]
      BY <3>1
    <3> QED BY <2>0, <2>2, <3>2, <3>3, GoStep
  <2> QED BY <2>1, <2>2
<1>5. ASSUME NEW d \in Deliveries, Suppress(d) \/ NobodyToAsk(d) \/ RecordFailed(d) PROVE MailInv'
  <2>1. pc[d] \notin {"idle", "record", "read"} /\ pc' = [pc EXCEPT ![d] = "idle"] /\ UNCHANGED <<mails, faults>>
    BY <1>5 DEF Suppress, NobodyToAsk, RecordFailed
  <2> QED BY <2>1, EndStep
<1>6. ASSUME NEW d \in Deliveries, List(d) \/ AuthRefused(d) PROVE MailInv'
  <2>1. pc[d] \notin {"idle", "record", "read"}
    BY <1>6 DEF List, AuthRefused
  <2>2. UNCHANGED <<record, mails, faults>> /\ mails \in Nat /\ faults \in Nat
    BY <1>6 DEF List, AuthRefused, TypeOK
  <2>3. pc' = pc \/ \E label \in {"nobody", "send", "fail"} : pc' = [pc EXCEPT ![d] = label]
    BY <1>6 DEF List, AuthRefused
  <2> QED BY <2>1, <2>2, <2>3, GoStep, QuietStep
<1>7. ASSUME NEW d \in Deliveries, Connect(d) PROVE MailInv'
  BY <1>7, QuietStep DEF Connect
<1>8. ASSUME NEW d \in Deliveries, Accept(d) PROVE MailInv'
  <2>1. pc[d] = "send" /\ pc' = [pc EXCEPT ![d] = "record"]
        /\ mails' = mails + 1 /\ UNCHANGED <<record, faults>>
    BY <1>8 DEF Accept
  <2>2. Mailing' = Mailing \ {d} /\ Active' # {} /\ d \in Mailing
    BY <2>1, Move
  <2>3. Cardinality(Mailing') = Cardinality(Mailing) - 1 /\ Cardinality(Mailing') \in Nat /\ Cardinality(Mailing) \in Nat
    BY <2>2, Counts
  <2>4. mails + Cardinality(Mailing) <= 1 + faults
    BY <2>1, Paid
  <2>5. mails \in Nat /\ faults \in Nat
    BY DEF TypeOK
  <2> QED BY <2>1, <2>2, <2>3, <2>4, <2>5 DEF MailInv
<1>9. ASSUME NEW d \in Deliveries, SendFails(d) PROVE MailInv'
  <2>1. pc[d] = "send"
    BY <1>9 DEF SendFails
  <2>2. record' = record /\ mails' \in {mails, mails + 1} /\ faults' = faults + 1
        /\ mails \in Nat /\ faults \in Nat /\ pc' = [pc EXCEPT ![d] = "fail"]
    BY <1>9 DEF SendFails, Fault, TypeOK
  <2>3. mails' \in {mails, mails + (faults' - faults)} /\ mails' \in Nat
    BY <2>2
  <2> QED BY <2>1, <2>2, <2>3, GoStep
<1>10. ASSUME NEW d \in Deliveries, RecordSent(d) PROVE MailInv'
  <2>1. pc[d] = "record" /\ pc' = [pc EXCEPT ![d] = "idle"] /\ record' = "sent" /\ UNCHANGED <<mails, faults>>
    BY <1>10 DEF RecordSent
  <2>a. Mailing' = Mailing \ {d} /\ d \notin Mailing
    BY <2>1, Move
  <2>2. Mailing' = Mailing
    BY <2>a
  <2>3. mails + Cardinality(Mailing) <= 1 + faults
    BY <2>1, Paid
  <2>4. Cardinality(Mailing) \in Nat /\ mails \in Nat /\ faults \in Nat
    BY MailingCount DEF TypeOK
  <2>5. CASE Active' = {}
    <3>1. \A e \in Deliveries : pc'[e] = "idle"
      BY <2>5 DEF Active
    <3> QED BY <2>1, <2>3, <2>4, <3>1 DEF MailInv
  <2>6. CASE Active' # {}
    BY <2>1, <2>2, <2>3, <2>6 DEF MailInv
  <2> QED BY <2>5, <2>6
<1>11. ASSUME NEW d \in Deliveries, RecordSentFails(d) PROVE MailInv'
  <2>1. pc[d] = "record" /\ pc' = [pc EXCEPT ![d] = "fail"] /\ mails' = mails /\ faults' = faults + 1
    BY <1>11 DEF RecordSentFails, Fault
  <2>a. "fail" \notin {"idle", "record"}
    OBVIOUS
  <2>2. d \notin Mailing /\ Mailing' = Mailing \cup {d} /\ Active' # {}
    BY <2>1, <2>a, Move
  <2>3. Cardinality(Mailing') = Cardinality(Mailing) + 1 /\ Cardinality(Mailing) \in Nat
    BY <2>2, Counts
  <2>4. mails + Cardinality(Mailing) <= 1 + faults
    BY <2>1, Paid
  <2>5. mails \in Nat /\ faults \in Nat
    BY DEF TypeOK
  <2> QED BY <2>1, <2>2, <2>3, <2>4, <2>5 DEF MailInv
<1>12. ASSUME NEW d \in Deliveries, Crash(d) PROVE MailInv'
  BY <1>12, DieStep DEF Crash, Fault
<1> QED BY <1>1, <1>2, <1>3, <1>4, <1>5, <1>6, <1>7, <1>8, <1>9, <1>10, <1>11, <1>12 DEF Next, Handle, Faults

-----------------------------------------------------------------------------

LEMMA Ordered ==
    ASSUME NEW m \in Nat, NEW f \in Nat, NEW b \in Nat, m <= 1 + f, f <= b
    PROVE  m <= b + 1
OBVIOUS

Labels == {"idle", "read", "list", "suppress", "nobody", "send", "record", "fail"}

LEMMA TypeStep ==
    ASSUME TypeOK, MailInv', [Next]_vars
    PROVE  TypeOK'
<1> USE NotificationAssumption DEF Goto, Over, Fault, Passwords, taskVars, relayVars
<1>1. mails' \in Nat /\ faults' \in 0..MaxFaults => mails' \in 0..(MaxFaults + 1)
  <2> SUFFICES ASSUME mails' \in Nat, faults' \in Nat, faults' <= MaxFaults PROVE mails' <= MaxFaults + 1
    OBVIOUS
  <2>0. MaxFaults \in Nat
    OBVIOUS
  <2>1. (Mailing \in SUBSET Deliveries)'
    BY DEF Mailing
  <2>2. Cardinality(Mailing') \in Nat
    BY <2>1, FS_Subset, FS_CardinalityType
  <2>3. mails' <= 1 + faults' => mails' <= MaxFaults + 1
    BY <2>0, Ordered
  <2>4. CASE mails' + Cardinality(Mailing') <= 1 + faults'
    BY ONLY mails' \in Nat, faults' \in Nat, faults' <= MaxFaults, <2>0, <2>2, <2>4
  <2> QED BY <2>3, <2>4 DEF MailInv
<1>2. CASE UNCHANGED vars
  BY <1>2 DEF vars, TypeOK
<1>3. CASE StepMovesOn
  BY <1>3 DEF StepMovesOn, TypeOK
<1>4. CASE EditHolders
  <2>1. holders' \in SUBSET Subjects
    BY <1>4 DEF EditHolders, TypeOK
  <2> QED BY <1>4, <2>1 DEF EditHolders, TypeOK
<1>5. CASE Rotation
  <2>1. accepted' \in SUBSET Passwords /\ secret' \in Passwords /\ transporter' \in {0} \cup Passwords
    <3>1. secret \in 1..MaxPasswords /\ accepted \in SUBSET (1..MaxPasswords)
      BY DEF TypeOK
    <3>2. secret < MaxPasswords => secret + 1 \in 1..MaxPasswords
      BY <3>1
    <3>3. {v \in accepted : v >= secret} \in SUBSET (1..MaxPasswords)
      BY <3>1
    <3>4. CASE NewPassword \/ StoreSecret
      BY <3>1, <3>2, <3>4 DEF NewPassword, StoreSecret, TypeOK
    <3>5. CASE WithdrawOld \/ Recycle
      BY <3>1, <3>3, <3>5 DEF WithdrawOld, Recycle, TypeOK
    <3> QED BY <1>5, <3>4, <3>5 DEF Rotation
  <2> QED BY <1>5, <2>1 DEF Rotation, NewPassword, StoreSecret, WithdrawOld, Recycle, TypeOK
<1>6. CASE Resume
  BY <1>6 DEF Resume, TypeOK
<1>7. ASSUME NEW d \in Deliveries, Deliver(d) \/ Handle(d) \/ Faults(d) PROVE TypeOK'
  <2> USE <1>7 DEF Deliver, Handle, Faults, DeliverAgain, Read, Suppress, List, NobodyToAsk, Connect, Accept,
                   AuthRefused, SendFails, RecordSent, RecordSentFails, RecordFailed, Crash
  <2>1. (pc \in [Deliveries -> Labels])'
    BY DEF TypeOK, Labels
  <2>2. (to \in [Deliveries -> SUBSET (Subjects \cup {Hire})])'
    BY DEF TypeOK
  <2>3. (tries \in [Deliveries -> 0..1])'
    BY DEF TypeOK
  <2>4. (record \in {"none", "sent", "failed", "suppressed", "nobody"})'
    BY DEF TypeOK
  <2>5. (attempts \in 0..MaxAttempts /\ faults \in 0..MaxFaults /\ mails \in Nat)'
    BY DEF TypeOK
  <2>6. (transporter \in {0} \cup Passwords /\ pending \in BOOLEAN)'
    BY DEF TypeOK
  <2>7. UNCHANGED <<kind, awaiting, holders, accepted, secret>>
    OBVIOUS
  <2> QED BY ONLY TypeOK, <1>1, <2>1, <2>2, <2>3, <2>4, <2>5, <2>6, <2>7 DEF TypeOK, Labels
<1> QED BY <1>2, <1>3, <1>4, <1>5, <1>6, <1>7 DEF Next

LEMMA SilentStep ==
    ASSUME TypeOK, Silent, [Next]_vars
    PROVE  Silent'
<1> USE DEF Goto, Over, Fault, Silent
<1>1. CASE UNCHANGED vars \/ StepMovesOn \/ EditHolders \/ Rotation \/ Resume
  BY <1>1 DEF vars, StepMovesOn, EditHolders, Rotation, NewPassword, StoreSecret, WithdrawOld, Recycle, Resume
<1>2. ASSUME NEW d \in Deliveries, Deliver(d) \/ DeliverAgain(d) \/ Crash(d) PROVE Silent'
  BY <1>2 DEF Deliver, DeliverAgain, Crash, TypeOK
<1>3. ASSUME NEW d \in Deliveries, Read(d) \/ Suppress(d) \/ List(d) \/ NobodyToAsk(d) PROVE Silent'
  BY <1>3 DEF Read, Suppress, List, NobodyToAsk, TypeOK
<1>4. ASSUME NEW d \in Deliveries, Connect(d) \/ AuthRefused(d) \/ Accept(d) \/ SendFails(d) PROVE Silent'
  BY <1>4 DEF Connect, AuthRefused, Accept, SendFails, TypeOK
<1>5. ASSUME NEW d \in Deliveries, RecordSent(d) \/ RecordSentFails(d) \/ RecordFailed(d) PROVE Silent'
  BY <1>5 DEF RecordSent, RecordSentFails, RecordFailed, TypeOK
<1> QED BY <1>1, <1>2, <1>3, <1>4, <1>5 DEF Next, Handle, Faults

LEMMA AttemptedStep ==
    ASSUME TypeOK, Attempted, [Next]_vars
    PROVE  Attempted'
<1> USE DEF Goto, Over, Fault, Attempted
<1>0. attempts \in Nat /\ faults \in Nat
  BY NotificationAssumption DEF TypeOK
<1>1. CASE UNCHANGED vars \/ StepMovesOn \/ EditHolders \/ Rotation
  BY <1>1 DEF vars, taskVars, StepMovesOn, EditHolders, Rotation, NewPassword, StoreSecret, WithdrawOld, Recycle, Active
<1>2. CASE Resume
  BY <1>0, <1>2 DEF Resume
<1>3. ASSUME NEW d \in Deliveries, Deliver(d) PROVE Attempted'
  <2>1. Active = {} /\ pc' = [pc EXCEPT ![d] = "read"]
    BY <1>3 DEF Deliver, Active
  <2>2. "read" # "idle"
    OBVIOUS
  <2>3. Active' # {}
    BY <2>1, <2>2, Move
  <2> QED BY <1>0, <1>3, <2>1, <2>3 DEF Deliver
<1>4. ASSUME NEW d \in Deliveries, Crash(d) PROVE Attempted'
  <2>1. record' = record /\ attempts' = attempts /\ faults' = faults + 1
    BY <1>4 DEF Crash
  <2> QED BY <1>0, <2>1
<1>5. ASSUME NEW d \in Deliveries, Suppress(d) \/ NobodyToAsk(d) \/ RecordSent(d) \/ RecordFailed(d) PROVE Attempted'
  BY <1>5 DEF Suppress, NobodyToAsk, RecordSent, RecordFailed
<1>6. ASSUME NEW d \in Deliveries,
             DeliverAgain(d) \/ Read(d) \/ List(d) \/ Connect(d) \/ AuthRefused(d)
                 \/ Accept(d) \/ SendFails(d) \/ RecordSentFails(d)
      PROVE  Attempted'
  <2>1. attempts' = attempts /\ faults' \in {faults, faults + 1}
    BY <1>6 DEF DeliverAgain, Read, List, Connect, AuthRefused, Accept, SendFails, RecordSentFails, taskVars
  <2>2. record' = "none" => record = "none"
    BY <1>6 DEF DeliverAgain, Read, List, Connect, AuthRefused, Accept, SendFails, RecordSentFails
  <2>3. record' = "none" => pc'[d] # "idle"
    BY <1>6, <2>2 DEF DeliverAgain, Read, List, Connect, AuthRefused, Accept, SendFails, RecordSentFails, TypeOK
  <2>4. record' = "none" => Active' # {}
    BY <2>3 DEF Active
  <2>5. attempts <= faults + 1 => attempts' <= faults' + 1
    <3>1. CASE faults' = faults
      BY <1>0, <2>1, <3>1
    <3>2. CASE faults' = faults + 1
      BY <1>0, <2>1, <3>2
    <3> QED BY <2>1, <3>1, <3>2
  <2>6. record = "none" => attempts <= faults + 1
    BY <1>0
  <2> QED BY <2>2, <2>4, <2>5, <2>6
<1> QED BY <1>1, <1>2, <1>3, <1>4, <1>5, <1>6 DEF Next, Handle, Faults

LEMMA StepIInv == IInv /\ [Next]_vars => IInv'
<1> SUFFICES ASSUME IInv, [Next]_vars PROVE IInv'
  OBVIOUS
<1>1. TypeOK /\ MailInv /\ Silent /\ Attempted
  BY DEF IInv
<1> QED BY <1>1, MailStep, TypeStep, SilentStep, AttemptedStep DEF IInv

\* The invariant the properties follow from.
THEOREM Inductive == Spec => []IInv
BY InitIInv, StepIInv, PTL DEF Spec

\* The values of the state, and the bound on the messages among them (sender.ts,
\* store.ts recordNotification).
THEOREM TypeCorrect == Spec => []TypeOK
<1>1. IInv => TypeOK
  BY DEF IInv
<1> QED BY Inductive, <1>1, PTL

\* Overlapping deliveries, rotations and retries of any number send the message once, and
\* once more for each fault (approvers.ts, notify.ts).
THEOREM OncePerFault == Spec => []MailedOncePerFault
<1>1. IInv => MailedOncePerFault
  <2> SUFFICES ASSUME IInv PROVE mails <= 1 + faults
    BY DEF MailedOncePerFault
  <2>1. mails \in Nat /\ faults \in Nat
    BY DEF IInv, TypeOK
  <2> QED BY <2>1, MailingCount DEF IInv, MailInv
<1> QED BY Inductive, <1>1, PTL

\* With more attempts than faults, the queue never gives up on a notice that is still
\* awaited and never went out without the step saying why (approvers.ts).
THEOREM SilenceExplained == MaxFaults < MaxAttempts => (Spec => []SilenceIsRecorded)
<1> SUFFICES ASSUME MaxFaults < MaxAttempts PROVE Spec => []SilenceIsRecorded
  OBVIOUS
<1>1. IInv => SilenceIsRecorded
  <2> SUFFICES ASSUME IInv, awaiting, mails = 0, GaveUp PROVE record \in {"failed", "nobody"}
    BY DEF SilenceIsRecorded
  <2>1. record \notin {"suppressed", "sent"}
    BY DEF IInv, Silent
  <2>2. Active = {} /\ attempts = MaxAttempts
    BY DEF GaveUp, Active
  <2>3. faults <= MaxFaults /\ faults \in Nat
    BY DEF IInv, TypeOK
  <2>4. record # "none"
    BY <2>2, <2>3, NotificationAssumption DEF IInv, Attempted
  <2> QED BY <2>1, <2>4 DEF IInv, TypeOK
<1> QED BY Inductive, <1>1, PTL

=============================================================================
