------------------------- MODULE AuthorizationProofs -------------------------
(***************************************************************************)
(* Proofs about Authorization for any number of operators, groups, calls   *)
(* and instants: what a lookup read is what Workspace says, or changed no   *)
(* longer ago than the answer has been kept.                               *)
(***************************************************************************)
EXTENDS Authorization, TLAPS

In(u, g) == member[u][g].in

\* An answer holds of every membership that has not changed since it was read.
Reflects(groups, u, since) ==
    \A g \in Groups : (g \in groups <=> In(u, g)) \/ member[u][g].age <= since

Fresh(u) ==
    /\ flight[u].pc = "read" => Reflects(flight[u].groups, u, flight[u].age)
    /\ cache[u].left > 0 => Reflects(cache[u].groups, u, MaxLatency + (Ttl - cache[u].left))

\* The groups a call resolves with lie between those its operator has been in all the
\* time, as far as they matter, and those it was in at some time.
Bounds(groups, c) == groups \subseteq recent[c] /\ must[c] \cap Groups \subseteq groups

Configured(c) == call[c].who \in Bootstrap /\ call[c].needs = "admin"

\* An open call: its history follows the bindings and the memberships, and its own roles
\* were granted, or configured.
OpenHolds(c) ==
    /\ call[c].who \in Operators /\ call[c].needs \in Roles
    /\ GroupsOf(member, call[c].who) \subseteq recent[c]
    /\ \A x \in {call[c].who} \cup recent[c] : GrantsIn(bindings, x, call[c].needs) => could[c]
    /\ \A x \in must[c] : /\ GrantsIn(bindings, x, call[c].needs)
                          /\ x \in {call[c].who} \cup GroupsOf(member, call[c].who)
    /\ call[c].needs \in call[c].roles => could[c] \/ Configured(c)
    /\ Configured(c) \/ call[c].who \in must[c] => call[c].needs \in call[c].roles

\* Whatever it will resolve with lies within the bounds.
LookupHolds(c) ==
    LET u == call[c].who IN
    /\ cache[u].left > 0 => Bounds(cache[u].groups, c)
    /\ flight[u].pc = "read" => Bounds(flight[u].groups, c)

CallHolds(c) ==
    /\ Open(c) => OpenHolds(c)
    /\ call[c].pc \in {"groups", "wait"} => LookupHolds(c)
    /\ call[c].pc = "bindings" => Bounds(call[c].groups, c)
    /\ call[c].pc = "allowed" => could[c] \/ Configured(c)
    /\ call[c].pc = "refused" => must[c] = {} /\ ~Configured(c)

AuthInv ==
    /\ TypeOK
    /\ \A u \in Operators : Fresh(u)
    /\ \A c \in Calls : CallHolds(c)
-----------------------------------------------------------------------------
(* Types *)

CallRecord == [pc : {"idle", "groups", "wait", "bindings", "allowed", "refused"},
               who : Operators \cup {Nobody}, needs : Roles \cup {"none"},
               roles : SUBSET Roles, groups : SUBSET Groups]
FlightRecord == [pc : {"none", "asked", "read"}, groups : SUBSET Groups, age : 0..MaxLatency]

LEMMA RecordTypes ==
    /\ TypeOK => call \in [Calls -> CallRecord] /\ flight \in [Operators -> FlightRecord]
    /\ NoCall \in CallRecord /\ NoFlight \in FlightRecord
BY AuthorizationAssumption DEF TypeOK, CallRecord, FlightRecord, NoCall, NoFlight

LEMMA WindowType == Window \in Nat /\ Ttl \in Nat /\ Ttl > 0 /\ MaxLatency \in Nat
BY AuthorizationAssumption DEF Window

LEMMA InitTypes == Init => TypeOK
BY WindowType DEF Init, TypeOK, CallRecord, FlightRecord, NoBinding, NoEntry, NoFlight, NoCall

\* What the history keeps of a call, whatever it is called with.
LEMMA WitnessTypes ==
    ASSUME TypeOK, NEW b, NEW m, Witness(b, m)
    PROVE  /\ could' \in [Calls -> BOOLEAN]
           /\ must' \in [Calls -> SUBSET Subjects]
           /\ recent' \in [Calls -> SUBSET Groups]
<1>1. recent' \in [Calls -> SUBSET Groups]
  BY DEF Witness, TypeOK, CallRecord, FlightRecord, GroupsOf
<1>2. could' \in [Calls -> BOOLEAN]
  BY DEF Witness, TypeOK, CallRecord, FlightRecord
<1>3. must' \in [Calls -> SUBSET Subjects]
  BY DEF Witness, TypeOK, CallRecord, FlightRecord
<1> QED BY <1>1, <1>2, <1>3

LEMMA EndTypes ==
    ASSUME TypeOK, NEW C \in SUBSET Calls, End(C)
    PROVE  /\ call' \in [Calls -> CallRecord]
           /\ could' \in [Calls -> BOOLEAN]
           /\ must' \in [Calls -> SUBSET Subjects]
BY DEF TypeOK, CallRecord, FlightRecord, End, NoCall

LEMMA WorkspaceTypes ==
    ASSUME TypeOK, Workspace
    PROVE  TypeOK'
<1>1. CASE Tick
  <2>1. member' \in [Operators -> [Groups -> [in : BOOLEAN, age : 0..Window]]]
    <3>1. ASSUME NEW u \in Operators, NEW g \in Groups
          PROVE  [member[u][g] EXCEPT !.age = Older(@, Window)] \in [in : BOOLEAN, age : 0..Window]
      <4>1. member[u][g] \in [in : BOOLEAN, age : 0..Window]
        BY DEF TypeOK, CallRecord, FlightRecord
      <4>2. Older(member[u][g].age, Window) \in 0..Window
        BY <4>1, WindowType DEF Older
      <4> QED BY <4>1, <4>2
    <3> QED BY <1>1, <3>1 DEF Tick
  <2>2. cache' \in [Operators -> [groups : SUBSET Groups, left : 0..Ttl]]
    <3>1. ASSUME NEW u \in Operators
          PROVE  (IF cache[u].left > 1 THEN [cache[u] EXCEPT !.left = @ - 1] ELSE NoEntry)
                    \in [groups : SUBSET Groups, left : 0..Ttl]
      <4>1. cache[u] \in [groups : SUBSET Groups, left : 0..Ttl]
        BY DEF TypeOK, CallRecord, FlightRecord
      <4>2. cache[u].left > 1 => cache[u].left - 1 \in 0..Ttl
        BY <4>1, WindowType
      <4> QED BY <4>1, <4>2, WindowType DEF NoEntry
    <3> QED BY <1>1, <3>1 DEF Tick
  <2>3. flight' \in [Operators -> FlightRecord]
    <3>1. ASSUME NEW u \in Operators
          PROVE  (IF flight[u].pc = "read" THEN [flight[u] EXCEPT !.age = @ + 1] ELSE flight[u])
                    \in FlightRecord
      <4>1. flight[u] \in FlightRecord
        BY DEF TypeOK, CallRecord, FlightRecord
      <4>2. flight[u].pc = "read" => flight[u].age + 1 \in 0..MaxLatency
        BY <1>1, <4>1, WindowType DEF Tick, FlightRecord
      <4> QED BY <4>1, <4>2 DEF FlightRecord
    <3> QED BY <1>1, <3>1 DEF Tick
  <2> QED BY <1>1, <2>1, <2>2, <2>3 DEF Tick, TypeOK, CallRecord, FlightRecord
<1>2. ASSUME NEW u \in Operators, NEW g \in Groups, ChangeMembership(u, g) PROVE TypeOK'
  <2>1. member' \in [Operators -> [Groups -> [in : BOOLEAN, age : 0..Window]]]
    BY <1>2, WindowType DEF ChangeMembership, TypeOK, CallRecord, FlightRecord
  <2>2. Witness(bindings, member')
    BY <1>2 DEF ChangeMembership
  <2> QED BY <1>2, <2>1, <2>2, WitnessTypes DEF ChangeMembership, TypeOK, CallRecord, FlightRecord
<1> QED BY <1>1, <1>2 DEF Workspace

LEMMA LookupTypes ==
    ASSUME TypeOK, NEW u \in Operators, Lookup(u)
    PROVE  TypeOK'
<1>1. CASE LookupReads(u)
  <2>1. [pc |-> "read", groups |-> GroupsOf(member, u), age |-> 0] \in FlightRecord
    BY WindowType DEF GroupsOf, FlightRecord
  <2>2. flight' \in [Operators -> FlightRecord]
    BY <1>1, <2>1, RecordTypes DEF LookupReads
  <2> QED BY <1>1, <2>2 DEF LookupReads, TypeOK, CallRecord, FlightRecord
<1>2. CASE LookupAnswers(u)
  <2>1. flight' \in [Operators -> FlightRecord]
    BY <1>2, RecordTypes DEF LookupAnswers
  <2>2. flight[u].groups \in SUBSET Groups
    BY DEF TypeOK
  <2>3. cache' \in [Operators -> [groups : SUBSET Groups, left : 0..Ttl]]
    <3>1. [groups |-> flight[u].groups, left |-> Ttl] \in [groups : SUBSET Groups, left : 0..Ttl]
      BY <2>2, WindowType
    <3>2. cache' = [cache EXCEPT ![u] = [groups |-> flight[u].groups, left |-> Ttl]]
      BY <1>2 DEF LookupAnswers
    <3> QED BY <3>1, <3>2 DEF TypeOK
  <2>4. call' \in [Calls -> CallRecord]
    <3>1. ASSUME NEW c \in Calls
          PROVE  [call[c] EXCEPT !.pc = "bindings", !.groups = flight[u].groups] \in CallRecord
      BY <2>2, RecordTypes DEF CallRecord
    <3> QED BY <1>2, <3>1, RecordTypes DEF LookupAnswers
  <2> QED BY <1>2, <2>1, <2>3, <2>4 DEF LookupAnswers, TypeOK, CallRecord, FlightRecord
<1>3. CASE LookupFails(u)
  <2>1. PICK C \in SUBSET Calls : End(C)
    BY <1>3 DEF LookupFails
  <2>2. flight' \in [Operators -> FlightRecord]
    BY <1>3, WindowType DEF LookupFails, TypeOK, CallRecord, FlightRecord, NoFlight
  <2>3. recent' \in [Calls -> SUBSET Groups]
    BY <1>3 DEF LookupFails, TypeOK, CallRecord, FlightRecord
  <2> QED BY <1>3, <2>1, <2>2, <2>3, EndTypes DEF LookupFails, TypeOK, CallRecord, FlightRecord
<1> QED BY <1>1, <1>2, <1>3 DEF Lookup

LEMMA EditTypes ==
    ASSUME TypeOK, NEW c \in Calls, NEW x \in Bindable,
           NEW b \in [kind : {"none", "user", "group"}, roles : SUBSET Roles], EditBinding(c, x, b)
    PROVE  TypeOK'
<1>1. bindings' \in [Subjects -> [kind : {"none", "user", "group"}, roles : SUBSET Roles]]
  BY DEF EditBinding, TypeOK, CallRecord, FlightRecord
<1>2. Witness(bindings', member)
  BY DEF EditBinding
<1>3. call' \in [Calls -> CallRecord]
  BY DEF EditBinding, TypeOK, CallRecord, FlightRecord, NoCall
<1> QED BY <1>1, <1>2, <1>3, WitnessTypes DEF EditBinding, TypeOK, CallRecord, FlightRecord

\* The roles a call has in the end, and its verdict.
FoundBy(c) == call[c].roles \cup {r \in Roles : \E g \in call[c].groups : GrantsIn(bindings, g, r)}
VerdictOn(c) == IF call[c].needs \in FoundBy(c) THEN "allowed" ELSE "refused"

LEMMA ResolvedRoles ==
    ASSUME TypeOK, NEW c \in Calls, Resolve(c)
    PROVE  /\ FoundBy(c) \in SUBSET Roles
           /\ call' = [call EXCEPT ![c] = [call[c] EXCEPT !.pc = VerdictOn(c), !.roles = FoundBy(c),
                                                       !.groups = {}]]
<1>1. FoundBy(c) \in SUBSET Roles
  BY RecordTypes DEF CallRecord, FoundBy
<1>2. call' = [call EXCEPT ![c].pc = VerdictOn(c), ![c].roles = FoundBy(c), ![c].groups = {}]
  BY DEF Resolve, FoundBy, VerdictOn
<1> QED BY <1>1, <1>2, RecordTypes

LEMMA ServeTypes ==
    ASSUME TypeOK, NEW c \in Calls, CallHolds(c), Serve(c)
    PROVE  TypeOK'
<1>1. ASSUME NEW u \in Operators, NEW role \in Roles, Begin(c, u, role) PROVE TypeOK'
  <2>1. call' \in [Calls -> CallRecord]
    BY <1>1 DEF Begin, TypeOK, CallRecord, FlightRecord, Roles
  <2>2. could' \in [Calls -> BOOLEAN] /\ recent' \in [Calls -> SUBSET Groups]
    BY <1>1 DEF Begin, TypeOK, CallRecord, FlightRecord
  <2>3. must' \in [Calls -> SUBSET Subjects]
    BY <1>1 DEF Begin, TypeOK, CallRecord, FlightRecord, Subjects
  <2> QED BY <1>1, <2>1, <2>2, <2>3 DEF Begin, TypeOK, CallRecord, FlightRecord
<1>2. CASE CacheHit(c)
  <2>1. call[c].who \in Operators
    BY <1>2 DEF CacheHit, CallHolds, Open, OpenHolds
  <2>2. cache[call[c].who].groups \in SUBSET Groups
    BY <2>1 DEF TypeOK, CallRecord, FlightRecord
  <2>3. [call[c] EXCEPT !.pc = "bindings", !.groups = cache[call[c].who].groups] \in CallRecord
    BY <2>2, RecordTypes DEF CallRecord
  <2>4. call' = [call EXCEPT ![c] = [call[c] EXCEPT !.pc = "bindings", !.groups = cache[call[c].who].groups]]
    BY <1>2, RecordTypes DEF CacheHit
  <2>5. call' \in [Calls -> CallRecord]
    BY <2>3, <2>4, RecordTypes
  <2> QED BY <1>2, <2>5 DEF CacheHit, TypeOK, CallRecord, FlightRecord
<1>3. CASE CacheMiss(c)
  <2>1. call[c].who \in Operators
    BY <1>3 DEF CacheMiss, CallHolds, Open, OpenHolds
  <2>2. [call[c] EXCEPT !.pc = "wait"] \in CallRecord
    BY RecordTypes DEF CallRecord
  <2>3. call' = [call EXCEPT ![c] = [call[c] EXCEPT !.pc = "wait"]]
    BY <1>3, RecordTypes DEF CacheMiss
  <2>4. call' \in [Calls -> CallRecord]
    BY <2>2, <2>3, RecordTypes
  <2>5. flight' \in [Operators -> FlightRecord]
    BY <1>3, <2>1, RecordTypes DEF CacheMiss, FlightRecord
  <2> QED BY <1>3, <2>4, <2>5 DEF CacheMiss, TypeOK, CallRecord, FlightRecord
<1>4. CASE Resolve(c)
  <2>1. [call[c] EXCEPT !.pc = VerdictOn(c), !.roles = FoundBy(c), !.groups = {}] \in CallRecord
    BY <1>4, RecordTypes, ResolvedRoles DEF CallRecord, VerdictOn
  <2>2. call' \in [Calls -> CallRecord]
    BY <1>4, <2>1, RecordTypes, ResolvedRoles
  <2> QED BY <1>4, <2>2 DEF Resolve, TypeOK, CallRecord, FlightRecord
<1>5. CASE Refuse(c) \/ Decide(c)
  BY <1>5, EndTypes DEF Refuse, Decide, TypeOK, CallRecord, FlightRecord
<1>6. ASSUME NEW x \in Bindable, RemoveRoleBinding(c, x) PROVE TypeOK'
  BY <1>6, EditTypes DEF RemoveRoleBinding, NoBinding
<1>7. ASSUME NEW x \in Bindable, NEW kind \in {"user", "group"}, NEW roles \in SUBSET Roles \ {{}},
             SetRoleBinding(c, x, kind, roles) PROVE TypeOK'
  BY <1>7, EditTypes DEF SetRoleBinding
<1> QED BY <1>1, <1>2, <1>3, <1>4, <1>5, <1>6, <1>7 DEF Serve, Handler

LEMMA TypeStep == AuthInv /\ [Next]_vars => TypeOK'
<1> SUFFICES ASSUME TypeOK, \A c \in Calls : CallHolds(c), [Next]_vars PROVE TypeOK'
  BY DEF AuthInv
<1>1. CASE UNCHANGED vars
  BY <1>1 DEF TypeOK, CallRecord, FlightRecord, vars
<1> QED BY <1>1, WorkspaceTypes, LookupTypes, ServeTypes DEF Next

-----------------------------------------------------------------------------
(* What was read, and when *)

\* A membership that changes is young, and every answer ages with the memberships.
LEMMA WorkspaceFresh ==
    ASSUME TypeOK, NEW u \in Operators, Fresh(u), Workspace
    PROVE  Fresh(u)'
<1> SUFFICES ASSUME NEW g \in Groups
             PROVE  /\ flight'[u].pc = "read" =>
                          \/ (g \in flight'[u].groups <=> member'[u][g].in)
                          \/ member'[u][g].age <= flight'[u].age
                    /\ cache'[u].left > 0 =>
                          \/ (g \in cache'[u].groups <=> member'[u][g].in)
                          \/ member'[u][g].age <= MaxLatency + (Ttl - cache'[u].left)
  BY DEF Fresh, Reflects, In
<1>1. /\ member[u][g] \in [in : BOOLEAN, age : 0..Window]
      /\ cache[u] \in [groups : SUBSET Groups, left : 0..Ttl]
      /\ flight[u] \in FlightRecord
  BY RecordTypes DEF TypeOK
<1>2. /\ flight[u].pc = "read" => (g \in flight[u].groups <=> member[u][g].in)
                                    \/ member[u][g].age <= flight[u].age
      /\ cache[u].left > 0 => (g \in cache[u].groups <=> member[u][g].in)
                                    \/ member[u][g].age <= MaxLatency + (Ttl - cache[u].left)
  BY DEF Fresh, Reflects, In
<1>3. CASE Tick
  <2>1. /\ member'[u][g] = [member[u][g] EXCEPT !.age = Older(@, Window)]
        /\ cache'[u] = IF cache[u].left > 1 THEN [cache[u] EXCEPT !.left = @ - 1] ELSE NoEntry
        /\ flight'[u] = IF flight[u].pc = "read" THEN [flight[u] EXCEPT !.age = @ + 1] ELSE flight[u]
    BY <1>3 DEF Tick
  <2>2. member'[u][g].in = member[u][g].in /\ member'[u][g].age <= member[u][g].age + 1
        /\ member'[u][g].age \in Nat
    BY <1>1, <2>1, WindowType DEF Older
  <2>3. flight'[u].pc = "read" => /\ flight[u].pc = "read" /\ flight'[u].groups = flight[u].groups
                                  /\ flight'[u].age = flight[u].age + 1
    BY <1>1, <2>1 DEF FlightRecord
  <2>4. cache'[u].left > 0 => /\ cache[u].left > 0 /\ cache'[u].groups = cache[u].groups
                              /\ cache'[u].left = cache[u].left - 1
    BY <1>1, <2>1, WindowType DEF NoEntry
  <2> QED BY <1>1, <1>2, <2>2, <2>3, <2>4, WindowType DEF FlightRecord
<1>4. ASSUME NEW v \in Operators, NEW h \in Groups, ChangeMembership(v, h)
      PROVE  /\ cache'[u] = cache[u] /\ flight'[u] = flight[u]
             /\ member'[u][g] = member[u][g] \/ member'[u][g].age = 0
  BY <1>4 DEF ChangeMembership, TypeOK
<1>5. CASE ~Tick
  <2>1. /\ cache'[u] = cache[u] /\ flight'[u] = flight[u]
        /\ member'[u][g] = member[u][g] \/ member'[u][g].age = 0
    BY <1>4, <1>5 DEF Workspace
  <2> QED BY <1>1, <1>2, <2>1, WindowType DEF FlightRecord
<1> QED BY <1>3, <1>5

LEMMA LookupFresh ==
    ASSUME TypeOK, NEW u \in Operators, Fresh(u), NEW v \in Operators, Lookup(v)
    PROVE  Fresh(u)'
<1>1. /\ cache[u] \in [groups : SUBSET Groups, left : 0..Ttl]
      /\ flight[u] \in FlightRecord /\ flight \in [Operators -> FlightRecord]
      /\ cache \in [Operators -> [groups : SUBSET Groups, left : 0..Ttl]]
  BY RecordTypes DEF TypeOK
<1>2. member' = member
  BY DEF Lookup, LookupReads, LookupAnswers, LookupFails
<1>3. CASE flight'[u] = flight[u] /\ cache'[u] = cache[u]
  BY <1>2, <1>3 DEF Fresh, Reflects, In
<1>4. CASE LookupReads(v) /\ u = v
  <2>1. flight'[u] = [pc |-> "read", groups |-> GroupsOf(member, u), age |-> 0] /\ cache' = cache
    BY <1>1, <1>4 DEF LookupReads
  <2>2. Reflects(flight[u].groups, u, flight[u].age)'
    BY <1>2, <2>1 DEF Reflects, In, GroupsOf
  <2> QED BY <1>2, <2>1, <2>2 DEF Fresh, Reflects, In
<1>5. CASE LookupAnswers(v) /\ u = v
  <2>1. /\ flight[u].pc = "read" /\ flight'[u].pc = "none"
        /\ cache'[u] = [groups |-> flight[u].groups, left |-> Ttl]
    BY <1>1, <1>5 DEF LookupAnswers, NoFlight
  <2>2. Reflects(flight[u].groups, u, flight[u].age)
    BY <2>1 DEF Fresh
  <2>3. \A g \in Groups : member[u][g].age \in Nat
    BY DEF TypeOK
  <2>4. Reflects(flight[u].groups, u, MaxLatency + (Ttl - Ttl))
    BY <1>1, <2>2, <2>3, WindowType DEF Reflects, FlightRecord
  <2> QED BY <1>2, <2>1, <2>4 DEF Fresh, Reflects, In
<1>6. CASE LookupFails(v) /\ u = v
  <2>1. flight'[u].pc = "none" /\ cache' = cache
    BY <1>1, <1>6 DEF LookupFails, NoFlight
  <2> QED BY <1>2, <2>1 DEF Fresh, Reflects, In
<1>7. u # v => flight'[u] = flight[u] /\ cache'[u] = cache[u]
  BY <1>1 DEF Lookup, LookupReads, LookupAnswers, LookupFails
<1> QED BY <1>3, <1>4, <1>5, <1>6, <1>7 DEF Lookup

LEMMA FreshStep ==
    ASSUME AuthInv, NEW u \in Operators, [Next]_vars
    PROVE  Fresh(u)'
<1> USE DEF AuthInv
<1>1. ASSUME member' = member, cache' = cache,
             flight' = flight \/ \E v \in Operators : flight' = [flight EXCEPT ![v].pc = "asked"]
      PROVE  Fresh(u)'
  <2>1. flight'[u] = flight[u] \/ flight'[u].pc = "asked"
    BY <1>1, RecordTypes DEF FlightRecord
  <2> QED BY <1>1, <2>1 DEF Fresh, Reflects, In
<1>2. CASE UNCHANGED vars
  BY <1>1, <1>2 DEF vars
<1>3. ASSUME NEW c \in Calls, Serve(c) PROVE Fresh(u)'
  <2>1. CacheMiss(c) => call[c].who \in Operators
    BY DEF CacheMiss, CallHolds, Open, OpenHolds
  <2> QED BY <1>1, <1>3, <2>1
          DEF Serve, Begin, CacheHit, CacheMiss, Resolve, Refuse, Handler, RemoveRoleBinding,
              SetRoleBinding, EditBinding, Decide
<1> QED BY <1>2, <1>3, WorkspaceFresh, LookupFresh DEF Next

-----------------------------------------------------------------------------
(* The calls *)

CallTypes(c) ==
    /\ call[c] \in CallRecord /\ could[c] \in BOOLEAN
    /\ must[c] \in SUBSET Subjects /\ recent[c] \in SUBSET Groups

LEMMA CallIsTyped == \A c \in Calls : TypeOK => CallTypes(c)
BY RecordTypes DEF CallTypes, TypeOK

\* A call that a step leaves alone, with what it reads.
LEMMA CallKept ==
    ASSUME NEW c \in Calls, CallHolds(c), call'[c] = call[c], could'[c] = could[c],
           must'[c] = must[c], recent'[c] = recent[c], bindings' = bindings,
           \A g \in Groups : member'[call[c].who][g].in = member[call[c].who][g].in,
           call[c].pc \in {"groups", "wait"} => LookupHolds(c)'
    PROVE  CallHolds(c)'
<1>1. GroupsOf(member', call[c].who) = GroupsOf(member, call[c].who)
  BY DEF GroupsOf
<1>2. Open(c) => OpenHolds(c)'
  BY <1>1 DEF CallHolds, OpenHolds, GrantsIn, Configured
<1> QED BY <1>2 DEF CallHolds, Open, Bounds, Configured

\* The history follows the memberships and the bindings through a change of either.
LEMMA WitnessHolds ==
    ASSUME TypeOK, NEW c \in Calls, CallHolds(c), Witness(bindings', member'), Open(c),
           call'[c] = call[c]
    PROVE  /\ OpenHolds(c)'
           /\ recent[c] \subseteq recent'[c] /\ must'[c] \subseteq must[c]
<1> DEFINE u == call[c].who
           n == call[c].needs
<1>1. CallTypes(c) /\ OpenHolds(c)
  BY CallIsTyped DEF CallHolds
<1>2. recent'[c] = recent[c] \cup GroupsOf(member', u)
  BY DEF Witness
<1>3. could'[c] = (could[c] \/ \E x \in {u} \cup recent'[c] : GrantsIn(bindings', x, n))
  BY <1>1 DEF Witness, Open, CallTypes
<1>4. must'[c] = {x \in must[c] : GrantsIn(bindings', x, n) /\ (x \in Groups => member'[u][x].in)}
  BY DEF Witness
<1>5. \A x \in must[c] : x = u \/ x \in Groups
  BY <1>1 DEF OpenHolds, GroupsOf
<1>6. \A x \in must'[c] : GrantsIn(bindings', x, n) /\ x \in {u} \cup GroupsOf(member', u)
  BY <1>4, <1>5 DEF GroupsOf
<1>7. OpenHolds(c)'
  <2>1. u \in Operators /\ n \in Roles /\ GroupsOf(member', u) \subseteq recent'[c]
    BY <1>1, <1>2 DEF OpenHolds
  <2>2. \A x \in {u} \cup recent'[c] : GrantsIn(bindings', x, n) => could'[c]
    BY <1>3
  <2>3. n \in call[c].roles => could'[c] \/ Configured(c)
    BY <1>1, <1>3 DEF OpenHolds
  <2>4. Configured(c) \/ u \in must'[c] => n \in call[c].roles
    BY <1>1, <1>4 DEF OpenHolds
  <2> HIDE DEF u, n
  <2>5. OpenHolds(c)' = (/\ u \in Operators /\ n \in Roles
                         /\ GroupsOf(member', u) \subseteq recent'[c]
                         /\ \A x \in {u} \cup recent'[c] : GrantsIn(bindings', x, n) => could'[c]
                         /\ \A x \in must'[c] : GrantsIn(bindings', x, n)
                                               /\ x \in {u} \cup GroupsOf(member', u)
                         /\ n \in call[c].roles => could'[c] \/ Configured(c)
                         /\ Configured(c) \/ u \in must'[c] => n \in call[c].roles)
    BY DEF OpenHolds, Configured, u, n, GrantsIn, GroupsOf
  <2> QED BY <1>6, <2>1, <2>2, <2>3, <2>4, <2>5
<1> QED BY <1>2, <1>4, <1>7

\* A call whose history is kept while something changes, and that is not answered by it.
LEMMA WitnessKept ==
    ASSUME TypeOK, NEW c \in Calls, CallHolds(c), Witness(bindings', member'),
           call'[c] = call[c], UNCHANGED <<cache, flight>>
    PROVE  CallHolds(c)'
<1>1. CallTypes(c)
  BY CallIsTyped
<1>2. CASE Open(c)
  <2>1. OpenHolds(c)' /\ recent[c] \subseteq recent'[c] /\ must'[c] \subseteq must[c]
    BY <1>2, WitnessHolds
  <2> QED BY <1>2, <2>1 DEF CallHolds, LookupHolds, Bounds, Open
<1>3. CASE ~Open(c)
  <2>1. must'[c] = IF call[c].pc = "idle" THEN {} ELSE must[c]
    BY <1>3 DEF Witness
  <2>2. could'[c] = (call[c].pc # "idle" /\ could[c])
    BY <1>1, <1>3 DEF Witness, CallTypes
  <2> QED BY <1>3, <2>1, <2>2 DEF CallHolds, Open, Configured
<1> QED BY <1>2, <1>3

LEMMA WorkspaceCalls ==
    ASSUME TypeOK, NEW c \in Calls, CallHolds(c), Workspace
    PROVE  CallHolds(c)'
<1>1. CASE Tick
  <2> DEFINE u == call[c].who
  <2>1. call[c].pc \in {"groups", "wait"} => u \in Operators
    BY DEF CallHolds, Open, OpenHolds
  <2>2. ASSUME u \in Operators
        PROVE  /\ cache'[u].left > 0 => cache[u].left > 0 /\ cache'[u].groups = cache[u].groups
               /\ flight'[u].pc = "read" => flight[u].pc = "read" /\ flight'[u].groups = flight[u].groups
    <3>1. /\ cache'[u] = IF cache[u].left > 1 THEN [cache[u] EXCEPT !.left = @ - 1] ELSE NoEntry
          /\ flight'[u] = IF flight[u].pc = "read" THEN [flight[u] EXCEPT !.age = @ + 1] ELSE flight[u]
      BY <1>1, <2>2 DEF Tick
    <3>2. cache[u] \in [groups : SUBSET Groups, left : 0..Ttl] /\ flight[u] \in FlightRecord
      BY <2>2, RecordTypes DEF TypeOK
    <3> QED BY <3>1, <3>2, WindowType DEF NoEntry, FlightRecord
  <2>3. UNCHANGED <<bindings, call, could, must, recent>>
    BY <1>1 DEF Tick
  <2>4. call[c].pc \in {"groups", "wait"} => LookupHolds(c)'
    BY <2>1, <2>2, <2>3 DEF CallHolds, LookupHolds, Bounds
  <2>5. u \in Operators => \A g \in Groups : member'[u][g].in = member[u][g].in
    BY <1>1 DEF Tick, TypeOK
  <2>6. CASE u \in Operators
    BY <2>3, <2>4, <2>5, <2>6, CallKept
  <2>7. CASE u \notin Operators
    BY <2>3, <2>7 DEF CallHolds, Open, OpenHolds, Configured
  <2> QED BY <2>6, <2>7
<1>2. ASSUME NEW v \in Operators, NEW g \in Groups, ChangeMembership(v, g) PROVE CallHolds(c)'
  <2>1. Witness(bindings', member')
    BY <1>2 DEF ChangeMembership, Witness
  <2> QED BY <1>2, <2>1, WitnessKept DEF ChangeMembership
<1> QED BY <1>1, <1>2 DEF Workspace

\* What a lookup does to the calls that wait for it.
LEMMA ReadCalls ==
    ASSUME TypeOK, NEW c \in Calls, CallHolds(c), NEW v \in Operators, LookupReads(v)
    PROVE  CallHolds(c)'
<1>1. UNCHANGED <<bindings, member, cache, call, could, must, recent>>
  BY DEF LookupReads
<1>2. ASSUME call[c].pc \in {"groups", "wait"} PROVE LookupHolds(c)'
  <2> DEFINE u == call[c].who
  <2>1. OpenHolds(c) /\ LookupHolds(c)
    BY <1>2 DEF CallHolds, Open
  <2>2. CASE u # v
    <3>1. flight'[u] = flight[u]
      BY <2>1, <2>2 DEF LookupReads, OpenHolds, TypeOK
    <3> QED BY <1>1, <2>1, <3>1 DEF LookupHolds, Bounds
  <2>3. CASE u = v
    <3>1. flight'[u].groups = GroupsOf(member, u)
      BY <2>1, <2>3, RecordTypes DEF LookupReads, OpenHolds
    <3>2. GroupsOf(member, u) \subseteq recent[c] /\ must[c] \subseteq {u} \cup GroupsOf(member, u)
      BY <2>1 DEF OpenHolds
    <3>3. u \notin Groups
      BY <2>1, AuthorizationAssumption DEF OpenHolds
    <3>4. Bounds(GroupsOf(member, u), c)
      BY <3>2, <3>3 DEF Bounds
    <3> QED BY <1>1, <2>1, <3>1, <3>4 DEF LookupHolds, Bounds
  <2> QED BY <2>2, <2>3
<1> QED BY <1>1, <1>2, CallKept

LEMMA AnswerCalls ==
    ASSUME TypeOK, NEW c \in Calls, CallHolds(c), NEW v \in Operators, LookupAnswers(v)
    PROVE  CallHolds(c)'
<1> DEFINE u == call[c].who
<1>1. UNCHANGED <<bindings, member, could, must, recent>> /\ flight[v].pc = "read"
  BY DEF LookupAnswers
<1>2. /\ cache'[v].groups = flight[v].groups /\ flight'[v].pc = "none"
      /\ \A x \in Operators : x # v => cache'[x] = cache[x] /\ flight'[x] = flight[x]
  BY RecordTypes DEF LookupAnswers, TypeOK, NoFlight
<1>3. ASSUME call[c].pc \in {"groups", "wait"}
      PROVE  OpenHolds(c) /\ LookupHolds(c) /\ u \in Operators /\ (u = v => Bounds(flight[v].groups, c))
  BY <1>1, <1>3 DEF CallHolds, Open, LookupHolds, OpenHolds
<1>4. CASE Waits(c, v)
  <2>1. call[c].pc = "wait" /\ u = v
    BY <1>4 DEF Waits
  <2>2. call'[c] = [call[c] EXCEPT !.pc = "bindings", !.groups = flight[v].groups]
    BY <1>4 DEF LookupAnswers
  <2>3. /\ call'[c].who = u /\ call'[c].needs = call[c].needs /\ call'[c].roles = call[c].roles
        /\ call'[c].pc = "bindings" /\ call'[c].groups = flight[v].groups
    BY <2>2, RecordTypes DEF CallRecord
  <2>4. OpenHolds(c)'
    BY <1>1, <1>3, <2>1, <2>3 DEF OpenHolds, GrantsIn, GroupsOf, Configured
  <2> QED BY <1>1, <1>3, <2>1, <2>3, <2>4 DEF CallHolds, Open, Bounds
<1>5. CASE ~Waits(c, v)
  <2>1. call'[c] = call[c]
    BY <1>5 DEF LookupAnswers
  <2>2. call[c].pc \in {"groups", "wait"} => LookupHolds(c)'
    BY <1>1, <1>2, <1>3, <2>1 DEF LookupHolds, Bounds
  <2> QED BY <1>1, <2>1, <2>2, CallKept
<1> QED BY <1>4, <1>5

LEMMA FailCalls ==
    ASSUME TypeOK, NEW c \in Calls, CallHolds(c), NEW v \in Operators, LookupFails(v)
    PROVE  CallHolds(c)'
<1>1. UNCHANGED <<bindings, member, cache>>
  BY DEF LookupFails
<1>2. CASE Waits(c, v)
  <2>1. call'[c] = NoCall
    BY <1>2 DEF LookupFails, End
  <2> QED BY <2>1 DEF CallHolds, Open, NoCall
<1>3. CASE ~Waits(c, v)
  <2>1. call'[c] = call[c] /\ could'[c] = could[c] /\ must'[c] = must[c] /\ recent'[c] = recent[c]
    BY <1>3, CallIsTyped DEF LookupFails, End, CallTypes
  <2>2. \A x \in Operators : flight'[x] = flight[x] \/ flight'[x].pc = "none"
    BY RecordTypes DEF LookupFails, NoFlight
  <2>3. call[c].pc \in {"groups", "wait"} => LookupHolds(c)'
    BY <1>1, <2>1, <2>2 DEF LookupHolds, Bounds, CallHolds, Open, OpenHolds
  <2> QED BY <1>1, <2>1, <2>3, CallKept
<1> QED BY <1>2, <1>3

\* A call begins with what is true of its operator, or was a moment ago.
LEMMA BeginCalls ==
    ASSUME AuthInv, NEW c \in Calls, NEW u \in Operators, NEW role \in Roles, Begin(c, u, role)
    PROVE  CallHolds(c)'
<1> DEFINE near == {g \in Groups : In(u, g) \/ member[u][g].age < Window}
           sure == {g \in Groups : In(u, g) /\ member[u][g].age = Window}
           own == (IF u \in Bootstrap THEN {"admin"} ELSE {}) \cup {r \in Roles : GrantsIn(bindings, u, r)}
<1>1. TypeOK /\ Fresh(u)
  BY DEF AuthInv
<1>2. /\ call'[c] = [pc |-> "groups", who |-> u, needs |-> role, groups |-> {}, roles |-> own]
      /\ recent'[c] = near
      /\ could'[c] = \E x \in {u} \cup near : GrantsIn(bindings, x, role)
      /\ must'[c] = {x \in {u} \cup sure : GrantsIn(bindings, x, role)}
      /\ UNCHANGED <<bindings, member, cache, flight>>
  BY <1>1 DEF Begin, TypeOK, In
<1>3. /\ \A g \in Groups : member[u][g].age \in Nat
      /\ cache[u].left \in 0..Ttl /\ cache[u].groups \subseteq Groups
      /\ flight[u].age \in 0..MaxLatency /\ flight[u].groups \subseteq Groups
  BY <1>1 DEF TypeOK
<1>4. ASSUME NEW groups \in SUBSET Groups, NEW since \in Nat, since < Window,
             Reflects(groups, u, since)
      PROVE  groups \subseteq near /\ sure \subseteq groups
  BY <1>3, <1>4, WindowType DEF Reflects
<1>5. u \notin Groups
  BY AuthorizationAssumption
<1>6. /\ cache[u].left > 0 => cache[u].groups \subseteq near /\ sure \subseteq cache[u].groups
      /\ flight[u].pc = "read" => flight[u].groups \subseteq near /\ sure \subseteq flight[u].groups
  <2>1. cache[u].left > 0 => MaxLatency + (Ttl - cache[u].left) \in Nat
                             /\ MaxLatency + (Ttl - cache[u].left) < Window
    BY <1>3, WindowType DEF Window
  <2>2. flight[u].age \in Nat /\ flight[u].age < Window
    BY <1>3, WindowType DEF Window
  <2> QED BY <1>1, <1>3, <1>4, <2>1, <2>2 DEF Fresh
<1> HIDE DEF near, sure, own
<1>7. LookupHolds(c)'
  <2>1. must'[c] \cap Groups \subseteq sure
    BY <1>2, <1>5
  <2> QED BY <1>2, <1>6, <2>1 DEF LookupHolds, Bounds
<1>8. OpenHolds(c)'
  <2>1. GroupsOf(member, u) \subseteq near /\ sure \subseteq GroupsOf(member, u)
    BY DEF GroupsOf, near, sure, In
  <2>2. role \in own => (GrantsIn(bindings, u, role) \/ (u \in Bootstrap /\ role = "admin"))
    BY DEF own
  <2>3. (u \in Bootstrap /\ role = "admin") \/ GrantsIn(bindings, u, role) => role \in own
    BY DEF own
  <2> QED BY <1>2, <2>1, <2>2, <2>3 DEF OpenHolds, Configured, GrantsIn, GroupsOf
<1> QED BY <1>2, <1>7, <1>8 DEF CallHolds, Open

\* A call that resolves: its verdict follows from what it found.
LEMMA ResolveCalls ==
    ASSUME TypeOK, NEW c \in Calls, CallHolds(c), Resolve(c)
    PROVE  CallHolds(c)'
<1>1. OpenHolds(c) /\ Bounds(call[c].groups, c)
  BY DEF Resolve, CallHolds, Open
<1>2. /\ call'[c].pc = VerdictOn(c) /\ call'[c].who = call[c].who /\ call'[c].needs = call[c].needs
      /\ UNCHANGED <<could, must>>
  <2> DEFINE V == VerdictOn(c)  F == FoundBy(c)
  <2>1. call' = [call EXCEPT ![c] = [call[c] EXCEPT !.pc = V, !.roles = F, !.groups = {}]]
    BY ResolvedRoles
  <2> HIDE DEF V, F
  <2>2. call'[c].pc = V /\ call'[c].who = call[c].who /\ call'[c].needs = call[c].needs
    BY <2>1, RecordTypes DEF CallRecord
  <2> QED BY <2>2 DEF Resolve, V
<1>3. call[c].needs \in FoundBy(c) => could[c] \/ Configured(c)
  <2>1. ASSUME NEW g \in call[c].groups, GrantsIn(bindings, g, call[c].needs) PROVE could[c]
    BY <1>1, <2>1 DEF OpenHolds, Bounds
  <2> QED BY <1>1, <2>1 DEF FoundBy, OpenHolds
<1>4. ASSUME NEW x \in must[c] PROVE call[c].needs \in FoundBy(c)
  <2>1. GrantsIn(bindings, x, call[c].needs) /\ (x = call[c].who \/ x \in Groups)
    BY <1>1 DEF OpenHolds, GroupsOf
  <2>2. CASE x = call[c].who
    BY <1>1, <2>2 DEF OpenHolds, FoundBy
  <2>3. CASE x \in Groups
    BY <1>1, <2>1, <2>3 DEF OpenHolds, Bounds, FoundBy
  <2> QED BY <2>1, <2>2, <2>3
<1>5. Configured(c) => call[c].needs \in FoundBy(c)
  BY <1>1 DEF OpenHolds, FoundBy
<1> QED BY <1>2, <1>3, <1>4, <1>5 DEF CallHolds, Open, VerdictOn, Configured

LEMMA ServeCalls ==
    ASSUME AuthInv, NEW c \in Calls, NEW d \in Calls, Serve(d)
    PROVE  CallHolds(c)'
<1>1. TypeOK /\ CallHolds(c) /\ CallHolds(d) /\ CallTypes(c)
  BY CallIsTyped DEF AuthInv
<1>2. ASSUME c # d, call'[c] = call[c], could'[c] = could[c], must'[c] = must[c],
             recent'[c] = recent[c], UNCHANGED <<bindings, member, cache, flight>>
      PROVE  CallHolds(c)'
  BY <1>1, <1>2, CallKept DEF CallHolds, LookupHolds, Bounds
<1>3. ASSUME NEW u \in Operators, NEW role \in Roles, Begin(d, u, role) PROVE CallHolds(c)'
  <2>1. c # d => call'[c] = call[c] /\ could'[c] = could[c] /\ must'[c] = must[c]
                 /\ recent'[c] = recent[c]
    BY <1>1, <1>3 DEF Begin, TypeOK
  <2> QED BY <1>2, <1>3, <2>1, BeginCalls DEF Begin
<1>4. CASE CacheHit(d)
  <2>1. c # d => call'[c] = call[c]
    BY <1>1, <1>4, RecordTypes DEF CacheHit
  <2>2. UNCHANGED <<bindings, member, cache, flight, could, must, recent>>
    BY <1>4 DEF CacheHit
  <2>3. CASE c = d
    <3> DEFINE G == cache[call[c].who].groups
    <3>1. call[c].pc = "groups" /\ OpenHolds(c) /\ Bounds(G, c)
      BY <1>1, <1>4, <2>3 DEF CacheHit, CallHolds, Open, LookupHolds, OpenHolds, TypeOK
    <3>2. call' = [call EXCEPT ![c].pc = "bindings", ![c].groups = G]
      BY <1>4, <2>3 DEF CacheHit
    <3> HIDE DEF G
    <3>3. /\ call'[c].pc = "bindings" /\ call'[c].groups = G /\ call'[c].who = call[c].who
          /\ call'[c].needs = call[c].needs /\ call'[c].roles = call[c].roles
      BY <1>1, <3>2, RecordTypes DEF CallRecord
    <3> QED BY <2>2, <3>1, <3>3 DEF CallHolds, Open, OpenHolds, Bounds, GrantsIn, GroupsOf, Configured
  <2> QED BY <1>2, <2>1, <2>2, <2>3
<1>5. CASE CacheMiss(d)
  <2>1. call[d].who \in Operators /\ call[d].pc = "groups"
    BY <1>1, <1>5 DEF CacheMiss, CallHolds, Open, OpenHolds
  <2>2. UNCHANGED <<bindings, member, cache, could, must, recent>>
    BY <1>5 DEF CacheMiss
  <2>3. call'[c] = call[c] \/ (c = d /\ call'[c] = [call[c] EXCEPT !.pc = "wait"])
    BY <1>1, <1>5, RecordTypes DEF CacheMiss
  <2>4. \A x \in Operators : flight'[x] = flight[x] \/ flight'[x].pc = "asked"
    BY <1>1, <1>5, <2>1, RecordTypes DEF CacheMiss, FlightRecord
  <2>5. /\ call'[c].who = call[c].who /\ call'[c].needs = call[c].needs /\ call'[c].roles = call[c].roles
        /\ call'[c].groups = call[c].groups
        /\ call'[c].pc = call[c].pc \/ (call[c].pc = "groups" /\ call'[c].pc = "wait")
    BY <1>1, <2>1, <2>3, RecordTypes DEF CallRecord
  <2>6. call[c].pc \in {"groups", "wait"} => LookupHolds(c)'
    BY <1>1, <2>2, <2>4, <2>5 DEF CallHolds, Open, OpenHolds, LookupHolds, Bounds
  <2>7. Open(c) => OpenHolds(c)'
    BY <1>1, <2>2, <2>5 DEF CallHolds, OpenHolds, GrantsIn, GroupsOf, Configured
  <2> QED BY <1>1, <2>2, <2>5, <2>6, <2>7 DEF CallHolds, Open, Bounds, Configured
<1>6. CASE Resolve(d)
  <2>1. c # d => call'[c] = call[c] /\ recent'[c] = recent[c]
    BY <1>1, <1>6, ResolvedRoles DEF Resolve, TypeOK
  <2> QED BY <1>1, <1>2, <1>6, <2>1, ResolveCalls DEF Resolve
<1>7. CASE Refuse(d) \/ Decide(d)
  <2>1. End({d}) /\ UNCHANGED <<bindings, member, cache, flight, recent>>
    BY <1>7 DEF Refuse, Decide
  <2>2. c = d => call'[c] = NoCall
    BY <2>1 DEF End
  <2>3. c # d => call'[c] = call[c] /\ could'[c] = could[c] /\ must'[c] = must[c]
    BY <1>1, <2>1 DEF End, CallTypes
  <2> QED BY <1>2, <2>1, <2>2, <2>3 DEF CallHolds, Open, NoCall
<1>8. ASSUME NEW x \in Bindable, NEW b, EditBinding(d, x, b) PROVE CallHolds(c)'
  <2>1. Witness(bindings', member') /\ UNCHANGED <<cache, flight>>
    BY <1>8 DEF EditBinding, Witness
  <2>2. c = d => call'[c] = NoCall
    BY <1>1, <1>8 DEF EditBinding, TypeOK
  <2>3. c # d => call'[c] = call[c]
    BY <1>1, <1>8 DEF EditBinding, TypeOK
  <2> QED BY <1>1, <2>1, <2>2, <2>3, WitnessKept DEF CallHolds, Open, NoCall
<1>9. Handler(d) => Decide(d) \/ \E x \in Bindable : \E b : EditBinding(d, x, b)
  BY DEF Handler, RemoveRoleBinding, SetRoleBinding
<1> QED BY <1>3, <1>4, <1>5, <1>6, <1>7, <1>8, <1>9 DEF Serve

-----------------------------------------------------------------------------

\* What is cached or read of Workspace is no older than its time allows, and what every
\* open call can still find lies between what it held throughout and what it held at all
\* (api/roles.ts, api/lookup/groupMemberships.ts).
THEOREM AuthInductive == Spec => []AuthInv
<1>1. Init => AuthInv
  <2> SUFFICES ASSUME Init PROVE AuthInv
    OBVIOUS
  <2>1. \A c \in Calls : call[c].pc = "idle"
    BY DEF Init, NoCall
  <2>2. \A u \in Operators : flight[u].pc = "none" /\ cache[u].left = 0
    BY DEF Init, NoFlight, NoEntry
  <2> QED BY <2>1, <2>2, InitTypes DEF AuthInv, CallHolds, Open, Fresh
<1>2. AuthInv /\ [Next]_vars => AuthInv'
  <2> SUFFICES ASSUME AuthInv, [Next]_vars PROVE AuthInv'
    OBVIOUS
  <2>1. ASSUME NEW c \in Calls PROVE CallHolds(c)'
    <3>1. TypeOK /\ CallHolds(c)
      BY DEF AuthInv
    <3>2. CASE UNCHANGED vars
      BY <3>1, <3>2 DEF vars, CallHolds, OpenHolds, LookupHolds, Bounds, Open, GrantsIn, GroupsOf, Configured
    <3>3. ASSUME NEW v \in Operators, Lookup(v) PROVE CallHolds(c)'
      BY <3>1, <3>3, ReadCalls, AnswerCalls, FailCalls DEF Lookup
    <3> QED BY <3>1, <3>2, <3>3, WorkspaceCalls, ServeCalls DEF Next
  <2> QED BY <2>1, TypeStep, FreshStep DEF AuthInv
<1> QED BY <1>1, <1>2, PTL DEF Spec

\* A call is let through only with a role that somebody it was, or was lately among, held
\* at some instant since it came in, whatever the cache and the lookups did (roles.ts).
THEOREM AllowedHeldIt == Spec => []AllowedWasHeld
<1>1. AuthInv => AllowedWasHeld
  BY DEF AuthInv, CallHolds, AllowedWasHeld, Configured
<1> QED BY <1>1, AuthInductive, PTL

\* A call is refused only when no single binding granted its role all the time, over a
\* membership that was settled when it came in: no outage and no stale entry takes a
\* role away (roles.ts, "must not silently downgrade someone").
THEOREM HeldNotRefused == Spec => []HeldIsNeverRefused
<1>1. AuthInv => HeldIsNeverRefused
  BY DEF AuthInv, CallHolds, HeldIsNeverRefused, Configured
<1> QED BY <1>1, AuthInductive, PTL

=============================================================================
