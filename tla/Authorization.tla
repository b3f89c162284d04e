--------------------------- MODULE Authorization ---------------------------
(***************************************************************************)
(* Who may do what: every route of the API service runs behind            *)
(* requireRole (api/authz.ts), which asks the resolver (api/roles.ts) for   *)
(* the operator's own binding, for the Workspace groups the operator is in *)
(* (api/lookup/groupMemberships.ts, a cache over the worker's Directory     *)
(* lookup) and for the bindings of those groups, one after the other. The  *)
(* routes behind it edit the bindings (api/routes/roleBindings.ts,          *)
(* shared/store.ts) or decide a halted step (api/routes/requests.ts).       *)
(*                                                                         *)
(* One instance of the service is modelled: instances share nothing but    *)
(* the bindings. Time is counted in what is left of it, so that it has no   *)
(* end: an entry of the cache holds the time it has left, a membership the *)
(* time since it changed, up to Window.                                    *)
(***************************************************************************)
EXTENDS Naturals, FiniteSets

CONSTANTS
    Operators, Groups,
    Outsiders,      \* operators that are no Workspace users, and so in no group
    Bindable,       \* bound of the model: the subjects whose bindings are edited
    Calls,          \* HTTP requests the instance serves at once
    Bootstrap,      \* BOOTSTRAP_ADMINS
    Requester,      \* who submitted the request that is halted
    RequiredRole,   \* the role its snapshotted policy asks of an approver
    Ttl,            \* DEFAULT_TTL_MS
    MaxLatency,     \* the longest a lookup's answer is under way
    Nobody

ASSUME AuthorizationAssumption ==
    /\ Operators \cap Groups = {}
    /\ Bootstrap \subseteq Operators /\ Outsiders \subseteq Operators
    /\ Bindable \subseteq Operators \cup Groups
    /\ Nobody \notin Operators
    /\ Ttl \in Nat \ {0} /\ MaxLatency \in Nat

Roles == {"approver", "admin"}
Subjects == Operators \cup Groups
Window == Ttl + MaxLatency

VARIABLES
    bindings,    \* the roleBindings collection: a kind and roles, or nothing
    member,      \* Workspace: who is in which group, and for how long that is so
    cache,       \* the membership cache: the groups, and the time the entry has left
    flight,      \* the lookup under way for an operator
    call,        \* the calls being served
    could, must, \* history: did the needed role hold at some instant, by which source always
    recent       \* history: the groups the operator may still be taken to be in

vars == <<bindings, member, cache, flight, call, could, must, recent>>

NoBinding == [kind |-> "none", roles |-> {}]
NoCall == [pc |-> "idle", who |-> Nobody, needs |-> "none", roles |-> {}, groups |-> {}]
NoEntry == [groups |-> {}, left |-> 0]
NoFlight == [pc |-> "none", groups |-> {}, age |-> 0]

TypeOK ==
    /\ bindings \in [Subjects -> [kind : {"none", "user", "group"}, roles : SUBSET Roles]]
    /\ member \in [Operators -> [Groups -> [in : BOOLEAN, age : 0..Window]]]
    /\ cache \in [Operators -> [groups : SUBSET Groups, left : 0..Ttl]]
    /\ flight \in [Operators -> [pc : {"none", "asked", "read"},
                                 groups : SUBSET Groups, age : 0..MaxLatency]]
    /\ call \in [Calls -> [pc : {"idle", "groups", "wait", "bindings", "allowed", "refused"},
                           who : Operators \cup {Nobody}, needs : Roles \cup {"none"},
                           roles : SUBSET Roles, groups : SUBSET Groups]]
    /\ could \in [Calls -> BOOLEAN]
    /\ must \in [Calls -> SUBSET Subjects]
    /\ recent \in [Calls -> SUBSET Groups]

Init ==
    /\ bindings = [x \in Subjects |-> NoBinding]
    /\ member \in [Operators -> [Groups -> [in : BOOLEAN, age : {Window}]]]
    /\ \A u \in Outsiders, g \in Groups : ~member[u][g].in
    /\ cache = [u \in Operators |-> NoEntry]
    /\ flight = [u \in Operators |-> NoFlight]
    /\ call = [c \in Calls |-> NoCall]
    /\ could = [c \in Calls |-> FALSE]
    /\ must = [c \in Calls |-> {}]
    /\ recent = [c \in Calls |-> {}]

-----------------------------------------------------------------------------
\* What the bindings grant. A binding grants through its kind: a group's address that
\* is bound as a user, or a person's that is bound as a group, grants nothing.

GrantsIn(b, x, role) ==
    b[x].kind = (IF x \in Groups THEN "group" ELSE "user") /\ role \in b[x].roles

GroupsOf(m, u) == {g \in Groups : m[u][g].in}

\* The history of the calls that have no verdict yet, over the bindings b and the
\* memberships m that hold from here on.
Open(c) == call[c].pc \in {"groups", "wait", "bindings"}

Witness(b, m) ==
    /\ recent' = [c \in Calls |->
         IF Open(c) THEN recent[c] \cup GroupsOf(m, call[c].who) ELSE recent[c]]
    /\ could' = [c \in Calls |-> call'[c].pc # "idle" /\ (could[c] \/ (Open(c) /\
         \E x \in {call[c].who} \cup recent'[c] : GrantsIn(b, x, call[c].needs)))]
    /\ must' = [c \in Calls |-> IF Open(c)
         THEN {x \in must[c] : GrantsIn(b, x, call[c].needs) /\ (x \in Groups => m[call[c].who][x].in)}
         ELSE IF call'[c].pc = "idle" THEN {} ELSE must[c]]

-----------------------------------------------------------------------------
\* Workspace, and the clock.

ChangeMembership(u, g) ==
    /\ u \notin Outsiders
    /\ member' = [member EXCEPT ![u][g] = [in |-> ~@.in, age |-> 0]]
    /\ UNCHANGED <<bindings, cache, flight, call>>
    /\ Witness(bindings, member')

Older(n, most) == IF n < most THEN n + 1 ELSE n

\* An answer is not under way for longer than MaxLatency.
Tick ==
    /\ \A u \in Operators : flight[u].pc = "read" => flight[u].age < MaxLatency
    /\ member' = [u \in Operators |-> [g \in Groups |->
                    [member[u][g] EXCEPT !.age = Older(@, Window)]]]
    /\ cache' = [u \in Operators |->
         IF cache[u].left > 1 THEN [cache[u] EXCEPT !.left = @ - 1] ELSE NoEntry]
    /\ flight' = [u \in Operators |->
         IF flight[u].pc = "read" THEN [flight[u] EXCEPT !.age = @ + 1] ELSE flight[u]]
    /\ UNCHANGED <<bindings, call, could, must, recent>>

-----------------------------------------------------------------------------
\* A call: requireRole() and rolesFor(), one read at a time.

\* A route is called, and the operator's own roles are read: from configuration, and from
\* a binding of kind 'user'. The routes of the bindings need an admin, the decision needs
\* an approver.
Begin(c, u, role) ==
    /\ call[c].pc = "idle"
    /\ LET configured == IF u \in Bootstrap THEN {"admin"} ELSE {}
       IN  call' = [call EXCEPT ![c] = [pc |-> "groups", who |-> u, needs |-> role, groups |-> {},
                      roles |-> configured \cup {r \in Roles : GrantsIn(bindings, u, r)}]]
    /\ LET near == {g \in Groups : member[u][g].in \/ member[u][g].age < Window}
           sure == {g \in Groups : member[u][g].in /\ member[u][g].age = Window}
       IN  /\ recent' = [recent EXCEPT ![c] = near]
           /\ could' = [could EXCEPT ![c] = \E x \in {u} \cup near : GrantsIn(bindings, x, role)]
           /\ must' = [must EXCEPT ![c] = {x \in {u} \cup sure : GrantsIn(bindings, x, role)}]
    /\ UNCHANGED <<bindings, member, cache, flight>>

\* A set of calls is answered, and what they were is forgotten.
End(C) ==
    /\ call' = [c \in Calls |-> IF c \in C THEN NoCall ELSE call[c]]
    /\ could' = [c \in Calls |-> c \notin C /\ could[c]]
    /\ must' = [c \in Calls |-> IF c \in C THEN {} ELSE must[c]]

\* groupsFor(): the cache answers while its entry has time left; else the call joins
\* the lookup under way, or starts one.
CacheHit(c) ==
    LET u == call[c].who IN
    /\ call[c].pc = "groups" /\ cache[u].left > 0
    /\ call' = [call EXCEPT ![c].pc = "bindings", ![c].groups = cache[u].groups]
    /\ UNCHANGED <<bindings, member, cache, flight, could, must, recent>>

CacheMiss(c) ==
    LET u == call[c].who IN
    /\ call[c].pc = "groups" /\ cache[u].left = 0
    /\ call' = [call EXCEPT ![c].pc = "wait"]
    /\ flight' = IF flight[u].pc = "none" THEN [flight EXCEPT ![u].pc = "asked"] ELSE flight
    /\ UNCHANGED <<bindings, member, cache, could, must, recent>>

\* The worker reads the Directory. An operator that is no Workspace user is in no group.
LookupReads(u) ==
    /\ flight[u].pc = "asked"
    /\ flight' = [flight EXCEPT ![u] = [pc |-> "read", groups |-> GroupsOf(member, u), age |-> 0]]
    /\ UNCHANGED <<bindings, member, cache, call, could, must, recent>>

Waits(c, u) == call[c].pc = "wait" /\ call[c].who = u

\* Mutant: an entry is good for one instant more.
LookupAnswersMutant(u) ==
    /\ flight[u].pc = "read"
    /\ cache' = [cache EXCEPT ![u] = [groups |-> flight[u].groups, left |-> Ttl + 1]]
    /\ flight' = [flight EXCEPT ![u] = NoFlight]
    /\ call' = [c \in Calls |-> IF Waits(c, u)
                  THEN [call[c] EXCEPT !.pc = "bindings", !.groups = flight[u].groups]
                  ELSE call[c]]
    /\ UNCHANGED <<bindings, member, could, must, recent>>

\* The answer is cached from now on, and every call that waits for it goes on.
LookupAnswers(u) ==
    /\ flight[u].pc = "read"
    /\ cache' = [cache EXCEPT ![u] = [groups |-> flight[u].groups, left |-> Ttl]]
    /\ flight' = [flight EXCEPT ![u] = NoFlight]
    /\ call' = [c \in Calls |-> IF Waits(c, u)
                  THEN [call[c] EXCEPT !.pc = "bindings", !.groups = flight[u].groups]
                  ELSE call[c]]
    /\ UNCHANGED <<bindings, member, could, must, recent>>

\* Mutant: a failed lookup reads as membership of no group.
LookupFailsMutant(u) ==
    /\ flight[u].pc # "none"
    /\ flight' = [flight EXCEPT ![u] = NoFlight]
    /\ call' = [c \in Calls |->
         IF Waits(c, u) THEN [call[c] EXCEPT !.pc = "bindings"] ELSE call[c]]
    /\ UNCHANGED <<bindings, member, cache, could, must, recent>>

\* The lookup fails: every call that waits for it answers 500.
LookupFails(u) ==
    /\ flight[u].pc # "none"
    /\ flight' = [flight EXCEPT ![u] = NoFlight]
    /\ LET lost == {c \in Calls : Waits(c, u)}
       IN  /\ End(lost)
           /\ recent' = [c \in Calls |-> IF c \in lost THEN {} ELSE recent[c]]
    /\ UNCHANGED <<bindings, member, cache>>

\* The bindings of the groups, and the verdict.
Resolve(c) ==
    /\ call[c].pc = "bindings"
    /\ LET found == call[c].roles \cup
             {r \in Roles : \E g \in call[c].groups : GrantsIn(bindings, g, r)}
           verdict == IF call[c].needs \in found THEN "allowed" ELSE "refused"
       IN  call' = [call EXCEPT ![c].pc = verdict, ![c].roles = found, ![c].groups = {}]
    /\ recent' = [recent EXCEPT ![c] = {}]
    /\ UNCHANGED <<bindings, member, cache, flight, could, must>>

Refuse(c) ==
    /\ call[c].pc = "refused"
    /\ End({c})
    /\ UNCHANGED <<bindings, member, cache, flight, recent>>

-----------------------------------------------------------------------------
\* The handlers.

\* Replaces a binding, or removes it, in one transaction. Any subject may be bound as
\* either kind.
EditBinding(c, x, b) ==
    /\ call[c].pc = "allowed" /\ call[c].needs = "admin"
    /\ bindings' = [bindings EXCEPT ![x] = b]
    /\ call' = [call EXCEPT ![c] = NoCall]
    /\ Witness(bindings', member)
    /\ UNCHANGED <<member, cache, flight>>

SetRoleBinding(c, x, kind, roles) == EditBinding(c, x, [kind |-> kind, roles |-> roles])

RemoveRoleBinding(c, x) == EditBinding(c, x, NoBinding)

\* The decision of a halted step (decideStep(), see Lifecycle).
Decide(c) ==
    /\ call[c].pc = "allowed" /\ call[c].needs = "approver"
    /\ End({c})
    /\ UNCHANGED <<bindings, member, cache, flight, recent>>

\* What the approvals inbox shows an operator who holds these roles.
InInbox(u, roles) == u # Requester /\ RequiredRole \in roles

-----------------------------------------------------------------------------

Handler(c) ==
    \/ \E x \in Bindable : RemoveRoleBinding(c, x)
    \/ \E x \in Bindable, kind \in {"user", "group"}, roles \in SUBSET Roles \ {{}} :
          SetRoleBinding(c, x, kind, roles)
    \/ Decide(c)

Serve(c) ==
    \/ \E u \in Operators, role \in Roles : Begin(c, u, role)
    \/ CacheHit(c) \/ CacheMiss(c) \/ Resolve(c) \/ Refuse(c) \/ Handler(c)

Lookup(u) == LookupReads(u) \/ LookupAnswers(u) \/ LookupFails(u)

Workspace == Tick \/ \E u \in Operators, g \in Groups : ChangeMembership(u, g)

Next == Workspace \/ (\E u \in Operators : Lookup(u)) \/ \E c \in Calls : Serve(c)

Spec == Init /\ [][Next]_vars

-----------------------------------------------------------------------------

\* Withdrawing a binding takes effect at once, and withdrawing a membership within the
\* lifetime of a cache entry and the latency of a lookup (groupMemberships.ts: "makes
\* only Workspace group membership stale"): a call that is let through needed a role
\* that a binding of the operator, or of a group the operator was lately in, granted
\* at some instant since the call came in.
AllowedWasHeld ==
    \A c \in Calls : call[c].pc = "allowed" =>
        could[c] \/ (call[c].who \in Bootstrap /\ call[c].needs = "admin")

\* A Directory outage, a shared lookup or a stale entry never downgrade anybody (roles.ts:
\* "must not silently downgrade someone"): a call is refused only when no single binding
\* granted the role from its arrival on, over a membership that was settled before.
HeldIsNeverRefused ==
    \A c \in Calls : call[c].pc = "refused" =>
        must[c] = {} /\ ~(call[c].who \in Bootstrap /\ call[c].needs = "admin")

\* The decision route admits, to decide a step, whom the inbox shows it to, the requester
\* aside (requests.ts: the inbox uses "the same resolveStepPolicy the executor and the
\* decision route use", so that nobody sees "work they are about to be refused").
DecisionsMatchInbox ==
    \A c \in Calls : call[c].pc = "allowed" /\ call[c].needs = "approver" =>
        call[c].who = Requester \/ InInbox(call[c].who, call[c].roles)

=============================================================================
