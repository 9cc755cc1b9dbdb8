------------------------------- MODULE Oplog -------------------------------
(***************************************************************************)
(* The rules of the operation journal: internal/oplog.  A State is what    *)
(* State holds in memory; Refusal and After are State.Apply, split into    *)
(* the error it returns and the state it leaves.  A record that is refused *)
(* changes nothing, so After is used only where Refusal says "none".       *)
(*                                                                         *)
(* Data abstracted away: payload bodies.  The content of an object is the  *)
(* identity <<key, ctr>> of the record that wrote it.                      *)
(***************************************************************************)
EXTENDS Integers, Sequences

CONSTANTS Keys,       \* key identifiers, compared as 8-byte strings: naturals
          Clients,    \* client ids
          Nodes,      \* node ids
          Routing,    \* the one routing object
          Settings,   \* the one settings object
          Network     \* what a genesis record is about

Objects == Clients \cup Nodes \cup {Routing, Settings}
Subjects == Keys \cup Objects

ASSUME KeysAreOrdered == Keys \subseteq Nat
ASSUME SubjectsAreDistinct ==
    /\ Keys \cap (Objects \cup {Network}) = {}
    /\ Clients \cap (Nodes \cup {Routing, Settings, Network}) = {}
    /\ Nodes \cap {Routing, Settings, Network} = {}
    /\ Routing # Settings /\ Routing # Network /\ Settings # Network

NoScope == 0
Viewer == 1
Operator == 2
Owner == 3
Scopes == NoScope..Owner

ClientKinds == {"client.add", "client.update", "client.revoke"}
NodeKinds == {"node.add", "node.update", "node.revoke"}
AdminKinds == {"admin.add", "admin.revoke"}
Kinds == ClientKinds \cup NodeKinds \cup AdminKinds
             \cup {"genesis", "routing.set", "settings.set"}

\* Kinds that fail when the object they name is absent.
NeedsObject == {"client.update", "client.revoke", "node.update", "node.revoke"}
Deletes == {"client.revoke", "node.revoke"}

RequiredScope(kind) == IF kind \in ClientKinds THEN Operator ELSE Owner

\* A record.  "flaw" tells a record whose signature or whose body does not
\* pass from one that is sound; "scope" is read in admin.add only, "owners"
\* in genesis only.
Record ==
    [kind : Kinds, key : Keys, ctr : Nat \ {0}, time : Nat \ {0},
     obj : Subjects \cup {Network}, scope : Viewer..Owner,
     owners : SUBSET Keys, flaw : {"none", "signature", "payload"}]

\* A record names an object of the sort its kind is about.
WellFormed(op) ==
    /\ op \in Record
    /\ op.kind \in AdminKinds => op.obj \in Keys
    /\ op.kind \in ClientKinds => op.obj \in Clients
    /\ op.kind \in NodeKinds => op.obj \in Nodes
    /\ op.kind = "routing.set" => op.obj = Routing
    /\ op.kind = "settings.set" => op.obj = Settings
    /\ op.kind = "genesis" => op.obj = Network

-----------------------------------------------------------------------------
\* Stamps and the last-writer-wins order.

NoStamp == <<>>
Absent == <<>>
NoGenesis == <<>>

Stamp(op) == <<op.time, op.key>>

Newer(s, t) == s[1] > t[1] \/ (s[1] = t[1] /\ s[2] > t[2])

EmptyState ==
    [genesis  |-> NoGenesis,
     admins   |-> [k \in Keys |-> NoScope],
     revoked  |-> {},
     content  |-> [o \in Objects |-> Absent],
     counters |-> [k \in Keys |-> 0],
     stamps   |-> [x \in Subjects |-> NoStamp]]

\* What a State can be, if it was made by records of R.
States(R) ==
    [genesis  : R \cup {NoGenesis},
     admins   : [Keys -> Scopes],
     revoked  : SUBSET Keys,
     content  : [Objects -> (Keys \X Nat) \cup {Absent}],
     counters : [Keys -> Nat],
     stamps   : [Subjects -> (Nat \X Keys) \cup {NoStamp}]]

Owners(s) == {k \in Keys : s.admins[k] = Owner}

\* Mistake: a write with the very stamp of the last one counts as newer.
SupersededByOlder(s, op) ==
    s.stamps[op.obj] # NoStamp /\ Newer(s.stamps[op.obj], Stamp(op))

\* Mistake: whatever comes last is kept.
SupersededNever(s, op) == FALSE

Superseded(s, op) ==
    s.stamps[op.obj] # NoStamp /\ ~Newer(Stamp(op), s.stamps[op.obj])

-----------------------------------------------------------------------------
\* State.Apply: the checks, in the order the code makes them.

GenesisRefusal(op) ==
    IF op.kind # "genesis" THEN "NoGenesis"
    ELSE IF op.flaw = "payload" THEN "BadPayload"
    ELSE IF op.key \notin op.owners THEN "UnknownKey"
    ELSE IF op.flaw = "signature" THEN "BadSignature"
    ELSE IF op.ctr # 1 THEN "Gap"
    ELSE "none"

Authorize(s, op) ==
    IF op.key \in s.revoked THEN "RevokedKey"
    ELSE IF s.admins[op.key] = NoScope THEN "UnknownKey"
    ELSE IF op.flaw = "signature" THEN "BadSignature"
    ELSE "none"

\* Mistake: off by one, the last record is taken a second time.
CheckSequenceRepeats(s, op) ==
    IF op.ctr < s.counters[op.key] THEN "Replay"
    ELSE IF op.ctr > s.counters[op.key] + 1 THEN "Gap"
    ELSE "none"

CheckSequence(s, op) ==
    IF op.ctr <= s.counters[op.key] THEN "Replay"
    ELSE IF op.ctr > s.counters[op.key] + 1 THEN "Gap"
    ELSE "none"

\* Mistake: ownersLeftWithout is not asked.
MutateRefusalAnyOwner(s, op) ==
    IF Superseded(s, op) THEN "none"
    ELSE IF op.kind \in NeedsObject /\ s.content[op.obj] = Absent
         THEN "NoSuchObject"
    ELSE IF op.kind = "admin.revoke" /\ s.admins[op.obj] = NoScope
         THEN "NoSuchObject"
    ELSE "none"

\* The errors mutate can return; a superseded write never reaches them.
MutateRefusal(s, op) ==
    IF Superseded(s, op) THEN "none"
    ELSE IF op.kind \in NeedsObject /\ s.content[op.obj] = Absent
         THEN "NoSuchObject"
    ELSE IF op.kind = "admin.revoke" /\ s.admins[op.obj] = NoScope
         THEN "NoSuchObject"
    ELSE IF op.kind = "admin.revoke" /\ Owners(s) \ {op.obj} = {}
         THEN "LastOwner"
    ELSE "none"

\* "known" is the set of kinds this build understands (Kind.Known).
Refusal(s, op, known) ==
    IF s.genesis = NoGenesis THEN GenesisRefusal(op)
    ELSE IF op.kind = "genesis" THEN "DoubleGenesis"
    ELSE IF Authorize(s, op) # "none" THEN Authorize(s, op)
    ELSE IF CheckSequence(s, op) # "none" THEN CheckSequence(s, op)
    ELSE IF op.kind \notin known THEN "none"
    ELSE IF op.flaw = "payload" THEN "BadPayload"
    ELSE IF s.admins[op.key] < RequiredScope(op.kind) THEN "Forbidden"
    ELSE MutateRefusal(s, op)

Accepts(s, op, known) == Refusal(s, op, known) = "none"

-----------------------------------------------------------------------------
\* State.Apply: what an accepted record changes.

\* Mistake: a key that is let in again stays among the revoked.
GrantStillRevoked(s, k, scope) == [s EXCEPT !.admins[k] = scope]

Grant(s, k, scope) ==
    [s EXCEPT !.admins[k] = scope, !.revoked = @ \ {k}]

Revoke(s, k) ==
    [s EXCEPT !.admins[k] = NoScope, !.revoked = @ \cup {k}]

Content(op) ==
    IF op.kind \in Deletes THEN Absent ELSE <<op.key, op.ctr>>

Mutated(s, op) ==
    CASE op.kind = "admin.add"    -> Grant(s, op.obj, op.scope)
      [] op.kind = "admin.revoke" -> Revoke(s, op.obj)
      [] OTHER                    -> [s EXCEPT !.content[op.obj] = Content(op)]

Write(s, op) ==
    IF Superseded(s, op) THEN s
    ELSE [Mutated(s, op) EXCEPT !.stamps[op.obj] = Stamp(op)]

FromGenesis(s, op) ==
    [s EXCEPT !.genesis = op,
              !.admins = [k \in Keys |-> IF k \in op.owners THEN Owner ELSE @[k]]]

Counted(s, op) == [s EXCEPT !.counters[op.key] = op.ctr]

After(s, op, known) ==
    IF s.genesis = NoGenesis THEN Counted(FromGenesis(s, op), op)
    ELSE IF op.kind \notin known THEN Counted(s, op)
    ELSE Counted(Write(s, op), op)

\* loadState: the records of d applied one by one to an empty state.  Once a
\* record is refused the rest are not looked at.
Step(before, op, known) ==
    IF before.ok /\ Accepts(before.state, op, known)
    THEN [state |-> After(before.state, op, known), ok |-> TRUE]
    ELSE [state |-> before.state, ok |-> FALSE]

ReplaySteps(d, known) ==
    LET step[i \in 0..Len(d)] ==
          IF i = 0 THEN [state |-> EmptyState, ok |-> TRUE]
          ELSE Step(step[i-1], d[i], known)
    IN  step

Loaded(d, known) == ReplaySteps(d, known)[Len(d)]
=============================================================================
