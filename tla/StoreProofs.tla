---------------------------- MODULE StoreProofs ----------------------------
(***************************************************************************)
(* Store, for any keys, objects and records and any length of the journal. *)
(*                                                                         *)
(* Three invariants.  Always is what holds whatever fails, a reload that   *)
(* fails too included.  Faithful says what memory is between and within    *)
(* Appends, and holds as long as reading the table back does not fail and  *)
(* the build does not change its mind about a kind.  TableReads adds that  *)
(* the replay of the table is the reading Journal gives of its SET of      *)
(* rows, and with it that the store implements Journal.                    *)
(***************************************************************************)
EXTENDS Store, OplogProofs

\* Every record there is has the type of one, and is not "none".
LEMMA ArrivingIsTyped ==
    Arriving \subseteq Record /\ \A op \in Arriving : op # NoOp
<1>1. \A op \in Arriving : op \in Record
  BY StoreConstants
<1>2. ASSUME NEW op \in Record PROVE op # NoOp
  <2>1. DOMAIN op # {}
    BY DEF Record
  <2>2. DOMAIN NoOp = {}
    BY DEF NoOp
  <2> QED
    BY <2>1, <2>2
<1> QED
  BY <1>1, <1>2

\* What Apply does to a sound state (AfterSound, for the records that arrive).
LEMMA AppliedSound ==
    \A s \in States(Arriving), op \in Arriving :
        Sound(s) /\ Accepts(s, op, known) =>
          /\ After(s, op, known) \in States(Arriving)
          /\ Sound(After(s, op, known))
          /\ op.key \in Keys
          /\ op.ctr = s.counters[op.key] + 1
          /\ After(s, op, known).counters = [s.counters EXCEPT ![op.key] = op.ctr]
<1>1. Arriving \subseteq {op \in Record : WellFormed(op)}
  BY StoreConstants
<1> QED
  BY <1>1, AfterSound

\* What reload and Open make of the table.
LEMMA ReplayOfTable ==
    ASSUME disk \in Seq(Arriving)
    PROVE  /\ Replay(disk) \in States(Arriving) /\ Sound(Replay(disk))
           /\ Replays(disk) \in BOOLEAN
           /\ Replays(disk) => Covers(Replay(disk), disk)
<1>1. ReplayedWell(Arriving, Loaded(disk, known), disk)
  BY StoreConstants, Replayed
<1> QED
  BY <1>1 DEF ReplayedWell, Replay, Replays

\* Memory is a state that records can make; it covers the table, and the
\* record under way is the next one of its key.
Always ==
    /\ TypeOK
    /\ Sound(mem)
    /\ running => Covers(mem, disk)
    /\ pending # NoOp =>
         /\ running
         /\ \A i \in 1..Len(disk) :
              disk[i].key = pending.key => disk[i].ctr < pending.ctr
         /\ mem.counters[pending.key] >= pending.ctr

\* A store begins so.
LEMMA AlwaysInit == Init => Always
<1> SUFFICES ASSUME Init PROVE Always
  OBVIOUS
<1>1. TypeOK
  BY EmptyTyped DEF Init, TypeOK
<1>2. Sound(mem)
  BY EmptySound DEF Init
<1>3. Covers(mem, disk)
  BY DEF Init, Covers
<1> QED
  BY <1>1, <1>2, <1>3 DEF Init, Always

\* Every step of Append, of a failure and of the process keeps it.
LEMMA AlwaysNext == Always /\ [Next]_vars => Always'
<1> SUFFICES ASSUME Always, [Next]_vars PROVE Always'
  OBVIOUS
<1>1. ASSUME NEW op \in Arriving, Apply(op) PROVE Always'
  <2>1. /\ mem \in States(Arriving) /\ Sound(mem) /\ disk \in Seq(Arriving)
        /\ Covers(mem, disk) /\ Accepts(mem, op, known)
    BY <1>1 DEF Apply, Always, TypeOK
  <2>2. /\ mem' \in States(Arriving) /\ Sound(mem')
        /\ op.key \in Keys /\ op.ctr = mem.counters[op.key] + 1
        /\ mem'.counters = [mem.counters EXCEPT ![op.key] = op.ctr]
    <3>1. mem' = After(mem, op, known)
      BY <1>1 DEF Apply
    <3>2. /\ After(mem, op, known) \in States(Arriving)
          /\ Sound(After(mem, op, known))
          /\ op.key \in Keys /\ op.ctr = mem.counters[op.key] + 1
          /\ After(mem, op, known).counters = [mem.counters EXCEPT ![op.key] = op.ctr]
      BY <2>1, AppliedSound
    <3> QED
      BY <3>1, <3>2
  <2>3. Covers(mem', disk)
    BY <2>1, <2>2, ArrivingIsTyped, CoversAppend
  <2>4. /\ mem.counters \in [Keys -> Nat]
        /\ \A i \in 1..Len(disk) : disk[i] \in Record
    BY <2>1, ArrivingIsTyped, ElementOfSeq DEF States
  <2>5. \A r \in Record : r.key \in Keys /\ r.ctr \in Nat
    BY DEF Record
  <2>6. \A i \in 1..Len(disk) : disk[i].key = op.key => disk[i].ctr < op.ctr
    BY <2>1, <2>2, <2>4, <2>5 DEF Covers
  <2>7. mem'.counters[op.key] = op.ctr /\ op.ctr \in Nat
    BY <2>2, <2>4
  <2>8. pending' = op /\ disk' = disk /\ running' /\ running' = running /\ known' = known
    BY <1>1 DEF Apply
  <2>9. TypeOK'
    BY <2>2, <2>8 DEF Always, TypeOK
  <2> QED
    BY <2>2, <2>3, <2>6, <2>7, <2>8, <2>9 DEF Always
<1>2. CASE Insert
  <2>1. /\ pending \in Arriving /\ running /\ disk \in Seq(Arriving)
        /\ Covers(mem, disk) /\ mem.counters[pending.key] >= pending.ctr
        /\ disk' = Append(disk, pending)
    BY <1>2 DEF Insert, Always, TypeOK
  <2>2. Len(disk) \in Nat /\ Len(disk') = Len(disk) + 1
        /\ (\A i \in 1..Len(disk) : disk'[i] = disk[i]) /\ disk'[Len(disk) + 1] = pending
        /\ disk' \in Seq(Arriving)
    BY <2>1
  <2>3. Covers(mem, disk')
    <3>1. \A i \in 1..(Len(disk) + 1) : i \in 1..Len(disk) \/ i = Len(disk) + 1
      BY <2>2
    <3> QED
      BY <2>1, <2>2, <3>1 DEF Covers
  <2>4. TypeOK'
    BY <1>2, <2>2 DEF Insert, Always, TypeOK
  <2> QED
    BY <1>2, <2>1, <2>3, <2>4 DEF Insert, Always
<1>3. CASE InsertFails
  <2>1. disk \in Seq(Arriving) /\ Replays(disk) /\ mem' = Replay(disk)
    BY <1>3 DEF InsertFails, Always, TypeOK
  <2>2. mem' \in States(Arriving) /\ Sound(mem') /\ Covers(mem', disk)
    BY <2>1, ReplayOfTable
  <2> QED
    BY <1>3, <2>2 DEF InsertFails, Always, TypeOK
<1>4. CASE InsertAndReloadFail
  BY <1>4 DEF InsertAndReloadFail, Always, TypeOK
<1>5. CASE Crash
  BY <1>5, EmptyTyped, EmptySound DEF Crash, Always, TypeOK
<1>6. CASE Open
  <2>1. disk \in Seq(Arriving) /\ Replays(disk) /\ mem' = Replay(disk)
        /\ pending = NoOp
    BY <1>6 DEF Open, Always, TypeOK
  <2>2. mem' \in States(Arriving) /\ Sound(mem') /\ Covers(mem', disk)
    BY <2>1, ReplayOfTable
  <2> QED
    BY <1>6, <2>1, <2>2 DEF Open, Always, TypeOK
<1>7. CASE Upgrade
  BY <1>7 DEF Upgrade, Always, TypeOK
<1>8. CASE UNCHANGED vars
  BY <1>8 DEF vars, Always, TypeOK
<1> QED
  BY <1>1, <1>2, <1>3, <1>4, <1>5, <1>6, <1>7, <1>8 DEF Next

\* So it always holds.
LEMMA AlwaysHolds == Spec => []Always
  BY AlwaysInit, AlwaysNext, PTL DEF Spec

\* Every variable of the store keeps its type, whatever fails.
THEOREM TypeCorrect == Spec => []TypeOK
<1>1. Always => TypeOK
  BY DEF Always
<1> QED
  BY <1>1, AlwaysHolds, PTL

\* No key is both revoked and in force, in whatever order grants and
\* revocations arrive and whatever the store goes through (AdminAdd and
\* AdminRevoke in State.mutate, reload, Open).
THEOREM RevokedAreOut == Spec => []RevokedHoldNoRights
<1>1. Always => RevokedHoldNoRights
  BY DEF Always, Sound, Exclusive, RevokedHoldNoRights
<1> QED
  BY <1>1, AlwaysHolds, PTL

\* The row of an accepted record never meets UNIQUE (key_id, counter), even
\* when memory has run ahead of the table (Append).
THEOREM RowsNeverCollide == Spec => []InsertFits
<1>1. Always => InsertFits
  <2> SUFFICES ASSUME Always, pending # NoOp, NEW i \in 1..Len(disk)
               PROVE  disk[i].key # pending.key \/ disk[i].ctr # pending.ctr
    BY DEF InsertFits, Unique
  <2>1. disk \in Seq(Arriving) /\ pending \in Arriving
    BY DEF Always, TypeOK
  <2>2. disk[i].ctr \in Nat /\ pending.ctr \in Nat
    BY <2>1, ArrivingIsTyped, ElementOfSeq DEF Record
  <2> QED
    BY <2>2 DEF Always
<1> QED
  BY <1>1, AlwaysHolds, PTL

\* What a neighbour is told the node has covers the rows it has (Counters),
\* even after a reload that failed.
THEOREM TableIsCovered == Spec => []MemoryCoversTable
<1>1. Always => MemoryCoversTable
  BY DEF Always, Covers, MemoryCoversTable
<1> QED
  BY <1>1, AlwaysHolds, PTL

-----------------------------------------------------------------------------
\* Memory and table, as long as the table can be read back.

\* The database can be read, and no record in it is of a kind the build that
\* wrote it did not understand.
Reliable == ReloadMayFail = FALSE /\ FirstKinds = Kinds

Faithful ==
    /\ disk \in Seq(Arriving) /\ known = Kinds
    /\ Replays(disk)
    /\ pending # NoOp =>
         /\ running /\ pending \in Arriving
         /\ Accepts(Replay(disk), pending, known)
         /\ mem = After(Replay(disk), pending, known)
    /\ running /\ pending = NoOp => mem = Replay(disk)

\* A store begins so.
LEMMA FaithfulInit == ASSUME Reliable PROVE Init => Faithful
  BY LoadedEmpty DEF Reliable, Init, Faithful, Replays, Replay, Begin

\* Every step keeps it: a row is inserted only after its record was applied to
\* the replay of the rows before it.
LEMMA FaithfulNext == ASSUME Reliable PROVE Faithful /\ [Next]_vars => Faithful'
<1> SUFFICES ASSUME Faithful, [Next]_vars PROVE Faithful'
  OBVIOUS
<1>1. ASSUME NEW op \in Arriving, Apply(op) PROVE Faithful'
  <2>1. op # NoOp
    BY ArrivingIsTyped
  <2> QED
    BY <1>1, <2>1 DEF Apply, Faithful, Replays, Replay
<1>2. CASE Insert
  <2>1. /\ disk' = Append(disk, pending) /\ pending' = NoOp
        /\ mem' = mem /\ known' = known /\ running' = running
    BY <1>2 DEF Insert
  <2>2. /\ pending \in Arriving /\ disk \in Seq(Arriving) /\ known = Kinds
        /\ Loaded(disk, known).ok
        /\ Accepts(Loaded(disk, known).state, pending, known)
        /\ mem = After(Loaded(disk, known).state, pending, known)
    BY <1>2 DEF Insert, Faithful, Replays, Replay
  <2>3. Loaded(disk', known) = Step(Loaded(disk, known), pending, known)
    BY <2>1, <2>2, LoadedAppend
  <2>4. Loaded(disk', known) = [state |-> mem, ok |-> TRUE]
    BY <2>2, <2>3 DEF Step
  <2>5. disk' \in Seq(Arriving)
    BY <2>1, <2>2
  <2> QED
    BY <2>1, <2>2, <2>4, <2>5 DEF Faithful, Replays, Replay
<1>3. CASE InsertFails
  BY <1>3 DEF InsertFails, Faithful, Replays, Replay
<1>4. CASE InsertAndReloadFail
  BY <1>4 DEF InsertAndReloadFail, Faithful, Reliable
<1>5. CASE Crash
  BY <1>5 DEF Crash, Faithful, Replays, Replay
<1>6. CASE Open
  BY <1>6 DEF Open, Faithful, Replays, Replay
<1>7. CASE Upgrade
  BY <1>7 DEF Upgrade, Faithful
<1>8. CASE UNCHANGED vars
  BY <1>8 DEF vars, Faithful, Replays, Replay
<1> QED
  BY <1>1, <1>2, <1>3, <1>4, <1>5, <1>6, <1>7, <1>8 DEF Next

\* So it always holds, on a reliable database.
LEMMA FaithfulHolds == ASSUME Reliable PROVE Spec => []Faithful
  BY FaithfulInit, FaithfulNext, PTL DEF Spec

\* Between two Appends memory is exactly the replay of the table, through
\* failed inserts, crashes and restarts (Append, reload, Open).
THEOREM MemoryFollowsTable == ASSUME Reliable PROVE Spec => []MemoryIsReplay
<1>1. Faithful => MemoryIsReplay
  BY DEF Faithful, MemoryIsReplay, Idle
<1> QED
  BY <1>1, FaithfulHolds, PTL

\* Whatever reached the table can be replayed when the node starts (loadState).
THEOREM NodeComesUp == ASSUME Reliable PROVE Spec => []AlwaysOpens
<1>1. Faithful => AlwaysOpens
  BY DEF Faithful, AlwaysOpens
<1> QED
  BY <1>1, FaithfulHolds, PTL

-----------------------------------------------------------------------------
\* The replay of a journal against the reading of its set of records.

\* The words of Journal are those of Oplog.
LEMMA SameWords ==
    /\ \A S : J!Cardinality(S) = Cardinality(S)
    /\ \A op : J!Stamp(op) = Stamp(op) /\ J!Content(op) = Content(op)
    /\ \A kind : J!RequiredScope(kind) = RequiredScope(kind)
    /\ J!NoScope = NoScope /\ J!Owner = Owner /\ J!NoStamp = NoStamp /\ J!Absent = Absent
    /\ J!NoGenesis = NoGenesis /\ J!NeedsObject = NeedsObject
    /\ J!Subjects = Subjects /\ J!Objects = Objects
<1>1. \A S : J!Cardinality(S) = Cardinality(S)
  BY Zenon DEF J!Cardinality, Cardinality
<1>2. \A op : J!Stamp(op) = Stamp(op)
  BY DEF J!Stamp, Stamp
<1>3. \A op : J!Content(op) = Content(op)
  BY DEF J!Content, Content, J!Deletes, Deletes, J!Absent, Absent
<1>4. \A kind : J!RequiredScope(kind) = RequiredScope(kind)
  BY DEF J!RequiredScope, RequiredScope, J!ClientKinds, ClientKinds, J!Operator, Operator,
         J!Owner, Owner
<1> QED
  BY <1>1, <1>2, <1>3, <1>4
     DEF J!NoScope, NoScope, J!Owner, Owner, J!NoStamp, NoStamp, J!Absent, Absent,
         J!NoGenesis, NoGenesis, J!NeedsObject, NeedsObject, J!Subjects, Subjects,
         J!Objects, Objects

\* And so is what it reads from a set of records.
LEMMA SameReading ==
    /\ \A a, b : J!Beats(a, b) <=> Beats(a, b)
    /\ \A R, k : J!SignedBy(R, k) = SignedBy(R, k)
    /\ \A R, x, K : /\ J!About(R, x, K) = About(R, x, K)
                    /\ J!ScopeOf(R, x, K) = ScopeOf(R, x, K)
                    /\ J!ContentOf(R, x, K) = ContentOf(R, x, K)
    /\ \A d : J!RecordsOf(d) = RecordsOf(d)
<1>1. \A a, b : J!Beats(a, b) <=> Beats(a, b)
  BY DEF J!Beats, Beats, J!Newer, Newer, J!Stamp, Stamp
<1>2. \A R, k : J!SignedBy(R, k) = SignedBy(R, k)
  BY DEF J!SignedBy, SignedBy
<1>3. \A R, x, K : J!About(R, x, K) = About(R, x, K)
  BY DEF J!About, About
<1>4. \A R, x, K : J!Winner(R, x, K) = Winner(R, x, K)
  BY <1>1, <1>3 DEF J!Winner, Winner
<1>5. \A R, k : J!GrantedByGenesis(R, k) = GrantedByGenesis(R, k)
  BY SameWords DEF J!GrantedByGenesis, GrantedByGenesis, J!GenesisIn, GenesisIn
<1>6. \A R, x, K : J!ScopeOf(R, x, K) = ScopeOf(R, x, K)
  BY <1>3, <1>4, <1>5, SameWords DEF J!ScopeOf, ScopeOf
<1>7. \A R, x, K : J!ContentOf(R, x, K) = ContentOf(R, x, K)
  BY <1>3, <1>4, SameWords DEF J!ContentOf, ContentOf
<1>8. \A d : J!RecordsOf(d) = RecordsOf(d)
  BY DEF J!RecordsOf, RecordsOf
<1> QED
  BY <1>1, <1>2, <1>3, <1>6, <1>7, <1>8

\* What arrives may be read.
LEMMA ArrivingIsLegible ==
    /\ Arriving \subseteq Legible
    /\ States(Arriving) \subseteq States(Legible)
<1>1. Arriving \subseteq Legible
  BY StoreConstants DEF Legible
<1> QED
  BY <1>1, StatesWiden

\* A record that passes (Refusal) is one the records of the journal allow.
LEMMA PassingIsLegal ==
    ASSUME NEW R, NEW K, Well(R, K), NEW op \in Arriving, RightNetwork(op),
           NEW s \in States(Arriving), s = View(R, K), Sound(s), Accepts(s, op, K)
    PROVE  J!Legal(R, op, K)
<1> DEFINE x == op.obj
<1>1. op \in Record /\ WellFormed(op) /\ op.key \in Keys /\ op.kind \in Kinds
      /\ op.flaw \in {"none", "signature", "payload"}
  BY StoreConstants DEF Record
<1>2. CASE R = {}
  <2>1. s = EmptyState
    BY <1>2, ViewOfNothing
  <2>2. /\ op.kind = "genesis" /\ op.ctr = 1 /\ op.key \in op.owners
        /\ op.flaw = "none"
    BY <1>1, <2>1 DEF Accepts, Refusal, GenesisRefusal, EmptyState
  <2>3. Expect \in {NoGenesis, op}
    BY <2>2 DEF RightNetwork
  <2> QED
    BY <1>2, <2>2, <2>3, SameWords, SameReading DEF J!Legal, J!LegalGenesis
<1>3. CASE R # {}
  <2>1. s.genesis # NoGenesis
    <3>1. PICK g \in R : GenesisIn(R) = {g}
      BY <1>3 DEF Well
    <3>2. View(R, K).genesis = CHOOSE h \in {g} : TRUE
      BY <3>1, ViewRest
    <3>3. s.genesis \in Legible
      BY <3>2 DEF Well
    <3> QED
      BY <3>3, LegibleIsTyped
  <2>2. s.admins = [k \in Keys |-> ScopeOf(R, k, K)]
    BY ViewAdmins
  <2>3. s.counters = [k \in Keys |-> Cardinality(SignedBy(R, k))]
    BY ViewCounters
  <2>4. op.ctr = Cardinality(SignedBy(R, op.key)) + 1
    <3>1. /\ After(s, op, K) \in States(Arriving) /\ op.key \in Keys
          /\ op.ctr = s.counters[op.key] + 1
          /\ After(s, op, K).counters = [s.counters EXCEPT ![op.key] = op.ctr]
      BY StoreConstants, AfterSound
    <3> QED
      BY <1>1, <2>3, <3>1
  <2>5. /\ op.kind # "genesis" /\ Authorize(s, op) = "none"
        /\ op.kind \in K =>
             /\ op.flaw # "payload"
             /\ ~(s.admins[op.key] < RequiredScope(op.kind))
             /\ MutateRefusal(s, op) = "none"
    BY <2>1 DEF Accepts, Refusal
  <2>6. op.flaw # "signature" /\ s.admins[op.key] # NoScope
    BY <2>5 DEF Authorize
  <2>7. J!LegalSigner(R, op, K)
    BY <1>1, <2>2, <2>4, <2>5, <2>6, SameWords, SameReading DEF J!LegalSigner
  <2>8. ASSUME op.kind \in K PROVE J!LegalEdit(R, op, K)
    <3>1. op.flaw = "none"
      BY <1>1, <2>5, <2>6, <2>8
    <3>2. ScopeOf(R, op.key, K) >= J!RequiredScope(op.kind)
      <4>1. s.admins[op.key] \in Scopes /\ RequiredScope(op.kind) \in Scopes
        BY <1>1 DEF States, RequiredScope, Scopes, NoScope, Operator, Owner
      <4>2. s.admins[op.key] >= RequiredScope(op.kind)
        BY <2>5, <2>8, <4>1 DEF Scopes, NoScope, Owner
      <4> QED
        BY <1>1, <2>2, <4>2, SameWords
    <3>3. ASSUME J!Wins(R, op, K) PROVE ~Superseded(s, op)
      <4> SUFFICES ASSUME Superseded(s, op) PROVE FALSE
        OBVIOUS
      <4>1. x \in Subjects
        BY <1>1, <2>5 DEF WellFormed, Kinds, Subjects, Objects
      <4>2. s.stamps = [y \in Subjects |-> IF About(R, y, K) = {} THEN NoStamp
                                           ELSE Stamp(Winner(R, y, K))]
        BY ViewStamps
      <4>3. About(R, x, K) # {} /\ ~Newer(Stamp(op), Stamp(Winner(R, x, K)))
        BY <4>1, <4>2 DEF Superseded
      <4>4. PICK lead : Leads(lead, About(R, x, K))
        BY <4>3 DEF Well
      <4>5. Winner(R, x, K) = lead /\ lead \in About(R, x, K)
        BY <4>4, WinnerIs, LegibleIsTyped DEF Leads, Well
      <4>6. ~Beats(op, lead)
        BY <2>4, <2>8, <4>3, <4>4, <4>5, AboutGrows, ArrivingIsLegible
      <4> QED
        BY <3>3, <4>5, <4>6, SameReading DEF J!Wins
    <3>4. ASSUME J!Wins(R, op, K), op.kind \in NeedsObject
          PROVE  ContentOf(R, x, K) # J!Absent
      <4>1. x \in Objects
        BY <1>1, <3>4 DEF WellFormed, NeedsObject, ClientKinds, NodeKinds, Objects
      <4>2. s.content[x] # Absent
        BY <2>5, <2>8, <3>3, <3>4 DEF MutateRefusal
      <4>3. s.content = [o \in Objects |-> ContentOf(R, o, K)]
        BY ViewContent
      <4> QED
        BY <4>1, <4>2, <4>3, SameWords
    <3>5. ASSUME J!Wins(R, op, K), op.kind = "admin.revoke"
          PROVE  /\ ScopeOf(R, x, K) # J!NoScope
                 /\ \E k \in Keys \ {x} : ScopeOf(R, k, K) = J!Owner
      <4>1. x \in Keys
        BY <1>1, <3>5 DEF WellFormed, AdminKinds
      <4>2. s.admins[x] # NoScope /\ Owners(s) \ {x} # {}
        BY <2>5, <2>8, <3>3, <3>5 DEF MutateRefusal
      <4>3. PICK k \in Keys \ {x} : s.admins[k] = Owner
        BY <4>2 DEF Owners
      <4>4. ScopeOf(R, k, K) = Owner /\ ScopeOf(R, x, K) # NoScope
        BY <2>2, <4>1, <4>2, <4>3
      <4> QED
        BY <4>4, SameWords
    <3> QED
      BY <3>1, <3>2, <3>4, <3>5, SameWords, SameReading DEF J!LegalEdit
  <2> QED
    BY <1>3, <2>7, <2>8 DEF J!Legal
<1> QED
  BY <1>2, <1>3

\* The table is a journal, and its replay is the reading of its records.
TableReads ==
    /\ Faithful
    /\ Well(RecordsOf(disk), known)
    /\ Replay(disk) = View(RecordsOf(disk), known)
    /\ pending # NoOp => RightNetwork(pending)

\* A store begins so.
LEMMA TableReadsInit == ASSUME Reliable PROVE Init => TableReads
<1> SUFFICES ASSUME Init PROVE TableReads
  OBVIOUS
<1>1. Replay(disk) = EmptyState
  BY LoadedEmpty DEF Init, Replay, Begin
<1>2. RecordsOf(disk) = {}
  BY RecordsGrow DEF Init
<1>3. Faithful
  BY FaithfulInit
<1> QED
  BY <1>1, <1>2, <1>3, ViewOfNothing DEF Init, TableReads

\* A row that goes in is the record ViewGrows speaks of; nothing else touches
\* the table.
LEMMA TableReadsNext == ASSUME Reliable PROVE TableReads /\ [Next]_vars => TableReads'
<1> SUFFICES ASSUME TableReads, [Next]_vars PROVE TableReads'
  OBVIOUS
<1>1. Faithful /\ Faithful'
  BY FaithfulNext DEF TableReads
<1>2. known' = known
  BY <1>1 DEF Faithful
<1>3. ASSUME disk' = disk PROVE /\ Well(RecordsOf(disk), known)'
                               /\ (Replay(disk) = View(RecordsOf(disk), known))'
  BY <1>2, <1>3 DEF TableReads, Replay
<1>4. ASSUME NEW op \in Arriving, Apply(op) PROVE TableReads'
  BY <1>1, <1>3, <1>4 DEF Apply, TableReads, RightNetwork
<1>5. CASE Insert
  <2> DEFINE s == Replay(disk)
             R == RecordsOf(disk)
  <2>1. /\ pending \in Arriving /\ disk \in Seq(Arriving)
        /\ disk' = Append(disk, pending) /\ pending' = NoOp
        /\ Accepts(s, pending, known)
        /\ mem' = After(s, pending, known) /\ running'
    BY <1>1, <1>5 DEF Insert, Faithful
  <2>2. s \in States(Arriving) /\ Sound(s)
    BY <2>1, ReplayOfTable
  <2>3. Well(R \cup {pending}, known)
        /\ After(s, pending, known) = View(R \cup {pending}, known)
    <3>1. Well(R, known) /\ s = View(R, known)
      BY DEF TableReads
    <3> HIDE DEF s, R
    <3> QED
      BY <2>1, <2>2, <3>1, ViewGrows, ArrivingIsLegible
  <2>4. RecordsOf(disk') = R \cup {pending}
    BY <2>1, RecordsGrow
  <2>5. Replay(disk)' = mem'
    BY <1>1, <2>1 DEF Faithful
  <2>6. Well(RecordsOf(disk'), known')
        /\ mem' = View(RecordsOf(disk'), known')
    BY <1>2, <2>1, <2>3, <2>4
  <2> QED
    BY <1>1, <2>1, <2>5, <2>6 DEF TableReads
<1>6. CASE InsertFails \/ InsertAndReloadFail \/ Crash
  BY <1>1, <1>3, <1>6 DEF InsertFails, InsertAndReloadFail, Crash, TableReads
<1>7. CASE Open \/ Upgrade \/ UNCHANGED vars
  BY <1>1, <1>3, <1>7 DEF Open, Upgrade, vars, TableReads, RightNetwork
<1> QED
  BY <1>4, <1>5, <1>6, <1>7 DEF Next

\* So it always holds, on a reliable database.
LEMMA TableReadsHolds == ASSUME Reliable PROVE Spec => []TableReads
  BY TableReadsInit, TableReadsNext, PTL DEF Spec

\* Between two Appends memory is the winner-takes-all reading of the set of
\* rows, whatever order the records came in (State.write, stamp.newer, reload).
THEOREM WinnersDecide == ASSUME Reliable PROVE Spec => []LastWriterWins
<1>1. TableReads => LastWriterWins
  BY DEF TableReads, Faithful, LastWriterWins, Idle
<1> QED
  BY <1>1, TableReadsHolds, PTL

\* The store implements the journal: each INSERT is the journal's step, every
\* other step of Append, of a failure or of the process a stutter (Append,
\* reload, Open).
THEOREM StoreIsJournal == ASSUME Reliable PROVE Spec => IsJournal
<1>1. Init => J!Init
  BY DEF Init, J!Init, Reliable, Kinds, J!Kinds, ClientKinds, J!ClientKinds,
         NodeKinds, J!NodeKinds, AdminKinds, J!AdminKinds
<1>2. TableReads /\ [Next]_vars => [J!Next]_(J!vars)
  <2> SUFFICES ASSUME TableReads, [Next]_vars PROVE [J!Next]_(J!vars)
    OBVIOUS
  <2>1. CASE Insert
    <3> DEFINE s == Replay(disk)
               R == RecordsOf(disk)
    <3>1. /\ pending \in Arriving /\ disk \in Seq(Arriving) /\ known' = known
          /\ disk' = Append(disk, pending)
          /\ Accepts(s, pending, known) /\ RightNetwork(pending)
          /\ Well(R, known) /\ s = View(R, known)
      BY <2>1 DEF Insert, TableReads, Faithful
    <3>2. s \in States(Arriving) /\ Sound(s)
      BY <3>1, ReplayOfTable
    <3>3. J!Legal(R, pending, known)
      <4> HIDE DEF s, R
      <4> QED
        BY <3>1, <3>2, PassingIsLegal
    <3> QED
      BY <3>1, <3>3, SameReading DEF J!Next, J!Accept
  <2>2. CASE disk' = disk
    <3>1. known' = known
      BY <2>2 DEF TableReads, Faithful, Next, Apply, InsertFails, InsertAndReloadFail,
                  Crash, Open, Upgrade, Insert, vars
    <3> QED
      BY <2>2, <3>1 DEF J!vars
  <2> QED
    BY <2>1, <2>2 DEF Next, Apply, InsertFails, InsertAndReloadFail, Crash, Open,
                      Upgrade, vars
<1> QED
  BY <1>1, <1>2, TableReadsHolds, PTL DEF Spec, IsJournal, J!Spec
=============================================================================
