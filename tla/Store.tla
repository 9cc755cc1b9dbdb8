------------------------------- MODULE Store -------------------------------
(***************************************************************************)
(* One process and its journal: internal/store over internal/oplog.  The   *)
(* database is "disk"; the live State object is "mem".  Append holds the   *)
(* store's lock from the moment it changes mem until the INSERT has come   *)
(* back, and readers of State() do not take that lock: "pending" is the    *)
(* record in between.  What a holder of the State object sees is the       *)
(* business of Directory.                                                  *)
(***************************************************************************)
EXTENDS Reading

CONSTANTS Arriving,      \* the records anybody may hand to Append
          Expect,        \* fingerprint in the config, or NoGenesis for "any"
          FirstKinds,    \* kinds the build that made the database understood
          ReloadMayFail, \* may reading the database back fail as well?
          MaxLen         \* bound: records the journal is let grow to

ASSUME StoreConstants ==
    /\ Arriving \subseteq {op \in Record : WellFormed(op)}
    /\ Expect = NoGenesis \/ Expect \in Record
    /\ FirstKinds \subseteq Kinds
    /\ ReloadMayFail \in BOOLEAN
    /\ MaxLen \in Nat

VARIABLES disk,      \* rows of table ops, by seq
          mem,       \* Store.state
          pending,   \* the record Append has applied but not yet inserted
          running,   \* the process is up
          known      \* kinds this build understands

vars == <<disk, mem, pending, running, known>>

NoOp == <<>>

Replay(d) == Loaded(d, known).state
Replays(d) == Loaded(d, known).ok

Init ==
    /\ disk = <<>>
    /\ mem = EmptyState
    /\ pending = NoOp
    /\ running = TRUE
    /\ known = FirstKinds

-----------------------------------------------------------------------------
\* Append, in the steps a failure or a reader can fall between.

RightNetwork(op) ==
    op.kind = "genesis" /\ Expect # NoGenesis => op = Expect

\* The record passes and the state in memory is changed.
Apply(op) ==
    /\ running /\ pending = NoOp
    /\ Len(disk) < MaxLen
    /\ RightNetwork(op)
    /\ Accepts(mem, op, known)
    /\ mem' = After(mem, op, known)
    /\ pending' = op
    /\ UNCHANGED <<disk, running, known>>

\* UNIQUE (key_id, counter)
Unique(op) == \A i \in 1..Len(disk) :
                 disk[i].key # op.key \/ disk[i].ctr # op.ctr

\* The row is in; the waiters are told.
Insert ==
    /\ pending # NoOp
    /\ Unique(pending)
    /\ disk' = Append(disk, pending)
    /\ pending' = NoOp
    /\ UNCHANGED <<mem, running, known>>

\* Mistake: memory is left as Apply has made it.
InsertFailsUnnoticed ==
    /\ pending # NoOp
    /\ pending' = NoOp
    /\ UNCHANGED <<disk, mem, running, known>>

\* Mistake: the new State object is not filled from the table.
InsertFailsEmpty ==
    /\ pending # NoOp
    /\ mem' = EmptyState
    /\ pending' = NoOp
    /\ UNCHANGED <<disk, running, known>>

\* The row did not go in: a new State object is built from the rows there are.
InsertFails ==
    /\ pending # NoOp
    /\ Replays(disk)
    /\ mem' = Replay(disk)
    /\ pending' = NoOp
    /\ UNCHANGED <<disk, running, known>>

\* The row did not go in and the rows cannot be read back either: Append
\* reports both and goes on with the state it has.
InsertAndReloadFail ==
    /\ pending # NoOp
    /\ ReloadMayFail \/ ~Replays(disk)
    /\ pending' = NoOp
    /\ UNCHANGED <<disk, mem, running, known>>

-----------------------------------------------------------------------------
\* The process.

\* It dies anywhere; a row being inserted is lost with it (had it been
\* committed, that is Insert followed by Crash).
Crash ==
    /\ running
    /\ running' = FALSE
    /\ pending' = NoOp
    /\ mem' = EmptyState
    /\ UNCHANGED <<disk, known>>

\* Open: the journal is replayed from the first row.
Open ==
    /\ ~running
    /\ Replays(disk)
    /\ Expect # NoGenesis /\ Replay(disk).genesis # NoGenesis
          => Replay(disk).genesis = Expect
    /\ running' = TRUE
    /\ mem' = Replay(disk)
    /\ UNCHANGED <<disk, pending, known>>

\* The binary is replaced while the process is down.
Upgrade ==
    /\ ~running
    /\ known # Kinds
    /\ known' = Kinds
    /\ UNCHANGED <<disk, mem, pending, running>>

Next ==
    \/ \E op \in Arriving : Apply(op)
    \/ Insert
    \/ InsertFails
    \/ InsertAndReloadFail
    \/ Crash
    \/ Open
    \/ Upgrade

Spec == Init /\ [][Next]_vars

-----------------------------------------------------------------------------
\* Import, as a caller sees it between two Appends: what becomes of a record
\* it is given.  Replay and DoubleGenesis are passed over in silence, any
\* other error ends the import.
ImportOutcome(op) ==
    IF ~RightNetwork(op) THEN "abort"
    ELSE IF Accepts(mem, op, known) THEN "added"
    ELSE IF Refusal(mem, op, known) \in {"Replay", "DoubleGenesis"}
         THEN IF op.kind = "genesis" /\ op # mem.genesis THEN "abort" ELSE "seen"
    ELSE "abort"

\* Since: the records the other side lacks, in the order we took them.
Since(d, have) == SelectSeq(d, LAMBDA r : r.ctr > have[r.key])

-----------------------------------------------------------------------------
J == INSTANCE Journal WITH log <- disk

Idle == running /\ pending = NoOp

\* Every variable of the store has its type.
TypeOK ==
    /\ disk \in Seq(Arriving)
    /\ pending \in Arriving \cup {NoOp}
    /\ running \in BOOLEAN
    /\ known \in {FirstKinds, Kinds}
    /\ mem \in States(Arriving)

\* Between two Appends memory is exactly what a replay of the table gives:
\* through failed inserts, crashes and restarts (Append, loadState, Open).
MemoryIsReplay == Idle => Replays(disk) /\ mem = Replay(disk)

\* Memory is the winner-takes-all reading of the SET of rows, so two stores
\* with the same rows in any order hold the same state (state.go, "the same
\* journal gives the same state on any node"; write and stamp.newer).
LastWriterWins == Idle => mem = View(RecordsOf(disk), known)

\* A node whose process died comes up again: whatever reached the table can
\* be replayed by the build that reads it (loadState's comment: a record that
\* does not apply means a damaged file, not a bad record).
AlwaysOpens == ~running => Replays(disk)

\* No key is both revoked and in force, however grants and revocations that
\* passed each other on the way are ordered (AdminAdd, AdminRevoke in mutate).
RevokedHoldNoRights ==
    \A k \in Keys : mem.admins[k] # NoScope => k \notin mem.revoked

\* A network that has been founded keeps an owner (ErrLastOwner).
OwnerRemains == mem.genesis # NoGenesis => Owners(mem) # {}

\* The INSERT of an accepted record never meets UNIQUE (key_id, counter), not
\* even after a reload that failed and left memory ahead of the table.
InsertFits == pending # NoOp => Unique(pending)

\* Memory never lags behind the table, whatever failed: what a neighbour is
\* told we have is at least what is stored (Counters, Since).
MemoryCoversTable ==
    running => \A i \in 1..Len(disk) : mem.counters[disk[i].key] >= disk[i].ctr

\* A backup may be poured in again and again: what the store has is passed
\* over in silence (Import's comment).
ReimportIsQuiet ==
    Idle => \A i \in 1..Len(disk) : ImportOutcome(disk[i]) = "seen"

\* The store is a journal that only legal records join, one at a time and for
\* good, whatever fails in between.
IsJournal == J!Spec
=============================================================================
