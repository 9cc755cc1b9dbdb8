----------------------------- MODULE Directory -----------------------------
(***************************************************************************)
(* The pointer cmd/qd-node takes from its store.  Once, at start, the node *)
(* gives hello.StateDirectory the State object the store holds then; by it *)
(* every later greeting is recognised.  The store changes that object in   *)
(* place, so the two agree, until a failed INSERT makes the store put a    *)
(* new object in its place: then dir is nobody's but the node's.           *)
(***************************************************************************)
EXTENDS Store

VARIABLES dir,       \* the State object the node greets by
          aliased    \* it is still the object the store works on

dirVars == <<dir, aliased>>
allVars == <<vars, dirVars>>

DInit ==
    /\ Init
    /\ dir = EmptyState
    /\ aliased = TRUE

\* Apply changes the object in place, for all who hold it.
DApply(op) ==
    /\ Apply(op)
    /\ dir' = IF aliased THEN mem' ELSE dir
    /\ UNCHANGED aliased

\* s.state = state: the store moves to a new object.
DInsertFails ==
    /\ InsertFails
    /\ aliased' = FALSE
    /\ UNCHANGED dir

\* A new process: run takes st.State() after store.Open.
DOpen ==
    /\ Open
    /\ dir' = mem'
    /\ aliased' = TRUE

DNext ==
    \/ \E op \in Arriving : DApply(op)
    \/ DInsertFails
    \/ DOpen
    \/ (Insert \/ InsertAndReloadFail \/ Crash \/ Upgrade) /\ UNCHANGED dirVars

DSpec == DInit /\ [][DNext]_allVars

\* The keys the node greets by are those of the journal it serves: what the
\* store took back after a failed insert, or took in later, counts for the
\* next greeting as well (store.go: memory that ran ahead of the table must
\* not be trusted any more).
DirectoryIsCurrent == Idle => dir = mem
=============================================================================
