------------------------------ MODULE Reading ------------------------------
(***************************************************************************)
(* What a SET of records says, whatever order they came in: who holds      *)
(* which rights and what each object contains is decided by the winning    *)
(* record about it.  This is the reading of a journal that the comments of *)
(* state.go and store.go promise, and the reference the step-by-step       *)
(* State.Apply of Oplog is compared with.                                  *)
(***************************************************************************)
EXTENDS Oplog, FiniteSets

RecordsOf(d) == {d[i] : i \in 1..Len(d)}

About(R, x, kinds) == {r \in R : r.obj = x /\ r.kind \in kinds}

\* Of two records about one object, the later one by its own clock; the key
\* breaks a tie, and a key's earlier record stands against its own later one.
Beats(a, b) ==
    \/ Newer(Stamp(a), Stamp(b))
    \/ Stamp(a) = Stamp(b) /\ a.ctr < b.ctr

Winner(R, x, kinds) ==
    CHOOSE r \in About(R, x, kinds) :
        \A q \in About(R, x, kinds) \ {r} : Beats(r, q)

GenesisIn(R) == {r \in R : r.kind = "genesis"}

GrantedByGenesis(R, k) ==
    IF \E g \in GenesisIn(R) : k \in g.owners THEN Owner ELSE NoScope

ScopeOf(R, k, kinds) ==
    IF About(R, k, kinds) = {} THEN GrantedByGenesis(R, k)
    ELSE IF Winner(R, k, kinds).kind = "admin.add" THEN Winner(R, k, kinds).scope
    ELSE NoScope

RevokedIn(R, kinds) ==
    {k \in Keys : /\ About(R, k, kinds) # {}
                  /\ Winner(R, k, kinds).kind = "admin.revoke"}

ContentOf(R, o, kinds) ==
    IF About(R, o, kinds) = {} THEN Absent ELSE Content(Winner(R, o, kinds))

SignedBy(R, k) == {r \in R : r.key = k}

\* The state a set of records stands for.
View(R, kinds) ==
    [genesis  |-> IF GenesisIn(R) = {} THEN NoGenesis
                  ELSE CHOOSE g \in GenesisIn(R) : TRUE,
     admins   |-> [k \in Keys |-> ScopeOf(R, k, kinds)],
     revoked  |-> RevokedIn(R, kinds),
     content  |-> [o \in Objects |-> ContentOf(R, o, kinds)],
     counters |-> [k \in Keys |-> Cardinality(SignedBy(R, k))],
     stamps   |-> [x \in Subjects |->
                     IF About(R, x, kinds) = {} THEN NoStamp
                     ELSE Stamp(Winner(R, x, kinds))]]
=============================================================================
