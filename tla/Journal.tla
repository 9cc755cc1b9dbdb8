------------------------------ MODULE Journal ------------------------------
(***************************************************************************)
(* What a store promises, without memory, locks, restarts or failed        *)
(* writes: a sequence of records, extended one legal record at a time.     *)
(*                                                                         *)
(* What may be accepted is said of the SET of records there are (Reading), *)
(* never of the order in which they came.                                  *)
(***************************************************************************)
EXTENDS Reading

CONSTANTS Arriving,   \* the records there are to accept
          Expect      \* fingerprint in the config: a genesis record, or NoGenesis

VARIABLES log,        \* the records, in the order they were accepted
          known       \* the kinds the running build understands

-----------------------------------------------------------------------------

\* The record that founds the network.
LegalGenesis(R, op) ==
    /\ R = {}
    /\ op.kind = "genesis"
    /\ op.ctr = 1 /\ op.key \in op.owners /\ op.flaw = "none"
    /\ Expect \in {NoGenesis, op}

\* The signer holds rights and this is the next record of its sequence.
LegalSigner(R, op, kinds) ==
    /\ op.kind # "genesis"
    /\ ScopeOf(R, op.key, kinds) # NoScope
    /\ op.ctr = Cardinality(SignedBy(R, op.key)) + 1
    /\ op.flaw # "signature"

Wins(R, op, kinds) == \A r \in About(R, op.obj, kinds) : Beats(op, r)

\* What the record asks for can be done: either an older edit that changes
\* nothing any more, or an edit of something that exists which does not take
\* the last owner's rights.
LegalEdit(R, op, kinds) ==
    /\ op.flaw = "none"
    /\ ScopeOf(R, op.key, kinds) >= RequiredScope(op.kind)
    /\ Wins(R, op, kinds) =>
         /\ op.kind \in NeedsObject => ContentOf(R, op.obj, kinds) # Absent
         /\ op.kind = "admin.revoke" =>
              /\ ScopeOf(R, op.obj, kinds) # NoScope
              /\ \E k \in Keys \ {op.obj} : ScopeOf(R, k, kinds) = Owner

Legal(R, op, kinds) ==
    \/ LegalGenesis(R, op)
    \/ /\ R # {}
       /\ LegalSigner(R, op, kinds)
       /\ op.kind \in kinds => LegalEdit(R, op, kinds)

-----------------------------------------------------------------------------

vars == <<log, known>>

Init == log = <<>> /\ known \in SUBSET Kinds

\* One legal record joins the journal, for good.
Accept ==
    /\ \E op \in Arriving :
          /\ log' = Append(log, op)
          /\ Legal(RecordsOf(log), op, known)
    /\ UNCHANGED known

\* A newer build takes over; what it makes of old records is the detailed
\* specification's concern.
Upgrade == known' = Kinds /\ UNCHANGED log

Next == Accept \/ Upgrade

Spec == Init /\ [][Next]_vars
=============================================================================
