------------------------------ MODULE MCStore ------------------------------
(***************************************************************************)
(* Instances of Store: three admin keys, of which 1 and 2 found the network *)
(* and 3 may be let in; one client, one node; two instants.                *)
(***************************************************************************)
EXTENDS Store

CONSTANTS vasya, warsaw, routing, settings, network

MCKeys == {1, 2, 3}
MCClients == {vasya}
MCNodes == {warsaw}

Op(kind, key, ctr, time, obj) ==
    [kind |-> kind, key |-> key, ctr |-> ctr, time |-> time, obj |-> obj,
     scope |-> Operator, owners |-> {}, flaw |-> "none"]

Genesis(key, owners) ==
    [Op("genesis", key, 1, 1, network) EXCEPT !.owners = owners]

Ours == Genesis(1, {1, 2})
Foreign == Genesis(3, {2, 3})

\* Every record of the given kinds that key, counter and clock allow.
RecordsOfKinds(kinds, ctrs, times) ==
    {Op(kind, key, ctr, time, obj) :
        kind \in kinds, key \in MCKeys, ctr \in ctrs, time \in times,
        obj \in Subjects}

Fitting(ops) == {op \in ops : WellFormed(op)}

\* Rights given, lowered and taken.
RightsOps == Fitting(RecordsOfKinds({"admin.add", "admin.revoke"}, 1..3, 2..3))

\* One client (an operator may write its records) and one node (an owner may),
\* by keys whose clocks disagree.
ObjectOps ==
    Fitting(RecordsOfKinds({"client.add", "client.update", "client.revoke",
                            "node.add"}, 1..3, 2..3))

\* Records that were tampered with.
Tampered == {[Op("client.add", 2, 1, 2, vasya) EXCEPT !.flaw = f] :
                f \in {"signature", "payload"}}

AllOps == {Ours, Foreign} \cup RightsOps \cup ObjectOps \cup Tampered

\* Records of the founders that nothing but their sequence can make illegal.
FoundersOps == {Ours} \cup
    Fitting(RecordsOfKinds({"settings.set"}, 1..5, 2..2))

\* The build that knew neither node.add nor settings.set.
OlderKinds == Kinds \ {"node.add", "settings.set"}
=============================================================================
