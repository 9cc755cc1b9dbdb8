--------------------------- MODULE MCReplication ---------------------------
(***************************************************************************)
(* The device d1 a network is created on, a second owner's device d2 with  *)
(* the spare key, and the machine n1 of the network's first node.          *)
(***************************************************************************)
EXTENDS Replication

CONSTANTS vasya, warsaw, routing, settings, network, d1, d2, n1

MCKeys == {1, 2}
MCHome == (1 :> d1) @@ (2 :> d2)
MCNodeOf == n1 :> warsaw

Found == [kind |-> "genesis", key |-> 1, ctr |-> 1, time |-> 1, obj |-> network,
          scope |-> Operator, owners |-> {1, 2}, flaw |-> "none"]

\* What is done to a client and to the settings.
Several == {<<"client.add", vasya>>, <<"client.revoke", vasya>>,
            <<"settings.set", settings>>}

\* What is done to a client alone.
Removing == {<<"client.add", vasya>>, <<"client.update", vasya>>,
             <<"client.revoke", vasya>>}
=============================================================================
