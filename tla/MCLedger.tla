------------------------------ MODULE MCLedger ------------------------------
(* Two nodes that exchange pictures both ways; one carries more than the other. *)
EXTENDS Ledger, TLC

CONSTANTS warsaw, tokyo

Pair == {<<warsaw, tokyo>>, <<tokyo, warsaw>>}
Busy == (warsaw :> 3) @@ (tokyo :> 1)
=============================================================================
