------------------------------ MODULE MCClient ------------------------------
(* The link names one node; the network gets a second one and may drop the
   first. *)
EXTENDS Client

CONSTANTS warsaw, tokyo
=============================================================================
