------------------------------ MODULE MCStreams ------------------------------
(* One stream of every kind, through the entry or through an exit. *)
EXTENDS Streams
=============================================================================
