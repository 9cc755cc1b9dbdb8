------------------------------- MODULE MCRace -------------------------------
(* Two streams at once, two exits. *)
EXTENDS Race

CONSTANTS f1, f2, oslo, tokyo
=============================================================================
