------------------------------- MODULE MCWatch -------------------------------
(* Two connections and a few edits. *)
EXTENDS Watch

CONSTANTS q1, q2
=============================================================================
