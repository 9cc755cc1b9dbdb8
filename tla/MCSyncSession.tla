--------------------------- MODULE MCSyncSession ---------------------------
(* Long frames of two and of three chunks on a stream that holds one or two. *)
EXTENDS SyncSession

Unequal == [s \in Sides |-> IF s = Dialler THEN 3 ELSE 2]
Empty == [s \in Sides |-> 1]
=============================================================================
