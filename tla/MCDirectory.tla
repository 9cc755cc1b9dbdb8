---------------------------- MODULE MCDirectory ----------------------------
(* The instance of Directory: the records of MCStore. *)
EXTENDS Directory, MCStore
=============================================================================
