------------------------------- MODULE MCMesh -------------------------------
(* One or two neighbours, recorded at one place or at two. *)
EXTENDS Mesh

CONSTANTS warsaw, tokyo, here, there
=============================================================================
