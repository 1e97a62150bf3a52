-------------------------------- MODULE MCMesh --------------------------------
(* Instances of MeshOrchestrator for TLC. *)
EXTENDS MeshOrchestrator

CONSTANTS n1, n2

MCNode == {n1, n2}
=============================================================================
