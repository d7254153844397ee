------------------------ MODULE MCControllerCoordinator ------------------------
(* Small instances of ControllerCoordinator for TLC. *)
EXTENDS ControllerCoordinator
=============================================================================
