------------------------- MODULE MCControllerManager -------------------------
(* Small instances of ControllerManager for TLC. *)
EXTENDS ControllerManager
=============================================================================
