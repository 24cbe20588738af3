----------------------------- MODULE MCApplyGroup -----------------------------
(* Every document of a few elements, for TLC. *)
EXTENDS ApplyGroup

=============================================================================
