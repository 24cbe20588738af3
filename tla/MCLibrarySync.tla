----------------------------- MODULE MCLibrarySync -----------------------------
(* Small instances of LibrarySync for TLC. *)
EXTENDS LibrarySync

=============================================================================
