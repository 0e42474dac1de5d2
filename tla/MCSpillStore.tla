---------------------------- MODULE MCSpillStore ----------------------------
(* SpillStore for TLC. *)
EXTENDS SpillStore

=============================================================================
