----------------------------- MODULE MCHistory -----------------------------
(* Instances of History for TLC: all constants are numbers. *)
EXTENDS History
=============================================================================
