--------------------------- MODULE MCTestGeneration ---------------------------
(* Instances of TestGeneration for TLC: the constants are numbers and a set. *)
EXTENDS TestGeneration
=============================================================================
