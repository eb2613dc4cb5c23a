----------------------------- MODULE MCRegistry -----------------------------
(* Instances of Registry for TLC.  Balances are counted in increments, and the *)
(* periods of the preset are scaled down to a few epochs.                      *)
EXTENDS Registry

Balances == {1, 2}
=============================================================================
