--------------------------- MODULE MCWithdrawals ---------------------------
(* Instances of Withdrawals for TLC: all constants are numbers. *)
EXTENDS Withdrawals
=============================================================================
