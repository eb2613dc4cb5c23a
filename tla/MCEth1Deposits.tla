--------------------------- MODULE MCEth1Deposits ---------------------------
(* Instances of Eth1Deposits for TLC.  The deposits cover what can happen to a   *)
(* key: an unsigned first deposit, a signed one, unsigned and signed top-ups.    *)
EXTENDS Eth1Deposits

CONSTANTS a, b

Deposits == << [pubkey |-> a, signed |-> FALSE], [pubkey |-> b, signed |-> TRUE],
               [pubkey |-> a, signed |-> TRUE],  [pubkey |-> b, signed |-> FALSE],
               [pubkey |-> a, signed |-> TRUE] >>

Counts == {0, 2, 3, 5}
=============================================================================
