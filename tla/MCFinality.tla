----------------------------- MODULE MCFinality -----------------------------
(* Finite instances of Finality. *)
EXTENDS Finality, TLC

CONSTANTS v1, v2, v3, A, B

\* One validator that is a supermajority alone: every pattern of justified
\* epochs, at the least cost in states.
WholeBalance == (v1 :> 3)

\* Three validators of which any two are a supermajority.
EqualBalances == (v1 :> 1 @@ v2 :> 1 @@ v3 :> 1)

EmptyAtTwo == {2}

\* The two that are never slashed may be exchanged.
ValidatorSymmetry == Permutations({v2, v3})
=============================================================================
