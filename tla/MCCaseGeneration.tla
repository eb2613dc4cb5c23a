-------------------------- MODULE MCCaseGeneration --------------------------
(* Instances of CaseGeneration for TLC: a case of three steps, of which any but  *)
(* all may be left out.  A step is accepted after those before it, and the first *)
(* also alone; one of the steps, or none, never is.                             *)
EXTENDS CaseGeneration
CONSTANT Rejected
Ascending(ds) ==
    {s \in UNION {[1..n -> ds] : n \in 0..Cardinality(ds)} :
        \A i, j \in DOMAIN s : i < j => s[i] < s[j]}
SomeLists == Ascending(1..Steps) \ {<<>>}
InOrder(r) ==
    {p \in Ascending(1..Steps) \X (1..Steps \ {r}) :
        p[1] = <<>> \/ p[1][Len(p[1])] < p[2]}
InOrderBut == {InOrder(r) : r \in Rejected}
=============================================================================
