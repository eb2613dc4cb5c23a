-------------------------- MODULE MCCoverageMerge --------------------------
(* Instances of CoverageMerge for TLC: five directories and chunks of two, so  *)
(* that a merge takes two levels before the last command.  A run leaves data   *)
(* in all of them, in two, which is one command, in three or in none.          *)
EXTENDS CoverageMerge, SequencesExt
SomeSuites == { {}, {1, 2}, {2, 4, 5}, {1, 2, 3, 4, 5} }
\* A command that is stopped has written nothing, or what two directories hold.
SomeParts(whole) == { {}, {p \in whole : p[1] <= 2} }
Sorted(ds) == SetToSortSeq(ds, <)
=============================================================================
