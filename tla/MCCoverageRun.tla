--------------------------- MODULE MCCoverageRun ---------------------------
(* Instances of CoverageRun for TLC: two tasks, so that the count of inputs  *)
(* starts again within a run, the second task larger than the save interval; *)
(* of the first, one input is skipped.                                       *)
EXTENDS CoverageRun

CONSTANTS a, b, c, d, e

TwoTasks == << {a, b}, {c, d, e} >>
Skipped == {b}
=============================================================================
