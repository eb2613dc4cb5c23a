---------------------------- MODULE OneShotMerge ----------------------------
(***************************************************************************)
(* What the coverage reports of diff_testing.py promise, whatever the tool *)
(* behind them: a total that was written to its end holds all that the     *)
(* directories of the test cases held when it was made, as if one command  *)
(* had read all of them at once.  A total that was not is a part of that,  *)
(* until the next merge.                                                   *)
(***************************************************************************)
CONSTANTS
    CovDirs,            \* the directories merged: cov_output_*, or the totals of suites
    Runs                \* the executions recorded in them

VARIABLES
    client,             \* whose coverage it is
    raw,                \* the executions each directory holds the data of
    profdata,           \* the executions each directory holds a converted file of
    failed,             \* the directories that could not be captured
    total,              \* what the total shows: pairs of a directory and an execution
    partial             \* whether it is being written, or was not written to its end

\* All the data that the directories ds hold.
Data(held, ds) == {p \in ds \X Runs : p[2] \in held[p[1]]}

\* Executions, captures, reports of single cases and cleanups leave the total alone.
Record == UNCHANGED <<client, total, partial>>

\* A merge begins by removing what the last one left; but Lodestar copies over it,
\* and coverage combine removes it itself.
Discard ==
    /\ client \notin {"lodestar", "eth2spec"}
    /\ total' = {}
    /\ partial' = FALSE
    /\ UNCHANGED <<client, raw, profdata, failed>>

\* A part is written, and stays if what writes it is stopped.
WritePart ==
    /\ partial' = TRUE
    /\ UNCHANGED <<client, raw, profdata, failed>>
    /\ \/ /\ client # "lodestar"
          /\ total' \subseteq Data(raw, CovDirs \ failed)
       \/ /\ client = "lighthouse"
          /\ total' \subseteq Data(profdata, CovDirs)
       \/ /\ client = "lodestar"
          /\ total' \subseteq total \cup Data(raw, CovDirs)

\* A merge ends.  Of Nimbus, directories that could not be captured are left out,
\* there are none of the others; of Lighthouse, the files that reports of single
\* cases have converted are enough; of Lodestar, files of an earlier merge may still
\* lie beside the new ones.
Merge ==
    /\ partial' = FALSE
    /\ UNCHANGED <<client, raw, profdata, failed>>
    /\ \/ /\ client # "lodestar"
          /\ client # "nimbus" => failed = {}
          /\ total' = Data(raw, CovDirs \ failed)
       \/ /\ client = "lighthouse"
          /\ Data(profdata, CovDirs) # {}
          /\ total' = Data(profdata, CovDirs)
       \/ /\ client = "lodestar"
          /\ Data(raw, CovDirs) \subseteq total'
          /\ total' \subseteq total \cup Data(raw, CovDirs)

Init == total = {} /\ ~partial

Next == Record \/ Discard \/ WritePart \/ Merge

Spec == Init /\ [][Next]_<<client, raw, profdata, failed, total, partial>>
=============================================================================
