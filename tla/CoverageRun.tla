---------------------------- MODULE CoverageRun ----------------------------
(***************************************************************************)
(* A batch of inputs evaluated against the specification, with their       *)
(* coverage, by processes that may be killed at any time and resume from   *)
(* the checkpoint file that the last one left (run_target of the batch     *)
(* runner and its Checkpoint module).                                      *)
(*                                                                         *)
(* The tasks run in order; the inputs of one task in an order of their     *)
(* own.  The coverage of a handler is how often each input was counted.    *)
(* A checkpoint is written where the last one was read from.               *)
(***************************************************************************)
EXTENDS Integers, Sequences, FiniteSets

CONSTANTS
    Tasks,                  \* the inputs that each task collects, by source
    OverGap,                \* the inputs that skip_source skips
    Specs,                  \* the contents that the specification's files may have
    SAVE_INTERVAL,          \* --save-interval
    EditsWhileRunning,      \* whether the files may change under a running process
    MaxCrashes, MaxEdits    \* bounds: killed processes, changes of the files

Sources == UNION {Tasks[i] : i \in DOMAIN Tasks}

ASSUME CoverageRunAssumption ==
    /\ Tasks \in Seq(SUBSET Sources)
    /\ Len(Tasks) > 0
    /\ \A i \in DOMAIN Tasks : IsFiniteSet(Tasks[i])
    /\ Specs # {}
    /\ SAVE_INTERVAL \in Nat \ {0}
    /\ EditsWhileRunning \in BOOLEAN
    /\ MaxCrashes \in Nat
    /\ MaxEdits \in Nat

\* Of two tasks that collect the same source, a resumed run does the first only.
ASSUME SourcesDistinct ==
    \A i, j \in DOMAIN Tasks : i # j => Tasks[i] \cap Tasks[j] = {}

VARIABLES
    specFiles,              \* the specification's files
    disk,                   \* the checkpoint file: "none", "partial" or "whole"
    saved,                  \* what the checkpoint file holds, or last held, when whole
    proc,                   \* "idle", "starting", "running", "saving" or "exiting"
    resuming,               \* whether the process was started with --resume
    spec,                   \* the specification that the process loaded
    task, remaining, index, \* where it is: the inputs left, and how many were done
    loaded,                 \* the inputs completed by the processes before
    completed,              \* all inputs completed
    coverage,               \* how often the coverage counts each input
    basis,                  \* history: the specifications that inputs ran against
    snapshot,               \* the checkpoint being written
    crashes, edits          \* counters for the bounds

memory == <<task, remaining, index, loaded, completed, coverage, basis>>
vars == <<specFiles, disk, saved, proc, resuming, spec, memory, snapshot, crashes, edits>>

NoCoverage == [s \in Sources |-> 0]

\* The hash is that of the files as they are when the checkpoint is made.
Checkpoint(done, cov, specs) ==
    [hash |-> specFiles, completed |-> done, coverage |-> cov, basis |-> specs]

-----------------------------------------------------------------------------
\* Faults: a checkpoint's coverage, or its list of inputs, is not restored.
NoCoverageRestored == NoCoverage
NothingRestored == {}

restored_coverage == saved.coverage
restored_inputs == saved.completed

filter_remaining(inputs) == inputs \ loaded

verify_spec == saved.hash = specFiles

SaveDue(n) == (n + 1) % SAVE_INTERVAL = 0

\* What is skipped leaves no coverage.
CoverageAfter(s) ==
    IF s \in OverGap THEN coverage ELSE [coverage EXCEPT ![s] = @ + 1]

-----------------------------------------------------------------------------
Init ==
    /\ specFiles \in Specs
    /\ disk = "none"
    /\ saved = Checkpoint({}, NoCoverage, {})
    /\ proc = "idle"
    /\ resuming = FALSE
    /\ spec = specFiles
    /\ task = 0 /\ remaining = {} /\ index = 0
    /\ loaded = {} /\ completed = {} /\ coverage = NoCoverage /\ basis = {}
    /\ snapshot = saved
    /\ crashes = 0 /\ edits = 0

\* A process loads the specification.  Whoever starts it asks it to resume whenever
\* there is a checkpoint; a partial one is refused and changes nothing.
Start ==
    /\ proc = "idle"
    /\ proc' = "starting"
    /\ spec' = specFiles
    /\ resuming' = (disk = "whole")
    /\ UNCHANGED <<specFiles, disk, saved, memory, snapshot, crashes, edits>>

\* verify_and_load: the checkpoint is of other files, and the process is started
\* again without it.
Refuse ==
    /\ proc = "starting" /\ resuming
    /\ ~verify_spec
    /\ resuming' = FALSE
    /\ spec' = specFiles
    /\ UNCHANGED <<specFiles, disk, saved, proc, memory, snapshot, crashes, edits>>

\* The handlers start empty and take over the checkpoint's coverage.
Load ==
    /\ proc = "starting"
    /\ resuming => verify_spec
    /\ proc' = "running"
    /\ task' = 0 /\ remaining' = {} /\ index' = 0
    /\ IF resuming
       THEN /\ loaded' = saved.completed
            /\ completed' = restored_inputs
            /\ coverage' = restored_coverage
            /\ basis' = saved.basis
       ELSE loaded' = {} /\ completed' = {} /\ coverage' = NoCoverage /\ basis' = {}
    /\ UNCHANGED <<specFiles, disk, saved, resuming, spec, snapshot, crashes, edits>>

\* The file is truncated first.
BeginSave(done, cov, specs) ==
    /\ snapshot' = Checkpoint(done, cov, specs)
    /\ disk' = "partial"
    /\ UNCHANGED saved

Save ==
    /\ proc \in {"saving", "exiting"}
    /\ disk' = "whole"
    /\ saved' = snapshot
    /\ proc' = IF proc = "saving" THEN "running" ELSE "idle"
    /\ UNCHANGED <<specFiles, resuming, spec, memory, snapshot, crashes, edits>>

\* An input that fails, or makes the interpreter raise, is completed too.
RunInput(s) ==
    /\ proc = "running"
    /\ s \in remaining
    /\ remaining' = remaining \ {s}
    /\ index' = index + 1
    /\ completed' = completed \cup {s}
    /\ coverage' = CoverageAfter(s)
    /\ basis' = IF s \in OverGap THEN basis ELSE basis \cup {spec}
    /\ IF SaveDue(index)
       THEN /\ proc' = "saving"
            /\ BeginSave(completed', coverage', basis')
       ELSE UNCHANGED <<proc, disk, saved, snapshot>>
    /\ UNCHANGED <<specFiles, resuming, spec, task, loaded, crashes, edits>>

\* The run ends, with an error, at a task that collects no inputs.
NextTask ==
    /\ proc = "running"
    /\ remaining = {}
    /\ task < Len(Tasks)
    /\ Tasks[task + 1] # {}
    /\ task' = task + 1
    /\ index' = 0
    /\ remaining' = filter_remaining(Tasks[task + 1])
    /\ UNCHANGED <<specFiles, disk, saved, proc, resuming, spec, loaded, completed,
                   coverage, basis, snapshot, crashes, edits>>

AllTasksDone ==
    /\ remaining = {}
    /\ task < Len(Tasks) => Tasks[task + 1] = {}

\* A fault: no checkpoint is saved at the end.
FinishUnsaved ==
    /\ proc = "running"
    /\ AllTasksDone
    /\ proc' = "idle"
    /\ UNCHANGED <<specFiles, disk, saved, resuming, spec, memory, snapshot, crashes, edits>>

Finish ==
    /\ proc = "running"
    /\ AllTasksDone
    /\ proc' = "exiting"
    /\ BeginSave(completed, coverage, basis)
    /\ UNCHANGED <<specFiles, resuming, spec, memory, crashes, edits>>

-----------------------------------------------------------------------------
(* The environment *)

Crash ==
    /\ proc # "idle"
    /\ crashes < MaxCrashes
    /\ crashes' = crashes + 1
    /\ proc' = "idle"
    /\ UNCHANGED <<specFiles, disk, saved, resuming, spec, memory, snapshot, edits>>

Edit ==
    /\ proc = "idle" \/ EditsWhileRunning
    /\ edits < MaxEdits
    /\ edits' = edits + 1
    /\ specFiles' \in Specs \ {specFiles}
    /\ UNCHANGED <<disk, saved, proc, resuming, spec, memory, snapshot, crashes>>

Step == Start \/ Refuse \/ Load \/ Save \/ NextTask \/ Finish
            \/ \E s \in Sources : RunInput(s)

Next == Step \/ Crash \/ Edit

\* A process that was not killed goes on, and one that was is started again.
Spec == Init /\ [][Next]_vars /\ WF_vars(Step)

-----------------------------------------------------------------------------
(* Properties *)

\* Types; a checkpoint counts and lists inputs of the tasks and nothing else.
TypeOK ==
    /\ specFiles \in Specs /\ spec \in Specs
    /\ disk \in {"none", "partial", "whole"}
    /\ proc \in {"idle", "starting", "running", "saving", "exiting"}
    /\ resuming \in BOOLEAN
    /\ task \in 0..Len(Tasks)
    /\ index \in Nat
    /\ remaining \subseteq Sources
    /\ loaded \subseteq Sources
    /\ completed \subseteq Sources
    /\ coverage \in [Sources -> Nat]
    /\ basis \subseteq Specs
    /\ {saved, snapshot} \subseteq
         [hash : Specs, completed : SUBSET Sources, coverage : [Sources -> Nat],
          basis : SUBSET Specs]

Active == proc \in {"running", "saving", "exiting"}

\* However often the run was killed and resumed, the coverage of a checkpoint counts
\* each input that it lists once, skipped ones excepted, and counts nothing else.
CountedOnce ==
    LET Once(done) == [s \in Sources |-> IF s \in done \ OverGap THEN 1 ELSE 0]
    IN  /\ Active => coverage = Once(completed)
        /\ saved.coverage = Once(saved.completed)

\* The results in a checkpoint come from the specification that its hash names.
CheckpointOfOneSpec == disk = "whole" => saved.basis \subseteq {saved.hash}

\* A checkpoint is what one specification makes of the inputs it lists.
CheckpointSound == CountedOnce /\ CheckpointOfOneSpec

\* A checkpoint is only overwritten by one of other files or one that has no less.
ProgressKept ==
    [][disk = "whole" /\ disk' = "partial" /\ saved.hash = snapshot'.hash
         => saved.completed \subseteq snapshot'.completed]_vars

\* Killed finitely often, the run comes to list every input, however often it is
\* resumed then.
CampaignCompletes == []<>(disk = "whole" /\ saved.completed = Sources)

=============================================================================
