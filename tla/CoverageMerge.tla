---------------------------- MODULE CoverageMerge ----------------------------
(***************************************************************************)
(* The merging of coverage data in diff_testing.py, for one client: test   *)
(* cases record executions, the accumulated report of a suite merges what  *)
(* they left, the final report merges the totals of several suites.        *)
(*                                                                         *)
(* A command line holds no more than MERGE_CHUNK_SIZE files: they are      *)
(* merged chunk by chunk, level by level, until one command takes the      *)
(* rest.  The data of Nimbus is first captured by a pool of threads.       *)
(*                                                                         *)
(* Coverage is the set of executions it comes from, an execution a pair of *)
(* a directory and a number.  Any command may fail, and the program may be *)
(* killed at any time, a command that is writing and a copy included.      *)
(***************************************************************************)
EXTENDS Integers, Sequences, FiniteSets

CONSTANTS
    CovDirs,                \* cov_output_* of the cases, or totals of suites
    Suites,                 \* which of them a run may leave data in
    Listing(_),             \* the order in which the file system lists some
    MERGE_CHUNK_SIZE,
    NIMBUS_COVERAGE_JOBS,
    Parts(_),               \* what a command has written of its output, midway
    MaxRuns                 \* bound: the runs of the program

ASSUME MergeAssumption ==
    /\ Suites \subseteq SUBSET CovDirs
    /\ MERGE_CHUNK_SIZE \in Nat \ {0, 1}
    /\ NIMBUS_COVERAGE_JOBS \in Nat \ {0}
    /\ MaxRuns \in Nat

ASSUME ListingAssumption ==
    \A ds \in SUBSET CovDirs :
        /\ Listing(ds) \in Seq(ds)
        /\ \A d \in ds : \E i \in DOMAIN Listing(ds) : Listing(ds)[i] = d
        /\ \A i, j \in DOMAIN Listing(ds) : Listing(ds)[i] = Listing(ds)[j] => i = j

Clients == {"prysm", "lighthouse", "teku", "nimbus", "lodestar", "eth2spec"}
Runs == 1..MaxRuns
Items == CovDirs \X Runs

\* A command writes nothing but what it merges.
ASSUME PartsAssumption ==
    \A whole \in SUBSET Items : Parts(whole) \subseteq SUBSET whole

VARIABLES
    client,         \* whose coverage is merged: the clients are independent
    report,         \* the report made: that of a suite, or the final one
    cleanup,        \* the option --cleanup-after-report
    run,            \* how often the program was run
    phase,          \* what the program does
    raw,            \* the executions each directory holds the raw data of
    profdata,       \* the executions in its report/lighthouse.profdata
    capture,        \* what the pool has done of each directory of Nimbus
    source,         \* what is being merged: raw or profdata
    level,          \* the inputs of the level of the merge
    copied,         \* how many of them were copied: only Lodestar copies
    files,          \* the files of the total; only Lodestar has several
    partial         \* history: the total is being written, or was not written to its end

mergeVars == <<client, report, cleanup, run, phase, raw, profdata, capture, source,
               level, copied, files, partial>>

-----------------------------------------------------------------------------
(* Chunks *)

\* A fault: a chunk ends one file early.
GappedChunk(n, k) ==
    {i \in 1..n : (k - 1) * MERGE_CHUNK_SIZE < i /\ i < k * MERGE_CHUNK_SIZE}

\* A fault: a chunk begins with the last file of the one before it.
OverlappingChunk(n, k) ==
    {i \in 1..n : (k - 1) * MERGE_CHUNK_SIZE <= i /\ i <= k * MERGE_CHUNK_SIZE}

\* The positions of the k-th chunk of n files.
Chunk(n, k) ==
    {i \in 1..n : (k - 1) * MERGE_CHUNK_SIZE < i /\ i <= k * MERGE_CHUNK_SIZE}

\* How many chunks n files make.
ChunkCount(n) == (n + MERGE_CHUNK_SIZE - 1) \div MERGE_CHUNK_SIZE

\* One file for each chunk of the inputs.
NextLevel(inputs) ==
    [k \in 1..ChunkCount(Len(inputs)) |-> UNION {inputs[i] : i \in Chunk(Len(inputs), k)}]

Contents(inputs) == UNION {inputs[i] : i \in DOMAIN inputs}

-----------------------------------------------------------------------------
(* What the directories hold *)

Data(held, ds) == {p \in ds \X Runs : p[2] \in held[p[1]]}

NonEmpty(held) == {d \in CovDirs : held[d] # {}}

\* The inputs that the directories ds give, in the order they are listed.
InputsOf(held, ds) ==
    [i \in DOMAIN Listing(ds) |-> Data(held, {Listing(ds)[i]})]

\* What a directory holds after an execution: some tools add a file or append to
\* it, c8 clears its directory first, the others write the same files again.
Recorded(held) ==
    IF report = "final" \/ client \in {"nimbus", "lodestar", "eth2spec"}
    THEN {run} ELSE held \cup {run}

\* What the report of a single directory leaves of converted files: that of
\* Lighthouse converts what the directory holds, unless it fails.
Converted(d, held) ==
    {profdata} \cup IF client = "lighthouse"
                    THEN {[profdata EXCEPT ![d] = held]} ELSE {}

\* The cleanup removes the data of the directories ds.
CleanedUp(held, ds) ==
    [d \in CovDirs |-> IF cleanup /\ d \in ds THEN {} ELSE held[d]]

-----------------------------------------------------------------------------
(* Whose data is merged by levels *)

TakesPrysmDirs == client = "prysm" /\ report = "accumulated"

\* Raw data of Lighthouse is only looked for when nothing was converted.
TakesProfraw ==
    client = "lighthouse" /\ report = "accumulated" /\ NonEmpty(profdata) = {}

TakesExecFiles == client = "teku" /\ report = "accumulated"

TakesPrysmTotals == client = "prysm" /\ report = "final"

TakesProfdataTotals == client = "lighthouse" /\ report = "final"

TakesExecTotals == client = "teku" /\ report = "final"

TakesInfoTotals == client = "nimbus" /\ report = "final"

-----------------------------------------------------------------------------
(* The steps *)

MergeInit ==
    /\ client \in Clients
    /\ report \in {"accumulated", "final"}
    /\ cleanup \in IF report = "final" THEN {FALSE} ELSE BOOLEAN
    /\ run = 1
    /\ phase = "tests"
    /\ raw = [d \in CovDirs |-> {}]
    /\ profdata = [d \in CovDirs |-> {}]
    /\ capture = [d \in CovDirs |-> "none"]
    /\ source = "raw"
    /\ level = <<>>
    /\ copied = 0
    /\ files = <<>>
    /\ partial = FALSE

\* The cases of a suite run; those in ds leave data, the others were aborted or
\* are not of this suite.  For the final report, the suites whose total is there.
RunSuite(ds) ==
    /\ phase = "tests"
    /\ run <= MaxRuns
    /\ raw' = [d \in CovDirs |-> IF d \in ds THEN Recorded(raw[d]) ELSE raw[d]]
    /\ phase' = "collect"
    /\ UNCHANGED <<client, report, cleanup, run, profdata, capture, source,
                   level, copied, files, partial>>

\* A single case runs and its own report is made, or fails to be.  Whichever it
\* was, the cleanup then removes the data, the converted file with it.
RunSingle(d) ==
    /\ phase = "tests"
    /\ report = "accumulated"
    /\ run <= MaxRuns
    /\ run' = run + 1
    /\ raw' = CleanedUp([raw EXCEPT ![d] = Recorded(@)], {d})
    /\ \E made \in Converted(d, Recorded(raw[d])) : profdata' = CleanedUp(made, {d})
    /\ UNCHANGED <<client, report, cleanup, phase, capture, source,
                   level, copied, files, partial>>

\* The inputs of the merge are found, and the last total is removed.
BeginMerge(held, ds) ==
    /\ level' = InputsOf(held, ds)
    /\ files' = <<>>
    /\ partial' = FALSE
    /\ phase' = "merge"

\* Nothing is found: only Prysm, whose directories are inputs even when they are
\* empty, removes its last total.
CollectNothing ==
    /\ phase = "collect"
    /\ NonEmpty(raw) = {} /\ NonEmpty(profdata) = {}
    /\ IF client = "prysm" THEN files' = <<>> /\ partial' = FALSE
                           ELSE UNCHANGED <<files, partial>>
    /\ phase' = "cleanup"
    /\ UNCHANGED <<client, report, cleanup, run, raw, profdata, capture, source, level, copied>>

\* Converted files, if a single one is there, stand for all the data of Lighthouse.
CollectProfdata ==
    /\ phase = "collect"
    /\ client = "lighthouse"
    /\ NonEmpty(profdata) # {}
    /\ source' = "profdata"
    /\ BeginMerge(profdata, NonEmpty(profdata))
    /\ UNCHANGED <<client, report, cleanup, run, raw, profdata, capture, copied>>

CollectRaw ==
    /\ phase = "collect"
    /\ \/ TakesPrysmDirs \/ TakesProfraw \/ TakesExecFiles
       \/ TakesPrysmTotals \/ TakesProfdataTotals \/ TakesExecTotals \/ TakesInfoTotals
    /\ NonEmpty(raw) # {}
    /\ source' = "raw"
    /\ BeginMerge(raw, NonEmpty(raw))
    /\ UNCHANGED <<client, report, cleanup, run, raw, profdata, capture, copied>>

\* The files of Lodestar are copied over those of the last merge.
CollectLodestar ==
    /\ phase = "collect"
    /\ client = "lodestar"
    /\ NonEmpty(raw) # {}
    /\ level' = InputsOf(raw, NonEmpty(raw))
    /\ copied' = 0
    /\ phase' = "copy"
    /\ UNCHANGED <<client, report, cleanup, run, raw, profdata, capture, source, files, partial>>

\* The file with the number i of the total is written, whatever it was.
Written(i, content) ==
    IF i \in DOMAIN files THEN [files EXCEPT ![i] = content] ELSE Append(files, content)

\* A copy first makes the file empty.
OpenJson ==
    /\ phase = "copy"
    /\ copied < Len(level)
    /\ files' = Written(copied + 1, {})
    /\ partial' = TRUE
    /\ UNCHANGED <<client, report, cleanup, run, phase, raw, profdata, capture, source,
                   level, copied>>

\* A copy ends, and the next begins.
CopyJson ==
    /\ phase = "copy"
    /\ copied < Len(level)
    /\ files' = Written(copied + 1, level[copied + 1])
    /\ copied' = copied + 1
    /\ partial' = (copied' < Len(level))
    /\ phase' = IF partial' THEN "copy" ELSE "cleanup"
    /\ level' = IF partial' THEN level ELSE <<>>
    /\ UNCHANGED <<client, report, cleanup, run, raw, profdata, capture, source>>

\* coverage combine takes all the files in one command, and starts afresh.
CombineEth2spec ==
    /\ phase = "collect"
    /\ client = "eth2spec"
    /\ NonEmpty(raw) # {}
    /\ source' = "raw"
    /\ level' = InputsOf(raw, NonEmpty(raw))
    /\ \E part \in Parts(Contents(level')) : files' = <<part>>
    /\ partial' = TRUE
    /\ phase' = "write"
    /\ UNCHANGED <<client, report, cleanup, run, raw, profdata, capture, copied>>

\* The tool that merges is not installed, or coverage combine fails at once: the
\* merge ends before the last total is touched.
ToolMissing ==
    /\ phase = "collect"
    /\ client \in {"lighthouse", "teku", "nimbus", "eth2spec"}
    /\ phase' = "cleanup"
    /\ UNCHANGED <<client, report, cleanup, run, raw, profdata, capture, source,
                   level, copied, files, partial>>

\* The captures of Nimbus are submitted.
SubmitCaptures ==
    /\ phase = "collect"
    /\ client = "nimbus" /\ report = "accumulated"
    /\ NonEmpty(raw) # {}
    /\ capture' = [d \in CovDirs |-> IF raw[d] # {} THEN "queued" ELSE "none"]
    /\ phase' = "capture"
    /\ UNCHANGED <<client, report, cleanup, run, raw, profdata, source,
                   level, copied, files, partial>>

Captures(status) == {d \in CovDirs : capture[d] = status}

\* A thread that is free takes the first of the queue.
StartCapture(d) ==
    /\ phase = "capture"
    /\ Cardinality(Captures("running")) < NIMBUS_COVERAGE_JOBS
    /\ Captures("queued") # {}
    /\ d = Listing(Captures("queued"))[1]
    /\ capture' = [capture EXCEPT ![d] = "running"]
    /\ UNCHANGED <<client, report, cleanup, run, phase, raw, profdata, source,
                   level, copied, files, partial>>

\* lcov ends: the directory has its file, or is left out.
FinishCapture(d, result) ==
    /\ phase = "capture"
    /\ capture[d] = "running"
    /\ capture' = [capture EXCEPT ![d] = result]
    /\ UNCHANGED <<client, report, cleanup, run, phase, raw, profdata, source,
                   level, copied, files, partial>>

AllCaptured == Captures("queued") = {} /\ Captures("running") = {}

\* The captured files, sorted by name, are the inputs of the merge.
MergeCaptured ==
    /\ phase = "capture"
    /\ AllCaptured
    /\ source' = "raw"
    /\ IF Captures("done") = {}
       THEN phase' = "cleanup" /\ UNCHANGED <<level, files, partial>>
       ELSE BeginMerge(raw, Captures("done"))
    /\ UNCHANGED <<client, report, cleanup, run, raw, profdata, capture, copied>>

\* A fault: the levels go on as long as there is an input.
AnyLeft(inputs) == inputs # <<>>

TooMany(inputs) == Len(inputs) > MERGE_CHUNK_SIZE

MergeLevel ==
    /\ phase = "merge"
    /\ TooMany(level)
    /\ level' = NextLevel(level)
    /\ UNCHANGED <<client, report, cleanup, run, phase, raw, profdata, capture, source,
                   copied, files, partial>>

\* The last command writes straight to where the total is looked for.
BeginLast ==
    /\ phase = "merge"
    /\ ~TooMany(level)
    /\ \E part \in Parts(Contents(level)) : files' = <<part>>
    /\ partial' = TRUE
    /\ phase' = "write"
    /\ UNCHANGED <<client, report, cleanup, run, raw, profdata, capture, source, level, copied>>

MergeLast ==
    /\ phase = "write"
    /\ files' = << Contents(level) >>
    /\ partial' = FALSE
    /\ level' = <<>>
    /\ phase' = "cleanup"
    /\ UNCHANGED <<client, report, cleanup, run, raw, profdata, capture, source, copied>>

\* A command fails: from converted files the merge falls back to the raw data, if
\* there is any, and otherwise what the last command has written stays.
MergeFails ==
    /\ phase \in {"merge", "write"}
    /\ IF source = "profdata" /\ NonEmpty(raw) # {} /\ report = "accumulated"
       THEN BeginMerge(raw, NonEmpty(raw))
       ELSE level' = <<>> /\ phase' = "cleanup" /\ UNCHANGED <<files, partial>>
    /\ source' = "raw"
    /\ UNCHANGED <<client, report, cleanup, run, raw, profdata, capture, copied>>

\* The raw data goes, whatever became of the merge.
CleanUp ==
    /\ phase = "cleanup"
    /\ raw' = CleanedUp(raw, CovDirs)
    /\ profdata' = CleanedUp(profdata, CovDirs)
    /\ capture' = [d \in CovDirs |-> "none"]
    /\ phase' = "tests"
    /\ run' = run + 1
    /\ UNCHANGED <<client, report, cleanup, source, level, copied, files, partial>>

\* The program is killed, or a command that is not installed stops it.  The next
\* run removes the temporary directories before it uses them; what was written of
\* the total stays.
Killed ==
    /\ phase # "tests"
    /\ phase' = "tests"
    /\ run' = run + 1
    /\ capture' = [d \in CovDirs |-> "none"]
    /\ level' = <<>>
    /\ UNCHANGED <<client, report, cleanup, raw, profdata, source, copied, files, partial>>

Progress ==
    \/ CollectNothing \/ CollectProfdata \/ CollectRaw \/ CollectLodestar
    \/ OpenJson \/ CopyJson \/ CombineEth2spec \/ SubmitCaptures
    \/ \E d \in CovDirs :
        \/ StartCapture(d)
        \/ \E result \in {"done", "failed"} : FinishCapture(d, result)
    \/ MergeCaptured \/ MergeLevel \/ BeginLast \/ MergeLast \/ CleanUp

Merging == Progress \/ ToolMissing \/ MergeFails

MergeNext ==
    \/ \E ds \in Suites : RunSuite(ds)
    \/ \E d \in CovDirs : RunSingle(d)
    \/ Merging
    \/ Killed

\* The program goes on with a merge it has begun; nothing has to fail.
MergeSpec == MergeInit /\ [][MergeNext]_mergeVars /\ WF_mergeVars(Progress)

-----------------------------------------------------------------------------
(* Properties *)

\* Types: inputs and totals hold executions of the directories and nothing else.
MergeTypeOK ==
    /\ client \in Clients
    /\ report \in {"accumulated", "final"}
    /\ cleanup \in BOOLEAN
    /\ run \in 1..MaxRuns + 1
    /\ phase \in {"tests", "collect", "copy", "capture", "merge", "write", "cleanup"}
    /\ phase # "tests" => run <= MaxRuns
    /\ raw \in [CovDirs -> SUBSET Runs]
    /\ profdata \in [CovDirs -> SUBSET Runs]
    /\ capture \in [CovDirs -> {"none", "queued", "running", "done", "failed"}]
    /\ source \in {"raw", "profdata"}
    /\ level \in Seq(SUBSET Items)
    /\ copied \in Nat
    /\ files \in Seq(SUBSET Items)
    /\ partial \in BOOLEAN

\* No execution is in two inputs of a level: a merge that adds counts would count
\* it twice.
MergedOnce ==
    \A i, j \in DOMAIN level : i # j => level[i] \cap level[j] = {}

\* Merging by chunks and levels, with a pool of threads and commands that fail, is
\* merging everything at once.  No level loses or invents anything, and of Nimbus
\* only what could not be captured is missing.  The exception is stated: a command
\* or a copy that is stopped midway leaves a part in the place of the total, which
\* nothing but the history variable tells from a whole one.  The next merge removes
\* it; that of Lodestar copies over it, as far as it has files.
Total == INSTANCE OneShotMerge WITH total <- Contents(files), failed <- Captures("failed")
MergesAtOnce == Total!Spec

\* A merge ends, however many levels it takes.
MergeEnds ==
    phase \in {"collect", "copy", "capture", "merge", "write"} ~> phase = "tests"
=============================================================================
