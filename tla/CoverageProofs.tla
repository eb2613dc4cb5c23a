--------------------------- MODULE CoverageProofs ---------------------------
(***************************************************************************)
(* Proofs about the two ways coverage is put together: CoverageRun, in one *)
(* file by processes that are killed, and CoverageMerge, from the files of *)
(* many directories.                                                       *)
(*                                                                         *)
(* Of CoverageRun, what a checkpoint holds, for every list of tasks, every *)
(* save interval and any number of crashes and changes of the files.       *)
(*                                                                         *)
(* Of CoverageMerge, for any number of directories and any size of a       *)
(* chunk, that it merges as one command would.  The chunks of a level are  *)
(* a partition of its inputs (ChunkOf, ChunksDisjoint), so that a level    *)
(* holds what the one before it held; hence a merge under way holds all    *)
(* that it was begun with, and its last command writes the total of the    *)
(* abstract specification.  Of what Lodestar copies, the files that were   *)
(* copied are there (CopyHolds).                                           *)
(***************************************************************************)
EXTENDS CoverageRun, CoverageMerge, TLAPS

-----------------------------------------------------------------------------
(* CoverageRun: batches and their checkpoints *)

Once(done) == [s \in Sources |-> IF s \in done \ OverGap THEN 1 ELSE 0]

Before(i) == UNION {Tasks[j] : j \in {k \in DOMAIN Tasks : k <= i}}

\* What the process runs was not completed before.
Fresh ==
    /\ completed \subseteq loaded \cup Before(task)
    /\ remaining \subseteq Before(task) \ completed

\* The coverage, in memory, in the file and on its way there, fits the inputs.
Counts ==
    /\ coverage = Once(completed)
    /\ saved.coverage = Once(saved.completed)
    /\ snapshot.coverage = Once(snapshot.completed)

CInv == TypeOK /\ Fresh /\ Counts

-----------------------------------------------------------------------------
LEMMA TasksAreSources ==
    ASSUME NEW i \in DOMAIN Tasks PROVE Tasks[i] \subseteq Sources
  BY DEF Sources

LEMMA DomainOfTasks == DOMAIN Tasks = 1..Len(Tasks) /\ Len(Tasks) \in Nat
  BY CoverageRunAssumption DEF CoverageRunAssumption

LEMMA NoneBefore == Before(0) = {}
  BY DomainOfTasks DEF Before

LEMMA NextBefore ==
    ASSUME NEW i \in Nat, i < Len(Tasks)
    PROVE  /\ Before(i + 1) = Before(i) \cup Tasks[i + 1]
           /\ Before(i) \cap Tasks[i + 1] = {}
  <1>1. i + 1 \in DOMAIN Tasks
    BY DomainOfTasks
  <1>2. {k \in DOMAIN Tasks : k <= i + 1} = {k \in DOMAIN Tasks : k <= i} \cup {i + 1}
    BY <1>1, DomainOfTasks
  <1>3. ASSUME NEW k \in DOMAIN Tasks, k <= i
        PROVE  k # i + 1
    BY <1>3, DomainOfTasks
  <1>4. Before(i + 1) = Before(i) \cup Tasks[i + 1]
    BY <1>2 DEF Before
  <1>5. Before(i) \cap Tasks[i + 1] = {}
    BY <1>1, <1>3, SourcesDistinct DEF Before
  <1> QED BY <1>4, <1>5

\* What a checkpoint made of good parts is.
Checkpoints == [hash : Specs, completed : SUBSET Sources, coverage : [Sources -> Nat],
                basis : SUBSET Specs]

LEMMA CheckpointType ==
    ASSUME specFiles \in Specs, NEW done \in SUBSET Sources, NEW cov \in [Sources -> Nat],
           NEW specs \in SUBSET Specs
    PROVE  Checkpoint(done, cov, specs) \in Checkpoints
  BY DEF Checkpoint, Checkpoints

LEMMA CoverageAfterType ==
    ASSUME NEW s \in Sources, coverage \in [Sources -> Nat]
    PROVE  CoverageAfter(s) \in [Sources -> Nat]
  BY DEF CoverageAfter

\* An input that was not counted is counted once.
LEMMA CountsOneMore ==
    ASSUME NEW s \in Sources, s \notin completed, coverage = Once(completed)
    PROVE  CoverageAfter(s) = Once(completed \cup {s})
  BY DEF CoverageAfter, Once

LEMMA NothingCounted == NoCoverage = Once({}) /\ NoCoverage \in [Sources -> Nat]
  BY DEF NoCoverage, Once

-----------------------------------------------------------------------------
LEMMA InitCInv == Init => CInv
  <1> SUFFICES ASSUME Init PROVE CInv
    OBVIOUS
  <1>1. saved \in Checkpoints
    <2>1. specFiles \in Specs /\ {} \in SUBSET Sources /\ {} \in SUBSET Specs
      BY DEF Init
    <2>2. Checkpoint({}, NoCoverage, {}) \in Checkpoints
      BY <2>1, CheckpointType, NothingCounted
    <2>3. saved = Checkpoint({}, NoCoverage, {})
      BY DEF Init
    <2> QED BY <2>2, <2>3
  <1>2. TypeOK
    <2>1. {saved, snapshot} \subseteq Checkpoints
      BY <1>1 DEF Init
    <2>2. task \in 0..Len(Tasks) /\ index \in Nat
      BY DomainOfTasks DEF Init
    <2>3. resuming \in BOOLEAN /\ coverage \in [Sources -> Nat]
      BY NothingCounted DEF Init
    <2>4. /\ specFiles \in Specs /\ spec \in Specs
          /\ disk \in {"none", "partial", "whole"}
          /\ proc \in {"idle", "starting", "running", "saving", "exiting"}
          /\ remaining \subseteq Sources /\ loaded \subseteq Sources
          /\ completed \subseteq Sources /\ basis \subseteq Specs
      BY DEF Init
    <2> QED BY <2>1, <2>2, <2>3, <2>4 DEF TypeOK, Checkpoints
  <1>3. Fresh
    BY NoneBefore DEF Init, Fresh
  <1>4. Counts
    BY NothingCounted DEF Init, Counts, Checkpoint
  <1> QED BY <1>2, <1>3, <1>4 DEF CInv

LEMMA NextCInv == CInv /\ [Next]_vars => CInv'
  <1> SUFFICES ASSUME CInv, [Next]_vars PROVE CInv'
    OBVIOUS
  <1> USE DEF CInv
  <1>s. saved \in Checkpoints /\ snapshot \in Checkpoints
    BY DEF TypeOK, Checkpoints
  <1>1. CASE Start
    <2>1. TypeOK'
      BY <1>1 DEF Start, TypeOK, memory
    <2>2. Fresh' /\ Counts'
      BY <1>1 DEF Start, Fresh, Counts, memory, Once
    <2> QED BY <2>1, <2>2
  <1>2. CASE Refuse
    <2>1. TypeOK'
      BY <1>2 DEF Refuse, TypeOK, memory
    <2>2. Fresh' /\ Counts'
      BY <1>2 DEF Refuse, Fresh, Counts, memory, Once
    <2> QED BY <2>1, <2>2
  <1>3. CASE Load
    <2>1. CASE resuming
      <3>1. TypeOK'
        BY <1>3, <2>1, <1>s, DomainOfTasks
        DEF Load, TypeOK, Checkpoints, restored_inputs, restored_coverage
      <3>2. Fresh'
        BY <1>3, <2>1, NoneBefore DEF Load, Fresh, restored_inputs
      <3>3. Counts'
        BY <1>3, <2>1 DEF Load, Counts, restored_inputs, restored_coverage
      <3> QED BY <3>1, <3>2, <3>3
    <2>2. CASE ~resuming
      <3>1. TypeOK'
        BY <1>3, <2>2, NothingCounted, DomainOfTasks DEF Load, TypeOK
      <3>2. Fresh'
        BY <1>3, <2>2, NoneBefore DEF Load, Fresh
      <3>3. Counts'
        BY <1>3, <2>2, NothingCounted DEF Load, Counts
      <3> QED BY <3>1, <3>2, <3>3
    <2> QED BY <2>1, <2>2
  <1>4. CASE Save
    <2>1. TypeOK'
      BY <1>4 DEF Save, TypeOK, memory
    <2>2. Fresh' /\ Counts'
      BY <1>4 DEF Save, Fresh, Counts, memory, Once
    <2> QED BY <2>1, <2>2
  <1>5. CASE NextTask
    <2>1. task \in Nat /\ task < Len(Tasks) /\ task + 1 \in DOMAIN Tasks
      BY <1>5, DomainOfTasks DEF NextTask, TypeOK
    <2>2. Tasks[task + 1] \subseteq Sources
      BY <2>1, TasksAreSources
    <2>3. TypeOK'
      BY <1>5, <2>1, <2>2, DomainOfTasks DEF NextTask, TypeOK, filter_remaining
    <2>4. Fresh'
      <3>1. /\ Before(task + 1) = Before(task) \cup Tasks[task + 1]
            /\ Before(task) \cap Tasks[task + 1] = {}
        BY <2>1, NextBefore
      <3>2. completed \subseteq loaded \cup Before(task)
        BY DEF Fresh
      <3>3. filter_remaining(Tasks[task + 1]) \subseteq Before(task + 1) \ completed
        BY <3>1, <3>2 DEF filter_remaining
      <3>4. /\ task' = task + 1 /\ completed' = completed /\ loaded' = loaded
            /\ remaining' = filter_remaining(Tasks[task + 1])
        BY <1>5 DEF NextTask
      <3> QED BY <3>1, <3>2, <3>3, <3>4 DEF Fresh
    <2>5. Counts'
      BY <1>5 DEF NextTask, Counts
    <2> QED BY <2>3, <2>4, <2>5
  <1>6. CASE Finish
    <2>1. Checkpoint(completed, coverage, basis) \in Checkpoints
      BY CheckpointType DEF TypeOK
    <2>2. TypeOK'
      BY <1>6, <2>1 DEF Finish, BeginSave, TypeOK, memory, Checkpoints
    <2>3. Fresh'
      BY <1>6 DEF Finish, Fresh, memory
    <2>4. Counts'
      BY <1>6 DEF Finish, BeginSave, Checkpoint, Counts, memory
    <2> QED BY <2>2, <2>3, <2>4
  <1>7. ASSUME NEW s \in Sources, RunInput(s)
        PROVE  CInv'
    <2>1. s \in remaining /\ s \notin completed
      BY <1>7 DEF RunInput, Fresh
    <2>2. CoverageAfter(s) \in [Sources -> Nat]
      BY CoverageAfterType DEF TypeOK
    <2>3. CoverageAfter(s) = Once(completed \cup {s})
      BY <2>1, CountsOneMore DEF Counts
    <2>4. /\ completed' = completed \cup {s} /\ coverage' = CoverageAfter(s)
          /\ completed' \subseteq Sources /\ basis' \subseteq Specs
      BY <1>7 DEF RunInput, TypeOK
    <2>5. /\ saved' = saved
          /\ \/ snapshot' = snapshot
             \/ snapshot' = Checkpoint(completed', coverage', basis')
      BY <1>7 DEF RunInput, BeginSave
    <2>6. Checkpoint(completed', coverage', basis') \in Checkpoints
      BY <2>2, <2>4, CheckpointType DEF TypeOK
    <2>7. TypeOK'
      <3>1. proc' \in {"running", "saving"} /\ disk' \in {"none", "partial", "whole"}
        BY <1>7 DEF RunInput, BeginSave, TypeOK
      <3>2. {saved', snapshot'} \subseteq Checkpoints
        BY <1>s, <2>5, <2>6
      <3>3. index' \in Nat
        BY <1>7 DEF RunInput, TypeOK
      <3>4. /\ specFiles' \in Specs /\ spec' \in Specs /\ resuming' \in BOOLEAN
            /\ task' \in 0..Len(Tasks) /\ remaining' \subseteq Sources
            /\ loaded' \subseteq Sources
        BY <1>7 DEF RunInput, TypeOK
      <3> QED BY <2>2, <2>4, <3>1, <3>2, <3>3, <3>4 DEF TypeOK, Checkpoints
    <2>8. Fresh'
      <3>1. remaining' = remaining \ {s} /\ task' = task /\ loaded' = loaded
        BY <1>7 DEF RunInput
      <3> QED BY <2>1, <2>4, <3>1 DEF Fresh
    <2>9. Counts'
      <3>1. Checkpoint(completed', coverage', basis').coverage
              = Once(Checkpoint(completed', coverage', basis').completed)
        BY <2>3, <2>4 DEF Checkpoint
      <3>2. snapshot'.coverage = Once(snapshot'.completed)
        BY <2>5, <3>1 DEF Counts
      <3> QED BY <2>3, <2>4, <2>5, <3>2 DEF Counts
    <2> QED BY <2>7, <2>8, <2>9
  <1>8. CASE Crash
    <2>1. TypeOK'
      BY <1>8 DEF Crash, TypeOK, memory
    <2>2. Fresh' /\ Counts'
      BY <1>8 DEF Crash, Fresh, Counts, memory, Once
    <2> QED BY <2>1, <2>2
  <1>9. CASE Edit
    <2>1. TypeOK'
      BY <1>9 DEF Edit, TypeOK, memory
    <2>2. Fresh' /\ Counts'
      BY <1>9 DEF Edit, Fresh, Counts, memory, Once
    <2> QED BY <2>1, <2>2
  <1>10. CASE UNCHANGED vars
    <2>1. TypeOK'
      BY <1>10 DEF vars, TypeOK, memory
    <2>2. Fresh' /\ Counts'
      BY <1>10 DEF vars, Fresh, Counts, memory, Once
    <2> QED BY <2>1, <2>2
  <1> QED BY <1>1, <1>2, <1>3, <1>4, <1>5, <1>6, <1>7, <1>8, <1>9, <1>10
          DEF Next, Step

\* TypeOK, Fresh and Counts hold in every state of a campaign of runs.
THEOREM Invariance == Spec => []CInv
  <1> QED BY InitCInv, NextCInv, PTL DEF Spec

\* The state of the runs, the coverage that a handler takes over from a file included,
\* is of the type that TypeOK says (run_target).
THEOREM TypeCorrect == Spec => []TypeOK
  <1>1. CInv => TypeOK
    BY DEF CInv
  <1> QED BY <1>1, Invariance, PTL

\* However often run_target is killed and resumed, a checkpoint counts each input that
\* it lists once.
THEOREM EachCountedOnce == Spec => []CountedOnce
  <1>1. CInv => CountedOnce
    BY DEF CInv, Counts, CountedOnce, Once
  <1> QED BY <1>1, Invariance, PTL

-----------------------------------------------------------------------------
(* The specification behind a checkpoint *)

\* While a process runs, the files are those that it loaded.
OneSpec ==
    /\ proc # "idle" => spec = specFiles
    /\ Active => basis \subseteq {specFiles}
    /\ proc \in {"saving", "exiting"} =>
         /\ snapshot.hash = specFiles
         /\ snapshot.basis \subseteq {snapshot.hash}
    /\ saved.basis \subseteq {saved.hash}

LEMMA InitOneSpec == Init => OneSpec
  BY DEF Init, OneSpec, Active, Checkpoint

LEMMA NextOneSpec ==
    ASSUME ~EditsWhileRunning
    PROVE  TypeOK /\ OneSpec /\ [Next]_vars => OneSpec'
  <1> SUFFICES ASSUME TypeOK, OneSpec, [Next]_vars PROVE OneSpec'
    OBVIOUS
  <1> USE DEF OneSpec, Active
  <1>1. CASE Start
    BY <1>1 DEF Start, memory
  <1>2. CASE Refuse
    BY <1>2 DEF Refuse, memory
  <1>3. CASE Load
    BY <1>3 DEF Load, verify_spec
  <1>4. CASE Save
    BY <1>4 DEF Save, memory
  <1>5. CASE NextTask
    BY <1>5 DEF NextTask
  <1>6. CASE Finish
    BY <1>6 DEF Finish, BeginSave, Checkpoint, memory
  <1>7. ASSUME NEW s \in Sources, RunInput(s)
        PROVE  OneSpec'
    BY <1>7 DEF RunInput, BeginSave, Checkpoint
  <1>8. CASE Crash
    BY <1>8 DEF Crash, memory
  <1>9. CASE Edit
    BY <1>9 DEF Edit, memory
  <1>10. CASE UNCHANGED vars
    BY <1>10 DEF vars, memory
  <1> QED BY <1>1, <1>2, <1>3, <1>4, <1>5, <1>6, <1>7, <1>8, <1>9, <1>10
          DEF Next, Step

\* If the files do not change under a running process, what a checkpoint holds is of
\* the specification whose hash verify_spec compares.
THEOREM OneSpecBehindCheckpoint ==
    ASSUME ~EditsWhileRunning PROVE Spec => []CheckpointOfOneSpec
  <1>1. TypeOK /\ OneSpec /\ [Next]_vars => OneSpec'
    BY NextOneSpec
  <1>2. OneSpec => CheckpointOfOneSpec
    BY DEF OneSpec, CheckpointOfOneSpec
  <1> QED BY <1>1, <1>2, InitOneSpec, TypeCorrect, PTL DEF Spec

\* Unless the files change under a running process, what a checkpoint holds is what
\* one specification makes of the inputs it lists, each counted once.
THEOREM CheckpointsSound ==
    ASSUME ~EditsWhileRunning PROVE Spec => []CheckpointSound
  <1>1. CountedOnce /\ CheckpointOfOneSpec => CheckpointSound
    BY DEF CheckpointSound
  <1> QED BY <1>1, EachCountedOnce, OneSpecBehindCheckpoint, PTL

-----------------------------------------------------------------------------
(* What is not lost *)

\* A process whose files the checkpoint is of has all that it lists.
Keeps ==
    /\ proc = "starting" /\ disk = "whole" /\ saved.hash = specFiles => resuming
    /\ Active /\ disk = "whole" /\ saved.hash = specFiles
         => saved.completed \subseteq completed
    /\ proc \in {"saving", "exiting"} => snapshot.completed \subseteq completed

LEMMA InitKeeps == Init => Keeps
  BY DEF Init, Keeps, Active

LEMMA NextKeeps ==
    ASSUME ~EditsWhileRunning
    PROVE  Keeps /\ [Next]_vars => Keeps'
  <1> SUFFICES ASSUME Keeps, [Next]_vars PROVE Keeps'
    OBVIOUS
  <1> USE DEF Keeps, Active
  <1>1. CASE Start
    BY <1>1 DEF Start, memory
  <1>2. CASE Refuse
    BY <1>2 DEF Refuse, memory, verify_spec
  <1>3. CASE Load
    BY <1>3 DEF Load, verify_spec, restored_inputs
  <1>4. CASE Save
    BY <1>4 DEF Save, memory
  <1>5. CASE NextTask
    BY <1>5 DEF NextTask
  <1>6. CASE Finish
    BY <1>6 DEF Finish, BeginSave, Checkpoint, memory
  <1>7. ASSUME NEW s \in Sources, RunInput(s)
        PROVE  Keeps'
    BY <1>7 DEF RunInput, BeginSave, Checkpoint
  <1>8. CASE Crash
    BY <1>8 DEF Crash, memory
  <1>9. CASE Edit
    BY <1>9 DEF Edit, memory
  <1>10. CASE UNCHANGED vars
    BY <1>10 DEF vars, memory
  <1> QED BY <1>1, <1>2, <1>3, <1>4, <1>5, <1>6, <1>7, <1>8, <1>9, <1>10
          DEF Next, Step

LEMMA StepKeepsProgress ==
    Keeps /\ [Next]_vars =>
      (disk = "whole" /\ disk' = "partial" /\ saved.hash = snapshot'.hash
         => saved.completed \subseteq snapshot'.completed)
  <1> SUFFICES ASSUME Keeps, [Next]_vars, disk = "whole", disk' = "partial",
                      saved.hash = snapshot'.hash
               PROVE  saved.completed \subseteq snapshot'.completed
    OBVIOUS
  <1>1. CASE Finish
    BY <1>1 DEF Finish, BeginSave, Checkpoint, Keeps, Active
  <1>2. ASSUME NEW s \in Sources, RunInput(s)
        PROVE  saved.completed \subseteq snapshot'.completed
    BY <1>2 DEF RunInput, BeginSave, Checkpoint, Keeps, Active
  <1>3. ~(Start \/ Refuse \/ Load \/ Save \/ NextTask \/ Crash \/ Edit \/ UNCHANGED vars)
    BY DEF Start, Refuse, Load, Save, NextTask, Crash, Edit, vars
  <1> QED BY <1>1, <1>2, <1>3 DEF Next, Step

\* If the files do not change under a running process, a checkpoint is not overwritten
\* by one of the same specification that lists fewer inputs.
THEOREM NoProgressLost ==
    ASSUME ~EditsWhileRunning PROVE Spec => ProgressKept
  <1>1. Keeps /\ [Next]_vars => Keeps'
    BY NextKeeps
  <1> QED BY <1>1, InitKeeps, StepKeepsProgress, PTL DEF Spec, ProgressKept

-----------------------------------------------------------------------------
(* CoverageMerge: the merging of reports *)

(* What the merge under way must have in the end. *)
Wanted ==
    IF source = "profdata" THEN Data(profdata, CovDirs)
    ELSE Data(raw, CovDirs \ Captures("failed"))

(* Converted files are of Lighthouse, and are only merged when there are some. *)
LevelHolds ==
    /\ phase = "merge" => client \notin {"lodestar", "eth2spec"}
    /\ phase \in {"merge", "write"} =>
        /\ client # "lodestar"
        /\ source = "profdata" =>
             client = "lighthouse" /\ Data(profdata, CovDirs) # {}
        /\ Contents(level) = Wanted

(* Only Nimbus has a pool, and only for the report of a suite; it has taken up all *)
(* the directories that hold data.                                                 *)
CaptureOfNimbus ==
    /\ client # "nimbus" => \A d \in CovDirs : capture[d] = "none"
    /\ phase \in {"tests", "collect", "copy"} => \A d \in CovDirs : capture[d] = "none"
    /\ phase = "capture" =>
         client = "nimbus" /\ \A d \in CovDirs : capture[d] = "none" <=> raw[d] = {}

(* The files that Lodestar has copied are there. *)
CopyHolds ==
    phase = "copy" =>
        /\ client = "lodestar"
        /\ Contents(level) = Data(raw, CovDirs)
        /\ copied <= Len(files)
        /\ \A i \in 1..copied : files[i] = level[i]

IInv == MergeTypeOK /\ LevelHolds /\ CaptureOfNimbus /\ CopyHolds

-----------------------------------------------------------------------------
(* Chunks *)

LEMMA ChunkCountType ==
    ASSUME NEW n \in Nat
    PROVE  ChunkCount(n) \in Nat
  BY MergeAssumption DEF ChunkCount

LEMMA Quotient ==
    ASSUME NEW c \in Nat \ {0}, NEW a \in Nat
    PROVE  /\ a = c * (a \div c) + (a % c)
           /\ a % c \in 0..c - 1
           /\ a \div c \in Nat
  OBVIOUS

LEMMA Multiples ==
    ASSUME NEW c \in Nat \ {0}, NEW p \in Int, NEW q \in Int, p < q
    PROVE  p * c + c <= q * c
  OBVIOUS

(* Every position lies in a chunk that there is. *)
LEMMA ChunkOf ==
    ASSUME NEW n \in Nat, NEW i \in 1..n
    PROVE  \E k \in 1..ChunkCount(n) : i \in Chunk(n, k)
  <1> DEFINE C == MERGE_CHUNK_SIZE
             q == (i - 1) \div C
             r == (i - 1) % C
             m == (n + C - 1) \div C
             t == (n + C - 1) % C
  <1>1. C \in Nat \ {0} /\ i - 1 \in Nat /\ n + C - 1 \in Nat
    BY MergeAssumption
  <1>2. /\ i - 1 = C * q + r
        /\ r \in 0..C - 1
        /\ q \in Nat
    BY <1>1, Quotient
  <1>3. /\ n + C - 1 = C * m + t
        /\ t \in 0..C - 1
        /\ m \in Nat
    BY <1>1, Quotient
  <1>4. m = ChunkCount(n)
    BY DEF ChunkCount
  <1>5. \A k \in Int : (k - 1) * C < i /\ i <= k * C => i \in Chunk(n, k)
    BY DEF Chunk
  <1> HIDE DEF C, q, r, m, t
  <1>6. q < m
    <2>1. CASE m <= q
      <3>1. m * C <= q * C
        BY <1>1, <1>2, <1>3, <2>1, Multiples
      <3>2. n + C - 1 <= C * q + (C - 1)
        BY <1>1, <1>2, <1>3, <3>1
      <3>3. n <= i - 1
        BY <1>1, <1>2, <3>2
      <3> QED
        BY <3>3
    <2> QED
      BY <1>2, <1>3, <2>1
  <1>7. q + 1 \in 1..m
    BY <1>2, <1>3, <1>6
  <1>8. (q + 1 - 1) * C < i /\ i <= (q + 1) * C
    <2>1. (q + 1 - 1) * C = C * q /\ (q + 1) * C = C * q + C
      BY <1>1, <1>2
    <2> QED
      BY <1>1, <1>2, <2>1
  <1>9. i \in Chunk(n, q + 1)
    <2> DEFINE k == q + 1
    <2>1. (k - 1) * C < i /\ i <= k * C /\ k \in Int
      BY <1>2, <1>8
    <2> HIDE DEF k
    <2>2. i \in Chunk(n, k)
      BY <1>5, <2>1
    <2> QED
      BY <2>2 DEF k
  <1> QED
    BY <1>4, <1>7, <1>9

(* No position lies in two chunks. *)
LEMMA ChunksDisjoint ==
    ASSUME NEW n \in Nat, NEW k \in Nat, NEW l \in Nat, k < l
    PROVE  Chunk(n, k) \cap Chunk(n, l) = {}
  <1>1. MERGE_CHUNK_SIZE \in Nat \ {0}
    BY MergeAssumption
  <1>2. k * MERGE_CHUNK_SIZE <= (l - 1) * MERGE_CHUNK_SIZE
    <2>1. CASE k = l - 1
      BY <1>1, <2>1
    <2>2. CASE k < l - 1
      <3>1. k * MERGE_CHUNK_SIZE + MERGE_CHUNK_SIZE <= (l - 1) * MERGE_CHUNK_SIZE
        BY <1>1, <2>2, Multiples
      <3>2. k * MERGE_CHUNK_SIZE \in Int /\ (l - 1) * MERGE_CHUNK_SIZE \in Int
        BY <1>1
      <3> QED
        BY <1>1, <3>1, <3>2
    <2> QED
      BY <2>1, <2>2
  <1>3. SUFFICES ASSUME NEW i \in 1..n, i <= k * MERGE_CHUNK_SIZE,
                        (l - 1) * MERGE_CHUNK_SIZE < i
                 PROVE  FALSE
    BY DEF Chunk
  <1>4. k * MERGE_CHUNK_SIZE \in Int /\ (l - 1) * MERGE_CHUNK_SIZE \in Int
    BY <1>1
  <1> QED
    BY <1>2, <1>3, <1>4

(* A level holds what the one before it held: nothing is lost, nothing invented. *)
LEMMA NextLevelContents ==
    ASSUME NEW inputs \in Seq(SUBSET Items)
    PROVE  /\ NextLevel(inputs) \in Seq(SUBSET Items)
           /\ Contents(NextLevel(inputs)) = Contents(inputs)
  <1> DEFINE n == Len(inputs)
             m == ChunkCount(n)
             Of(k) == UNION {inputs[i] : i \in Chunk(n, k)}
  <1>1. /\ n \in Nat
        /\ m \in Nat
        /\ DOMAIN inputs = 1..n
        /\ \A i \in 1..n : inputs[i] \in SUBSET Items
    <2>1. n \in Nat /\ DOMAIN inputs = 1..n /\ \A i \in 1..n : inputs[i] \in SUBSET Items
      OBVIOUS
    <2> HIDE DEF n
    <2> QED  BY <2>1, ChunkCountType
  <1>2. \A k : Chunk(n, k) \subseteq 1..n
    BY DEF Chunk
  <1>3. \A k : Of(k) \in SUBSET Items
    BY <1>1, <1>2
  <1>4. NextLevel(inputs) = [k \in 1..m |-> Of(k)]
    BY DEF NextLevel
  <1>5. \A i \in 1..n : \E k \in 1..m : i \in Chunk(n, k)
    BY <1>1, ChunkOf
  <1> HIDE DEF n, m
  <1>6. NextLevel(inputs) \in Seq(SUBSET Items)
    <2> HIDE DEF Of
    <2> QED
      BY <1>1, <1>3, <1>4
  <1>7. Contents(NextLevel(inputs)) = UNION {Of(k) : k \in 1..m}
    <2> HIDE DEF Of
    <2> QED
      BY <1>4 DEF Contents
  <1>8. Contents(inputs) = UNION {inputs[i] : i \in 1..n}
    BY <1>1 DEF Contents
  <1>9. UNION {Of(k) : k \in 1..m} = UNION {inputs[i] : i \in 1..n}
    BY <1>2, <1>5
  <1> QED
    BY <1>6, <1>7, <1>8, <1>9

(* No execution is in two files of a level, if it was in one of the level before. *)
LEMMA NextLevelOnce ==
    ASSUME NEW inputs \in Seq(SUBSET Items),
           \A i, j \in DOMAIN inputs : i # j => inputs[i] \cap inputs[j] = {}
    PROVE  \A k, l \in DOMAIN NextLevel(inputs) :
               k # l => NextLevel(inputs)[k] \cap NextLevel(inputs)[l] = {}
  <1> DEFINE n == Len(inputs)
             m == ChunkCount(n)
             Of(k) == UNION {inputs[i] : i \in Chunk(n, k)}
  <1>1. n \in Nat /\ m \in Nat /\ DOMAIN inputs = 1..n
    BY ChunkCountType
  <1>2. NextLevel(inputs) = [k \in 1..m |-> Of(k)]
    BY DEF NextLevel
  <1>3. \A k : Chunk(n, k) \subseteq 1..n
    BY DEF Chunk
  <1>4. \A k, l \in Nat : k # l => Chunk(n, k) \cap Chunk(n, l) = {}
    <2> SUFFICES ASSUME NEW k \in Nat, NEW l \in Nat, k # l
                 PROVE  Chunk(n, k) \cap Chunk(n, l) = {}
      OBVIOUS
    <2>1. k < l \/ l < k
      OBVIOUS
    <2>2. k < l => Chunk(n, k) \cap Chunk(n, l) = {}
      BY <1>1, ChunksDisjoint
    <2>3. l < k => Chunk(n, l) \cap Chunk(n, k) = {}
      BY <1>1, ChunksDisjoint
    <2> QED
      BY <2>1, <2>2, <2>3
  <1>5. \A k, l \in 1..m : k # l => Of(k) \cap Of(l) = {}
    <2> SUFFICES ASSUME NEW k \in 1..m, NEW l \in 1..m, k # l,
                        NEW i \in Chunk(n, k), NEW j \in Chunk(n, l)
                 PROVE  inputs[i] \cap inputs[j] = {}
      OBVIOUS
    <2>1. k \in Nat /\ l \in Nat
      BY <1>1
    <2>2. i # j
      BY <1>4, <2>1
    <2>3. i \in DOMAIN inputs /\ j \in DOMAIN inputs
      BY <1>1, <1>3
    <2> QED
      BY <2>2, <2>3
  <1> HIDE DEF Of, n, m
  <1>6. SUFFICES ASSUME NEW k \in 1..m, NEW l \in 1..m, k # l
                 PROVE  NextLevel(inputs)[k] \cap NextLevel(inputs)[l] = {}
    BY <1>2
  <1>7. NextLevel(inputs)[k] = Of(k) /\ NextLevel(inputs)[l] = Of(l)
    BY <1>2
  <1>8. Of(k) \cap Of(l) = {}
    BY <1>5, <1>6
  <1> QED
    BY <1>7, <1>8

-----------------------------------------------------------------------------
(* What the directories hold *)

LEMMA DataTypes ==
    ASSUME NEW held, NEW ds \in SUBSET CovDirs
    PROVE  Data(held, ds) \in SUBSET Items
  BY DEF Data, Items

(* The inputs listed hold what the directories hold, each execution in one. *)
LEMMA InputsHold ==
    ASSUME NEW held \in [CovDirs -> SUBSET Runs], NEW ds \in SUBSET CovDirs
    PROVE  /\ InputsOf(held, ds) \in Seq(SUBSET Items)
           /\ Contents(InputsOf(held, ds)) = Data(held, ds)
           /\ \A i, j \in DOMAIN InputsOf(held, ds) :
                i # j => InputsOf(held, ds)[i] \cap InputsOf(held, ds)[j] = {}
  <1> DEFINE f == Listing(ds)
             n == Len(f)
  <1>1. /\ f \in Seq(ds)
        /\ \A d \in ds : \E i \in DOMAIN f : f[i] = d
        /\ \A i, j \in DOMAIN f : f[i] = f[j] => i = j
    BY ListingAssumption
  <1>2. /\ n \in Nat
        /\ DOMAIN f = 1..n
        /\ \A i \in 1..n : f[i] \in ds
    BY <1>1
  <1>3. InputsOf(held, ds) = [i \in 1..n |-> Data(held, {f[i]})]
    BY <1>2 DEF InputsOf
  <1> HIDE DEF f, n
  <1>4. \A i \in 1..n : Data(held, {f[i]}) \in SUBSET Items
    BY <1>2, DataTypes
  <1>5. InputsOf(held, ds) \in Seq(SUBSET Items)
    BY <1>2, <1>3, <1>4
  <1>6. Contents(InputsOf(held, ds)) = UNION {Data(held, {f[i]}) : i \in 1..n}
    BY <1>3 DEF Contents
  <1>7. UNION {Data(held, {f[i]}) : i \in 1..n} = Data(held, ds)
    BY <1>1, <1>2 DEF Data
  <1>8. \A i, j \in 1..n :
            i # j => Data(held, {f[i]}) \cap Data(held, {f[j]}) = {}
    BY <1>1, <1>2 DEF Data
  <1> QED
    BY <1>3, <1>5, <1>6, <1>7, <1>8

LEMMA NonEmptyIsAll ==
    ASSUME NEW held \in [CovDirs -> SUBSET Runs]
    PROVE  /\ NonEmpty(held) \in SUBSET CovDirs
           /\ Data(held, NonEmpty(held)) = Data(held, CovDirs)
           /\ NonEmpty(held) = {} <=> Data(held, CovDirs) = {}
  <1>1. \A d \in CovDirs : d \in NonEmpty(held) <=> held[d] # {}
    BY DEF NonEmpty
  <1>2. \A d \in CovDirs : held[d] \subseteq Runs
    OBVIOUS
  <1>3. NonEmpty(held) \in SUBSET CovDirs
    BY DEF NonEmpty
  <1>4. Data(held, NonEmpty(held)) = Data(held, CovDirs)
    <2>1. \A d \in CovDirs, r \in Runs : r \in held[d] => d \in NonEmpty(held)
      BY <1>1
    <2> QED
      BY <1>3, <2>1 DEF Data
  <1>5. NonEmpty(held) = {} <=> Data(held, CovDirs) = {}
    <2>1. ASSUME NEW d \in CovDirs, d \in NonEmpty(held)
          PROVE  Data(held, CovDirs) # {}
      <3>1. PICK r \in Runs : r \in held[d]
        BY <1>1, <1>2, <2>1
      <3>2. <<d, r>> \in Data(held, CovDirs)
        BY <3>1 DEF Data
      <3> QED
        BY <3>2
    <2>2. ASSUME NEW p \in Data(held, CovDirs)
          PROVE  NonEmpty(held) # {}
      <3>1. p[1] \in CovDirs /\ held[p[1]] # {}
        BY DEF Data
      <3> QED
        BY <1>1, <3>1
    <2> QED
      BY <1>3, <2>1, <2>2
  <1> QED
    BY <1>3, <1>4, <1>5

-----------------------------------------------------------------------------
(* Types *)

LEMMA InitTyped ==
    ASSUME MergeInit
    PROVE  MergeTypeOK
  <1>1. cleanup \in BOOLEAN
    BY DEF MergeInit
  <1>2. run \in 1..MaxRuns + 1
    BY MergeAssumption DEF MergeInit
  <1>3. level \in Seq(SUBSET Items) /\ files \in Seq(SUBSET Items)
    BY DEF MergeInit
  <1>4. /\ raw \in [CovDirs -> SUBSET Runs]
        /\ profdata \in [CovDirs -> SUBSET Runs]
        /\ capture \in [CovDirs -> {"none", "queued", "running", "done", "failed"}]
    BY DEF MergeInit
  <1> QED
    BY <1>1, <1>2, <1>3, <1>4 DEF MergeInit, MergeTypeOK

LEMMA RecordedTyped ==
    ASSUME MergeTypeOK, run <= MaxRuns, NEW held \in SUBSET Runs
    PROVE  Recorded(held) \in SUBSET Runs
  <1>1. run \in Runs
    BY MergeAssumption DEF MergeTypeOK, Runs
  <1> QED
    BY <1>1 DEF Recorded

(* A merge that begins. *)
LEMMA BeginMergeTyped ==
    ASSUME NEW held \in [CovDirs -> SUBSET Runs], NEW ds \in SUBSET CovDirs,
           BeginMerge(held, ds)
    PROVE  /\ level' \in Seq(SUBSET Items)
           /\ Contents(level') = Data(held, ds)
           /\ files' = <<>> /\ partial' = FALSE /\ partial' \in BOOLEAN
           /\ phase' = "merge"
  <1>1. level' = InputsOf(held, ds) /\ files' = <<>> /\ partial' = FALSE /\ phase' = "merge"
    BY DEF BeginMerge
  <1>2. /\ InputsOf(held, ds) \in Seq(SUBSET Items)
        /\ Contents(InputsOf(held, ds)) = Data(held, ds)
    BY InputsHold
  <1>3. partial' \in BOOLEAN
    BY <1>1, Zenon
  <1> QED
    BY <1>1, <1>2, <1>3

(* A file that is written, over one of the last merge or beside them. *)
LEMMA WrittenTyped ==
    ASSUME files \in Seq(SUBSET Items), NEW i \in Nat, NEW content \in SUBSET Items,
           1 <= i, i <= Len(files) + 1
    PROVE  /\ Written(i, content) \in Seq(SUBSET Items)
           /\ i <= Len(Written(i, content)) /\ Len(files) <= Len(Written(i, content))
           /\ Written(i, content)[i] = content
           /\ \A j \in 1..Len(files) : j # i => Written(i, content)[j] = files[j]
           /\ Contents(Written(i, content)) \subseteq Contents(files) \cup content
  <1>1. Len(files) \in Nat /\ DOMAIN files = 1..Len(files)
    OBVIOUS
  <1>2. CASE i \in DOMAIN files
    <2>1. Written(i, content) = [files EXCEPT ![i] = content]
      BY <1>2 DEF Written
    <2>2. /\ Written(i, content) \in Seq(SUBSET Items)
          /\ Len(Written(i, content)) = Len(files)
      BY <1>2, <2>1
    <2>3. /\ DOMAIN Written(i, content) = DOMAIN files
          /\ \A j \in DOMAIN files :
               Written(i, content)[j] = IF j = i THEN content ELSE files[j]
      BY <1>1, <2>1
    <2>4. Contents(Written(i, content)) \subseteq Contents(files) \cup content
      BY <2>3 DEF Contents
    <2> QED
      BY <1>1, <1>2, <2>2, <2>3, <2>4
  <1>3. CASE i \notin DOMAIN files
    <2>1. i = Len(files) + 1
      BY <1>1, <1>3
    <2>2. Written(i, content) = Append(files, content)
      BY <1>3 DEF Written
    <2>3. /\ Written(i, content) \in Seq(SUBSET Items)
          /\ Len(Written(i, content)) = Len(files) + 1
      BY <2>2
    <2>4. DOMAIN Written(i, content) = 1..Len(files) + 1
      BY <2>3
    <2>5. /\ DOMAIN Written(i, content) = DOMAIN files \cup {i}
          /\ Written(i, content)[i] = content
          /\ \A j \in DOMAIN files : Written(i, content)[j] = files[j]
      <3>1. 1..Len(files) + 1 = DOMAIN files \cup {i}
        BY <1>1, <2>1
      <3>2. Append(files, content)[Len(files) + 1] = content
        OBVIOUS
      <3>3. \A j \in 1..Len(files) : Append(files, content)[j] = files[j]
        OBVIOUS
      <3> QED
        BY <1>1, <2>1, <2>2, <2>4, <3>1, <3>2, <3>3
    <2>6. Contents(Written(i, content)) \subseteq Contents(files) \cup content
      BY <2>5 DEF Contents
    <2> QED
      BY <1>1, <2>1, <2>3, <2>5, <2>6
  <1> QED
    BY <1>2, <1>3

(* What a command has written of its output is a part of what it merges. *)
LEMMA PartTyped ==
    ASSUME NEW inputs \in Seq(SUBSET Items), NEW part \in Parts(Contents(inputs))
    PROVE  part \subseteq Contents(inputs) /\ << part >> \in Seq(SUBSET Items)
  <1>1. Contents(inputs) \in SUBSET Items
    BY DEF Contents
  <1>2. part \subseteq Contents(inputs)
    BY <1>1, PartsAssumption
  <1>3. part \in SUBSET Items
    BY <1>1, <1>2
  <1> QED
    BY <1>2, <1>3

LEMMA RunSuiteTyped ==
    ASSUME MergeTypeOK, NEW ds \in Suites, RunSuite(ds)
    PROVE  MergeTypeOK'
  <1>1. \A d \in CovDirs : Recorded(raw[d]) \in SUBSET Runs
    BY RecordedTyped DEF MergeTypeOK, RunSuite
  <1>2. raw' \in [CovDirs -> SUBSET Runs]
    BY <1>1 DEF MergeTypeOK, RunSuite
  <1> QED
    BY <1>2 DEF MergeTypeOK, RunSuite

LEMMA CleanedUpTyped ==
    ASSUME NEW held \in [CovDirs -> SUBSET Runs], NEW ds
    PROVE  CleanedUp(held, ds) \in [CovDirs -> SUBSET Runs]
  BY DEF CleanedUp

LEMMA RunSingleTyped ==
    ASSUME MergeTypeOK, NEW d \in CovDirs, RunSingle(d)
    PROVE  MergeTypeOK'
  <1>1. Recorded(raw[d]) \in SUBSET Runs
    BY RecordedTyped DEF MergeTypeOK, RunSingle
  <1>2. raw' \in [CovDirs -> SUBSET Runs]
    <2>1. [raw EXCEPT ![d] = Recorded(@)] \in [CovDirs -> SUBSET Runs]
      BY <1>1 DEF MergeTypeOK
    <2> QED
      BY <2>1, CleanedUpTyped DEF RunSingle
  <1>3. profdata' \in [CovDirs -> SUBSET Runs]
    <2>1. PICK made \in Converted(d, Recorded(raw[d])) : profdata' = CleanedUp(made, {d})
      BY DEF RunSingle
    <2>2. made \in [CovDirs -> SUBSET Runs]
      BY <1>1, <2>1 DEF Converted, MergeTypeOK
    <2> QED
      BY <2>1, <2>2, CleanedUpTyped
  <1>4. run' \in 1..MaxRuns + 1
    BY MergeAssumption DEF MergeTypeOK, RunSingle
  <1> QED
    BY <1>2, <1>3, <1>4 DEF MergeTypeOK, RunSingle

LEMMA CollectTyped ==
    ASSUME MergeTypeOK,
           CollectNothing \/ CollectProfdata \/ CollectRaw \/ CollectLodestar
               \/ CombineEth2spec \/ ToolMissing
    PROVE  MergeTypeOK'
  <1>1. raw \in [CovDirs -> SUBSET Runs] /\ profdata \in [CovDirs -> SUBSET Runs]
    BY DEF MergeTypeOK
  <1>2. CASE CollectNothing
    <2>1. files' = <<>> \/ files' = files
      BY <1>2, Zenon DEF CollectNothing
    <2>2. << >> \in Seq(SUBSET Items)
      OBVIOUS
    <2>3. files \in Seq(SUBSET Items)
      BY DEF MergeTypeOK
    <2>4. files' \in Seq(SUBSET Items)
      BY <2>1, <2>2, <2>3
    <2>5. partial' \in BOOLEAN
      BY <1>2, Zenon DEF CollectNothing, MergeTypeOK
    <2> QED
      BY <1>2, <2>4, <2>5 DEF CollectNothing, MergeTypeOK
  <1>3. CASE CollectProfdata
    <2>1. /\ level' \in Seq(SUBSET Items) /\ files' = <<>> /\ partial' \in BOOLEAN
          /\ phase' = "merge"
      BY <1>1, <1>3, NonEmptyIsAll, BeginMergeTyped DEF CollectProfdata
    <2> QED
      BY <1>3, <2>1 DEF CollectProfdata, MergeTypeOK
  <1>4. CASE CollectRaw
    <2>1. /\ level' \in Seq(SUBSET Items) /\ files' = <<>> /\ partial' \in BOOLEAN
          /\ phase' = "merge"
      BY <1>1, <1>4, NonEmptyIsAll, BeginMergeTyped DEF CollectRaw
    <2> QED
      BY <1>4, <2>1 DEF CollectRaw, MergeTypeOK
  <1>5. InputsOf(raw, NonEmpty(raw)) \in Seq(SUBSET Items)
    BY <1>1, NonEmptyIsAll, InputsHold
  <1>6. CASE CollectLodestar
    <2>1. level' \in Seq(SUBSET Items) /\ copied' \in Nat
      BY <1>6, <1>5 DEF CollectLodestar
    <2> QED
      BY <1>6, <2>1 DEF CollectLodestar, MergeTypeOK
  <1>7. CASE CombineEth2spec
    <2>1. level' \in Seq(SUBSET Items)
      BY <1>7, <1>5 DEF CombineEth2spec
    <2>2. files' \in Seq(SUBSET Items)
      BY <1>7, <2>1, PartTyped DEF CombineEth2spec
    <2> QED
      BY <1>7, <2>1, <2>2 DEF CombineEth2spec, MergeTypeOK
  <1>8. CASE ToolMissing
    BY <1>8 DEF ToolMissing, MergeTypeOK
  <1> QED
    BY <1>2, <1>3, <1>4, <1>6, <1>7, <1>8

LEMMA CaptureTyped ==
    ASSUME MergeTypeOK,
           \/ SubmitCaptures
           \/ \E d \in CovDirs :
                 StartCapture(d) \/ \E result \in {"done", "failed"} : FinishCapture(d, result)
           \/ MergeCaptured
    PROVE  MergeTypeOK'
  <1>1. CASE SubmitCaptures
    BY <1>1 DEF SubmitCaptures, MergeTypeOK
  <1>2. ASSUME NEW d \in CovDirs, StartCapture(d)
        PROVE  MergeTypeOK'
    BY <1>2 DEF StartCapture, MergeTypeOK
  <1>3. ASSUME NEW d \in CovDirs, NEW result \in {"done", "failed"},
               FinishCapture(d, result)
        PROVE  MergeTypeOK'
    BY <1>3 DEF FinishCapture, MergeTypeOK
  <1>4. CASE MergeCaptured
    <2>1. Captures("done") \in SUBSET CovDirs /\ raw \in [CovDirs -> SUBSET Runs]
      BY DEF Captures, MergeTypeOK
    <2>2. CASE Captures("done") = {}
      BY <1>4, <2>2 DEF MergeCaptured, MergeTypeOK
    <2>3. CASE Captures("done") # {}
      <3>1. /\ level' \in Seq(SUBSET Items) /\ files' = <<>> /\ partial' \in BOOLEAN
            /\ phase' = "merge"
        BY <1>4, <2>1, <2>3, BeginMergeTyped DEF MergeCaptured
      <3> QED
        BY <1>4, <3>1 DEF MergeCaptured, MergeTypeOK
    <2> QED
      BY <2>2, <2>3
  <1> QED
    BY <1>1, <1>2, <1>3, <1>4

LEMMA ContentsTyped ==
    ASSUME NEW inputs \in Seq(SUBSET Items)
    PROVE  Contents(inputs) \in SUBSET Items
  BY DEF Contents

(* The copies of Lodestar keep types, and what was copied. *)
LEMMA CopyKeeps ==
    ASSUME MergeTypeOK, CopyHolds, OpenJson \/ CopyJson
    PROVE  /\ MergeTypeOK' /\ CopyHolds'
           /\ Contents(files') \subseteq Contents(files) \cup Contents(level)
           /\ ~partial' => Contents(level) \subseteq Contents(files')
  <1>1. /\ level \in Seq(SUBSET Items) /\ files \in Seq(SUBSET Items) /\ copied \in Nat
        /\ phase = "copy" /\ copied < Len(level)
        /\ copied <= Len(files) /\ \A i \in 1..copied : files[i] = level[i]
    BY DEF MergeTypeOK, CopyHolds, OpenJson, CopyJson
  <1>2. /\ copied + 1 \in Nat /\ 1 <= copied + 1 /\ copied + 1 <= Len(files) + 1
        /\ copied + 1 \in DOMAIN level /\ level[copied + 1] \in SUBSET Items
        /\ level[copied + 1] \subseteq Contents(level)
        /\ Len(level) \in Nat /\ Len(files) \in Nat /\ DOMAIN level = 1..Len(level)
    <2>1. /\ Len(level) \in Nat /\ Len(files) \in Nat /\ DOMAIN level = 1..Len(level)
          /\ \A i \in DOMAIN level : level[i] \in SUBSET Items
      BY <1>1
    <2>2. copied + 1 \in DOMAIN level
      BY <1>1, <2>1
    <2> QED
      BY <1>1, <2>1, <2>2 DEF Contents
  <1>3. PICK content \in {{}, level[copied + 1]} : files' = Written(copied + 1, content)
    BY DEF OpenJson, CopyJson
  <1>4. content \in SUBSET Items /\ content \subseteq Contents(level)
    BY <1>2, <1>3
  <1>5. /\ files' \in Seq(SUBSET Items)
        /\ copied + 1 <= Len(files') /\ Len(files) <= Len(files')
        /\ files'[copied + 1] = content
        /\ \A j \in 1..Len(files) : j # copied + 1 => files'[j] = files[j]
        /\ Contents(files') \subseteq Contents(files) \cup content
    BY <1>1, <1>2, <1>3, <1>4, WrittenTyped
  <1>6. \A i \in 1..copied : files'[i] = level[i]
    BY <1>1, <1>2, <1>5
  <1>7. Len(files') \in Nat /\ DOMAIN files' = 1..Len(files')
    BY <1>5
  <1>8. CASE OpenJson
    <2>1. UNCHANGED <<phase, client, raw, level, copied>> /\ partial' = TRUE
      BY <1>8 DEF OpenJson
    <2>2. MergeTypeOK'
      BY <1>5, <1>8 DEF OpenJson, MergeTypeOK
    <2>3. CopyHolds'
      BY <1>1, <1>2, <1>5, <1>6, <1>7, <2>1 DEF CopyHolds
    <2> QED
      BY <1>4, <1>5, <2>1, <2>2, <2>3
  <1>9. CASE CopyJson
    <2>1. /\ UNCHANGED <<client, raw>> /\ copied' = copied + 1
          /\ partial' = (copied + 1 < Len(level))
          /\ phase' = IF partial' THEN "copy" ELSE "cleanup"
          /\ level' = IF partial' THEN level ELSE << >>
          /\ files' = Written(copied + 1, level[copied + 1])
      BY <1>9 DEF CopyJson
    <2>2. files'[copied + 1] = level[copied + 1]
      BY <1>1, <1>2, <2>1, WrittenTyped
    <2>3. \A i \in 1..copied + 1 : files'[i] = level[i]
      BY <1>1, <1>6, <2>2
    <2>4. level' \in Seq(SUBSET Items) /\ partial' \in BOOLEAN /\ phase' \in {"copy", "cleanup"}
      BY <1>1, <2>1
    <2>5. MergeTypeOK'
      BY <1>2, <1>5, <1>9, <2>1, <2>4 DEF CopyJson, MergeTypeOK
    <2>6. CopyHolds'
      BY <1>1, <1>5, <2>1, <2>3 DEF CopyHolds
    <2>7. ASSUME ~partial' PROVE Contents(level) \subseteq Contents(files')
      <3>1. ~(copied + 1 < Len(level))
        BY <2>1, <2>7, Zenon
      <3>2. copied \in Nat /\ Len(level) \in Nat /\ copied < Len(level)
        BY <1>1, <1>2
      <3>3. Len(level) = copied + 1
        BY <3>1, <3>2
      <3>4. \A i \in DOMAIN level : i \in DOMAIN files' /\ files'[i] = level[i]
        BY <1>1, <1>2, <1>5, <1>7, <2>3, <3>3
      <3> QED
        BY <3>4 DEF Contents
    <2> QED
      BY <1>4, <1>5, <2>5, <2>6, <2>7
  <1> QED
    BY <1>8, <1>9

LEMMA MergeTyped ==
    ASSUME MergeTypeOK, MergeLevel \/ BeginLast \/ MergeLast \/ MergeFails
    PROVE  MergeTypeOK'
  <1>1. level \in Seq(SUBSET Items) /\ raw \in [CovDirs -> SUBSET Runs]
    BY DEF MergeTypeOK
  <1>2. CASE MergeLevel
    <2>1. level' \in Seq(SUBSET Items)
      BY <1>1, <1>2, NextLevelContents DEF MergeLevel
    <2> QED
      BY <1>2, <2>1 DEF MergeLevel, MergeTypeOK
  <1>3. CASE BeginLast
    <2>1. files' \in Seq(SUBSET Items)
      BY <1>1, <1>3, PartTyped DEF BeginLast
    <2> QED
      BY <1>3, <2>1 DEF BeginLast, MergeTypeOK
  <1>4. CASE MergeLast
    <2>1. files' \in Seq(SUBSET Items)
      <3>1. files' = << Contents(level) >>
        BY <1>4 DEF MergeLast
      <3>2. Contents(level) \in SUBSET Items
        BY <1>1, ContentsTyped
      <3> QED
        BY <3>1, <3>2
    <2>2. level' \in Seq(SUBSET Items)
      BY <1>4 DEF MergeLast
    <2> QED
      BY <1>4, <2>1, <2>2 DEF MergeLast, MergeTypeOK
  <1>5. CASE MergeFails
    <2>1. CASE BeginMerge(raw, NonEmpty(raw))
      <3>1. /\ level' \in Seq(SUBSET Items) /\ files' = <<>> /\ partial' \in BOOLEAN
            /\ phase' = "merge"
        BY <1>1, <2>1, NonEmptyIsAll, BeginMergeTyped
      <3> QED
        BY <1>5, <3>1 DEF MergeFails, MergeTypeOK
    <2>2. CASE level' = << >> /\ phase' = "cleanup" /\ UNCHANGED <<files, partial>>
      <3>1. level' \in Seq(SUBSET Items)
        BY <2>2
      <3> QED
        BY <1>5, <2>2, <3>1 DEF MergeFails, MergeTypeOK
    <2> QED
      BY <1>5, <2>1, <2>2 DEF MergeFails
  <1> QED
    BY <1>2, <1>4, <1>5, <1>3

LEMMA EndTyped ==
    ASSUME MergeTypeOK, CleanUp \/ Killed
    PROVE  MergeTypeOK'
  <1>1. phase # "tests" /\ run \in 1..MaxRuns + 1 /\ run <= MaxRuns
    BY DEF MergeTypeOK, CleanUp, Killed
  <1>2. run' \in 1..MaxRuns + 1
    BY <1>1, MergeAssumption DEF CleanUp, Killed
  <1>3. CASE CleanUp
    <2>1. raw' \in [CovDirs -> SUBSET Runs]
      BY <1>3, CleanedUpTyped DEF CleanUp, MergeTypeOK
    <2>2. profdata' \in [CovDirs -> SUBSET Runs]
      BY <1>3, CleanedUpTyped DEF CleanUp, MergeTypeOK
    <2> QED
      BY <1>2, <1>3, <2>1, <2>2 DEF CleanUp, MergeTypeOK
  <1>4. CASE Killed
    <2>1. level' \in Seq(SUBSET Items)
      BY <1>4 DEF Killed
    <2> QED
      BY <1>2, <1>4, <2>1 DEF Killed, MergeTypeOK
  <1> QED
    BY <1>3, <1>4

LEMMA StepTyped ==
    ASSUME MergeTypeOK, CopyHolds, [MergeNext]_mergeVars
    PROVE  MergeTypeOK'
  <1>1. CASE UNCHANGED mergeVars
    BY <1>1 DEF MergeTypeOK, mergeVars
  <1>2. CASE MergeNext
    BY <1>2, RunSuiteTyped, RunSingleTyped, CollectTyped, CopyKeeps, CaptureTyped, MergeTyped,
       EndTyped DEF MergeNext, Merging, Progress
  <1> QED
    BY <1>1, <1>2

LEMMA StepCopies ==
    ASSUME MergeTypeOK, CopyHolds, [MergeNext]_mergeVars
    PROVE  CopyHolds'
  <1>1. CASE UNCHANGED mergeVars
    BY <1>1 DEF CopyHolds, mergeVars
  <1>2. CASE OpenJson \/ CopyJson
    BY <1>2, CopyKeeps
  <1>3. CASE CollectLodestar
    <2>1. /\ phase' = "copy" /\ client' = client /\ client = "lodestar" /\ raw' = raw
          /\ copied' = 0 /\ files' = files /\ level' = InputsOf(raw, NonEmpty(raw))
      BY <1>3 DEF CollectLodestar
    <2>2. Contents(level') = Data(raw, CovDirs)
      BY <2>1, NonEmptyIsAll, InputsHold DEF MergeTypeOK
    <2>3. 0 <= Len(files)
      BY DEF MergeTypeOK
    <2> QED
      BY <2>1, <2>2, <2>3 DEF CopyHolds
  <1>4. CASE \E ds \in Suites : RunSuite(ds)
    BY <1>4 DEF RunSuite, CopyHolds
  <1>5. CASE \E d \in CovDirs : RunSingle(d)
    BY <1>5 DEF RunSingle, CopyHolds
  <1>6. CASE \E d \in CovDirs :
               StartCapture(d) \/ \E result \in {"done", "failed"} : FinishCapture(d, result)
    BY <1>6 DEF StartCapture, FinishCapture, CopyHolds
  <1>7. CASE CollectNothing \/ CollectProfdata \/ CollectRaw \/ CombineEth2spec \/ ToolMissing
                 \/ SubmitCaptures \/ MergeCaptured \/ MergeLevel \/ BeginLast \/ MergeLast
                 \/ MergeFails \/ CleanUp \/ Killed
    <2>1. phase' # "copy"
      BY <1>7 DEF CollectNothing, CollectProfdata, CollectRaw, CombineEth2spec, ToolMissing,
             SubmitCaptures, MergeCaptured, BeginMerge, MergeLevel, BeginLast, MergeLast,
             MergeFails, CleanUp, Killed
    <2> QED
      BY <2>1 DEF CopyHolds
  <1> QED
    BY <1>1, <1>2, <1>3, <1>4, <1>5, <1>6, <1>7 DEF MergeNext, Merging, Progress

LEMMA InitCopies == MergeInit => MergeTypeOK /\ CopyHolds
  BY InitTyped DEF MergeInit, CopyHolds

(* Whatever the tools do, inputs and totals hold nothing but executions of the    *)
(* directories that are merged.                                                    *)
THEOREM MergeTypeCorrect == MergeSpec => []MergeTypeOK
  <1>1. MergeTypeOK /\ CopyHolds /\ [MergeNext]_mergeVars => (MergeTypeOK /\ CopyHolds)'
    BY StepTyped, StepCopies
  <1> QED
    BY <1>1, InitCopies, PTL DEF MergeSpec

-----------------------------------------------------------------------------
(* No execution is counted twice *)

LEMMA StepOnce ==
    ASSUME MergeTypeOK, MergedOnce, [MergeNext]_mergeVars
    PROVE  MergedOnce'
  <1> DEFINE Disjoint(f) == \A i, j \in DOMAIN f : i # j => f[i] \cap f[j] = {}
  <1>1. raw \in [CovDirs -> SUBSET Runs] /\ profdata \in [CovDirs -> SUBSET Runs]
        /\ level \in Seq(SUBSET Items)
    BY DEF MergeTypeOK
  <1>2. \A held \in [CovDirs -> SUBSET Runs], ds \in SUBSET CovDirs :
            Disjoint(InputsOf(held, ds))
    BY InputsHold
  <1>3. Disjoint(<< >>)
    OBVIOUS
  <1>4. Disjoint(level)
    BY DEF MergedOnce
  <1>5. Disjoint(NextLevel(level))
    BY <1>1, <1>4, NextLevelOnce
  <1>6. Captures("done") \in SUBSET CovDirs
    BY DEF Captures
  <1>7. \/ level' = level
        \/ level' = << >>
        \/ level' = NextLevel(level)
        \/ level' = InputsOf(raw, NonEmpty(raw))
        \/ level' = InputsOf(profdata, NonEmpty(profdata))
        \/ level' = InputsOf(raw, Captures("done"))
    BY DEF MergeNext, Merging, Progress, mergeVars, RunSuite, RunSingle, BeginMerge, CollectNothing,
           CollectProfdata, CollectRaw, CollectLodestar, OpenJson, CopyJson,
           CombineEth2spec, ToolMissing, SubmitCaptures, StartCapture, FinishCapture,
           MergeCaptured, MergeLevel, BeginLast, MergeLast, MergeFails, CleanUp, Killed
  <1>8. NonEmpty(raw) \in SUBSET CovDirs /\ NonEmpty(profdata) \in SUBSET CovDirs
    BY DEF NonEmpty
  <1>9. Disjoint(level')
    <2> HIDE DEF Disjoint
    <2> QED
      BY <1>1, <1>2, <1>3, <1>4, <1>5, <1>6, <1>7, <1>8
  <1> QED
    BY <1>9 DEF MergedOnce

(* No level of a merge holds an execution twice.                                   *)
THEOREM EachMergedOnce == MergeSpec => []MergedOnce
  <1>1. MergeInit => MergedOnce
    BY DEF MergeInit, MergedOnce
  <1>2. MergeTypeOK /\ MergedOnce /\ [MergeNext]_mergeVars => MergedOnce'
    BY StepOnce
  <1> QED
    BY <1>1, <1>2, MergeTypeCorrect, PTL DEF MergeSpec

-----------------------------------------------------------------------------
(* A merge under way holds all that is wanted *)

LEMMA NoneFailed ==
    ASSUME CaptureOfNimbus, client # "nimbus" \/ phase \in {"tests", "collect", "copy"}
    PROVE  Captures("failed") = {} /\ CovDirs \ Captures("failed") = CovDirs
  BY DEF CaptureOfNimbus, Captures

LEMMA CollectHolds ==
    ASSUME MergeTypeOK, CaptureOfNimbus, CollectProfdata \/ CollectRaw \/ CombineEth2spec
    PROVE  LevelHolds'
  <1>1. raw \in [CovDirs -> SUBSET Runs] /\ profdata \in [CovDirs -> SUBSET Runs]
    BY DEF MergeTypeOK
  <1>2. phase = "collect" /\ capture' = capture
    BY DEF CollectProfdata, CollectRaw, CombineEth2spec
  <1>3. Captures("failed")' = {}
    BY <1>2, NoneFailed DEF Captures
  <1>4. CASE CollectProfdata
    <2>1. /\ client' = client /\ client = "lighthouse" /\ source' = "profdata"
          /\ profdata' = profdata /\ NonEmpty(profdata) # {}
      BY <1>4 DEF CollectProfdata
    <2>2. Contents(level') = Data(profdata, CovDirs)
      BY <1>1, <1>4, NonEmptyIsAll, BeginMergeTyped DEF CollectProfdata
    <2>3. Data(profdata, CovDirs) # {}
      BY <1>1, <2>1, NonEmptyIsAll
    <2>4. Wanted' = Data(profdata, CovDirs)
      BY <2>1 DEF Wanted
    <2> QED
      BY <2>1, <2>2, <2>3, <2>4 DEF LevelHolds
  <1>5. CASE CollectRaw
    <2>1. /\ client' = client /\ source' = "raw" /\ raw' = raw
          /\ client \in {"prysm", "teku", "lighthouse", "nimbus"}
      BY <1>5 DEF CollectRaw, TakesPrysmDirs, TakesProfraw, TakesExecFiles,
           TakesPrysmTotals, TakesProfdataTotals, TakesExecTotals, TakesInfoTotals
    <2>2. Contents(level') = Data(raw, CovDirs)
      BY <1>1, <1>5, NonEmptyIsAll, BeginMergeTyped DEF CollectRaw
    <2>3. Wanted' = Data(raw, CovDirs)
      BY <1>3, <2>1 DEF Wanted
    <2> QED
      BY <2>1, <2>2, <2>3 DEF LevelHolds
  <1>6. CASE CombineEth2spec
    <2>1. /\ client' = client /\ source' = "raw" /\ raw' = raw /\ client = "eth2spec"
          /\ phase' = "write" /\ level' = InputsOf(raw, NonEmpty(raw))
      BY <1>6 DEF CombineEth2spec
    <2>2. Contents(level') = Data(raw, CovDirs)
      BY <1>1, <2>1, NonEmptyIsAll, InputsHold
    <2>3. Wanted' = Data(raw, CovDirs)
      BY <1>3, <2>1 DEF Wanted
    <2> QED
      BY <2>1, <2>2, <2>3 DEF LevelHolds
  <1> QED
    BY <1>4, <1>5, <1>6

(* When all captures have ended, what is merged is what did not fail. *)
LEMMA CapturedHolds ==
    ASSUME MergeTypeOK, CaptureOfNimbus, MergeCaptured
    PROVE  LevelHolds'
  <1>1. /\ raw \in [CovDirs -> SUBSET Runs] /\ Captures("done") \in SUBSET CovDirs
        /\ capture \in [CovDirs -> {"none", "queued", "running", "done", "failed"}]
    BY DEF MergeTypeOK, Captures
  <1>2. /\ client' = client /\ client = "nimbus" /\ source' = "raw" /\ raw' = raw
        /\ capture' = capture
        /\ \A d \in CovDirs : capture[d] = "none" <=> raw[d] = {}
        /\ \A d \in CovDirs : capture[d] \notin {"queued", "running"}
    BY DEF MergeCaptured, CaptureOfNimbus, AllCaptured, Captures
  <1>3. Wanted' = Data(raw, CovDirs \ Captures("failed"))
    BY <1>2 DEF Wanted, Captures
  <1>4. \A d \in CovDirs :
            raw[d] # {} => (d \in Captures("done") <=> d \notin Captures("failed"))
    BY <1>1, <1>2 DEF Captures
  <1>5. Data(raw, Captures("done")) = Data(raw, CovDirs \ Captures("failed"))
    <2>1. \A d \in CovDirs : d \in Captures("done") => raw[d] # {}
      BY <1>2 DEF Captures
    <2>2. \A d \in CovDirs, r \in Runs :
              r \in raw[d] => (d \in Captures("done") <=> d \in CovDirs \ Captures("failed"))
      BY <1>4
    <2> QED
      BY <1>1, <2>2 DEF Data
  <1>6. CASE Captures("done") = {}
    BY <1>6 DEF MergeCaptured, LevelHolds
  <1>7. CASE Captures("done") # {}
    <2>1. Contents(level') = Data(raw, Captures("done"))
      BY <1>1, <1>7, BeginMergeTyped DEF MergeCaptured
    <2> QED
      BY <1>2, <1>3, <1>5, <2>1 DEF LevelHolds
  <1> QED
    BY <1>6, <1>7

LEMMA MergeHolds ==
    ASSUME MergeTypeOK, LevelHolds, CaptureOfNimbus,
           MergeLevel \/ BeginLast \/ MergeLast \/ MergeFails
    PROVE  LevelHolds'
  <1>1. level \in Seq(SUBSET Items) /\ raw \in [CovDirs -> SUBSET Runs]
    BY DEF MergeTypeOK
  <1>2. CASE MergeLevel
    <2>1. Contents(level') = Contents(level)
      BY <1>1, <1>2, NextLevelContents DEF MergeLevel
    <2>2. Wanted' = Wanted
      BY <1>2 DEF MergeLevel, Wanted, Captures
    <2> QED
      BY <1>2, <2>1, <2>2 DEF LevelHolds, MergeLevel
  <1>3. CASE BeginLast
    <2>1. Wanted' = Wanted
      BY <1>3 DEF BeginLast, Wanted, Captures
    <2> QED
      BY <1>3, <2>1 DEF LevelHolds, BeginLast
  <1>4. CASE MergeLast
    BY <1>4 DEF MergeLast, LevelHolds
  <1>5. CASE MergeFails
    <2>1. CASE phase' = "cleanup"
      BY <2>1 DEF LevelHolds
    <2>2. CASE BeginMerge(raw, NonEmpty(raw)) /\ source = "profdata"
      <3>1. client = "lighthouse" /\ source' = "raw"
            /\ UNCHANGED <<client, raw, capture>>
        BY <1>5, <2>2 DEF MergeFails, LevelHolds
      <3>2. Contents(level') = Data(raw, CovDirs)
        BY <1>1, <2>2, NonEmptyIsAll, BeginMergeTyped
      <3>3. Captures("failed")' = {}
        BY <3>1, NoneFailed DEF Captures
      <3>4. Wanted' = Data(raw, CovDirs)
        BY <3>1, <3>3 DEF Wanted
      <3> QED
        BY <3>1, <3>2, <3>4 DEF LevelHolds
    <2> QED
      BY <1>5, <2>1, <2>2 DEF MergeFails
  <1> QED
    BY <1>2, <1>3, <1>4, <1>5

LEMMA StepCapture ==
    ASSUME MergeTypeOK, CaptureOfNimbus, [MergeNext]_mergeVars
    PROVE  CaptureOfNimbus'
  <1>1. CASE UNCHANGED mergeVars
    BY <1>1 DEF mergeVars, CaptureOfNimbus
  <1>2. ASSUME NEW ds \in Suites, RunSuite(ds)
        PROVE  CaptureOfNimbus'
    BY <1>2 DEF RunSuite, CaptureOfNimbus
  <1>3. ASSUME NEW d \in CovDirs, RunSingle(d)
        PROVE  CaptureOfNimbus'
    BY <1>3 DEF RunSingle, CaptureOfNimbus
  <1>4. CASE Killed \/ CleanUp
    BY <1>4 DEF Killed, CleanUp, CaptureOfNimbus
  <1>5. CASE SubmitCaptures
    BY <1>5 DEF SubmitCaptures, CaptureOfNimbus
  <1>6. ASSUME NEW d \in CovDirs,
               StartCapture(d) \/ \E result \in {"done", "failed"} : FinishCapture(d, result)
        PROVE  CaptureOfNimbus'
    <2>1. PICK result \in {"running", "done", "failed"} : capture' = [capture EXCEPT ![d] = result]
      BY <1>6 DEF StartCapture, FinishCapture
    <2>2. phase = "capture" /\ capture[d] # "none" /\ UNCHANGED <<phase, client, raw>>
      <3>1. CASE StartCapture(d)
        <4>1. d \in Captures("queued")
          <5>1. Captures("queued") \in SUBSET CovDirs
            BY DEF Captures
          <5>2. /\ Listing(Captures("queued")) \in Seq(Captures("queued"))
                /\ \A c \in Captures("queued") :
                     \E i \in DOMAIN Listing(Captures("queued")) :
                        Listing(Captures("queued"))[i] = c
            BY <5>1, ListingAssumption
          <5>3. Captures("queued") # {} /\ d = Listing(Captures("queued"))[1]
            BY <3>1 DEF StartCapture
          <5> HIDE DEF Captures
          <5>4. 1 \in DOMAIN Listing(Captures("queued"))
            BY <5>2, <5>3
          <5> QED
            BY <5>2, <5>3, <5>4
        <4> QED
          BY <3>1, <4>1 DEF StartCapture, Captures
      <3>2. CASE \E res \in {"done", "failed"} : FinishCapture(d, res)
        BY <3>2 DEF FinishCapture
      <3> QED
        BY <1>6, <3>1, <3>2
    <2>3. \A c \in CovDirs : capture'[c] = "none" <=> capture[c] = "none"
      BY <2>1, <2>2 DEF MergeTypeOK
    <2> QED
      BY <2>2, <2>3 DEF CaptureOfNimbus
  <1>7. CASE CollectNothing \/ CollectProfdata \/ CollectRaw \/ CollectLodestar \/ OpenJson
                 \/ CopyJson \/ CombineEth2spec \/ ToolMissing \/ MergeCaptured
                 \/ MergeLevel \/ BeginLast \/ MergeLast \/ MergeFails
    <2>1. /\ client' = client /\ capture' = capture
          /\ phase' \in {"copy", "merge", "write", "cleanup"}
          /\ phase' = "copy" => phase \in {"collect", "copy"}
      BY <1>7 DEF CollectNothing, CollectProfdata, CollectRaw, CollectLodestar, OpenJson,
             CopyJson, CombineEth2spec, ToolMissing, MergeCaptured, BeginMerge, MergeLevel,
             BeginLast, MergeLast, MergeFails
    <2> QED
      BY <2>1 DEF CaptureOfNimbus
  <1> QED
    BY <1>1, <1>2, <1>3, <1>4, <1>5, <1>6, <1>7 DEF MergeNext, Merging, Progress

LEMMA StepHolds ==
    ASSUME IInv, [MergeNext]_mergeVars
    PROVE  LevelHolds'
  <1>1. MergeTypeOK /\ LevelHolds /\ CaptureOfNimbus
    BY DEF IInv
  <1>2. CASE UNCHANGED mergeVars
    BY <1>1, <1>2 DEF mergeVars, LevelHolds, Wanted, Captures
  <1>3. CASE \/ \E ds \in Suites : RunSuite(ds)
             \/ \E d \in CovDirs : RunSingle(d)
             \/ Killed \/ CollectNothing \/ CollectLodestar \/ OpenJson \/ CopyJson
             \/ ToolMissing \/ SubmitCaptures \/ CleanUp
    <2>1. phase' \notin {"merge", "write"}
      BY <1>3 DEF RunSuite, RunSingle, Killed, CollectNothing, CollectLodestar, OpenJson,
             CopyJson, ToolMissing, SubmitCaptures, CleanUp
    <2> QED
      BY <2>1 DEF LevelHolds
  <1>4. CASE \E d \in CovDirs :
               StartCapture(d) \/ \E result \in {"done", "failed"} : FinishCapture(d, result)
    <2>1. phase' \notin {"merge", "write"}
      BY <1>4 DEF StartCapture, FinishCapture
    <2> QED
      BY <2>1 DEF LevelHolds
  <1>5. CASE CollectProfdata \/ CollectRaw \/ CombineEth2spec
    BY <1>1, <1>5, CollectHolds
  <1>6. CASE MergeCaptured
    BY <1>1, <1>6, CapturedHolds
  <1>7. CASE MergeLevel \/ BeginLast \/ MergeLast \/ MergeFails
    BY <1>1, <1>7, MergeHolds
  <1> QED
    BY <1>2, <1>3, <1>4, <1>5, <1>6, <1>7 DEF MergeNext, Merging, Progress

-----------------------------------------------------------------------------
(* The refinement *)

LEMMA ContentsOfNone == Contents(<< >>) = {}
  BY DEF Contents

LEMMA ContentsOfOne ==
    ASSUME NEW x
    PROVE  Contents(<< x >>) = x
  BY DEF Contents

LEMMA SameData ==
    ASSUME NEW held, NEW ds
    PROVE  Total!Data(held, ds) = Data(held, ds)
  BY DEF Total!Data, Data

(* What a merge reads and does not change. *)
Inputs == <<client, raw, profdata, capture>>

(* The steps that leave the total alone. *)
LEMMA Recording ==
    ASSUME client' = client, files' = files, partial' = partial
    PROVE  Total!Next
  BY DEF Total!Next, Total!Record

(* The steps that remove it. *)
LEMMA Discarding ==
    ASSUME client \notin {"lodestar", "eth2spec"}, files' = << >>, partial' = FALSE,
           UNCHANGED Inputs
    PROVE  Total!Next
  <1>1. Contents(files') = {} /\ UNCHANGED Captures("failed")
    BY ContentsOfNone DEF Inputs, Captures
  <1> QED
    BY <1>1 DEF Total!Next, Total!Discard, Inputs

(* A command writes a part of what the merge wants. *)
LEMMA PartRefines ==
    ASSUME MergeTypeOK, LevelHolds, CaptureOfNimbus, BeginLast \/ CombineEth2spec
    PROVE  Total!Next
  <1>1. /\ level \in Seq(SUBSET Items) /\ raw \in [CovDirs -> SUBSET Runs]
        /\ UNCHANGED Inputs /\ client # "lodestar" /\ partial' = TRUE
    BY DEF MergeTypeOK, LevelHolds, BeginLast, CombineEth2spec, Inputs
  <1>2. UNCHANGED Captures("failed")
    BY <1>1 DEF Inputs, Captures
  <1>3. \/ Contents(files') \subseteq Data(raw, CovDirs \ Captures("failed"))
        \/ client = "lighthouse" /\ Contents(files') \subseteq Data(profdata, CovDirs)
    <2>1. CASE BeginLast
      <3>1. PICK part \in Parts(Contents(level)) : files' = <<part>>
        BY <2>1 DEF BeginLast
      <3>2. Contents(files') \subseteq Contents(level)
        BY <1>1, <3>1, PartTyped, ContentsOfOne
      <3>3. Contents(level) = Wanted /\ (source = "profdata" => client = "lighthouse")
        BY <2>1 DEF BeginLast, LevelHolds
      <3> QED
        BY <3>2, <3>3 DEF Wanted
    <2>2. CASE CombineEth2spec
      <3>1. level' = InputsOf(raw, NonEmpty(raw)) /\ phase = "collect"
        BY <2>2 DEF CombineEth2spec
      <3>2. level' \in Seq(SUBSET Items) /\ Contents(level') = Data(raw, CovDirs)
        BY <1>1, <3>1, NonEmptyIsAll, InputsHold
      <3>3. PICK part \in Parts(Contents(level')) : files' = <<part>>
        BY <2>2 DEF CombineEth2spec
      <3>4. Contents(files') \subseteq Data(raw, CovDirs)
        BY <3>2, <3>3, PartTyped, ContentsOfOne
      <3> QED
        BY <3>1, <3>4, NoneFailed
    <2> QED
      BY <2>1, <2>2
  <1>4. Total!WritePart
    BY <1>1, <1>2, <1>3, SameData DEF Total!WritePart, Inputs
  <1> QED
    BY <1>4 DEF Total!Next

(* Lodestar copies: the last copy ends the merge, the others leave a part. *)
LEMMA CopyRefines ==
    ASSUME MergeTypeOK, CaptureOfNimbus, CopyHolds, OpenJson \/ CopyJson
    PROVE  Total!Next
  <1>1. /\ UNCHANGED Inputs /\ phase = "copy" /\ client = "lodestar"
        /\ Contents(level) = Data(raw, CovDirs)
    BY DEF CopyHolds, OpenJson, CopyJson, Inputs
  <1>2. UNCHANGED Captures("failed")
    BY <1>1 DEF Inputs, Captures
  <1>3. /\ Contents(files') \subseteq Contents(files) \cup Data(raw, CovDirs)
        /\ ~partial' => Data(raw, CovDirs) \subseteq Contents(files')
        /\ partial' \in BOOLEAN
    BY <1>1, CopyKeeps DEF MergeTypeOK
  <1>4. CASE partial'
    <2>1. Total!WritePart
      BY <1>1, <1>2, <1>3, <1>4, SameData DEF Total!WritePart, Inputs
    <2> QED
      BY <2>1 DEF Total!Next
  <1>5. CASE ~partial'
    <2>1. Total!Merge
      BY <1>1, <1>2, <1>3, <1>5, SameData DEF Total!Merge, Inputs
    <2> QED
      BY <2>1 DEF Total!Next
  <1> QED
    BY <1>4, <1>5

(* The last command: by LevelHolds, what it reads is all that is wanted. *)
LEMMA LastRefines ==
    ASSUME MergeTypeOK, LevelHolds, CaptureOfNimbus, MergeLast
    PROVE  Total!Next
  <1>1. /\ UNCHANGED Inputs
        /\ phase = "write"
        /\ files' = << Contents(level) >> /\ partial' = FALSE
    BY DEF MergeLast, Inputs
  <1>2. /\ client # "lodestar"
        /\ source = "profdata" => client = "lighthouse" /\ Data(profdata, CovDirs) # {}
        /\ Contents(level) = Wanted
    BY <1>1 DEF LevelHolds
  <1>3. Contents(files') = Wanted
    BY <1>1, <1>2, ContentsOfOne
  <1>4. UNCHANGED Captures("failed") /\ (client # "nimbus" => Captures("failed") = {})
    BY <1>1, NoneFailed DEF Inputs, Captures
  <1>5. CASE source = "profdata"
    <2>1. Wanted = Data(profdata, CovDirs)
      BY <1>5 DEF Wanted
    <2> QED
      BY <1>1, <1>2, <1>3, <1>4, <1>5, <2>1, SameData DEF Total!Next, Total!Merge, Inputs
  <1>6. CASE source # "profdata"
    <2>1. Wanted = Data(raw, CovDirs \ Captures("failed"))
      BY <1>6 DEF Wanted
    <2> QED
      BY <1>1, <1>2, <1>3, <1>4, <2>1, SameData DEF Total!Next, Total!Merge, Inputs
  <1> QED
    BY <1>5, <1>6

LEMMA StepRefines ==
    ASSUME IInv, [MergeNext]_mergeVars
    PROVE  [Total!Next]_<<client, raw, profdata, Captures("failed"), Contents(files), partial>>
  <1>1. CASE UNCHANGED mergeVars
    BY <1>1 DEF mergeVars, Captures
  <1>2. CASE \/ \E ds \in Suites : RunSuite(ds)
             \/ \E d \in CovDirs : RunSingle(d)
             \/ Killed \/ CollectLodestar \/ ToolMissing \/ SubmitCaptures \/ MergeLevel
             \/ CleanUp
    <2>1. client' = client /\ files' = files /\ partial' = partial
      BY <1>2 DEF RunSuite, RunSingle, Killed, CollectLodestar, ToolMissing, SubmitCaptures,
             MergeLevel, CleanUp
    <2> QED
      BY <2>1, Recording
  <1>3. CASE \E d \in CovDirs :
               StartCapture(d) \/ \E result \in {"done", "failed"} : FinishCapture(d, result)
    <2>1. client' = client /\ files' = files /\ partial' = partial
      BY <1>3 DEF StartCapture, FinishCapture
    <2> QED
      BY <2>1, Recording
  <1>4. CASE CollectNothing \/ CollectProfdata \/ CollectRaw \/ MergeCaptured \/ MergeFails
    <2>1. /\ UNCHANGED Inputs
          /\ \/ files' = files /\ partial' = partial
             \/ files' = << >> /\ partial' = FALSE /\ client \notin {"lodestar", "eth2spec"}
      <3>1. CASE CollectNothing
        BY <3>1 DEF CollectNothing, Inputs
      <3>2. CASE CollectProfdata
        BY <3>2 DEF CollectProfdata, BeginMerge, Inputs
      <3>3. CASE CollectRaw
        BY <3>3 DEF CollectRaw, BeginMerge, Inputs, TakesPrysmDirs, TakesProfraw,
             TakesExecFiles, TakesPrysmTotals, TakesProfdataTotals, TakesExecTotals,
             TakesInfoTotals
      <3>4. CASE MergeCaptured
        BY <3>4 DEF MergeCaptured, BeginMerge, Inputs, IInv, CaptureOfNimbus
      <3>5. CASE MergeFails
        BY <3>5 DEF MergeFails, BeginMerge, Inputs, IInv, LevelHolds
      <3> QED
        BY <1>4, <3>1, <3>2, <3>3, <3>4, <3>5
    <2>2. client' = client
      BY <2>1 DEF Inputs
    <2> QED
      BY <2>1, <2>2, Recording, Discarding
  <1>5. CASE BeginLast \/ CombineEth2spec
    BY <1>5, PartRefines DEF IInv
  <1>6. CASE OpenJson \/ CopyJson
    BY <1>6, CopyRefines DEF IInv
  <1>7. CASE MergeLast
    BY <1>7, LastRefines DEF IInv
  <1> QED
    BY <1>1, <1>2, <1>3, <1>4, <1>5, <1>6, <1>7 DEF MergeNext, Merging, Progress

(* Merging by chunks and levels, with a pool of threads and commands that fail,    *)
(* implements merging everything by one command; but a command or a copy that is   *)
(* stopped midway leaves a part, until the next merge.                             *)
THEOREM MergesLikeOneCommand == MergeSpec => MergesAtOnce
  <1>1. MergeInit => IInv
    <2> SUFFICES ASSUME MergeInit
                 PROVE  IInv
      OBVIOUS
    <2>1. phase = "tests" /\ \A d \in CovDirs : capture[d] = "none"
      BY DEF MergeInit
    <2> QED
      BY <2>1, InitCopies DEF IInv, LevelHolds, CaptureOfNimbus
  <1>2. IInv /\ [MergeNext]_mergeVars => IInv'
    BY StepTyped, StepCopies, StepCapture, StepHolds DEF IInv
  <1>3. MergeInit => Total!Init
    BY ContentsOfNone DEF MergeInit, Total!Init
  <1>4. IInv /\ [MergeNext]_mergeVars
            => [Total!Next]_<<client, raw, profdata, Captures("failed"), Contents(files), partial>>
    BY StepRefines
  <1> QED
    BY <1>1, <1>2, <1>3, <1>4, PTL DEF MergeSpec, MergesAtOnce, Total!Spec
=============================================================================
