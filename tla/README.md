# A verification of the mechanised beacon chain specification

The repository holds three things. `spec/` writes the consensus specification of
Ethereum (Capella and Deneb) in SpecTec, a language of inference rules. `spectec/`
is the tool that parses, elaborates, structures and interprets such rules, runs the
official tests through them, measures which premises the tests cover and generates
new tests. A layer of Python scripts turns tests into JSON cases, runs the clients on
them, compares what they compute and merges their coverage.

The rules are a program: `StateTransition` takes a state and a block to the next
state, and every relation below it is a state update with guards, early exits and
inserted overflow checks. Five of the modules are of that program. The other five are
of the programs around it, which run for hours, call tools that fail, are killed, and
are run again over what the last run left.

Contents: [inventory](#1-inventory), [modules and how they correspond to the
code](#2-modules), [runs](#3-runs), [proofs](#4-proofs),
[findings](#5-disagreements-between-the-code-and-what-it-says),
[what is not covered](#6-what-is-not-covered), [plan](#7-plan).

## 1. Inventory

Paths of the first table are under `src/spec/spec_deneb/`, those of the second under
`src/spectec/lib/`, those of the third under `src/`.

### The beacon chain

| Part | Where | State | Operations |
|---|---|---|---|
| Justification and finalization | `12-helpers-process-epoch`, `12.1` | justification bits, previous and current justified checkpoint, finalized checkpoint, participation flags | `ProcessAttestation`, `WeighJustificationAndFinalization`, `ProcessParticipationFlagUpdates` |
| Validator registry | `09`, `12`, `12.1`, `13.1` | validators with their five dates, ring of slashed balances | `AddValidatorToRegistry`, `InitiateValidatorExit`, `ProcessVoluntaryExit`, `SlashValidator`, `ProcessRegistryUpdates`, `ProcessSlashings(Reset)` |
| Withdrawals | `13`, `13.2` | balances, next withdrawal index, next validator of the sweep | `get_expected_withdrawals`, `ProcessWithdrawals`, `ProcessBlsToExecutionChange` |
| Slots and history | `12.1`, `12.2`, `13.2`, `07` | slot, latest header, rings of block and state roots, historical summaries | `ProcessSlot`, `ProcessSlots`, `ProcessBlockHeader`, `ProcessHistoricalSummariesUpdate` |
| Eth1 data and deposits | `13.1`, `13.2`, `13.3`, `09` | votes, adopted view, deposit index | `ProcessEth1Data`, `ProcessEth1DataReset`, `ProcessDeposit`, `ApplyDeposit` |
| Rewards, penalties, inactivity | `11`, `12.1` | balances, inactivity scores, effective balances | `ProcessRewardsAndPenalties`, `ProcessInactivityUpdates`, `ProcessEffectiveBalanceUpdates` |
| Randao, shuffling, committees | `06`, `07`, `08` | ring of mixes | `ProcessRandao`, `ProcessRandaoMixesReset`, `get_seed`, `compute_shuffled_index` |
| Sync committees | `12.1`, `13.2` | current and next committee | `ProcessSyncCommitteeUpdates`, `ProcessSyncAggregate` |
| Headers, signatures, payloads | `13.2`, `13.3`, `14` | latest payload header | `StateTransition`, `ProcessExecutionPayload` |

The parts share one record, `beaconState`, and touch it in a fixed order: a block
first brings the state to its slot (`ProcessSlots`, with `ProcessEpoch` at the end of
each epoch), then `ProcessBlock` runs header, withdrawals, payload, randao, Eth1 data,
operations and sync aggregate. Within an epoch transition justification comes first,
so that the registry sees the checkpoint finalized a moment ago; the reset of the
slashings ring comes after the charge. The chain is sequential, but the *input* is
not: any validator may vote, exit, be slashed, deposit or be absent in any order, late
attestations arrive one epoch later, slots may be empty, and chains fork. That is the
nondeterminism of these modules.

What makes each part correct, and hard to test:

* **Finality.** The rules test bits shifted in the same step against checkpoints from
  before it. They must compute the definition of finality, never revert, and never
  finalize two conflicting checkpoints without a third of the balance being slashable.
* **Registry.** Three queues are encoded in dates: nobody overtakes, no epoch exceeds
  its churn, the active set is settled a lookahead ahead, and a penalty is charged by an
  *equality* of epochs, which a long exit queue could skip.
* **Withdrawals.** A payload's withdrawals are computed from one state and paid one by
  one into later ones, by a pointer into a registry that grows.
* **History.** Rings are read modulo their size behind the writer; the header is hashed
  before or after its state root is filled in; a summary is taken once a period.
* **Deposits.** A block's own vote may change how many deposits that block must carry;
  a view that is behind must not leave the chain without a valid block.

### The tool

| Part | Where | State | Operations |
|---|---|---|---|
| Batch runner and checkpoint | `batch/batch.ml` | inputs completed, coverage, the checkpoint file | run an input, save, load and verify, merge |
| Test generation | `runner/testgen.ml` | seeds analyzed, its own checkpoint, the mutations on disk | analyze, save, mutate, resume |
| Front end | `pass/`, `lang/` | none | parse, elaborate, structure, annotate |
| Interpreters | `interp/` | the cache and its version counter | evaluate a relation or a function |
| Instrumentation | `instrumentation/` | counters of a process | count, merge, restore |
| Command line, diagnostics, language server, back ends | `cli/`, `diag/`, `lsp/`, `backend/`, `parsegen/` | none that matters | |

The batch runner calls the interpreter on one input after another; the interpreter
calls the handlers of the instrumentation back, and the runner saves what they
counted. Test generation analyzes one seed after another with the same interpreter and
writes a checkpoint of the same format. Nothing runs concurrently, but runs are killed:
what is on disk at that moment, and what the next process makes of it, is the hard
behaviour. A resumed run must count nothing twice, take up no results of another
specification, and leave nothing out.

### The scripts

| Part | Where | State | Operations |
|---|---|---|---|
| Generation of JSON cases | `Converter/generate_json_test_cases.py`, `Converter/eth2specOperationResult.py` | the directories of generated cases, the state before the step at hand | skip what exists, convert, execute, copy three files |
| Differential tests | `diff_testing.py`, `check_results.py`, `check_postState.py` | the output directory, a status per client and pair, the clients that succeeded | run a client, chain, compare, list |
| Coverage of the clients | `diff_testing.py` | raw data and converted files per directory, temporary files of a merge, the total | record, capture, merge by chunks and levels, clean up |
| Driver, comparison of reports, selection and conversion of tests | `run_test_suite.py`, `compare_state_transition_coverage.py`, the others | none that outlives a call | |
| Changed clients | `modified_code`, `patches` | | |

The scripts talk to each other and to the clients through files only. The JSON cases
of the first are what the tool evaluates; the second leaves post-states which its
comparison and two readers interpret; the executions of the second leave the data that
the third merges. The directories are not cleared, or only in part: what an earlier run
left lies beside what this one writes, and no file says which run wrote it. A chain of
steps must be one; a client that fails now must not look as if it had computed what it
computed last week; a merge that ends must not present a part of the data as the total.

The hazards, each at its line and with the properties that would catch it, are listed
in `PROJECT.json`.

## 2. Modules

Each module has its constants with a named assumption, one action per operation, and a
few *faults*: alternative definitions, marked as such in a comment, that a plausible
mistake in the code would amount to. No specification uses a fault; replacing the real
definition by it shows that a property can fail.

| Module | Models | Checked by | Proofs |
|---|---|---|---|
| `Finality` | justification, finalization, forks | `MCFinality` | `FinalityProofs` |
| `Registry` | activation queue, exit queue, slashing | `MCRegistry` | `RegistryProofs` |
| `Withdrawals` | the withdrawal sweep | `MCWithdrawals` | `WithdrawalsProofs` |
| `History` | rings, header, summaries | `MCHistory` | `HistoryProofs` |
| `Eth1Deposits` | Eth1 votes and deposits | `MCEth1Deposits` | `Eth1Proofs` |
| `CoverageRun` | batches, kills, checkpoints | `MCCoverageRun` | `CoverageProofs` |
| `TestGeneration` | seeds, mutations, kills, checkpoints | `MCTestGeneration` | `GenerationProofs` |
| `CaseGeneration` | official cases to JSON cases | `MCCaseGeneration` | `GenerationProofs` |
| `DiffTesting` | clients run and compared | `MCDiffTesting` | `DiffTestingProofs` |
| `CoverageMerge` | merging of the clients' coverage | `MCCoverageMerge` | `CoverageProofs` |
| `OneShotMerge` | what `CoverageMerge` implements | as a property of it | `CoverageProofs` |

Two modules whose proofs are in one module do not share a name: the specification of
`CoverageMerge` is `MergeSpec`, that of `CaseGeneration` `CaseSpec`.

### Finality

The state of chain `c` is the record `chain[c]`: the fields of `beaconState` that the
gadget reads and writes, and two history fields, the votes included and the
supermajority links they formed. Time is the epoch. `IncludeCurrent` and
`IncludePrevious` are an attestation that earns the timely-target flag; the source it
names is forced by `get_attestation_participation_flag_indices`, which is why a vote
follows from the chain, the validator and the epoch. `SlashValidator` takes the flags
of a validator out of the count. `ProcessEpoch` weighs, moves the flags and starts the
next epoch, whose checkpoint root is new or, where `EmptyEpochs` allows, that of the
last block. `Fork` starts a second chain from the head of the first; a root names the
chain that made it, so two chains disagree from then on. A chain counts an attestation
only if its target is a checkpoint of that chain, so the two count the same votes for
the checkpoints that they share, and different ones afterwards.

Balances are counts of units, so that sums are cardinalities: proofs then need no
recursion. `get_total_balance` never returns less than one increment, and with a total
of one increment the empty set of voters would be a supermajority; the assumption
`TwoIncrementsAssumption` excludes that. `WeighDefined` holds the inserted overflow
checks; where they fail the relation has no result and the chain has no step.

Abstracted: slots within an epoch, committees (a validator attests alone), head and
source flags, the set of active validators (constant here, `Registry` moves it).

### Registry

`validators` is a function on indices `0..n-1`; a validator has its effective balance,
its flag and its four dates. `AddValidator`, `ProcessVoluntaryExit` and
`SlashValidator` are the block operations, `ProcessEpoch` is the registry part of the
epoch transition: eligibility and ejection folded over the indices in order, then the
activation queue sorted and cut at the churn limit, then the charge for slashings, then
the ring's reset. `finalized` is moved by the environment no further than the epoch
before the current one, which is what `FinalityDelayAlwaysDefined` establishes for the
value that the registry step reads. Which effective balances an epoch ends with is the
environment's choice too, at most `BalanceChanges` of them in one epoch.
`RegistryAssumption` asks that `FAR_FUTURE_EPOCH` lies beyond the last epoch, the
lookahead and one epoch for each validator: 2^64-1 in the code, which is the value that
stands for "never" there and that no date may reach. The proofs show that this is
enough (`ExitsSoon`).

Rule `ProcessEligibilityAndEjection/eligible_and_eject` needs a validator that has the
maximum effective balance and at most the ejection balance. `EJECTION_BALANCE` is below
`MAX_EFFECTIVE_BALANCE`, so no state takes that rule; the model is written so that it
would compose both updates.

### Withdrawals

`ProcessWithdrawals` is a block whose payload holds exactly what
`get_expected_withdrawals` computes (`expected_withdrawals_loop` is that function's loop);
every other block is rejected and changes nothing. `NextTurn` is one turn of the loop, the
four rules of the function; once a payload is full the remaining turns change nothing,
where the code returns. Between blocks balances grow and
shrink, validators join, mature and register an address. Of a validator the sweep only
sees whether it is withdrawable and whether its effective balance is the maximum. The
three history variables are what was issued, burnt and paid.

### History

A root is modelled by what it was computed from: a state root is its slot, the root of
a header is its slot with the state root it held *when it was hashed*. This keeps what
the code's ordering can get wrong, hashing the header before its state root is filled
in, and nothing else of the hash. `ProcessSlots_loop` is one turn of the loop of
`ProcessSlots` (root caching, epoch transition if the epoch ends, next slot);
`ProcessBlockHeader` replaces the header. `latest` remembers which block was the latest
as each slot ended; nothing in the code reads it.

### Eth1Deposits

`ProcessBlock(vote)` is `ProcessEth1Data` followed by the deposits of
`ProcessOperations`, in that order, with the guard that makes a block invalid when the
adopted view is behind `ETH1_DEPOSIT_INDEX`. A deposit carries a Merkle proof that it
is the one at that index, so it is determined by the index; the deposit contract only
appends, so a view is a number. `ProcessSlot` ends a slot with or without a block and
resets the votes when the next slot starts a period.

### CoverageRun

A process is idle, starting, running, saving or exiting. `Start` loads the
specification, `Refuse` and `Load` are `verify_and_load`, `RunInput` runs one input
and, when the interval says so, begins a save; `NextTask` takes up the next task's
inputs without those loaded from the checkpoint; `Finish` saves at the end. A save is
two steps because the file is truncated before it is written. `Crash` may happen at any
point, `Edit` changes the specification's files. `coverage` counts how often the
handlers counted each input; `basis` is a history variable, the specifications that
inputs ran against.

Two assumptions are stated in the module: `SourcesDistinct` (two tasks of one run
collect different sources; otherwise a resumed run skips the second of them), and that
a checkpoint is written to the file the last one was read from. `EditsWhileRunning`
is a constant, because part of one property holds only without it.

### TestGeneration

One file, one program that is started again and again with that file to resume from
and to save to. `Start` reads it (`load_testgen_checkpoint`; what is absent or cut
short reads as empty) and takes up what `filter_remaining` leaves. For each seed either
`AnalysisFails` or `AnalysisSucceeds`: both list the seed as analyzed, and if a save is
due the second goes through `OpenCheckpoint` and `WriteCheckpoint` *before* `Generate`
writes the mutations, which is the order of `process_one_seed`. `Finish` saves once
more, but only if some seed of this run gave a test. `Killed` may come at any point.
`written` is what is on disk; `failed` is a history variable. The order of the seeds is
left open: the code's is one of them.

### CaseGeneration

One directory of the official suite, of one of the four kinds. A state is the list of
steps that led to it, so that a wrong state is a different list; which pairs of a state
and a step the specification accepts is a constant, drawn at the start. `StartBlocks`
and the other starts decompress, leaving out what cannot be; `Skip` is
`_should_skip_test` and the `continue` after it; `Compute` takes the state of the suite
for a single step or runs the specification; `CopyPre`, `CopyInput` and `CopyPost` are
the three copies, with a kill possible between and within them. Names matter, since a
case is found again by its name alone: `NameAt` is how the code numbers, without a number
for a single step. `fresh` is a history variable.

### DiffTesting

One case, its pairs of a state and a block, the clients in their order. `RunOnBlock`
and its siblings run the client at hand: `Outcomes` is what a client may do (external:
an exit code and a file, with the files of clients that fail after they wrote, leave an
empty file or are killed), `Classify` how the code turns an exit code into a status,
`Kept` which empty files it removes. `EndIndependent`, `EndSequential` and `BreakChain`
record the pair and, of a chained run, choose the state of the first client that
succeeded. `Compare` is `compare_ssz_files_in_output`; `MismatchListed` and
`PostStateListed` are what the two readers list. The directory `output` is never cleared
and outlives runs; a state is the list of steps that led to it, right or wrong.

### CoverageMerge and OneShotMerge

The coverage of one client, for the accumulated report of a suite or for the final
report over suites. Data is the set of executions it comes from, so that what is lost,
counted twice or old is visible. `RunSuite` and `RunSingle` record, with the differences
between tools in `Recorded`, `Converted` and `CleanedUp`. The `Collect` actions find the
inputs of the merge and `BeginMerge` removes the last total, as each client's function
does; `SubmitCaptures`, `StartCapture`, `FinishCapture` and `MergeCaptured` are the thread
pool of Nimbus; `MergeLevel` merges chunk by chunk into the inputs of the next level;
`BeginLast` and `MergeLast` are the command that takes the rest, and `MergeFails` any
command that fails, with the fallback of Lighthouse from converted files to raw data.

What is written in the place of the total is not written at once. The last command, and
`coverage combine`, go through the phase "write": some part of the output is there
(`Parts`), the rest follows, unless the command fails or the program is killed. Lodestar's
files are copied in the phase "copy", one by one, each emptied (`OpenJson`) before it is
whole (`CopyJson`). `partial` is a history variable: it holds while the total is being
written and after that was stopped midway. The code keeps nothing of the kind.

`OneShotMerge` is what the reports promise: a total that was written to its end holds
everything that was there when it was made, and one that was not holds a part of it.
Chunks, levels and threads are not in it. `CoverageMerge` implements it under
`total <- Contents(files)`, `failed <- Captures("failed")`; the property is
`MergesAtOnce`. So every command but the last, a capture and a fallback leave the total
alone, and a finished total of Nimbus lacks exactly the directories whose capture failed;
that of any other client lacks nothing. Two allowances are in the abstract module because
the code has them, and they are weaknesses of the code (section 5): the part that a
stopped command or copy leaves, and of Lodestar the files of an earlier merge beside the
new ones.

## 3. Runs

Every run is exhaustive for its constants. Deadlock is checked in `withdrawals`,
`eth1_voting`, `coverage_resume` and `test_generation`, where nothing ends; the other
models stop at the bound on their epochs, slots or runs.

| Run | Instance | Shows |
|---|---|---|
| `finality_patterns` | 3 equal validators, one slashable at any time, 5 epochs, epoch 2 may be empty, validators that cannot be slashed are interchangeable | `FinalizedIsLatestSupported`: the four bit rules compute the definition of finality. `JustificationSound`: a bit says whether that epoch was ever justified, two thirds of the balance signed the source and target of every link, and links go forward from a justified checkpoint. `CheckpointOrder`, `FinalityMonotone` |
| `finality_forks` | 2 chains forking anywhere, 6 epochs, one validator holding everything | `AccountableSafety`: conflicting finalized checkpoints only with a third of the balance slashable |
| `registry` | 2 genesis validators, 2 deposits, 4 epochs over a ring of 4, 2 slashings, balances move | `ActivatedInTurn`, `ChurnRespected`, `SlashingsCharged`, `ActiveSetLookahead`, `ExitQueueFIFO` |
| `withdrawals` | 1 validator and two to join, sweep of 2, payload of 2, a supply of 5 | `FirstDue`: the loop is the declarative first-due prefix. `PayoutsAccounted`: money and indices are conserved. `StakeKept`. `DueIsPaid`: nobody stays due for ever |
| `history_rings` | epochs of 2 slots, rings of 4, 13 slots | `RootsServed`, `SummariesComplete` over three rounds of the rings |
| `eth1_voting` | periods of 4 slots, blocks of 2 deposits, 5 deposits over two keys, views 0, 2, 3 and 5 | `OneWinnerPerPeriod`, `NeverStuck`, `DepositsCountedOnce`, `BacklogCleared` |
| `coverage_resume` | 2 tasks of 2 and 3 inputs, one skipped, a save every 2 inputs, 2 kills, 2 edits between processes | `CheckpointSound`: a checkpoint counts each of its inputs once and under one specification. `ProgressKept`, `CampaignCompletes` |
| `test_generation` | 5 seeds, a save every 2, 2 kills | `LossBounded`: a kill costs one seed at most. `RepeatBounded`: a kill makes the next run repeat less than an interval, an interval if a save is due, and an interval more per failed analysis; a kill within the save is excepted, since the file is already cut short and everything is repeated. `CampaignEnds` |
| `case_generation` | 3 steps of which any may be missing or rejected, each kind of case, 3 runs over the same directories | `PairConsistent`: no later run takes a mix of two steps or runs for a case. `CaseReproduced`: a run that found nothing and met no error makes a chain, and none leaves a step out silently |
| `case_generation_resumed` | 2 operations, 2 runs | the counterexample of section 5 |
| `diff_testing` | 3 clients, one may deviate, one may not be installed, 2 blocks, every kind and workflow, 2 runs over the same directory | `DifferencesReported`, `ChainOfSuccesses`, `SplitListed` |
| `coverage_merge` | 6 clients, 5 directories, chunks of 2, 2 threads, 2 runs, suites of 0, 2, 3 and 5 directories, commands stopped with nothing or a part of their output written | `MergedOnce`: no level counts an execution twice. `MergesAtOnce`: chunks, levels, threads and failures lose and invent nothing, and only what is stopped midway leaves a part. `MergeEnds` |

`TypeOK` is an invariant of the runs too, except where it is proved and says no more than
types: of `CoverageRun`, `TestGeneration` and `DiffTesting` the theorem `TypeCorrect` stands
for it, of `CoverageMerge` the theorem `MergeTypeCorrect`. In `CaseGeneration` it is
`CaseTypeOK`.

**Why the bounds are enough.** Finality: the longest rule spans four epochs, of which the
first two are not weighed; five epochs reach every bit and every rule, including those
over three epochs, with late votes. Two of three equal validators justify, so a slashed
validator decides between justified and not. A conflict of two finalized checkpoints first
appears after four epochs; six let the later chain finalize over a gap and one chain
surround the links of the other. One validator makes every offence 100% of the balance;
that two sets of two thirds share a third is arithmetic which this instance does not
exercise; `AlwaysAccountable` proves it for any validators. Registry: two deposits queue
for a churn of one; a ring of four wraps when epoch 4 begins, and with the delay of one
and a churn of one the fourth validator to leave is withdrawable later than its slashing
alone would make it. Withdrawals: the registry grows from one to three past a sweep of
two, so it is smaller than, as large as and larger than the sweep. History: three rounds.
Eth1: four slots have room for a tie of two views and for a majority before the period
ends; views 2 and 3 can be adopted in either order, so a view can be behind. Coverage: a
task larger than the save interval, and one as large; two kills are one during a resumed
process. Test generation: five seeds have two saves and a rest in a run, and two kills are
one in a resumed run. Case generation: with three steps a middle one can be missing,
rejected or skipped; three runs let a third skip what a second mixed. Differential tests:
two blocks make one link of a chain, two runs leave old files under new ones; the clients
are one that fails like most, one that writes before it fails, and one whose empty files
are removed. Merging: five directories in chunks of two take two levels with an odd chunk
in each; two threads and five captures leave a queue; a total that is stopped midway is
empty, or holds what two of the directories hold (`SomeParts`).

Bounds: `MaxEpoch`, `MaxSlot`, `MaxValidators`, `MaxSlashed`, `MaxFinalized`,
`BalanceChanges`, `Supply`, `MaxBurnt`, `MaxCrashes`, `MaxEdits`, `MaxKills`, `MaxRuns`;
each is in a guard or named at its declaration.

**Fairness.** `Withdrawals`: weak fairness of `ProcessWithdrawals`, that blocks keep
being made; a chain without blocks pays nobody. It is always enabled. `Eth1Deposits`:
weak fairness of `ProcessSlot`, time passes, and strong fairness of `Block`, since a
block is possible again and again in new slots but not within a filled one. Nothing is
assumed about *which* view a block votes for. `CoverageRun` and `TestGeneration`: weak
fairness of the program's steps, that a process which is not killed goes on and that a
killed one is started again; none of kills and edits, which are bounded.
`CoverageMerge`: weak fairness of `Progress`, the steps of a merge that has begun, since
the program waits for each command and each command ends; nothing has to fail. The other
modules state no liveness: whether a chain finalizes is up to its validators, and whether
a script is run again to whoever runs it.

## 4. Proofs

`tlapm` checks every theorem for all values of the constants that the named assumptions
allow.

**`FinalityProofs`**: `TypeCorrect`, `CheckpointsOrdered`,
`FinalityDelayAlwaysDefined`, `FinalityNeverReverts`, `JustificationAlwaysSound`,
`FinalizedAlwaysLatest` and `AlwaysAccountable`, for any number of chains, validators and
balances. The order of the three checkpoints is not inductive. The
strengthening `IInv` says of every chain, besides its type, that the checkpoints are
ordered and lie in weighed epochs (`Ordered`), that the finalized one is two epochs
behind (`Delayed`), and that each of the three is the root that the chain holds for its
epoch (`Anchored`). `FinalityNeverReverts` needs
it all: a step finalizes the old current or the old previous justified checkpoint, both
no older than the finalized one, and both on the chain; the lemma `NextMoves` says so of
each action, and forks copy.

The other three rest on `AInv`, an account of how a chain came to its checkpoints
(`Accounted`). Its parts go from what the code keeps to what it promises: a flag that may
count stands for a vote (`FlagsVoted`); votes that can still be weighed have one source
and one target per epoch (`VotesFollow`); hence an epoch that is weighed makes one link,
which a supermajority signed (`LinksFollow`, `LinksCarried`); a bit is set if and only if
there is such a link (`BitsSay`); the sources that later votes name are justified
(`SourcesJustified`); and the finalized checkpoint is the latest that two links support
(`LatestSupported`), where the four bit rules are compared with the definition. `RootsMade`
relates chains: a root names the chain and the epoch that made it, so chains which share
it share all before it (`SamePast`). `ConflictSlashable` is then the argument of Casper:
past the first of two conflicting finalized checkpoints, the first link of the other
chain either justifies the same epoch, so that two supermajorities voted for different
targets of one epoch, or surrounds the link that finalizes. Two supermajorities share a
third of the balance (`SupermajoritiesIntersect`), and who is in both is slashable
(`SlashableLinks`).

**`RegistryProofs`**: all properties of `Registry`, for any preset within
`RegistryAssumption`. `IInv` says that the registry is `Sound`: dates follow each other
and wait for the finalized epoch (`Dated`), the activation queue is `Ordered`, the exit
queue exceeds in no epoch the churn limit of all that were ever activated (`ExitsFit`)
and is no longer than there are validators in it (`ExitsSoon`; without this a date could
reach `FAR_FUTURE_EPOCH`, and a validator that leaves would count as one that does not).
`ExitQueueEpoch` is a maximum over the registry, so `ExitKeeps` is where most of the work
is: who joins gets a date no earlier than any other's and into an epoch with room. The
fold over the validators is proved one index at a time (`AllKeep`). An activation takes a
prefix of the sorted queue: `PrefixFits` says that no more than the limit are taken, and
`ActivationsSay` that who is left behind is behind all who were taken.
`Follows` and `Advances` say what a block and an epoch transition leave alone, which is
what the two action properties are about. `SlashingsCharged` has an invariant of its own,
`SInv`: the log dates the slashings (`Logged`) and each slot of the ring is the sum of
the epoch it stands for (`Window`); that a slashing adds to one slot only, and the reset
destroys only what leaves the window, is `RingInjective`. Sums are folds of the community
modules; `SumAdds` and `SumSame` say of them what the steps need, by induction over
the natural numbers (`SetInduction`, from well-foundedness).

**`WithdrawalsProofs`**: all properties of `Withdrawals` but `DueIsPaid`, for a registry of
any size and payloads and sweeps of any length. The loop comes first: `TurnHolds` says
what it has after `i` turns, namely the first of those that are due among the first `i`
(`First`), one payment each with the next index, and, until the payload is full, all of
them; `LoopHolds` is the induction over the turns. That no validator is looked at twice is
`AtInjective`, the arithmetic of a sweep no longer than its ring. Then the blocks: since
the payments are of different validators and each no more than its balance,
`ApplyWithdrawals` subtracts exactly them (`AppliedLeft`), and `DecreaseBalance` never has
to stop at zero. `IInv` joins the ring with the books: every payment on record has an
index that was given (`Booked`), so that the payments of a block are new and the sums of
`PayoutsAccounted` move by the same amount on both sides (`WithdrawalsKeep`). Sums and
counts are folds of the community modules over functions that change, or grow by a
validator; `SumChanges` and `SumExtends` say what such a step does to them.

**`HistoryProofs`**: all properties of `History`, for rings of any
size and periods of any whole number of epochs. The arithmetic is `RingInjective`: two
slots less than a ring apart never share a place in it, so the write at the end of a
slot destroys exactly the one slot that is no longer remembered. `IInv` joins the type
with what is served and with the header being final in every slot but its block's own;
`RootsAlwaysServed` follows.
`SummariesComplete` is proved from it by `SInv`: when a period ends, the rings hold
precisely that period (`PeriodsEnded`, `ServedAfterwards`), and division by the size of
the ring goes up by one there and nowhere else (`DivStep`).

**`Eth1Proofs`**: `TypeCorrect`, whose content is that the deposits processed never exceed
the adopted view, `OneViewAdopted` and `DepositsAlwaysCountedOnce`. `IInv` adds that two
different views never have more votes together than slots of the period have passed
(`VotesFitSlots`), so that only one can have a majority, and that the one that has it was
adopted (`WinnerAdopted`). The deposits of a block are a fold, a recursive function over
the index of the deposit: that it exists and that each index it reaches counts every
deposit once is an induction over the index (`SetInduction`).

**`CoverageProofs`**, of `CoverageRun`: `TypeCorrect`, `EachCountedOnce`,
`OneSpecBehindCheckpoint`, `CheckpointsSound` and `NoProgressLost`, for any tasks,
interval and number of kills; the last three under the premise that files do not change
under a running process. `CInv` relates the places a count can be: the process, the
snapshot being written, and the file (`Counts`). Its part `Fresh` says that what remains
of a task is not completed yet, and needs that the sources of tasks are distinct;
`OneSpec` and `Keeps` add which specification each place is of, and that the memory of a
resumed process has no less than the file.

Of `CoverageMerge`: `MergeTypeCorrect`, `EachMergedOnce` and the refinement
`MergesLikeOneCommand`, for any directories, chunk size of two or more, threads and runs.
`LevelHolds` is the invariant: while a merge goes on, the inputs of the level together are
all that was wanted, of the source that is being merged (`Wanted`), which is all the data
but that of failed captures; `MergedOnce`, that they are disjoint, is kept beside it. A
level keeps both because the chunks of a list cover its positions and no two share one,
which is a fact about rounding up. `CaptureOfNimbus` says that only Nimbus captures and
`CopyHolds` that the files which Lodestar has copied are in the total. A step of the
detailed merge is then a stutter, a removal, a part written (`PartRefines`,
`CopyRefines`) or the end of the abstract one (`LastRefines`). What a command has written
midway is a parameter, `Parts`, of which only `PartsAssumption` is assumed: nothing that
the command does not merge.

**`DiffTestingProofs`**: `TypeCorrect`, `ChainAlwaysOfSuccesses`,
`DifferencesAlwaysReported` and `SplitAlwaysListed`, for any clients, cases,
installations and runs. None of them is inductive, since the directory holds files of any
age. `IInv` says why they do not matter: a client that succeeded has a whole file
(`Whole`), made of the pair at hand in the state at hand (`Follows`), what is still to
come has no status (`Untouched`) and was not run before (`Distinct`), and what is
recorded as successful is what succeeded, or nothing (`Listed`).

**`GenerationProofs`**, of `TestGeneration`: `TypeCorrect`, `LossAlwaysBounded` and
`RepeatAlwaysBounded`, for any seeds,
interval and number of kills. `LossBounded` says it of the file, but what is in the file
comes from the program: `ExposedBounded` counts the seeds that either of them lists
without their having been dealt with. Only a kill adds to them, and only the one seed
that is in hand (`OneInHand`). `RepeatBounded` compares memory and file, while the code
counts seeds: `FewUnsaved` says that the count is a multiple of the interval more than
what is not saved, so that a save is due before an interval is full, and that a failed
analysis at that very seed is all that can put it off (`RInv`). While a save is due, the
interval may be full; while it is being written the file lists nothing, and the property
says nothing. `KillRepeats` turns the invariant into what a kill costs.

Of `CaseGeneration`: `CaseTypeCorrect`, `PairsAlwaysConsistent` and
`CaseAlwaysReproduced`, for a case of any length, any lists of its steps and any
specification. A run skips what is there, whoever made it, so `CaseInv` says of each file
what it is worth rather than who wrote it. The case being written was not there when it
was begun, and its files are written in order (`CaseAtHand`), from a state after that
follows from the one before (`MadeFollows`); this makes `PairConsistent` inductive. A run
that found nothing has so far made a chain that ends in the state at hand (`FreshChain`),
and any run without an error has left nothing out but behind a rejected step
(`MadeSoFar`); at the end these are the two halves of `CaseReproduced`. Two positions of a
list never share a name, but a single step goes by a name without a number that another
run may have given to another step; what holds of it is therefore said by `MadeFollows`
and `PairConsistent` only where the case has one step. The assumption
`GenerationAssumption` says that a listing is in ascending order, which the sorted names
of the files are.

**Only model-checked.** All liveness (`DueIsPaid`, `BacklogCleared`, `CampaignCompletes`,
`CampaignEnds`, `MergeEnds`) and `NeverStuck`, which is about `ENABLED`: both are beyond
this prover. Every other property that a passing run checks is a theorem.

## 5. Disagreements between the code and what it says

*A generation that was killed is not made anew.* A comment
(`generate_json_test_cases.py:672`) says that if some steps of a sequential test exist
and some do not, they are re-generated. The code skips those that exist without moving
on the state, so that the later ones start from the wrong one. Run
`case_generation_resumed`; `CaseReproduced` says that a run which finds nothing makes the
right chain.

Other things that the models show or had to allow for. They are in the modules, and no
run is devoted to them:

* `save_to_file` (`batch/batch.ml:90`) opens the checkpoint itself, which truncates it,
  and then writes. A process killed in between has destroyed the last good checkpoint,
  which the help says "enables resume"; the campaign then starts over, and
  `CampaignCompletes` says that it still ends. Test generation saves with the same
  function, which is why `RepeatBounded` excepts a kill within the save.
* The last command of a merge writes straight to where the total is looked for
  (`diff_testing.py:5262`), and so do the copies of Lodestar (`diff_testing.py:5498`).
  Killed in between, they leave a part in `merged_coverage`, which
  `--generate-final-coverage` takes for the total of the suite. `MergesAtOnce` allows it,
  until the next merge, and only for these.
* The `merged_coverage` of Lodestar is copied into and never cleared
  (`diff_testing.py:5498`); files of an earlier, larger merge stay, one that was cut short
  among them. `MergesAtOnce` allows it for Lodestar.
* `process_one_seed` (`runner/testgen.ml:2452`) saves a seed as analyzed before its
  mutations are written. Killed in between, the resumed run leaves that seed out for good;
  `LossBounded` says that it is never more than one seed per kill.
* The hash of a coverage checkpoint is of the files when it is saved, the results are of
  those loaded at the start (`batch/batch.ml:46`): edited under a running process, they
  disagree. The module has the edit behind `EditsWhileRunning`.
* A chained run over several `pre_*` records every pair under one index; its successes
  overwrite those of the pair before. `DifferencesReported` excludes that format.
* Of slots, the status of a client killed by a signal starts with a minus, and
  `check_results.py` does not see it. `SplitListed` excludes it.
* The post-state of a JSON case that was cut short by a kill is skipped for ever.
* Slots of the suite without a state after them end the generation with an undefined
  method.
* A run of test generation that gave no test does not save what it analyzed; and its
  checkpoint names neither the specification nor the premises it was made for, so that a
  resumed run with others skips what was analyzed for the first.

## 6. What is not covered

Within the modelled parts: the batch runner's merge of checkpoints and its summary of
results; the selection of seeds and the mutations of a seed, which are pure functions;
the structural comparison of states, the layout of reports, what a coverage tool counts
and how its totals are filtered and shown; the containers' serialisation and hashing;
slots within an epoch for `Finality` and `Registry`, and the amounts that slashing and
correlated penalties take (`Registry` models when they are charged and over which
window). Not modelled at all:

* rewards, penalties, inactivity scores and the hysteresis of effective balances;
  randao and seeds; sync committees; the interpreter's cache: these keep state worth
  modelling and are planned;
* the shuffling, the committees and the signatures: pure functions of hashes;
* the front end, the structuring passes, the interpreters, the splicing back end, the
  command line and the language server: sequential tree transformations, whose
  correctness is agreement between three interpreters on all inputs and out of a model
  checker's reach;
* the driver of the test suite, the comparison of coverage reports, and the scripts that
  select and convert tests: one pass over finished files each;
* the Capella rules, which are those of Deneb but for the fork's changes; the P4, Impty
  and Miniml targets; the changed clients, which are other projects.

## 7. Plan

Steps 1 to 10 are done.

1. `Finality` with `FinalityProofs`.
2. `Registry` with `RegistryProofs`.
3. `Withdrawals` with `WithdrawalsProofs`.
4. `History` with `HistoryProofs`.
5. `Eth1Deposits` with `Eth1Proofs`.
6. `CoverageRun` with `CoverageProofs`.
7. `CoverageMerge`, which implements `OneShotMerge`, with its part of `CoverageProofs`.
8. `DiffTesting` with `DiffTestingProofs`.
9. `CaseGeneration` with its part of `GenerationProofs`.
10. `TestGeneration` with its part of `GenerationProofs`.
11. `Incentives`: base rewards, flags, inactivity scores and hysteresis, with the leak
    composed with `Finality`: while less than two thirds vote, the absent lose until the
    present are a supermajority.
12. `RandaoSeeds`: the ring of mixes read a lookahead behind its writer.
13. `InterpCache`: the cached evaluator implements the uncached one
    (`INSTANCE ... WITH`), with the side effects of the P4 target as the counter.
14. Abstract specifications, with the detailed modules shown to implement them: a
    `Justification` of links and supermajorities without bits for `Finality` (the bits,
    the shifts and the four rules are then the implementation); an unbounded `Past`
    for `History`; a `Campaign`, a set of inputs that only grows, for `CoverageRun` and
    `TestGeneration`.
15. `BeaconChain`: `Finality` composed with `Registry`, whose active set it weighs, at
    the size where both still move.
16. Proofs of the refinements of step 14.
