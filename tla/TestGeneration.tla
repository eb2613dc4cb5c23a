--------------------------- MODULE TestGeneration ---------------------------
(***************************************************************************)
(* The loop of testgen.ml: each seed is analyzed, its mutations are        *)
(* written, and every now and then the seeds that were analyzed are saved, *)
(* so that a run that is killed can be resumed.                            *)
(***************************************************************************)
EXTENDS Integers, FiniteSets

CONSTANTS
    Seeds,          \* the seeds that are selected
    SAVE_INTERVAL,
    MaxKills        \* bound: how often a run is killed

ASSUME SeedsAssumption ==
    /\ IsFiniteSet(Seeds)
    /\ SAVE_INTERVAL \in Nat \ {0}
    /\ MaxKills \in Nat

\* A checkpoint is not there, cut short, or whole, and lists seeds.
File(kind, listed) == [kind |-> kind, listed |-> listed]

VARIABLES
    phase,          \* what the program does
    remaining,      \* the seeds this run has still to analyze
    hand,           \* the seed that is analyzed and not yet written, if any
    idx,            \* how many it has dealt with
    analyzed,       \* the seeds analyzed by this run or listed when it began
    gaveTests,      \* whether some seed of this run gave a test
    checkpoint,     \* the file
    written,        \* the seeds of which all mutations are on disk
    failed,         \* history: the seeds whose last analysis failed
    kills

vars == <<phase, remaining, hand, idx, analyzed, gaveTests, checkpoint, written, failed, kills>>

-----------------------------------------------------------------------------
(* Steps *)

Init ==
    /\ phase = "idle"
    /\ remaining = {}
    /\ hand = {}
    /\ idx = 0
    /\ analyzed = {}
    /\ gaveTests = FALSE
    /\ checkpoint = File("absent", {})
    /\ written = {}
    /\ failed = {}
    /\ kills = 0

\* What a checkpoint lists.  One that is not there or cannot be read lists nothing,
\* and the run begins anew.
Listed(file) == IF file.kind = "whole" THEN file.listed ELSE {}

\* A fault: the seeds of a run that is resumed are taken to be dealt with.
NoneIfResumed(listed) == IF listed = {} THEN Seeds ELSE {}

\* filter_remaining.
Remaining(listed) == Seeds \ listed

\* A run is given the same file to resume from and to save to.
Start ==
    /\ phase \in {"idle", "ended"}
    /\ analyzed' = Listed(checkpoint)
    /\ remaining' = Remaining(Listed(checkpoint))
    /\ hand' = {}
    /\ idx' = 0
    /\ gaveTests' = FALSE
    /\ phase' = "analyze"
    /\ UNCHANGED <<checkpoint, written, failed, kills>>

\* The run goes on with the next seed.
Advance ==
    /\ hand' = {}
    /\ idx' = idx + 1
    /\ phase' = "analyze"

\* A fault: the run saves once.
SaveOnce == idx + 1 = SAVE_INTERVAL

SaveIsDue == (idx + 1) % SAVE_INTERVAL = 0

\* A seed whose files are missing, or that cannot be run, counts as analyzed; there
\* is nothing of it to be saved, even if a save is due.
AnalysisFails(seed) ==
    /\ phase = "analyze"
    /\ seed \in remaining
    /\ remaining' = remaining \ {seed}
    /\ analyzed' = analyzed \cup {seed}
    /\ failed' = failed \cup {seed}
    /\ Advance
    /\ UNCHANGED <<gaveTests, checkpoint, written, kills>>

\* The seed counts as analyzed, and is saved as such, before its mutations are made.
AnalysisSucceeds(seed) ==
    /\ phase = "analyze"
    /\ seed \in remaining
    /\ remaining' = remaining \ {seed}
    /\ hand' = {seed}
    /\ analyzed' = analyzed \cup {seed}
    /\ failed' = failed \ {seed}
    /\ phase' = IF SaveIsDue THEN "save" ELSE "generate"
    /\ UNCHANGED <<idx, gaveTests, checkpoint, written, kills>>

\* The mutations of the seed at hand are written: none, if nothing constrains them.
Generate ==
    /\ phase = "generate"
    /\ gaveTests' \in {gaveTests, TRUE}
    /\ written' = written \cup hand
    /\ Advance
    /\ UNCHANGED <<remaining, analyzed, checkpoint, failed, kills>>

\* A save opens the file itself, which cuts it short, and writes it.
OpenCheckpoint ==
    /\ phase = "save"
    /\ checkpoint' = File("torn", {})
    /\ phase' = "write"
    /\ UNCHANGED <<remaining, hand, idx, analyzed, gaveTests, written, failed, kills>>

\* A fault: all seeds are listed that were selected.
SaveAll == File("whole", Seeds)

Saved == File("whole", analyzed)

\* A save within the loop goes on with the seed; after the last one the program ends.
AfterSave == IF hand = {} THEN "ended" ELSE "generate"

WriteCheckpoint ==
    /\ phase = "write"
    /\ checkpoint' = Saved
    /\ phase' = AfterSave
    /\ UNCHANGED <<remaining, hand, idx, analyzed, gaveTests, written, failed, kills>>

\* All seeds are dealt with.  A run that gave no test does not save what it analyzed.
Finish ==
    /\ phase = "analyze"
    /\ remaining = {}
    /\ phase' = IF gaveTests THEN "save" ELSE "ended"
    /\ UNCHANGED <<remaining, hand, idx, analyzed, gaveTests, checkpoint, written, failed, kills>>

\* The program is killed, or an exception stops it.
Killed ==
    /\ phase \in {"analyze", "generate", "save", "write"}
    /\ kills < MaxKills
    /\ kills' = kills + 1
    /\ hand' = {}
    /\ phase' = "idle"
    /\ UNCHANGED <<remaining, idx, analyzed, gaveTests, checkpoint, written, failed>>

Program ==
    \/ Start
    \/ \E seed \in Seeds : AnalysisFails(seed) \/ AnalysisSucceeds(seed)
    \/ Generate \/ OpenCheckpoint \/ WriteCheckpoint \/ Finish

Next == Program \/ Killed

\* The program goes on, and one that was killed is resumed.
Spec == Init /\ [][Next]_vars /\ WF_vars(Program)

-----------------------------------------------------------------------------
(* Properties *)

\* Types; a seed is in hand when mutations are made.
TypeOK ==
    /\ phase \in {"idle", "analyze", "save", "write", "generate", "ended"}
    /\ remaining \in SUBSET Seeds
    /\ hand \in SUBSET Seeds
    /\ phase = "generate" => \E seed \in Seeds : hand = {seed}
    /\ idx \in Nat
    /\ analyzed \in SUBSET Seeds
    /\ gaveTests \in BOOLEAN
    /\ checkpoint \in [kind : {"absent", "torn", "whole"}, listed : SUBSET Seeds]
    /\ written \in SUBSET Seeds
    /\ failed \in SUBSET Seeds
    /\ kills \in 0..MaxKills

\* The seeds that no later run will take up, though they were never dealt with.
Lost == Listed(checkpoint) \ (written \cup failed \cup hand)

\* Every kill loses the mutations of one seed at most, however often a campaign is
\* resumed and wherever it was killed.
LossBounded == Cardinality(Lost) <= kills

\* What a kill makes the next run repeat is less than an interval, an interval when
\* a save is due, and an interval more for each analysis that failed, since a save
\* that is due then is left out.  The exception is a kill within the save, in phase
\* "write": the file is empty by then, and the next run repeats everything.
RepeatsLittle ==
    LET repeated == analyzed \ Listed(checkpoint')
        bound    == SAVE_INTERVAL * (1 + Cardinality(repeated \cap failed))
    IN  /\ phase \in {"analyze", "generate"} => Cardinality(repeated) < bound
        /\ phase = "save" => Cardinality(repeated) <= bound

RepeatBounded == [][kills' # kills => RepeatsLittle]_vars

\* In the end every seed was dealt with, but for those that were lost.
CampaignEnds == <>[](\A s \in Seeds : s \in written \cup failed \cup Listed(checkpoint))
=============================================================================
