------------------------------ MODULE Finality ------------------------------
(***************************************************************************)
(* Justification and finalization of the beacon chain, as the epoch        *)
(* transition of spec/spec_deneb computes it, run on several chains that   *)
(* fork from one another.                                                  *)
(*                                                                         *)
(* One chain is the part of beaconState that the finality gadget reads and *)
(* writes.  The unit of time is the epoch: a step of a chain either        *)
(* includes an attestation that earns the timely-target flag, slashes a    *)
(* validator, or runs ProcessEpoch at the last slot of the epoch.  Fork    *)
(* starts a second chain from the state of a first one; from then on their *)
(* blocks, and so their checkpoint roots, are different.                   *)
(*                                                                         *)
(* Balances are counted in units of EFFECTIVE_BALANCE_INCREMENT, and the   *)
(* validators are active throughout.                                       *)
(***************************************************************************)
EXTENDS Integers, FiniteSets

CONSTANTS
    Chains,             \* names of the chains
    Trunk,              \* the chain that exists at genesis
    Validators,         \* the active validators
    EffectiveBalance,   \* their effective balances, in increments
    MaySlash,           \* the validators the environment may slash
    EmptyEpochs,        \* epochs whose start may have no block since the last
    MaxEpoch,           \* bound: no step beyond this epoch
    UINT64_MAX          \* the largest uint64

ASSUME FinalityAssumption ==
    /\ Trunk \in Chains
    /\ IsFiniteSet(Validators)
    /\ EffectiveBalance \in [Validators -> Nat]
    /\ MaySlash \subseteq Validators
    /\ EmptyEpochs \subseteq Nat
    /\ MaxEpoch \in Nat
    /\ UINT64_MAX \in Nat

VARIABLES
    chain,              \* chain[c]: the finality part of the state of chain c
    live                \* the chains that exist

vars == <<chain, live>>

GENESIS_EPOCH == 0
JUSTIFICATION_BITS_LENGTH == 4

(***************************************************************************)
(* A block root is identified by the first epoch it is the checkpoint of   *)
(* and the chain it was made in: a collision-free hash.                    *)
(***************************************************************************)
Roots == Nat \X Chains
Checkpoints == [epoch : Nat, root : Roots]
GenesisCheckpoint == [epoch |-> GENESIS_EPOCH, root |-> <<GENESIS_EPOCH, Trunk>>]
Votes == [validator : Validators, source : Checkpoints, target : Checkpoints]
Links == [source : Checkpoints, target : Checkpoints]

(***************************************************************************)
(* The fields of beaconState that justification reads and writes, and two  *)
(* history fields: the votes included so far, and the supermajority links  *)
(* they were found to form.                                                *)
(***************************************************************************)
ChainStates ==
    [ epoch              : Nat,
      bits               : [0..JUSTIFICATION_BITS_LENGTH - 1 -> BOOLEAN],
      previous_justified : Checkpoints,
      current_justified  : Checkpoints,
      finalized          : Checkpoints,
      previous_target    : SUBSET Validators,
      current_target     : SUBSET Validators,
      slashed            : SUBSET Validators,
      roots              : [0..MaxEpoch -> Roots],
      votes              : SUBSET Votes,
      links              : SUBSET Links ]

-----------------------------------------------------------------------------
(* Balances *)

\* A validator of effective balance n owns n units, so that the sum of the
\* effective balances of a set of validators is the number of their units.
Units(vids) == UNION {{v} \X (1..EffectiveBalance[v]) : v \in vids}

AtLeastOneIncrement(sum) == IF sum = 0 THEN 1 ELSE sum

\* get_total_balance never returns less than one increment.
get_total_balance(vids) == AtLeastOneIncrement(Cardinality(Units(vids)))

get_total_active_balance == get_total_balance(Validators)

\* With one increment in all, the floor of get_total_balance makes the empty
\* set of voters a supermajority.
ASSUME TwoIncrementsAssumption == Cardinality(Units(Validators)) >= 2

-----------------------------------------------------------------------------
(* Reading the state s of one chain *)

get_previous_epoch(s) ==
    IF s.epoch = GENESIS_EPOCH THEN GENESIS_EPOCH ELSE s.epoch - 1

\* A fault for the runs to find: get_block_root reads one epoch too early.
StaleCheckpointAt(s, epoch) ==
    [epoch |-> epoch, root |-> s.roots[IF epoch = 0 THEN 0 ELSE epoch - 1]]

CheckpointAt(s, epoch) == [epoch |-> epoch, root |-> s.roots[epoch]]

PreviousTargetVoters(s) == s.previous_target \ s.slashed
CurrentTargetVoters(s) == s.current_target \ s.slashed

SupermajorityOf(balance) == balance * 3 >= get_total_active_balance * 2

JustifiesPrevious(s) == SupermajorityOf(get_total_balance(PreviousTargetVoters(s)))
JustifiesCurrent(s) == SupermajorityOf(get_total_balance(CurrentTargetVoters(s)))

\* The links that the votes counted for a target form.
LinksFor(s, voters, target) ==
    {[source |-> x.source, target |-> target] :
        x \in {y \in s.votes : y.target = target /\ y.validator \in voters}}

PreviousLinks(s) ==
    IF JustifiesPrevious(s)
    THEN LinksFor(s, PreviousTargetVoters(s), CheckpointAt(s, get_previous_epoch(s)))
    ELSE {}

CurrentLinks(s) ==
    IF JustifiesCurrent(s)
    THEN LinksFor(s, CurrentTargetVoters(s), CheckpointAt(s, s.epoch))
    ELSE {}

-----------------------------------------------------------------------------
(* WeighJustificationAndFinalization *)

\* A fault: the list of bits grows.
GrowingBits(s) ==
    [i \in 0..JUSTIFICATION_BITS_LENGTH |->
        IF i = 0 THEN JustifiesCurrent(s) ELSE s.bits[i - 1]]

ShiftedBits(s) ==
    [i \in 0..JUSTIFICATION_BITS_LENGTH - 1 |->
        IF i = 0 THEN JustifiesCurrent(s)
        ELSE s.bits[i - 1] \/ (i = 1 /\ JustifiesPrevious(s))]

NewCurrentJustified(s) ==
    IF JustifiesCurrent(s) THEN CheckpointAt(s, s.epoch)
    ELSE IF JustifiesPrevious(s) THEN CheckpointAt(s, get_previous_epoch(s))
    ELSE s.current_justified

\* The old current justified checkpoint is the source of votes that justify
\* the current epoch, one or two epochs later.
FinalizesCurrent(s, bits) ==
    \/ bits[0] /\ bits[1] /\ bits[2] /\ s.epoch = s.current_justified.epoch + 2
    \/ bits[0] /\ bits[1] /\ s.epoch = s.current_justified.epoch + 1

\* A fault: the rule over three epochs is forgotten.
FinalizesPreviousOverTwo(s, bits) ==
    bits[1] /\ bits[2] /\ s.epoch = s.previous_justified.epoch + 2

\* The old previous justified checkpoint is the source of votes that justify
\* the previous epoch, one or two epochs later.
FinalizesPrevious(s, bits) ==
    \/ bits[1] /\ bits[2] /\ bits[3] /\ s.epoch = s.previous_justified.epoch + 3
    \/ bits[1] /\ bits[2] /\ s.epoch = s.previous_justified.epoch + 2

NewFinalized(s, bits) ==
    IF FinalizesCurrent(s, bits) THEN s.current_justified
    ELSE IF FinalizesPrevious(s, bits) THEN s.previous_justified
    ELSE s.finalized

\* The inserted overflow checks: the transition is undefined where they fail.
WeighDefined(s, bits) ==
    /\ get_total_balance(PreviousTargetVoters(s)) <= UINT64_MAX \div 3
    /\ get_total_balance(CurrentTargetVoters(s)) <= UINT64_MAX \div 3
    /\ get_total_active_balance <= UINT64_MAX \div 2
    /\ (bits[1] /\ bits[2] /\ bits[3]) => s.previous_justified.epoch <= UINT64_MAX - 3
    /\ (bits[1] /\ bits[2]) => s.previous_justified.epoch <= UINT64_MAX - 2
    /\ (bits[0] /\ bits[1] /\ bits[2]) => s.current_justified.epoch <= UINT64_MAX - 2
    /\ (bits[0] /\ bits[1]) => s.current_justified.epoch <= UINT64_MAX - 1

\* A fault: the previous justified checkpoint is left behind.
WeighWithoutPrevious(s) ==
    [s EXCEPT
        !.bits = ShiftedBits(s),
        !.current_justified = NewCurrentJustified(s),
        !.finalized = NewFinalized(s, ShiftedBits(s))]

WeighJustificationAndFinalization(s) ==
    [s EXCEPT
        !.bits = ShiftedBits(s),
        !.previous_justified = s.current_justified,
        !.current_justified = NewCurrentJustified(s),
        !.finalized = NewFinalized(s, ShiftedBits(s)),
        !.links = s.links \cup PreviousLinks(s) \cup CurrentLinks(s)]

SkipsJustification(s) == s.epoch <= GENESIS_EPOCH + 1

ProcessJustificationAndFinalization(s) ==
    IF SkipsJustification(s) THEN s ELSE WeighJustificationAndFinalization(s)

\* A fault: the flags of the current epoch are not reset.
AdvanceKeepingFlags(s, root) ==
    [s EXCEPT
        !.previous_target = s.current_target,
        !.epoch = s.epoch + 1,
        !.roots = [@ EXCEPT ![s.epoch + 1] = root]]

\* ProcessParticipationFlagUpdates, then the first slot of the next epoch.
AdvanceEpoch(s, root) ==
    [s EXCEPT
        !.previous_target = s.current_target,
        !.current_target = {},
        !.epoch = s.epoch + 1,
        !.roots = [@ EXCEPT ![s.epoch + 1] = root]]

\* The roots the checkpoint of the next epoch of c can have: that of a new
\* block, or that of the last checkpoint when no block followed it.
NextRoots(c, s) ==
    {<<s.epoch + 1, c>>} \cup (IF s.epoch \in EmptyEpochs THEN {s.roots[s.epoch]} ELSE {})

-----------------------------------------------------------------------------
(* Actions *)

Init ==
    /\ live = {Trunk}
    /\ chain = [c \in Chains |->
         [ epoch              |-> GENESIS_EPOCH,
           bits               |-> [i \in 0..JUSTIFICATION_BITS_LENGTH - 1 |-> FALSE],
           previous_justified |-> GenesisCheckpoint,
           current_justified  |-> GenesisCheckpoint,
           finalized          |-> GenesisCheckpoint,
           previous_target    |-> {},
           current_target     |-> {},
           slashed            |-> {},
           roots              |-> [e \in 0..MaxEpoch |-> GenesisCheckpoint.root],
           votes              |-> {},
           links              |-> {} ]]

\* The source an attestation for this target epoch must name.
JustifiedSource(s, epoch) ==
    IF epoch = s.epoch THEN s.current_justified ELSE s.previous_justified

VoteFor(s, v, epoch) ==
    [validator |-> v, source |-> JustifiedSource(s, epoch), target |-> CheckpointAt(s, epoch)]

\* ProcessAttestation/current_epoch with the timely-target flag: the target is
\* the checkpoint of the current epoch, the source the current justified one.
IncludeCurrent(c, v) ==
    /\ c \in live
    /\ v \notin chain[c].current_target
    /\ chain' = [chain EXCEPT
         ![c].current_target = @ \cup {v},
         ![c].votes = @ \cup {VoteFor(chain[c], v, chain[c].epoch)}]
    /\ UNCHANGED live

\* ProcessAttestation/previous_epoch: the target is the checkpoint of the
\* previous epoch, the source the previous justified checkpoint.  In the
\* genesis epoch both rules match and current_epoch, the first one, is taken.
IncludePrevious(c, v) ==
    /\ c \in live
    /\ chain[c].epoch # GENESIS_EPOCH
    /\ v \notin chain[c].previous_target
    /\ chain' = [chain EXCEPT
         ![c].previous_target = @ \cup {v},
         ![c].votes = @ \cup {VoteFor(chain[c], v, get_previous_epoch(chain[c]))}]
    /\ UNCHANGED live

\* SlashValidator: from here on the validator's flags do not count.
SlashValidator(c, v) ==
    /\ c \in live
    /\ v \in MaySlash \ chain[c].slashed
    /\ chain' = [chain EXCEPT ![c].slashed = @ \cup {v}]
    /\ UNCHANGED live

\* The steps of ProcessEpoch that touch this part of the state.
ProcessEpoch(c) ==
    /\ c \in live
    /\ chain[c].epoch < MaxEpoch
    /\ SkipsJustification(chain[c]) \/ WeighDefined(chain[c], ShiftedBits(chain[c]))
    /\ \E root \in NextRoots(c, chain[c]) :
         chain' = [chain EXCEPT
           ![c] = AdvanceEpoch(ProcessJustificationAndFinalization(@), root)]
    /\ UNCHANGED live

\* A block of chain d is built on the head of chain c.
Fork(c, d) ==
    /\ c \in live
    /\ d \notin live
    /\ live' = live \cup {d}
    /\ chain' = [chain EXCEPT ![d] = chain[c]]

Next ==
    \/ \E c \in Chains, v \in Validators :
         IncludeCurrent(c, v) \/ IncludePrevious(c, v) \/ SlashValidator(c, v)
    \/ \E c \in Chains : ProcessEpoch(c)
    \/ \E c, d \in Chains : Fork(c, d)

Spec == Init /\ [][Next]_vars

-----------------------------------------------------------------------------
(* Properties *)

\* The type invariant.
TypeOK ==
    /\ chain \in [Chains -> ChainStates]
    /\ live \subseteq Chains

\* get_finality_delay, which ProcessEpoch calls right after the weighing of an
\* epoch with that epoch still the current one, is defined: the underflow
\* check inserted there never halts the chain.
FinalityDelayDefined ==
    \A c \in live :
        chain[c].epoch >= 2 => chain[c].finalized.epoch <= chain[c].epoch - 2

\* The finalized, previous justified and current justified checkpoints are in
\* this order, and lie in epochs that have been weighed; and the delay of
\* finality is defined.
CheckpointOrder ==
    /\ \A c \in live :
        /\ chain[c].finalized.epoch <= chain[c].previous_justified.epoch
        /\ chain[c].previous_justified.epoch <= chain[c].current_justified.epoch
        /\ chain[c].epoch > GENESIS_EPOCH
             => chain[c].current_justified.epoch < chain[c].epoch
    /\ FinalityDelayDefined

JustifiedIn(s) == {GenesisCheckpoint} \cup {l.target : l \in s.links}

\* The i-th justification bit says whether the i-th last weighed epoch has ever
\* been justified, on time or through late attestations.
BitsAgree ==
    \A c \in live : \A i \in 0..JUSTIFICATION_BITS_LENGTH - 1 :
        chain[c].bits[i] <=> \E l \in chain[c].links : l.target.epoch = chain[c].epoch - 1 - i

\* Every link goes forward from a justified checkpoint, no checkpoint is the
\* target of two links, and the votes of two thirds of the balance carry it:
\* flags left over from another epoch or another source are never counted.
LinksBackedByVotes ==
    \A c \in live : \A l \in chain[c].links :
        /\ l.source.epoch < l.target.epoch
        /\ l.source \in JustifiedIn(chain[c])
        /\ \A m \in chain[c].links : m.target.epoch = l.target.epoch => m = l
        /\ LET supporters == {v \in Validators :
                 [validator |-> v, source |-> l.source, target |-> l.target] \in chain[c].votes}
           IN  SupermajorityOf(Cardinality(Units(supporters)))

\* The bits and the links are two records of the same justifications, and each of
\* them is backed by the votes of two thirds.
JustificationSound == BitsAgree /\ LinksBackedByVotes

\* A justified checkpoint is final by definition when a link joins it to the
\* next epoch, or to the one after that over a justified epoch.
SupportsFinality(s, l) ==
    \/ l.target.epoch = l.source.epoch + 1
    \/ /\ l.target.epoch = l.source.epoch + 2
       /\ CheckpointAt(s, l.source.epoch + 1) \in JustifiedIn(s)

\* The four bit rules compute that definition: the finalized checkpoint is
\* supported by a link, and no later checkpoint is.
FinalizedIsLatestSupported ==
    \A c \in live :
        /\ \/ chain[c].finalized = GenesisCheckpoint
           \/ \E l \in chain[c].links :
                l.source = chain[c].finalized /\ SupportsFinality(chain[c], l)
        /\ \A l \in chain[c].links :
             SupportsFinality(chain[c], l) => l.source.epoch <= chain[c].finalized.epoch

OnChain(s, checkpoint) == s.roots[checkpoint.epoch] = checkpoint.root

\* The finalized checkpoint of a chain never goes back, and stays on the chain.
FinalityMonotone ==
    [][\A c \in live :
        /\ chain'[c].finalized.epoch >= chain[c].finalized.epoch
        /\ OnChain(chain'[c], chain'[c].finalized)
        /\ OnChain(chain'[c], chain[c].finalized)]_vars

\* Two finalized checkpoints conflict when the later chain does not contain
\* the earlier of them.
Conflicting(c, d) ==
    /\ chain[c].finalized.epoch <= chain[d].finalized.epoch
    /\ ~OnChain(chain[d], chain[c].finalized)

\* A fault: surrounding votes are not punished.
OnlyDoubleVotes(x, y) == x # y /\ x.target.epoch = y.target.epoch

\* is_slashable_attestation_data: a double vote or a surrounding vote.
is_slashable_attestation_data(x, y) ==
    \/ x # y /\ x.target.epoch = y.target.epoch
    \/ x.source.epoch < y.source.epoch /\ y.target.epoch < x.target.epoch

Offenders(c, d) ==
    {v \in Validators :
        \E x, y \in {z \in chain[c].votes \cup chain[d].votes : z.validator = v} :
            is_slashable_attestation_data(x, y)}

\* When two chains finalize conflicting checkpoints, validators with a third
\* of the balance have signed votes ProcessAttesterSlashing punishes.
AccountableSafety ==
    \A c, d \in live :
        Conflicting(c, d)
          => Cardinality(Units(Offenders(c, d))) * 3 >= get_total_active_balance
=============================================================================
