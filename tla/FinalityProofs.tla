--------------------------- MODULE FinalityProofs ---------------------------
(***************************************************************************)
(* Proofs about Finality, for any validators, balances, number of chains   *)
(* and number of epochs.                                                   *)
(*                                                                         *)
(* The inductive invariant IInv says of each chain that its three          *)
(* checkpoints are ordered, lie in weighed epochs and are on the chain.    *)
(* AInv adds the account of how they came to be: which votes the flags     *)
(* stand for, which links the votes formed, which bits the links set       *)
(* (Accounted), and how the checkpoint roots of several chains are related *)
(* (RootsMade).  From it follows that the finalized checkpoint is the      *)
(* latest that the links support, and accountable safety.                  *)
(*                                                                         *)
(* Every step changes one chain only, so that the proofs are about the     *)
(* functions that map the state of a chain to the next: the lemmas below   *)
(* state what each preserves, and Moves collects it for Next.              *)
(***************************************************************************)
EXTENDS Finality, FiniteSetTheorems, TLAPS

\* What the proofs maintain of the state s of a live chain.
Ordered(s) ==
    /\ s.finalized.epoch <= s.previous_justified.epoch
    /\ s.previous_justified.epoch <= s.current_justified.epoch
    /\ s.epoch > GENESIS_EPOCH => s.current_justified.epoch < s.epoch
    /\ s.epoch = GENESIS_EPOCH => s.current_justified.epoch = GENESIS_EPOCH

Delayed(s) == s.epoch >= 2 => s.finalized.epoch <= s.epoch - 2

Anchored(s) ==
    /\ OnChain(s, s.finalized)
    /\ OnChain(s, s.previous_justified)
    /\ OnChain(s, s.current_justified)

Sound(s) == s.epoch <= MaxEpoch /\ Ordered(s) /\ Delayed(s) /\ Anchored(s)

IInv == TypeOK /\ \A c \in live : Sound(chain[c])

-----------------------------------------------------------------------------
(* One chain *)

\* The checkpoint of an epoch up to the bound is a checkpoint of the chain.
LEMMA CheckpointAtType ==
    ASSUME NEW s \in ChainStates, NEW e \in 0..MaxEpoch
    PROVE  CheckpointAt(s, e) \in Checkpoints /\ OnChain(s, CheckpointAt(s, e))
BY FinalityAssumption DEF ChainStates, CheckpointAt, Checkpoints, OnChain

LEMMA PreviousEpochType ==
    ASSUME NEW s \in ChainStates, s.epoch <= MaxEpoch
    PROVE  /\ get_previous_epoch(s) \in 0..MaxEpoch
           /\ s.epoch # GENESIS_EPOCH => get_previous_epoch(s) = s.epoch - 1
BY FinalityAssumption DEF ChainStates, get_previous_epoch, GENESIS_EPOCH

\* Counted votes form links.
LEMMA LinksForType ==
    ASSUME NEW s \in ChainStates, NEW voters, NEW t \in Checkpoints
    PROVE  LinksFor(s, voters, t) \subseteq Links
BY DEF ChainStates, LinksFor, Votes, Links

\* The choices of the weighing: which checkpoint becomes justified, and which
\* becomes final.
LEMMA NewCurrentJustifiedCases ==
    ASSUME NEW s
    PROVE  NewCurrentJustified(s) \in
             {CheckpointAt(s, s.epoch), CheckpointAt(s, get_previous_epoch(s)),
              s.current_justified}
BY DEF NewCurrentJustified

LEMMA NewFinalizedCases ==
    ASSUME NEW s, NEW bits
    PROVE  NewFinalized(s, bits) \in {s.current_justified, s.previous_justified, s.finalized}
BY DEF NewFinalized

LEMMA NewCurrentJustifiedType ==
    ASSUME NEW s \in ChainStates, s.epoch <= MaxEpoch
    PROVE  NewCurrentJustified(s) \in Checkpoints
<1>1. s.epoch \in 0..MaxEpoch
  BY FinalityAssumption DEF ChainStates
<1>2. /\ CheckpointAt(s, s.epoch) \in Checkpoints
      /\ CheckpointAt(s, get_previous_epoch(s)) \in Checkpoints
  BY <1>1, CheckpointAtType, PreviousEpochType
<1>3. s.current_justified \in Checkpoints
  BY DEF ChainStates
<1> QED
  BY <1>2, <1>3, NewCurrentJustifiedCases

LEMMA ShiftedBitsType ==
    ASSUME NEW s \in ChainStates
    PROVE  ShiftedBits(s) \in [0..JUSTIFICATION_BITS_LENGTH - 1 -> BOOLEAN]
<1>1. SUFFICES ASSUME NEW i \in 0..JUSTIFICATION_BITS_LENGTH - 1
               PROVE  (IF i = 0 THEN JustifiesCurrent(s)
                       ELSE s.bits[i - 1] \/ (i = 1 /\ JustifiesPrevious(s))) \in BOOLEAN
  BY DEF ShiftedBits
<1>2. JustifiesCurrent(s) \in BOOLEAN
  BY DEF JustifiesCurrent, SupermajorityOf
<1> QED
  BY <1>2

LEMMA WeighType ==
    ASSUME NEW s \in ChainStates, s.epoch <= MaxEpoch
    PROVE  WeighJustificationAndFinalization(s) \in ChainStates
<1>1. NewCurrentJustified(s) \in Checkpoints
  BY NewCurrentJustifiedType
<1>2. NewFinalized(s, ShiftedBits(s)) \in Checkpoints
  BY NewFinalizedCases DEF ChainStates
<1>3. ShiftedBits(s) \in [0..JUSTIFICATION_BITS_LENGTH - 1 -> BOOLEAN]
  BY ShiftedBitsType
<1>4. /\ CheckpointAt(s, s.epoch) \in Checkpoints
      /\ CheckpointAt(s, get_previous_epoch(s)) \in Checkpoints
  <2>1. s.epoch \in 0..MaxEpoch /\ get_previous_epoch(s) \in 0..MaxEpoch
    BY PreviousEpochType, FinalityAssumption DEF ChainStates
  <2> QED  BY <2>1, CheckpointAtType
<1>5. /\ LinksFor(s, PreviousTargetVoters(s), CheckpointAt(s, get_previous_epoch(s)))
           \subseteq Links
      /\ LinksFor(s, CurrentTargetVoters(s), CheckpointAt(s, s.epoch)) \subseteq Links
  BY <1>4, LinksForType
<1>6. s.links \cup PreviousLinks(s) \cup CurrentLinks(s) \in SUBSET Links
  BY <1>5 DEF ChainStates, PreviousLinks, CurrentLinks
<1> QED
  BY <1>1, <1>2, <1>3, <1>6 DEF WeighJustificationAndFinalization, ChainStates

LEMMA ProcessJustificationType ==
    ASSUME NEW s \in ChainStates, s.epoch <= MaxEpoch
    PROVE  /\ ProcessJustificationAndFinalization(s) \in ChainStates
           /\ ProcessJustificationAndFinalization(s).epoch = s.epoch
           /\ ProcessJustificationAndFinalization(s).roots = s.roots
BY WeighType DEF ProcessJustificationAndFinalization, WeighJustificationAndFinalization,
                 ChainStates

LEMMA NextRootsType ==
    ASSUME NEW s \in ChainStates, NEW c \in Chains, s.epoch <= MaxEpoch
    PROVE  NextRoots(c, s) \subseteq Roots
BY FinalityAssumption DEF NextRoots, ChainStates, Roots

LEMMA AdvanceType ==
    ASSUME NEW s \in ChainStates, NEW root \in Roots
    PROVE  /\ AdvanceEpoch(s, root) \in ChainStates
           /\ \A e \in 0..s.epoch :
                e <= MaxEpoch => AdvanceEpoch(s, root).roots[e] = s.roots[e]
           /\ s.epoch < MaxEpoch => AdvanceEpoch(s, root).roots[s.epoch + 1] = root
<1>1. s.roots \in [0..MaxEpoch -> Roots] /\ s.epoch \in Nat /\ s.epoch + 1 \in Nat
  BY DEF ChainStates
<1> DEFINE roots == [s.roots EXCEPT ![s.epoch + 1] = root]
<1>2. roots \in [0..MaxEpoch -> Roots]
  BY <1>1
<1>3. \A e \in 0..s.epoch : e <= MaxEpoch => roots[e] = s.roots[e]
  BY <1>1, FinalityAssumption
<1>6. s.epoch < MaxEpoch => roots[s.epoch + 1] = root
  BY <1>1, FinalityAssumption
<1>4. AdvanceEpoch(s, root) \in ChainStates
  BY <1>1, <1>2 DEF AdvanceEpoch, ChainStates
<1>5. AdvanceEpoch(s, root).roots = roots
  BY DEF AdvanceEpoch, ChainStates
<1> QED
  BY <1>3, <1>4, <1>5, <1>6

-----------------------------------------------------------------------------
(* Order and position of the checkpoints *)

\* The weighing of an epoch after the first two keeps the order, and leaves
\* the finalized checkpoint at least one epoch behind the current one.
LEMMA WeighOrdered ==
    ASSUME NEW s \in ChainStates, Sound(s), ~SkipsJustification(s),
           NEW t, t = WeighJustificationAndFinalization(s)
    PROVE  /\ t.finalized.epoch <= t.previous_justified.epoch
           /\ t.previous_justified.epoch <= t.current_justified.epoch
           /\ t.current_justified.epoch <= s.epoch
           /\ t.finalized.epoch <= s.epoch - 1
           /\ t.finalized.epoch >= s.finalized.epoch
           /\ Anchored(t)
<1>1. /\ t.finalized = NewFinalized(s, ShiftedBits(s))
      /\ t.previous_justified = s.current_justified
      /\ t.current_justified = NewCurrentJustified(s)
      /\ t.roots = s.roots
  BY DEF WeighJustificationAndFinalization, ChainStates
<1>2. /\ s.epoch \in 2..MaxEpoch
      /\ s.finalized \in Checkpoints
      /\ s.previous_justified \in Checkpoints
      /\ s.current_justified \in Checkpoints
  BY FinalityAssumption DEF ChainStates, Sound, SkipsJustification, GENESIS_EPOCH
<1>3. /\ get_previous_epoch(s) = s.epoch - 1
      /\ CheckpointAt(s, s.epoch).epoch = s.epoch
      /\ CheckpointAt(s, get_previous_epoch(s)).epoch = s.epoch - 1
  BY <1>2 DEF CheckpointAt, get_previous_epoch, GENESIS_EPOCH
<1>4. /\ s.finalized.epoch <= s.previous_justified.epoch
      /\ s.previous_justified.epoch <= s.current_justified.epoch
      /\ s.current_justified.epoch <= s.epoch - 1
  BY <1>2 DEF Sound, Ordered, Checkpoints, GENESIS_EPOCH
<1>5. /\ t.current_justified.epoch \in {s.epoch, s.epoch - 1, s.current_justified.epoch}
  BY <1>1, <1>3, NewCurrentJustifiedCases
<1>6. t.finalized \in {s.current_justified, s.previous_justified, s.finalized}
  BY <1>1, NewFinalizedCases
<1>7. Anchored(t)
  <2>1. OnChain(t, t.finalized) /\ OnChain(t, t.previous_justified)
    BY <1>1, <1>6 DEF Sound, Anchored, OnChain
  <2>2. OnChain(t, t.current_justified)
    BY <1>1, NewCurrentJustifiedCases DEF Sound, Anchored, OnChain, CheckpointAt
  <2> QED  BY <2>1, <2>2 DEF Anchored
<1> QED
  BY <1>1, <1>2, <1>4, <1>5, <1>6, <1>7 DEF Checkpoints

\* An epoch transition keeps the chain sound, and its finalized checkpoint.
LEMMA EpochSound ==
    ASSUME NEW s \in ChainStates, Sound(s), s.epoch < MaxEpoch, NEW root \in Roots,
           NEW t, t = AdvanceEpoch(ProcessJustificationAndFinalization(s), root)
    PROVE  /\ t \in ChainStates
           /\ Sound(t)
           /\ t.finalized.epoch >= s.finalized.epoch
           /\ OnChain(t, s.finalized)
<1> DEFINE w == ProcessJustificationAndFinalization(s)
<1>1. /\ w \in ChainStates
      /\ w.epoch = s.epoch
      /\ w.roots = s.roots
  BY ProcessJustificationType, FinalityAssumption DEF Sound
<1>2. t \in ChainStates /\ \A e \in 0..s.epoch : t.roots[e] = s.roots[e]
  <2> HIDE DEF w
  <2>1. t = AdvanceEpoch(w, root)
    BY DEF w
  <2>2. \A e \in 0..s.epoch : e <= MaxEpoch
    BY FinalityAssumption DEF ChainStates
  <2> QED  BY <1>1, <2>1, <2>2, AdvanceType
<1>3. /\ t.epoch = s.epoch + 1
      /\ t.finalized = w.finalized
      /\ t.previous_justified = w.previous_justified
      /\ t.current_justified = w.current_justified
  BY <1>1 DEF AdvanceEpoch, ChainStates
<1>4. /\ s.epoch \in Nat
      /\ s.finalized.epoch \in Nat
      /\ s.previous_justified.epoch \in Nat
      /\ s.current_justified.epoch \in Nat
      /\ w.finalized.epoch \in Nat
      /\ w.previous_justified.epoch \in Nat
      /\ w.current_justified.epoch \in Nat
  BY <1>1 DEF ChainStates, Checkpoints
<1>5. /\ w.finalized.epoch <= w.previous_justified.epoch
      /\ w.previous_justified.epoch <= w.current_justified.epoch
      /\ w.current_justified.epoch <= s.epoch
      /\ s.epoch >= 1 => w.finalized.epoch <= s.epoch - 1
      /\ w.finalized.epoch >= s.finalized.epoch
      /\ Anchored(w)
  <2>1. CASE SkipsJustification(s)
    BY <2>1, <1>4 DEF SkipsJustification, ProcessJustificationAndFinalization,
                      Sound, Ordered, GENESIS_EPOCH
  <2>2. CASE ~SkipsJustification(s)
    <3>1. w = WeighJustificationAndFinalization(s)
      BY <2>2 DEF ProcessJustificationAndFinalization
    <3> HIDE DEF w
    <3> QED  BY <3>1, <2>2, <1>4, WeighOrdered
  <2> QED  BY <2>1, <2>2
<1> HIDE DEF w
<1>6. Ordered(t) /\ Delayed(t) /\ t.epoch <= MaxEpoch
  BY <1>3, <1>4, <1>5, FinalityAssumption DEF Ordered, Delayed, GENESIS_EPOCH
<1>7. Anchored(t)
  BY <1>1, <1>2, <1>3, <1>4, <1>5 DEF Anchored, OnChain
<1>8. OnChain(t, s.finalized)
  BY <1>2, <1>4, <1>5 DEF OnChain, Sound, Anchored
<1> QED
  BY <1>2, <1>3, <1>5, <1>6, <1>7, <1>8 DEF Sound

\* Flags, votes and slashings do not touch what Sound speaks about.
SameCheckpoints(s, t) ==
    /\ t.epoch = s.epoch
    /\ t.roots = s.roots
    /\ t.finalized = s.finalized
    /\ t.previous_justified = s.previous_justified
    /\ t.current_justified = s.current_justified

LEMMA SameCheckpointsSound ==
    ASSUME NEW s, NEW t, SameCheckpoints(s, t), Sound(s)
    PROVE  Sound(t)
BY DEF SameCheckpoints, Sound, Ordered, Delayed, Anchored, OnChain

LEMMA VoteForType ==
    ASSUME NEW s \in ChainStates, NEW v \in Validators, NEW e \in 0..MaxEpoch
    PROVE  VoteFor(s, v, e) \in Votes
BY CheckpointAtType DEF VoteFor, Votes, JustifiedSource, ChainStates

-----------------------------------------------------------------------------
(* Balances *)

\* Finitely many validators own finitely many units.
LEMMA UnitsFinite ==
    ASSUME NEW vids \in SUBSET Validators
    PROVE  IsFiniteSet(Units(vids)) /\ Cardinality(Units(vids)) \in Nat
<1> DEFINE f == [v \in vids |-> {v} \X (1..EffectiveBalance[v])]
           S == {{v} \X (1..EffectiveBalance[v]) : v \in vids}
<1>1. IsFiniteSet(vids)
  BY FS_Subset, FinalityAssumption
<1>2. f \in Surjection(vids, S)
  BY DEF Surjection
<1>3. IsFiniteSet(S)
  BY <1>1, <1>2, FS_Surjection
<1>4. \A v \in vids : IsFiniteSet({v} \X (1..EffectiveBalance[v]))
  <2> TAKE v \in vids
  <2>1. EffectiveBalance[v] \in Nat
    BY FinalityAssumption
  <2>2. IsFiniteSet({v})
    BY FS_Singleton
  <2>3. IsFiniteSet(1..EffectiveBalance[v])
    BY <2>1, FS_Interval
  <2> QED  BY <2>2, <2>3, FS_Product
<1>5. \A T \in S : IsFiniteSet(T)
  BY <1>4
<1>6. IsFiniteSet(UNION S)
  <2> HIDE DEF S
  <2> QED  BY <1>3, <1>5, FS_UNION
<1> QED
  BY <1>6, FS_CardinalityType DEF Units

LEMMA UnitsMonotone ==
    ASSUME NEW vids \in SUBSET Validators, NEW some \in SUBSET vids
    PROVE  /\ Units(some) \subseteq Units(vids)
           /\ Cardinality(Units(some)) <= Cardinality(Units(vids))
<1>1. Units(some) \subseteq Units(vids)
  BY DEF Units
<1> QED
  BY <1>1, UnitsFinite, FS_Subset

\* The units of two sets of validators are shared where the validators are.
LEMMA UnitsOfBoth ==
    ASSUME NEW A \in SUBSET Validators, NEW B \in SUBSET Validators
    PROVE  /\ Units(A) \cap Units(B) = Units(A \cap B)
           /\ Units(A) \cup Units(B) \subseteq Units(Validators)
BY DEF Units

LEMMA TotalActiveBalance ==
    /\ get_total_active_balance = Cardinality(Units(Validators))
    /\ get_total_active_balance \in Nat
    /\ get_total_active_balance >= 2
BY UnitsFinite, TwoIncrementsAssumption
   DEF get_total_active_balance, get_total_balance, AtLeastOneIncrement

\* The floor of one increment never makes a supermajority: there are voters, and their
\* own balance is two thirds.
LEMMA VotersCarry ==
    ASSUME NEW vids \in SUBSET Validators, SupermajorityOf(get_total_balance(vids))
    PROVE  /\ vids # {}
           /\ SupermajorityOf(Cardinality(Units(vids)))
<1>1. Cardinality(Units(vids)) \in Nat
  BY UnitsFinite
<1>2. Cardinality(Units(vids)) # 0
  BY <1>1, TotalActiveBalance DEF SupermajorityOf, get_total_balance, AtLeastOneIncrement
<1>3. vids # {}
  <2>1. Units({}) = {}
    BY DEF Units
  <2> QED  BY <1>2, <2>1, FS_EmptySet
<1> QED
  BY <1>1, <1>2, <1>3 DEF SupermajorityOf, get_total_balance, AtLeastOneIncrement

LEMMA MoreCarry ==
    ASSUME NEW vids \in SUBSET Validators, NEW some \in SUBSET vids,
           SupermajorityOf(Cardinality(Units(some)))
    PROVE  SupermajorityOf(Cardinality(Units(vids)))
<1>1. some \in SUBSET Validators
  OBVIOUS
<1> QED
  BY <1>1, UnitsFinite, UnitsMonotone, TotalActiveBalance DEF SupermajorityOf

\* Two supermajorities have a third of the balance in common.
LEMMA SupermajoritiesIntersect ==
    ASSUME NEW A \in SUBSET Validators, NEW B \in SUBSET Validators,
           SupermajorityOf(Cardinality(Units(A))), SupermajorityOf(Cardinality(Units(B))),
           NEW C \in SUBSET Validators, A \cap B \subseteq C
    PROVE  Cardinality(Units(C)) * 3 >= get_total_active_balance
<1> DEFINE a == Cardinality(Units(A))
           b == Cardinality(Units(B))
           both == Cardinality(Units(A \cap B))
           either == Cardinality(Units(A) \cup Units(B))
           all == Cardinality(Units(Validators))
<1>1. /\ a \in Nat
      /\ b \in Nat
      /\ both \in Nat
      /\ all \in Nat
      /\ Cardinality(Units(C)) \in Nat
  BY UnitsFinite
<1>2. either = a + b - both
  BY UnitsFinite, UnitsOfBoth, FS_Union
<1>3. either <= all
  BY UnitsFinite, UnitsOfBoth, FS_Subset
<1>4. both <= Cardinality(Units(C))
  BY UnitsMonotone
<1>5. /\ a * 3 >= all * 2
      /\ b * 3 >= all * 2
  BY TotalActiveBalance DEF SupermajorityOf
<1>6. get_total_active_balance = all
  BY TotalActiveBalance
<1> HIDE DEF a, b, both, either, all
<1> QED
  BY <1>1, <1>2, <1>3, <1>4, <1>5, <1>6

-----------------------------------------------------------------------------
(* Votes, links and bits *)

\* Every flag that may count stands for a vote with the source and the target
\* of its epoch.
FlagsVoted(s) ==
    /\ \A v \in s.current_target : VoteFor(s, v, s.epoch) \in s.votes
    /\ s.epoch = GENESIS_EPOCH => s.previous_target = {}
    /\ s.epoch # GENESIS_EPOCH =>
         \A v \in s.previous_target : VoteFor(s, v, s.epoch - 1) \in s.votes

\* The votes for an epoch that can still be weighed have one source and one target.
VotesFollow(s) ==
    \A x \in s.votes :
        /\ x.target.epoch <= s.epoch
        /\ x.target = CheckpointAt(s, x.target.epoch)
        /\ x.target.epoch = s.epoch => x.source = s.current_justified
        /\ x.target.epoch = s.epoch - 1 => x.source = s.previous_justified

LinksFollow(s) ==
    \A l \in s.links :
        /\ l.source.epoch < l.target.epoch
        /\ l.target.epoch < s.epoch
        /\ l.target = CheckpointAt(s, l.target.epoch)
        /\ l.target.epoch = s.epoch - 1 => l.source = s.previous_justified
        /\ l.source \in JustifiedIn(s)
        /\ \A m \in s.links : m.target.epoch = l.target.epoch => m = l

Supporters(s, l) ==
    {v \in Validators :
        [validator |-> v, source |-> l.source, target |-> l.target] \in s.votes}

LinksCarried(s) ==
    \A l \in s.links : SupermajorityOf(Cardinality(Units(Supporters(s, l))))

BitsSay(s) ==
    \A i \in 0..JUSTIFICATION_BITS_LENGTH - 1 :
        s.bits[i] <=> \E l \in s.links : l.target.epoch = s.epoch - 1 - i

\* The checkpoints that votes may name as their source are justified, and
\* nothing but the genesis checkpoint is before the first weighing.
SourcesJustified(s) ==
    /\ s.roots[GENESIS_EPOCH] = GenesisCheckpoint.root
    /\ s.previous_justified \in JustifiedIn(s)
    /\ s.current_justified \in JustifiedIn(s)
    /\ s.epoch > GENESIS_EPOCH + 1 => s.previous_justified.epoch < s.epoch - 1
    /\ SkipsJustification(s) =>
         /\ s.previous_justified = GenesisCheckpoint
         /\ s.current_justified = GenesisCheckpoint
         /\ s.links = {}

LatestSupported(s) ==
    /\ \/ s.finalized = GenesisCheckpoint
       \/ \E l \in s.links : l.source = s.finalized /\ SupportsFinality(s, l)
    /\ \A l \in s.links :
         SupportsFinality(s, l) => l.source.epoch <= s.finalized.epoch

Accounted(s) ==
    /\ FlagsVoted(s)
    /\ VotesFollow(s)
    /\ LinksFollow(s)
    /\ LinksCarried(s)
    /\ BitsSay(s)
    /\ SourcesJustified(s)
    /\ LatestSupported(s)

\* The one link that the weighing of each epoch can add.
PreviousLink(s) ==
    [source |-> s.previous_justified, target |-> CheckpointAt(s, s.epoch - 1)]
CurrentLink(s) == [source |-> s.current_justified, target |-> CheckpointAt(s, s.epoch)]

\* Voters whose votes name one source form one link, which their balance carries.
LEMMA OneLink ==
    ASSUME NEW s \in ChainStates, NEW voters \in SUBSET Validators,
           NEW source, NEW target,
           \A v \in voters :
              [validator |-> v, source |-> source, target |-> target] \in s.votes,
           \A x \in s.votes : x.target = target => x.source = source,
           SupermajorityOf(get_total_balance(voters))
    PROVE  /\ LinksFor(s, voters, target) = {[source |-> source, target |-> target]}
           /\ SupermajorityOf(Cardinality(Units(
                Supporters(s, [source |-> source, target |-> target]))))
<1> DEFINE link == [source |-> source, target |-> target]
<1>1. PICK v \in voters : TRUE
  BY VotersCarry
<1>2. link \in LinksFor(s, voters, target)
  <2>1. [validator |-> v, source |-> source, target |-> target] \in s.votes
    OBVIOUS
  <2> QED  BY <2>1 DEF LinksFor
<1>3. ASSUME NEW l \in LinksFor(s, voters, target) PROVE l = link
  BY DEF LinksFor
<1>4. voters \subseteq Supporters(s, link) /\ Supporters(s, link) \subseteq Validators
  BY DEF Supporters
<1>5. SupermajorityOf(Cardinality(Units(Supporters(s, link))))
  BY <1>4, VotersCarry, MoreCarry
<1> QED
  BY <1>2, <1>3, <1>5

LEMMA WeighedLinks ==
    ASSUME NEW s \in ChainStates, Sound(s), Accounted(s), ~SkipsJustification(s)
    PROVE  /\ PreviousLinks(s) = (IF JustifiesPrevious(s) THEN {PreviousLink(s)} ELSE {})
           /\ CurrentLinks(s) = (IF JustifiesCurrent(s) THEN {CurrentLink(s)} ELSE {})
           /\ \A l \in PreviousLinks(s) \cup CurrentLinks(s) :
                SupermajorityOf(Cardinality(Units(Supporters(s, l))))
<1>1. s.epoch \in 2..MaxEpoch /\ get_previous_epoch(s) = s.epoch - 1
  BY FinalityAssumption DEF ChainStates, Sound, SkipsJustification, get_previous_epoch,
                            GENESIS_EPOCH
<1>2. ASSUME JustifiesPrevious(s)
      PROVE  /\ PreviousLinks(s) = {PreviousLink(s)}
             /\ SupermajorityOf(Cardinality(Units(Supporters(s, PreviousLink(s)))))
  <2> DEFINE voters == PreviousTargetVoters(s)
             source == s.previous_justified
             target == CheckpointAt(s, s.epoch - 1)
  <2>1. voters \in SUBSET Validators
    BY DEF ChainStates, PreviousTargetVoters
  <2>2. \A v \in voters :
          [validator |-> v, source |-> source, target |-> target] \in s.votes
    BY <1>1 DEF Accounted, FlagsVoted, VoteFor, JustifiedSource, PreviousTargetVoters,
                GENESIS_EPOCH
  <2>3. \A x \in s.votes : x.target = target => x.source = source
    BY DEF Accounted, VotesFollow, CheckpointAt
  <2>4. SupermajorityOf(get_total_balance(voters))
    BY <1>2 DEF JustifiesPrevious
  <2>5. PreviousLinks(s) = LinksFor(s, voters, target)
    BY <1>1, <1>2 DEF PreviousLinks
  <2> HIDE DEF voters, source, target
  <2>6. /\ LinksFor(s, voters, target) = {[source |-> source, target |-> target]}
        /\ SupermajorityOf(Cardinality(Units(
             Supporters(s, [source |-> source, target |-> target]))))
    BY <2>1, <2>2, <2>3, <2>4, OneLink
  <2> QED  BY <2>5, <2>6 DEF PreviousLink, source, target
<1>3. ASSUME JustifiesCurrent(s)
      PROVE  /\ CurrentLinks(s) = {CurrentLink(s)}
             /\ SupermajorityOf(Cardinality(Units(Supporters(s, CurrentLink(s)))))
  <2> DEFINE voters == CurrentTargetVoters(s)
             source == s.current_justified
             target == CheckpointAt(s, s.epoch)
  <2>1. voters \in SUBSET Validators
    BY DEF ChainStates, CurrentTargetVoters
  <2>2. \A v \in voters :
          [validator |-> v, source |-> source, target |-> target] \in s.votes
    BY <1>1 DEF Accounted, FlagsVoted, VoteFor, JustifiedSource, CurrentTargetVoters
  <2>3. \A x \in s.votes : x.target = target => x.source = source
    BY DEF Accounted, VotesFollow, CheckpointAt
  <2>4. SupermajorityOf(get_total_balance(voters))
    BY <1>3 DEF JustifiesCurrent
  <2>5. CurrentLinks(s) = LinksFor(s, voters, target)
    BY <1>3 DEF CurrentLinks
  <2> HIDE DEF voters, source, target
  <2>6. /\ LinksFor(s, voters, target) = {[source |-> source, target |-> target]}
        /\ SupermajorityOf(Cardinality(Units(
             Supporters(s, [source |-> source, target |-> target]))))
    BY <2>1, <2>2, <2>3, <2>4, OneLink
  <2> QED  BY <2>5, <2>6 DEF CurrentLink, source, target
<1>4. /\ ~JustifiesPrevious(s) => PreviousLinks(s) = {}
      /\ ~JustifiesCurrent(s) => CurrentLinks(s) = {}
  BY DEF PreviousLinks, CurrentLinks
<1> QED
  BY <1>2, <1>3, <1>4

-----------------------------------------------------------------------------
(* The transition of an epoch that is weighed *)

\* What the transition makes of the state s of a chain.
Weighs(s, t) ==
    /\ t.epoch = s.epoch + 1
    /\ \A e \in 0..s.epoch : t.roots[e] = s.roots[e]
    /\ t.previous_target = s.current_target
    /\ t.current_target = {}
    /\ t.votes = s.votes
    /\ t.links = s.links \cup PreviousLinks(s) \cup CurrentLinks(s)
    /\ t.bits = ShiftedBits(s)
    /\ t.previous_justified = s.current_justified
    /\ t.current_justified = NewCurrentJustified(s)
    /\ t.finalized = NewFinalized(s, ShiftedBits(s))

Weighing(s, t) ==
    /\ s \in ChainStates
    /\ t \in ChainStates
    /\ Sound(s)
    /\ Accounted(s)
    /\ ~SkipsJustification(s)
    /\ Weighs(s, t)

LEMMA AdvanceWeighs ==
    ASSUME NEW s \in ChainStates, Sound(s), s.epoch < MaxEpoch, NEW root \in Roots,
           ~SkipsJustification(s)
    PROVE  Weighs(s, AdvanceEpoch(ProcessJustificationAndFinalization(s), root))
<1> DEFINE w == WeighJustificationAndFinalization(s)
<1>1. ProcessJustificationAndFinalization(s) = w
  BY DEF ProcessJustificationAndFinalization
<1>2. /\ w \in ChainStates
      /\ w.epoch = s.epoch
      /\ w.roots = s.roots
  BY <1>1, ProcessJustificationType DEF Sound
<1>3. /\ w.current_target = s.current_target
      /\ w.votes = s.votes
      /\ w.links = s.links \cup PreviousLinks(s) \cup CurrentLinks(s)
      /\ w.bits = ShiftedBits(s)
      /\ w.previous_justified = s.current_justified
      /\ w.current_justified = NewCurrentJustified(s)
      /\ w.finalized = NewFinalized(s, ShiftedBits(s))
  BY DEF WeighJustificationAndFinalization, ChainStates
<1> DEFINE t == AdvanceEpoch(w, root)
<1> HIDE DEF w
<1>4. \A e \in 0..s.epoch : t.roots[e] = s.roots[e]
  <2>1. \A e \in 0..s.epoch : e <= MaxEpoch
    BY FinalityAssumption DEF ChainStates
  <2> QED  BY <1>2, <2>1, AdvanceType
<1>5. /\ t.epoch = w.epoch + 1
      /\ t.previous_target = w.current_target
      /\ t.current_target = {}
      /\ t.votes = w.votes
      /\ t.links = w.links
      /\ t.bits = w.bits
      /\ t.previous_justified = w.previous_justified
      /\ t.current_justified = w.current_justified
      /\ t.finalized = w.finalized
  BY <1>2 DEF AdvanceEpoch, ChainStates
<1> HIDE DEF t
<1>6. Weighs(s, t)
  BY <1>2, <1>3, <1>4, <1>5 DEF Weighs
<1> QED
  BY <1>1, <1>6 DEF t

\* The links after the weighing, and what does not change of those before.
LEMMA WeighingLinks ==
    ASSUME NEW s, NEW t, Weighing(s, t)
    PROVE  /\ s.epoch \in Nat /\ s.epoch >= 2
           /\ \A l : l \in t.links <=>
                       \/ l \in s.links
                       \/ l = PreviousLink(s) /\ JustifiesPrevious(s)
                       \/ l = CurrentLink(s) /\ JustifiesCurrent(s)
           /\ \A e \in 0..s.epoch : CheckpointAt(t, e) = CheckpointAt(s, e)
           /\ JustifiedIn(s) \subseteq JustifiedIn(t)
           /\ JustifiesPrevious(s) => CheckpointAt(s, s.epoch - 1) \in JustifiedIn(t)
           /\ JustifiesCurrent(s) => CheckpointAt(s, s.epoch) \in JustifiedIn(t)
<1>1. s.epoch \in Nat /\ s.epoch >= 2
  BY DEF Weighing, ChainStates, SkipsJustification, GENESIS_EPOCH
<1>2. \A l : l \in t.links <=>
               \/ l \in s.links
               \/ l = PreviousLink(s) /\ JustifiesPrevious(s)
               \/ l = CurrentLink(s) /\ JustifiesCurrent(s)
  BY WeighedLinks DEF Weighing, Weighs
<1>3. \A e \in 0..s.epoch : CheckpointAt(t, e) = CheckpointAt(s, e)
  BY DEF CheckpointAt, Weighing, Weighs
<1>4. JustifiedIn(s) \subseteq JustifiedIn(t)
  BY <1>2 DEF JustifiedIn
<1>5. /\ PreviousLink(s).target = CheckpointAt(s, s.epoch - 1)
      /\ CurrentLink(s).target = CheckpointAt(s, s.epoch)
  BY DEF PreviousLink, CurrentLink
<1>6. /\ JustifiesPrevious(s) => CheckpointAt(s, s.epoch - 1) \in JustifiedIn(t)
      /\ JustifiesCurrent(s) => CheckpointAt(s, s.epoch) \in JustifiedIn(t)
  BY <1>2, <1>5 DEF JustifiedIn
<1> QED
  BY <1>1, <1>2, <1>3, <1>4, <1>6

\* The types of the records at hand.
LEMMA ChainTypes ==
    ASSUME NEW s \in ChainStates
    PROVE  /\ s.epoch \in Nat
           /\ s.finalized.epoch \in Nat
           /\ s.previous_justified.epoch \in Nat
           /\ s.current_justified.epoch \in Nat
           /\ \A l \in s.links : l \in Links /\ l.source.epoch \in Nat /\ l.target.epoch \in Nat
           /\ \A x \in s.votes : x \in Votes /\ x.source.epoch \in Nat /\ x.target.epoch \in Nat
BY DEF ChainStates, Checkpoints, Links, Votes

LEMMA WeighingFlags ==
    ASSUME NEW s, NEW t, Weighing(s, t)
    PROVE  FlagsVoted(t) /\ VotesFollow(t)
<1>1. s.epoch \in Nat /\ s.epoch >= 2
  BY WeighingLinks
<1>2. FlagsVoted(t)
  <2>1. ASSUME NEW v \in t.previous_target
        PROVE  VoteFor(t, v, t.epoch - 1) \in t.votes
    <3>1. VoteFor(s, v, s.epoch) \in s.votes
      BY DEF Weighing, Weighs, Accounted, FlagsVoted
    <3>2. t.epoch - 1 = s.epoch /\ t.epoch # s.epoch
      BY <1>1 DEF Weighing, Weighs
    <3>3. /\ JustifiedSource(t, t.epoch - 1) = s.current_justified
          /\ JustifiedSource(s, s.epoch) = s.current_justified
      BY <3>2 DEF JustifiedSource, Weighing, Weighs
    <3>4. CheckpointAt(t, t.epoch - 1) = CheckpointAt(s, s.epoch)
      BY <1>1, <3>2, WeighingLinks
    <3>5. VoteFor(t, v, t.epoch - 1) = VoteFor(s, v, s.epoch)
      BY <3>3, <3>4 DEF VoteFor
    <3> QED  BY <3>1, <3>5 DEF Weighing, Weighs
  <2>2. t.epoch # GENESIS_EPOCH /\ t.current_target = {}
    BY <1>1 DEF Weighing, Weighs, GENESIS_EPOCH
  <2> QED  BY <2>1, <2>2 DEF FlagsVoted
<1>3. VotesFollow(t)
  <2> SUFFICES ASSUME NEW x \in t.votes
               PROVE  /\ x.target.epoch <= t.epoch
                      /\ x.target = CheckpointAt(t, x.target.epoch)
                      /\ x.target.epoch = t.epoch => x.source = t.current_justified
                      /\ x.target.epoch = t.epoch - 1 => x.source = t.previous_justified
    BY DEF VotesFollow
  <2>1. /\ x.target.epoch \in Nat
        /\ x.target.epoch <= s.epoch
        /\ x.target = CheckpointAt(s, x.target.epoch)
        /\ x.target.epoch = s.epoch => x.source = s.current_justified
    BY ChainTypes DEF Weighing, Weighs, Accounted, VotesFollow
  <2>2. CheckpointAt(t, x.target.epoch) = CheckpointAt(s, x.target.epoch)
    BY <1>1, <2>1, WeighingLinks
  <2> QED  BY <1>1, <2>1, <2>2 DEF Weighing, Weighs
<1> QED
  BY <1>2, <1>3

LEMMA WeighingSources ==
    ASSUME NEW s, NEW t, Weighing(s, t)
    PROVE  SourcesJustified(t)
<1>1. s.epoch \in Nat /\ s.epoch >= 2 /\ t.epoch = s.epoch + 1
  BY WeighingLinks DEF Weighing, Weighs
<1>2. get_previous_epoch(s) = s.epoch - 1
  BY <1>1 DEF get_previous_epoch, GENESIS_EPOCH
<1>3. t.roots[GENESIS_EPOCH] = GenesisCheckpoint.root
  BY <1>1 DEF Weighing, Weighs, Accounted, SourcesJustified, GENESIS_EPOCH
<1>4. s.current_justified \in JustifiedIn(t)
  BY WeighingLinks DEF Weighing, Accounted, SourcesJustified
<1>5. NewCurrentJustified(s) \in JustifiedIn(t)
  BY <1>2, <1>4, WeighingLinks DEF NewCurrentJustified
<1>6. s.current_justified.epoch < s.epoch
  BY <1>1 DEF Weighing, Sound, Ordered, GENESIS_EPOCH
<1>7. ~SkipsJustification(t)
  BY <1>1 DEF SkipsJustification, GENESIS_EPOCH
<1> QED
  BY <1>1, <1>3, <1>4, <1>5, <1>6, <1>7 DEF SourcesJustified, Weighing, Weighs

LEMMA WeighingLinksFollow ==
    ASSUME NEW s, NEW t, Weighing(s, t)
    PROVE  LinksFollow(t) /\ LinksCarried(t)
<1> DEFINE p == PreviousLink(s)
           q == CurrentLink(s)
<1>1. /\ s.epoch \in Nat /\ s.epoch >= 2 /\ t.epoch = s.epoch + 1
      /\ s.previous_justified.epoch \in Nat
      /\ s.current_justified.epoch \in Nat
  BY WeighingLinks, ChainTypes DEF Weighing, Weighs
<1>2. /\ p.source = s.previous_justified
      /\ p.target = CheckpointAt(s, s.epoch - 1)
      /\ p.target.epoch = s.epoch - 1
      /\ q.source = s.current_justified
      /\ q.target = CheckpointAt(s, s.epoch)
      /\ q.target.epoch = s.epoch
  BY DEF PreviousLink, CurrentLink, CheckpointAt
<1>3. /\ p.source.epoch < p.target.epoch
      /\ q.source.epoch < q.target.epoch
  BY <1>1, <1>2 DEF Weighing, Accounted, SourcesJustified, Sound, Ordered, GENESIS_EPOCH
<1>4. /\ p.source \in JustifiedIn(t)
      /\ q.source \in JustifiedIn(t)
  BY <1>2, WeighingLinks DEF Weighing, Accounted, SourcesJustified
<1>5. ASSUME NEW l \in s.links
      PROVE  /\ l \in Links
             /\ l.source.epoch < l.target.epoch
             /\ l.target.epoch \in Nat
             /\ l.target.epoch < s.epoch
             /\ l.target = CheckpointAt(s, l.target.epoch)
             /\ l.target.epoch = s.epoch - 1 => l.source = s.previous_justified
             /\ l.source \in JustifiedIn(t)
             /\ \A m \in s.links : m.target.epoch = l.target.epoch => m = l
  BY ChainTypes, WeighingLinks DEF Weighing, Accounted, LinksFollow
<1>6. ASSUME NEW l \in t.links
      PROVE  l \in s.links \/ l = p \/ l = q
  BY WeighingLinks
<1>7. ASSUME NEW l \in s.links, l.target.epoch = s.epoch - 1
      PROVE  l = p
  BY <1>5, <1>7 DEF PreviousLink, Links
<1> HIDE DEF p, q
<1>8. ASSUME NEW l \in t.links
      PROVE  /\ l.source.epoch < l.target.epoch
             /\ l.target.epoch < t.epoch
             /\ l.target = CheckpointAt(t, l.target.epoch)
             /\ l.target.epoch = t.epoch - 1 => l.source = t.previous_justified
             /\ l.source \in JustifiedIn(t)
             /\ \A m \in t.links : m.target.epoch = l.target.epoch => m = l
  <2>1. /\ l.source.epoch < l.target.epoch
        /\ l.target.epoch \in 0..s.epoch
        /\ l.target = CheckpointAt(s, l.target.epoch)
        /\ l.source \in JustifiedIn(t)
    BY <1>1, <1>2, <1>3, <1>4, <1>5, <1>6
  <2>2. l.target = CheckpointAt(t, l.target.epoch)
    BY <2>1, WeighingLinks
  <2>3. l.target.epoch = s.epoch => l = q
    BY <1>1, <1>2, <1>5, <1>6
  <2>4. ASSUME NEW m \in t.links, m.target.epoch = l.target.epoch
        PROVE  m = l
    <3>1. m.target.epoch = s.epoch => m = q
      BY <1>1, <1>2, <1>5, <1>6
    <3>2. CASE l \in s.links /\ m \in s.links
      BY <2>4, <3>2, <1>5
    <3>3. CASE l.target.epoch = s.epoch
      BY <2>3, <2>4, <3>1, <3>3
    <3>4. CASE l.target.epoch = s.epoch - 1
      BY <1>1, <1>2, <1>6, <1>7, <2>4, <3>4
    <3> QED  BY <1>2, <1>6, <2>4, <3>2, <3>3, <3>4
  <2>5. t.previous_justified = s.current_justified
    BY DEF Weighing, Weighs
  <2> QED
    BY <1>1, <1>2, <2>1, <2>2, <2>3, <2>4, <2>5
<1>9. LinksFollow(t)
  BY <1>8 DEF LinksFollow
<1>10. LinksCarried(t)
  <2>1. \A l : Supporters(t, l) = Supporters(s, l)
    BY DEF Supporters, Weighing, Weighs
  <2>2. ASSUME NEW l \in t.links
        PROVE  SupermajorityOf(Cardinality(Units(Supporters(s, l))))
    <3>1. CASE l \in s.links
      BY <3>1 DEF Weighing, Accounted, LinksCarried
    <3>2. CASE l \in PreviousLinks(s) \cup CurrentLinks(s)
      BY <3>2, WeighedLinks DEF Weighing
    <3> QED  BY <3>1, <3>2 DEF Weighing, Weighs
  <2> QED  BY <2>1, <2>2 DEF LinksCarried
<1> QED
  BY <1>9, <1>10

\* The shift of the bits follows the epoch, and a bit is set with its link.
LEMMA WeighingBits ==
    ASSUME NEW s, NEW t, Weighing(s, t)
    PROVE  BitsSay(t)
<1>1. s.epoch \in Nat /\ s.epoch >= 2 /\ t.epoch = s.epoch + 1
  BY WeighingLinks DEF Weighing, Weighs
<1>2. /\ PreviousLink(s).target.epoch = s.epoch - 1
      /\ CurrentLink(s).target.epoch = s.epoch
  BY DEF PreviousLink, CurrentLink, CheckpointAt
<1>3. \A l \in s.links : l.target.epoch \in Nat /\ l.target.epoch < s.epoch
  BY ChainTypes DEF Weighing, Accounted, LinksFollow
<1>4. SUFFICES ASSUME NEW i \in 0..3
               PROVE  t.bits[i] <=> \E l \in t.links : l.target.epoch = t.epoch - 1 - i
  BY DEF BitsSay, JUSTIFICATION_BITS_LENGTH
<1>5. t.bits[i] = (IF i = 0 THEN JustifiesCurrent(s)
                   ELSE s.bits[i - 1] \/ (i = 1 /\ JustifiesPrevious(s)))
  BY DEF Weighing, Weighs, ShiftedBits, JUSTIFICATION_BITS_LENGTH
<1>6. i # 0 => (s.bits[i - 1] <=> \E l \in s.links : l.target.epoch = s.epoch - i)
  <2> SUFFICES ASSUME i # 0
               PROVE  s.bits[i - 1] <=> \E l \in s.links : l.target.epoch = s.epoch - i
    OBVIOUS
  <2>1. /\ i - 1 \in 0..JUSTIFICATION_BITS_LENGTH - 1
        /\ s.epoch - 1 - (i - 1) = s.epoch - i
    BY <1>1 DEF JUSTIFICATION_BITS_LENGTH
  <2> QED  BY <2>1 DEF Weighing, Accounted, BitsSay
<1>7. t.epoch - 1 - i = s.epoch - i
  BY <1>1
<1>8. (\E l \in t.links : l.target.epoch = s.epoch - i)
        <=> \/ \E l \in s.links : l.target.epoch = s.epoch - i
            \/ i = 1 /\ JustifiesPrevious(s)
            \/ i = 0 /\ JustifiesCurrent(s)
  <2>1. ASSUME NEW l \in t.links, l.target.epoch = s.epoch - i
        PROVE  \/ l \in s.links
               \/ i = 1 /\ JustifiesPrevious(s)
               \/ i = 0 /\ JustifiesCurrent(s)
    BY <1>1, <1>2, <2>1, WeighingLinks
  <2>2. \A l \in s.links : l \in t.links
    BY WeighingLinks
  <2>3. i = 1 /\ JustifiesPrevious(s)
          => PreviousLink(s) \in t.links /\ PreviousLink(s).target.epoch = s.epoch - i
    BY <1>2, WeighingLinks
  <2>4. i = 0 /\ JustifiesCurrent(s)
          => CurrentLink(s) \in t.links /\ CurrentLink(s).target.epoch = s.epoch - i
    BY <1>1, <1>2, WeighingLinks
  <2> QED  BY <2>1, <2>2, <2>3, <2>4
<1>9. CASE i = 0
  <2>1. ~ \E l \in s.links : l.target.epoch = s.epoch - i
    BY <1>1, <1>3, <1>9
  <2> QED  BY <1>5, <1>7, <1>8, <1>9, <2>1
<1>10. CASE i # 0
  <2>1. JustifiesPrevious(s) \in BOOLEAN /\ JustifiesCurrent(s) \in BOOLEAN
    BY DEF JustifiesPrevious, JustifiesCurrent, SupermajorityOf
  <2>2. t.bits[i] <=> s.bits[i - 1] \/ (i = 1 /\ JustifiesPrevious(s))
    BY <1>5, <1>10
  <2> QED  BY <1>6, <1>7, <1>8, <1>10, <2>2
<1> QED
  BY <1>9, <1>10

\* A justified checkpoint after genesis has its bit, as long as the bits reach it.
LEMMA JustifiedHasBit ==
    ASSUME NEW t \in ChainStates, BitsSay(t), NEW k \in JustifiedIn(t),
           k.epoch # GENESIS_EPOCH
    PROVE  /\ k.epoch = t.epoch - 2 => t.bits[1]
           /\ k.epoch = t.epoch - 3 => t.bits[2]
           /\ k.epoch = t.epoch - 4 => t.bits[3]
<1>1. PICK l \in t.links : l.target = k
  BY DEF JustifiedIn, GenesisCheckpoint
<1>2. t.epoch \in Nat
  BY ChainTypes
<1>3. /\ t.epoch - 1 - 1 = t.epoch - 2
      /\ t.epoch - 1 - 2 = t.epoch - 3
      /\ t.epoch - 1 - 3 = t.epoch - 4
  BY <1>2
<1>4. {1, 2, 3} \subseteq 0..JUSTIFICATION_BITS_LENGTH - 1
  BY DEF JUSTIFICATION_BITS_LENGTH
<1> QED
  BY <1>1, <1>3, <1>4 DEF BitsSay

\* Conversely a bit stands for a link, whose target is the checkpoint of its epoch.
LEMMA BitHasLink ==
    ASSUME NEW t \in ChainStates, LinksFollow(t), BitsSay(t), NEW i \in 0..3, t.bits[i]
    PROVE  \E l \in t.links : /\ l.target.epoch = t.epoch - 1 - i
                              /\ l.target = CheckpointAt(t, t.epoch - 1 - i)
                              /\ l.target \in JustifiedIn(t)
<1>1. i \in 0..JUSTIFICATION_BITS_LENGTH - 1
  BY DEF JUSTIFICATION_BITS_LENGTH
<1>2. PICK l \in t.links : l.target.epoch = t.epoch - 1 - i
  BY <1>1 DEF BitsSay
<1>3. l.target = CheckpointAt(t, t.epoch - 1 - i)
  BY <1>2 DEF LinksFollow
<1>4. l.target \in JustifiedIn(t)
  BY DEF JustifiedIn
<1> QED
  BY <1>2, <1>3, <1>4

\* The finalized checkpoint is supported by a link: the four rules finalize
\* the source of a link they have seen.
LEMMA WeighingFinalizedSupported ==
    ASSUME NEW s, NEW t, Weighing(s, t)
    PROVE  \/ t.finalized = GenesisCheckpoint
           \/ \E l \in t.links : l.source = t.finalized /\ SupportsFinality(t, l)
<1> DEFINE bits == ShiftedBits(s)
<1>1. /\ s \in ChainStates
      /\ t \in ChainStates
      /\ s.epoch \in Nat
      /\ s.epoch >= 2
      /\ t.epoch = s.epoch + 1
      /\ t.bits = bits
      /\ t.finalized = NewFinalized(s, bits)
      /\ t.previous_justified = s.current_justified
      /\ s.previous_justified.epoch \in Nat
      /\ s.current_justified.epoch \in Nat
  BY WeighingLinks, ChainTypes DEF Weighing, Weighs
<1>2. /\ LinksFollow(t)
      /\ BitsSay(t)
  BY WeighingLinksFollow, WeighingBits
<1> HIDE DEF bits
<1>3. CASE FinalizesCurrent(s, bits)
  <2>1. PICK l \in t.links : l.target.epoch = t.epoch - 1 - 0
    BY <1>1, <1>2, <1>3, BitHasLink DEF FinalizesCurrent
  <2>2. l.target.epoch = t.epoch - 1
    BY <1>1, <2>1
  <2>3. l.source = s.current_justified
    BY <1>1, <1>2, <2>2 DEF LinksFollow
  <2>4. CASE s.epoch = s.current_justified.epoch + 1
    BY <1>1, <2>2, <2>3, <2>4, <1>3 DEF SupportsFinality, NewFinalized
  <2>5. CASE bits[1] /\ s.epoch = s.current_justified.epoch + 2
    <3>1. PICK m \in t.links : /\ m.target = CheckpointAt(t, t.epoch - 1 - 1)
                               /\ m.target \in JustifiedIn(t)
      BY <1>1, <1>2, <2>5, BitHasLink
    <3>2. t.epoch - 1 - 1 = l.source.epoch + 1
      BY <1>1, <2>3, <2>5
    <3>3. CheckpointAt(t, l.source.epoch + 1) \in JustifiedIn(t)
      BY <3>1, <3>2
    <3> QED
      BY <1>1, <1>3, <2>2, <2>3, <2>5, <3>3 DEF SupportsFinality, NewFinalized
  <2> QED  BY <1>3, <2>4, <2>5 DEF FinalizesCurrent
<1>4. CASE ~FinalizesCurrent(s, bits) /\ FinalizesPrevious(s, bits)
  <2>1. bits[1] /\ bits[2]
    BY <1>4 DEF FinalizesPrevious
  <2>2. PICK l \in t.links : l.target.epoch = t.epoch - 1 - 1
    BY <1>1, <1>2, <2>1, BitHasLink
  <2>3. l.target.epoch = s.epoch - 1
    BY <1>1, <2>2
  <2>4. l.source = s.previous_justified
    <3>1. CASE l \in s.links
      BY <2>3, <3>1 DEF Weighing, Accounted, LinksFollow
    <3>2. CASE l = PreviousLink(s)
      BY <3>2 DEF PreviousLink
    <3>3. l # CurrentLink(s)
      BY <1>1, <2>3 DEF CurrentLink, CheckpointAt
    <3> QED  BY <3>1, <3>2, <3>3, WeighingLinks
  <2>5. CASE s.epoch = s.previous_justified.epoch + 2
    BY <1>1, <1>4, <2>3, <2>4, <2>5 DEF SupportsFinality, NewFinalized
  <2>6. CASE s.epoch = s.previous_justified.epoch + 3
    <3>1. PICK m \in t.links : /\ m.target = CheckpointAt(t, t.epoch - 1 - 2)
                               /\ m.target \in JustifiedIn(t)
      BY <1>1, <1>2, <2>1, BitHasLink
    <3>2. t.epoch - 1 - 2 = l.source.epoch + 1
      BY <1>1, <2>4, <2>6
    <3>3. CheckpointAt(t, l.source.epoch + 1) \in JustifiedIn(t)
      BY <3>1, <3>2
    <3> QED
      BY <1>1, <1>4, <2>3, <2>4, <2>6, <3>3 DEF SupportsFinality, NewFinalized
  <2> QED  BY <1>4, <2>5, <2>6 DEF FinalizesPrevious
<1>5. CASE ~FinalizesCurrent(s, bits) /\ ~FinalizesPrevious(s, bits)
  <2>1. t.finalized = s.finalized
    BY <1>1, <1>5 DEF NewFinalized
  <2>2. ASSUME NEW l \in s.links, SupportsFinality(s, l)
        PROVE  l \in t.links /\ SupportsFinality(t, l)
    <3>1. /\ l.source.epoch \in Nat
          /\ l.target.epoch \in Nat
          /\ l.target.epoch < s.epoch
      BY <1>1, ChainTypes DEF Weighing, Accounted, LinksFollow
    <3>2. CASE l.target.epoch = l.source.epoch + 1
      BY <3>2, WeighingLinks DEF SupportsFinality
    <3>3. CASE /\ l.target.epoch = l.source.epoch + 2
               /\ CheckpointAt(s, l.source.epoch + 1) \in JustifiedIn(s)
      <4>1. l.source.epoch + 1 \in 0..s.epoch
        BY <1>1, <3>1, <3>3
      <4> QED  BY <3>3, <4>1, WeighingLinks DEF SupportsFinality
    <3> QED  BY <2>2, <3>2, <3>3 DEF SupportsFinality
  <2> QED
    BY <2>1, <2>2 DEF Weighing, Accounted, LatestSupported
<1> QED
  BY <1>3, <1>4, <1>5

\* No later checkpoint is supported: a link from the source of this weighing
\* that supports it is one of the four rules, and an older link gains nothing.
LEMMA WeighingLatest ==
    ASSUME NEW s, NEW t, Weighing(s, t), t.finalized.epoch >= s.finalized.epoch,
           NEW l \in t.links, SupportsFinality(t, l)
    PROVE  l.source.epoch <= t.finalized.epoch
<1> DEFINE bits == ShiftedBits(s)
           p == s.previous_justified
           q == s.current_justified
<1>1. /\ s \in ChainStates
      /\ t \in ChainStates
      /\ s.epoch \in Nat
      /\ s.epoch >= 2
      /\ t.epoch = s.epoch + 1
      /\ t.bits = bits
      /\ t.finalized = NewFinalized(s, bits)
      /\ s.finalized.epoch \in Nat
      /\ t.finalized.epoch \in Nat
      /\ p.epoch \in Nat
      /\ q.epoch \in Nat
      /\ p.epoch <= q.epoch
  BY WeighingLinks, ChainTypes DEF Weighing, Weighs, Sound, Ordered
<1>2. /\ LinksFollow(t)
      /\ BitsSay(t)
      /\ p \in JustifiedIn(t)
      /\ q \in JustifiedIn(t)
  BY WeighingLinksFollow, WeighingBits, WeighingLinks
     DEF Weighing, Accounted, SourcesJustified
<1>6. /\ PreviousLink(s).source = p
      /\ PreviousLink(s).target.epoch = s.epoch - 1
      /\ CurrentLink(s).source = q
      /\ CurrentLink(s).target.epoch = s.epoch
  BY DEF PreviousLink, CurrentLink, CheckpointAt
<1>7. /\ FinalizesCurrent(s, bits) => t.finalized = q
      /\ FinalizesPrevious(s, bits) => t.finalized \in {q, p}
  BY <1>1 DEF NewFinalized
<1>8. FinalizesCurrent(s, bits) <=>
         \/ bits[0] /\ bits[1] /\ bits[2] /\ s.epoch = q.epoch + 2
         \/ bits[0] /\ bits[1] /\ s.epoch = q.epoch + 1
  BY DEF FinalizesCurrent
<1>9. FinalizesPrevious(s, bits) <=>
         \/ bits[1] /\ bits[2] /\ bits[3] /\ s.epoch = p.epoch + 3
         \/ bits[1] /\ bits[2] /\ s.epoch = p.epoch + 2
  BY DEF FinalizesPrevious
<1> HIDE DEF bits, p, q
<1>3. CASE l \in s.links
  <2>1. /\ l.source.epoch \in Nat
        /\ l.target.epoch \in Nat
        /\ l.target.epoch < s.epoch
    BY <1>1, <1>3, ChainTypes DEF Weighing, Accounted, LinksFollow
  <2>2. SupportsFinality(s, l)
    <3>1. CASE l.target.epoch = l.source.epoch + 1
      BY <3>1 DEF SupportsFinality
    <3>2. CASE /\ l.target.epoch = l.source.epoch + 2
               /\ CheckpointAt(t, l.source.epoch + 1) \in JustifiedIn(t)
      <4> DEFINE m == CheckpointAt(t, l.source.epoch + 1)
      <4>1. l.source.epoch + 1 \in 0..s.epoch /\ l.source.epoch + 1 < s.epoch - 1
        BY <1>1, <2>1, <3>2
      <4>2. m = CheckpointAt(s, l.source.epoch + 1) /\ m.epoch = l.source.epoch + 1
        BY <4>1, WeighingLinks DEF CheckpointAt
      <4>3. m \in JustifiedIn(s)
        <5>1. CASE m = GenesisCheckpoint
          BY <5>1 DEF JustifiedIn
        <5>2. CASE \E k \in t.links : k.target = m
          <6>1. PICK k \in t.links : k.target = m
            BY <5>2
          <6>2. k.target.epoch = l.source.epoch + 1
            BY <4>2, <6>1
          <6>3. k # PreviousLink(s) /\ k # CurrentLink(s)
            BY <1>1, <1>6, <4>1, <6>2
          <6>4. k \in s.links
            BY <6>3, WeighingLinks
          <6> QED  BY <6>1, <6>4 DEF JustifiedIn
        <5> QED  BY <3>2, <5>1, <5>2 DEF JustifiedIn
      <4> QED
        BY <3>2, <4>2, <4>3 DEF SupportsFinality
    <3> QED  BY <3>1, <3>2 DEF SupportsFinality
  <2>3. l.source.epoch <= s.finalized.epoch
    BY <1>3, <2>2 DEF Weighing, Accounted, LatestSupported
  <2> QED  BY <1>1, <2>1, <2>3
<1>4. CASE l = CurrentLink(s) /\ l \notin s.links
  <2>1. l.source = q /\ l.target.epoch = s.epoch
    BY <1>4, <1>6
  <2>2. t.bits[0]
    <3>1. s.epoch = t.epoch - 1 - 0
      BY <1>1
    <3>2. 0 \in 0..JUSTIFICATION_BITS_LENGTH - 1
      BY DEF JUSTIFICATION_BITS_LENGTH
    <3> QED  BY <1>2, <2>1, <3>1, <3>2 DEF BitsSay
  <2>3. CASE q.epoch = GENESIS_EPOCH
    BY <1>1, <2>1, <2>3 DEF GENESIS_EPOCH
  <2>4. CASE q.epoch # GENESIS_EPOCH /\ s.epoch = q.epoch + 1
    <3>1. t.bits[1]
      <4>1. q.epoch = t.epoch - 2
        BY <1>1, <2>4
      <4> QED  BY <1>1, <1>2, <2>4, <4>1, JustifiedHasBit
    <3>2. FinalizesCurrent(s, bits)
      BY <1>1, <2>2, <2>4, <3>1, <1>8
    <3> QED  BY <1>1, <2>1, <3>2, <1>7
  <2>5. CASE /\ q.epoch # GENESIS_EPOCH
             /\ s.epoch = q.epoch + 2
             /\ CheckpointAt(t, q.epoch + 1) \in JustifiedIn(t)
    <3>1. t.bits[2]
      <4>1. q.epoch = t.epoch - 3
        BY <1>1, <2>5
      <4> QED  BY <1>1, <1>2, <2>5, <4>1, JustifiedHasBit
    <3>2. t.bits[1]
      <4> DEFINE m == CheckpointAt(t, q.epoch + 1)
      <4>1. m.epoch = t.epoch - 2 /\ m.epoch # GENESIS_EPOCH
        BY <1>1, <2>5 DEF CheckpointAt, GENESIS_EPOCH
      <4>2. m \in JustifiedIn(t)
        BY <2>5
      <4> HIDE DEF m
      <4> QED  BY <1>1, <1>2, <4>1, <4>2, JustifiedHasBit
    <3>3. FinalizesCurrent(s, bits)
      BY <1>1, <2>2, <2>5, <3>1, <3>2, <1>8
    <3> QED  BY <1>1, <2>1, <3>3, <1>7
  <2> QED
    BY <1>1, <2>1, <2>3, <2>4, <2>5 DEF SupportsFinality
<1>5. CASE l = PreviousLink(s) /\ l \notin s.links
  <2>1. l.source = p /\ l.target.epoch = s.epoch - 1
    BY <1>5, <1>6
  <2>2. t.bits[1]
    <3>1. s.epoch - 1 = t.epoch - 1 - 1
      BY <1>1
    <3>2. 1 \in 0..JUSTIFICATION_BITS_LENGTH - 1
      BY DEF JUSTIFICATION_BITS_LENGTH
    <3> QED  BY <1>2, <2>1, <3>1, <3>2 DEF BitsSay
  <2>3. CASE p.epoch = GENESIS_EPOCH
    BY <1>1, <2>1, <2>3 DEF GENESIS_EPOCH
  <2>4. ASSUME FinalizesPrevious(s, bits)
        PROVE  l.source.epoch <= t.finalized.epoch
    <3>1. t.finalized \in {q, p}
      BY <2>4, <1>7
    <3> QED  BY <1>1, <2>1, <3>1
  <2>5. CASE p.epoch # GENESIS_EPOCH /\ s.epoch - 1 = p.epoch + 1
    <3>1. t.bits[2]
      <4>1. p.epoch = t.epoch - 3
        BY <1>1, <2>5
      <4> QED  BY <1>1, <1>2, <2>5, <4>1, JustifiedHasBit
    <3>2. FinalizesPrevious(s, bits)
      BY <1>1, <2>2, <2>5, <3>1, <1>9
    <3> QED  BY <2>4, <3>2
  <2>6. CASE /\ p.epoch # GENESIS_EPOCH
             /\ s.epoch - 1 = p.epoch + 2
             /\ CheckpointAt(t, p.epoch + 1) \in JustifiedIn(t)
    <3>1. t.bits[3]
      <4>1. p.epoch = t.epoch - 4
        BY <1>1, <2>6
      <4> QED  BY <1>1, <1>2, <2>6, <4>1, JustifiedHasBit
    <3>2. t.bits[2]
      <4> DEFINE m == CheckpointAt(t, p.epoch + 1)
      <4>1. m.epoch = t.epoch - 3 /\ m.epoch # GENESIS_EPOCH
        BY <1>1, <2>6 DEF CheckpointAt, GENESIS_EPOCH
      <4>2. m \in JustifiedIn(t)
        BY <2>6
      <4> HIDE DEF m
      <4> QED  BY <1>1, <1>2, <4>1, <4>2, JustifiedHasBit
    <3>3. FinalizesPrevious(s, bits)
      BY <1>1, <2>2, <2>6, <3>1, <3>2, <1>9
    <3> QED  BY <2>4, <3>3
  <2> QED
    BY <1>1, <2>1, <2>3, <2>5, <2>6 DEF SupportsFinality
<1> QED
  BY <1>3, <1>4, <1>5, WeighingLinks

\* An epoch transition keeps the account of votes, links and bits.
LEMMA EpochAccounted ==
    ASSUME NEW s \in ChainStates, Sound(s), Accounted(s), s.epoch < MaxEpoch,
           NEW root \in Roots,
           NEW t, t = AdvanceEpoch(ProcessJustificationAndFinalization(s), root)
    PROVE  Accounted(t)
<1>1. t \in ChainStates /\ t.finalized.epoch >= s.finalized.epoch
  BY EpochSound
<1>2. CASE ~SkipsJustification(s)
  <2>1. Weighing(s, t)
    BY <1>1, <1>2, AdvanceWeighs DEF Weighing
  <2>2. LatestSupported(t)
    BY <1>1, <2>1, WeighingFinalizedSupported, WeighingLatest DEF LatestSupported
  <2> QED
    BY <2>1, <2>2, WeighingFlags, WeighingSources, WeighingLinksFollow, WeighingBits
       DEF Accounted
<1>3. CASE SkipsJustification(s)
  <2>1. ProcessJustificationAndFinalization(s) = s
    BY <1>3 DEF ProcessJustificationAndFinalization
  <2>2. /\ t.epoch = s.epoch + 1
        /\ t.previous_target = s.current_target
        /\ t.current_target = {}
        /\ t.votes = s.votes
        /\ t.links = s.links
        /\ t.bits = s.bits
        /\ t.previous_justified = s.previous_justified
        /\ t.current_justified = s.current_justified
        /\ t.finalized = s.finalized
    BY <2>1 DEF AdvanceEpoch, ChainStates
  <2>3. \A e \in 0..s.epoch : t.roots[e] = s.roots[e]
    <3>1. \A e \in 0..s.epoch : e <= MaxEpoch
      BY FinalityAssumption DEF ChainStates
    <3> QED  BY <2>1, <3>1, AdvanceType
  <2>4. /\ s.epoch \in 0..1
        /\ s.previous_justified = GenesisCheckpoint
        /\ s.current_justified = GenesisCheckpoint
        /\ s.links = {}
    BY <1>3, ChainTypes DEF Accounted, SourcesJustified, SkipsJustification, GENESIS_EPOCH
  <2>5. \A e \in 0..s.epoch : CheckpointAt(t, e) = CheckpointAt(s, e)
    BY <2>3 DEF CheckpointAt
  <2>6. FlagsVoted(t)
    <3>1. ASSUME NEW v \in t.previous_target
          PROVE  VoteFor(t, v, t.epoch - 1) \in t.votes
      <4>1. VoteFor(s, v, s.epoch) \in s.votes
        BY <2>2 DEF Accounted, FlagsVoted
      <4>2. t.epoch - 1 = s.epoch /\ t.epoch # s.epoch
        BY <2>2, <2>4
      <4>3. CheckpointAt(t, t.epoch - 1) = CheckpointAt(s, s.epoch)
        BY <2>4, <2>5, <4>2
      <4>4. VoteFor(t, v, t.epoch - 1) = VoteFor(s, v, s.epoch)
        BY <2>2, <2>4, <4>2, <4>3 DEF VoteFor, JustifiedSource
      <4> QED  BY <2>2, <4>1, <4>4
    <3> QED  BY <2>2, <2>4, <3>1 DEF FlagsVoted, GENESIS_EPOCH
  <2>7. VotesFollow(t)
    <3> SUFFICES ASSUME NEW x \in t.votes
                 PROVE  /\ x.target.epoch <= t.epoch
                        /\ x.target = CheckpointAt(t, x.target.epoch)
                        /\ x.target.epoch = t.epoch => x.source = t.current_justified
                        /\ x.target.epoch = t.epoch - 1 => x.source = t.previous_justified
      BY DEF VotesFollow
    <3>1. /\ x.target.epoch \in Nat
          /\ x.target.epoch <= s.epoch
          /\ x.target = CheckpointAt(s, x.target.epoch)
          /\ x.target.epoch = s.epoch => x.source = s.current_justified
      BY <2>2, ChainTypes DEF Accounted, VotesFollow
    <3>2. CheckpointAt(t, x.target.epoch) = CheckpointAt(s, x.target.epoch)
      BY <2>4, <2>5, <3>1
    <3> QED  BY <2>2, <2>4, <3>1, <3>2
  <2>8. LinksFollow(t) /\ LinksCarried(t)
    BY <2>2, <2>4 DEF LinksFollow, LinksCarried
  <2>9. BitsSay(t)
    BY <2>2, <2>4 DEF Accounted, BitsSay
  <2>10. SourcesJustified(t)
    <3>1. t.roots[GENESIS_EPOCH] = GenesisCheckpoint.root
      BY <2>3, <2>4 DEF Accounted, SourcesJustified, GENESIS_EPOCH
    <3> QED
      BY <2>2, <2>4, <3>1 DEF SourcesJustified, JustifiedIn, GenesisCheckpoint, GENESIS_EPOCH
  <2>11. LatestSupported(t)
    BY <2>2, <2>4 DEF Accounted, LatestSupported
  <2> QED
    BY <2>6, <2>7, <2>8, <2>9, <2>10, <2>11 DEF Accounted
<1> QED
  BY <1>2, <1>3

-----------------------------------------------------------------------------
(* Flags, votes and slashings *)

LEMMA SameCheckpointsVoteFor ==
    ASSUME NEW s, NEW t, SameCheckpoints(s, t)
    PROVE  \A v, e : VoteFor(t, v, e) = VoteFor(s, v, e)
BY DEF SameCheckpoints, VoteFor, JustifiedSource, CheckpointAt

\* A vote that is included follows the checkpoints of its epoch.
LEMMA VoteFollows ==
    ASSUME NEW s \in ChainStates, VotesFollow(s), NEW t, SameCheckpoints(s, t),
           NEW v, NEW e \in Nat, e = s.epoch \/ e = s.epoch - 1,
           t.votes = s.votes \cup {VoteFor(s, v, e)}
    PROVE  VotesFollow(t)
<1>1. s.epoch \in Nat
  BY ChainTypes
<1>2. \A i : CheckpointAt(t, i) = CheckpointAt(s, i)
  BY DEF SameCheckpoints, CheckpointAt
<1> DEFINE y == VoteFor(s, v, e)
<1>3. /\ y.target = CheckpointAt(s, e)
      /\ y.target.epoch = e
      /\ e = s.epoch => y.source = s.current_justified
      /\ e # s.epoch => y.source = s.previous_justified
  BY DEF VoteFor, JustifiedSource, CheckpointAt
<1> HIDE DEF y
<1>4. SUFFICES ASSUME NEW x \in t.votes
               PROVE  /\ x.target.epoch <= s.epoch
                      /\ x.target = CheckpointAt(s, x.target.epoch)
                      /\ x.target.epoch = s.epoch => x.source = s.current_justified
                      /\ x.target.epoch = s.epoch - 1 => x.source = s.previous_justified
  BY <1>2 DEF VotesFollow, SameCheckpoints
<1>5. CASE x \in s.votes
  BY <1>5 DEF VotesFollow
<1>6. CASE x = y
  BY <1>1, <1>3, <1>6
<1> QED
  BY <1>5, <1>6 DEF y

\* What is said of links and bits does not lose by more votes.
LEMMA VotesAccounted ==
    ASSUME NEW s \in ChainStates, NEW t \in ChainStates, Accounted(s),
           SameCheckpoints(s, t), t.bits = s.bits, t.links = s.links,
           s.votes \subseteq t.votes, FlagsVoted(t), VotesFollow(t)
    PROVE  Accounted(t)
<1>1. /\ \A i : CheckpointAt(t, i) = CheckpointAt(s, i)
      /\ JustifiedIn(t) = JustifiedIn(s)
  BY DEF SameCheckpoints, CheckpointAt, JustifiedIn
<1>2. LinksFollow(t)
  BY <1>1 DEF Accounted, LinksFollow, SameCheckpoints
<1>3. LinksCarried(t)
  <2>1. \A l : /\ Supporters(s, l) \subseteq Supporters(t, l)
               /\ Supporters(t, l) \subseteq Validators
    BY DEF Supporters
  <2> QED  BY <2>1, MoreCarry DEF Accounted, LinksCarried
<1>4. BitsSay(t)
  BY DEF Accounted, BitsSay, SameCheckpoints
<1>5. SourcesJustified(t)
  BY <1>1 DEF Accounted, SourcesJustified, SameCheckpoints, SkipsJustification
<1>6. LatestSupported(t)
  BY <1>1 DEF Accounted, LatestSupported, SupportsFinality, SameCheckpoints
<1> QED
  BY <1>2, <1>3, <1>4, <1>5, <1>6 DEF Accounted

-----------------------------------------------------------------------------
(* Steps of a chain, in terms of its state before and after *)

\* The checkpoint roots that a chain has do not change, and a new one is one
\* of its next roots.
Lengthens(c, s, t) ==
    \/ t.epoch = s.epoch /\ t.roots = s.roots
    \/ /\ t.epoch = s.epoch + 1
       /\ \A e \in 0..s.epoch : t.roots[e] = s.roots[e]
       /\ t.roots[s.epoch + 1] \in NextRoots(c, s)

\* What a step makes of the state s of a chain c that runs before and after it.
Step(c, s, t) ==
    /\ t \in ChainStates
    /\ Sound(t)
    /\ t.finalized.epoch >= s.finalized.epoch
    /\ OnChain(t, s.finalized)
    /\ Accounted(s) => Accounted(t)
    /\ Lengthens(c, s, t)

LEMMA SameCheckpointsStep ==
    ASSUME NEW c, NEW s \in ChainStates, NEW t \in ChainStates, SameCheckpoints(s, t),
           Sound(s), Accounted(s) => Accounted(t)
    PROVE  Step(c, s, t)
<1>1. Sound(t)
  BY SameCheckpointsSound
<1>2. t.finalized.epoch >= s.finalized.epoch
  BY DEF SameCheckpoints, ChainStates, Checkpoints
<1>3. OnChain(t, s.finalized)
  BY <1>1 DEF SameCheckpoints, Sound, Anchored
<1>4. Lengthens(c, s, t)
  BY DEF SameCheckpoints, Lengthens
<1> QED
  BY <1>1, <1>2, <1>3, <1>4 DEF Step

LEMMA EpochStep ==
    ASSUME NEW c \in Chains, NEW s \in ChainStates, Sound(s), s.epoch < MaxEpoch,
           NEW root \in NextRoots(c, s),
           NEW t, t = AdvanceEpoch(ProcessJustificationAndFinalization(s), root)
    PROVE  Step(c, s, t)
<1>1. root \in Roots
  BY NextRootsType DEF Sound
<1>2. /\ t \in ChainStates
      /\ Sound(t)
      /\ t.finalized.epoch >= s.finalized.epoch
      /\ OnChain(t, s.finalized)
  BY <1>1, EpochSound
<1>3. Accounted(s) => Accounted(t)
  BY <1>1, EpochAccounted
<1>4. Lengthens(c, s, t)
  <2> DEFINE w == ProcessJustificationAndFinalization(s)
  <2>1. /\ w \in ChainStates
        /\ w.epoch = s.epoch
        /\ w.roots = s.roots
    BY ProcessJustificationType DEF Sound
  <2>2. t = AdvanceEpoch(w, root)
    OBVIOUS
  <2>3. \A e \in 0..s.epoch : e <= MaxEpoch
    BY FinalityAssumption DEF ChainStates
  <2> HIDE DEF w
  <2>4. /\ \A e \in 0..s.epoch : t.roots[e] = s.roots[e]
        /\ t.roots[s.epoch + 1] = root
    BY <1>1, <2>1, <2>2, <2>3, AdvanceType
  <2>5. t.epoch = s.epoch + 1
    BY <2>1, <2>2, ZenonT(40) DEF AdvanceEpoch, ChainStates
  <2> QED  BY <2>4, <2>5 DEF Lengthens
<1> QED
  BY <1>2, <1>3, <1>4 DEF Step

\* Every step changes the state of one live chain by a Step, or makes a
\* chain live in the state of one that is.
Moves ==
    \/ \E c \in live :
         /\ live' = live
         /\ \E t : Step(c, chain[c], t) /\ chain' = [chain EXCEPT ![c] = t]
    \/ \E c \in live, d \in Chains \ live :
         /\ live' = live \cup {d}
         /\ chain' = [chain EXCEPT ![d] = chain[c]]

LEMMA NextMoves == IInv /\ Next => Moves
<1> SUFFICES ASSUME IInv, Next PROVE Moves
  OBVIOUS
<1> USE DEF IInv, TypeOK
<1>1. ASSUME NEW c \in Chains, NEW v \in Validators, IncludeCurrent(c, v)
      PROVE  Moves
  <2> DEFINE s == chain[c]
  <2> DEFINE t == [s EXCEPT !.current_target = @ \cup {v},
                            !.votes = @ \cup {VoteFor(s, v, s.epoch)}]
  <2>1. c \in live /\ live' = live /\ chain' = [chain EXCEPT ![c] = t]
    BY <1>1 DEF IncludeCurrent
  <2>2. s \in ChainStates /\ Sound(s)
    BY <2>1
  <2>3. s.epoch \in 0..MaxEpoch
    BY <2>2, FinalityAssumption DEF Sound, ChainStates
  <2> HIDE DEF s
  <2>4. VoteFor(s, v, s.epoch) \in Votes
    BY <2>2, <2>3, VoteForType
  <2>5. /\ t \in ChainStates
        /\ SameCheckpoints(s, t)
        /\ t.bits = s.bits
        /\ t.links = s.links
        /\ t.previous_target = s.previous_target
        /\ t.current_target = s.current_target \cup {v}
        /\ t.votes = s.votes \cup {VoteFor(s, v, s.epoch)}
    BY <2>2, <2>4 DEF ChainStates, SameCheckpoints
  <2> HIDE DEF t
  <2>6. Accounted(s) => Accounted(t)
    <3> SUFFICES ASSUME Accounted(s) PROVE Accounted(t)
      OBVIOUS
    <3>1. VotesFollow(t)
      BY <2>2, <2>3, <2>5, VoteFollows DEF Accounted
    <3>2. FlagsVoted(t)
      <4>1. \A u \in Validators : \A e : VoteFor(t, u, e) = VoteFor(s, u, e)
        BY <2>5, SameCheckpointsVoteFor
      <4>2. /\ t.epoch = s.epoch
            /\ t.current_target \subseteq Validators
            /\ t.previous_target \subseteq Validators
        BY <2>5 DEF SameCheckpoints, ChainStates
      <4> QED  BY <2>5, <4>1, <4>2 DEF Accounted, FlagsVoted
    <3> QED  BY <2>2, <2>5, <3>1, <3>2, VotesAccounted
  <2>7. Step(c, s, t)
    BY <2>2, <2>5, <2>6, SameCheckpointsStep
  <2> QED
    BY <2>1, <2>7 DEF Moves, s
<1>2. ASSUME NEW c \in Chains, NEW v \in Validators, IncludePrevious(c, v)
      PROVE  Moves
  <2> DEFINE s == chain[c]
  <2> DEFINE t == [s EXCEPT !.previous_target = @ \cup {v},
                            !.votes = @ \cup {VoteFor(s, v, get_previous_epoch(s))}]
  <2>1. /\ c \in live
        /\ live' = live
        /\ s.epoch # GENESIS_EPOCH
        /\ chain' = [chain EXCEPT ![c] = t]
    BY <1>2 DEF IncludePrevious
  <2>2. s \in ChainStates /\ Sound(s)
    BY <2>1
  <2> HIDE DEF s
  <2>3. get_previous_epoch(s) \in 0..MaxEpoch /\ get_previous_epoch(s) = s.epoch - 1
    BY <2>1, <2>2, PreviousEpochType DEF Sound
  <2>4. VoteFor(s, v, get_previous_epoch(s)) \in Votes
    BY <2>2, <2>3, VoteForType
  <2>5. /\ t \in ChainStates
        /\ SameCheckpoints(s, t)
        /\ t.bits = s.bits
        /\ t.links = s.links
        /\ t.previous_target = s.previous_target \cup {v}
        /\ t.current_target = s.current_target
        /\ t.votes = s.votes \cup {VoteFor(s, v, s.epoch - 1)}
    BY <2>2, <2>3, <2>4 DEF ChainStates, SameCheckpoints
  <2> HIDE DEF t
  <2>6. Accounted(s) => Accounted(t)
    <3> SUFFICES ASSUME Accounted(s) PROVE Accounted(t)
      OBVIOUS
    <3>1. VotesFollow(t)
      BY <2>2, <2>3, <2>5, VoteFollows DEF Accounted
    <3>2. FlagsVoted(t)
      <4>1. \A u \in Validators : \A e : VoteFor(t, u, e) = VoteFor(s, u, e)
        BY <2>5, SameCheckpointsVoteFor
      <4>2. /\ t.epoch = s.epoch
            /\ t.current_target \subseteq Validators
            /\ t.previous_target \subseteq Validators
        BY <2>5 DEF SameCheckpoints, ChainStates
      <4> QED  BY <2>1, <2>5, <4>1, <4>2 DEF Accounted, FlagsVoted
    <3> QED  BY <2>2, <2>5, <3>1, <3>2, VotesAccounted
  <2>7. Step(c, s, t)
    BY <2>2, <2>5, <2>6, SameCheckpointsStep
  <2> QED
    BY <2>1, <2>7 DEF Moves, s
<1>3. ASSUME NEW c \in Chains, NEW v \in Validators, SlashValidator(c, v)
      PROVE  Moves
  <2> DEFINE s == chain[c]
  <2> DEFINE t == [s EXCEPT !.slashed = @ \cup {v}]
  <2>1. c \in live /\ live' = live /\ chain' = [chain EXCEPT ![c] = t]
    BY <1>3 DEF SlashValidator
  <2>2. s \in ChainStates /\ Sound(s)
    BY <2>1
  <2> HIDE DEF s
  <2>3. /\ t \in ChainStates
        /\ SameCheckpoints(s, t)
        /\ t.bits = s.bits
        /\ t.links = s.links
        /\ t.previous_target = s.previous_target
        /\ t.current_target = s.current_target
        /\ t.votes = s.votes
    BY <2>2 DEF ChainStates, SameCheckpoints
  <2> HIDE DEF t
  <2>4. Accounted(s) => Accounted(t)
    <3> SUFFICES ASSUME Accounted(s) PROVE Accounted(t)
      OBVIOUS
    <3>1. VotesFollow(t)
      BY <2>3 DEF Accounted, VotesFollow, SameCheckpoints, CheckpointAt
    <3>2. FlagsVoted(t)
      BY <2>3, SameCheckpointsVoteFor DEF Accounted, FlagsVoted, SameCheckpoints
    <3> QED  BY <2>2, <2>3, <3>1, <3>2, VotesAccounted
  <2>5. Step(c, s, t)
    BY <2>2, <2>3, <2>4, SameCheckpointsStep
  <2> QED
    BY <2>1, <2>5 DEF Moves, s
<1>4. ASSUME NEW c \in Chains, ProcessEpoch(c)
      PROVE  Moves
  <2> DEFINE s == chain[c]
  <2>1. c \in live /\ live' = live /\ s.epoch < MaxEpoch
    BY <1>4 DEF ProcessEpoch
  <2>2. PICK root \in NextRoots(c, s) :
          chain' = [chain EXCEPT
            ![c] = AdvanceEpoch(ProcessJustificationAndFinalization(s), root)]
    BY <1>4 DEF ProcessEpoch
  <2>3. s \in ChainStates /\ Sound(s)
    BY <2>1
  <2> HIDE DEF s
  <2> DEFINE t == AdvanceEpoch(ProcessJustificationAndFinalization(s), root)
  <2>4. Step(c, s, t)
    BY <2>1, <2>3, EpochStep
  <2> QED
    BY <2>1, <2>2, <2>4 DEF Moves, s
<1>5. ASSUME NEW c \in Chains, NEW d \in Chains, Fork(c, d)
      PROVE  Moves
  BY <1>5 DEF Fork, Moves
<1> QED
  BY <1>1, <1>2, <1>3, <1>4, <1>5 DEF Next

-----------------------------------------------------------------------------
(* The roots of several chains *)

\* The root that chain d has for epoch e is of the block that x made for epoch
\* n: until n the two chains are the same, and from n to e there was no block.
Made(d, e, n, x) ==
    /\ n <= chain[x].epoch
    /\ \A i \in 0..n : chain[d].roots[i] = chain[x].roots[i]
    /\ \A i \in n..e : chain[d].roots[i] = <<n, x>>

RootsMade ==
    \A d \in live : \A e \in 0..chain[d].epoch :
        \E n \in 0..e, x \in live : Made(d, e, n, x)

\* What the proofs maintain besides IInv.
AInv ==
    /\ IInv
    /\ \A c \in live : Accounted(chain[c])
    /\ RootsMade

\* Two chains with the same checkpoint root have the same roots before it.
LEMMA SamePast ==
    ASSUME IInv, RootsMade, NEW c \in live, NEW d \in live, NEW e \in Nat,
           e <= chain[c].epoch, e <= chain[d].epoch,
           chain[c].roots[e] = chain[d].roots[e], NEW i \in 0..e
    PROVE  chain[c].roots[i] = chain[d].roots[i]
<1>1. chain[c].epoch \in Nat /\ chain[d].epoch \in Nat
  BY ChainTypes DEF IInv, TypeOK
<1>2. e \in 0..chain[c].epoch /\ e \in 0..chain[d].epoch
  BY <1>1
<1>3. PICK n \in 0..e, x \in live : Made(c, e, n, x)
  BY <1>2 DEF RootsMade
<1>4. PICK m \in 0..e, y \in live : Made(d, e, m, y)
  BY <1>2 DEF RootsMade
<1>5. chain[c].roots[e] = <<n, x>> /\ chain[d].roots[e] = <<m, y>>
  BY <1>3, <1>4 DEF Made
<1>6. n = m /\ x = y
  <2>1. <<n, x>> = <<m, y>>
    BY <1>5
  <2> QED  BY <2>1
<1>7. CASE i \in 0..n
  BY <1>3, <1>4, <1>6, <1>7 DEF Made
<1>8. CASE i \in n..e
  BY <1>3, <1>4, <1>6, <1>8 DEF Made
<1> QED
  BY <1>7, <1>8

LEMMA LengthensMade ==
    ASSUME IInv, RootsMade, NEW c \in live, NEW t, Step(c, chain[c], t),
           live' = live, chain' = [chain EXCEPT ![c] = t]
    PROVE  RootsMade'
<1> DEFINE s == chain[c]
<1>1. /\ s \in ChainStates
      /\ s.epoch \in Nat
      /\ t.epoch \in Nat
      /\ t.epoch = s.epoch \/ t.epoch = s.epoch + 1
      /\ \A e \in 0..s.epoch : t.roots[e] = s.roots[e]
      /\ t.epoch = s.epoch + 1 => t.roots[s.epoch + 1] \in NextRoots(c, s)
  BY ChainTypes DEF IInv, TypeOK, Step, Lengthens
<1>2. /\ chain'[c] = t
      /\ \A d \in live : d # c => chain'[d] = chain[d]
      /\ \A d \in live : chain[d].epoch \in Nat
  BY ChainTypes DEF IInv, TypeOK
<1>3. \A d \in live : /\ chain'[d].epoch \in Nat
                      /\ chain[d].epoch <= chain'[d].epoch
                      /\ \A e \in 0..chain[d].epoch : chain'[d].roots[e] = chain[d].roots[e]
  BY <1>1, <1>2
<1> HIDE DEF s
<1>4. ASSUME NEW d \in live, NEW e \in 0..chain[d].epoch
      PROVE  \E n \in 0..e, x \in live : Made(d, e, n, x)'
  <2>1. PICK n \in 0..e, x \in live : Made(d, e, n, x)
    BY <1>4 DEF RootsMade
  <2>2. n <= chain'[x].epoch
    BY <1>2, <1>3, <2>1 DEF Made
  <2>3. \A i \in 0..n : i \in 0..chain[d].epoch /\ i \in 0..chain[x].epoch
    BY <1>2, <2>1 DEF Made
  <2>4. \A i \in 0..n : chain'[d].roots[i] = chain'[x].roots[i]
    BY <1>3, <2>1, <2>3 DEF Made
  <2>5. \A i \in n..e : chain'[d].roots[i] = <<n, x>>
    BY <1>2, <1>3, <2>1 DEF Made
  <2> QED  BY <2>2, <2>4, <2>5 DEF Made
<1>5. ASSUME t.epoch = s.epoch + 1
      PROVE  \E n \in 0..t.epoch, x \in live : Made(c, t.epoch, n, x)'
  <2>1. CASE t.roots[t.epoch] = <<t.epoch, c>>
    <3>1. Made(c, t.epoch, t.epoch, c)'
      BY <1>1, <1>2, <2>1 DEF Made
    <3> QED  BY <1>1, <3>1
  <2>2. CASE t.roots[t.epoch] = s.roots[s.epoch]
    <3>1. PICK g \in 0..chain[c].epoch : g = s.epoch
      BY <1>1 DEF s
    <3>2. PICK n \in 0..g, x \in live : Made(c, g, n, x)'
      BY <1>4
    <3>3. /\ n <= chain'[x].epoch
          /\ \A i \in 0..n : chain'[c].roots[i] = chain'[x].roots[i]
          /\ \A i \in n..g : t.roots[i] = <<n, x>>
      BY <1>2, <3>2 DEF Made
    <3>4. g \in n..g /\ t.roots[g] = s.roots[g]
      BY <1>1, <3>1
    <3>5. t.roots[t.epoch] = <<n, x>>
      BY <2>2, <3>1, <3>3, <3>4
    <3>6. \A i \in n..t.epoch : i = t.epoch \/ i \in n..g
      BY <1>1, <1>5, <3>1
    <3>7. \A i \in n..t.epoch : t.roots[i] = <<n, x>>
      BY <3>3, <3>5, <3>6
    <3>8. Made(c, t.epoch, n, x)'
      BY <1>2, <3>3, <3>7 DEF Made
    <3> QED  BY <1>1, <1>5, <3>1, <3>8
  <2> QED  BY <1>1, <1>5, <2>1, <2>2 DEF NextRoots
<1> QED
  <2> SUFFICES ASSUME NEW d \in live', NEW e \in 0..chain'[d].epoch
               PROVE  \E n \in 0..e, x \in live' : Made(d, e, n, x)'
    BY DEF RootsMade
  <2>1. CASE e \in 0..chain[d].epoch
    BY <1>4, <2>1
  <2>2. CASE e \notin 0..chain[d].epoch
    <3>1. d = c /\ t.epoch = s.epoch + 1 /\ e = t.epoch
      BY <1>1, <1>2, <2>2 DEF s
    <3> QED  BY <1>5, <3>1
  <2> QED  BY <2>1, <2>2

LEMMA ForkMade ==
    ASSUME IInv, RootsMade, NEW c \in live, NEW d \in Chains \ live,
           live' = live \cup {d}, chain' = [chain EXCEPT ![d] = chain[c]]
    PROVE  RootsMade'
<1>1. /\ chain'[d] = chain[c]
      /\ \A x \in live : chain'[x] = chain[x]
  BY DEF IInv, TypeOK
<1> SUFFICES ASSUME NEW b \in live', NEW e \in 0..chain'[b].epoch
             PROVE  \E n \in 0..e, x \in live' : Made(b, e, n, x)'
  BY DEF RootsMade
<1>2. PICK a \in live : chain'[b] = chain[a]
  BY <1>1
<1>3. PICK n \in 0..e, x \in live : Made(a, e, n, x)
  BY <1>2 DEF RootsMade
<1>4. Made(b, e, n, x)'
  BY <1>1, <1>2, <1>3 DEF Made
<1> QED
  BY <1>3, <1>4

-----------------------------------------------------------------------------
(* The theorems *)

LEMMA InitIInv == Init => IInv
<1> SUFFICES ASSUME Init PROVE IInv
  OBVIOUS
<1> DEFINE s == [ epoch              |-> GENESIS_EPOCH,
                  bits               |-> [i \in 0..JUSTIFICATION_BITS_LENGTH - 1 |-> FALSE],
                  previous_justified |-> GenesisCheckpoint,
                  current_justified  |-> GenesisCheckpoint,
                  finalized          |-> GenesisCheckpoint,
                  previous_target    |-> {},
                  current_target     |-> {},
                  slashed            |-> {},
                  roots              |-> [e \in 0..MaxEpoch |-> GenesisCheckpoint.root],
                  votes              |-> {},
                  links              |-> {} ]
<1>1. chain = [c \in Chains |-> s] /\ live = {Trunk}
  BY DEF Init
<1>2. GenesisCheckpoint \in Checkpoints /\ GenesisCheckpoint.root \in Roots
  BY FinalityAssumption DEF GenesisCheckpoint, Checkpoints, Roots, GENESIS_EPOCH
<1>3. s \in ChainStates
  BY <1>2 DEF ChainStates, GENESIS_EPOCH
<1>4. Sound(s)
  BY FinalityAssumption DEF Sound, Ordered, Delayed, Anchored, OnChain,
                            GenesisCheckpoint, GENESIS_EPOCH
<1> HIDE DEF s
<1> QED
  BY <1>1, <1>3, <1>4, FinalityAssumption DEF IInv, TypeOK

LEMMA NextIInv == IInv /\ [Next]_vars => IInv'
<1> SUFFICES ASSUME IInv, [Next]_vars PROVE IInv'
  OBVIOUS
<1>1. CASE UNCHANGED vars
  BY <1>1 DEF IInv, TypeOK, vars
<1>2. CASE Next
  <2>1. Moves
    BY <1>2, NextMoves
  <2>2. CASE \E c \in live :
               /\ live' = live
               /\ \E t : Step(c, chain[c], t) /\ chain' = [chain EXCEPT ![c] = t]
    BY <2>2 DEF IInv, TypeOK, Step
  <2>3. CASE \E c \in live, d \in Chains \ live :
               /\ live' = live \cup {d}
               /\ chain' = [chain EXCEPT ![d] = chain[c]]
    BY <2>3 DEF IInv, TypeOK
  <2> QED  BY <2>1, <2>2, <2>3 DEF Moves
<1> QED
  BY <1>1, <1>2

THEOREM Invariance == Spec => []IInv
<1>1. Init => IInv
  BY InitIInv
<1>2. IInv /\ [Next]_vars => IInv'
  BY NextIInv
<1> QED
  BY <1>1, <1>2, PTL DEF Spec

\* The state of every chain has the fields of beaconState, with their types.
THEOREM TypeCorrect == Spec => []TypeOK
<1>1. IInv => TypeOK
  BY DEF IInv
<1> QED
  BY <1>1, Invariance, PTL

\* The three checkpoints stay ordered, whatever is voted and slashed, and the delay of
\* finality is defined.
THEOREM CheckpointsOrdered == Spec => []CheckpointOrder
<1>1. IInv => CheckpointOrder
  BY DEF IInv, Sound, Ordered, Delayed, CheckpointOrder, FinalityDelayDefined
<1> QED
  BY <1>1, Invariance, PTL

\* The underflow check of get_finality_delay never halts a chain.
THEOREM FinalityDelayAlwaysDefined == Spec => []FinalityDelayDefined
<1>1. IInv => FinalityDelayDefined
  BY DEF IInv, Sound, Delayed, FinalityDelayDefined
<1> QED
  BY <1>1, Invariance, PTL

LEMMA InitAInv == Init => AInv
<1> SUFFICES ASSUME Init PROVE AInv
  OBVIOUS
<1>1. IInv
  BY InitIInv
<1>2. live = {Trunk} /\ Trunk \in Chains
  BY FinalityAssumption DEF Init
<1> DEFINE s == chain[Trunk]
<1>3. /\ s.epoch = GENESIS_EPOCH
      /\ \A i \in 0..JUSTIFICATION_BITS_LENGTH - 1 : s.bits[i] = FALSE
      /\ s.previous_justified = GenesisCheckpoint
      /\ s.current_justified = GenesisCheckpoint
      /\ s.finalized = GenesisCheckpoint
      /\ s.previous_target = {}
      /\ s.current_target = {}
      /\ s.votes = {}
      /\ s.links = {}
      /\ s.roots[GENESIS_EPOCH] = GenesisCheckpoint.root
  <2>1. s = [ epoch              |-> GENESIS_EPOCH,
              bits               |-> [i \in 0..JUSTIFICATION_BITS_LENGTH - 1 |-> FALSE],
              previous_justified |-> GenesisCheckpoint,
              current_justified  |-> GenesisCheckpoint,
              finalized          |-> GenesisCheckpoint,
              previous_target    |-> {},
              current_target     |-> {},
              slashed            |-> {},
              roots              |-> [e \in 0..MaxEpoch |-> GenesisCheckpoint.root],
              votes              |-> {},
              links              |-> {} ]
    BY <1>2 DEF Init
  <2>2. GENESIS_EPOCH \in 0..MaxEpoch
    BY FinalityAssumption DEF GENESIS_EPOCH
  <2> HIDE DEF s
  <2> QED  BY <2>1, <2>2
<1> HIDE DEF s
<1>4. Accounted(s)
  <2>1. FlagsVoted(s) /\ VotesFollow(s) /\ LinksFollow(s) /\ LinksCarried(s)
    BY <1>3 DEF FlagsVoted, VotesFollow, LinksFollow, LinksCarried
  <2>2. BitsSay(s)
    BY <1>3 DEF BitsSay
  <2>3. SourcesJustified(s)
    BY <1>3 DEF SourcesJustified, JustifiedIn, GENESIS_EPOCH
  <2>4. LatestSupported(s)
    BY <1>3 DEF LatestSupported
  <2> QED  BY <2>1, <2>2, <2>3, <2>4 DEF Accounted
<1>5. RootsMade
  <2>1. \A e \in 0..s.epoch : e = 0
    BY <1>3 DEF GENESIS_EPOCH
  <2>2. Made(Trunk, 0, 0, Trunk)
    BY <1>3 DEF Made, s, GenesisCheckpoint, GENESIS_EPOCH
  <2> QED  BY <1>2, <2>1, <2>2 DEF RootsMade, s
<1> QED
  BY <1>1, <1>2, <1>4, <1>5 DEF AInv, s

LEMMA NextAInv == AInv /\ [Next]_vars => AInv'
<1> SUFFICES ASSUME AInv, [Next]_vars PROVE AInv'
  OBVIOUS
<1>1. IInv'
  BY NextIInv DEF AInv
<1>2. CASE UNCHANGED vars
  <2>1. chain' = chain /\ live' = live
    BY <1>2 DEF vars
  <2>2. RootsMade'
    <3>1. ASSUME NEW d, NEW e, NEW n, NEW x, Made(d, e, n, x) PROVE Made(d, e, n, x)'
      BY <2>1, <3>1 DEF Made
    <3>2. RootsMade
      BY DEF AInv
    <3> HIDE DEF Made
    <3> QED  BY <2>1, <3>1, <3>2 DEF RootsMade
  <2>3. \A c \in live' : Accounted(chain'[c])
    BY <2>1 DEF AInv
  <2> QED  BY <1>1, <2>2, <2>3 DEF AInv
<1>3. CASE Next
  <2>1. Moves
    BY <1>3, NextMoves DEF AInv
  <2>2. ASSUME NEW c \in live, NEW t, Step(c, chain[c], t),
               live' = live, chain' = [chain EXCEPT ![c] = t]
        PROVE  AInv'
    <3>1. RootsMade'
      BY <2>2, LengthensMade DEF AInv
    <3>2. \A d \in live : Accounted(chain'[d])
      BY <2>2 DEF AInv, IInv, TypeOK, Step
    <3> QED  BY <1>1, <2>2, <3>1, <3>2 DEF AInv
  <2>3. ASSUME NEW c \in live, NEW d \in Chains \ live,
               live' = live \cup {d}, chain' = [chain EXCEPT ![d] = chain[c]]
        PROVE  AInv'
    <3>1. RootsMade'
      BY <2>3, ForkMade DEF AInv
    <3>2. \A x \in live' : Accounted(chain'[x])
      BY <2>3 DEF AInv, IInv, TypeOK
    <3> QED  BY <1>1, <3>1, <3>2 DEF AInv
  <2> QED  BY <2>1, <2>2, <2>3 DEF Moves
<1> QED
  BY <1>2, <1>3

THEOREM AccountInvariance == Spec => []AInv
<1>1. Init => AInv
  BY InitAInv
<1>2. AInv /\ [Next]_vars => AInv'
  BY NextAInv
<1> QED
  BY <1>1, <1>2, PTL DEF Spec

\* The bits record exactly the justifications, and the votes of two thirds of the
\* balance, with one source and one target, are behind each of them.
THEOREM JustificationAlwaysSound == Spec => []JustificationSound
<1>1. AInv => JustificationSound
  <2> SUFFICES ASSUME AInv PROVE JustificationSound
    OBVIOUS
  <2>1. BitsAgree
    BY DEF AInv, Accounted, BitsSay, BitsAgree
  <2>2. LinksBackedByVotes
    <3> SUFFICES ASSUME NEW c \in live, NEW l \in chain[c].links
                 PROVE  /\ l.source.epoch < l.target.epoch
                        /\ l.source \in JustifiedIn(chain[c])
                        /\ \A m \in chain[c].links : m.target.epoch = l.target.epoch => m = l
                        /\ SupermajorityOf(Cardinality(Units(Supporters(chain[c], l))))
      BY DEF LinksBackedByVotes, Supporters
    <3> QED  BY DEF AInv, Accounted, LinksFollow, LinksCarried
  <2> QED  BY <2>1, <2>2 DEF JustificationSound
<1> QED
  BY <1>1, AccountInvariance, PTL

\* The rules over four bits finalize the latest checkpoint that the links support.
THEOREM FinalizedAlwaysLatest == Spec => []FinalizedIsLatestSupported
<1>1. AInv => FinalizedIsLatestSupported
  BY DEF AInv, Accounted, LatestSupported, FinalizedIsLatestSupported
<1> QED
  BY <1>1, AccountInvariance, PTL

\* Supporters of a link of one chain that support one of another as well are
\* offenders when the votes for the two links are slashable.
LEMMA SlashableLinks ==
    ASSUME AInv, NEW c \in live, NEW d \in live,
           NEW k \in chain[c].links, NEW l \in chain[d].links,
           \/ k.source # l.source /\ k.target.epoch = l.target.epoch
           \/ k.target # l.target /\ k.target.epoch = l.target.epoch
           \/ l.source.epoch < k.source.epoch /\ k.target.epoch < l.target.epoch
    PROVE  Cardinality(Units(Offenders(c, d))) * 3 >= get_total_active_balance
<1> DEFINE A == Supporters(chain[c], k)
           B == Supporters(chain[d], l)
           C == Offenders(c, d)
<1>1. A \in SUBSET Validators /\ B \in SUBSET Validators /\ C \in SUBSET Validators
  BY DEF Supporters, Offenders
<1>2. SupermajorityOf(Cardinality(Units(A))) /\ SupermajorityOf(Cardinality(Units(B)))
  BY DEF AInv, Accounted, LinksCarried
<1>3. ASSUME NEW v \in A \cap B
      PROVE  v \in C
  <2> DEFINE x == [validator |-> v, source |-> k.source, target |-> k.target]
             y == [validator |-> v, source |-> l.source, target |-> l.target]
  <2>1. x \in chain[c].votes /\ y \in chain[d].votes /\ v \in Validators
    BY DEF Supporters
  <2>2. /\ x.validator = v /\ x.source = k.source /\ x.target = k.target
        /\ y.validator = v /\ y.source = l.source /\ y.target = l.target
    OBVIOUS
  <2> HIDE DEF x, y
  <2>3. is_slashable_attestation_data(x, y) \/ is_slashable_attestation_data(y, x)
    BY <2>2 DEF is_slashable_attestation_data
  <2> QED  BY <2>1, <2>2, <2>3 DEF Offenders
<1> HIDE DEF A, B, C
<1>4. A \cap B \subseteq C
  BY <1>3
<1> QED
  BY <1>1, <1>2, <1>4, SupermajoritiesIntersect DEF C

\* Among links of which some reach an epoch, one that reaches it first.
LEMMA FirstLink ==
    ASSUME NEW s \in ChainStates, NEW f \in Nat,
           \E l \in s.links : l.target.epoch >= f
    PROVE  \E l \in s.links : /\ l.target.epoch >= f
                              /\ \A m \in s.links : m.target.epoch >= f
                                    => l.target.epoch <= m.target.epoch
<1> DEFINE T == {l.target.epoch : l \in {m \in s.links : m.target.epoch >= f}}
<1>1. T \subseteq Nat /\ T # {}
  BY ChainTypes
<1>2. PICK n \in T : \A m \in T : ~(<<m, n>> \in OpToRel(<, Nat))
  <2> HIDE DEF T
  <2> QED  BY <1>1, NatLessThanWellFounded, WFMin
<1>3. \A m \in T : ~(m < n)
  BY <1>1, <1>2 DEF OpToRel
<1>4. PICK l \in s.links : l.target.epoch >= f /\ l.target.epoch = n
  OBVIOUS
<1>5. ASSUME NEW m \in s.links, m.target.epoch >= f
      PROVE  l.target.epoch <= m.target.epoch
  <2>1. m.target.epoch \in T
    BY <1>5
  <2>2. m.target.epoch \in Nat /\ n \in Nat
    BY ChainTypes, <1>1
  <2> HIDE DEF T
  <2> QED  BY <1>3, <1>4, <2>1, <2>2
<1> QED
  BY <1>4, <1>5

\* Conflicting checkpoints are finalized only by the votes of a third of the
\* balance that are slashable: the link of d that first passes the epoch which
\* c finalized crosses, or doubles, one of the links of c.
LEMMA ConflictSlashable ==
    ASSUME AInv, NEW c \in live, NEW d \in live, Conflicting(c, d)
    PROVE  Cardinality(Units(Offenders(c, d))) * 3 >= get_total_active_balance
<1> DEFINE s == chain[c]
           t == chain[d]
           f == s.finalized
<1>1. /\ s \in ChainStates /\ Sound(s) /\ Accounted(s)
      /\ t \in ChainStates /\ Sound(t) /\ Accounted(t)
  BY DEF AInv, IInv, TypeOK
<1>2. /\ f.epoch \in Nat
      /\ s.epoch \in Nat
      /\ t.epoch \in Nat
      /\ t.finalized.epoch \in Nat
      /\ f \in Checkpoints
      /\ t.finalized \in Checkpoints
  BY <1>1 DEF ChainStates, Checkpoints
<1>3. /\ f.epoch <= t.finalized.epoch
      /\ t.roots[f.epoch] # f.root
      /\ s.roots[f.epoch] = f.root
  BY <1>1 DEF Conflicting, OnChain, Sound, Anchored
<1>4. /\ s.roots[0] = GenesisCheckpoint.root
      /\ t.roots[0] = GenesisCheckpoint.root
  BY <1>1 DEF Accounted, SourcesJustified, GENESIS_EPOCH
<1>5. f.epoch # 0
  BY <1>3, <1>4
<1>6. /\ f # GenesisCheckpoint
      /\ t.finalized # GenesisCheckpoint
  BY <1>2, <1>3, <1>5 DEF GenesisCheckpoint, GENESIS_EPOCH
<1>7. PICK k \in s.links : k.source = f /\ SupportsFinality(s, k)
  BY <1>1, <1>6 DEF Accounted, LatestSupported
<1>8. PICK j \in t.links : j.source = t.finalized
  BY <1>1, <1>6 DEF Accounted, LatestSupported
<1>9. PICK l \in t.links : /\ l.target.epoch >= f.epoch
                           /\ \A m \in t.links : m.target.epoch >= f.epoch
                                => l.target.epoch <= m.target.epoch
  <2>1. j.target.epoch >= f.epoch
    BY <1>1, <1>2, <1>3, <1>8, ChainTypes DEF Accounted, LinksFollow
  <2> HIDE DEF t, f
  <2> QED  BY <1>1, <1>2, <2>1, FirstLink
<1>10. /\ k.source.epoch \in Nat
       /\ k.target.epoch \in Nat
       /\ k.target.epoch < s.epoch
       /\ l.source.epoch \in Nat
       /\ l.target.epoch \in Nat
       /\ l.target.epoch < t.epoch
       /\ l.source.epoch < l.target.epoch
       /\ l.target = CheckpointAt(t, l.target.epoch)
       /\ l.source \in JustifiedIn(t)
       /\ f \in JustifiedIn(s)
  BY <1>1, <1>7, ChainTypes DEF Accounted, LinksFollow
<1>11. l.source.epoch < f.epoch
  <2>1. CASE l.source = GenesisCheckpoint
    BY <1>2, <1>5, <2>1 DEF GenesisCheckpoint, GENESIS_EPOCH
  <2>2. CASE \E m \in t.links : m.target = l.source
    <3>1. PICK m \in t.links : m.target = l.source
      BY <2>2
    <3> QED  BY <1>2, <1>9, <1>10, <3>1
  <2> QED  BY <1>10, <2>1, <2>2 DEF JustifiedIn
<1>12. CASE l.target.epoch = f.epoch
  <2>1. PICK m \in s.links : m.target = f
    BY <1>6, <1>10 DEF JustifiedIn
  <2>2. m.target # l.target
    BY <1>3, <1>10, <1>12, <2>1 DEF CheckpointAt
  <2> QED  BY <1>12, <2>1, <2>2, SlashableLinks
<1>13. CASE l.target.epoch = k.target.epoch
  <2>1. k.source # l.source
    BY <1>2, <1>7, <1>11
  <2> QED  BY <1>13, <2>1, SlashableLinks
<1>14. CASE l.target.epoch > k.target.epoch
  BY <1>2, <1>7, <1>10, <1>11, <1>14, SlashableLinks
<1>15. CASE f.epoch < l.target.epoch /\ l.target.epoch < k.target.epoch
  <2> DEFINE e == f.epoch + 1
             m == CheckpointAt(s, e)
  <2>1. /\ l.target.epoch = e
        /\ e \in Nat
        /\ e <= s.epoch
        /\ e <= t.epoch
        /\ m \in JustifiedIn(s)
    BY <1>2, <1>7, <1>10, <1>15 DEF SupportsFinality
  <2>2. m.epoch = e /\ m.root = s.roots[e]
    BY DEF CheckpointAt
  <2>3. PICK n \in s.links : n.target = m
    BY <1>2, <2>1, <2>2 DEF JustifiedIn, GenesisCheckpoint, GENESIS_EPOCH
  <2>4. s.roots[e] # t.roots[e]
    <3>1. SUFFICES ASSUME s.roots[e] = t.roots[e] PROVE FALSE
      OBVIOUS
    <3>2. f.epoch \in 0..e
      BY <1>2
    <3>3. s.roots[f.epoch] = t.roots[f.epoch]
      <4> HIDE DEF e
      <4> QED  BY <2>1, <3>1, <3>2, SamePast DEF AInv
    <3> QED  BY <1>3, <3>3
  <2>5. n.target # l.target
    BY <1>10, <2>1, <2>2, <2>3, <2>4 DEF CheckpointAt
  <2>6. n.target.epoch = l.target.epoch
    BY <2>1, <2>2, <2>3
  <2> QED  BY <2>5, <2>6, SlashableLinks
<1> QED
  BY <1>2, <1>9, <1>10, <1>12, <1>13, <1>14, <1>15

\* Casper's accountable safety, for the rules as the code computes them.
THEOREM AlwaysAccountable == Spec => []AccountableSafety
<1>1. AInv => AccountableSafety
  BY ConflictSlashable DEF AccountableSafety
<1> QED
  BY <1>1, AccountInvariance, PTL

\* No step takes a finalized checkpoint back or off the chain.
THEOREM FinalityNeverReverts == Spec => FinalityMonotone
<1> DEFINE A == \A c \in live :
                  /\ chain'[c].finalized.epoch >= chain[c].finalized.epoch
                  /\ OnChain(chain'[c], chain'[c].finalized)
                  /\ OnChain(chain'[c], chain[c].finalized)
<1>1. IInv /\ [Next]_vars => [A]_vars
  <2> SUFFICES ASSUME IInv, Next, NEW c \in live
               PROVE  /\ chain'[c].finalized.epoch >= chain[c].finalized.epoch
                      /\ OnChain(chain'[c], chain'[c].finalized)
                      /\ OnChain(chain'[c], chain[c].finalized)
    OBVIOUS
  <2>1. /\ c \in Chains
        /\ chain[c] \in ChainStates
        /\ Sound(chain[c])
    BY DEF IInv, TypeOK
  <2>2. Step(c, chain[c], chain[c])
    BY <2>1, SameCheckpointsStep DEF SameCheckpoints
  <2>3. Step(c, chain[c], chain'[c])
    BY <2>1, <2>2, NextMoves DEF Moves, IInv, TypeOK
  <2> QED
    BY <2>3 DEF Step, Sound, Anchored
<1> QED
  BY <1>1, Invariance, PTL DEF Spec, FinalityMonotone
=============================================================================
