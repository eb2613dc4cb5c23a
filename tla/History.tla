------------------------------ MODULE History ------------------------------
(***************************************************************************)
(* What a chain remembers of its past: the rings of block roots and state  *)
(* roots, the latest block header, whose state root is filled in only      *)
(* after the block was processed, and the historical summaries that keep   *)
(* what the rings are about to forget.                                     *)
(*                                                                         *)
(* A root is modelled by what it was computed from.  On one chain the slot *)
(* determines the state that ends it and the header of the block in it, so *)
(* a state root is its slot, and the root of a header is its slot with the *)
(* state root it held when it was hashed.                                  *)
(***************************************************************************)
EXTENDS Integers, Sequences

CONSTANTS
    SLOTS_PER_EPOCH,
    SLOTS_PER_HISTORICAL_ROOT,
    MaxSlot                             \* bound: no step beyond this slot

ASSUME HistoryAssumption ==
    /\ SLOTS_PER_EPOCH \in Nat \ {0}
    /\ SLOTS_PER_HISTORICAL_ROOT \in Nat \ {0}
    /\ MaxSlot \in Nat

\* A period is a whole number of epochs (8192 slots and 32 in the preset).
ASSUME WholeEpochs == SLOTS_PER_HISTORICAL_ROOT % SLOTS_PER_EPOCH = 0

VARIABLES
    slot,                   \* the slot of the state
    header,                 \* LATEST_BLOCK_HEADER
    block_roots,            \* the ring of block roots
    state_roots,            \* the ring of state roots
    historical_summaries,
    latest                  \* history: the slot of the latest block as of the
                            \* end of each slot that has ended

vars == <<slot, header, block_roots, state_roots, historical_summaries, latest>>

-----------------------------------------------------------------------------
(* Roots *)

NoSlot == -1
ZERO_ROOT == NoSlot
StateRootOf(s) == s

hash_tree_root_beaconBlockHeader(h) == <<h.slot, h.state_root>>

\* The root of the block of slot b, as the rest of the world knows it: with the
\* state that the block leads to.
RootOfBlock(b) == <<b, StateRootOf(b)>>

StateRoot == Nat \cup {ZERO_ROOT}
NoBlockRoot == <<NoSlot, ZERO_ROOT>>
BlockRoot == (Nat \X StateRoot) \cup {NoBlockRoot}

Header == [slot : Nat, state_root : StateRoot]

Ring == 0..SLOTS_PER_HISTORICAL_ROOT - 1
Index(s) == s % SLOTS_PER_HISTORICAL_ROOT

-----------------------------------------------------------------------------
(* ProcessSlot, and what of ProcessEpoch concerns the past *)

\* A fault: the state root is filled in anew in every slot.
AlwaysFilled == [header EXCEPT !.state_root = StateRootOf(slot)]

\* A fault: it is never filled in.
NeverFilled == header

FilledHeader ==
    IF header.state_root = ZERO_ROOT
    THEN [header EXCEPT !.state_root = StateRootOf(slot)]
    ELSE header

BlockRootsAfterSlot ==
    [block_roots EXCEPT ![Index(slot)] = hash_tree_root_beaconBlockHeader(FilledHeader)]

StateRootsAfterSlot == [state_roots EXCEPT ![Index(slot)] = StateRootOf(slot)]

compute_epoch_at_slot(s) == s \div SLOTS_PER_EPOCH

\* A fault: the period is counted from the epoch that ends.
EndsPeriodByCurrentEpoch ==
    /\ (slot + 1) % SLOTS_PER_EPOCH = 0
    /\ compute_epoch_at_slot(slot) % (SLOTS_PER_HISTORICAL_ROOT \div SLOTS_PER_EPOCH) = 0

\* ProcessHistoricalSummariesUpdate acts in the last slot of an epoch, and then
\* when the next epoch starts a period.
EndsPeriod ==
    /\ (slot + 1) % SLOTS_PER_EPOCH = 0
    /\ (compute_epoch_at_slot(slot) + 1)
          % (SLOTS_PER_HISTORICAL_ROOT \div SLOTS_PER_EPOCH) = 0

HistoricalSummary ==
    [block_summary_root : [Ring -> BlockRoot], state_summary_root : [Ring -> StateRoot]]

Summary(blocks, states) ==
    [block_summary_root |-> blocks, state_summary_root |-> states]

get_block_root_at_slot(s) == block_roots[Index(s)]

-----------------------------------------------------------------------------
(* The steps *)

Init ==
    /\ slot = 0
    /\ header = [slot |-> 0, state_root |-> ZERO_ROOT]
    /\ block_roots = [i \in Ring |-> NoBlockRoot]
    /\ state_roots = [i \in Ring |-> ZERO_ROOT]
    /\ historical_summaries = <<>>
    /\ latest = [s \in {} |-> 0]

\* One turn of the loop of ProcessSlots, with or without an epoch transition.
ProcessSlots_loop ==
    /\ slot < MaxSlot
    /\ block_roots' = BlockRootsAfterSlot
    /\ state_roots' = StateRootsAfterSlot
    /\ header' = FilledHeader
    /\ historical_summaries' =
          IF EndsPeriod
          THEN Append(historical_summaries, Summary(block_roots', state_roots'))
          ELSE historical_summaries
    /\ slot' = slot + 1
    /\ latest' = [s \in 0..slot |-> IF s = slot THEN header.slot ELSE latest[s]]

\* A block for the slot of the state, newer than the latest one.  Its parent root
\* is the root of the latest header, as that stands now.
ProcessBlockHeader ==
    /\ header.slot < slot
    /\ header' = [slot |-> slot, state_root |-> ZERO_ROOT]
    /\ UNCHANGED <<slot, block_roots, state_roots, historical_summaries, latest>>

Next == ProcessSlots_loop \/ ProcessBlockHeader

Spec == Init /\ [][Next]_vars

-----------------------------------------------------------------------------
(* Properties *)

Ended == 0..slot - 1

Remembered(s) == s \in Ended /\ slot <= s + SLOTS_PER_HISTORICAL_ROOT

\* Types; the latest header lacks its state root in the slot of its block only.
TypeOK ==
    /\ slot \in Nat
    /\ header \in Header
    /\ header.slot <= slot
    /\ header.state_root = ZERO_ROOT <=> header.slot = slot
    /\ block_roots \in [Ring -> BlockRoot]
    /\ state_roots \in [Ring -> StateRoot]
    /\ historical_summaries \in Seq(HistoricalSummary)
    /\ latest \in [Ended -> Nat]

\* Whatever mix of blocks and empty slots there was: a block root that
\* get_block_root_at_slot serves is the root of the latest block as of that slot,
\* with the state root of the state the block led to.
BlockRootsServed ==
    \A s \in Ended :
        Remembered(s) => get_block_root_at_slot(s) = RootOfBlock(latest[s])

\* The ring of state roots serves the root of the state that ended each slot.
StateRootsServed ==
    \A s \in Ended : Remembered(s) => state_roots[Index(s)] = StateRootOf(s)

\* A block is built on its parent's final header: when a block can be accepted the
\* latest header has the root that the ring serves for the slot before, so that
\* the parent root of a block and the block roots that votes are checked against
\* name the same block.
ParentIsServed ==
    header.slot < slot =>
        /\ hash_tree_root_beaconBlockHeader(header) = RootOfBlock(header.slot)
        /\ get_block_root_at_slot(slot - 1) = hash_tree_root_beaconBlockHeader(header)

\* What the rings serve is the true past.
RootsServed == BlockRootsServed /\ StateRootsServed /\ ParentIsServed

\* Nothing is forgotten: the historical summaries hold, period after period, the
\* roots of every slot of every period that has ended, and no others.
SummariesComplete ==
    /\ Len(historical_summaries) = slot \div SLOTS_PER_HISTORICAL_ROOT
    /\ \A k \in DOMAIN historical_summaries : \A i \in Ring :
          LET s == (k - 1) * SLOTS_PER_HISTORICAL_ROOT + i
          IN  /\ historical_summaries[k].block_summary_root[i] = RootOfBlock(latest[s])
              /\ historical_summaries[k].state_summary_root[i] = StateRootOf(s)
=============================================================================
