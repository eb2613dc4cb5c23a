---------------------------- MODULE Eth1Deposits ----------------------------
(***************************************************************************)
(* Deposits from the execution chain.  In every block the proposer votes   *)
(* for a view of the deposit contract; the view that a majority of the     *)
(* slots of a voting period voted for is adopted, and the same block must  *)
(* then carry the next deposits of that view, in order and as many as fit. *)
(*                                                                         *)
(* The deposit contract only appends, so that a view of it is the number   *)
(* of deposits it has; Tree holds them all.  A deposit is valid in a block *)
(* only with a Merkle proof that it is the one at ETH1_DEPOSIT_INDEX, and  *)
(* is therefore determined by that index.                                  *)
(***************************************************************************)
EXTENDS Integers, Sequences, FiniteSets

CONSTANTS
    SlotsPerPeriod,         \* EPOCHS_PER_ETH1_VOTING_PERIOD * SLOTS_PER_EPOCH
    MAX_DEPOSITS,
    Tree,                   \* the deposits: [pubkey, signed]
    Views                   \* the views that proposers vote for

ASSUME Eth1Assumption ==
    /\ SlotsPerPeriod \in Nat \ {0}
    /\ MAX_DEPOSITS \in Nat \ {0}
    /\ Views \subseteq Nat
    /\ 0 \in Views

VARIABLES
    position,               \* the position of the slot in the voting period
    filled,                 \* whether the slot has its block
    votes,                  \* ETH1_DATA_VOTES: how often each view was voted for
    eth1_data,              \* the view adopted
    eth1_deposit_index,     \* how many deposits were processed
    validators              \* the registry: [pubkey, balance], in order

vars == <<position, filled, votes, eth1_data, eth1_deposit_index, validators>>

-----------------------------------------------------------------------------
(* ProcessEth1Data *)

VotesAfter(vote) == [votes EXCEPT ![vote] = @ + 1]

IsMajority(n) == n * 2 > SlotsPerPeriod

DataAfter(vote) == IF IsMajority(VotesAfter(vote)[vote]) THEN vote ELSE eth1_data

-----------------------------------------------------------------------------
(* ApplyDeposit, on a registry vs: every deposit adds one to a balance. *)

\* A fault: an unsigned deposit does not top up a balance either.
SignedOnly(vs, deposit) ==
    LET own == {i \in DOMAIN vs : vs[i].pubkey = deposit.pubkey}
    IN  IF ~deposit.signed THEN vs
        ELSE IF own = {} THEN Append(vs, [pubkey |-> deposit.pubkey, balance |-> 1])
        ELSE [vs EXCEPT ![CHOOSE i \in own : TRUE].balance = @ + 1]

\* Only the first deposit of a key needs a signature; without one it is lost.
ApplyDeposit(vs, deposit) ==
    LET own == {i \in DOMAIN vs : vs[i].pubkey = deposit.pubkey}
    IN  IF own # {}
        THEN [vs EXCEPT ![CHOOSE i \in own : \A j \in own : i <= j].balance = @ + 1]
        ELSE IF deposit.signed
        THEN Append(vs, [pubkey |-> deposit.pubkey, balance |-> 1])
        ELSE vs

\* The registry once n more deposits, from the given index on, are processed.
ProcessDeposits(vs, index, n) ==
    LET after[k \in 0..n] ==
            IF k = 0 THEN vs ELSE ApplyDeposit(after[k - 1], Tree[index + k])
    IN  after[n]

-----------------------------------------------------------------------------
(* The steps *)

Init ==
    /\ position = 0
    /\ filled = FALSE
    /\ votes = [v \in Views |-> 0]
    /\ eth1_data = 0
    /\ eth1_deposit_index = 0
    /\ validators = <<>>

\* Two faults: the operations of the block see the view from before its vote;
\* deposits wait until they fill a block.
ViewBeforeVote(vote) == eth1_data

DepositsView(vote) == DataAfter(vote)

WholeBatches(view) ==
    IF view - eth1_deposit_index >= MAX_DEPOSITS THEN MAX_DEPOSITS ELSE 0

\* A third: a block always carries as many as it can.
FullBlocks(view) == MAX_DEPOSITS

DepositsDue(view) ==
    IF MAX_DEPOSITS <= view - eth1_deposit_index
    THEN MAX_DEPOSITS
    ELSE view - eth1_deposit_index

\* A block is only valid with all the deposits that are due, and if the view that
\* its own vote may have adopted is not behind what was processed already.
ProcessBlock(vote) ==
    /\ ~filled
    /\ filled' = TRUE
    /\ votes' = VotesAfter(vote)
    /\ eth1_data' = DataAfter(vote)
    /\ LET view == DepositsView(vote)
           n    == DepositsDue(view)
       IN  /\ eth1_deposit_index <= view
           /\ validators' = ProcessDeposits(validators, eth1_deposit_index, n)
           /\ eth1_deposit_index' = eth1_deposit_index + n
    /\ UNCHANGED position

\* A fault: the votes of a period are kept for the next.
VotesKept == votes

VotesReset ==
    IF position + 1 = SlotsPerPeriod THEN [v \in Views |-> 0] ELSE votes

\* The slot ends, with or without a block; ProcessEth1DataReset acts when the next
\* slot starts a period.
ProcessSlot ==
    /\ position' = IF position + 1 = SlotsPerPeriod THEN 0 ELSE position + 1
    /\ votes' = VotesReset
    /\ filled' = FALSE
    /\ UNCHANGED <<eth1_data, eth1_deposit_index, validators>>

Block == \E vote \in Views : ProcessBlock(vote)

Next == Block \/ ProcessSlot

\* Slots pass, and there are always blocks to come.
Fairness == WF_vars(ProcessSlot) /\ SF_vars(Block)

Spec == Init /\ [][Next]_vars /\ Fairness

-----------------------------------------------------------------------------
(* Properties *)

\* Types; more was never processed than the adopted view has, so that the number of
\* deposits still due is never negative.
TypeOK ==
    /\ position \in 0..SlotsPerPeriod - 1
    /\ filled \in BOOLEAN
    /\ votes \in [Views -> Nat]
    /\ eth1_data \in Views
    /\ eth1_deposit_index \in 0..eth1_data

\* A voting period adopts one view at most: when a view is adopted, no view had a
\* majority in this period before.
OneWinnerPerPeriod ==
    [][eth1_data' # eth1_data => \A v \in Views : ~IsMajority(votes[v])]_vars

\* Whatever was voted for and adopted, including views that are behind, there is
\* always a block that can be processed.
NeverStuck == ~filled => ENABLED Block

\* Every processed deposit counted once: the registry holds each key once, from its
\* first signed deposit on, with one for each of its deposits since.
DepositsCountedOnce ==
    LET Done == 1..eth1_deposit_index
        Of(k) == {i \in Done : Tree[i].pubkey = k}
        Registered(k) == {i \in Of(k) : \E j \in Of(k) : j <= i /\ Tree[j].signed}
    IN  /\ \A i, j \in DOMAIN validators :
             i # j => validators[i].pubkey # validators[j].pubkey
        /\ {validators[i].pubkey : i \in DOMAIN validators}
             = {Tree[i].pubkey : i \in {j \in Done : Registered(Tree[j].pubkey) # {}}}
        /\ \A i \in DOMAIN validators :
             validators[i].balance = Cardinality(Registered(validators[i].pubkey))

\* The backlog of deposits is worked off again and again.
BacklogCleared == []<>(eth1_deposit_index = eth1_data)
=============================================================================
