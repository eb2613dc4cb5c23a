----------------------------- MODULE Eth1Proofs -----------------------------
(***************************************************************************)
(* Proofs about Eth1Deposits, for voting periods of any length and any     *)
(* views.  Each slot gives one vote at most, so that two views never had   *)
(* more votes together than slots have passed (VotesFitSlots); hence they  *)
(* cannot both have a majority, and the one that has it was adopted when   *)
(* it got it (WinnerAdopted).                                              *)
(*                                                                         *)
(* The registry is a fold of ApplyDeposit over the deposits of a block: a  *)
(* recursive function, which exists, and of which CountsOnce holds at each *)
(* index, both by induction (SetInduction).                                *)
(***************************************************************************)
EXTENDS Eth1Deposits, FiniteSetTheorems, TLAPS

\* The slots of the period that may have voted so far.
SlotsUsed == position + (IF filled THEN 1 ELSE 0)

VotesFitSlots ==
    \A c, d \in Views : c # d => votes[c] + votes[d] <= SlotsUsed

WinnerAdopted == \A c \in Views : IsMajority(votes[c]) => eth1_data = c

IInv == TypeOK /\ VotesFitSlots /\ WinnerAdopted

LEMMA InitIInv == Init => IInv
<1> SUFFICES ASSUME Init PROVE IInv
  OBVIOUS
<1>1. TypeOK
  <2>1. position \in 0..SlotsPerPeriod - 1
    BY Eth1Assumption DEF Init
  <2>2. filled \in BOOLEAN
    BY DEF Init
  <2>3. votes \in [Views -> Nat]
    BY DEF Init
  <2>4. /\ eth1_data \in Views
        /\ eth1_deposit_index \in 0..eth1_data
    BY Eth1Assumption DEF Init
  <2> QED
    BY <2>1, <2>2, <2>3, <2>4 DEF TypeOK
<1>2. VotesFitSlots
  BY DEF Init, VotesFitSlots, SlotsUsed
<1>3. WinnerAdopted
  BY Eth1Assumption DEF Init, WinnerAdopted, IsMajority
<1> QED
  BY <1>1, <1>2, <1>3 DEF IInv

(* With this block's vote counted, two views still have no more votes than slots. *)
LEMMA VoteFits ==
    ASSUME IInv, ~filled, NEW vote \in Views
    PROVE  /\ VotesAfter(vote) \in [Views -> Nat]
           /\ \A c, d \in Views :
                c # d => VotesAfter(vote)[c] + VotesAfter(vote)[d] <= position + 1
<1>1. /\ votes \in [Views -> Nat]
      /\ position \in Nat
  BY Eth1Assumption DEF IInv, TypeOK
<1>2. ASSUME NEW c \in Views, NEW d \in Views, c # d
      PROVE  votes[c] + votes[d] <= position
  BY <1>1, <1>2 DEF IInv, VotesFitSlots, SlotsUsed
<1>3. ASSUME NEW c \in Views
      PROVE  VotesAfter(vote)[c] = IF c = vote THEN votes[c] + 1 ELSE votes[c]
  BY <1>1 DEF VotesAfter
<1>4. VotesAfter(vote) \in [Views -> Nat]
  BY <1>1 DEF VotesAfter
<1>5. ASSUME NEW c \in Views, NEW d \in Views, c # d
      PROVE  VotesAfter(vote)[c] + VotesAfter(vote)[d] <= position + 1
  <2>1. /\ votes[c] \in Nat
        /\ votes[d] \in Nat
    BY <1>1
  <2> QED
    BY <1>1, <1>2, <1>3, <1>5, <2>1
<1> QED
  BY <1>4, <1>5

(* A block whose vote is decisive cannot meet another view that has its majority. *)
LEMMA OneMajority ==
    ASSUME IInv, ~filled, NEW vote \in Views, NEW c \in Views,
           IsMajority(VotesAfter(vote)[vote]), IsMajority(VotesAfter(vote)[c])
    PROVE  c = vote
<1> SUFFICES ASSUME c # vote PROVE FALSE
  OBVIOUS
<1> DEFINE x == VotesAfter(vote)[vote]
           y == VotesAfter(vote)[c]
<1>1. /\ x \in Nat
      /\ y \in Nat
      /\ x + y <= position + 1
  BY VoteFits
<1>2. /\ position \in Nat
      /\ position + 1 <= SlotsPerPeriod
      /\ SlotsPerPeriod \in Nat
  BY Eth1Assumption DEF IInv, TypeOK
<1>3. /\ x * 2 > SlotsPerPeriod
      /\ y * 2 > SlotsPerPeriod
  BY DEF IsMajority
<1> HIDE DEF x, y
<1> QED
  BY <1>1, <1>2, <1>3

LEMMA BlockKeepsIInv ==
    ASSUME IInv, NEW vote \in Views, ProcessBlock(vote)
    PROVE  IInv'
<1> USE DEF ProcessBlock
<1>1. /\ ~filled /\ filled' = TRUE
      /\ votes' = VotesAfter(vote)
      /\ eth1_data' = DataAfter(vote)
      /\ position' = position
      /\ position \in 0..SlotsPerPeriod - 1
  BY DEF IInv, TypeOK
<1>2. eth1_data' \in Views
  BY <1>1 DEF DataAfter, IInv, TypeOK
<1>3. eth1_deposit_index' \in 0..eth1_data'
  <2> DEFINE n == DepositsDue(eth1_data')
  <2>1. /\ eth1_deposit_index <= eth1_data'
        /\ eth1_deposit_index' = eth1_deposit_index + n
    BY <1>1 DEF DepositsView
  <2>2. /\ eth1_deposit_index \in Nat
        /\ eth1_data' \in Nat
        /\ MAX_DEPOSITS \in Nat
    BY <1>2, Eth1Assumption DEF IInv, TypeOK
  <2>3. /\ n \in Nat
        /\ eth1_deposit_index + n <= eth1_data'
    BY <2>1, <2>2 DEF DepositsDue
  <2> HIDE DEF n
  <2> QED
    BY <2>1, <2>2, <2>3
<1>4. TypeOK'
  BY <1>1, <1>2, <1>3, VoteFits DEF TypeOK
<1>5. VotesFitSlots'
  BY <1>1, VoteFits DEF VotesFitSlots, SlotsUsed
<1>6. WinnerAdopted'
  <2> SUFFICES ASSUME NEW c \in Views, IsMajority(VotesAfter(vote)[c])
               PROVE  DataAfter(vote) = c
    BY <1>1 DEF WinnerAdopted, IsMajority
  <2>1. CASE IsMajority(VotesAfter(vote)[vote])
    BY <1>1, <2>1, OneMajority DEF DataAfter
  <2>2. CASE ~IsMajority(VotesAfter(vote)[vote])
    <3>1. VotesAfter(vote)[c] = votes[c]
      BY <2>2 DEF VotesAfter, IInv, TypeOK
    <3> QED
      BY <2>2, <3>1 DEF DataAfter, IInv, WinnerAdopted
  <2> QED
    BY <2>1, <2>2
<1> QED
  BY <1>4, <1>5, <1>6 DEF IInv

LEMMA SlotKeepsIInv ==
    ASSUME IInv, ProcessSlot
    PROVE  IInv'
<1>0. /\ filled' \in BOOLEAN
      /\ eth1_data' \in Views
      /\ eth1_deposit_index' \in 0..eth1_data'
  BY DEF IInv, TypeOK, ProcessSlot
<1>1. /\ position \in 0..SlotsPerPeriod - 1
      /\ votes \in [Views -> Nat]
      /\ SlotsPerPeriod \in Nat \ {0}
      /\ filled' = FALSE
      /\ UNCHANGED <<eth1_data, eth1_deposit_index>>
  BY Eth1Assumption DEF IInv, TypeOK, ProcessSlot
<1>2. CASE position + 1 = SlotsPerPeriod
  <2>1. /\ position' = 0
        /\ votes' = [v \in Views |-> 0]
    BY <1>2 DEF ProcessSlot, VotesReset
  <2>2. TypeOK'
    <3>1. position' \in 0..SlotsPerPeriod - 1
      BY <1>1, <2>1
    <3>2. votes' \in [Views -> Nat]
      BY <2>1
    <3> QED
      BY <1>0, <3>1, <3>2 DEF TypeOK
  <2>3. VotesFitSlots' /\ WinnerAdopted'
    BY <1>1, <2>1 DEF VotesFitSlots, SlotsUsed, WinnerAdopted, IsMajority
  <2> QED
    BY <2>2, <2>3 DEF IInv
<1>3. CASE position + 1 # SlotsPerPeriod
  <2>1. /\ position' = position + 1
        /\ votes' = votes
    BY <1>3 DEF ProcessSlot, VotesReset
  <2>2. TypeOK'
    <3>1. position' \in 0..SlotsPerPeriod - 1
      BY <1>1, <1>3, <2>1
    <3>2. votes' \in [Views -> Nat]
      BY <1>1, <2>1
    <3> QED
      BY <1>0, <3>1, <3>2 DEF TypeOK
  <2>3. VotesFitSlots'
    <3> SUFFICES ASSUME NEW c \in Views, NEW d \in Views, c # d
                 PROVE  votes[c] + votes[d] <= position + 1
      BY <1>1, <2>1 DEF VotesFitSlots, SlotsUsed
    <3>1. votes[c] + votes[d] <= SlotsUsed
      BY DEF IInv, VotesFitSlots
    <3>2. /\ votes[c] \in Nat /\ votes[d] \in Nat
          /\ SlotsUsed = position \/ SlotsUsed = position + 1
      BY <1>1 DEF SlotsUsed
    <3> QED
      BY <1>1, <3>1, <3>2
  <2>4. WinnerAdopted'
    BY <1>1, <2>1 DEF IInv, WinnerAdopted, IsMajority
  <2> QED
    BY <2>2, <2>3, <2>4 DEF IInv
<1> QED
  BY <1>2, <1>3

\* The invariant holds in every reachable state: each block adds its one vote, each
\* slot its room for one (ProcessEth1Data, ProcessEth1DataReset, ProcessOperations).
THEOREM Invariance == Spec => []IInv
<1>1. Init => IInv
  BY InitIInv
<1>2. IInv /\ [Next]_vars => IInv'
  <2> SUFFICES ASSUME IInv, [Next]_vars PROVE IInv'
    OBVIOUS
  <2>1. CASE Block
    BY <2>1, BlockKeepsIInv DEF Block
  <2>2. CASE ProcessSlot
    BY <2>2, SlotKeepsIInv
  <2>3. CASE UNCHANGED vars
    BY <2>3 DEF vars, IInv, TypeOK, VotesFitSlots, SlotsUsed, WinnerAdopted, IsMajority
  <2> QED
    BY <2>1, <2>2, <2>3 DEF Next
<1> QED
  BY <1>1, <1>2, PTL DEF Spec

\* The number of deposits still due, ETH1_DATA.DEPOSIT_COUNT - ETH1_DEPOSIT_INDEX of
\* ProcessOperations, is never negative.
THEOREM TypeCorrect == Spec => []TypeOK
<1>1. IInv => TypeOK
  BY DEF IInv
<1> QED
  BY <1>1, Invariance, PTL

\* ProcessEth1Data adopts one view per period at most, whatever the length of the
\* period and however many views there are.
THEOREM OneViewAdopted == Spec => OneWinnerPerPeriod
<1>1. IInv /\ [Next]_vars =>
        [eth1_data' # eth1_data => \A v \in Views : ~IsMajority(votes[v])]_vars
  <2> SUFFICES ASSUME IInv, Next, eth1_data' # eth1_data,
                      NEW c \in Views, IsMajority(votes[c])
               PROVE  FALSE
    BY DEF vars
  <2>1. PICK vote \in Views : ProcessBlock(vote)
    BY DEF Next, Block, ProcessSlot
  <2>2. /\ ~filled
        /\ IsMajority(VotesAfter(vote)[vote])
        /\ vote # eth1_data
    BY <2>1 DEF ProcessBlock, DataAfter
  <2>3. c = eth1_data
    BY DEF IInv, WinnerAdopted
  <2>4. VotesAfter(vote)[c] = votes[c]
    BY <2>2, <2>3 DEF VotesAfter, IInv, TypeOK
  <2> QED
    BY <2>2, <2>3, <2>4, OneMajority
<1> QED
  BY <1>1, Invariance, PTL DEF Spec, OneWinnerPerPeriod

-----------------------------------------------------------------------------
(* Deposits processed one after the other *)

\* Induction over the natural numbers, for a set.
LEMMA SetInduction ==
    ASSUME NEW S, 0 \in S, \A n \in Nat : n \in S => n + 1 \in S
    PROVE  Nat \subseteq S
<1> DEFINE T == Nat \ S
<1> SUFFICES ASSUME T # {} PROVE FALSE
  OBVIOUS
<1>1. PICK n \in T : \A m \in T : ~(<<m, n>> \in OpToRel(<, Nat))
  <2>1. T \subseteq Nat
    OBVIOUS
  <2> HIDE DEF T
  <2> QED  BY <2>1, NatLessThanWellFounded, WFMin
<1>2. n \in Nat /\ n # 0
  OBVIOUS
<1>3. n - 1 \in Nat /\ n - 1 + 1 = n /\ <<n - 1, n>> \in OpToRel(<, Nat)
  BY <1>2 DEF OpToRel
<1> QED
  BY <1>1, <1>2, <1>3

\* The deposits of a key among the first m, from its first signed one on.
Registered(k, m) ==
    {i \in 1..m : /\ Tree[i].pubkey = k
                  /\ \E j \in 1..m : Tree[j].pubkey = k /\ j <= i /\ Tree[j].signed}

Keys == {Tree[i].pubkey : i \in Nat}

\* The registry vs after the first m deposits.
CountsOnce(vs, m) ==
    /\ vs \in Seq([pubkey : Keys, balance : Nat])
    /\ \A i, j \in DOMAIN vs : i # j => vs[i].pubkey # vs[j].pubkey
    /\ \A k : Registered(k, m) # {} <=> \E i \in DOMAIN vs : vs[i].pubkey = k
    /\ \A i \in DOMAIN vs : vs[i].balance = Cardinality(Registered(vs[i].pubkey, m))

LEMMA RegisteredFinite ==
    ASSUME NEW k, NEW m \in Nat
    PROVE  IsFiniteSet(Registered(k, m)) /\ Registered(k, m) \subseteq 1..m
<1>1. IsFiniteSet(1..m)
  BY FS_Interval
<1>2. Registered(k, m) \in SUBSET (1..m)
  BY DEF Registered
<1> QED
  BY <1>1, <1>2, FS_Subset

\* A further deposit counts for its own key only, if the key is registered or signs.
LEMMA RegisteredNext ==
    ASSUME NEW k, NEW m \in Nat
    PROVE  Registered(k, m + 1) =
             IF /\ Tree[m + 1].pubkey = k
                /\ Registered(k, m) # {} \/ Tree[m + 1].signed
             THEN Registered(k, m) \cup {m + 1}
             ELSE Registered(k, m)
<1>1. 1..(m + 1) = (1..m) \cup {m + 1}
  OBVIOUS
<1>2. \A i \in 1..m : i <= m /\ i <= m + 1 /\ i \in Nat /\ ~(m + 1 <= i)
  OBVIOUS
<1>3. ASSUME NEW i
      PROVE  i \in Registered(k, m + 1) <=>
               \/ i \in Registered(k, m)
               \/ /\ i = m + 1
                  /\ Tree[m + 1].pubkey = k
                  /\ \/ \E j \in 1..m : Tree[j].pubkey = k /\ Tree[j].signed
                     \/ Tree[m + 1].signed
  <2>1. CASE i \in 1..m
    BY <1>1, <1>2, <2>1 DEF Registered
  <2>2. CASE i = m + 1
    <3>1. i \notin 1..m /\ i \in 1..(m + 1) /\ m + 1 <= i
      BY <2>2
    <3> QED  BY <1>1, <1>2, <2>2, <3>1 DEF Registered
  <2>3. CASE i \notin 1..(m + 1)
    BY <1>1, <2>3 DEF Registered
  <2> QED  BY <1>1, <2>1, <2>2, <2>3
<1>4. Registered(k, m) # {} <=> \E j \in 1..m : Tree[j].pubkey = k /\ Tree[j].signed
  BY <1>2 DEF Registered
<1> QED
  BY <1>3, <1>4

LEMMA RegisteredMore ==
    ASSUME NEW k, NEW m \in Nat, Tree[m + 1].pubkey = k,
           Registered(k, m) # {} \/ Tree[m + 1].signed
    PROVE  /\ Registered(k, m + 1) # {}
           /\ Cardinality(Registered(k, m + 1)) = Cardinality(Registered(k, m)) + 1
           /\ Cardinality(Registered(k, m)) \in Nat
<1>1. Registered(k, m + 1) = Registered(k, m) \cup {m + 1}
  BY RegisteredNext
<1>2. IsFiniteSet(Registered(k, m)) /\ m + 1 \notin Registered(k, m)
  BY RegisteredFinite
<1> QED
  BY <1>1, <1>2, FS_AddElement, FS_CardinalityType

\* ApplyDeposit: the next deposit is counted, once.
LEMMA ApplyCounts ==
    ASSUME NEW m \in Nat, NEW vs, CountsOnce(vs, m)
    PROVE  CountsOnce(ApplyDeposit(vs, Tree[m + 1]), m + 1)
<1> DEFINE d == Tree[m + 1]
           key == d.pubkey
           own == {i \in DOMAIN vs : vs[i].pubkey = key}
           new == ApplyDeposit(vs, d)
<1>1. /\ vs \in Seq([pubkey : Keys, balance : Nat])
      /\ DOMAIN vs = 1..Len(vs)
      /\ Len(vs) \in Nat
      /\ \A i \in DOMAIN vs : vs[i] \in [pubkey : Keys, balance : Nat]
  <2>1. vs \in Seq([pubkey : Keys, balance : Nat])
    BY DEF CountsOnce
  <2> DEFINE Entries == [pubkey : Keys, balance : Nat]
  <2> HIDE DEF Entries
  <2>2. vs \in Seq(Entries)
    BY <2>1 DEF Entries
  <2>3. DOMAIN vs = 1..Len(vs) /\ Len(vs) \in Nat /\ \A i \in DOMAIN vs : vs[i] \in Entries
    BY <2>2
  <2> QED  BY <2>1, <2>3 DEF Entries
<1>2. key \in Keys
  <2>1. m + 1 \in Nat
    OBVIOUS
  <2> QED  BY <2>1 DEF Keys
<1>3. \A k : k # key => Registered(k, m + 1) = Registered(k, m)
  BY RegisteredNext
<1>4. /\ \A i, j \in DOMAIN vs : i # j => vs[i].pubkey # vs[j].pubkey
      /\ \A k : Registered(k, m) # {} <=> \E i \in DOMAIN vs : vs[i].pubkey = k
      /\ \A i \in DOMAIN vs : vs[i].balance = Cardinality(Registered(vs[i].pubkey, m))
  BY DEF CountsOnce
<1>5. Registered(key, m) # {} <=> own # {}
  BY <1>4
<1>6. CASE own # {}
  <2>1. PICK o \in DOMAIN vs : vs[o].pubkey = key
    BY <1>6
  <2>2. own = {o}
    BY <1>4, <2>1
  <2>3. (CHOOSE i \in own : \A j \in own : i <= j) = o
    BY <1>1, <2>1, <2>2
  <2>4. new = [vs EXCEPT ![o].balance = @ + 1]
    BY <1>6, <2>3 DEF ApplyDeposit
  <2>5. /\ Registered(key, m + 1) # {}
        /\ Cardinality(Registered(key, m + 1)) = Cardinality(Registered(key, m)) + 1
    BY <1>5, <1>6, RegisteredMore
  <2> HIDE DEF new, own, key, d
  <2>6. new = [i \in 1..Len(vs) |-> IF i = o THEN [vs[o] EXCEPT !.balance = @ + 1] ELSE vs[i]]
    BY <1>1, <2>1, <2>4
  <2>7. /\ [vs[o] EXCEPT !.balance = @ + 1] \in [pubkey : Keys, balance : Nat]
        /\ [vs[o] EXCEPT !.balance = @ + 1].pubkey = vs[o].pubkey
        /\ [vs[o] EXCEPT !.balance = @ + 1].balance = vs[o].balance + 1
    BY <1>1, <2>1
  <2>8. /\ new \in Seq([pubkey : Keys, balance : Nat])
        /\ DOMAIN new = DOMAIN vs
        /\ \A i \in DOMAIN vs : /\ new[i].pubkey = vs[i].pubkey
                                /\ i # o => new[i].balance = vs[i].balance
        /\ new[o].balance = vs[o].balance + 1
    BY <1>1, <2>1, <2>6, <2>7
  <2>9. \A i, j \in DOMAIN new : i # j => new[i].pubkey # new[j].pubkey
    BY <1>4, <2>8
  <2>10. \A k : Registered(k, m + 1) # {} <=> \E i \in DOMAIN new : new[i].pubkey = k
    <3> TAKE k
    <3>1. (\E i \in DOMAIN new : new[i].pubkey = k) <=> Registered(k, m) # {}
      BY <1>4, <2>8
    <3>2. CASE k = key
      BY <1>5, <1>6, <2>5, <3>1, <3>2
    <3>3. CASE k # key
      BY <1>3, <3>1, <3>3
    <3> QED  BY <3>2, <3>3
  <2>11. \A i \in DOMAIN new :
            new[i].balance = Cardinality(Registered(new[i].pubkey, m + 1))
    <3> TAKE i \in DOMAIN new
    <3>1. CASE i = o
      BY <1>4, <2>1, <2>5, <2>8, <3>1
    <3>2. CASE i # o
      <4>1. vs[i].pubkey # key
        BY <1>4, <2>1, <2>8, <3>2
      <4> QED  BY <1>3, <1>4, <2>8, <3>2, <4>1
    <3> QED  BY <3>1, <3>2
  <2> QED  BY <2>8, <2>9, <2>10, <2>11 DEF CountsOnce, new, d
<1>7. CASE own = {} /\ d.signed
  <2> DEFINE e == [pubkey |-> key, balance |-> 1]
  <2>1. new = Append(vs, e)
    BY <1>7 DEF ApplyDeposit
  <2>2. e \in [pubkey : Keys, balance : Nat] /\ e.pubkey = key /\ e.balance = 1
    BY <1>2
  <2>3. /\ Registered(key, m + 1) # {}
        /\ Cardinality(Registered(key, m + 1)) = 1
    <3>1. Registered(key, m) = {} /\ Cardinality(Registered(key, m)) = 0
      BY <1>5, <1>7, FS_EmptySet
    <3>2. /\ Registered(key, m + 1) # {}
          /\ Cardinality(Registered(key, m + 1)) = Cardinality(Registered(key, m)) + 1
      BY <1>7, RegisteredMore
    <3> QED  BY <3>1, <3>2
  <2>4. \A i \in DOMAIN vs : vs[i].pubkey # key
    BY <1>7
  <2> HIDE DEF new, e, own, key, d
  <2>5. /\ new \in Seq([pubkey : Keys, balance : Nat])
        /\ DOMAIN new = DOMAIN vs \cup {Len(vs) + 1}
        /\ Len(vs) + 1 \notin DOMAIN vs
        /\ \A i \in DOMAIN vs : new[i] = vs[i]
        /\ new[Len(vs) + 1] = e
    BY <1>1, <2>1, <2>2
  <2>6. \A i, j \in DOMAIN new : i # j => new[i].pubkey # new[j].pubkey
    BY <1>4, <2>2, <2>4, <2>5
  <2>7. \A k : Registered(k, m + 1) # {} <=> \E i \in DOMAIN new : new[i].pubkey = k
    <3> TAKE k
    <3>1. CASE k = key
      BY <2>2, <2>3, <2>5, <3>1
    <3>2. CASE k # key
      <4>1. (\E i \in DOMAIN new : new[i].pubkey = k) <=> \E i \in DOMAIN vs : vs[i].pubkey = k
        BY <2>2, <2>5, <3>2
      <4> QED  BY <1>3, <1>4, <3>2, <4>1
    <3> QED  BY <3>1, <3>2
  <2>8. \A i \in DOMAIN new :
            new[i].balance = Cardinality(Registered(new[i].pubkey, m + 1))
    <3> TAKE i \in DOMAIN new
    <3>1. CASE i \in DOMAIN vs
      BY <1>3, <1>4, <2>4, <2>5, <3>1
    <3>2. CASE i = Len(vs) + 1
      BY <2>2, <2>3, <2>5, <3>2
    <3> QED  BY <2>5, <3>1, <3>2
  <2> QED  BY <2>5, <2>6, <2>7, <2>8 DEF CountsOnce, new, d
<1>8. CASE own = {} /\ ~d.signed
  <2>1. new = vs
    BY <1>8 DEF ApplyDeposit
  <2>2. Registered(key, m + 1) = Registered(key, m)
    BY <1>5, <1>8, RegisteredNext
  <2>3. \A k : Registered(k, m + 1) = Registered(k, m)
    BY <1>3, <2>2
  <2> QED  BY <2>1, <2>3 DEF CountsOnce
<1> QED
  BY <1>6, <1>7, <1>8

\* The registry after each of the deposits that are processed.
IsAfter(f, vs, index, n) ==
    f = [k \in 0..n |-> IF k = 0 THEN vs ELSE ApplyDeposit(f[k - 1], Tree[index + k])]

LEMMA AfterExists ==
    ASSUME NEW vs, NEW index \in Nat
    PROVE  \A n \in Nat : \E f : IsAfter(f, vs, index, n)
<1> DEFINE S == {n \in Nat : \E f : IsAfter(f, vs, index, n)}
<1>1. 0 \in S
  <2> DEFINE f == [k \in 0..0 |-> vs]
  <2>1. IsAfter(f, vs, index, 0)
    BY DEF IsAfter
  <2> QED  BY <2>1
<1>2. ASSUME NEW n \in Nat, n \in S PROVE n + 1 \in S
  <2>1. PICK f : IsAfter(f, vs, index, n)
    BY <1>2
  <2> DEFINE g == [k \in 0..n + 1 |-> IF k = n + 1
                                      THEN ApplyDeposit(f[n], Tree[index + (n + 1)])
                                      ELSE f[k]]
  <2>2. \A k \in 0..n : f[k] = IF k = 0 THEN vs ELSE ApplyDeposit(f[k - 1], Tree[index + k])
    BY <2>1 DEF IsAfter
  <2>3. ASSUME NEW k \in 0..n + 1
        PROVE  g[k] = IF k = 0 THEN vs ELSE ApplyDeposit(g[k - 1], Tree[index + k])
    <3>1. CASE k = n + 1
      BY <3>1
    <3>2. CASE k \in 0..n
      BY <2>2, <3>2
    <3> QED  BY <3>1, <3>2
  <2>4. g = [k \in 0..n + 1 |-> g[k]]
    OBVIOUS
  <2> HIDE DEF g
  <2>5. IsAfter(g, vs, index, n + 1)
    BY <2>3, <2>4 DEF IsAfter
  <2> QED  BY <2>5
<1>3. Nat \subseteq S
  <2> HIDE DEF S
  <2> QED  BY <1>1, <1>2, SetInduction
<1> QED
  BY <1>3

LEMMA ProcessDepositsAfter ==
    ASSUME NEW vs, NEW index \in Nat, NEW n \in Nat
    PROVE  \E f : IsAfter(f, vs, index, n) /\ ProcessDeposits(vs, index, n) = f[n]
<1> DEFINE after == CHOOSE f : IsAfter(f, vs, index, n)
<1>1. IsAfter(after, vs, index, n)
  BY AfterExists
<1>2. ProcessDeposits(vs, index, n) = after[n]
  BY DEF ProcessDeposits, IsAfter
<1> QED
  BY <1>1, <1>2

LEMMA ProcessDepositsCounts ==
    ASSUME NEW vs, NEW index \in Nat, NEW n \in Nat, CountsOnce(vs, index)
    PROVE  CountsOnce(ProcessDeposits(vs, index, n), index + n)
<1>1. PICK f : IsAfter(f, vs, index, n) /\ ProcessDeposits(vs, index, n) = f[n]
  BY ProcessDepositsAfter
<1>2. \A k \in 0..n : f[k] = IF k = 0 THEN vs ELSE ApplyDeposit(f[k - 1], Tree[index + k])
  BY <1>1 DEF IsAfter
<1> DEFINE S == {k \in Nat : k <= n => CountsOnce(f[k], index + k)}
<1>3. 0 \in S
  <2>1. f[0] = vs /\ index + 0 = index
    BY <1>2
  <2> QED  BY <2>1
<1>4. ASSUME NEW k \in Nat, k \in S PROVE k + 1 \in S
  <2> SUFFICES ASSUME k + 1 <= n PROVE CountsOnce(f[k + 1], index + (k + 1))
    OBVIOUS
  <2>1. CountsOnce(f[k], index + k)
    BY <1>4
  <2>2. f[k + 1] = ApplyDeposit(f[k], Tree[index + (k + 1)])
    <3>1. k + 1 \in 0..n /\ k + 1 # 0 /\ k + 1 - 1 = k
      OBVIOUS
    <3> QED  BY <1>2, <3>1
  <2>3. index + k \in Nat /\ index + (k + 1) = index + k + 1
    OBVIOUS
  <2> QED  BY <2>1, <2>2, <2>3, ApplyCounts
<1>5. Nat \subseteq S
  <2> HIDE DEF S
  <2> QED  BY <1>3, <1>4, SetInduction
<1>6. CountsOnce(f[n], index + n)
  BY <1>5
<1> QED
  BY <1>1, <1>6

\* Each block counts the deposits it must carry, and no other step touches the registry.
LEMMA NextCounts ==
    ASSUME IInv, CountsOnce(validators, eth1_deposit_index), [Next]_vars
    PROVE  CountsOnce(validators, eth1_deposit_index)'
<1>1. CASE Block
  <2>1. PICK vote \in Views : ProcessBlock(vote)
    BY <1>1 DEF Block
  <2> DEFINE n == DepositsDue(DepositsView(vote))
  <2>2. /\ eth1_deposit_index <= DepositsView(vote)
        /\ validators' = ProcessDeposits(validators, eth1_deposit_index, n)
        /\ eth1_deposit_index' = eth1_deposit_index + n
    BY <2>1 DEF ProcessBlock
  <2>3. eth1_deposit_index \in Nat /\ n \in Nat
    <3>1. DepositsView(vote) \in Nat /\ eth1_deposit_index \in Nat
      BY Eth1Assumption DEF IInv, TypeOK, DepositsView, DataAfter
    <3> QED  BY <2>2, <3>1, Eth1Assumption DEF DepositsDue
  <2> HIDE DEF n
  <2> QED  BY <2>2, <2>3, ProcessDepositsCounts
<1>2. CASE ProcessSlot
  BY <1>2 DEF ProcessSlot
<1>3. CASE UNCHANGED vars
  BY <1>3 DEF vars
<1> QED
  BY <1>1, <1>2, <1>3 DEF Next

\* ProcessDeposit and ApplyDeposit keep each key once, with all of its deposits that count.
THEOREM DepositsAlwaysCountedOnce == Spec => []DepositsCountedOnce
<1> DEFINE Inv == CountsOnce(validators, eth1_deposit_index)
<1>1. Init => Inv
  <2> SUFFICES ASSUME Init PROVE CountsOnce(<<>>, 0)
    BY DEF Init
  <2>1. \A k : Registered(k, 0) = {}
    BY DEF Registered
  <2> QED  BY <2>1 DEF CountsOnce
<1>2. IInv /\ Inv /\ [Next]_vars => Inv'
  BY NextCounts
<1>3. IInv /\ Inv => DepositsCountedOnce
  <2> SUFFICES ASSUME IInv, Inv PROVE DepositsCountedOnce
    OBVIOUS
  <2>1. eth1_deposit_index \in Nat
    BY Eth1Assumption DEF IInv, TypeOK
  <2> DEFINE m == eth1_deposit_index
             Of(k) == {i \in 1..m : Tree[i].pubkey = k}
             Reg(k) == {i \in Of(k) : \E j \in Of(k) : j <= i /\ Tree[j].signed}
  <2>2. \A k : Reg(k) = Registered(k, m)
    BY DEF Registered
  <2>3. {validators[i].pubkey : i \in DOMAIN validators}
             = {Tree[i].pubkey : i \in {j \in 1..m : Registered(Tree[j].pubkey, m) # {}}}
    <3>1. ASSUME NEW i \in DOMAIN validators
          PROVE  \E j \in 1..m : /\ Registered(Tree[j].pubkey, m) # {}
                                 /\ Tree[j].pubkey = validators[i].pubkey
      <4>1. Registered(validators[i].pubkey, m) # {}
        BY DEF CountsOnce
      <4>2. PICK j \in Registered(validators[i].pubkey, m) : TRUE
        BY <4>1
      <4>3. j \in 1..m /\ Tree[j].pubkey = validators[i].pubkey
        BY <4>2 DEF Registered
      <4> QED  BY <4>1, <4>3
    <3>2. ASSUME NEW j \in 1..m, Registered(Tree[j].pubkey, m) # {}
          PROVE  \E i \in DOMAIN validators : validators[i].pubkey = Tree[j].pubkey
      BY <3>2 DEF CountsOnce
    <3> DEFINE R == {j \in 1..m : Registered(Tree[j].pubkey, m) # {}}
    <3>3. \A i \in DOMAIN validators : \E j \in R : Tree[j].pubkey = validators[i].pubkey
      BY <3>1
    <3>4. \A j \in R : \E i \in DOMAIN validators : validators[i].pubkey = Tree[j].pubkey
      BY <3>2
    <3> HIDE DEF R
    <3>5. {validators[i].pubkey : i \in DOMAIN validators} = {Tree[i].pubkey : i \in R}
      BY <3>3, <3>4
    <3> QED  BY <3>5 DEF R
  <2>4. \A i, j \in DOMAIN validators : i # j => validators[i].pubkey # validators[j].pubkey
    BY DEF CountsOnce
  <2>5. \A i \in DOMAIN validators :
          validators[i].balance = Cardinality(Reg(validators[i].pubkey))
    BY <2>2 DEF CountsOnce
  <2>6. {validators[i].pubkey : i \in DOMAIN validators}
             = {Tree[i].pubkey : i \in {j \in 1..m : Reg(Tree[j].pubkey) # {}}}
    BY <2>2, <2>3
  <2> QED  BY <2>4, <2>5, <2>6 DEF DepositsCountedOnce
<1> QED
  BY <1>1, <1>2, <1>3, Invariance, PTL DEF Spec
=============================================================================
