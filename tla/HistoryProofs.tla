--------------------------- MODULE HistoryProofs ---------------------------
(***************************************************************************)
(* Proofs about History, for rings of any size.  A step writes one slot of *)
(* each ring, the one of the slot that ends; what the rings must still     *)
(* serve lies less than a whole ring before it, so that no other slot that *)
(* is remembered shares its index (RingInjective).                         *)
(***************************************************************************)
EXTENDS History, TLAPS

-----------------------------------------------------------------------------
(* Slots of a ring of n entries, addressed modulo n *)

(* An index of the ring is in its range. *)
LEMMA RingIndex ==
    ASSUME NEW n \in Nat \ {0}, NEW a \in Nat
    PROVE  a % n \in 0..n - 1
  OBVIOUS

LEMMA DivMod ==
    ASSUME NEW n \in Nat \ {0}, NEW a \in Nat
    PROVE  /\ a = n * (a \div n) + (a % n)
           /\ a \div n \in Int
  OBVIOUS

LEMMA NoSmallMultiple ==
    ASSUME NEW n \in Nat \ {0}, NEW q \in Int, NEW d \in 1..n - 1
    PROVE  n * q # d
  OBVIOUS

(* Two numbers less than n apart do not share a slot of the ring. *)
LEMMA RingInjective ==
    ASSUME NEW n \in Nat \ {0}, NEW a \in Nat, NEW b \in Nat,
           a < b, b < a + n
    PROVE  a % n # b % n
  <1>1. ASSUME a % n = b % n PROVE FALSE
    <2> DEFINE p == a \div n
               q == b \div n
    <2>1. /\ a = n * p + (a % n)
          /\ b = n * q + (b % n)
          /\ p \in Int
          /\ q \in Int
      BY DivMod
    <2>2. a % n \in Int /\ b % n \in Int
      BY RingIndex
    <2> HIDE DEF p, q
    <2>3. b - a = n * q - n * p
      BY <1>1, <2>1, <2>2
    <2>4. n * q - n * p = n * (q - p)
      BY <2>1
    <2>5. b - a \in 1..n - 1
      OBVIOUS
    <2>6. q - p \in Int
      BY <2>1
    <2>7. n * (q - p) # b - a
      BY <2>5, <2>6, NoSmallMultiple
    <2> QED
      BY <2>3, <2>4, <2>7
  <1> QED
    BY <1>1

(* Quotient and remainder are the only ones that make up the number. *)
LEMMA DivUnique ==
    ASSUME NEW n \in Nat \ {0}, NEW a \in Nat, NEW q \in Int, NEW r \in 0..n - 1,
           a = n * q + r
    PROVE  a \div n = q /\ a % n = r
  <1> DEFINE p == a \div n
             t == a % n
  <1>1. /\ a = n * p + t
        /\ p \in Int
        /\ t \in 0..n - 1
    BY DivMod, RingIndex
  <1> HIDE DEF p, t
  <1>2. n * (p - q) = r - t /\ n * (q - p) = t - r
    BY <1>1
  <1>3. p - q \in Int /\ q - p \in Int
    BY <1>1
  <1>4. r = t
    <2>1. CASE t < r
      <3>1. r - t \in 1..n - 1
        BY <1>1, <2>1
      <3> QED
        BY <1>2, <1>3, <3>1, NoSmallMultiple
    <2>2. CASE r < t
      <3>1. t - r \in 1..n - 1
        BY <1>1, <2>2
      <3> QED
        BY <1>2, <1>3, <3>1, NoSmallMultiple
    <2> QED
      BY <1>1, <2>1, <2>2
  <1>5. p = q
    <2>1. n * (p - q) = 0
      BY <1>1, <1>2, <1>4
    <2> QED
      BY <1>1, <2>1
  <1> QED
    BY <1>4, <1>5 DEF p, t

(* Counting on by one either ends a round of the ring or does not. *)
LEMMA DivStep ==
    ASSUME NEW n \in Nat \ {0}, NEW a \in Nat
    PROVE  (a + 1) \div n = IF (a + 1) % n = 0 THEN (a \div n) + 1 ELSE a \div n
  <1> DEFINE p == a \div n
             t == a % n
  <1>1. /\ a = n * p + t
        /\ p \in Int
        /\ t \in 0..n - 1
    BY DivMod, RingIndex
  <1> HIDE DEF p, t
  <1>2. CASE t = n - 1
    <2>1. /\ a + 1 = n * (p + 1) + 0
          /\ p + 1 \in Int
          /\ 0 \in 0..n - 1
      BY <1>1, <1>2
    <2>2. (a + 1) \div n = p + 1 /\ (a + 1) % n = 0
      BY <2>1, DivUnique
    <2> QED
      BY <2>2 DEF p
  <1>3. CASE t # n - 1
    <2>1. /\ a + 1 = n * p + (t + 1)
          /\ t + 1 \in 0..n - 1
          /\ t + 1 # 0
      BY <1>1, <1>3
    <2>2. (a + 1) \div n = p /\ (a + 1) % n = t + 1
      BY <1>1, <2>1, DivUnique
    <2> QED
      BY <2>1, <2>2 DEF p
  <1> QED
    BY <1>2, <1>3

(* A round of p blocks of s entries each ends where a block ends that is the last *)
(* of p.                                                                          *)
LEMMA RoundOfBlocks ==
    ASSUME NEW s \in Nat \ {0}, NEW n \in Nat \ {0}, n % s = 0, NEW a \in Nat
    PROVE  (a + 1) % n = 0
             <=> (a + 1) % s = 0 /\ ((a \div s) + 1) % (n \div s) = 0
  <1> DEFINE p == n \div s
             b == a \div s
  <1>1. n = s * p /\ p \in Nat \ {0}
    <2>1. n = s * p + 0 /\ p \in Int
      BY DivMod
    <2>2. p > 0
      BY <2>1
    <2> QED
      BY <2>1, <2>2
  <1>2. b \in Nat
    <2>1. a = s * b + (a % s) /\ b \in Int /\ a % s \in 0..s - 1
      BY DivMod, RingIndex
    <2>2. b >= 0
      BY <2>1
    <2> QED
      BY <2>1, <2>2
  <1>3. (a + 1) \div s = IF (a + 1) % s = 0 THEN b + 1 ELSE b
    BY DivStep
  <1>4. a + 1 = s * ((a + 1) \div s) + ((a + 1) % s)
    BY DivMod
  <1> HIDE DEF p, b
  <1>5. ASSUME (a + 1) % n = 0
        PROVE  (a + 1) % s = 0 /\ (b + 1) % p = 0
    <2> DEFINE r == (a + 1) \div n
    <2>1. a + 1 = n * r /\ r \in Int
      BY <1>5, DivMod
    <2> HIDE DEF r
    <2>2. a + 1 = s * (p * r) + 0 /\ p * r \in Int /\ 0 \in 0..s - 1
      BY <1>1, <2>1
    <2>3. (a + 1) % s = 0 /\ (a + 1) \div s = p * r
      BY <2>2, DivUnique
    <2>4. b + 1 = p * r + 0 /\ 0 \in 0..p - 1 /\ b + 1 \in Nat
      BY <1>1, <1>2, <1>3, <2>1, <2>3
    <2>5. (b + 1) % p = 0
      <3>1. p \in Nat \ {0}
        BY <1>1
      <3> DEFINE c == b + 1
                 d == p
      <3>2. c = d * r + 0 /\ c \in Nat /\ d \in Nat \ {0} /\ r \in Int /\ 0 \in 0..d - 1
        BY <2>1, <2>4, <3>1
      <3> HIDE DEF c, d
      <3>3. c % d = 0
        BY <3>2, DivUnique
      <3> QED
        BY <3>3 DEF c, d
    <2> QED
      BY <2>3, <2>5
  <1>6. ASSUME (a + 1) % s = 0, (b + 1) % p = 0
        PROVE  (a + 1) % n = 0
    <2> DEFINE r == (b + 1) \div p
    <2>1. b + 1 = p * r /\ r \in Int
      BY <1>1, <1>2, <1>6, DivMod
    <2> HIDE DEF r
    <2>2. a + 1 = s * (b + 1)
      BY <1>2, <1>3, <1>4, <1>6
    <2>3. a + 1 = n * r + 0 /\ 0 \in 0..n - 1
      BY <1>1, <2>1, <2>2
    <2> DEFINE c == a + 1
    <2>4. c = n * r + 0 /\ c \in Nat /\ r \in Int /\ 0 \in 0..n - 1
      BY <2>1, <2>3
    <2> HIDE DEF c
    <2>5. c % n = 0
      BY <2>4, DivUnique
    <2> QED
      BY <2>5 DEF c
  <1> QED
    BY <1>5, <1>6 DEF p, b

-----------------------------------------------------------------------------
(* The rings *)

(* The latest header is that of the latest block, with its final state root once *)
(* the slot of the block has ended.                                              *)
HeaderFinal ==
    header.slot < slot =>
        /\ header.state_root = StateRootOf(header.slot)
        /\ latest[slot - 1] = header.slot

IInv == TypeOK /\ HeaderFinal /\ BlockRootsServed /\ StateRootsServed

LEMMA IndexInRing ==
    ASSUME NEW s \in Nat
    PROVE  Index(s) \in Ring
  BY RingIndex, HistoryAssumption DEF Index, Ring

(* Of the slots that a state will remember once this slot has ended, only this one *)
(* is found at its index.                                                          *)
LEMMA IndexFree ==
    ASSUME NEW s \in Nat, NEW t \in Nat,
           s < t, t < s + SLOTS_PER_HISTORICAL_ROOT
    PROVE  Index(s) # Index(t)
  BY RingInjective, HistoryAssumption DEF Index

LEMMA FilledIsFinal ==
    ASSUME IInv
    PROVE  /\ FilledHeader = [slot |-> header.slot,
                              state_root |-> StateRootOf(header.slot)]
           /\ hash_tree_root_beaconBlockHeader(FilledHeader) = RootOfBlock(header.slot)
           /\ header.slot \in Nat
  <1>1. /\ header \in Header
        /\ header.slot \in Nat
        /\ slot \in Nat
        /\ header.slot <= slot
        /\ header.state_root = ZERO_ROOT <=> header.slot = slot
    BY DEF IInv, TypeOK, Header
  <1>2. header.slot < slot => header.state_root = StateRootOf(header.slot)
    BY DEF IInv, HeaderFinal
  <1>3. FilledHeader = [slot |-> header.slot, state_root |-> StateRootOf(header.slot)]
    <2>1. CASE header.slot = slot
      BY <1>1, <2>1 DEF FilledHeader, Header, StateRootOf
    <2>2. CASE header.slot < slot
      BY <1>1, <1>2, <2>2 DEF FilledHeader, Header, StateRootOf
    <2> QED
      BY <1>1, <2>1, <2>2
  <1> QED
    BY <1>1, <1>3 DEF hash_tree_root_beaconBlockHeader, RootOfBlock

LEMMA InitHolds == Init => IInv
  BY HistoryAssumption
     DEF Init, IInv, TypeOK, HeaderFinal, BlockRootsServed, StateRootsServed, Ended,
         Header, StateRoot, BlockRoot, NoBlockRoot, ZERO_ROOT, NoSlot

-----------------------------------------------------------------------------
(* A turn of the loop *)

LEMMA LoopTypes ==
    ASSUME IInv, ProcessSlots_loop
    PROVE  TypeOK'
  <1> DEFINE filled == [slot |-> header.slot, state_root |-> StateRootOf(header.slot)]
  <1>1. /\ header' = filled
        /\ block_roots' = [block_roots EXCEPT ![Index(slot)] = RootOfBlock(header.slot)]
        /\ header.slot \in Nat
    BY FilledIsFinal DEF ProcessSlots_loop, BlockRootsAfterSlot
  <1>2. /\ slot \in Nat
        /\ slot' = slot + 1
        /\ header.slot <= slot
    BY DEF IInv, TypeOK, ProcessSlots_loop
  <1>3. RootOfBlock(header.slot) \in BlockRoot /\ StateRootOf(slot) \in StateRoot
    BY <1>1, <1>2 DEF RootOfBlock, StateRootOf, BlockRoot, StateRoot
  <1>4. /\ header' \in Header
        /\ header'.slot = header.slot
        /\ header'.state_root # ZERO_ROOT
    BY <1>1 DEF Header, StateRoot, StateRootOf, ZERO_ROOT, NoSlot
  <1>5. block_roots' \in [Ring -> BlockRoot]
    BY <1>1, <1>3 DEF IInv, TypeOK
  <1>6. state_roots' \in [Ring -> StateRoot]
    BY <1>3 DEF IInv, TypeOK, ProcessSlots_loop, StateRootsAfterSlot
  <1>7. historical_summaries' \in Seq(HistoricalSummary)
    <2>1. Summary(block_roots', state_roots') \in HistoricalSummary
      BY <1>5, <1>6 DEF Summary, HistoricalSummary
    <2>2. historical_summaries \in Seq(HistoricalSummary)
      BY DEF IInv, TypeOK
    <2>3. \/ historical_summaries' = historical_summaries
          \/ historical_summaries'
                = Append(historical_summaries, Summary(block_roots', state_roots'))
      BY DEF ProcessSlots_loop
    <2> QED
      BY <2>1, <2>2, <2>3
  <1>8. latest' \in [0..slot' - 1 -> Nat]
    <2>1. latest' = [s \in 0..slot |-> IF s = slot THEN header.slot ELSE latest[s]]
      BY DEF ProcessSlots_loop
    <2>2. ASSUME NEW s \in 0..slot, s # slot
          PROVE  latest[s] \in Nat
      BY <1>2, <2>2 DEF IInv, TypeOK, Ended
    <2> QED
      BY <1>1, <1>2, <2>1, <2>2
  <1> HIDE DEF filled
  <1> QED
    BY <1>1, <1>2, <1>4, <1>5, <1>6, <1>7, <1>8 DEF TypeOK, Ended

(* What the rings serve after the slot has ended: the roots of that slot, and what *)
(* they served before.                                                             *)
LEMMA LoopServes ==
    ASSUME IInv, ProcessSlots_loop
    PROVE  HeaderFinal' /\ BlockRootsServed' /\ StateRootsServed'
  <1>1. /\ header' = [slot |-> header.slot, state_root |-> StateRootOf(header.slot)]
        /\ block_roots' = [block_roots EXCEPT ![Index(slot)] = RootOfBlock(header.slot)]
        /\ header.slot \in Nat
    BY FilledIsFinal DEF ProcessSlots_loop, BlockRootsAfterSlot
  <1>2. /\ slot \in Nat
        /\ slot' = slot + 1
        /\ Index(slot) \in Ring
        /\ block_roots \in [Ring -> BlockRoot]
        /\ state_roots \in [Ring -> StateRoot]
    BY IndexInRing DEF IInv, TypeOK, ProcessSlots_loop
  <1>3. /\ state_roots' = [state_roots EXCEPT ![Index(slot)] = StateRootOf(slot)]
        /\ latest' = [s \in 0..slot |-> IF s = slot THEN header.slot ELSE latest[s]]
    BY DEF ProcessSlots_loop, StateRootsAfterSlot
  <1>4. HeaderFinal'
    BY <1>1, <1>2, <1>3 DEF HeaderFinal
  <1>5. ASSUME NEW s \in Ended', Remembered(s)'
        PROVE  /\ block_roots'[Index(s)] = RootOfBlock(latest'[s])
               /\ state_roots'[Index(s)] = StateRootOf(s)
    <2>1. CASE s = slot
      <3>1. latest'[s] = header.slot
        BY <1>2, <1>3, <2>1
      <3> QED
        BY <1>1, <1>2, <1>3, <2>1, <3>1
    <2>2. CASE s # slot
      <3>1. /\ s \in Nat
            /\ s \in Ended
            /\ s < slot
            /\ slot < s + SLOTS_PER_HISTORICAL_ROOT
            /\ latest'[s] = latest[s]
        BY <1>2, <1>3, <1>5, <2>2, HistoryAssumption DEF Ended, Remembered
      <3>2. Index(s) # Index(slot) /\ Index(s) \in Ring
        BY <1>2, <3>1, IndexFree, IndexInRing
      <3>3. Remembered(s)
        BY <1>2, <3>1, HistoryAssumption DEF Remembered
      <3>4. /\ block_roots[Index(s)] = RootOfBlock(latest[s])
            /\ state_roots[Index(s)] = StateRootOf(s)
        BY <3>1, <3>3
           DEF IInv, BlockRootsServed, StateRootsServed, get_block_root_at_slot
      <3> QED
        BY <1>1, <1>2, <1>3, <3>1, <3>2, <3>4
    <2> QED
      BY <2>1, <2>2
  <1>6. Index(slot)' = Index(slot') /\ \A s : Index(s)' = Index(s)
    BY DEF Index
  <1>7. BlockRootsServed'
    <2> SUFFICES ASSUME NEW s \in Ended', Remembered(s)'
                 PROVE  get_block_root_at_slot(s)' = RootOfBlock(latest'[s])
      BY DEF BlockRootsServed, RootOfBlock, StateRootOf
    <2> QED
      BY <1>5 DEF get_block_root_at_slot, Index
  <1>8. StateRootsServed'
    <2> SUFFICES ASSUME NEW s \in Ended', Remembered(s)'
                 PROVE  state_roots'[Index(s)] = StateRootOf(s)
      BY DEF StateRootsServed, StateRootOf, Index
    <2> QED
      BY <1>5
  <1> QED
    BY <1>4, <1>7, <1>8

-----------------------------------------------------------------------------
(* A block only replaces the latest header. *)

LEMMA BlockPreserves ==
    ASSUME IInv, ProcessBlockHeader
    PROVE  IInv'
  <1>1. /\ header' = [slot |-> slot, state_root |-> ZERO_ROOT]
        /\ UNCHANGED <<slot, block_roots, state_roots, historical_summaries, latest>>
        /\ slot \in Nat
    BY DEF ProcessBlockHeader, IInv, TypeOK
  <1>2. TypeOK'
    BY <1>1 DEF IInv, TypeOK, Header, StateRoot, Ended
  <1>3. HeaderFinal'
    BY <1>1 DEF HeaderFinal
  <1>4. BlockRootsServed' /\ StateRootsServed'
    BY <1>1 DEF IInv, BlockRootsServed, StateRootsServed, Ended, Remembered,
                get_block_root_at_slot
  <1> QED
    BY <1>2, <1>3, <1>4 DEF IInv

LEMMA StepHolds == IInv /\ [Next]_vars => IInv'
  <1> SUFFICES ASSUME IInv, [Next]_vars PROVE IInv'
    OBVIOUS
  <1>1. CASE ProcessSlots_loop
    BY <1>1, LoopTypes, LoopServes DEF IInv
  <1>2. CASE ProcessBlockHeader
    BY <1>2, BlockPreserves
  <1>3. CASE UNCHANGED vars
    BY <1>3 DEF vars, IInv, TypeOK, HeaderFinal, BlockRootsServed, StateRootsServed,
                Ended, Remembered, get_block_root_at_slot
  <1> QED
    BY <1>1, <1>2, <1>3 DEF Next

-----------------------------------------------------------------------------
(* The historical summaries *)

SInv == IInv /\ SummariesComplete

(* An epoch that ends a period ends in the last slot that the rings have room for. *)
LEMMA PeriodEnds ==
    ASSUME slot \in Nat
    PROVE  EndsPeriod <=> (slot + 1) % SLOTS_PER_HISTORICAL_ROOT = 0
  BY RoundOfBlocks, HistoryAssumption, WholeEpochs DEF EndsPeriod, compute_epoch_at_slot

LEMMA InitSummaries == Init => SummariesComplete
  <1>1. 0 \div SLOTS_PER_HISTORICAL_ROOT = 0
    <2>1. 0 = SLOTS_PER_HISTORICAL_ROOT * 0 + 0 /\ 0 \in 0..SLOTS_PER_HISTORICAL_ROOT - 1
      BY HistoryAssumption
    <2> QED
      BY <2>1, DivUnique, HistoryAssumption
  <1> QED
    BY <1>1 DEF Init, SummariesComplete

(* The slots of the periods that have ended have all ended. *)
LEMMA PeriodsEnded ==
    ASSUME SInv, NEW k \in DOMAIN historical_summaries, NEW i \in Ring
    PROVE  (k - 1) * SLOTS_PER_HISTORICAL_ROOT + i \in Ended
  <1> DEFINE L == SLOTS_PER_HISTORICAL_ROOT
             q == slot \div L
             r == slot % L
  <1>1. L \in Nat \ {0} /\ slot \in Nat /\ i \in 0..L - 1
    BY HistoryAssumption DEF SInv, IInv, TypeOK, Ring
  <1>2. slot = L * q + r /\ q \in Int /\ r \in 0..L - 1
    BY <1>1, DivMod, RingIndex
  <1>3. k \in 1..q
    BY <1>2 DEF SInv, IInv, TypeOK, SummariesComplete
  <1> HIDE DEF L, q, r
  <1>4. (k - 1) * L >= 0 /\ k * L <= q * L
    BY <1>1, <1>2, <1>3
  <1>5. (k - 1) * L + i < k * L /\ (k - 1) * L \in Int /\ k * L \in Int
    BY <1>1, <1>2, <1>3
  <1>6. q * L <= slot /\ q * L \in Int
    BY <1>1, <1>2
  <1>7. (k - 1) * L + i >= 0 /\ (k - 1) * L + i <= slot - 1 /\ (k - 1) * L + i \in Int
    BY <1>1, <1>4, <1>5, <1>6
  <1> QED
    BY <1>1, <1>7 DEF Ended, L

(* What the rings serve in the next state, spelled out. *)
LEMMA ServedAfterwards ==
    ASSUME BlockRootsServed', StateRootsServed', NEW s \in 0..slot' - 1,
           slot' <= s + SLOTS_PER_HISTORICAL_ROOT
    PROVE  /\ block_roots'[Index(s)] = RootOfBlock(latest'[s])
           /\ state_roots'[Index(s)] = StateRootOf(s)
  BY DEF BlockRootsServed, StateRootsServed, Ended, Remembered, get_block_root_at_slot,
         Index, RootOfBlock, StateRootOf

LEMMA LoopSummaries ==
    ASSUME SInv, ProcessSlots_loop
    PROVE  SummariesComplete'
  <1> DEFINE L == SLOTS_PER_HISTORICAL_ROOT
             q == slot \div L
             S == historical_summaries
             new == Summary(block_roots', state_roots')
             At(k, i) == (k - 1) * L + i
  <1>1. /\ L \in Nat \ {0}
        /\ slot \in Nat
        /\ slot' = slot + 1
        /\ q \in Int
        /\ S \in Seq(HistoricalSummary)
        /\ Len(S) = q
    BY HistoryAssumption, DivMod
       DEF SInv, IInv, TypeOK, SummariesComplete, ProcessSlots_loop
  <1>2. latest' = [s \in 0..slot |-> IF s = slot THEN header.slot ELSE latest[s]]
    BY DEF ProcessSlots_loop
  <1>3. slot' \div L = IF (slot + 1) % L = 0 THEN q + 1 ELSE q
    BY <1>1, DivStep
  <1>4. S' = IF (slot + 1) % L = 0 THEN Append(S, new) ELSE S
    BY <1>1, PeriodEnds DEF ProcessSlots_loop
  <1>5. ASSUME NEW k \in DOMAIN S, NEW i \in Ring
        PROVE  /\ S[k].block_summary_root[i] = RootOfBlock(latest'[At(k, i)])
               /\ S[k].state_summary_root[i] = StateRootOf(At(k, i))
    <2>1. At(k, i) \in Ended
      BY PeriodsEnded
    <2>2. latest'[At(k, i)] = latest[At(k, i)]
      <3> DEFINE s == At(k, i)
      <3>1. s \in 0..slot /\ s # slot
        BY <1>1, <2>1 DEF Ended
      <3> HIDE DEF s
      <3>2. latest'[s] = latest[s]
        BY <1>2, <3>1
      <3> QED
        BY <3>2 DEF s
    <2>3. /\ S[k].block_summary_root[i] = RootOfBlock(latest[At(k, i)])
          /\ S[k].state_summary_root[i] = StateRootOf(At(k, i))
      BY DEF SInv, SummariesComplete
    <2> QED
      BY <2>2, <2>3
  <1>6. ASSUME (slot + 1) % L = 0, NEW i \in Ring
        PROVE  /\ new.block_summary_root[i] = RootOfBlock(latest'[At(q + 1, i)])
               /\ new.state_summary_root[i] = StateRootOf(At(q + 1, i))
    <2> DEFINE s == At(q + 1, i)
    <2>1. i \in 0..L - 1
      BY DEF Ring
    <2>2. s = L * q + i
      BY <1>1, <2>1
    <2>3. slot + 1 = L * (q + 1)
      <3>1. slot + 1 = L * ((slot + 1) \div L) + ((slot + 1) % L)
        BY <1>1, DivMod
      <3> QED
        BY <1>1, <1>3, <1>6, <3>1
    <2>4. L * (q + 1) = L * q + L /\ L * q \in Int
      BY <1>1
    <2>5. L * q >= 0
      <3>1. q >= 0
        BY <1>1
      <3> QED
        BY <1>1, <3>1
    <2>6. s \in 0..slot /\ slot + 1 <= s + L
      BY <1>1, <2>1, <2>2, <2>3, <2>4, <2>5
    <2>7. Index(s) = i
      <3> DEFINE t == s
      <3>1. t = L * q + i /\ t \in Nat /\ q \in Int /\ i \in 0..L - 1
        BY <1>1, <2>1, <2>2, <2>6
      <3> HIDE DEF t
      <3>2. t % L = i
        BY <1>1, <3>1, DivUnique
      <3> QED
        BY <3>2 DEF t, Index
    <2> HIDE DEF s
    <2>8. s \in 0..slot' - 1 /\ slot' <= s + SLOTS_PER_HISTORICAL_ROOT
      BY <1>1, <2>6
    <2>9. /\ block_roots'[Index(s)] = RootOfBlock(latest'[s])
          /\ state_roots'[Index(s)] = StateRootOf(s)
      BY <2>8, LoopServes, ServedAfterwards DEF SInv
    <2>10. /\ new.block_summary_root = block_roots'
           /\ new.state_summary_root = state_roots'
      BY DEF Summary
    <2> QED
      BY <2>7, <2>9, <2>10 DEF s
  <1>7. Len(S') = slot' \div L
    <2>1. Len(Append(S, new)) = q + 1
      BY <1>1
    <2> QED
      BY <1>1, <1>3, <1>4, <2>1
  <1>8. ASSUME NEW k \in DOMAIN S', NEW i \in Ring
        PROVE  /\ S'[k].block_summary_root[i] = RootOfBlock(latest'[At(k, i)])
               /\ S'[k].state_summary_root[i] = StateRootOf(At(k, i))
    <2>1. CASE k \in DOMAIN S
      <3>1. S'[k] = S[k]
        BY <1>1, <1>4, <2>1
      <3> QED
        BY <1>5, <2>1, <3>1
    <2>2. CASE k \notin DOMAIN S
      <3>1. (slot + 1) % L = 0 /\ k = q + 1 /\ S'[k] = new
        BY <1>1, <1>4, <2>2
      <3> QED
        BY <1>6, <3>1
    <2> QED
      BY <2>1, <2>2
  <1> QED
    BY <1>7, <1>8 DEF SummariesComplete, RootOfBlock, StateRootOf, Ring

LEMMA StepSummaries == SInv /\ [Next]_vars => SInv'
  <1> SUFFICES ASSUME SInv, [Next]_vars PROVE SInv'
    OBVIOUS
  <1>1. IInv'
    BY StepHolds DEF SInv
  <1>2. CASE ProcessSlots_loop
    BY <1>1, <1>2, LoopSummaries DEF SInv
  <1>3. CASE ProcessBlockHeader \/ UNCHANGED vars
    BY <1>1, <1>3 DEF SInv, SummariesComplete, ProcessBlockHeader, vars
  <1> QED
    BY <1>2, <1>3 DEF Next

-----------------------------------------------------------------------------
(* The theorems *)

(* The inductive invariant holds in every reachable state. *)
THEOREM Invariance == Spec => []IInv
  BY InitHolds, StepHolds, PTL DEF Spec

(* The rings, the header and the summaries keep their types, and the header lacks *)
(* its state root in the slot of its block only.                                  *)
THEOREM TypeCorrect == Spec => []TypeOK
  <1>1. IInv => TypeOK
    BY DEF IInv
  <1> QED
    BY Invariance, <1>1, PTL

(* Every remembered slot is served with the final root of the latest block. *)
THEOREM BlockRootsAlwaysServed == Spec => []BlockRootsServed
  <1>1. IInv => BlockRootsServed
    BY DEF IInv
  <1> QED
    BY Invariance, <1>1, PTL

(* Every remembered slot is served with the root of the state that ended it. *)
THEOREM StateRootsAlwaysServed == Spec => []StateRootsServed
  <1>1. IInv => StateRootsServed
    BY DEF IInv
  <1> QED
    BY Invariance, <1>1, PTL

(* Blocks are built on final headers, which are those the ring serves. *)
THEOREM ParentAlwaysServed == Spec => []ParentIsServed
  <1>1. IInv => ParentIsServed
    <2> SUFFICES ASSUME IInv, header.slot < slot
                 PROVE  /\ hash_tree_root_beaconBlockHeader(header)
                              = RootOfBlock(header.slot)
                        /\ get_block_root_at_slot(slot - 1) = RootOfBlock(header.slot)
      BY DEF ParentIsServed
    <2>1. /\ header \in Header
          /\ header.slot \in Nat
          /\ slot \in Nat
          /\ header.state_root = StateRootOf(header.slot)
          /\ latest[slot - 1] = header.slot
      BY DEF IInv, TypeOK, HeaderFinal, Header
    <2>2. slot - 1 \in Ended /\ Remembered(slot - 1)
      BY <2>1, HistoryAssumption DEF Ended, Remembered
    <2> QED
      BY <2>1, <2>2
         DEF IInv, BlockRootsServed, hash_tree_root_beaconBlockHeader, RootOfBlock
  <1> QED
    BY Invariance, <1>1, PTL

(* Whatever slots were empty, the rings serve the true past. *)
THEOREM RootsAlwaysServed == Spec => []RootsServed
  <1>1. BlockRootsServed /\ StateRootsServed /\ ParentIsServed => RootsServed
    BY DEF RootsServed
  <1> QED
    BY BlockRootsAlwaysServed, StateRootsAlwaysServed, ParentAlwaysServed, <1>1, PTL

(* The historical summaries hold every slot of every period that has ended. *)
THEOREM SummariesAlwaysComplete == Spec => []SummariesComplete
  <1>1. Init => SInv
    BY InitHolds, InitSummaries DEF SInv
  <1>2. Spec => []SInv
    BY <1>1, StepSummaries, PTL DEF Spec
  <1>3. SInv => SummariesComplete
    BY DEF SInv
  <1> QED
    BY <1>2, <1>3, PTL
=============================================================================
