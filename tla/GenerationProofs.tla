-------------------------- MODULE GenerationProofs --------------------------
(***************************************************************************)
(* Proofs about the two programs that make tests and that may be killed    *)
(* while they do: TestGeneration, for any seeds, interval and number of    *)
(* kills, and CaseGeneration, for a case of any length, any lists of its   *)
(* steps and any specification.                                            *)
(*                                                                         *)
(* What a run of CaseGeneration skips was made by an earlier one, of which *)
(* only the files are left.  The invariant therefore says of every file    *)
(* what it is worth, whoever wrote it (PairConsistent), that the one being *)
(* written is not one that was there (CaseAtHand), and of a run that found *)
(* nothing that what it has written is a chain (FreshChain).               *)
(***************************************************************************)
EXTENDS TestGeneration, CaseGeneration, FiniteSetTheorems, TLAPS

-----------------------------------------------------------------------------
(* TestGeneration *)

\* One seed is in hand at most, and none between two seeds.
OneInHand ==
    /\ hand = {} \/ \E seed \in Seeds : hand = {seed}
    /\ phase \in {"idle", "analyze", "ended"} => hand = {}

\* The seeds that the program or the file lists, though they were not dealt with.
Exposed == (analyzed \cup Listed(checkpoint)) \ (written \cup failed \cup hand)

\* LossBounded says this of the file only, but what is in the file comes from what
\* the program lists.
ExposedBounded == Cardinality(Exposed) <= kills

IInv == TypeOK /\ OneInHand /\ ExposedBounded

-----------------------------------------------------------------------------
\* A set of seeds is finite, and no larger than one it is part of.
LEMMA SeedsFinite ==
    ASSUME NEW S, NEW T \in SUBSET Seeds, S \subseteq T
    PROVE  /\ IsFiniteSet(S) /\ IsFiniteSet(T)
           /\ Cardinality(S) \in Nat /\ Cardinality(T) \in Nat
           /\ Cardinality(S) <= Cardinality(T)
  <1>1. IsFiniteSet(T)
    BY SeedsAssumption, FS_Subset
  <1> QED
    BY <1>1, FS_Subset, FS_CardinalityType

\* What a file lists are seeds.
LEMMA ListedTyped == TypeOK => Listed(checkpoint) \in SUBSET Seeds
  BY DEF TypeOK, Listed

LEMMA InitHolds == Init => IInv
  <1> SUFFICES ASSUME Init PROVE IInv
    OBVIOUS
  <1>1. TypeOK
    <2>1. 0 \in 0..MaxKills
      BY SeedsAssumption
    <2>2. checkpoint \in [kind : {"absent", "torn", "whole"}, listed : SUBSET Seeds]
      BY DEF Init, File
    <2>3. gaveTests \in BOOLEAN
      BY DEF Init
    <2> QED
      BY <2>1, <2>2, <2>3 DEF Init, TypeOK
  <1>2. OneInHand
    BY DEF Init, OneInHand
  <1>3. Exposed = {}
    BY DEF Init, Exposed, Listed, File
  <1>4. ExposedBounded
    BY <1>3, FS_EmptySet DEF ExposedBounded, Init
  <1> QED
    BY <1>1, <1>2, <1>4 DEF IInv

\* A step that lists no more seeds than are dealt with or were exposed before keeps
\* the bound.
LEMMA NoneExposed ==
    ASSUME IInv, Exposed' \subseteq Exposed, kills' = kills PROVE ExposedBounded'
  <1>1. Exposed \in SUBSET Seeds
    BY ListedTyped DEF IInv, TypeOK, Exposed
  <1>2. Cardinality(Exposed') <= Cardinality(Exposed)
    BY <1>1, SeedsFinite
  <1>3. Cardinality(Exposed') \in Nat /\ Cardinality(Exposed) \in Nat
    BY <1>1, SeedsFinite
  <1>4. kills \in Int
    BY DEF IInv, TypeOK
  <1> QED
    BY <1>2, <1>3, <1>4 DEF IInv, ExposedBounded

\* A kill exposes the seed in hand, and no other.
LEMMA KilledKeeps == ASSUME IInv, Killed PROVE IInv'
  <1>1. TypeOK'
    BY SeedsAssumption DEF IInv, Killed, TypeOK
  <1>2. OneInHand'
    BY DEF Killed, OneInHand
  <1>3. Exposed \in SUBSET Seeds /\ hand \in SUBSET Seeds
    BY ListedTyped DEF IInv, TypeOK, Exposed
  <1>4. Exposed' \subseteq Exposed \cup hand
    BY DEF Killed, Exposed, Listed
  <1>5. Cardinality(Exposed \cup hand) <= Cardinality(Exposed) + 1
    <2>1. IsFiniteSet(Exposed) /\ Cardinality(Exposed) \in Nat
      BY <1>3, SeedsFinite
    <2>2. CASE hand = {}
      <3>1. Exposed \cup hand = Exposed
        BY <2>2
      <3>2. Cardinality(Exposed \cup hand) = Cardinality(Exposed)
        BY <3>1
      <3> QED
        BY <2>1, <3>2
    <2>3. ASSUME NEW seed \in Seeds, hand = {seed}
          PROVE  Cardinality(Exposed \cup hand) <= Cardinality(Exposed) + 1
      <3>1. Exposed \cup hand = Exposed \cup {seed}
        BY <2>3
      <3>2. Cardinality(Exposed \cup {seed}) <= Cardinality(Exposed) + 1
        <4>1. Cardinality(Exposed \cup {seed}) =
                 IF seed \in Exposed THEN Cardinality(Exposed) ELSE Cardinality(Exposed) + 1
          BY <2>1, FS_AddElement
        <4> QED
          BY <2>1, <4>1
      <3> QED
        BY <3>1, <3>2
    <2> QED
      BY <2>2, <2>3 DEF IInv, OneInHand
  <1>6. Cardinality(Exposed') <= Cardinality(Exposed \cup hand)
    BY <1>3, <1>4, SeedsFinite
  <1>7. /\ Cardinality(Exposed') \in Nat /\ Cardinality(Exposed \cup hand) \in Nat
        /\ Cardinality(Exposed) \in Nat
    BY <1>3, <1>4, SeedsFinite
  <1>8. kills \in Int /\ kills' = kills + 1
    BY DEF IInv, TypeOK, Killed
  <1>9. ExposedBounded'
    BY <1>5, <1>6, <1>7, <1>8 DEF IInv, ExposedBounded
  <1> QED
    BY <1>1, <1>2, <1>9 DEF IInv

\* The program's own steps expose nothing.
LEMMA ProgramKeeps == ASSUME IInv, Program PROVE IInv'
  <1>1. kills' = kills
    BY DEF Program, Start, AnalysisFails, AnalysisSucceeds, Generate, OpenCheckpoint,
           WriteCheckpoint, Finish
  <1>2. TypeOK /\ OneInHand
    BY DEF IInv
  <1>3. ASSUME TypeOK', OneInHand', Exposed' \subseteq Exposed PROVE IInv'
    BY <1>1, <1>3, NoneExposed DEF IInv
  <1>4. CASE Start
    <2>1. TypeOK'
      BY <1>2, <1>4, ListedTyped DEF Start, TypeOK, Remaining
    <2>2. OneInHand'
      BY <1>4 DEF Start, OneInHand
    <2>3. Exposed' \subseteq Exposed
      BY <1>2, <1>4 DEF Start, Exposed, Listed, OneInHand
    <2> QED
      BY <1>3, <2>1, <2>2, <2>3
  <1>5. ASSUME NEW seed \in Seeds, AnalysisFails(seed) PROVE IInv'
    <2>1. TypeOK'
      BY <1>2, <1>5 DEF AnalysisFails, Advance, TypeOK
    <2>2. OneInHand'
      BY <1>5 DEF AnalysisFails, Advance, OneInHand
    <2>3. Exposed' \subseteq Exposed
      BY <1>2, <1>5 DEF AnalysisFails, Advance, Exposed, Listed, OneInHand
    <2> QED
      BY <1>3, <2>1, <2>2, <2>3
  <1>6. ASSUME NEW seed \in Seeds, AnalysisSucceeds(seed) PROVE IInv'
    <2>1. TypeOK'
      BY <1>2, <1>6 DEF AnalysisSucceeds, TypeOK
    <2>2. OneInHand'
      BY <1>6 DEF AnalysisSucceeds, OneInHand
    <2>3. Exposed' \subseteq Exposed
      BY <1>2, <1>6 DEF AnalysisSucceeds, Exposed, Listed, OneInHand
    <2> QED
      BY <1>3, <2>1, <2>2, <2>3
  <1>7. CASE Generate
    <2>1. TypeOK'
      <3>1. gaveTests' \in BOOLEAN
        BY <1>2, <1>7, Zenon DEF Generate, TypeOK
      <3> QED
        BY <1>2, <1>7, <3>1 DEF Generate, Advance, TypeOK
    <2>2. OneInHand'
      BY <1>7 DEF Generate, Advance, OneInHand
    <2>3. Exposed' \subseteq Exposed
      BY <1>7 DEF Generate, Advance, Exposed, Listed
    <2> QED
      BY <1>3, <2>1, <2>2, <2>3
  <1>8. CASE OpenCheckpoint
    <2>1. TypeOK'
      BY <1>2, <1>8 DEF OpenCheckpoint, TypeOK, File
    <2>2. OneInHand'
      BY <1>2, <1>8 DEF OpenCheckpoint, OneInHand
    <2>3. Exposed' \subseteq Exposed
      BY <1>8 DEF OpenCheckpoint, Exposed, Listed, File
    <2> QED
      BY <1>3, <2>1, <2>2, <2>3
  <1>9. CASE WriteCheckpoint
    <2>1. TypeOK'
      BY <1>2, <1>9 DEF WriteCheckpoint, AfterSave, Saved, TypeOK, File, OneInHand
    <2>2. OneInHand'
      BY <1>2, <1>9 DEF WriteCheckpoint, AfterSave, OneInHand
    <2>3. Exposed' \subseteq Exposed
      BY <1>9 DEF WriteCheckpoint, Exposed, Listed, Saved, File
    <2> QED
      BY <1>3, <2>1, <2>2, <2>3
  <1>10. CASE Finish
    <2>1. TypeOK'
      BY <1>2, <1>10 DEF Finish, TypeOK
    <2>2. OneInHand'
      BY <1>2, <1>10 DEF Finish, OneInHand
    <2>3. Exposed' \subseteq Exposed
      BY <1>10 DEF Finish, Exposed, Listed
    <2> QED
      BY <1>3, <2>1, <2>2, <2>3
  <1> QED
    BY <1>4, <1>5, <1>6, <1>7, <1>8, <1>9, <1>10 DEF Program

LEMMA StutterKeeps == ASSUME IInv, UNCHANGED vars PROVE IInv'
  <1>1. TypeOK' /\ OneInHand'
    BY DEF IInv, TypeOK, OneInHand, vars
  <1>2. Exposed' = Exposed /\ kills' = kills
    BY DEF Exposed, Listed, vars
  <1> QED
    BY <1>1, <1>2 DEF IInv, ExposedBounded

LEMMA IInvHolds == Spec => []IInv
  <1>1. IInv /\ [Next]_vars => IInv'
    BY KilledKeeps, ProgramKeeps, StutterKeeps DEF Next
  <1> QED
    BY <1>1, InitHolds, PTL DEF Spec

-----------------------------------------------------------------------------
\* For any seeds and interval the state keeps its type, and mutations are only made
\* of a seed in hand.
THEOREM TypeCorrect == Spec => []TypeOK
  <1>1. IInv => TypeOK
    BY DEF IInv
  <1> QED
    BY <1>1, IInvHolds, PTL

\* For any seeds and interval no more seeds are lost than runs were killed.
THEOREM LossAlwaysBounded == Spec => []LossBounded
  <1>1. IInv => LossBounded
    <2> SUFFICES ASSUME IInv PROVE LossBounded
      OBVIOUS
    <2>1. Exposed \in SUBSET Seeds /\ Lost \subseteq Exposed
      BY ListedTyped DEF IInv, TypeOK, Exposed, Lost
    <2>2. /\ Cardinality(Lost) <= Cardinality(Exposed)
          /\ Cardinality(Lost) \in Nat /\ Cardinality(Exposed) \in Nat
      BY <2>1, SeedsFinite
    <2>3. kills \in Int
      BY DEF IInv, TypeOK
    <2> QED
      BY <2>2, <2>3 DEF IInv, ExposedBounded, LossBounded
  <1> QED
    BY <1>1, IInvHolds, PTL

-----------------------------------------------------------------------------
(* What a kill makes the next run repeat *)

\* The seeds analyzed that are not in the file.
Unsaved == analyzed \ Listed(checkpoint)

\* When the run has dealt with n seeds, those that are not saved go back to a
\* multiple of the interval, and pass one only at an analysis that failed.
FewUnsaved(n) ==
    /\ \E b \in Nat : n = SAVE_INTERVAL * b + Cardinality(Unsaved)
    /\ Cardinality(Unsaved) < SAVE_INTERVAL * (1 + Cardinality(Unsaved \cap failed))

RInv ==
    /\ remaining \cap (analyzed \cup Listed(checkpoint)) = {}
    /\ phase = "analyze" => FewUnsaved(idx)
    /\ phase = "generate" => FewUnsaved(idx + 1)
    /\ phase = "save" =>
         Cardinality(Unsaved) <= SAVE_INTERVAL * (1 + Cardinality(Unsaved \cap failed))
    /\ phase \in {"save", "write"} /\ hand # {} => (idx + 1) % SAVE_INTERVAL = 0

LEMMA Multiples ==
    ASSUME NEW k \in Nat \ {0}, NEW n \in Nat
    PROVE  n % k = 0 <=> \E b \in Nat : n = k * b
<1>1. /\ n = k * (n \div k) + (n % k)
      /\ n % k \in 0..k - 1
      /\ n \div k \in Int
  OBVIOUS
<1>2. ASSUME n % k = 0 PROVE \E b \in Nat : n = k * b
  <2> DEFINE q == n \div k
  <2> HIDE DEF q
  <2>1. q \in Int /\ n = k * q
    BY <1>1, <1>2 DEF q
  <2>2. q <= -1 => k * q <= -k
    BY <2>1
  <2>3. q \in Nat
    BY <2>1, <2>2
  <2> QED  BY <2>1, <2>3
<1>3. ASSUME NEW b \in Nat, n = k * b PROVE n % k = 0
  <2> DEFINE q == n \div k
             r == n % k
  <2>1. k * (b - q) = r
    BY <1>1, <1>3
  <2>2. b - q \in Int
    BY <1>1
  <2>3. b - q >= 1 => k * (b - q) >= k
    BY <2>2
  <2>4. b - q <= -1 => k * (b - q) <= -k
    BY <2>2
  <2>5. b - q = 0
    BY <1>1, <2>1, <2>2, <2>3, <2>4
  <2>6. k * 0 = 0
    OBVIOUS
  <2> QED  BY <2>1, <2>5, <2>6
<1> QED
  BY <1>2, <1>3

\* How the numbers change when one seed is added.
LEMMA UnsavedMore ==
    ASSUME TypeOK, RInv, NEW seed \in remaining, analyzed' = analyzed \cup {seed},
           checkpoint' = checkpoint
    PROVE  /\ Unsaved' = Unsaved \cup {seed}
           /\ Cardinality(Unsaved') = Cardinality(Unsaved) + 1
           /\ Cardinality(Unsaved) \in Nat
           /\ seed \notin Unsaved
           /\ \A T : Unsaved \cap T \in SUBSET Seeds
           /\ \A T : Cardinality(Unsaved \cap T) \in Nat
<1>1. seed \notin analyzed /\ seed \notin Listed(checkpoint)
  BY DEF RInv
<1>2. Unsaved' = Unsaved \cup {seed} /\ seed \notin Unsaved
  BY <1>1 DEF Unsaved, Listed
<1>3. Unsaved \in SUBSET Seeds
  BY DEF Unsaved, TypeOK
<1>4. /\ IsFiniteSet(Unsaved)
      /\ Cardinality(Unsaved) \in Nat
      /\ \A T : Cardinality(Unsaved \cap T) \in Nat
  BY <1>3, SeedsFinite
<1> QED
  BY <1>2, <1>3, <1>4, FS_AddElement

LEMMA NextRepeat ==
    ASSUME IInv, RInv, [Next]_vars
    PROVE  RInv'
<1> DEFINE u == Cardinality(Unsaved)
           f == Cardinality(Unsaved \cap failed)
           k == SAVE_INTERVAL
<1>1. TypeOK /\ OneInHand
  BY DEF IInv
<1>2. k \in Nat \ {0} /\ idx \in Nat
  BY <1>1, SeedsAssumption DEF TypeOK
<1>3. ASSUME Unsaved' = {}
      PROVE  /\ Cardinality(Unsaved') = 0
             /\ Cardinality(Unsaved') < k * (1 + Cardinality(Unsaved' \cap failed'))
  <2>1. Cardinality(Unsaved') = 0 /\ Unsaved' \cap failed' = {}
    BY <1>3, FS_EmptySet
  <2>2. Cardinality(Unsaved' \cap failed') = 0
    BY <2>1, FS_EmptySet
  <2> QED  BY <1>2, <2>1, <2>2
<1>4. CASE Start
  <2>1. Unsaved' = {} /\ idx' = 0 /\ phase' = "analyze"
    BY <1>4 DEF Start, Unsaved, Listed
  <2>2. FewUnsaved(idx)'
    <3>1. 0 = k * 0 + 0 /\ 0 \in Nat
      BY <1>2
    <3> QED  BY <1>3, <2>1, <3>1 DEF FewUnsaved
  <2>3. (remaining \cap (analyzed \cup Listed(checkpoint)))' = {}
    BY <1>4 DEF Start, Remaining, Listed
  <2> QED  BY <2>1, <2>2, <2>3 DEF RInv
<1>5. ASSUME NEW seed \in Seeds, AnalysisFails(seed) PROVE RInv'
  <2>1. /\ phase = "analyze"
        /\ phase' = "analyze"
        /\ seed \in remaining
        /\ remaining' = remaining \ {seed}
        /\ analyzed' = analyzed \cup {seed}
        /\ failed' = failed \cup {seed}
        /\ checkpoint' = checkpoint
        /\ idx' = idx + 1
    BY <1>5 DEF AnalysisFails, Advance
  <2>2. /\ Unsaved' = Unsaved \cup {seed}
        /\ Cardinality(Unsaved') = u + 1
        /\ u \in Nat
        /\ f \in Nat
        /\ seed \notin Unsaved
        /\ Unsaved \cap failed \in SUBSET Seeds
    BY <1>1, <2>1, UnsavedMore
  <2>3. Cardinality(Unsaved' \cap failed') = f + 1
    <3>1. Unsaved' \cap failed' = (Unsaved \cap failed) \cup {seed}
      BY <2>1, <2>2
    <3>2. IsFiniteSet(Unsaved \cap failed)
      BY <2>2, SeedsFinite
    <3>3. seed \notin Unsaved \cap failed
      BY <2>2
    <3> QED  BY <3>1, <3>2, <3>3, FS_AddElement
  <2>4. PICK b \in Nat : idx = k * b + u
    BY <2>1 DEF RInv, FewUnsaved
  <2>5. u < k * (1 + f)
    BY <2>1 DEF RInv, FewUnsaved
  <2>6. FewUnsaved(idx)'
    <3> HIDE DEF u, f, k
    <3>1. k * b \in Nat /\ idx + 1 = k * b + (u + 1)
      BY <1>2, <2>2, <2>4
    <3>2. k * (1 + (f + 1)) = k * (1 + f) + k
      BY <1>2, <2>2
    <3>3. k * (1 + f) \in Nat
      BY <1>2, <2>2
    <3>4. u + 1 < k * (1 + (f + 1))
      BY <1>2, <2>2, <2>5, <3>2, <3>3
    <3> QED  BY <2>1, <2>2, <2>3, <3>1, <3>4 DEF FewUnsaved, k
  <2>7. (remaining \cap (analyzed \cup Listed(checkpoint)))' = {}
    BY <2>1 DEF RInv, Listed
  <2> QED  BY <2>1, <2>6, <2>7 DEF RInv
<1>6. ASSUME NEW seed \in Seeds, AnalysisSucceeds(seed) PROVE RInv'
  <2>1. /\ phase = "analyze"
        /\ phase' = IF (idx + 1) % k = 0 THEN "save" ELSE "generate"
        /\ seed \in remaining
        /\ remaining' = remaining \ {seed}
        /\ analyzed' = analyzed \cup {seed}
        /\ failed' = failed \ {seed}
        /\ checkpoint' = checkpoint
        /\ idx' = idx
    BY <1>6 DEF AnalysisSucceeds, SaveIsDue
  <2>2. /\ Unsaved' = Unsaved \cup {seed}
        /\ Cardinality(Unsaved') = u + 1
        /\ u \in Nat
        /\ f \in Nat
        /\ seed \notin Unsaved
    BY <1>1, <2>1, UnsavedMore
  <2>3. Unsaved' \cap failed' = Unsaved \cap failed
    BY <2>1, <2>2
  <2>4. PICK b \in Nat : idx = k * b + u
    BY <2>1 DEF RInv, FewUnsaved
  <2>5. u < k * (1 + f)
    BY <2>1 DEF RInv, FewUnsaved
  <2>6. (remaining \cap (analyzed \cup Listed(checkpoint)))' = {}
    BY <2>1 DEF RInv, Listed
  <2>7. Cardinality(Unsaved') <= k * (1 + Cardinality(Unsaved' \cap failed'))
    <3> HIDE DEF u, f, k
    <3>1. k * (1 + f) \in Nat
      BY <1>2, <2>2
    <3>2. u + 1 <= k * (1 + f)
      BY <2>2, <2>5, <3>1
    <3> QED  BY <2>2, <2>3, <3>2 DEF f
  <2>8. ASSUME (idx + 1) % k # 0
        PROVE  FewUnsaved(idx + 1)'
    <3> HIDE DEF u, f, k
    <3>1. k * b \in Nat /\ idx + 1 = k * b + (u + 1)
      BY <1>2, <2>2, <2>4
    <3>2. u + 1 # k * (1 + f)
      <4> SUFFICES ASSUME u + 1 = k * (1 + f) PROVE FALSE
        OBVIOUS
      <4>1. idx + 1 = k * (b + (1 + f))
        BY <1>2, <2>2, <3>1
      <4>2. b + (1 + f) \in Nat /\ idx + 1 \in Nat
        BY <1>2, <2>2
      <4> QED  BY <1>2, <2>8, <4>1, <4>2, Multiples
    <3>3. k * (1 + f) \in Nat
      BY <1>2, <2>2
    <3>4. u + 1 < k * (1 + f)
      BY <2>2, <2>5, <3>2, <3>3
    <3> QED  BY <2>1, <2>2, <2>3, <3>1, <3>4 DEF FewUnsaved, k, f
  <2> QED  BY <2>1, <2>6, <2>7, <2>8 DEF RInv
<1>7. CASE Generate
  <2>1. /\ phase = "generate"
        /\ phase' = "analyze"
        /\ idx' = idx + 1
        /\ UNCHANGED <<remaining, analyzed, checkpoint, failed>>
    BY <1>7 DEF Generate, Advance
  <2>2. Unsaved' = Unsaved /\ Listed(checkpoint)' = Listed(checkpoint)
    BY <2>1 DEF Unsaved, Listed
  <2> QED  BY <2>1, <2>2 DEF RInv, FewUnsaved
<1>8. CASE OpenCheckpoint
  <2>1. /\ phase = "save"
        /\ phase' = "write"
        /\ Listed(checkpoint)' = {}
        /\ UNCHANGED <<remaining, hand, idx, analyzed>>
    BY <1>8 DEF OpenCheckpoint, Listed, File
  <2> QED  BY <2>1 DEF RInv
<1>9. CASE WriteCheckpoint
  <2>1. /\ phase = "write"
        /\ phase' = IF hand = {} THEN "ended" ELSE "generate"
        /\ Listed(checkpoint)' = analyzed
        /\ UNCHANGED <<remaining, hand, idx, analyzed, failed>>
    BY <1>9 DEF WriteCheckpoint, AfterSave, Saved, Listed, File
  <2>2. Unsaved' = {}
    BY <2>1 DEF Unsaved
  <2>3. ASSUME hand # {} PROVE FewUnsaved(idx + 1)'
    <3>1. (idx + 1) % k = 0
      BY <2>1, <2>3 DEF RInv
    <3>2. PICK b \in Nat : idx + 1 = k * b
      BY <1>2, <3>1, Multiples
    <3>3. idx + 1 = k * b + 0
      BY <1>2, <3>2
    <3> QED  BY <1>3, <2>1, <2>2, <3>3 DEF FewUnsaved
  <2> QED  BY <2>1, <2>3 DEF RInv
<1>10. CASE Finish
  <2>1. hand' = {} /\ phase' \in {"save", "ended"}
    BY <1>1, <1>10 DEF Finish, OneInHand
  <2>2. UNCHANGED <<remaining, analyzed, checkpoint, failed>>
    BY <1>10 DEF Finish
  <2>3. Unsaved' = Unsaved /\ Unsaved' \cap failed' = Unsaved \cap failed
    BY <2>2 DEF Unsaved, Listed
  <2>4. u \in Nat /\ f \in Nat /\ u < k * (1 + f)
    <3>1. Unsaved \in SUBSET Seeds
      BY <1>1 DEF Unsaved, TypeOK
    <3>2. phase = "analyze"
      BY <1>10 DEF Finish
    <3> QED  BY <3>1, <3>2, SeedsFinite DEF RInv, FewUnsaved
  <2>5. u <= k * (1 + f)
    <3> HIDE DEF u, f, k
    <3>1. k * (1 + f) \in Nat
      BY <1>2, <2>4
    <3> QED  BY <2>4, <3>1
  <2>6. Cardinality(Unsaved') <= k * (1 + Cardinality(Unsaved' \cap failed'))
    BY <2>3, <2>5
  <2> QED  BY <2>1, <2>2, <2>6 DEF RInv, Listed
<1>11. CASE Killed
  BY <1>11 DEF Killed, RInv, Listed
<1>12. CASE UNCHANGED vars
  BY <1>12 DEF vars, RInv, FewUnsaved, Unsaved, Listed
<1> QED
  BY <1>4, <1>5, <1>6, <1>7, <1>8, <1>9, <1>10, <1>11, <1>12 DEF Next, Program

\* A kill leaves the file as it is, and what the run has analyzed is what is unsaved.
LEMMA KillRepeats ==
    ASSUME RInv, [Next]_vars, kills' # kills
    PROVE  RepeatsLittle
<1>1. Killed
  BY DEF Next, Program, vars, Start, AnalysisFails, AnalysisSucceeds, Generate, Advance,
         OpenCheckpoint, WriteCheckpoint, Finish
<1>2. analyzed \ Listed(checkpoint') = Unsaved
  BY <1>1 DEF Killed, Unsaved
<1> QED
  BY <1>2 DEF RInv, FewUnsaved, RepeatsLittle

\* For any seeds and interval, what a kill makes the next run repeat is bounded by the
\* interval and the analyses that failed since, unless it falls within a save.
THEOREM RepeatAlwaysBounded == Spec => RepeatBounded
<1>1. Init => RInv
  BY DEF Init, RInv
<1>2. IInv /\ RInv /\ [Next]_vars => RInv'
  BY NextRepeat
<1>3. RInv /\ [Next]_vars => [kills' # kills => RepeatsLittle]_vars
  BY KillRepeats
<1> QED
  BY <1>1, <1>2, <1>3, IInvHolds, PTL DEF Spec, RepeatBounded

-----------------------------------------------------------------------------
(* CaseGeneration *)

Working == stage \in {"pre", "input", "post"}

\* A state is that of one step more.
Follows(file, state, step) == file.kind = "post" => file.state = Append(state, step)

\* What was computed follows from the state at hand, but for a single step that stands
\* for more of them.
MadeFollows ==
    Working /\ (kind \in Chainable /\ Single => Steps = 1) => Follows(made, current, Input)

\* A file that is not there has no content.
Sound(file) == file.kind = "absent" => file = Absent

\* The list at hand: an epoch or some slots are one step, and one step is made from the
\* state of the suite.
ListHolds ==
    /\ stage # "idle" => steps # <<>>
    /\ steps # <<>> => IF kind \in Chainable THEN steps \in Listings ELSE steps = <<1>>
    /\ Len(steps) <= 1 => current = Initial

\* The case at hand is not there, and its files are written in order.
CaseAtHand ==
    /\ Working => cases[NameAt(pos)].post = Absent
    /\ stage \in {"input", "post"} => cases[NameAt(pos)].pre = CaseFile("pre", current)
    /\ stage = "post" => cases[NameAt(pos)].input = Input
    /\ stage = "ended" => pos \notin DOMAIN steps

FilesSound ==
    /\ Sound(made)
    /\ \A n \in Names : Sound(cases[n].pre) /\ Sound(cases[n].post)

\* A run that found no case and met no error: no case is there from the position on, and
\* those before it are a chain that ends in the state at hand.
FreshChain ==
    fresh /\ ~errors /\ stage # "idle" =>
        /\ \A i \in DOMAIN steps : i >= pos => cases[NameAt(i)].post = Absent
        /\ \A i \in DOMAIN steps \ {1} :
             cases[NameAt(i)].post # Absent =>
                 cases[NameAt(i)].pre.state = cases[NameAt(i - 1)].post.state
        /\ pos \in DOMAIN steps /\ pos > 1 => current = cases[NameAt(pos - 1)].post.state

\* What is behind a run that met no error is there, or behind a step that is rejected.
MadeSoFar ==
    ~errors /\ stage # "idle" =>
        \A i \in DOMAIN steps : i < pos =>
            \/ Exists(NameAt(i))
            \/ \E j \in 1..i - 1 : cases[NameAt(j)].post.kind = "error"

CaseInv ==
    /\ CaseTypeOK /\ ListHolds /\ FilesSound /\ CaseAtHand /\ MadeFollows
    /\ PairConsistent /\ FreshChain /\ MadeSoFar

-----------------------------------------------------------------------------
(* Names of cases *)

LEMMA ListingType ==
    ASSUME NEW s \in Listings
    PROVE  /\ s \in Seq(1..Steps) /\ Len(s) \in 1..Steps
           /\ DOMAIN s = 1..Len(s)
           /\ \A i, j \in DOMAIN s : i # j => s[i] # s[j]
<1>1. /\ Steps \in Nat \ {0} /\ s \in Seq(1..Steps) /\ s # <<>>
      /\ \A i, j \in DOMAIN s : i < j => s[i] < s[j]
  BY GenerationAssumption
<1>2. Len(s) \in Nat \ {0} /\ DOMAIN s = 1..Len(s) /\ s \in [1..Len(s) -> 1..Steps]
  BY <1>1
<1>3. \A i, j \in DOMAIN s : i # j => s[i] # s[j]
  <2> SUFFICES ASSUME NEW i \in DOMAIN s, NEW j \in DOMAIN s, i # j PROVE s[i] # s[j]
    OBVIOUS
  <2>1. i < j \/ j < i
    BY <1>2
  <2>2. s[i] \in Nat /\ s[j] \in Nat
    BY <1>2
  <2> QED  BY <1>1, <2>1, <2>2
<1>4. s \in Injection(1..Len(s), 1..Steps)
  BY <1>2, <1>3 DEF Injection, IsInjective
<1>5. IsFiniteSet(1..Steps) /\ Cardinality(1..Steps) = Steps /\ Cardinality(1..Len(s)) = Len(s)
  BY <1>1, <1>2, FS_Interval
<1>6. Len(s) <= Steps
  BY <1>4, <1>5, FS_Injection
<1> QED
  BY <1>1, <1>2, <1>3, <1>6

LEMMA ListType ==
    ASSUME ListHolds
    PROVE  /\ Len(steps) \in 0..Steps /\ DOMAIN steps = 1..Len(steps)
           /\ \A i \in DOMAIN steps : steps[i] \in 1..Steps
           /\ \A i, j \in DOMAIN steps : i # j => steps[i] # steps[j]
           /\ Single => current = Initial
           /\ kind \notin Chainable => steps = <<>> \/ steps = <<1>>
<1>1. Steps \in Nat \ {0}
  BY GenerationAssumption
<1>2. CASE steps = <<>>
  BY <1>1, <1>2 DEF ListHolds, Single
<1>3. CASE steps # <<>> /\ kind \in Chainable
  <2>1. steps \in Listings
    BY <1>3 DEF ListHolds
  <2>2. /\ Len(steps) \in 1..Steps /\ DOMAIN steps = 1..Len(steps) /\ steps \in Seq(1..Steps)
        /\ \A i, j \in DOMAIN steps : i # j => steps[i] # steps[j]
    BY <2>1, ListingType
  <2>3. /\ Len(steps) \in 0..Steps
        /\ \A i \in DOMAIN steps : steps[i] \in 1..Steps
    BY <1>1, <2>2
  <2>4. Single => current = Initial
    BY DEF ListHolds, Single
  <2> QED  BY <1>3, <2>2, <2>3, <2>4
<1>4. CASE steps = <<1>>
  BY <1>1, <1>4 DEF ListHolds, Single
<1> QED
  BY <1>2, <1>3, <1>4 DEF ListHolds

\* The steps of a list have directories of their own.
LEMMA NamesType ==
    ASSUME CaseTypeOK, ListHolds
    PROVE  /\ \A i \in DOMAIN steps : NameAt(i) \in Names
           /\ \A i, j \in DOMAIN steps : i # j => NameAt(i) # NameAt(j)
           /\ Single /\ kind \in Chainable => \A i \in DOMAIN steps : NameAt(i) \in SingleNames
<1>1. /\ Steps \in Nat \ {0} /\ Len(steps) \in 0..Steps /\ DOMAIN steps = 1..Len(steps)
      /\ \A i \in DOMAIN steps : steps[i] \in 1..Steps
      /\ \A i, j \in DOMAIN steps : i # j => steps[i] # steps[j]
  BY ListType, GenerationAssumption
<1>2. \A i \in DOMAIN steps : i \in 0..Steps /\ steps[i] \in 0..Steps /\ 0 \in 0..Steps
  BY <1>1
<1>3. \A i \in DOMAIN steps :
        NameAt(i) = IF kind = "operation" THEN <<steps[i], IF Single THEN 0 ELSE i>>
                    ELSE <<IF Single THEN 0 ELSE steps[i], 0>>
  BY DEF NameAt
<1>4. \A i \in DOMAIN steps : NameAt(i) \in Names
  BY <1>2, <1>3 DEF Names
<1>5. ASSUME NEW i \in DOMAIN steps, NEW j \in DOMAIN steps, i # j
      PROVE  NameAt(i) # NameAt(j)
  <2>1. ~Single
    BY <1>1, <1>5 DEF Single
  <2>2. CASE kind = "operation"
    BY <1>3, <1>5, <2>1, <2>2
  <2>3. CASE kind # "operation"
    BY <1>1, <1>3, <1>5, <2>1, <2>3
  <2> QED  BY <2>2, <2>3
<1>6. ASSUME Single, kind \in Chainable, NEW i \in DOMAIN steps
      PROVE  NameAt(i) \in SingleNames
  BY <1>2, <1>3, <1>6 DEF SingleNames, Chainable
<1> QED
  BY <1>4, <1>5, <1>6

Files == [pre : [kind : {"absent", "pre", "torn"}, state : States],
          input : 0..Steps,
          post : [kind : {"absent", "post", "error", "torn"}, state : States]]

\* What it is to write a file of the case at hand.
LEMMA Written ==
    ASSUME CaseTypeOK, NEW n \in Names, NEW c \in Files, cases' = [cases EXCEPT ![n] = c]
    PROVE  /\ cases' \in [Names -> Files] /\ cases'[n] = c
           /\ \A o \in Names : o # n => cases'[o] = cases[o]
  BY DEF CaseTypeOK, Files

\* Either file of a case alone.
LEMMA PartsOfCase ==
    ASSUME CaseTypeOK, NEW n \in Names
    PROVE  /\ cases[n] \in Files
           /\ \A f : [cases EXCEPT ![n].pre = f]
                       = [cases EXCEPT ![n] = [cases[n] EXCEPT !.pre = f]]
           /\ \A f : [cases EXCEPT ![n].input = f]
                       = [cases EXCEPT ![n] = [cases[n] EXCEPT !.input = f]]
           /\ \A f : [cases EXCEPT ![n].post = f]
                       = [cases EXCEPT ![n] = [cases[n] EXCEPT !.post = f]]
  BY DEF CaseTypeOK, Files

LEMMA EmptyType == Empty \in Files /\ Empty.post = Absent /\ Empty.pre = Absent
                   /\ Absent = [kind |-> "absent", state |-> <<>>]
<1>1. <<>> \in States /\ 0 \in 0..Steps
  BY GenerationAssumption DEF States
<1> QED
  BY <1>1 DEF Empty, Files, Absent, CaseFile

-----------------------------------------------------------------------------
(* What the steps keep *)

\* PairConsistent, of one case.
Consistent(c, n) ==
    c.post # Absent =>
        /\ c.pre.kind = "pre"
        /\ c.input # 0
        /\ c.post.kind = "post" /\ (kind \in Chainable /\ n \in SingleNames => Steps = 1) =>
             c.post.state = Append(c.pre.state, c.input)

LEMMA WriteKeeps ==
    ASSUME CaseInv, NEW n \in Names, NEW c \in Files, cases' = [cases EXCEPT ![n] = c],
           kind' = kind, Sound(c.pre), Sound(c.post), Consistent(c, n)
    PROVE  /\ cases' \in [Names -> Files]
           /\ cases'[n] = c /\ \A o \in Names : o # n => cases'[o] = cases[o]
           /\ PairConsistent'
           /\ \A o \in Names : Sound(cases'[o].pre) /\ Sound(cases'[o].post)
<1>1. /\ cases' \in [Names -> Files] /\ cases'[n] = c
      /\ \A o \in Names : o # n => cases'[o] = cases[o]
  BY Written DEF CaseInv
<1>2. \A o \in Names : Consistent(cases[o], o)
  BY DEF CaseInv, PairConsistent, Consistent
<1>3. \A o \in Names : Consistent(cases'[o], o)
  BY <1>1, <1>2
<1>4. PairConsistent'
  BY <1>3 DEF PairConsistent, Consistent, SingleNames
<1>5. \A o \in Names : Sound(cases'[o].pre) /\ Sound(cases'[o].post)
  BY <1>1 DEF CaseInv, FilesSound
<1> QED
  BY <1>1, <1>4, <1>5

LEMMA InvParts ==
    ASSUME CaseInv
    PROVE  /\ CaseTypeOK /\ ListHolds /\ FilesSound /\ CaseAtHand /\ MadeFollows
           /\ PairConsistent /\ FreshChain /\ MadeSoFar
  BY DEF CaseInv

\* A program that has ended must only leave sound files.
LEMMA IdleKeeps ==
    ASSUME CaseInv, run <= MaxRuns, run' = run + 1, stage' = "idle",
           cases' \in [Names -> Files], PairConsistent',
           \A o \in Names : Sound(cases'[o].pre) /\ Sound(cases'[o].post),
           UNCHANGED <<kind, hasPost, steps, pos, current, made, errors, fresh>>
    PROVE  CaseInv'
<1>1. CaseTypeOK'
  <2>1. run' \in 1..MaxRuns + 1
    BY InvParts, GenerationAssumption DEF CaseTypeOK
  <2> QED  BY <2>1, InvParts DEF CaseTypeOK, Files
<1>2. ListHolds'
  BY InvParts DEF ListHolds, Chainable
<1>3. FilesSound'
  BY InvParts DEF FilesSound
<1>4. CaseAtHand' /\ MadeFollows' /\ FreshChain' /\ MadeSoFar'
  BY DEF CaseAtHand, MadeFollows, Working, FreshChain, MadeSoFar
<1> QED
  BY <1>1, <1>2, <1>3, <1>4 DEF CaseInv

LEMMA SameCases ==
    ASSUME CaseInv, cases' = cases, kind' = kind
    PROVE  /\ cases' \in [Names -> Files] /\ PairConsistent'
           /\ \A o \in Names : Sound(cases'[o].pre) /\ Sound(cases'[o].post)
  BY InvParts DEF CaseTypeOK, Files, PairConsistent, FilesSound, SingleNames

LEMMA StoppedKeeps ==
    ASSUME CaseInv, StartFails \/ SlotsUnsupported \/ CopyNothing
    PROVE  CaseInv'
<1>1. run <= MaxRuns
  BY InvParts DEF StartFails, SlotsUnsupported, CopyNothing, CaseTypeOK
<1>2. /\ run' = run + 1 /\ stage' = "idle" /\ cases' = cases
      /\ UNCHANGED <<kind, hasPost, steps, pos, current, made, errors, fresh>>
  BY DEF StartFails, SlotsUnsupported, CopyNothing
<1> QED
  BY <1>1, <1>2, SameCases, IdleKeeps

\* The case at hand, whose files are being written.
LEMMA AtHand ==
    ASSUME CaseInv, Working
    PROVE  /\ pos \in DOMAIN steps /\ NameAt(pos) \in Names /\ Input \in 1..Steps
           /\ cases[NameAt(pos)] \in Files
           /\ cases[NameAt(pos)].post = Absent /\ Sound(cases[NameAt(pos)].pre)
           /\ current \in States /\ run <= MaxRuns /\ pos \in Nat
           /\ made \in [kind : {"absent", "post", "error"}, state : States] /\ Sound(made)
           /\ stage \in {"input", "post"} => cases[NameAt(pos)].pre = CaseFile("pre", current)
           /\ stage = "post" => cases[NameAt(pos)].input = Input
<1>1. pos \in DOMAIN steps /\ run <= MaxRuns /\ current \in States
  BY InvParts DEF CaseTypeOK, Working
<1>2. NameAt(pos) \in Names
  BY <1>1, InvParts, NamesType
<1>3. Input \in 1..Steps /\ pos \in Nat
  <2>1. DOMAIN steps = 1..Len(steps) /\ Len(steps) \in 0..Steps /\ steps[pos] \in 1..Steps
    BY <1>1, InvParts, ListType
  <2> QED  BY <1>1, <2>1 DEF Input
<1>4. cases[NameAt(pos)] \in Files /\ Sound(cases[NameAt(pos)].pre)
  BY <1>2, InvParts DEF CaseTypeOK, Files, FilesSound
<1>5. made \in [kind : {"absent", "post", "error"}, state : States] /\ Sound(made)
  BY InvParts DEF CaseTypeOK, FilesSound
<1>6. /\ cases[NameAt(pos)].post = Absent
      /\ stage \in {"input", "post"} => cases[NameAt(pos)].pre = CaseFile("pre", current)
      /\ stage = "post" => cases[NameAt(pos)].input = Input
  BY InvParts DEF CaseAtHand
<1> QED
  BY <1>1, <1>2, <1>3, <1>4, <1>5, <1>6

\* A file that is cut short, or not written, leaves the case as one to be made anew; the
\* last one leaves it as one that is skipped.
LEMMA GenerationKilledKeeps ==
    ASSUME CaseInv, GenerationKilled
    PROVE  CaseInv'
<1> DEFINE n == NameAt(pos)
<1>1. /\ stage \in {"step", "pre", "input", "post"} /\ run' = run + 1 /\ stage' = "idle"
      /\ UNCHANGED <<kind, hasPost, steps, pos, current, made, errors, fresh>>
  BY DEF GenerationKilled
<1>2. run <= MaxRuns
  BY <1>1, InvParts DEF CaseTypeOK
<1>3. CASE cases' = cases
  BY <1>1, <1>2, <1>3, SameCases, IdleKeeps
<1>4. ASSUME Working, NEW c \in Files, cases' = [cases EXCEPT ![n] = c],
             Sound(c.pre), Sound(c.post), Consistent(c, n)
      PROVE  CaseInv'
  <2>1. n \in Names
    BY <1>4, AtHand
  <2>2. /\ cases' \in [Names -> Files] /\ PairConsistent'
        /\ \A o \in Names : Sound(cases'[o].pre) /\ Sound(cases'[o].post)
    BY <1>1, <1>4, <2>1, WriteKeeps
  <2> QED  BY <1>1, <1>2, <2>2, IdleKeeps
<1>5. CASE stage = "post" /\ made # Absent /\ cases' = [cases EXCEPT ![n].post = Torn(made)]
  <2> DEFINE c == [cases[n] EXCEPT !.post = Torn(made)]
  <2>1. Working
    BY <1>5 DEF Working
  <2>2. /\ n \in Names /\ cases[n] \in Files /\ made.state \in States
        /\ cases[n].pre = CaseFile("pre", current) /\ cases[n].input = Input
        /\ Input \in 1..Steps /\ Sound(cases[n].pre)
    BY <1>5, <2>1, AtHand
  <2>3. cases' = [cases EXCEPT ![n] = c]
    BY <1>5, <2>2, PartsOfCase, InvParts
  <2>4. /\ c \in Files /\ c.pre = cases[n].pre /\ c.input = cases[n].input
        /\ c.post.kind = "torn"
    BY <2>2 DEF Files, Torn, CaseFile
  <2>5. Sound(c.pre) /\ Sound(c.post) /\ Consistent(c, n)
    BY <2>2, <2>4 DEF Sound, Consistent, CaseFile
  <2> HIDE DEF c
  <2> QED  BY <1>4, <2>1, <2>3, <2>4, <2>5
<1>6. CASE stage = "pre" /\ cases' = [cases EXCEPT ![n].pre = Torn(CaseFile("pre", current))]
  <2> DEFINE c == [cases[n] EXCEPT !.pre = Torn(CaseFile("pre", current))]
  <2>1. Working
    BY <1>6 DEF Working
  <2>2. n \in Names /\ cases[n] \in Files /\ cases[n].post = Absent /\ current \in States
    BY <2>1, AtHand
  <2>3. cases' = [cases EXCEPT ![n] = c]
    BY <1>6, <2>2, PartsOfCase, InvParts
  <2>4. c \in Files /\ c.post = Absent /\ c.pre.kind = "torn"
    BY <2>2 DEF Files, Torn, CaseFile
  <2>5. Sound(c.pre) /\ Sound(c.post) /\ Consistent(c, n)
    BY <2>4 DEF Sound, Consistent
  <2> HIDE DEF c
  <2> QED  BY <1>4, <2>1, <2>3, <2>4, <2>5
<1>7. CASE stage = "input" /\ cases' = [cases EXCEPT ![n].input = 0]
  <2> DEFINE c == [cases[n] EXCEPT !.input = 0]
  <2>1. Working
    BY <1>7 DEF Working
  <2>2. /\ n \in Names /\ cases[n] \in Files /\ cases[n].post = Absent
        /\ Sound(cases[n].pre)
    BY <2>1, AtHand
  <2>3. cases' = [cases EXCEPT ![n] = c]
    BY <1>7, <2>2, PartsOfCase, InvParts
  <2>4. c \in Files /\ c.post = Absent /\ c.pre = cases[n].pre
    BY <2>2, GenerationAssumption DEF Files
  <2>5. Sound(c.pre) /\ Sound(c.post) /\ Consistent(c, n)
    BY <2>2, <2>4 DEF Sound, Consistent
  <2> HIDE DEF c
  <2> QED  BY <1>4, <2>1, <2>3, <2>4, <2>5
<1> QED
  BY <1>3, <1>5, <1>6, <1>7 DEF GenerationKilled

\* The names of a list that a step begins with.
LEMMA NamesNext == (CaseTypeOK /\ ListHolds => \A i \in DOMAIN steps : NameAt(i) \in Names)'
<1>1. CaseTypeOK /\ ListHolds => \A i \in DOMAIN steps : NameAt(i) \in Names
  BY NamesType
<1> QED
  BY <1>1, PTL

\* A run begins with a list, at its first step.
LEMMA BeginKeeps ==
    ASSUME CaseInv, NEW listing, NEW incomplete \in BOOLEAN, Begin(listing, incomplete),
           listing # <<>>,
           IF kind \in Chainable THEN listing \in Listings ELSE listing = << 1 >>
    PROVE  CaseInv'
<1>1. /\ run <= MaxRuns /\ steps' = listing /\ pos' = 1 /\ current' = Initial /\ made' = Absent
      /\ errors' = incomplete /\ fresh' = (cases = [n \in Names |-> Empty]) /\ stage' = "step"
      /\ UNCHANGED <<kind, accepted, hasPost, run, cases>>
  BY DEF Begin
<1>2. listing \in Seq(1..Steps) /\ Len(listing) \in Nat \ {0} /\ DOMAIN listing = 1..Len(listing)
  <2>1. Steps \in Nat \ {0}
    BY GenerationAssumption
  <2>2. CASE kind \in Chainable
    BY <2>1, <2>2, ListingType
  <2>3. CASE kind \notin Chainable
    <3>1. listing = <<1>> /\ 1 \in 1..Steps
      BY <2>1, <2>3
    <3> QED  BY <3>1
  <2> QED  BY <2>2, <2>3
<1>3. CaseTypeOK'
  <2>1. 1 \in 1..Len(listing) + 1 /\ <<>> \in States
    BY <1>2 DEF States
  <2>2. made' \in [kind : {"absent", "post", "error"}, state : States]
    BY <1>1, <2>1, EmptyType
  <2>3. fresh' \in BOOLEAN
    BY <1>1
  <2> QED  BY <1>1, <1>2, <2>1, <2>2, <2>3, InvParts DEF CaseTypeOK, Initial, States
<1>4. ListHolds'
  BY <1>1 DEF ListHolds, Chainable
<1>5. FilesSound'
  BY <1>1, InvParts, EmptyType DEF FilesSound, Sound
<1>6. CaseAtHand' /\ MadeFollows'
  BY <1>1 DEF CaseAtHand, MadeFollows, Working
<1>7. PairConsistent'
  BY <1>1, SameCases
<1>8. FreshChain'
  <2> SUFFICES ASSUME fresh', ~errors' PROVE FreshChain'
    BY DEF FreshChain
  <2>1. cases' = [n \in Names |-> Empty]
    BY <1>1
  <2>2. \A i \in DOMAIN steps' : NameAt(i)' \in Names
    <3>1. CaseTypeOK' /\ ListHolds'
      BY <1>3, <1>4
    <3> QED  BY <3>1, NamesNext
  <2>3. \A i \in DOMAIN steps' : cases'[NameAt(i)'].post = Absent
    BY <2>1, <2>2, EmptyType
  <2> QED  BY <1>1, <2>3 DEF FreshChain
<1>9. MadeSoFar'
  <2>1. \A i \in DOMAIN steps' : ~(i < pos')
    BY <1>1, <1>2
  <2> QED  BY <2>1 DEF MadeSoFar
<1> QED
  BY <1>3, <1>4, <1>5, <1>6, <1>7, <1>8, <1>9 DEF CaseInv

LEMMA StartKeeps ==
    ASSUME CaseInv,
           \/ \E listing \in Listings : StartBlocks(listing) \/ StartOperations(listing)
           \/ StartEpoch \/ StartSlots
    PROVE  CaseInv'
<1>1. ASSUME NEW listing \in Listings, StartBlocks(listing) \/ StartOperations(listing)
      PROVE  CaseInv'
  <2>1. kind \in Chainable /\ Begin(listing, Len(listing) < Steps)
    BY <1>1 DEF StartBlocks, StartOperations, Chainable
  <2>2. listing # <<>>
    BY GenerationAssumption
  <2>3. (Len(listing) < Steps) \in BOOLEAN
    OBVIOUS
  <2> QED  BY <2>1, <2>2, <2>3, BeginKeeps
<1>2. CASE StartEpoch \/ StartSlots
  <2>1. kind \notin Chainable /\ Begin(<<1>>, FALSE)
    BY <1>2 DEF StartEpoch, StartSlots, Chainable
  <2>2. <<1>> # <<>>
    OBVIOUS
  <2> QED  BY <2>1, <2>2, BeginKeeps
<1> QED
  BY <1>1, <1>2

\* Names stay while the list and the kind do.
LEMMA SameNames ==
    ASSUME kind' = kind, steps' = steps
    PROVE  /\ \A i \in DOMAIN steps : NameAt(i)' = NameAt(i)
           /\ Single' = Single /\ (pos' = pos => Input' = Input)
  BY DEF NameAt, Single, Input

\* The position moves on: the case there is there already, or an error was met.
LEMMA OnwardKeeps ==
    ASSUME CaseInv, stage = "step", pos \in DOMAIN steps, Onward,
           \/ Exists(NameAt(pos)) /\ errors' = errors
           \/ errors' = TRUE,
           made' \in {made, Absent},
           UNCHANGED <<kind, hasPost, run, steps, current, cases, fresh>>
    PROVE  CaseInv'
<1>1. pos' = pos + 1 /\ stage' = "step"
  BY DEF Onward
<1>2. DOMAIN steps = 1..Len(steps) /\ Len(steps) \in Nat /\ pos \in Nat
  BY InvParts, ListType
<1>3. CaseTypeOK'
  <2>1. pos' \in 1..Len(steps) + 1
    BY <1>1, <1>2
  <2>2. made' \in [kind : {"absent", "post", "error"}, state : States]
    <3>1. <<>> \in States
      BY DEF States
    <3> QED  BY <3>1, EmptyType, InvParts DEF CaseTypeOK
  <2>3. errors' \in BOOLEAN
    BY InvParts DEF CaseTypeOK
  <2>4. run <= MaxRuns
    BY InvParts DEF CaseTypeOK
  <2> QED  BY <1>1, <2>1, <2>2, <2>3, <2>4, InvParts DEF CaseTypeOK
<1>4. ListHolds'
  BY InvParts DEF ListHolds, Chainable
<1>5. FilesSound'
  BY InvParts, EmptyType DEF FilesSound, Sound
<1>6. CaseAtHand' /\ MadeFollows'
  BY <1>1 DEF CaseAtHand, MadeFollows, Working
<1>7. PairConsistent'
  BY SameCases
\* A run that found nothing has nothing to skip.
<1>8. FreshChain'
  <2> SUFFICES ASSUME fresh', ~errors' PROVE FALSE
    BY DEF FreshChain
  <2>1. cases[NameAt(pos)].post = Absent
    BY <1>2, InvParts DEF FreshChain
  <2> QED  BY <2>1 DEF Exists
<1>9. MadeSoFar'
  <2> SUFFICES ASSUME ~errors', NEW i \in DOMAIN steps, i < pos + 1
               PROVE  \/ Exists(NameAt(i))
                      \/ \E j \in 1..i - 1 : cases[NameAt(j)].post.kind = "error"
    <3>1. \A j : NameAt(j)' = NameAt(j)
      BY DEF NameAt, Single
    <3> QED  BY <1>1, <3>1 DEF MadeSoFar, Exists
  <2>1. i = pos \/ i < pos
    BY <1>2
  <2> QED  BY <2>1, InvParts DEF MadeSoFar
<1> QED
  BY <1>3, <1>4, <1>5, <1>6, <1>7, <1>8, <1>9 DEF CaseInv

LEMMA PassKeeps ==
    ASSUME CaseInv, \/ Skip \/ ConvertFails
                    \/ PostFails /\ kind \notin {"epoch", "slots"}
    PROVE  CaseInv'
<1>1. /\ stage = "step" /\ pos \in DOMAIN steps /\ Onward
      /\ \/ Exists(NameAt(pos)) /\ errors' = errors
         \/ errors' = TRUE
      /\ made' \in {made, Absent}
      /\ UNCHANGED <<kind, hasPost, run, steps, current, cases, fresh>>
  BY DEF Skip, ConvertFails, PostFails
<1> QED
  BY <1>1, OnwardKeeps

LEMMA FinalIs ==
    ASSUME CaseInv, pos \in DOMAIN steps
    PROVE  /\ Final \in States
           /\ Single => current = <<>> /\ pos = 1
           /\ Single /\ (kind \in Chainable => Steps = 1) => Final = Append(current, Input)
           /\ Input \in 1..Steps /\ Append(current, Input) \in States
<1>1. /\ Steps \in Nat \ {0} /\ DOMAIN steps = 1..Len(steps) /\ Len(steps) \in 0..Steps
      /\ Input \in 1..Steps
      /\ kind \notin Chainable => steps = <<1>>
      /\ Single => current = <<>>
  BY InvParts, ListType, GenerationAssumption DEF Input, Initial
<1>2. current \in Seq(1..Steps)
  BY InvParts DEF CaseTypeOK, States
<1>3. Append(current, Input) \in States
  BY <1>1, <1>2 DEF States
<1>4. Single => pos = 1
  BY <1>1 DEF Single
<1>5. [i \in 1..Steps |-> i] \in Seq(1..Steps) /\ <<1>> \in Seq(1..Steps)
  BY <1>1
<1>6. Final \in States
  BY <1>5 DEF Final, States
<1>7. ASSUME Single, kind \in Chainable => Steps = 1
      PROVE  Final = Append(current, Input)
  <2>1. Input = 1
    BY <1>1, <1>4, <1>7 DEF Input
  <2>2. Append(<<>>, 1) = <<1>>
    OBVIOUS
  <2>3. [i \in 1..1 |-> i] = <<1>>
    <3> DEFINE s == [i \in 1..1 |-> i]
    <3>1. s \in Seq(Nat) /\ Len(s) = 1 /\ s[1] = 1
      OBVIOUS
    <3> HIDE DEF s
    <3> QED  BY <3>1
  <2>4. Final = <<1>>
    BY <1>7, <2>3 DEF Final
  <2> QED  BY <1>1, <1>7, <2>1, <2>2, <2>4
<1> QED
  BY <1>1, <1>3, <1>4, <1>6, <1>7

LEMMA ExecutedIs ==
    ASSUME CaseInv, pos \in DOMAIN steps
    PROVE  /\ Executed \in [kind : {"post", "error"}, state : States]
           /\ Follows(Executed, current, Input)
<1>1. Append(current, Input) \in States /\ <<>> \in States
  BY FinalIs DEF States
<1> QED
  BY <1>1 DEF Executed, CaseFile, Follows

\* What was computed is to be written: a case that does not exist has no state after it.
LEMMA WriteBegins ==
    ASSUME CaseInv, stage = "step", pos \in DOMAIN steps, ~Exists(NameAt(pos)), stage' = "pre",
           made' \in [kind : {"absent", "post", "error"}, state : States], Sound(made'),
           (kind \in Chainable /\ Single => Steps = 1) => Follows(made', current, Input),
           errors' = errors \/ errors' = TRUE,
           UNCHANGED <<kind, hasPost, run, steps, pos, current, cases, fresh>>
    PROVE  CaseInv'
<1>1. CaseTypeOK'
  BY InvParts DEF CaseTypeOK
<1>2. ListHolds'
  BY InvParts DEF ListHolds, Chainable
<1>3. FilesSound'
  BY InvParts DEF FilesSound
<1>4. \A i : NameAt(i)' = NameAt(i)
  BY DEF NameAt, Single
<1>5. cases[NameAt(pos)].post = Absent
  <2>1. NameAt(pos) \in Names
    BY InvParts, NamesType
  <2>2. CASE cases[NameAt(pos)].pre = Absent
    BY <2>1, <2>2, EmptyType, InvParts DEF PairConsistent
  <2> QED  BY <2>2 DEF Exists
<1>6. CaseAtHand'
  BY <1>4, <1>5 DEF CaseAtHand
<1>7. MadeFollows'
  BY DEF MadeFollows, Follows, Single, Chainable, Input
<1>8. PairConsistent'
  BY SameCases
<1>9. FreshChain'
  BY <1>4, InvParts DEF FreshChain
<1>10. MadeSoFar'
  BY <1>4, InvParts DEF MadeSoFar, Exists
<1> QED
  BY <1>1, <1>2, <1>3, <1>6, <1>7, <1>8, <1>9, <1>10 DEF CaseInv

LEMMA ComputeKeeps ==
    ASSUME CaseInv, Compute \/ (PostFails /\ kind \in {"epoch", "slots"})
    PROVE  CaseInv'
<1>1. /\ stage = "step" /\ pos \in DOMAIN steps /\ ~Exists(NameAt(pos)) /\ stage' = "pre"
      /\ errors' = errors \/ errors' = TRUE
      /\ UNCHANGED <<kind, hasPost, run, steps, pos, current, cases, fresh>>
  BY DEF Compute, PostFails
<1>2. \/ Single /\ made' = CaseFile("post", Final)
      \/ made' \in {Executed, CaseFile("error", <<>>)}
      \/ made' = Absent
  BY DEF Compute, PostFails
<1>3. <<>> \in States
  BY DEF States
<1>4. /\ made' \in [kind : {"absent", "post", "error"}, state : States] /\ Sound(made')
      /\ (kind \in Chainable /\ Single => Steps = 1) => Follows(made', current, Input)
  <2>1. CASE Single /\ made' = CaseFile("post", Final)
    <3>1. made'.kind = "post" /\ made'.state = Final
      BY <2>1 DEF CaseFile
    <3>2. Final \in States
      BY <1>1, FinalIs
    <3>3. made' \in [kind : {"absent", "post", "error"}, state : States] /\ Sound(made')
      BY <2>1, <3>1, <3>2 DEF CaseFile, Sound
    <3>4. ASSUME kind \in Chainable /\ Single => Steps = 1
          PROVE  Follows(made', current, Input)
      BY <1>1, <2>1, <3>1, <3>4, FinalIs DEF Follows
    <3> QED  BY <3>3, <3>4
  <2>2. CASE made' \in {Executed, CaseFile("error", <<>>)}
    <3>1. CASE made' = Executed
      <4>1. /\ Executed \in [kind : {"post", "error"}, state : States]
            /\ Follows(Executed, current, Input)
        BY <1>1, ExecutedIs
      <4> QED  BY <3>1, <4>1 DEF Sound
    <3>2. CASE made' = CaseFile("error", <<>>)
      BY <1>3, <3>2 DEF CaseFile, Sound, Follows
    <3> QED  BY <2>2, <3>1, <3>2
  <2>3. CASE made' = Absent
    BY <1>3, <2>3, EmptyType DEF Sound, Follows
  <2> QED  BY <1>2, <2>1, <2>2, <2>3
<1> QED
  BY <1>1, <1>4, WriteBegins

\* A file of the case at hand is written, but not the last one.
LEMMA CopyKeeps ==
    ASSUME CaseInv, CopyPre \/ CopyInput
    PROVE  CaseInv'
<1> DEFINE n == NameAt(pos)
           c == IF stage = "pre" THEN [cases[n] EXCEPT !.pre = CaseFile("pre", current)]
                ELSE [cases[n] EXCEPT !.input = Input]
<1>1. /\ \/ stage = "pre" /\ stage' = "input"
         \/ stage = "input" /\ stage' = "post"
      /\ UNCHANGED <<kind, hasPost, run, steps, pos, current, made, errors, fresh>>
      /\ Working /\ Working'
  BY DEF CopyPre, CopyInput, Working
<1>2. /\ pos \in DOMAIN steps /\ n \in Names /\ Input \in 1..Steps /\ cases[n] \in Files
      /\ cases[n].post = Absent /\ Sound(cases[n].pre) /\ current \in States
      /\ stage = "input" => cases[n].pre = CaseFile("pre", current)
  BY <1>1, AtHand
<1>3. cases' = [cases EXCEPT ![n] = c]
  BY <1>2, PartsOfCase, InvParts DEF CopyPre, CopyInput
<1>4. /\ c \in Files /\ c.post = Absent
      /\ c.pre = CaseFile("pre", current) /\ Sound(c.pre)
      /\ stage = "input" => c.input = Input
  <2>1. CASE stage = "pre"
    BY <1>2, <2>1 DEF Files, CaseFile, Sound
  <2>2. CASE stage = "input"
    BY <1>2, <2>2, GenerationAssumption DEF Files, CaseFile, Sound
  <2> QED  BY <1>1, <2>1, <2>2
<1>5. Sound(c.post) /\ Consistent(c, n)
  BY <1>4 DEF Sound, Consistent
<1> HIDE DEF c
<1>6. /\ cases' \in [Names -> Files] /\ cases'[n] = c
      /\ \A o \in Names : o # n => cases'[o] = cases[o]
      /\ PairConsistent'
      /\ \A o \in Names : Sound(cases'[o].pre) /\ Sound(cases'[o].post)
  BY <1>1, <1>2, <1>3, <1>4, <1>5, WriteKeeps
<1>7. \A i : NameAt(i)' = NameAt(i)
  BY <1>1 DEF NameAt, Single
<1>8. CaseTypeOK'
  BY <1>1, <1>2, <1>6, InvParts DEF CaseTypeOK, Files, Working
<1>9. ListHolds'
  BY <1>1, InvParts DEF ListHolds, Chainable
<1>10. FilesSound'
  BY <1>1, <1>6, InvParts DEF FilesSound
<1>11. CaseAtHand'
  <2>1. Input' = Input
    BY <1>1 DEF Input
  <2> QED  BY <1>1, <1>4, <1>6, <1>7, <2>1 DEF CaseAtHand
<1>12. MadeFollows'
  BY <1>1, InvParts DEF MadeFollows, Follows, Single, Chainable, Input
<1>13. /\ \A i \in DOMAIN steps : NameAt(i) \in Names /\ (i # pos => NameAt(i) # n)
       /\ DOMAIN steps = 1..Len(steps) /\ Len(steps) \in Nat
  BY <1>2, InvParts, NamesType, ListType
<1>14. \A i \in DOMAIN steps : cases'[NameAt(i)].post = cases[NameAt(i)].post
  BY <1>2, <1>4, <1>6, <1>13
<1>15. \A i \in DOMAIN steps : i # pos => cases'[NameAt(i)] = cases[NameAt(i)]
  BY <1>6, <1>13
<1>16. FreshChain'
  <2> SUFFICES ASSUME fresh', ~errors'
               PROVE  /\ \A i \in DOMAIN steps : i >= pos => cases'[NameAt(i)].post = Absent
                      /\ \A i \in DOMAIN steps \ {1} :
                           cases'[NameAt(i)].post # Absent =>
                             cases'[NameAt(i)].pre.state = cases'[NameAt(i - 1)].post.state
                      /\ pos \in DOMAIN steps /\ pos > 1 =>
                           current = cases'[NameAt(pos - 1)].post.state
    BY <1>1, <1>7 DEF FreshChain
  <2>1. /\ \A i \in DOMAIN steps : i >= pos => cases[NameAt(i)].post = Absent
        /\ \A i \in DOMAIN steps \ {1} :
             cases[NameAt(i)].post # Absent =>
                 cases[NameAt(i)].pre.state = cases[NameAt(i - 1)].post.state
        /\ pos \in DOMAIN steps /\ pos > 1 => current = cases[NameAt(pos - 1)].post.state
    BY <1>1, InvParts DEF FreshChain, Working
  <2>2. \A i \in DOMAIN steps \ {1} : i - 1 \in DOMAIN steps
    BY <1>13
  <2>3. \A i \in DOMAIN steps \ {1} :
           cases'[NameAt(i)].post # Absent =>
             cases'[NameAt(i)].pre.state = cases'[NameAt(i - 1)].post.state
    BY <1>2, <1>14, <1>15, <2>1, <2>2
  <2>4. pos > 1 => pos - 1 \in DOMAIN steps
    BY <1>2, <1>13
  <2> QED  BY <1>14, <2>1, <2>3, <2>4
<1>17. MadeSoFar'
  <2> SUFFICES ASSUME ~errors, NEW i \in DOMAIN steps, i < pos
               PROVE  \/ cases'[NameAt(i)].pre # Absent /\ cases'[NameAt(i)].post # Absent
                      \/ \E j \in 1..i - 1 : cases'[NameAt(j)].post.kind = "error"
    BY <1>1, <1>7 DEF MadeSoFar, Exists
  <2>1. \/ cases[NameAt(i)].pre # Absent /\ cases[NameAt(i)].post # Absent
        \/ \E j \in 1..i - 1 : cases[NameAt(j)].post.kind = "error"
    BY <1>1, InvParts DEF MadeSoFar, Exists, Working
  <2>2. i # pos /\ \A j \in 1..i - 1 : j \in DOMAIN steps
    BY <1>2, <1>13
  <2> QED  BY <1>14, <1>15, <2>1, <2>2
<1> QED
  BY <1>6, <1>8, <1>9, <1>10, <1>11, <1>12, <1>16, <1>17 DEF CaseInv

\* With the last file the case is there, and the next is made from the state after it.
LEMMA CopyPostKeeps ==
    ASSUME CaseInv, CopyPost
    PROVE  CaseInv'
<1> DEFINE n == NameAt(pos)
           c == [cases[n] EXCEPT !.post = made]
<1>1. /\ stage = "post" /\ made # Absent /\ stage' = "step" /\ current' = NextPre
      /\ pos' = IF made.kind = "error" THEN Len(steps) + 1 ELSE pos + 1
      /\ UNCHANGED <<kind, hasPost, run, steps, made, errors, fresh>>
      /\ Working /\ ~Working'
  BY DEF CopyPost, Working
<1>2. /\ pos \in DOMAIN steps /\ n \in Names /\ Input \in 1..Steps /\ cases[n] \in Files
      /\ cases[n].post = Absent /\ Sound(cases[n].pre) /\ current \in States
      /\ made \in [kind : {"absent", "post", "error"}, state : States] /\ Sound(made)
      /\ cases[n].pre = CaseFile("pre", current) /\ cases[n].input = Input
      /\ run <= MaxRuns
  BY <1>1, AtHand
<1>3. cases' = [cases EXCEPT ![n] = c]
  BY <1>2, PartsOfCase, InvParts DEF CopyPost
<1>4. /\ c \in Files /\ c.post = made /\ c.pre = CaseFile("pre", current) /\ c.input = Input
      /\ Sound(c.pre) /\ Sound(c.post)
  BY <1>2 DEF Files
<1>5. made.kind \in {"post", "error"}
  BY <1>1, <1>2 DEF Sound
<1>6. c.pre.kind = "pre" /\ c.pre.state = current /\ c.pre # Absent
  BY <1>4 DEF CaseFile, Absent
<1> HIDE DEF c
<1>7. /\ \A i \in DOMAIN steps : NameAt(i) \in Names /\ (i # pos => NameAt(i) # n)
      /\ DOMAIN steps = 1..Len(steps) /\ Len(steps) \in Nat /\ pos \in Nat
      /\ Single /\ kind \in Chainable => n \in SingleNames
  <2>1. DOMAIN steps = 1..Len(steps) /\ Len(steps) \in Nat
    BY InvParts, ListType
  <2> QED  BY <1>2, <2>1, InvParts, NamesType
<1>8. Consistent(c, n)
  <2> SUFFICES ASSUME made.kind = "post", kind \in Chainable /\ n \in SingleNames => Steps = 1
               PROVE  made.state = Append(current, Input)
    BY <1>2, <1>4, <1>6 DEF Consistent
  <2>1. kind \in Chainable /\ Single => Steps = 1
    BY <1>7
  <2>2. Follows(made, current, Input)
    BY <1>1, <2>1, InvParts DEF MadeFollows
  <2> QED  BY <2>2 DEF Follows
<1>9. /\ cases' \in [Names -> Files] /\ cases'[n] = c
      /\ \A o \in Names : o # n => cases'[o] = cases[o]
      /\ PairConsistent'
      /\ \A o \in Names : Sound(cases'[o].pre) /\ Sound(cases'[o].post)
  BY <1>1, <1>2, <1>3, <1>4, <1>8, WriteKeeps
<1>10. \A i : NameAt(i)' = NameAt(i)
  BY <1>1 DEF NameAt, Single
<1>11. CaseTypeOK'
  <2>1. pos' \in 1..Len(steps) + 1
    BY <1>1, <1>2, <1>7
  <2>2. current' \in States
    BY <1>1, <1>2 DEF NextPre
  <2> QED  BY <1>1, <1>2, <1>9, <2>1, <2>2, InvParts DEF CaseTypeOK, Files
<1>12. ListHolds'
  <2>1. steps # <<>> /\ (steps # <<>> => IF kind \in Chainable THEN steps \in Listings
                                         ELSE steps = <<1>>)
    BY <1>1, InvParts DEF ListHolds
  <2>2. Len(steps) <= 1 => current' = Initial
    <3> SUFFICES ASSUME Len(steps) <= 1 PROVE current' = Initial
      OBVIOUS
    <3>1. Single
      BY <1>2, <1>7 DEF Single
    <3>2. current = Initial
      BY InvParts DEF ListHolds
    <3> QED  BY <1>1, <3>1, <3>2 DEF NextPre
  <2> QED  BY <1>1, <2>1, <2>2 DEF ListHolds, Chainable
<1>13. FilesSound'
  BY <1>1, <1>2, <1>9 DEF FilesSound
<1>14. CaseAtHand' /\ MadeFollows'
  BY <1>1 DEF CaseAtHand, MadeFollows, Working
<1>15. \A i \in DOMAIN steps : i # pos => cases'[NameAt(i)] = cases[NameAt(i)]
  BY <1>7, <1>9
<1>16. FreshChain'
  <2> SUFFICES ASSUME fresh', ~errors'
               PROVE  /\ \A i \in DOMAIN steps : i >= pos' => cases'[NameAt(i)].post = Absent
                      /\ \A i \in DOMAIN steps \ {1} :
                           cases'[NameAt(i)].post # Absent =>
                             cases'[NameAt(i)].pre.state = cases'[NameAt(i - 1)].post.state
                      /\ pos' \in DOMAIN steps /\ pos' > 1 =>
                           current' = cases'[NameAt(pos' - 1)].post.state
    BY <1>1, <1>10 DEF FreshChain
  <2>1. /\ \A i \in DOMAIN steps : i >= pos => cases[NameAt(i)].post = Absent
        /\ \A i \in DOMAIN steps \ {1} :
             cases[NameAt(i)].post # Absent =>
                 cases[NameAt(i)].pre.state = cases[NameAt(i - 1)].post.state
        /\ pos \in DOMAIN steps /\ pos > 1 => current = cases[NameAt(pos - 1)].post.state
    BY <1>1, InvParts DEF FreshChain
  <2>2. ASSUME NEW i \in DOMAIN steps, i >= pos' PROVE cases'[NameAt(i)].post = Absent
    <3>1. i # pos /\ i >= pos
      BY <1>1, <1>2, <1>7, <2>2
    <3> QED  BY <1>15, <2>1, <3>1
  <2>3. ASSUME NEW i \in DOMAIN steps \ {1}, cases'[NameAt(i)].post # Absent
        PROVE  cases'[NameAt(i)].pre.state = cases'[NameAt(i - 1)].post.state
    <3>1. i - 1 \in DOMAIN steps /\ i \in Nat
      BY <1>7
    <3>2. CASE i = pos
      <4>1. cases'[NameAt(i)].pre.state = current
        BY <1>6, <1>9, <3>2
      <4>2. current = cases[NameAt(i - 1)].post.state
        BY <1>2, <1>7, <2>1, <3>2
      <4>3. i - 1 # pos
        BY <3>1, <3>2
      <4> QED  BY <1>15, <3>1, <4>1, <4>2, <4>3
    <3>3. CASE i # pos
      <4>1. cases[NameAt(i)].post # Absent
        BY <1>15, <2>3, <3>3
      <4>2. ~(i >= pos)
        BY <2>1, <4>1
      <4>3. i - 1 # pos
        BY <1>7, <3>1, <4>2
      <4> QED  BY <1>15, <2>1, <3>1, <3>3, <4>1, <4>3
    <3> QED  BY <3>2, <3>3
  <2>4. ASSUME pos' \in DOMAIN steps, pos' > 1
        PROVE  current' = cases'[NameAt(pos' - 1)].post.state
    <3>1. made.kind # "error" /\ pos' = pos + 1 /\ pos' - 1 = pos /\ Len(steps) # 1
      BY <1>1, <1>2, <1>7, <2>4
    <3>2. made.kind = "post" /\ ~Single
      BY <1>5, <3>1 DEF Single
    <3>3. current' = made.state
      BY <1>1, <3>2 DEF NextPre
    <3> QED  BY <1>4, <1>9, <3>1, <3>3
  <2> QED  BY <2>2, <2>3, <2>4
<1>17. MadeSoFar'
  <2> SUFFICES ASSUME ~errors, NEW i \in DOMAIN steps, i < pos'
               PROVE  \/ cases'[NameAt(i)].pre # Absent /\ cases'[NameAt(i)].post # Absent
                      \/ \E j \in 1..i - 1 : cases'[NameAt(j)].post.kind = "error"
    BY <1>1, <1>10 DEF MadeSoFar, Exists
  <2>1. i \in Nat /\ \A j \in 1..i - 1 : j \in DOMAIN steps
    BY <1>7
  <2>2. CASE i < pos
    <3>1. \/ cases[NameAt(i)].pre # Absent /\ cases[NameAt(i)].post # Absent
          \/ \E j \in 1..i - 1 : cases[NameAt(j)].post.kind = "error"
      BY <1>1, <2>2, InvParts DEF MadeSoFar, Exists
    <3>2. i # pos /\ \A j \in 1..i - 1 : j # pos
      BY <1>7, <2>1, <2>2
    <3> QED  BY <1>15, <2>1, <3>1, <3>2
  <2>3. CASE i = pos
    BY <1>1, <1>4, <1>6, <1>9, <2>3
  <2>4. CASE i > pos
    <3>1. made.kind = "error"
      BY <1>1, <1>7, <2>1, <2>4
    <3>2. pos \in 1..i - 1
      BY <1>2, <1>7, <2>1, <2>4
    <3>3. cases'[NameAt(pos)].post.kind = "error"
      BY <1>4, <1>9, <3>1
    <3> QED  BY <3>2, <3>3
  <2> QED  BY <1>7, <2>1, <2>2, <2>3, <2>4
<1> QED
  BY <1>9, <1>11, <1>12, <1>13, <1>14, <1>16, <1>17 DEF CaseInv

LEMMA EndKeeps ==
    ASSUME CaseInv, End \/ UNCHANGED caseVars
    PROVE  CaseInv'
<1>1. /\ \/ stage = "step" /\ stage' = "ended" /\ run' = run + 1 /\ pos \notin DOMAIN steps
         \/ stage' = stage /\ run' = run
      /\ UNCHANGED <<kind, hasPost, steps, pos, current, made, cases, errors, fresh>>
  BY DEF End, caseVars
<1>2. \A i : NameAt(i)' = NameAt(i)
  BY <1>1 DEF NameAt, Single
<1>3. CaseTypeOK'
  <2>1. stage = "step" => run + 1 \in 1..MaxRuns + 1
    BY InvParts, GenerationAssumption DEF CaseTypeOK
  <2> QED  BY <1>1, <2>1, InvParts DEF CaseTypeOK
<1>4. ListHolds' /\ FilesSound'
  BY <1>1, InvParts DEF ListHolds, Chainable, FilesSound
<1>5. CaseAtHand' /\ MadeFollows'
  BY <1>1, <1>2, InvParts DEF CaseAtHand, MadeFollows, Working, Follows, Single, Chainable, Input
<1>6. PairConsistent'
  BY <1>1, SameCases
<1>7. FreshChain' /\ MadeSoFar'
  BY <1>1, <1>2, InvParts DEF FreshChain, MadeSoFar, Exists
<1> QED
  BY <1>3, <1>4, <1>5, <1>6, <1>7 DEF CaseInv

LEMMA CaseInitInv == CaseInit => CaseInv
<1> SUFFICES ASSUME CaseInit PROVE CaseInv
  OBVIOUS
<1>1. /\ stage = "idle" /\ run = 1 /\ steps = <<>> /\ pos = 1 /\ current = <<>> /\ made = Absent
      /\ cases = [n \in Names |-> Empty] /\ errors = FALSE /\ fresh = TRUE
      /\ kind \in Kinds /\ hasPost \in BOOLEAN
  BY DEF CaseInit, Initial
<1>2. <<>> \in Seq(1..Steps) /\ Len(<<>>) = 0
  OBVIOUS
<1>3. /\ cases \in [Names -> Files]
      /\ \A n \in Names : cases[n].post = Absent /\ cases[n].pre = Absent
  BY <1>1, EmptyType
<1>4. CaseTypeOK
  <2>1. kind \in {"block", "operation", "epoch", "slots"} /\ run \in 1..MaxRuns + 1
    BY <1>1, GenerationAssumption
  <2>2. made \in [kind : {"absent", "post", "error"}, state : States]
    BY <1>1, <1>2, EmptyType DEF States
  <2>3. pos \in 1..Len(steps) + 1
    BY <1>1, <1>2
  <2> QED  BY <1>1, <1>2, <1>3, <2>1, <2>2, <2>3 DEF CaseTypeOK, Files, States
<1>5. ListHolds /\ FilesSound /\ CaseAtHand /\ MadeFollows
  BY <1>1, <1>3, EmptyType
  DEF ListHolds, FilesSound, Sound, CaseAtHand, MadeFollows, Working, Initial
<1>6. PairConsistent /\ FreshChain /\ MadeSoFar
  BY <1>1, <1>3 DEF PairConsistent, FreshChain, MadeSoFar
<1> QED
  BY <1>4, <1>5, <1>6 DEF CaseInv

LEMMA CaseNextInv ==
    ASSUME CaseInv, [CaseNext]_caseVars
    PROVE  CaseInv'
<1>1. CASE \/ \E listing \in Listings : StartBlocks(listing) \/ StartOperations(listing)
           \/ StartEpoch \/ StartSlots
  BY <1>1, StartKeeps
<1>2. CASE StartFails \/ SlotsUnsupported \/ CopyNothing
  BY <1>2, StoppedKeeps
<1>3. CASE Skip \/ ConvertFails
  BY <1>3, PassKeeps
<1>4. CASE PostFails
  BY <1>4, PassKeeps, ComputeKeeps
<1>5. CASE Compute
  BY <1>5, ComputeKeeps
<1>6. CASE CopyPre \/ CopyInput
  BY <1>6, CopyKeeps
<1>7. CASE CopyPost
  BY <1>7, CopyPostKeeps
<1>8. CASE End \/ UNCHANGED caseVars
  BY <1>8, EndKeeps
<1>9. CASE GenerationKilled
  BY <1>9, GenerationKilledKeeps
<1> QED
  BY <1>1, <1>2, <1>3, <1>4, <1>5, <1>6, <1>7, <1>8, <1>9 DEF CaseNext

\* For a case of any length and any lists of it, the invariant of the generation holds.
THEOREM CaseInvariance == CaseSpec => []CaseInv
  BY CaseInitInv, CaseNextInv, PTL DEF CaseSpec

\* For a case of any length, the state and the files of the generation keep their types.
THEOREM CaseTypeCorrect == CaseSpec => []CaseTypeOK
<1>1. CaseInv => CaseTypeOK
  BY DEF CaseInv
<1> QED
  BY <1>1, CaseInvariance, PTL

\* For a case of any length and however often the program is killed, what a later run
\* skips (_should_skip_test) is a pair of states around the case's own input.
THEOREM PairsAlwaysConsistent == CaseSpec => []PairConsistent
<1>1. CaseInv => PairConsistent
  BY DEF CaseInv
<1> QED
  BY <1>1, CaseInvariance, PTL

\* For a case of any length, a run that met no error leaves nothing out before the first
\* step that is rejected; and it leaves a chain, if it found no case.
THEOREM CaseAlwaysReproduced == CaseSpec => []CaseReproduced
<1>1. CaseInv => CaseReproduced
  <2> SUFFICES ASSUME CaseInv PROVE CaseReproduced
    OBVIOUS
  <2>1. ChainedWhenFresh
    BY InvParts DEF ChainedWhenFresh, FreshChain
  <2>2. NoneMissed
    <3> SUFFICES ASSUME stage = "ended" PROVE \A i \in DOMAIN steps : i < pos
      BY InvParts DEF NoneMissed, MadeSoFar
    <3>1. DOMAIN steps = 1..Len(steps) /\ Len(steps) \in Nat
      BY InvParts, ListType
    <3>2. pos \in 1..Len(steps) + 1 /\ pos \notin DOMAIN steps
      BY InvParts DEF CaseTypeOK, CaseAtHand
    <3> QED  BY <3>1, <3>2
  <2> QED  BY <2>1, <2>2 DEF CaseReproduced
<1> QED
  BY <1>1, CaseInvariance, PTL
=============================================================================
