-------------------------- MODULE WithdrawalsProofs --------------------------
(***************************************************************************)
(* Proofs about Withdrawals, for a registry of any size, payloads and      *)
(* sweeps of any length and any balances.                                  *)
(*                                                                         *)
(* The registry is a ring, of which a sweep looks at no index twice.  What *)
(* the loop has paid after i turns are the first of those that are due     *)
(* among the first i, at most as many as a payload holds (TurnHolds): the  *)
(* one at turn k is among them when fewer were due before it.  That is     *)
(* FirstDue, and it makes the payments of a block be of different          *)
(* validators and each no more than its balance, whence their sum leaves   *)
(* the sum of the balances.  With contiguous indices, at which no earlier  *)
(* payment is found, the books add up in every state (IInv).               *)
(***************************************************************************)
EXTENDS Withdrawals, WellFoundedInduction, FiniteSetTheorems, TLAPS

-----------------------------------------------------------------------------
(* The registry as a ring *)

\* An index of the ring is in its range.
LEMMA RingIndex ==
    ASSUME NEW n \in Nat \ {0}, NEW a \in Nat
    PROVE  a % n \in 0..n - 1
  OBVIOUS

LEMMA DivMod ==
    ASSUME NEW n \in Nat \ {0}, NEW a \in Nat
    PROVE  /\ a = n * (a \div n) + (a % n)
           /\ a \div n \in Int
  OBVIOUS

LEMMA NoSmallMultiple ==
    ASSUME NEW n \in Nat \ {0}, NEW q \in Int, NEW d \in 1..n - 1
    PROVE  n * q # d
  OBVIOUS

\* Two numbers less than n apart do not share a slot of the ring.
LEMMA RingInjective ==
    ASSUME NEW n \in Nat \ {0}, NEW a \in Nat, NEW b \in Nat,
           a < b, b < a + n
    PROVE  a % n # b % n
  <1>1. ASSUME a % n = b % n PROVE FALSE
    <2> DEFINE p == a \div n
               q == b \div n
    <2>1. /\ a = n * p + (a % n)
          /\ b = n * q + (b % n)
          /\ p \in Int
          /\ q \in Int
      BY DivMod
    <2>2. a % n \in Int /\ b % n \in Int
      BY RingIndex
    <2> HIDE DEF p, q
    <2>3. b - a = n * q - n * p
      BY <1>1, <2>1, <2>2
    <2>4. n * q - n * p = n * (q - p)
      BY <2>1
    <2>5. b - a \in 1..n - 1
      OBVIOUS
    <2>6. q - p \in Int
      BY <2>1
    <2>7. n * (q - p) # b - a
      BY <2>5, <2>6, NoSmallMultiple
    <2> QED
      BY <2>3, <2>4, <2>7
  <1> QED
    BY <1>1

\* Quotient and remainder are the only ones that make up the number.
LEMMA DivUnique ==
    ASSUME NEW n \in Nat \ {0}, NEW a \in Nat, NEW q \in Int, NEW r \in 0..n - 1,
           a = n * q + r
    PROVE  a \div n = q /\ a % n = r
  <1> DEFINE p == a \div n
             t == a % n
  <1>1. /\ a = n * p + t
        /\ p \in Int
        /\ t \in 0..n - 1
    BY DivMod, RingIndex
  <1> HIDE DEF p, t
  <1>2. n * (p - q) = r - t /\ n * (q - p) = t - r
    BY <1>1
  <1>3. p - q \in Int /\ q - p \in Int
    BY <1>1
  <1>4. r = t
    <2>1. CASE t < r
      <3>1. r - t \in 1..n - 1
        BY <1>1, <2>1
      <3> QED
        BY <1>2, <1>3, <3>1, NoSmallMultiple
    <2>2. CASE r < t
      <3>1. t - r \in 1..n - 1
        BY <1>1, <2>2
      <3> QED
        BY <1>2, <1>3, <3>1, NoSmallMultiple
    <2> QED
      BY <1>1, <2>1, <2>2
  <1>5. p = q
    <2>1. n * (p - q) = 0
      BY <1>1, <1>2, <1>4
    <2> QED
      BY <1>1, <2>1
  <1> QED
    BY <1>4, <1>5 DEF p, t

\* One further on in the ring is one further on.
LEMMA RingStep ==
    ASSUME NEW n \in Nat \ {0}, NEW a \in Nat
    PROVE  ((a % n) + 1) % n = (a + 1) % n
  <1> DEFINE p == a \div n
             r == a % n
  <1>1. a = n * p + r /\ p \in Int /\ r \in 0..n - 1
    BY DivMod, RingIndex
  <1> SUFFICES (r + 1) % n = (a + 1) % n
    OBVIOUS
  <1> HIDE DEF p, r
  <1>2. CASE r = n - 1
    <2>1. a + 1 = n * (p + 1) + 0 /\ p + 1 \in Int /\ 0 \in 0..n - 1
      BY <1>1, <1>2
    <2>2. (a + 1) % n = 0
      BY <2>1, DivUnique
    <2>3. (r + 1) % n = 0
      BY <1>1, <1>2
    <2> QED  BY <2>2, <2>3
  <1>3. CASE r # n - 1
    <2> DEFINE s == r + 1
    <2>1. a + 1 = n * p + s /\ s \in 0..n - 1 /\ a + 1 \in Nat /\ p \in Int
      BY <1>1, <1>3
    <2> HIDE DEF s
    <2>2. (a + 1) % n = s
      BY <2>1, DivUnique
    <2>3. s % n = s
      BY <2>1
    <2> QED  BY <2>2, <2>3 DEF s
  <1> QED  BY <1>1, <1>2, <1>3

-----------------------------------------------------------------------------
(* Induction *)

\* Induction over the natural numbers, for a set.
LEMMA SetInduction ==
    ASSUME NEW S, 0 \in S, \A n \in Nat : n \in S => n + 1 \in S
    PROVE  Nat \subseteq S
<1> DEFINE T == Nat \ S
<1> SUFFICES ASSUME T # {} PROVE FALSE
  OBVIOUS
<1>1. PICK n \in T : \A m \in T : ~(<<m, n>> \in OpToRel(<, Nat))
  <2>1. T \subseteq Nat
    OBVIOUS
  <2> HIDE DEF T
  <2>2. IsWellFoundedOn(OpToRel(<, Nat), Nat)
    BY NatLessThanWellFounded
  <2> QED  BY <2>1, <2>2, WFMin
<1>2. n \in Nat /\ n # 0
  OBVIOUS
<1>3. n - 1 \in Nat /\ n - 1 + 1 = n /\ <<n - 1, n>> \in OpToRel(<, Nat)
  BY <1>2 DEF OpToRel
<1> QED
  BY <1>1, <1>2, <1>3

LEMMA MinOfTwo ==
    ASSUME NEW a \in Int, NEW b \in Int
    PROVE  /\ Min({a, b}) \in {a, b}
           /\ Min({a, b}) <= a /\ Min({a, b}) <= b
<1>1. \E x \in {a, b} : \A y \in {a, b} : x <= y
  <2>1. CASE a <= b
    BY <2>1
  <2>2. CASE ~(a <= b)
    BY <2>2
  <2> QED  BY <2>1, <2>2
<1>2. Min({a, b}) \in {a, b} /\ \A y \in {a, b} : Min({a, b}) <= y
  BY <1>1 DEF Min
<1> QED
  BY <1>2

-----------------------------------------------------------------------------
(* Sums *)

\* The sum of what a gives for the elements of S.
Sum(a, S) == MapThenSumSet(LAMBDA x : a[x], S)

Pick(S) == CHOOSE x \in S : TRUE

\* f gives the sum over each subset of S, element by element.
Sums(f, a, S) ==
    f = [s \in SUBSET S |->
           IF s = {} THEN 0 ELSE a[Pick(s)] + f[s \ {Pick(s)}]]

LEMMA PickIn == ASSUME NEW S, S # {} PROVE Pick(S) \in S
  BY DEF Pick

\* Such a function exists for each finite set.
LEMMA SumsExist ==
    ASSUME NEW a, NEW S, IsFiniteSet(S)
    PROVE  \E f : Sums(f, a, S)
<1> DEFINE Small(n) == {s \in SUBSET S : Cardinality(s) <= n}
           Part(f, n) ==
             f = [s \in Small(n) |->
                    IF s = {} THEN 0 ELSE a[Pick(s)] + f[s \ {Pick(s)}]]
           T == {n \in Nat : \E f : Part(f, n)}
<1>1. ASSUME NEW s \in SUBSET S PROVE IsFiniteSet(s) /\ Cardinality(s) \in Nat
  BY FS_Subset, FS_CardinalityType
<1>2. 0 \in T
  <2> DEFINE f == [s \in Small(0) |-> 0]
  <2>1. \A s \in Small(0) : s = {}
    BY <1>1, FS_EmptySet
  <2>2. Part(f, 0)
    <3>1. f = [s \in Small(0) |->
                 IF s = {} THEN 0 ELSE a[Pick(s)] + f[s \ {Pick(s)}]]
      <4> HIDE DEF Small
      <4> QED  BY <2>1
    <3> QED  BY <3>1
  <2> HIDE DEF f, Part
  <2> QED  BY <2>2
<1>3. ASSUME NEW n \in Nat, n \in T PROVE n + 1 \in T
  <2>1. PICK f : Part(f, n)
    BY <1>3
  <2> DEFINE g == [s \in Small(n + 1) |->
                     IF s = {} THEN 0 ELSE a[Pick(s)] + f[s \ {Pick(s)}]]
  <2>2. ASSUME NEW s \in Small(n + 1), s # {}
        PROVE  s \ {Pick(s)} \in Small(n) /\ s \ {Pick(s)} \in Small(n + 1)
    <3>1. Pick(s) \in s
      BY <2>2, PickIn
    <3>2. /\ Cardinality(s \ {Pick(s)}) = Cardinality(s) - 1
          /\ Cardinality(s) \in Nat /\ Cardinality(s) <= n + 1
      BY <1>1, <3>1, FS_RemoveElement
    <3>3. Cardinality(s \ {Pick(s)}) <= n /\ Cardinality(s \ {Pick(s)}) <= n + 1
      BY <3>2
    <3> QED  BY <3>3
  <2>3. ASSUME NEW s \in Small(n) PROVE s \in Small(n + 1) /\ g[s] = f[s]
    <3>1. s \in Small(n + 1)
      <4>1. Cardinality(s) \in Nat /\ Cardinality(s) <= n
        BY <1>1
      <4>2. Cardinality(s) <= n + 1
        BY <4>1
      <4> QED  BY <4>2
    <3> HIDE DEF Small
    <3>2. f[s] = IF s = {} THEN 0 ELSE a[Pick(s)] + f[s \ {Pick(s)}]
      BY <2>1
    <3> QED  BY <3>1, <3>2
  <2> HIDE DEF Small
  <2>4. g = [s \in Small(n + 1) |->
               IF s = {} THEN 0 ELSE a[Pick(s)] + g[s \ {Pick(s)}]]
    <3>1. ASSUME NEW s \in Small(n + 1), s # {}
          PROVE  g[s \ {Pick(s)}] = f[s \ {Pick(s)}]
      BY <2>2, <2>3, <3>1
    <3> QED  BY <3>1
  <2>5. Part(g, n + 1)
    BY <2>4
  <2> HIDE DEF g, Part
  <2> QED  BY <2>5
<1>4. Nat \subseteq T
  <2> HIDE DEF T
  <2> QED  BY <1>2, <1>3, SetInduction
<1>5. Cardinality(S) \in Nat
  BY FS_CardinalityType
<1>6. PICK f : Part(f, Cardinality(S))
  BY <1>4, <1>5
<1>7. Small(Cardinality(S)) = SUBSET S
  BY FS_Subset
<1>8. Sums(f, a, S)
  <2> HIDE DEF Small
  <2> QED  BY <1>6, <1>7 DEF Sums
<1> QED
  BY <1>8

LEMMA SumIs ==
    ASSUME NEW a, NEW S, IsFiniteSet(S)
    PROVE  \E f : Sums(f, a, S) /\ Sum(a, S) = f[S]
<1> DEFINE sums == CHOOSE f : Sums(f, a, S)
<1>1. Sums(sums, a, S)
  BY SumsExist
<1>2. Sum(a, S) = sums[S]
  BY DEF Sum, MapThenSumSet, MapThenFoldSet, Sums, Pick
<1> QED
  BY <1>1, <1>2

\* What such a function gives for a subset does not depend on the whole.
LEMMA SumsAgree ==
    ASSUME NEW a, NEW S, IsFiniteSet(S), NEW T \in SUBSET S,
           NEW f, Sums(f, a, S), NEW g, Sums(g, a, T)
    PROVE  f[T] = g[T]
<1> DEFINE Sizes == {n \in Nat : \A s \in SUBSET T : Cardinality(s) = n => f[s] = g[s]}
<1>1. ASSUME NEW s \in SUBSET T
      PROVE  /\ f[s] = IF s = {} THEN 0 ELSE a[Pick(s)] + f[s \ {Pick(s)}]
             /\ g[s] = IF s = {} THEN 0 ELSE a[Pick(s)] + g[s \ {Pick(s)}]
             /\ IsFiniteSet(s) /\ Cardinality(s) \in Nat
  <2>1. s \in SUBSET S
    OBVIOUS
  <2>2. IsFiniteSet(s) /\ Cardinality(s) \in Nat
    BY <2>1, FS_Subset, FS_CardinalityType
  <2> QED  BY <2>1, <2>2 DEF Sums
<1>2. 0 \in Sizes
  <2> SUFFICES ASSUME NEW s \in SUBSET T, Cardinality(s) = 0 PROVE f[s] = g[s]
    OBVIOUS
  <2>1. s = {}
    BY <1>1, FS_EmptySet
  <2> QED  BY <1>1, <2>1
<1>3. ASSUME NEW n \in Nat, n \in Sizes PROVE n + 1 \in Sizes
  <2> SUFFICES ASSUME NEW s \in SUBSET T, Cardinality(s) = n + 1 PROVE f[s] = g[s]
    OBVIOUS
  <2>1. s # {}
    BY FS_EmptySet
  <2>2. Pick(s) \in s
    BY <2>1, PickIn
  <2>3. Cardinality(s \ {Pick(s)}) = n
    <3>1. Cardinality(s \ {Pick(s)}) = Cardinality(s) - 1
      BY <1>1, <2>2, FS_RemoveElement
    <3> QED  BY <3>1
  <2>4. f[s \ {Pick(s)}] = g[s \ {Pick(s)}]
    BY <1>3, <2>3
  <2> QED  BY <1>1, <2>1, <2>4
<1>4. Nat \subseteq Sizes
  <2> HIDE DEF Sizes
  <2> QED  BY <1>2, <1>3, SetInduction
<1>5. Cardinality(T) \in Nat
  BY <1>1
<1> QED
  BY <1>4, <1>5

LEMMA SumOfNone ==
    ASSUME NEW a
    PROVE  Sum(a, {}) = 0
<1>1. PICK f : Sums(f, a, {}) /\ Sum(a, {}) = f[{}]
  BY SumIs, FS_EmptySet
<1> QED
  BY <1>1 DEF Sums

\* The sum is that of the element picked and of the others.
LEMMA SumUnfolds ==
    ASSUME NEW a, NEW S, IsFiniteSet(S), S # {}
    PROVE  Sum(a, S) = a[Pick(S)] + Sum(a, S \ {Pick(S)})
<1> DEFINE rest == S \ {Pick(S)}
<1>1. rest \in SUBSET S /\ IsFiniteSet(rest)
  BY FS_Subset
<1>2. PICK f : Sums(f, a, S) /\ Sum(a, S) = f[S]
  BY SumIs
<1>3. PICK g : Sums(g, a, rest) /\ Sum(a, rest) = g[rest]
  BY <1>1, SumIs
<1>4. f[rest] = g[rest]
  BY <1>1, <1>2, <1>3, SumsAgree
<1>5. f[S] = a[Pick(S)] + f[rest]
  BY <1>2 DEF Sums
<1> QED
  BY <1>2, <1>3, <1>4, <1>5

\* A further element adds its amount, whichever is picked first.
LEMMA SumAdds ==
    ASSUME NEW a, NEW S, IsFiniteSet(S), \A i \in S : a[i] \in Nat,
           NEW x \in S
    PROVE  /\ Sum(a, S) = Sum(a, S \ {x}) + a[x]
           /\ Sum(a, S) \in Nat /\ Sum(a, S \ {x}) \in Nat
<1> DEFINE Adds(s) == /\ Sum(a, s) \in Nat
                      /\ \A y \in s : /\ Sum(a, s \ {y}) \in Nat
                                      /\ Sum(a, s) = Sum(a, s \ {y}) + a[y]
           Sizes == {n \in Nat : \A s \in SUBSET S : Cardinality(s) = n => Adds(s)}
<1>1. ASSUME NEW s \in SUBSET S PROVE IsFiniteSet(s) /\ Cardinality(s) \in Nat
  BY FS_Subset, FS_CardinalityType
<1> HIDE DEF Adds
<1>2. 0 \in Sizes
  <2> SUFFICES ASSUME NEW s \in SUBSET S, Cardinality(s) = 0 PROVE Adds(s)
    OBVIOUS
  <2>1. s = {}
    BY <1>1, FS_EmptySet
  <2> QED  BY <2>1, SumOfNone DEF Adds
<1>3. ASSUME NEW n \in Nat, n \in Sizes PROVE n + 1 \in Sizes
  <2> SUFFICES ASSUME NEW s \in SUBSET S, Cardinality(s) = n + 1 PROVE Adds(s)
    OBVIOUS
  <2>1. \A t \in SUBSET S : Cardinality(t) = n => Adds(t)
    BY <1>3
  <2> DEFINE p == Pick(s)
  <2>2. s # {}
    BY FS_EmptySet
  <2>3. p \in s
    BY <2>2, PickIn
  <2>4. ASSUME NEW y \in s PROVE Adds(s \ {y}) /\ a[y] \in Nat
    <3>1. Cardinality(s \ {y}) = Cardinality(s) - 1
      BY <1>1, FS_RemoveElement
    <3> QED  BY <2>1, <3>1
  <2>5. Sum(a, s) = a[p] + Sum(a, s \ {p})
    BY <1>1, <2>2, SumUnfolds
  <2> HIDE DEF p
  <2>6. Sum(a, s) \in Nat
    <3>1. Sum(a, s \ {p}) \in Nat /\ a[p] \in Nat
      BY <2>3, <2>4 DEF Adds
    <3> QED  BY <2>5, <3>1
  <2>7. ASSUME NEW y \in s
        PROVE  Sum(a, s \ {y}) \in Nat /\ Sum(a, s) = Sum(a, s \ {y}) + a[y]
    <3>1. /\ Sum(a, s \ {p}) \in Nat /\ a[p] \in Nat
          /\ Sum(a, s \ {y}) \in Nat /\ a[y] \in Nat
      BY <2>3, <2>4 DEF Adds
    <3>2. CASE y = p
      BY <2>5, <3>1, <3>2
    <3>3. CASE y # p
      <4> DEFINE both == (s \ {p}) \ {y}
      <4>1. /\ y \in s \ {p} /\ p \in s \ {y}
            /\ both = (s \ {y}) \ {p}
        BY <2>3, <3>3
      <4>2. Sum(a, s \ {p}) = Sum(a, both) + a[y]
        BY <2>3, <2>4, <4>1 DEF Adds
      <4>3. Sum(a, s \ {y}) = Sum(a, both) + a[p]
        BY <2>4, <4>1 DEF Adds
      <4>4. Sum(a, both) \in Nat
        BY <2>3, <2>4, <4>1 DEF Adds
      <4> HIDE DEF both
      <4> QED  BY <2>5, <3>1, <4>2, <4>3, <4>4
    <3> QED  BY <3>2, <3>3
  <2> QED  BY <2>6, <2>7 DEF Adds
<1>4. Nat \subseteq Sizes
  <2> HIDE DEF Sizes
  <2> QED  BY <1>2, <1>3, SetInduction
<1>5. ASSUME NEW s \in SUBSET S PROVE Adds(s)
  BY <1>1, <1>4
<1>6. Adds(S) /\ Adds(S \ {x})
  BY <1>5
<1> QED
  BY <1>6 DEF Adds

\* A sum depends on the amounts alone.
LEMMA SumSame ==
    ASSUME NEW a, NEW b, NEW S, IsFiniteSet(S),
           \A i \in S : b[i] = a[i]
    PROVE  Sum(b, S) = Sum(a, S)
<1> DEFINE Sizes == {n \in Nat : \A s \in SUBSET S :
                    Cardinality(s) = n => Sum(b, s) = Sum(a, s)}
<1>1. ASSUME NEW s \in SUBSET S PROVE IsFiniteSet(s) /\ Cardinality(s) \in Nat
  BY FS_Subset, FS_CardinalityType
<1>2. 0 \in Sizes
  <2> SUFFICES ASSUME NEW s \in SUBSET S, Cardinality(s) = 0
               PROVE  Sum(b, s) = Sum(a, s)
    OBVIOUS
  <2>1. s = {}
    BY <1>1, FS_EmptySet
  <2> QED  BY <2>1, SumOfNone
<1>3. ASSUME NEW n \in Nat, n \in Sizes PROVE n + 1 \in Sizes
  <2> SUFFICES ASSUME NEW s \in SUBSET S, Cardinality(s) = n + 1
               PROVE  Sum(b, s) = Sum(a, s)
    OBVIOUS
  <2>1. s # {}
    BY FS_EmptySet
  <2>2. Pick(s) \in s
    BY <2>1, PickIn
  <2>3. Cardinality(s \ {Pick(s)}) = n
    <3>1. Cardinality(s \ {Pick(s)}) = Cardinality(s) - 1
      BY <1>1, <2>2, FS_RemoveElement
    <3> QED  BY <3>1
  <2>4. Sum(b, s \ {Pick(s)}) = Sum(a, s \ {Pick(s)})
    BY <1>3, <2>3
  <2>5. /\ Sum(b, s) = b[Pick(s)] + Sum(b, s \ {Pick(s)})
        /\ Sum(a, s) = a[Pick(s)] + Sum(a, s \ {Pick(s)})
    BY <1>1, <2>1, SumUnfolds
  <2>6. b[Pick(s)] = a[Pick(s)]
    BY <2>2
  <2> QED  BY <2>4, <2>5, <2>6
<1>4. Nat \subseteq Sizes
  <2> HIDE DEF Sizes
  <2> QED  BY <1>2, <1>3, SetInduction
<1>5. Cardinality(S) \in Nat
  BY <1>1
<1> QED
  BY <1>4, <1>5

\* Induction over the parts of a finite set.
LEMMA FiniteInduction ==
    ASSUME NEW S, IsFiniteSet(S), NEW T, {} \in T,
           \A s \in SUBSET S : \A x \in S \ s : s \in T => s \cup {x} \in T
    PROVE  S \in T
<1> DEFINE Sizes == {n \in Nat : \A s \in SUBSET S : Cardinality(s) = n => s \in T}
<1>1. ASSUME NEW s \in SUBSET S PROVE IsFiniteSet(s) /\ Cardinality(s) \in Nat
  BY FS_Subset, FS_CardinalityType
<1>2. 0 \in Sizes
  BY <1>1, FS_EmptySet
<1>3. ASSUME NEW n \in Nat, n \in Sizes PROVE n + 1 \in Sizes
  <2> SUFFICES ASSUME NEW s \in SUBSET S, Cardinality(s) = n + 1 PROVE s \in T
    OBVIOUS
  <2>0. s # {}
    <3>1. Cardinality({}) = 0 /\ n + 1 # 0
      BY FS_EmptySet
    <3> QED  BY <3>1
  <2>1. PICK x \in s : TRUE
    BY <2>0
  <2>2. Cardinality(s \ {x}) = Cardinality(s) - 1
    BY <1>1, FS_RemoveElement
  <2>3. s \ {x} \in SUBSET S /\ Cardinality(s \ {x}) = n
    BY <2>2
  <2>4. s \ {x} \in T
    BY <1>3, <2>3
  <2>5. (s \ {x}) \cup {x} = s /\ x \in S \ (s \ {x})
    BY <2>1
  <2> QED  BY <2>3, <2>4, <2>5
<1>4. Nat \subseteq Sizes
  <2> HIDE DEF Sizes
  <2> QED  BY <1>2, <1>3, SetInduction
<1> QED
  BY <1>1, <1>4

LEMMA SumType ==
    ASSUME NEW a, NEW S, IsFiniteSet(S), \A i \in S : a[i] \in Nat
    PROVE  Sum(a, S) \in Nat
<1>1. CASE S = {}
  BY <1>1, SumOfNone
<1>2. CASE S # {}
  BY <1>2, SumAdds
<1> QED
  BY <1>1, <1>2

\* A sum with one more element.
LEMMA SumExtends ==
    ASSUME NEW a, NEW b, NEW S, IsFiniteSet(S), NEW x, x \notin S,
           \A i \in S : a[i] \in Nat /\ b[i] = a[i], b[x] \in Nat
    PROVE  Sum(b, S \cup {x}) = Sum(a, S) + b[x]
<1>1. IsFiniteSet(S \cup {x}) /\ (S \cup {x}) \ {x} = S /\ x \in S \cup {x}
  BY FS_AddElement
<1>2. \A i \in S \cup {x} : b[i] \in Nat
  OBVIOUS
<1>3. Sum(b, S \cup {x}) = Sum(b, (S \cup {x}) \ {x}) + b[x]
  BY <1>1, <1>2, SumAdds
<1>4. Sum(b, S) = Sum(a, S)
  BY SumSame
<1> QED
  BY <1>1, <1>3, <1>4

\* A sum changes as much as the one element that does.
LEMMA SumChanges ==
    ASSUME NEW a, NEW b, NEW S, IsFiniteSet(S), NEW x \in S,
           \A i \in S : a[i] \in Nat /\ b[i] \in Nat,
           \A i \in S \ {x} : b[i] = a[i]
    PROVE  Sum(b, S) + a[x] = Sum(a, S) + b[x]
<1>1. IsFiniteSet(S \ {x})
  BY FS_RemoveElement
<1>2. Sum(b, S \ {x}) = Sum(a, S \ {x})
  BY <1>1, SumSame
<1>3. /\ Sum(a, S) = Sum(a, S \ {x}) + a[x]
      /\ Sum(a, S \ {x}) \in Nat
  BY SumAdds
<1>4. Sum(b, S) = Sum(b, S \ {x}) + b[x]
  BY SumAdds
<1> QED
  BY <1>2, <1>3, <1>4

LEMMA SumOfPart ==
    ASSUME NEW a, NEW S, IsFiniteSet(S), \A i \in S : a[i] \in Nat, NEW x \in S
    PROVE  a[x] <= Sum(a, S)
<1>1. Sum(a, S) = Sum(a, S \ {x}) + a[x] /\ Sum(a, S \ {x}) \in Nat
  BY SumAdds
<1> QED
  BY <1>1

\* A further element in both of two sums.
LEMMA SumAddsPart ==
    ASSUME NEW a, NEW s, IsFiniteSet(s), NEW x, x \notin s,
           \A i \in s \cup {x} : a[i] \in Nat
    PROVE  Sum(a, s \cup {x}) = Sum(a, s) + a[x] /\ Sum(a, s) \in Nat
  BY SumExtends, SumType

LEMMA SumGrows ==
    ASSUME NEW a, NEW b, NEW S, IsFiniteSet(S),
           \A i \in S : a[i] \in Nat /\ b[i] \in Nat /\ a[i] <= b[i]
    PROVE  Sum(a, S) <= Sum(b, S)
<1> DEFINE T == {s \in SUBSET S : Sum(a, s) <= Sum(b, s)}
<1>1. {} \in T
  BY SumOfNone
<1>2. ASSUME NEW s \in SUBSET S, NEW x \in S \ s, s \in T PROVE s \cup {x} \in T
  <2>1. IsFiniteSet(s)
    BY FS_Subset
  <2>2. /\ Sum(a, s \cup {x}) = Sum(a, s) + a[x] /\ Sum(a, s) \in Nat
        /\ Sum(b, s \cup {x}) = Sum(b, s) + b[x] /\ Sum(b, s) \in Nat
    BY <2>1, SumAddsPart
  <2> QED  BY <1>2, <2>2
<1>3. S \in T
  <2> HIDE DEF T
  <2> QED  BY <1>1, <1>2, FiniteInduction
<1> QED
  BY <1>3

\* A sum grows by the number of those that grow by one.
LEMMA SumCounts ==
    ASSUME NEW a, NEW b, NEW S, IsFiniteSet(S), NEW P \in SUBSET S,
           \A i \in S : a[i] \in Nat /\ b[i] = IF i \in P THEN a[i] + 1 ELSE a[i]
    PROVE  Sum(b, S) = Sum(a, S) + Cardinality(P)
<1> DEFINE T == {s \in SUBSET S : Sum(b, s) = Sum(a, s) + Cardinality(P \cap s)}
<1>1. {} \in T
  <2>1. P \cap {} = {}
    OBVIOUS
  <2> QED  BY <2>1, SumOfNone, FS_EmptySet
<1>2. ASSUME NEW s \in SUBSET S, NEW x \in S \ s, s \in T PROVE s \cup {x} \in T
  <2>1. IsFiniteSet(s) /\ IsFiniteSet(P \cap s)
    BY FS_Subset
  <2>2. Cardinality(P \cap s) \in Nat
    BY <2>1, FS_CardinalityType
  <2>3. \A i \in s \cup {x} : a[i] \in Nat /\ b[i] \in Nat
    OBVIOUS
  <2>4. /\ Sum(a, s \cup {x}) = Sum(a, s) + a[x] /\ Sum(a, s) \in Nat
        /\ Sum(b, s \cup {x}) = Sum(b, s) + b[x]
    BY <2>1, <2>3, SumAddsPart
  <2>5. CASE x \in P
    <3>1. P \cap (s \cup {x}) = (P \cap s) \cup {x} /\ x \notin P \cap s
      BY <2>5
    <3>2. Cardinality(P \cap (s \cup {x})) = Cardinality(P \cap s) + 1
      BY <2>1, <3>1, FS_AddElement
    <3> QED  BY <1>2, <2>2, <2>4, <2>5, <3>2
  <2>6. CASE x \notin P
    <3>1. P \cap (s \cup {x}) = P \cap s
      BY <2>6
    <3>2. b[x] = a[x]
      BY <2>6
    <3>3. Sum(b, s \cup {x}) = Sum(a, s \cup {x}) + Cardinality(P \cap s)
      BY <1>2, <2>2, <2>3, <2>4, <3>2
    <3> QED  BY <3>1, <3>3
  <2> QED  BY <2>5, <2>6
<1>3. S \in T
  <2> HIDE DEF T
  <2> QED  BY <1>1, <1>2, FiniteInduction
<1>4. P \cap S = P
  OBVIOUS
<1> QED
  BY <1>3, <1>4

LEMMA SumOfEqual ==
    ASSUME NEW a, NEW c \in Nat, NEW S, IsFiniteSet(S), \A i \in S : a[i] = c
    PROVE  Sum(a, S) = Cardinality(S) * c
<1> DEFINE T == {s \in SUBSET S : Sum(a, s) = Cardinality(s) * c}
<1>1. {} \in T
  BY SumOfNone, FS_EmptySet
<1>2. ASSUME NEW s \in SUBSET S, NEW x \in S \ s, s \in T PROVE s \cup {x} \in T
  <2>1. IsFiniteSet(s)
    BY FS_Subset
  <2>2. Cardinality(s) \in Nat /\ Cardinality(s \cup {x}) = Cardinality(s) + 1
    BY <2>1, FS_CardinalityType, FS_AddElement
  <2>3. Sum(a, s \cup {x}) = Sum(a, s) + c
    BY <2>1, SumAddsPart
  <2>4. (Cardinality(s) + 1) * c = Cardinality(s) * c + c
    BY <2>2
  <2> QED  BY <1>2, <2>2, <2>3, <2>4
<1>3. S \in T
  <2> HIDE DEF T
  <2> QED  BY <1>1, <1>2, FiniteInduction
<1> QED
  BY <1>3

\* What is a sum of ones at least is as many.
LEMMA SumOfPositive ==
    ASSUME NEW a, NEW S, IsFiniteSet(S), \A i \in S : a[i] \in Nat \ {0}
    PROVE  Cardinality(S) <= Sum(a, S)
<1> DEFINE one == [i \in S |-> 1]
<1>1. \A i \in S : one[i] = 1
  OBVIOUS
<1> HIDE DEF one
<1>2. Sum(one, S) = Cardinality(S) * 1
  BY <1>1, SumOfEqual
<1>3. Sum(one, S) <= Sum(a, S)
  BY <1>1, SumGrows
<1> QED
  BY <1>2, <1>3, FS_CardinalityType

LEMMA TotalIsSum ==
    ASSUME NEW f
    PROVE  Total(f) = Sum(f, DOMAIN f)
  BY DEF Total, Sum

-----------------------------------------------------------------------------
(* The loop of the sweep *)

\* The registry that a sweep goes round, and where it starts.
Ring ==
    /\ N \in Nat \ {0}
    /\ Vids = 0..N - 1
    /\ balances \in [Vids -> Nat]
    /\ nextValidator \in Vids
    /\ nextIndex \in Nat

At(k) == (nextValidator + k) % N

\* The positions among the first i that are due, and those of them that are paid.
Seen(i) == {k \in 0..i - 1 : Due(At(k))}

First(i) == {k \in Seen(i) : Cardinality(Seen(k)) < MAX_WITHDRAWALS_PER_PAYLOAD}

\* What a validator that is due is paid.
Amount(v) ==
    IF is_fully_withdrawable_validator(validators[v], balances[v])
    THEN balances[v]
    ELSE balances[v] - MAX_EFFECTIVE_BALANCE

Payments == [index : Nat, validator_index : Vids, amount : Nat \ {0}]

\* What the loop has once i validators were looked at.
TurnHolds(turn, i) ==
    /\ turn.acc \in Seq(Payments)
    /\ turn.index = nextIndex + Len(turn.acc)
    /\ Len(turn.acc) = Cardinality(First(i))
    /\ Len(turn.acc) <= MAX_WITHDRAWALS_PER_PAYLOAD
    /\ Len(turn.acc) < MAX_WITHDRAWALS_PER_PAYLOAD => turn.vid = At(i) /\ First(i) = Seen(i)
    /\ Len(turn.acc) = MAX_WITHDRAWALS_PER_PAYLOAD =>
         Cardinality(Seen(i)) >= MAX_WITHDRAWALS_PER_PAYLOAD
    /\ \A n \in 1..Len(turn.acc) : \E k \in First(i) :
         /\ Cardinality(Seen(k)) = n - 1
         /\ turn.acc[n] = Withdrawal(nextIndex + n - 1, At(k), Amount(At(k)))

LEMMA SeenFinite ==
    ASSUME NEW i \in Nat
    PROVE  /\ IsFiniteSet(Seen(i)) /\ Cardinality(Seen(i)) \in Nat
           /\ IsFiniteSet(First(i)) /\ Cardinality(First(i)) \in Nat
<1>1. IsFiniteSet(0..i - 1)
  BY FS_Interval
<1>2. Seen(i) \in SUBSET (0..i - 1) /\ First(i) \in SUBSET Seen(i)
  BY DEF Seen, First
<1>3. IsFiniteSet(Seen(i))
  BY <1>1, <1>2, FS_Subset
<1>4. IsFiniteSet(First(i))
  BY <1>2, <1>3, FS_Subset
<1> QED
  BY <1>3, <1>4, FS_CardinalityType

LEMMA SeenNext ==
    ASSUME NEW i \in Nat
    PROVE  /\ Seen(i + 1) = IF Due(At(i)) THEN Seen(i) \cup {i} ELSE Seen(i)
           /\ First(i + 1) =
                IF Due(At(i)) /\ Cardinality(Seen(i)) < MAX_WITHDRAWALS_PER_PAYLOAD
                THEN First(i) \cup {i} ELSE First(i)
           /\ i \notin Seen(i) /\ i \notin First(i)
<1>1. 0..(i + 1) - 1 = (0..i - 1) \cup {i} /\ i \notin 0..i - 1
  OBVIOUS
<1>2. Seen(i + 1) = IF Due(At(i)) THEN Seen(i) \cup {i} ELSE Seen(i)
  BY <1>1 DEF Seen
<1>3. i \notin Seen(i) /\ i \notin First(i)
  BY <1>1 DEF Seen, First
<1> QED
  BY <1>2, <1>3 DEF First

LEMMA AtInRing ==
    ASSUME Ring, NEW k \in Nat
    PROVE  At(k) \in Vids
<1>1. nextValidator + k \in Nat /\ N \in Nat \ {0} /\ Vids = 0..N - 1
  BY DEF Ring
<1> QED
  BY <1>1, RingIndex DEF At

LEMMA AtNext ==
    ASSUME Ring, NEW k \in Nat
    PROVE  (At(k) + 1) % N = At(k + 1)
<1>1. /\ nextValidator + k \in Nat /\ N \in Nat \ {0}
      /\ nextValidator + (k + 1) = (nextValidator + k) + 1
  BY DEF Ring
<1> QED
  BY <1>1, RingStep DEF At

\* Positions less than a round apart are different validators.
LEMMA AtInjective ==
    ASSUME Ring, NEW j \in 0..N - 1, NEW k \in 0..N - 1, j # k
    PROVE  At(j) # At(k)
<1>1. /\ nextValidator + j \in Nat /\ nextValidator + k \in Nat
      /\ N \in Nat \ {0}
  BY DEF Ring
<1>2. CASE j < k
  <2>1. nextValidator + j < nextValidator + k /\ nextValidator + k < (nextValidator + j) + N
    BY <1>1, <1>2 DEF Ring
  <2> QED  BY <1>1, <2>1, RingInjective DEF At
<1>3. CASE k < j
  <2>1. nextValidator + k < nextValidator + j /\ nextValidator + j < (nextValidator + k) + N
    BY <1>1, <1>3 DEF Ring
  <2> QED  BY <1>1, <2>1, RingInjective DEF At
<1> QED
  BY <1>2, <1>3 DEF Ring

LEMMA AmountOfDue ==
    ASSUME Ring, NEW v \in Vids, Due(v)
    PROVE  Amount(v) \in Nat \ {0} /\ Amount(v) <= balances[v]
<1>1. balances[v] \in Nat /\ MAX_EFFECTIVE_BALANCE \in Nat \ {0}
  BY WithdrawalsAssumption DEF Ring
<1>2. CASE is_fully_withdrawable_validator(validators[v], balances[v])
  BY <1>1, <1>2 DEF Amount, is_fully_withdrawable_validator
<1>3. CASE ~is_fully_withdrawable_validator(validators[v], balances[v])
  <2>1. balances[v] > MAX_EFFECTIVE_BALANCE
    BY <1>3 DEF Due, is_partially_withdrawable_validator
  <2> QED  BY <1>1, <1>3, <2>1 DEF Amount
<1> QED
  BY <1>2, <1>3

\* What a turn does: nothing when the payload is full; otherwise it goes on, and
\* pays whom it finds due.
LEMMA NextTurnIs ==
    ASSUME NEW turn, NEW v, turn.vid = v
    PROVE  NextTurn(turn) =
             IF Len(turn.acc) = MAX_WITHDRAWALS_PER_PAYLOAD THEN turn
             ELSE IF Due(v)
             THEN [index |-> turn.index + 1, vid |-> (v + 1) % N,
                   acc   |-> Append(turn.acc, Withdrawal(turn.index, v, Amount(v)))]
             ELSE [turn EXCEPT !.vid = (v + 1) % N]
<1> DEFINE full == is_fully_withdrawable_validator(validators[v], balances[v])
           partial == is_partially_withdrawable_validator(validators[v], balances[v])
           after == (v + 1) % N
<1>1. Due(v) <=> full \/ partial
  BY DEF Due
<1>2. Amount(v) = IF full THEN balances[v] ELSE balances[v] - MAX_EFFECTIVE_BALANCE
  BY DEF Amount
<1>3. NextTurn(turn) =
        IF Len(turn.acc) = MAX_WITHDRAWALS_PER_PAYLOAD THEN turn
        ELSE IF full
        THEN [index |-> turn.index + 1, vid |-> after,
              acc   |-> Append(turn.acc, Withdrawal(turn.index, v, balances[v]))]
        ELSE IF partial
        THEN [index |-> turn.index + 1, vid |-> after,
              acc   |-> Append(turn.acc, Withdrawal(turn.index, v,
                                                   balances[v] - MAX_EFFECTIVE_BALANCE))]
        ELSE [turn EXCEPT !.vid = after]
  BY DEF NextTurn
<1> HIDE DEF full, partial, after
<1>4. CASE full
  BY <1>1, <1>2, <1>3, <1>4 DEF after
<1>5. CASE ~full
  BY <1>1, <1>2, <1>3, <1>5 DEF after
<1> QED
  BY <1>4, <1>5

LEMMA FullTurnHolds ==
    ASSUME Ring, NEW i \in Nat, NEW turn, TurnHolds(turn, i),
           Len(turn.acc) = MAX_WITHDRAWALS_PER_PAYLOAD
    PROVE  TurnHolds(turn, i + 1)
<1>1. /\ IsFiniteSet(Seen(i)) /\ Cardinality(Seen(i)) \in Nat
      /\ Cardinality(Seen(i)) >= MAX_WITHDRAWALS_PER_PAYLOAD
      /\ MAX_WITHDRAWALS_PER_PAYLOAD \in Nat
  BY SeenFinite, WithdrawalsAssumption DEF TurnHolds
<1>2. First(i + 1) = First(i)
  <2>1. ~(Cardinality(Seen(i)) < MAX_WITHDRAWALS_PER_PAYLOAD)
    BY <1>1
  <2> QED  BY <2>1, SeenNext
<1>3. Cardinality(Seen(i + 1)) >= MAX_WITHDRAWALS_PER_PAYLOAD
  <2>1. Seen(i + 1) = Seen(i) \/ Seen(i + 1) = Seen(i) \cup {i}
    BY SeenNext
  <2>2. i \notin Seen(i)
    BY SeenNext
  <2>3. Cardinality(Seen(i) \cup {i}) = Cardinality(Seen(i)) + 1
    BY <1>1, <2>2, FS_AddElement
  <2>4. \/ Cardinality(Seen(i + 1)) = Cardinality(Seen(i))
        \/ Cardinality(Seen(i + 1)) = Cardinality(Seen(i)) + 1
    BY <2>1, <2>3
  <2> QED  BY <1>1, <2>4
<1>4. ~(Len(turn.acc) < MAX_WITHDRAWALS_PER_PAYLOAD)
  BY <1>1
<1> QED
  BY <1>2, <1>3, <1>4 DEF TurnHolds

LEMMA PassingTurnHolds ==
    ASSUME Ring, NEW i \in Nat, NEW turn, TurnHolds(turn, i),
           Len(turn.acc) # MAX_WITHDRAWALS_PER_PAYLOAD, ~Due(At(i)),
           NEW next, next.acc = turn.acc, next.index = turn.index, next.vid = At(i + 1)
    PROVE  TurnHolds(next, i + 1)
<1>1. First(i + 1) = First(i) /\ Seen(i + 1) = Seen(i)
  BY SeenNext
<1>2. Len(turn.acc) < MAX_WITHDRAWALS_PER_PAYLOAD => First(i) = Seen(i)
  BY DEF TurnHolds
<1> QED
  BY <1>1, <1>2 DEF TurnHolds

LEMMA PayingTurnHolds ==
    ASSUME Ring, NEW i \in Nat, NEW turn, TurnHolds(turn, i),
           Len(turn.acc) < MAX_WITHDRAWALS_PER_PAYLOAD, Due(At(i)),
           NEW next, next.index = turn.index + 1, next.vid = At(i + 1),
           next.acc = Append(turn.acc, Withdrawal(turn.index, At(i), Amount(At(i))))
    PROVE  TurnHolds(next, i + 1)
<1> DEFINE MAXW == MAX_WITHDRAWALS_PER_PAYLOAD
           len == Len(turn.acc)
           w == Withdrawal(turn.index, At(i), Amount(At(i)))
<1>1. /\ turn.acc \in Seq(Payments) /\ len \in Nat
      /\ turn.index = nextIndex + len
      /\ len = Cardinality(First(i))
      /\ First(i) = Seen(i)
  BY DEF TurnHolds
<1>2. \A n \in 1..len : \E k \in First(i) :
           /\ Cardinality(Seen(k)) = n - 1
           /\ turn.acc[n] = Withdrawal(nextIndex + n - 1, At(k), Amount(At(k)))
  BY DEF TurnHolds
<1>3. MAXW \in Nat \ {0} /\ len + 1 <= MAXW /\ nextIndex \in Nat
  BY <1>1, WithdrawalsAssumption DEF Ring
<1>4. w \in Payments
  <2>1. turn.index \in Nat
    BY <1>1, <1>3
  <2>2. At(i) \in Vids /\ Amount(At(i)) \in Nat \ {0}
    BY AtInRing, AmountOfDue
  <2> QED  BY <2>1, <2>2 DEF Withdrawal, Payments
<1>5. w = Withdrawal(nextIndex + (len + 1) - 1, At(i), Amount(At(i)))
  <2>1. turn.index = nextIndex + (len + 1) - 1
    BY <1>1, <1>3
  <2> QED  BY <2>1
<1>6. Cardinality(Seen(i)) < MAX_WITHDRAWALS_PER_PAYLOAD
  BY <1>1
<1>7. /\ Seen(i + 1) = Seen(i) \cup {i} /\ First(i + 1) = First(i) \cup {i}
      /\ i \notin Seen(i)
  BY <1>6, SeenNext
<1>8. Cardinality(Seen(i) \cup {i}) = Cardinality(Seen(i)) + 1
  BY <1>7, SeenFinite, FS_AddElement
<1>9. /\ Cardinality(First(i + 1)) = len + 1
      /\ Cardinality(Seen(i + 1)) = len + 1
      /\ First(i + 1) = Seen(i + 1)
  BY <1>1, <1>7, <1>8
<1> HIDE DEF w
<1>10. /\ next.acc \in Seq(Payments) /\ Len(next.acc) = len + 1
       /\ \A n \in 1..len : next.acc[n] = turn.acc[n]
       /\ next.acc[len + 1] = w
  BY <1>1, <1>4 DEF w
<1>11. ASSUME NEW n \in 1..len + 1
       PROVE  \E k \in First(i + 1) :
                 /\ Cardinality(Seen(k)) = n - 1
                 /\ next.acc[n] = Withdrawal(nextIndex + n - 1, At(k), Amount(At(k)))
  <2>1. CASE n \in 1..len
    BY <1>2, <1>7, <1>10, <2>1
  <2>2. CASE n = len + 1
    <3>1. Cardinality(Seen(i)) = n - 1 /\ i \in First(i + 1)
      BY <1>1, <1>7, <2>2
    <3>2. next.acc[n] = Withdrawal(nextIndex + n - 1, At(i), Amount(At(i)))
      BY <1>5, <1>10, <2>2
    <3> QED  BY <3>1, <3>2
  <2> QED  BY <1>1, <2>1, <2>2
<1>12. next.index = nextIndex + (len + 1)
  BY <1>1, <1>3
<1>13. Len(next.acc) <= MAXW /\ (Len(next.acc) = MAXW => Cardinality(Seen(i + 1)) >= MAXW)
  BY <1>1, <1>3, <1>9, <1>10
<1> QED
  BY <1>9, <1>10, <1>11, <1>12, <1>13 DEF TurnHolds

LEMMA NextTurnHolds ==
    ASSUME Ring, NEW i \in Nat, NEW turn, TurnHolds(turn, i)
    PROVE  TurnHolds(NextTurn(turn), i + 1)
<1>1. /\ Len(turn.acc) <= MAX_WITHDRAWALS_PER_PAYLOAD /\ Len(turn.acc) \in Nat
      /\ MAX_WITHDRAWALS_PER_PAYLOAD \in Nat
      /\ Len(turn.acc) < MAX_WITHDRAWALS_PER_PAYLOAD => turn.vid = At(i)
  BY WithdrawalsAssumption DEF TurnHolds
<1>2. CASE Len(turn.acc) = MAX_WITHDRAWALS_PER_PAYLOAD
  <2>1. NextTurn(turn) = turn
    BY <1>2, NextTurnIs
  <2> QED  BY <1>2, <2>1, FullTurnHolds
<1>3. CASE Len(turn.acc) # MAX_WITHDRAWALS_PER_PAYLOAD
  <2>1. Len(turn.acc) < MAX_WITHDRAWALS_PER_PAYLOAD /\ turn.vid = At(i)
    BY <1>1, <1>3
  <2>2. (At(i) + 1) % N = At(i + 1)
    BY AtNext
  <2>3. CASE Due(At(i))
    <3>1. NextTurn(turn) =
            [index |-> turn.index + 1, vid |-> At(i + 1),
             acc   |-> Append(turn.acc, Withdrawal(turn.index, At(i), Amount(At(i))))]
      BY <1>3, <2>1, <2>2, <2>3, NextTurnIs
    <3> QED  BY <2>1, <2>3, <3>1, PayingTurnHolds
  <2>4. CASE ~Due(At(i))
    <3>1. NextTurn(turn) = [turn EXCEPT !.vid = At(i + 1)]
      BY <1>3, <2>1, <2>2, <2>4, NextTurnIs
    <3>2. /\ NextTurn(turn).acc = turn.acc /\ NextTurn(turn).index = turn.index
          /\ NextTurn(turn).vid = At(i + 1)
      BY <3>1
    <3> QED  BY <1>3, <2>4, <3>2, PassingTurnHolds
  <2> QED  BY <2>3, <2>4
<1> QED
  BY <1>2, <1>3

\* The turns of a loop that starts at the pointers.
IsTurns(f, bound) ==
    f = [i \in 0..bound |->
           IF i = 0 THEN [index |-> nextIndex, vid |-> nextValidator, acc |-> <<>>]
           ELSE NextTurn(f[i - 1])]

LEMMA TurnsExist == \A n \in Nat : \E f : IsTurns(f, n)
<1> DEFINE start == [index |-> nextIndex, vid |-> nextValidator, acc |-> <<>>]
           S == {n \in Nat : \E f : IsTurns(f, n)}
<1>1. 0 \in S
  <2> DEFINE f == [i \in 0..0 |-> start]
  <2>1. IsTurns(f, 0)
    <3> HIDE DEF start
    <3>1. f = [i \in 0..0 |-> IF i = 0 THEN start ELSE NextTurn(f[i - 1])]
      OBVIOUS
    <3> QED  BY <3>1 DEF IsTurns, start
  <2> QED  BY <2>1
<1>2. ASSUME NEW n \in Nat, n \in S PROVE n + 1 \in S
  <2>1. PICK f : IsTurns(f, n)
    BY <1>2
  <2> DEFINE g == [i \in 0..n + 1 |-> IF i = n + 1 THEN NextTurn(f[n]) ELSE f[i]]
  <2> HIDE DEF start
  <2>2. \A i \in 0..n : f[i] = IF i = 0 THEN start ELSE NextTurn(f[i - 1])
    BY <2>1 DEF IsTurns, start
  <2>3. ASSUME NEW i \in 0..n + 1
        PROVE  g[i] = IF i = 0 THEN start ELSE NextTurn(g[i - 1])
    <3>1. CASE i = n + 1
      BY <3>1
    <3>2. CASE i \in 0..n
      BY <2>2, <3>2
    <3> QED  BY <3>1, <3>2
  <2>4. g = [i \in 0..n + 1 |-> g[i]]
    OBVIOUS
  <2> HIDE DEF g
  <2>5. IsTurns(g, n + 1)
    BY <2>3, <2>4 DEF IsTurns, start
  <2> QED  BY <2>5
<1>3. Nat \subseteq S
  <2> HIDE DEF S
  <2> QED  BY <1>1, <1>2, SetInduction
<1> QED
  BY <1>3

LEMMA LoopHolds ==
    ASSUME Ring, NEW bound \in Nat
    PROVE  \E turn : /\ TurnHolds(turn, bound)
                     /\ expected_withdrawals_loop(nextIndex, nextValidator, bound) = turn.acc
<1> DEFINE start == [index |-> nextIndex, vid |-> nextValidator, acc |-> <<>>]
           turns == CHOOSE f : IsTurns(f, bound)
<1>1. IsTurns(turns, bound)
  BY TurnsExist
<1>2. expected_withdrawals_loop(nextIndex, nextValidator, bound) = turns[bound].acc
  BY DEF expected_withdrawals_loop, IsTurns
<1> HIDE DEF turns
<1>3. \A i \in 0..bound : turns[i] = IF i = 0 THEN start ELSE NextTurn(turns[i - 1])
  BY <1>1 DEF IsTurns
<1>4. TurnHolds(start, 0)
  <2>1. Seen(0) = {} /\ First(0) = {}
    BY DEF Seen, First
  <2>2. At(0) = nextValidator
    BY DEF Ring, At
  <2>3. Cardinality({}) = 0
    BY FS_EmptySet
  <2>4. start.acc = <<>> /\ start.index = nextIndex /\ start.vid = At(0)
    BY <2>2
  <2>5. MAX_WITHDRAWALS_PER_PAYLOAD \in Nat \ {0} /\ nextIndex \in Nat
    BY WithdrawalsAssumption DEF Ring
  <2> HIDE DEF start
  <2>6. /\ start.acc \in Seq(Payments) /\ Len(start.acc) = 0
        /\ 1..Len(start.acc) = {}
    BY <2>4
  <2> QED  BY <2>1, <2>3, <2>4, <2>5, <2>6 DEF TurnHolds
<1> HIDE DEF start
<1> DEFINE S == {i \in Nat : i <= bound => TurnHolds(turns[i], i)}
<1>5. 0 \in S
  BY <1>3, <1>4
<1>6. ASSUME NEW i \in Nat, i \in S PROVE i + 1 \in S
  <2> SUFFICES ASSUME i + 1 <= bound PROVE TurnHolds(turns[i + 1], i + 1)
    OBVIOUS
  <2>1. TurnHolds(turns[i], i)
    BY <1>6
  <2>2. turns[i + 1] = NextTurn(turns[i])
    <3>1. i + 1 \in 0..bound /\ i + 1 # 0 /\ i + 1 - 1 = i
      OBVIOUS
    <3> QED  BY <1>3, <3>1
  <2> QED  BY <2>1, <2>2, NextTurnHolds
<1>7. Nat \subseteq S
  <2> HIDE DEF S
  <2> QED  BY <1>5, <1>6, SetInduction
<1>8. TurnHolds(turns[bound], bound)
  BY <1>7
<1> QED
  BY <1>2, <1>8

LEMMA SweepBoundType ==
    ASSUME Ring
    PROVE  SweepBound \in 1..N
<1>1. /\ N \in Nat \ {0} /\ MAX_VALIDATORS_PER_WITHDRAWALS_SWEEP \in Nat \ {0}
  BY WithdrawalsAssumption DEF Ring
<1>2. /\ SweepBound \in {N, MAX_VALIDATORS_PER_WITHDRAWALS_SWEEP}
      /\ SweepBound <= N
  BY <1>1, MinOfTwo DEF SweepBound
<1> QED
  BY <1>1, <1>2

\* What the sweep gives: payments of who is due, no validator twice, numbered on from
\* the next index; and each is at the position that is its rank among those due.
Expected(es) ==
    /\ es \in Seq(Payments)
    /\ Len(es) = Cardinality(First(SweepBound))
    /\ Len(es) <= MAX_WITHDRAWALS_PER_PAYLOAD
    /\ \A n \in 1..Len(es) : \E k \in First(SweepBound) :
         /\ Cardinality(Seen(k)) = n - 1
         /\ es[n] = Withdrawal(nextIndex + n - 1, At(k), Amount(At(k)))

LEMMA ExpectedHolds ==
    ASSUME Ring
    PROVE  Expected(get_expected_withdrawals)
<1>1. SweepBound \in Nat
  BY SweepBoundType DEF Ring
<1>2. PICK turn : /\ TurnHolds(turn, SweepBound)
                  /\ get_expected_withdrawals = turn.acc
  BY <1>1, LoopHolds DEF get_expected_withdrawals
<1> QED
  BY <1>2 DEF TurnHolds, Expected

\* What is paid, seen from the validators.
LEMMA ExpectedPays ==
    ASSUME Ring, NEW es, Expected(es)
    PROVE  /\ \A n \in 1..Len(es) :
                LET v == es[n].validator_index
                IN  /\ v \in Vids /\ Due(v)
                    /\ es[n].index = nextIndex + n - 1
                    /\ es[n].amount = Amount(v)
           /\ \A m, n \in 1..Len(es) :
                m # n => es[m].validator_index # es[n].validator_index
<1>1. \A k \in First(SweepBound) : k \in 0..N - 1 /\ k \in Nat /\ Due(At(k))
  BY SweepBoundType DEF First, Seen, Ring
<1>2. ASSUME NEW n \in 1..Len(es)
      PROVE  LET v == es[n].validator_index
             IN  /\ v \in Vids /\ Due(v)
                 /\ es[n].index = nextIndex + n - 1
                 /\ es[n].amount = Amount(v)
  <2>1. PICK k \in First(SweepBound) :
          es[n] = Withdrawal(nextIndex + n - 1, At(k), Amount(At(k)))
    BY DEF Expected
  <2>2. At(k) \in Vids /\ Due(At(k))
    BY <1>1, AtInRing
  <2> QED  BY <2>1, <2>2 DEF Withdrawal
<1>3. ASSUME NEW m \in 1..Len(es), NEW n \in 1..Len(es), m # n
      PROVE  es[m].validator_index # es[n].validator_index
  <2>1. PICK j \in First(SweepBound) :
          /\ Cardinality(Seen(j)) = m - 1
          /\ es[m] = Withdrawal(nextIndex + m - 1, At(j), Amount(At(j)))
    BY DEF Expected
  <2>2. PICK k \in First(SweepBound) :
          /\ Cardinality(Seen(k)) = n - 1
          /\ es[n] = Withdrawal(nextIndex + n - 1, At(k), Amount(At(k)))
    BY DEF Expected
  <2>3. m - 1 # n - 1
    BY <1>3 DEF Expected
  <2>4. j # k
    BY <2>1, <2>2, <2>3
  <2>5. At(j) # At(k)
    BY <1>1, <2>4, AtInjective
  <2> QED  BY <2>1, <2>2, <2>5 DEF Withdrawal
<1> QED
  BY <1>2, <1>3

-----------------------------------------------------------------------------
(* FirstDue *)

LEMMA SeenBefore ==
    ASSUME NEW b \in Nat, NEW k \in 0..b - 1
    PROVE  {j \in Seen(b) : j < k} = Seen(k)
<1>1. \A j : j \in 0..b - 1 /\ j < k <=> j \in 0..k - 1
  OBVIOUS
<1> QED
  BY <1>1 DEF Seen

LEMMA SeenGrows ==
    ASSUME NEW k \in Nat, NEW j \in Seen(k)
    PROVE  j \in Nat /\ Cardinality(Seen(j)) <= Cardinality(Seen(k))
<1>1. j \in Nat /\ 0..j - 1 \subseteq 0..k - 1
  BY DEF Seen
<1>2. Seen(j) \in SUBSET Seen(k)
  BY <1>1 DEF Seen
<1> QED
  BY <1>1, <1>2, SeenFinite, FS_Subset

LEMMA RingFirstDue ==
    ASSUME Ring
    PROVE  FirstDue
<1> DEFINE b == SweepBound
           es == get_expected_withdrawals
           MAXW == MAX_WITHDRAWALS_PER_PAYLOAD
<1>1. b \in Nat
  BY SweepBoundType DEF Ring
<1>2. Expected(es)
  BY ExpectedHolds
<1> HIDE DEF es, b
<1>3. \A k \in Seen(b) : k \in 0..b - 1 /\ k \in Nat
  BY <1>1 DEF Seen
<1>4. {k \in Seen(b) : Cardinality({j \in Seen(b) : j < k}) < MAXW} = First(b)
  BY <1>1, <1>3, SeenBefore DEF First
<1>5. ASSUME NEW k \in First(b)
      PROVE  {j \in First(b) : j < k} = Seen(k)
  <2>1. k \in Seen(b) /\ Cardinality(Seen(k)) < MAXW /\ k \in 0..b - 1 /\ k \in Nat
    BY <1>3 DEF First
  <2>2. {j \in Seen(b) : j < k} = Seen(k)
    BY <1>1, <2>1, SeenBefore
  <2>3. ASSUME NEW j \in Seen(k) PROVE Cardinality(Seen(j)) < MAXW
    <3>1. j \in Nat /\ Cardinality(Seen(j)) <= Cardinality(Seen(k))
      BY <2>1, SeenGrows
    <3>2. Cardinality(Seen(j)) \in Nat /\ Cardinality(Seen(k)) \in Nat /\ MAXW \in Nat
      BY <2>1, <3>1, SeenFinite, WithdrawalsAssumption
    <3> QED  BY <2>1, <3>1, <3>2
  <2> QED  BY <2>2, <2>3 DEF First
<1>6. DOMAIN es = 1..Len(es)
  BY <1>2 DEF Expected
<1>7. ASSUME NEW n \in DOMAIN es
      PROVE  \E k \in First(b) :
               /\ Cardinality({j \in First(b) : j < k}) = n - 1
               /\ es[n].validator_index = At(k)
               /\ es[n].index = nextIndex + n - 1
  <2>1. PICK k \in First(b) :
          /\ Cardinality(Seen(k)) = n - 1
          /\ es[n] = Withdrawal(nextIndex + n - 1, At(k), Amount(At(k)))
    BY <1>2, <1>6 DEF Expected, b
  <2> QED  BY <1>5, <2>1 DEF Withdrawal
<1>8. Len(es) = Cardinality(First(b))
  BY <1>2 DEF Expected, b
<1>9. Seen(b) = {k \in 0..SweepBound - 1 : Due((nextValidator + k) % N)}
  BY DEF Seen, At, b
<1> QED
  BY <1>4, <1>7, <1>8, <1>9 DEF FirstDue, es, At

-----------------------------------------------------------------------------
(* What was paid *)

\* The money of some payments, each a pair of an index and an amount.
Worth(ps) == Total([p \in ps |-> p[2]])

Entries == Nat \X (Nat \ {0})

LEMMA WorthType ==
    ASSUME NEW ps \in SUBSET Entries, IsFiniteSet(ps)
    PROVE  /\ Worth(ps) \in Nat /\ Cardinality(ps) \in Nat
           /\ Cardinality(ps) <= Worth(ps)
<1> DEFINE f == [p \in ps |-> p[2]]
<1>1. \A p \in ps : f[p] \in Nat \ {0}
  BY DEF Entries
<1>2. Worth(ps) = Sum(f, ps)
  <2>1. DOMAIN f = ps
    OBVIOUS
  <2> QED  BY <2>1, TotalIsSum DEF Worth
<1> HIDE DEF f
<1> QED
  BY <1>1, <1>2, SumType, SumOfPositive, FS_CardinalityType

LEMMA WorthAdds ==
    ASSUME NEW ps \in SUBSET Entries, IsFiniteSet(ps), NEW x \in Entries, x \notin ps
    PROVE  Worth(ps \cup {x}) = Worth(ps) + x[2]
<1> DEFINE f == [p \in ps |-> p[2]]
           g == [p \in ps \cup {x} |-> p[2]]
<1>1. \A p \in ps : f[p] \in Nat /\ g[p] = f[p]
  BY DEF Entries
<1>2. g[x] = x[2] /\ g[x] \in Nat
  BY DEF Entries
<1>3. Worth(ps) = Sum(f, ps)
  <2>1. DOMAIN f = ps
    OBVIOUS
  <2> QED  BY <2>1, TotalIsSum DEF Worth
<1>4. Worth(ps \cup {x}) = Sum(g, ps \cup {x})
  <2>1. DOMAIN g = ps \cup {x}
    OBVIOUS
  <2> QED  BY <2>1, TotalIsSum DEF Worth
<1> HIDE DEF f, g
<1>5. Sum(g, ps \cup {x}) = Sum(f, ps) + g[x]
  BY <1>1, <1>2, SumExtends
<1> QED
  BY <1>2, <1>3, <1>4, <1>5

LEMMA WorthOfNone == Worth({}) = 0
<1>1. DOMAIN [p \in {} |-> p[2]] = {}
  OBVIOUS
<1> QED
  BY <1>1, TotalIsSum, SumOfNone DEF Worth

\* What each validator holds and was paid, and how often it was paid.
Holdings(bs, ps) == [i \in DOMAIN bs |-> bs[i] + Worth(ps[i])]

Counts(ps) == [i \in DOMAIN ps |-> Cardinality(ps[i])]

\* Each payment has an index that was given, and an amount.
Booked ==
    /\ DOMAIN paid = Vids
    /\ \A i \in Vids :
         /\ IsFiniteSet(paid[i])
         /\ paid[i] \in SUBSET Entries
         /\ \A p \in paid[i] : p[1] < nextIndex

\* The invariant: the registry is a ring, and what was paid is on the books.
IInv ==
    /\ Ring
    /\ Booked
    /\ issued \in 0..Supply /\ burnt \in Nat
    /\ PayoutsAccounted

LEMMA RingFinite ==
    ASSUME Ring
    PROVE  IsFiniteSet(Vids) /\ DOMAIN balances = Vids
<1>1. N - 1 \in Int /\ 0 \in Int
  BY DEF Ring
<1>2. IsFiniteSet(0..N - 1)
  BY <1>1, FS_Interval
<1> QED
  BY <1>2 DEF Ring

\* The two sums of PayoutsAccounted.
LEMMA AccountSums ==
    ASSUME Ring, DOMAIN paid = Vids
    PROVE  /\ MoneyConserved <=> issued = burnt + Sum(Holdings(balances, paid), Vids)
           /\ IndicesContiguous <=>
                /\ UNION {{p[1] : p \in paid[i]} : i \in Vids} = 0..nextIndex - 1
                /\ nextIndex = Sum(Counts(paid), Vids)
<1>1. DOMAIN balances = Vids
  BY RingFinite
<1>2. [i \in Vids |-> balances[i] + PaidTo(i)] = Holdings(balances, paid)
  BY <1>1 DEF Holdings, PaidTo, Worth
<1>3. [i \in Vids |-> Cardinality(paid[i])] = Counts(paid)
  BY DEF Counts
<1>4. DOMAIN Holdings(balances, paid) = Vids /\ DOMAIN Counts(paid) = Vids
  BY <1>1 DEF Holdings, Counts
<1>5. /\ Total(Holdings(balances, paid)) = Sum(Holdings(balances, paid), Vids)
      /\ Total(Counts(paid)) = Sum(Counts(paid), Vids)
  BY <1>4, TotalIsSum
<1> QED
  BY <1>2, <1>3, <1>5 DEF MoneyConserved, IndicesContiguous

LEMMA HoldingsType ==
    ASSUME Ring, Booked, NEW i \in Vids
    PROVE  /\ Holdings(balances, paid)[i] = balances[i] + Worth(paid[i])
           /\ Counts(paid)[i] = Cardinality(paid[i])
           /\ balances[i] \in Nat /\ Worth(paid[i]) \in Nat /\ Cardinality(paid[i]) \in Nat
           /\ Cardinality(paid[i]) <= Worth(paid[i])
<1>1. DOMAIN balances = Vids /\ balances[i] \in Nat
  BY RingFinite DEF Ring
<1>2. /\ Worth(paid[i]) \in Nat /\ Cardinality(paid[i]) \in Nat
      /\ Cardinality(paid[i]) <= Worth(paid[i])
  BY WorthType DEF Booked
<1> QED
  BY <1>1, <1>2 DEF Holdings, Counts, Booked

\* No balance and no index outgrows what was issued.
LEMMA IInvTypeOK == IInv => TypeOK
<1> SUFFICES ASSUME IInv PROVE TypeOK
  OBVIOUS
<1> DEFINE h == Holdings(balances, paid)
           c == Counts(paid)
<1>1. Ring /\ Booked /\ DOMAIN paid = Vids /\ IsFiniteSet(Vids)
  BY RingFinite DEF IInv, Booked
<1>2. issued = burnt + Sum(h, Vids) /\ nextIndex = Sum(c, Vids)
  BY <1>1, AccountSums DEF IInv, PayoutsAccounted
<1>3. \A i \in Vids : /\ h[i] = balances[i] + Worth(paid[i])
                      /\ c[i] = Cardinality(paid[i])
                      /\ balances[i] \in Nat /\ Worth(paid[i]) \in Nat
                      /\ c[i] \in Nat /\ Cardinality(paid[i]) <= Worth(paid[i])
  BY <1>1, HoldingsType
<1> HIDE DEF h, c
<1>4. \A i \in Vids : h[i] \in Nat /\ c[i] \in Nat /\ c[i] <= h[i] /\ balances[i] <= h[i]
  BY <1>3
<1>5. Sum(h, Vids) \in Nat /\ Sum(c, Vids) \in Nat
  BY <1>1, <1>4, SumType
<1>6. Sum(c, Vids) <= Sum(h, Vids)
  BY <1>1, <1>4, SumGrows
<1>7. \A i \in Vids : h[i] <= Sum(h, Vids)
  BY <1>1, <1>4, SumOfPart
<1>8. issued \in 0..Supply /\ burnt \in Nat /\ Supply \in Nat
  BY WithdrawalsAssumption DEF IInv
<1>9. burnt \in 0..Supply /\ nextIndex \in 0..Supply
  BY <1>2, <1>5, <1>6, <1>8
<1>10. ASSUME NEW i \in Vids PROVE balances[i] \in 0..Supply
  <2>1. balances[i] \in Nat /\ balances[i] <= h[i] /\ h[i] <= Sum(h, Vids) /\ h[i] \in Nat
    BY <1>3, <1>4, <1>7
  <2> QED  BY <1>2, <1>5, <1>8, <2>1
<1>11. balances \in [Vids -> 0..Supply]
  BY <1>1, <1>10 DEF Ring
<1>12. DOMAIN validators = 0..N - 1 /\ nextValidator \in Vids
  BY <1>1 DEF Ring, Vids
<1> QED
  BY <1>1, <1>8, <1>9, <1>11, <1>12 DEF TypeOK

-----------------------------------------------------------------------------
(* The payment of a payload *)

\* Who is paid by the first m withdrawals.
PaidBy(es, m) == {es[n].validator_index : n \in 1..m}

\* The balances when that has been paid.
Left(es, m) == [v \in Vids |-> IF v \in PaidBy(es, m) THEN balances[v] - Amount(v) ELSE balances[v]]

\* The balances after each withdrawal.
IsApplied(f, es, m) ==
    f = [n \in 0..m |->
           IF n = 0 THEN balances
           ELSE [f[n - 1] EXCEPT ![es[n].validator_index] =
                                     DecreaseBalance(@, es[n].amount)]]

LEMMA AppliedExists ==
    ASSUME NEW es
    PROVE  \A m \in Nat : \E f : IsApplied(f, es, m)
<1> DEFINE Then(b, n) == [b EXCEPT ![es[n].validator_index] =
                                       DecreaseBalance(@, es[n].amount)]
           S == {m \in Nat : \E f : IsApplied(f, es, m)}
<1>1. \A f, m : IsApplied(f, es, m) <=>
                  f = [n \in 0..m |-> IF n = 0 THEN balances ELSE Then(f[n - 1], n)]
  BY DEF IsApplied
<1> HIDE DEF Then
<1>2. 0 \in S
  <2> DEFINE f == [n \in 0..0 |-> balances]
  <2>1. f = [n \in 0..0 |-> IF n = 0 THEN balances ELSE Then(f[n - 1], n)]
    OBVIOUS
  <2> HIDE DEF f
  <2> QED  BY <1>1, <2>1
<1>3. ASSUME NEW m \in Nat, m \in S PROVE m + 1 \in S
  <2>1. PICK f : IsApplied(f, es, m)
    BY <1>3
  <2> DEFINE g == [n \in 0..m + 1 |-> IF n = m + 1 THEN Then(f[m], m + 1) ELSE f[n]]
  <2>2. f = [n \in 0..m |-> IF n = 0 THEN balances ELSE Then(f[n - 1], n)]
    BY <1>1, <2>1
  <2>3. \A n \in 0..m : f[n] = IF n = 0 THEN balances ELSE Then(f[n - 1], n)
    BY <2>2
  <2>4. ASSUME NEW n \in 0..m + 1
        PROVE  g[n] = IF n = 0 THEN balances ELSE Then(g[n - 1], n)
    <3>1. CASE n = m + 1
      BY <3>1
    <3>2. CASE n \in 0..m
      BY <2>3, <3>2
    <3> QED  BY <3>1, <3>2
  <2>5. g = [n \in 0..m + 1 |-> g[n]]
    OBVIOUS
  <2> HIDE DEF g
  <2>6. g = [n \in 0..m + 1 |-> IF n = 0 THEN balances ELSE Then(g[n - 1], n)]
    BY <2>4, <2>5
  <2>7. IsApplied(g, es, m + 1)
    BY <1>1, <2>6
  <2> QED  BY <2>7
<1>4. Nat \subseteq S
  <2> HIDE DEF S
  <2> QED  BY <1>2, <1>3, SetInduction
<1> QED
  BY <1>4

\* Nobody is listed twice, so that what is paid is there to be taken.
LEMMA AppliedLeft ==
    ASSUME Ring, NEW es, Expected(es)
    PROVE  ApplyWithdrawals(balances, es) = Left(es, Len(es))
<1> DEFINE f == CHOOSE g : IsApplied(g, es, Len(es))
<1>1. Len(es) \in Nat
  BY DEF Expected
<1>2. IsApplied(f, es, Len(es))
  BY <1>1, AppliedExists
<1>3. ApplyWithdrawals(balances, es) = f[Len(es)]
  BY DEF ApplyWithdrawals, IsApplied
<1> HIDE DEF f
<1>4. f[0] = balances
  BY <1>1, <1>2 DEF IsApplied
<1> DEFINE Then(b, n) == [b EXCEPT ![es[n].validator_index] =
                                       DecreaseBalance(@, es[n].amount)]
<1>5. f = [n \in 0..Len(es) |-> IF n = 0 THEN balances ELSE Then(f[n - 1], n)]
  BY <1>2 DEF IsApplied
<1> DEFINE S == {m \in Nat : m <= Len(es) => f[m] = Left(es, m)}
<1>6. 0 \in S
  <2>1. PaidBy(es, 0) = {}
    BY DEF PaidBy
  <2>2. balances = [v \in Vids |-> balances[v]]
    BY DEF Ring
  <2>3. Left(es, 0) = balances
    BY <2>1, <2>2 DEF Left
  <2> QED  BY <1>4, <2>3
<1>7. ASSUME NEW m \in Nat, m \in S PROVE m + 1 \in S
  <2> SUFFICES ASSUME m + 1 <= Len(es) PROVE f[m + 1] = Left(es, m + 1)
    OBVIOUS
  <2> DEFINE u == es[m + 1].validator_index
  <2>1. m + 1 \in 1..Len(es) /\ f[m] = Left(es, m)
    BY <1>1, <1>7
  <2>2. u \in Vids /\ Due(u) /\ es[m + 1].amount = Amount(u)
    BY <2>1, ExpectedPays
  <2>3. u \notin PaidBy(es, m)
    <3>1. ASSUME NEW n \in 1..m PROVE es[n].validator_index # u
      <4>1. n \in 1..Len(es) /\ n # m + 1
        BY <1>1
      <4> QED  BY <2>1, <4>1, ExpectedPays
    <3> QED  BY <3>1 DEF PaidBy
  <2>4. PaidBy(es, m + 1) = PaidBy(es, m) \cup {u}
    <3>1. 1..m + 1 = (1..m) \cup {m + 1}
      OBVIOUS
    <3> QED  BY <3>1 DEF PaidBy
  <2> HIDE DEF u
  <2>5. DecreaseBalance(balances[u], Amount(u)) = balances[u] - Amount(u)
    <3>1. /\ balances[u] \in Nat /\ Amount(u) \in Nat /\ Amount(u) <= balances[u]
      BY <2>2, AmountOfDue DEF Ring
    <3>2. ~(Amount(u) > balances[u])
      BY <3>1
    <3> QED  BY <3>2 DEF DecreaseBalance
  <2>6. f[m + 1] = [Left(es, m) EXCEPT ![u] = DecreaseBalance(@, Amount(u))]
    <3>1. m + 1 - 1 = m /\ m + 1 \in 0..Len(es) /\ m + 1 # 0
      BY <2>1
    <3>2. f[m + 1] = Then(f[m], m + 1)
      <4> HIDE DEF Then
      <4> QED  BY <1>5, <3>1
    <3>3. Then(Left(es, m), m + 1) = [Left(es, m) EXCEPT ![u] = DecreaseBalance(@, Amount(u))]
      BY <2>2 DEF u
    <3> HIDE DEF Then
    <3> QED  BY <2>1, <3>2, <3>3
  <2>7. Left(es, m)[u] = balances[u]
    BY <2>2, <2>3 DEF Left
  <2>8. f[m + 1] = [Left(es, m) EXCEPT ![u] = balances[u] - Amount(u)]
    BY <2>5, <2>6, <2>7
  <2> QED  BY <2>4, <2>8 DEF Left
<1>8. Nat \subseteq S
  <2> HIDE DEF S
  <2> QED  BY <1>6, <1>7, SetInduction
<1> QED
  BY <1>1, <1>3, <1>8

\* What ProcessWithdrawals does to a validator.
LEMMA PaymentIs ==
    ASSUME IInv, NEW es, Expected(es),
           balances' = ApplyWithdrawals(balances, es),
           paid' = [i \in Vids |->
              paid[i] \cup {<<w.index, w.amount>> :
                  w \in {es[k] : k \in {n \in DOMAIN es : es[n].validator_index = i}}}]
    PROVE  /\ balances' \in [Vids -> Nat]
           /\ DOMAIN paid' = Vids
           /\ \A v \in Vids \ PaidBy(es, Len(es)) :
                 balances'[v] = balances[v] /\ paid'[v] = paid[v]
           /\ \A n \in 1..Len(es) :
                 LET v == es[n].validator_index
                 IN  /\ v \in Vids /\ Due(v)
                     /\ balances'[v] = balances[v] - Amount(v)
                     /\ paid'[v] = paid[v] \cup {<<nextIndex + n - 1, Amount(v)>>}
<1>1. Ring
  BY DEF IInv
<1>2. balances' = Left(es, Len(es))
  BY <1>1, AppliedLeft
<1>3. DOMAIN es = 1..Len(es) /\ Len(es) \in Nat
  BY DEF Expected
<1>4. ASSUME NEW v \in Vids \ PaidBy(es, Len(es))
      PROVE  balances'[v] = balances[v] /\ paid'[v] = paid[v]
  <2>1. {n \in DOMAIN es : es[n].validator_index = v} = {}
    BY <1>3 DEF PaidBy
  <2> QED  BY <1>2, <2>1 DEF Left
<1>5. ASSUME NEW n \in 1..Len(es), NEW v, v = es[n].validator_index
      PROVE  /\ v \in Vids /\ Due(v)
             /\ balances'[v] = balances[v] - Amount(v)
             /\ paid'[v] = paid[v] \cup {<<nextIndex + n - 1, Amount(v)>>}
  <2>1. /\ v \in Vids /\ Due(v)
        /\ es[n].index = nextIndex + n - 1 /\ es[n].amount = Amount(v)
    BY <1>1, <1>5, ExpectedPays
  <2>2. v \in PaidBy(es, Len(es))
    BY <1>5 DEF PaidBy
  <2>3. {k \in DOMAIN es : es[k].validator_index = v} = {n}
    BY <1>1, <1>3, <1>5, ExpectedPays
  <2>4. {<<w.index, w.amount>> : w \in {es[k] : k \in {n}}} = {<<es[n].index, es[n].amount>>}
    OBVIOUS
  <2>5. paid'[v] = paid[v] \cup {<<w.index, w.amount>> :
                  w \in {es[k] : k \in {j \in DOMAIN es : es[j].validator_index = v}}}
    BY <2>1
  <2>6. paid'[v] = paid[v] \cup {<<nextIndex + n - 1, Amount(v)>>}
    BY <2>1, <2>3, <2>4, <2>5
  <2> QED  BY <1>2, <2>1, <2>2, <2>6 DEF Left
<1>6. balances' \in [Vids -> Nat]
  <2>1. ASSUME NEW v \in Vids PROVE balances'[v] \in Nat
    <3>1. CASE v \in PaidBy(es, Len(es))
      <4>1. PICK n \in 1..Len(es) : v = es[n].validator_index
        BY <3>1 DEF PaidBy
      <4>2. Due(v) /\ balances'[v] = balances[v] - Amount(v)
        BY <1>5, <4>1
      <4>3. balances[v] \in Nat /\ Amount(v) \in Nat /\ Amount(v) <= balances[v]
        BY <1>1, <4>2, AmountOfDue DEF Ring
      <4> QED  BY <4>2, <4>3
    <3>2. CASE v \notin PaidBy(es, Len(es))
      BY <1>1, <1>4, <3>2 DEF Ring
    <3> QED  BY <3>1, <3>2
  <2> QED  BY <1>2, <2>1 DEF Left
<1> QED
  BY <1>4, <1>5, <1>6

-----------------------------------------------------------------------------
(* The invariant *)

\* The sums of PayoutsAccounted, after a step.
LEMMA AccountSumsNext ==
    ASSUME Ring', DOMAIN paid' = Vids'
    PROVE  /\ MoneyConserved' <=> issued' = burnt' + Sum(Holdings(balances', paid'), Vids')
           /\ IndicesContiguous' <=>
                /\ UNION {{p[1] : p \in paid'[i]} : i \in Vids'} = 0..nextIndex' - 1
                /\ nextIndex' = Sum(Counts(paid'), Vids')
<1>1. DOMAIN balances' = Vids'
  BY DEF Ring
<1>2. [i \in Vids' |-> balances'[i] + Worth(paid'[i])] = Holdings(balances', paid')
  BY <1>1 DEF Holdings
<1>3. [i \in Vids' |-> Cardinality(paid'[i])] = Counts(paid')
  BY DEF Counts
<1>4. DOMAIN Holdings(balances', paid') = Vids' /\ DOMAIN Counts(paid') = Vids'
  BY <1>1 DEF Holdings, Counts
<1>5. /\ Total(Holdings(balances', paid')) = Sum(Holdings(balances', paid'), Vids')
      /\ Total(Counts(paid')) = Sum(Counts(paid'), Vids')
  BY <1>4, TotalIsSum
<1>6. MoneyConserved' <=>
        issued' = burnt' + Total([i \in Vids' |-> balances'[i] + Worth(paid'[i])])
  BY DEF MoneyConserved, PaidTo, Worth
<1> QED
  BY <1>2, <1>3, <1>5, <1>6 DEF IndicesContiguous

\* What a step must show of the books, its sums among them.
LEMMA BooksKept ==
    ASSUME Ring', Booked', issued' \in 0..Supply, burnt' \in Nat,
           issued' = burnt' + Sum(Holdings(balances', paid'), Vids'),
           UNION {{p[1] : p \in paid'[i]} : i \in Vids'} = 0..nextIndex' - 1,
           nextIndex' = Sum(Counts(paid'), Vids')
    PROVE  IInv'
<1>1. DOMAIN paid' = Vids'
  BY DEF Booked
<1> QED
  BY <1>1, AccountSumsNext DEF IInv, PayoutsAccounted

\* What the books say, before a step.
LEMMA Books ==
    ASSUME IInv
    PROVE  /\ Ring /\ Booked /\ IsFiniteSet(Vids) /\ DOMAIN balances = Vids /\ DOMAIN paid = Vids
           /\ issued \in 0..Supply /\ burnt \in Nat
           /\ issued = burnt + Sum(Holdings(balances, paid), Vids)
           /\ UNION {{p[1] : p \in paid[i]} : i \in Vids} = 0..nextIndex - 1
           /\ nextIndex = Sum(Counts(paid), Vids)
           /\ Sum(Holdings(balances, paid), Vids) \in Nat
           /\ \A i \in Vids :
                /\ Holdings(balances, paid)[i] = balances[i] + Worth(paid[i])
                /\ Counts(paid)[i] = Cardinality(paid[i])
                /\ balances[i] \in Nat /\ Worth(paid[i]) \in Nat
                /\ Cardinality(paid[i]) \in Nat
<1>1. /\ Ring /\ Booked /\ DOMAIN paid = Vids /\ issued \in 0..Supply /\ burnt \in Nat
      /\ MoneyConserved /\ IndicesContiguous
  BY DEF IInv, Booked, PayoutsAccounted
<1>2. IsFiniteSet(Vids) /\ DOMAIN balances = Vids
  BY <1>1, RingFinite
<1>3. \A i \in Vids :
        /\ Holdings(balances, paid)[i] = balances[i] + Worth(paid[i])
        /\ Counts(paid)[i] = Cardinality(paid[i])
        /\ balances[i] \in Nat /\ Worth(paid[i]) \in Nat
        /\ Cardinality(paid[i]) \in Nat
  BY <1>1, HoldingsType
<1>4. \A i \in Vids : Holdings(balances, paid)[i] \in Nat
  BY <1>3
<1>5. Sum(Holdings(balances, paid), Vids) \in Nat
  BY <1>2, <1>4, SumType
<1> QED
  BY <1>1, <1>2, <1>3, <1>5, AccountSums

\* Genesis: each validator holds its deposit, and nobody was paid.
LEMMA InitIInv == Init => IInv
<1> SUFFICES ASSUME Init PROVE IInv
  OBVIOUS
<1> DEFINE h == Holdings(balances, paid)
           c == Counts(paid)
           MAXB == MAX_EFFECTIVE_BALANCE
<1>1. /\ GenesisCount \in Nat \ {0} /\ MAXB \in Nat \ {0} /\ Supply \in Nat
      /\ Supply >= GenesisCount * MAXB
  BY WithdrawalsAssumption
<1>2. Vids = 0..GenesisCount - 1
  BY DEF Init, Vids
<1>3. N = GenesisCount /\ IsFiniteSet(Vids)
  BY <1>1, <1>2, FS_Interval DEF N
<1>4. /\ \A i \in Vids : balances[i] = MAXB /\ paid[i] = {}
      /\ DOMAIN balances = Vids /\ DOMAIN paid = Vids
      /\ balances = [i \in Vids |-> MAXB]
  BY <1>2 DEF Init
<1>5. Ring
  BY <1>1, <1>2, <1>3, <1>4 DEF Ring, Init
<1>6. Booked
  BY <1>4, FS_EmptySet DEF Booked
<1>7. \A i \in Vids : h[i] = MAXB /\ c[i] = 0
  <2>1. \A i \in Vids : h[i] = balances[i] + Worth(paid[i]) /\ c[i] = Cardinality(paid[i])
    BY <1>4 DEF Holdings, Counts
  <2>2. Worth({}) = 0 /\ Cardinality({}) = 0 /\ MAXB + 0 = MAXB
    BY <1>1, WorthOfNone, FS_EmptySet
  <2>3. \A i \in Vids : h[i] = MAXB + Worth({}) /\ c[i] = Cardinality({})
    BY <1>4, <2>1
  <2> HIDE DEF h, c
  <2> QED  BY <2>2, <2>3
<1> HIDE DEF h, c
<1>8. Sum(h, Vids) = Cardinality(Vids) * MAXB /\ Sum(c, Vids) = Cardinality(Vids) * 0
  BY <1>1, <1>3, <1>7, SumOfEqual
<1>9. /\ issued = GenesisCount * MAXB /\ burnt = 0 /\ nextIndex = 0
  BY DEF Init
<1>10. GenesisCount * MAXB \in Nat /\ GenesisCount * 0 = 0
  BY <1>1
<1>11. issued = burnt + Sum(h, Vids) /\ nextIndex = Sum(c, Vids)
  <2>1. Cardinality(Vids) = GenesisCount
    BY <1>3 DEF N
  <2>2. Sum(h, Vids) = GenesisCount * MAXB
    BY <1>8, <2>1
  <2>3. Sum(c, Vids) = 0
    BY <1>8, <1>10, <2>1
  <2> QED  BY <1>9, <1>10, <2>2, <2>3
<1>12. UNION {{p[1] : p \in paid[i]} : i \in Vids} = 0..nextIndex - 1
  BY <1>4, <1>9
<1>13. PayoutsAccounted
  BY <1>4, <1>5, <1>11, <1>12, AccountSums DEF PayoutsAccounted, h, c
<1> QED
  BY <1>1, <1>5, <1>6, <1>9, <1>10, <1>13 DEF IInv

LEMMA PaidByNext ==
    ASSUME Ring, NEW es, Expected(es), NEW m \in Nat, m + 1 <= Len(es)
    PROVE  /\ PaidBy(es, m + 1) = PaidBy(es, m) \cup {es[m + 1].validator_index}
           /\ es[m + 1].validator_index \notin PaidBy(es, m)
<1>1. m + 1 \in 1..Len(es) /\ Len(es) \in Nat
  BY DEF Expected
<1>2. 1..m + 1 = (1..m) \cup {m + 1}
  OBVIOUS
<1>3. ASSUME NEW n \in 1..m PROVE es[n].validator_index # es[m + 1].validator_index
  <2>1. n \in 1..Len(es) /\ n # m + 1
    BY <1>1
  <2> QED  BY <1>1, <2>1, ExpectedPays
<1> QED
  BY <1>2, <1>3 DEF PaidBy

\* As many are paid as there are withdrawals.
LEMMA PaidByCount ==
    ASSUME Ring, NEW es, Expected(es)
    PROVE  Cardinality(PaidBy(es, Len(es))) = Len(es) /\ PaidBy(es, Len(es)) \subseteq Vids
<1>1. Len(es) \in Nat
  BY DEF Expected
<1> DEFINE S == {m \in Nat : m <= Len(es) =>
                    IsFiniteSet(PaidBy(es, m)) /\ Cardinality(PaidBy(es, m)) = m}
<1>2. 0 \in S
  <2>1. PaidBy(es, 0) = {}
    BY DEF PaidBy
  <2> QED  BY <2>1, FS_EmptySet
<1>3. ASSUME NEW m \in Nat, m \in S PROVE m + 1 \in S
  <2> SUFFICES ASSUME m + 1 <= Len(es)
               PROVE  /\ IsFiniteSet(PaidBy(es, m + 1))
                      /\ Cardinality(PaidBy(es, m + 1)) = m + 1
    OBVIOUS
  <2>1. IsFiniteSet(PaidBy(es, m)) /\ Cardinality(PaidBy(es, m)) = m
    BY <1>1, <1>3
  <2> QED  BY <2>1, PaidByNext, FS_AddElement
<1>4. Nat \subseteq S
  <2> HIDE DEF S
  <2> QED  BY <1>2, <1>3, SetInduction
<1>5. PaidBy(es, Len(es)) \subseteq Vids
  BY ExpectedPays DEF PaidBy
<1> QED
  BY <1>1, <1>4, <1>5

\* Where the next sweep starts.
LEMMA PointersMove ==
    ASSUME Ring, NEW es, Expected(es)
    PROVE  NextIndex(es) = nextIndex + Len(es) /\ NextValidator(es) \in Vids
<1>1. /\ Len(es) \in Nat /\ es \in Seq(Payments) /\ nextIndex \in Nat /\ nextValidator \in Nat
      /\ N \in Nat \ {0} /\ Vids = 0..N - 1
      /\ MAX_WITHDRAWALS_PER_PAYLOAD \in Nat \ {0}
      /\ MAX_VALIDATORS_PER_WITHDRAWALS_SWEEP \in Nat \ {0}
  BY WithdrawalsAssumption DEF Expected, Ring
<1>2. es = <<>> <=> Len(es) = 0
  BY <1>1
<1>3. Len(es) # 0 =>
        /\ es[Len(es)].index = nextIndex + Len(es) - 1
        /\ es[Len(es)].validator_index \in Vids
  <2> SUFFICES ASSUME Len(es) # 0
               PROVE  /\ es[Len(es)].index = nextIndex + Len(es) - 1
                      /\ es[Len(es)].validator_index \in Vids
    OBVIOUS
  <2>1. Len(es) \in 1..Len(es)
    BY <1>1
  <2> QED  BY <2>1, ExpectedPays
<1>4. NextIndex(es) = nextIndex + Len(es)
  BY <1>1, <1>2, <1>3 DEF NextIndex
<1>5. CASE Len(es) = MAX_WITHDRAWALS_PER_PAYLOAD
  <2>1. es[Len(es)].validator_index + 1 \in Nat
    BY <1>1, <1>3, <1>5
  <2>2. (es[Len(es)].validator_index + 1) % N \in 0..N - 1
    BY <1>1, <2>1, RingIndex
  <2> QED  BY <1>1, <1>4, <1>5, <2>2 DEF NextValidator
<1>6. CASE Len(es) # MAX_WITHDRAWALS_PER_PAYLOAD
  <2>1. nextValidator + MAX_VALIDATORS_PER_WITHDRAWALS_SWEEP \in Nat
    BY <1>1
  <2>2. (nextValidator + MAX_VALIDATORS_PER_WITHDRAWALS_SWEEP) % N \in 0..N - 1
    BY <1>1, <2>1, RingIndex
  <2> QED  BY <1>1, <1>4, <1>6, <2>2 DEF NextValidator
<1> QED
  BY <1>5, <1>6

-----------------------------------------------------------------------------
(* The steps *)

\* The books do not look at the validators themselves.
LEMMA SameRegistry ==
    ASSUME IInv, Vids' = Vids,
           UNCHANGED <<balances, nextIndex, nextValidator, issued, burnt, paid>>
    PROVE  IInv'
<1>1. N' = N
  BY DEF N
<1>2. Ring' /\ Booked'
  BY <1>1 DEF IInv, Ring, Booked
<1>3. issued' \in 0..Supply /\ burnt' \in Nat
  BY DEF IInv
<1>4. issued' = burnt' + Sum(Holdings(balances', paid'), Vids')
  BY Books
<1>5. UNION {{p[1] : p \in paid'[i]} : i \in Vids'} = 0..nextIndex' - 1
  BY Books
<1>6. nextIndex' = Sum(Counts(paid'), Vids')
  BY Books
<1> QED
  BY <1>2, <1>3, <1>4, <1>5, <1>6, BooksKept

\* A balance moves, and what was issued or burnt with it.
LEMMA BalanceMoves ==
    ASSUME IInv, NEW i \in Vids, NEW b \in Nat, balances' = [balances EXCEPT ![i] = b],
           issued' \in 0..Supply, burnt' \in Nat,
           issued' + balances[i] + burnt = issued + b + burnt',
           UNCHANGED <<validators, nextIndex, nextValidator, paid>>
    PROVE  IInv'
<1> DEFINE h == Holdings(balances, paid)
           g == Holdings(balances', paid')
<1>1. Vids' = Vids /\ N' = N
  BY DEF Vids, N
<1>2. Ring' /\ Booked'
  BY <1>1, Books DEF Ring, Booked
<1>3. Sum(g, Vids) + h[i] = Sum(h, Vids) + g[i] /\ h[i] \in Nat /\ g[i] \in Nat
  <2>1. ASSUME NEW j \in Vids
        PROVE  /\ g[j] = balances'[j] + Worth(paid[j]) /\ h[j] = balances[j] + Worth(paid[j])
               /\ g[j] \in Nat /\ h[j] \in Nat
               /\ j # i => g[j] = h[j]
    <3>1. balances[j] \in Nat /\ balances'[j] \in Nat /\ Worth(paid[j]) \in Nat
      BY Books
    <3>2. g[j] = balances'[j] + Worth(paid[j]) /\ h[j] = balances[j] + Worth(paid[j])
      BY Books DEF Holdings
    <3>3. j # i => balances'[j] = balances[j]
      BY Books
    <3> HIDE DEF g, h
    <3> QED  BY <3>1, <3>2, <3>3
  <2> HIDE DEF g, h
  <2>2. IsFiniteSet(Vids)
    BY Books
  <2>3. \A j \in Vids : h[j] \in Nat /\ g[j] \in Nat
    BY <2>1
  <2>4. \A j \in Vids \ {i} : g[j] = h[j]
    BY <2>1
  <2> QED  BY <2>2, <2>3, <2>4, SumChanges
<1>4. g[i] = b + Worth(paid[i]) /\ h[i] = balances[i] + Worth(paid[i])
  BY Books DEF Holdings
<1>5. /\ balances[i] \in Nat /\ Worth(paid[i]) \in Nat
      /\ issued = burnt + Sum(h, Vids) /\ issued \in Nat /\ burnt \in Nat
      /\ Sum(h, Vids) \in Nat
  BY Books, WithdrawalsAssumption
<1>6. Sum(g, Vids) \in Nat
  <2>1. \A j \in Vids : g[j] \in Nat
    <3>1. \A j \in Vids : g[j] = balances'[j] + Worth(paid[j])
      BY Books DEF Holdings
    <3>2. \A j \in Vids : balances'[j] \in Nat /\ Worth(paid[j]) \in Nat
      BY Books
    <3> HIDE DEF g
    <3> QED  BY <3>1, <3>2
  <2> HIDE DEF g
  <2> QED  BY <2>1, Books, SumType
<1> HIDE DEF g, h
<1>7. Sum(g, Vids) + balances[i] = Sum(h, Vids) + b
  BY <1>3, <1>4, <1>5, <1>6
<1>8. issued' = burnt' + Sum(g, Vids)
  <2>1. issued' \in Nat /\ burnt' \in Nat
    BY WithdrawalsAssumption
  <2> QED  BY <1>5, <1>6, <1>7, <2>1
<1>9. issued' = burnt' + Sum(Holdings(balances', paid'), Vids')
  BY <1>1, <1>8 DEF g
<1>10. UNION {{p[1] : p \in paid'[j]} : j \in Vids'} = 0..nextIndex' - 1
  BY <1>1, Books
<1>11. nextIndex' = Sum(Counts(paid'), Vids')
  BY <1>1, Books
<1> QED
  BY <1>2, <1>9, <1>10, <1>11, BooksKept

LEMMA IncreaseKeeps ==
    ASSUME IInv, NEW i \in Vids, IncreaseBalance(i)
    PROVE  IInv'
<1>1. balances[i] \in Nat /\ issued \in 0..Supply /\ burnt \in Nat /\ Supply \in Nat
  BY Books, WithdrawalsAssumption
<1>2. /\ balances' = [balances EXCEPT ![i] = balances[i] + 1] /\ issued' = issued + 1
      /\ issued < Supply /\ burnt' = burnt
      /\ UNCHANGED <<validators, nextIndex, nextValidator, paid>>
  BY DEF IncreaseBalance
<1>3. /\ balances[i] + 1 \in Nat /\ issued' \in 0..Supply /\ burnt' \in Nat
      /\ issued' + balances[i] + burnt = issued + (balances[i] + 1) + burnt'
  BY <1>1, <1>2
<1> QED
  BY <1>2, <1>3, BalanceMoves

LEMMA PenalizeKeeps ==
    ASSUME IInv, NEW i \in Vids, Penalize(i)
    PROVE  IInv'
<1>1. balances[i] \in Nat /\ issued \in 0..Supply /\ burnt \in Nat /\ Supply \in Nat
  BY Books, WithdrawalsAssumption
<1>2. /\ balances' = [balances EXCEPT ![i] = DecreaseBalance(balances[i], 1)]
      /\ balances[i] > 0 /\ issued' = issued /\ burnt' = burnt + 1
      /\ UNCHANGED <<validators, nextIndex, nextValidator, paid>>
  BY DEF Penalize
<1>3. DecreaseBalance(balances[i], 1) = balances[i] - 1
  BY <1>1, <1>2 DEF DecreaseBalance
<1>4. /\ balances[i] - 1 \in Nat /\ issued' \in 0..Supply /\ burnt' \in Nat
      /\ issued' + balances[i] + burnt = issued + (balances[i] - 1) + burnt'
  BY <1>1, <1>2
<1>5. balances' = [balances EXCEPT ![i] = balances[i] - 1]
  BY <1>2, <1>3
<1> QED
  BY <1>2, <1>4, <1>5, BalanceMoves

\* A newcomer has its deposit, and was not paid.
LEMMA AddValidatorKeeps ==
    ASSUME IInv, NEW eth1, AddValidatorToRegistry(eth1)
    PROVE  IInv'
<1> DEFINE h == Holdings(balances, paid)
           g == Holdings(balances', paid')
           c == Counts(paid)
           d == Counts(paid')
           MAXB == MAX_EFFECTIVE_BALANCE
<1>1. /\ Ring /\ N \in Nat \ {0} /\ Vids = 0..N - 1 /\ MAXB \in Nat \ {0}
      /\ IsFiniteSet(Vids)
  BY Books, WithdrawalsAssumption DEF Ring
<1>2. Vids' = 0..N
  BY DEF AddValidatorToRegistry, Appended, Vids
<1>3. N' = N + 1
  <2>1. Cardinality(0..N) = N + 1
    BY <1>1, FS_Interval
  <2> QED  BY <1>2, <2>1 DEF N
<1>4. Vids' = Vids \cup {N} /\ N \notin Vids
  BY <1>1, <1>2
<1>5. /\ balances' = Appended(balances, MAXB) /\ paid' = Appended(paid, {})
      /\ issued' = issued + MAXB /\ issued' <= Supply /\ burnt' = burnt
      /\ nextIndex' = nextIndex /\ nextValidator' = nextValidator
  BY DEF AddValidatorToRegistry
<1>6. /\ DOMAIN balances' = Vids' /\ DOMAIN paid' = Vids'
      /\ balances'[N] = MAXB /\ paid'[N] = {}
      /\ balances' = [j \in Vids' |-> balances'[j]]
      /\ \A j \in Vids : balances'[j] = balances[j] /\ paid'[j] = paid[j]
  BY <1>1, <1>2, <1>4, <1>5 DEF Appended
<1>7. \A j \in Vids' : balances'[j] \in Nat
  BY <1>1, <1>4, <1>6, Books
<1>8. Ring'
  <2>1. N' \in Nat \ {0} /\ Vids' = 0..N' - 1
    BY <1>1, <1>2, <1>3
  <2>2. nextValidator' \in Vids' /\ nextIndex' \in Nat
    BY <1>1, <1>4, <1>5 DEF Ring
  <2> QED  BY <1>6, <1>7, <2>1, <2>2 DEF Ring
<1>9. Booked'
  <2>1. Booked
    BY Books
  <2> QED  BY <1>4, <1>5, <1>6, <2>1, FS_EmptySet DEF Booked
<1>10. issued' \in 0..Supply /\ burnt' \in Nat /\ issued \in Nat /\ Supply \in Nat
  <2>1. issued \in 0..Supply /\ burnt \in Nat /\ Supply \in Nat
    BY Books, WithdrawalsAssumption
  <2> QED  BY <1>1, <1>5, <2>1
<1>11. ASSUME NEW j \in Vids
       PROVE  h[j] \in Nat /\ g[j] = h[j] /\ c[j] \in Nat /\ d[j] = c[j]
  <2>1. /\ g[j] = balances'[j] + Worth(paid'[j]) /\ d[j] = Cardinality(paid'[j])
    BY <1>4, <1>6 DEF Holdings, Counts
  <2>2. /\ h[j] = balances[j] + Worth(paid[j]) /\ c[j] = Cardinality(paid[j])
        /\ balances[j] \in Nat /\ Worth(paid[j]) \in Nat /\ Cardinality(paid[j]) \in Nat
    BY Books
  <2> HIDE DEF g, h, c, d
  <2> QED  BY <1>6, <2>1, <2>2
<1>12. g[N] = MAXB /\ d[N] = 0
  <2>1. g[N] = balances'[N] + Worth(paid'[N]) /\ d[N] = Cardinality(paid'[N])
    BY <1>4, <1>6 DEF Holdings, Counts
  <2>2. Worth({}) = 0 /\ Cardinality({}) = 0
    BY WorthOfNone, FS_EmptySet
  <2> HIDE DEF g, d
  <2> QED  BY <1>1, <1>6, <2>1, <2>2
<1> HIDE DEF g, h, c, d
<1>13. Sum(g, Vids \cup {N}) = Sum(h, Vids) + MAXB
  <2>1. \A j \in Vids : h[j] \in Nat /\ g[j] = h[j]
    BY <1>11
  <2>2. Sum(g, Vids \cup {N}) = Sum(h, Vids) + g[N]
    <3>1. IsFiniteSet(Vids) /\ N \notin Vids /\ g[N] \in Nat
      BY <1>1, <1>4, <1>12
    <3> QED  BY <2>1, <3>1, SumExtends
  <2> QED  BY <1>12, <2>2
<1>14. Sum(d, Vids \cup {N}) = Sum(c, Vids)
  <2>1. \A j \in Vids : c[j] \in Nat /\ d[j] = c[j]
    BY <1>11
  <2>2. Sum(d, Vids \cup {N}) = Sum(c, Vids) + d[N]
    <3>1. IsFiniteSet(Vids) /\ N \notin Vids /\ d[N] \in Nat
      BY <1>1, <1>4, <1>12
    <3> QED  BY <2>1, <3>1, SumExtends
  <2>3. Sum(c, Vids) \in Nat
    BY <1>1, <2>1, SumType
  <2> QED  BY <1>12, <2>2, <2>3
<1>15. issued' = burnt' + Sum(g, Vids')
  <2>1. issued = burnt + Sum(h, Vids) /\ Sum(h, Vids) \in Nat /\ burnt \in Nat
    BY Books DEF h
  <2> QED  BY <1>1, <1>4, <1>5, <1>13, <2>1
<1>16. nextIndex' = Sum(d, Vids')
  BY <1>4, <1>5, <1>14, Books DEF c
<1>17. UNION {{p[1] : p \in paid'[j]} : j \in Vids'} = 0..nextIndex' - 1
  <2>1. UNION {{p[1] : p \in paid'[j]} : j \in Vids'}
          = (UNION {{p[1] : p \in paid'[j]} : j \in Vids}) \cup {p[1] : p \in paid'[N]}
    BY <1>4
  <2>2. UNION {{p[1] : p \in paid'[j]} : j \in Vids} = UNION {{p[1] : p \in paid[j]} : j \in Vids}
    BY <1>6
  <2>3. {p[1] : p \in paid'[N]} = {}
    BY <1>6
  <2> QED  BY <1>5, <2>1, <2>2, <2>3, Books
<1> QED
  BY <1>8, <1>9, <1>10, <1>15, <1>16, <1>17, BooksKept DEF g, d

\* A payload pays each validator once, from its balance, under the next indices: money
\* moves from what is held to what was paid, and the indices go on.
LEMMA WithdrawalsKeep ==
    ASSUME IInv, ProcessWithdrawals
    PROVE  IInv'
<1> DEFINE es == get_expected_withdrawals
           P == PaidBy(es, Len(es))
           h == Holdings(balances, paid)
           g == Holdings(balances', paid')
           c == Counts(paid)
           d == Counts(paid')
<1>1. /\ Ring /\ Booked /\ IsFiniteSet(Vids) /\ nextIndex \in Nat
  BY Books DEF Ring
<1>2. Expected(es)
  BY <1>1, ExpectedHolds
<1> HIDE DEF es
<1>3. /\ balances' = ApplyWithdrawals(balances, es)
      /\ nextIndex' = NextIndex(es) /\ nextValidator' = NextValidator(es)
      /\ paid' = [i \in Vids |->
              paid[i] \cup {<<w.index, w.amount>> :
                  w \in {es[k] : k \in {n \in DOMAIN es : es[n].validator_index = i}}}]
      /\ validators' = validators /\ issued' = issued /\ burnt' = burnt
  BY DEF ProcessWithdrawals, es
<1>4. Vids' = Vids /\ N' = N
  BY <1>3 DEF Vids, N
<1>5. Len(es) \in Nat /\ nextIndex' = nextIndex + Len(es) /\ nextValidator' \in Vids
  <2>1. NextIndex(es) = nextIndex + Len(es) /\ NextValidator(es) \in Vids
    BY <1>1, <1>2, PointersMove
  <2>2. Len(es) \in Nat
    BY <1>2 DEF Expected
  <2> QED  BY <1>3, <2>1, <2>2
<1>6. /\ balances' \in [Vids -> Nat] /\ DOMAIN paid' = Vids
      /\ \A v \in Vids \ P : balances'[v] = balances[v] /\ paid'[v] = paid[v]
      /\ \A n \in 1..Len(es) :
            LET v == es[n].validator_index
            IN  /\ v \in Vids /\ Due(v)
                /\ balances'[v] = balances[v] - Amount(v)
                /\ paid'[v] = paid[v] \cup {<<nextIndex + n - 1, Amount(v)>>}
  BY <1>2, <1>3, PaymentIs
<1>7. Cardinality(P) = Len(es) /\ P \subseteq Vids
  BY <1>1, <1>2, PaidByCount
<1>8. ASSUME NEW v \in P
      PROVE  \E n \in 1..Len(es) :
               /\ v \in Vids /\ Due(v) /\ v = es[n].validator_index
               /\ balances'[v] = balances[v] - Amount(v)
               /\ paid'[v] = paid[v] \cup {<<nextIndex + n - 1, Amount(v)>>}
  <2>1. PICK n \in 1..Len(es) : v = es[n].validator_index
    BY DEF PaidBy
  <2> QED  BY <1>6, <2>1
<1> HIDE DEF P
\* A further payment is under an index not given before.
<1>9. ASSUME NEW v \in Vids, NEW n \in 1..Len(es), Due(v)
      PROVE  /\ <<nextIndex + n - 1, Amount(v)>> \in Entries
             /\ <<nextIndex + n - 1, Amount(v)>> \notin paid[v]
             /\ nextIndex + n - 1 < nextIndex'
             /\ Amount(v) \in Nat \ {0} /\ Amount(v) <= balances[v]
  <2>1. Amount(v) \in Nat \ {0} /\ Amount(v) <= balances[v]
    BY <1>1, <1>9, AmountOfDue
  <2>2. nextIndex + n - 1 \in Nat /\ nextIndex + n - 1 >= nextIndex
    BY <1>1, <1>5
  <2>3. \A p \in paid[v] : p[1] < nextIndex /\ p[1] \in Nat
    BY <1>1 DEF Booked, Entries
  <2>4. <<nextIndex + n - 1, Amount(v)>> \notin paid[v]
    <3> SUFFICES ASSUME <<nextIndex + n - 1, Amount(v)>> \in paid[v] PROVE FALSE
      OBVIOUS
    <3>1. nextIndex + n - 1 < nextIndex
      BY <2>3
    <3> QED  BY <1>1, <2>2, <3>1
  <2>5. nextIndex + n - 1 < nextIndex'
    BY <1>1, <1>5
  <2> QED  BY <2>1, <2>2, <2>4, <2>5 DEF Entries
<1>10. Ring'
  <2>1. nextIndex' \in Nat
    BY <1>1, <1>5
  <2> QED  BY <1>1, <1>4, <1>5, <1>6, <2>1 DEF Ring
<1>11. ASSUME NEW v \in Vids
       PROVE  /\ IsFiniteSet(paid'[v])
              /\ paid'[v] \in SUBSET Entries
              /\ \A p \in paid'[v] : p[1] < nextIndex'
  <2>1. /\ IsFiniteSet(paid[v]) /\ paid[v] \in SUBSET Entries
        /\ \A p \in paid[v] : p[1] < nextIndex'
    <3>1. /\ IsFiniteSet(paid[v]) /\ paid[v] \in SUBSET Entries
          /\ \A p \in paid[v] : p[1] < nextIndex /\ p[1] \in Nat
      BY <1>1 DEF Booked, Entries
    <3> QED  BY <1>1, <1>5, <3>1
  <2>2. CASE v \in P
    <3>1. PICK n \in 1..Len(es) :
            Due(v) /\ paid'[v] = paid[v] \cup {<<nextIndex + n - 1, Amount(v)>>}
      BY <1>8, <2>2
    <3> DEFINE x == <<nextIndex + n - 1, Amount(v)>>
    <3>2. x \in Entries /\ x[1] < nextIndex'
      BY <1>9, <3>1
    <3> HIDE DEF x
    <3>3. IsFiniteSet(paid[v] \cup {x})
      BY <2>1, FS_AddElement
    <3> QED  BY <2>1, <3>1, <3>2, <3>3 DEF x
  <2>3. CASE v \notin P
    BY <1>6, <2>1, <2>3
  <2> QED  BY <2>2, <2>3
<1>12. Booked'
  BY <1>4, <1>6, <1>11 DEF Booked
<1>13. ASSUME NEW v \in Vids
       PROVE  /\ h[v] \in Nat /\ g[v] = h[v]
              /\ c[v] \in Nat /\ d[v] = IF v \in P THEN c[v] + 1 ELSE c[v]
  <2>1. /\ h[v] = balances[v] + Worth(paid[v]) /\ c[v] = Cardinality(paid[v])
        /\ balances[v] \in Nat /\ Worth(paid[v]) \in Nat /\ Cardinality(paid[v]) \in Nat
    BY Books
  <2>2. g[v] = balances'[v] + Worth(paid'[v]) /\ d[v] = Cardinality(paid'[v])
    BY <1>6 DEF Holdings, Counts
  <2> HIDE DEF h, g, c, d
  <2>3. CASE v \in P
    <3>1. PICK n \in 1..Len(es) :
            /\ Due(v) /\ balances'[v] = balances[v] - Amount(v)
            /\ paid'[v] = paid[v] \cup {<<nextIndex + n - 1, Amount(v)>>}
      BY <1>8, <2>3
    <3> DEFINE x == <<nextIndex + n - 1, Amount(v)>>
    <3>2. /\ x \in Entries /\ x \notin paid[v] /\ x[2] = Amount(v)
          /\ Amount(v) \in Nat
      BY <1>9, <3>1
    <3>3. paid'[v] = paid[v] \cup {x}
      BY <3>1
    <3> HIDE DEF x
    <3>4. IsFiniteSet(paid[v]) /\ paid[v] \in SUBSET Entries
      BY <1>1 DEF Booked
    <3>5. Worth(paid'[v]) = Worth(paid[v]) + Amount(v)
      BY <3>2, <3>3, <3>4, WorthAdds
    <3>6. Cardinality(paid'[v]) = Cardinality(paid[v]) + 1
      <4>1. Cardinality(paid[v] \cup {x}) = Cardinality(paid[v]) + 1
        BY <3>2, <3>4, FS_AddElement, Zenon
      <4> QED  BY <3>3, <4>1
    <3> QED  BY <2>1, <2>2, <2>3, <3>1, <3>2, <3>5, <3>6
  <2>4. CASE v \notin P
    BY <1>6, <2>1, <2>2, <2>4
  <2> QED  BY <2>3, <2>4
<1> HIDE DEF h, g, c, d
<1>14. Sum(g, Vids) = Sum(h, Vids)
  BY <1>1, <1>13, SumSame
<1>15. Sum(d, Vids) = Sum(c, Vids) + Len(es)
  <2>1. \A v \in Vids : c[v] \in Nat /\ d[v] = IF v \in P THEN c[v] + 1 ELSE c[v]
    BY <1>13
  <2> QED  BY <1>1, <1>7, <2>1, SumCounts
<1>16. issued' = burnt' + Sum(Holdings(balances', paid'), Vids')
  BY <1>3, <1>4, <1>14, Books DEF g, h
<1>17. nextIndex' = Sum(Counts(paid'), Vids')
  BY <1>4, <1>5, <1>15, Books DEF c, d
<1>18. UNION {{p[1] : p \in paid'[i]} : i \in Vids'} = 0..nextIndex' - 1
  <2>1. UNION {{p[1] : p \in paid[i]} : i \in Vids} = 0..nextIndex - 1
    BY Books
  <2>2. ASSUME NEW y \in 0..nextIndex' - 1
        PROVE  \E v \in Vids : \E p \in paid'[v] : p[1] = y
    <3>1. CASE y \in 0..nextIndex - 1
      <4>1. PICK v \in Vids : \E p \in paid[v] : p[1] = y
        BY <2>1, <3>1
      <4>2. paid[v] \subseteq paid'[v]
        BY <1>6, <1>8
      <4> QED  BY <4>1, <4>2
    <3>2. CASE y \notin 0..nextIndex - 1
      <4>1. y - nextIndex + 1 \in 1..Len(es) /\ nextIndex + (y - nextIndex + 1) - 1 = y
        BY <1>1, <1>5, <3>2
      <4> DEFINE n == y - nextIndex + 1
                 v == es[n].validator_index
      <4>2. v \in Vids /\ paid'[v] = paid[v] \cup {<<nextIndex + n - 1, Amount(v)>>}
        BY <1>6, <4>1
      <4>3. <<y, Amount(v)>> \in paid'[v] /\ <<y, Amount(v)>>[1] = y
        BY <4>1, <4>2
      <4> HIDE DEF v
      <4> QED  BY <4>2, <4>3
    <3> QED  BY <3>1, <3>2
  <2>3. ASSUME NEW v \in Vids, NEW p \in paid'[v]
        PROVE  p[1] \in 0..nextIndex' - 1
    <3>1. p[1] \in Nat /\ p[1] < nextIndex' /\ nextIndex' \in Nat
      BY <1>10, <1>11 DEF Entries, Ring
    <3> QED  BY <3>1
  <2> QED  BY <1>4, <2>2, <2>3
<1>19. issued' \in 0..Supply /\ burnt' \in Nat
  BY <1>3, Books
<1> QED
  BY <1>10, <1>12, <1>16, <1>17, <1>18, <1>19, BooksKept

LEMMA NextIInv ==
    ASSUME IInv, [Next]_vars
    PROVE  IInv'
<1>1. CASE ProcessWithdrawals
  BY <1>1, WithdrawalsKeep
<1>2. ASSUME NEW eth1 \in BOOLEAN, AddValidatorToRegistry(eth1) PROVE IInv'
  BY <1>2, AddValidatorKeeps
<1>3. ASSUME NEW i \in Vids, IncreaseBalance(i) PROVE IInv'
  BY <1>3, IncreaseKeeps
<1>4. ASSUME NEW i \in Vids, Penalize(i) PROVE IInv'
  BY <1>4, PenalizeKeeps
<1>5. ASSUME NEW i \in Vids,
             ProcessBlsToExecutionChange(i) \/ Mature(i) \/ ApplyEffectiveBalance(i)
      PROVE  IInv'
  <2>1. Vids' = Vids
    BY <1>5 DEF ProcessBlsToExecutionChange, Mature, ApplyEffectiveBalance, Vids
  <2>2. UNCHANGED <<balances, nextIndex, nextValidator, issued, burnt, paid>>
    BY <1>5 DEF ProcessBlsToExecutionChange, Mature, ApplyEffectiveBalance
  <2> QED  BY <2>1, <2>2, SameRegistry
<1>6. CASE UNCHANGED vars
  <2>1. Vids' = Vids
    BY <1>6 DEF vars, Vids
  <2>2. UNCHANGED <<balances, nextIndex, nextValidator, issued, burnt, paid>>
    BY <1>6 DEF vars
  <2> QED  BY <2>1, <2>2, SameRegistry
<1> QED
  BY <1>1, <1>2, <1>3, <1>4, <1>5, <1>6 DEF Next

-----------------------------------------------------------------------------
(* The theorems *)

\* For any registry and any size of payload and of sweep, the books are in order.
THEOREM WithdrawalsInvariance == Spec => []IInv
  BY InitIInv, NextIInv, PTL DEF Spec

\* For any registry, no balance and no index of get_expected_withdrawals outgrows what
\* was issued, and the pointer stays in the registry.
THEOREM WithdrawalsTypeCorrect == Spec => []TypeOK
  BY WithdrawalsInvariance, IInvTypeOK, PTL

\* For any size of payload and of sweep, and however the payload ends, the loop of
\* get_expected_withdrawals finds the first validators that are due, each of them once.
THEOREM FirstDueAlways == Spec => []FirstDue
<1>1. IInv => FirstDue
  BY RingFirstDue DEF IInv
<1> QED
  BY <1>1, WithdrawalsInvariance, PTL

\* For any registry, ProcessWithdrawals creates no money and loses none, and it neither
\* reuses nor skips a withdrawal index.
THEOREM PayoutsAlwaysAccounted == Spec => []PayoutsAccounted
<1>1. IInv => PayoutsAccounted
  BY DEF IInv
<1> QED
  BY <1>1, WithdrawalsInvariance, PTL

\* For any registry, a validator that is paid keeps its stake, or has left and gets all.
THEOREM StakeAlwaysKept == Spec => StakeKept
<1> DEFINE A == \A i \in Vids :
          paid'[i] # paid[i] =>
              balances'[i] = IF validators[i].withdrawable THEN 0
                             ELSE MAX_EFFECTIVE_BALANCE
<1>1. IInv /\ [Next]_vars => [A]_vars
  <2> SUFFICES ASSUME IInv, Next PROVE A
    OBVIOUS
  <2>1. CASE ProcessWithdrawals
    <3> DEFINE es == get_expected_withdrawals
    <3> SUFFICES ASSUME NEW i \in Vids, paid'[i] # paid[i]
                 PROVE  balances'[i] = IF validators[i].withdrawable THEN 0
                                       ELSE MAX_EFFECTIVE_BALANCE
      OBVIOUS
    <3>1. Ring /\ balances[i] \in Nat /\ MAX_EFFECTIVE_BALANCE \in Nat \ {0}
      BY Books, WithdrawalsAssumption
    <3>2. Expected(es)
      BY <3>1, ExpectedHolds
    <3> HIDE DEF es
    <3>3. /\ balances' = ApplyWithdrawals(balances, es)
          /\ paid' = [v \in Vids |->
                paid[v] \cup {<<w.index, w.amount>> :
                    w \in {es[k] : k \in {n \in DOMAIN es : es[n].validator_index = v}}}]
      BY <2>1 DEF ProcessWithdrawals, es
    <3>4. i \in PaidBy(es, Len(es))
      BY <3>2, <3>3, PaymentIs
    <3>5. Due(i) /\ balances'[i] = balances[i] - Amount(i)
      <4>1. PICK n \in 1..Len(es) : i = es[n].validator_index
        BY <3>4 DEF PaidBy
      <4>2. LET v == es[n].validator_index
            IN  Due(v) /\ balances'[v] = balances[v] - Amount(v)
        BY <3>2, <3>3, PaymentIs
      <4> QED  BY <4>1, <4>2
    <3>6. CASE is_fully_withdrawable_validator(validators[i], balances[i])
      BY <3>1, <3>5, <3>6 DEF Amount, is_fully_withdrawable_validator
    <3>7. CASE ~is_fully_withdrawable_validator(validators[i], balances[i])
      <4>1. is_partially_withdrawable_validator(validators[i], balances[i])
        BY <3>5, <3>7 DEF Due
      <4>2. ~validators[i].withdrawable
        BY <3>1, <3>7, <4>1
        DEF is_fully_withdrawable_validator, is_partially_withdrawable_validator
      <4> QED  BY <3>1, <3>5, <3>7, <4>2 DEF Amount
    <3> QED  BY <3>6, <3>7
  <2>2. ASSUME NEW eth1 \in BOOLEAN, AddValidatorToRegistry(eth1) PROVE A
    <3>1. Vids = 0..N - 1 /\ N \in Nat
      BY Books DEF Ring
    <3> QED  BY <2>2, <3>1 DEF AddValidatorToRegistry, Appended
  <2>3. ASSUME NEW j \in Vids,
               \/ IncreaseBalance(j) \/ Penalize(j) \/ ProcessBlsToExecutionChange(j)
               \/ Mature(j) \/ ApplyEffectiveBalance(j)
        PROVE  A
    BY <2>3 DEF IncreaseBalance, Penalize, ProcessBlsToExecutionChange, Mature,
                ApplyEffectiveBalance
  <2> QED  BY <2>1, <2>2, <2>3 DEF Next
<1> QED
  BY <1>1, WithdrawalsInvariance, PTL DEF Spec, StakeKept
=============================================================================
