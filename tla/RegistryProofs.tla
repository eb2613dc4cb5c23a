--------------------------- MODULE RegistryProofs ---------------------------
(***************************************************************************)
(* Proofs about Registry, for any preset within RegistryAssumption.        *)
(*                                                                         *)
(* IInv says of the registry that it is Sound: the dates of a validator    *)
(* follow each other, no epoch of the exit queue holds more than the churn *)
(* limit of all that were activated, the exit queue is no longer than the  *)
(* number of those in it, and the activation queue lets nobody overtake.   *)
(* Blocks lead from a sound registry to a sound one that Follows it; an    *)
(* epoch transition, a fold over the validators (upTo) and an activation   *)
(* of a prefix of the sorted queue, to one that Advances it.  SInv adds    *)
(* what the ring of slashed balances holds, as sums over the slashed.      *)
(***************************************************************************)
EXTENDS Registry, WellFoundedInduction, FiniteSetTheorems, TLAPS

-----------------------------------------------------------------------------
(* Slots of the ring *)

\* An index of the ring is in its range.
LEMMA RingIndex ==
    ASSUME NEW n \in Nat \ {0}, NEW a \in Nat
    PROVE  a % n \in 0..n - 1
  OBVIOUS

LEMMA DivMod ==
    ASSUME NEW n \in Nat \ {0}, NEW a \in Nat
    PROVE  /\ a = n * (a \div n) + (a % n)
           /\ a \div n \in Int
  OBVIOUS

LEMMA NoSmallMultiple ==
    ASSUME NEW n \in Nat \ {0}, NEW q \in Int, NEW d \in 1..n - 1
    PROVE  n * q # d
  OBVIOUS

\* Two numbers less than n apart do not share a slot of the ring.
LEMMA RingInjective ==
    ASSUME NEW n \in Nat \ {0}, NEW a \in Nat, NEW b \in Nat,
           a < b, b < a + n
    PROVE  a % n # b % n
  <1>1. ASSUME a % n = b % n PROVE FALSE
    <2> DEFINE p == a \div n
               q == b \div n
    <2>1. /\ a = n * p + (a % n)
          /\ b = n * q + (b % n)
          /\ p \in Int
          /\ q \in Int
      BY DivMod
    <2>2. a % n \in Int /\ b % n \in Int
      BY RingIndex
    <2> HIDE DEF p, q
    <2>3. b - a = n * q - n * p
      BY <1>1, <2>1, <2>2
    <2>4. n * q - n * p = n * (q - p)
      BY <2>1
    <2>5. b - a \in 1..n - 1
      OBVIOUS
    <2>6. q - p \in Int
      BY <2>1
    <2>7. n * (q - p) # b - a
      BY <2>5, <2>6, NoSmallMultiple
    <2> QED
      BY <2>3, <2>4, <2>7
  <1> QED
    BY <1>1

-----------------------------------------------------------------------------
(* Maxima, quotients, and counting *)

\* Induction over the natural numbers, for a set.
LEMMA SetInduction ==
    ASSUME NEW S, 0 \in S, \A n \in Nat : n \in S => n + 1 \in S
    PROVE  Nat \subseteq S
<1> DEFINE T == Nat \ S
<1> SUFFICES ASSUME T # {} PROVE FALSE
  OBVIOUS
<1>1. PICK n \in T : \A m \in T : ~(<<m, n>> \in OpToRel(<, Nat))
  <2>1. T \subseteq Nat
    OBVIOUS
  <2> HIDE DEF T
  <2>2. IsWellFoundedOn(OpToRel(<, Nat), Nat)
    BY NatLessThanWellFounded
  <2> QED  BY <2>1, <2>2, WFMin
<1>2. n \in Nat /\ n # 0
  OBVIOUS
<1>3. n - 1 \in Nat /\ n - 1 + 1 = n /\ <<n - 1, n>> \in OpToRel(<, Nat)
  BY <1>2 DEF OpToRel
<1> QED
  BY <1>1, <1>2, <1>3

\* A set of natural numbers that is bounded has a greatest one.
LEMMA MaxOf ==
    ASSUME NEW S \in SUBSET Nat, S # {}, NEW b \in Nat, \A y \in S : y <= b
    PROVE  Max(S) \in S /\ \A y \in S : y <= Max(S)
<1> DEFINE T == {n \in Nat : (\A y \in S : y <= n) => \E x \in S : \A y \in S : x >= y}
<1>1. 0 \in T
  <2> SUFFICES ASSUME \A y \in S : y <= 0
               PROVE  \E x \in S : \A y \in S : x >= y
    OBVIOUS
  <2>1. ASSUME NEW y \in S PROVE y = 0
    OBVIOUS
  <2>2. 0 \in S
    BY <2>1
  <2> QED  BY <2>1, <2>2
<1>2. ASSUME NEW n \in Nat, n \in T PROVE n + 1 \in T
  <2> SUFFICES ASSUME \A y \in S : y <= n + 1
               PROVE  \E x \in S : \A y \in S : x >= y
    OBVIOUS
  <2>1. CASE n + 1 \in S
    BY <2>1
  <2>2. CASE n + 1 \notin S
    <3>1. ASSUME NEW y \in S PROVE y <= n
      BY <2>2
    <3> QED  BY <1>2, <3>1
  <2> QED  BY <2>1, <2>2
<1>3. b \in T
  <2> HIDE DEF T
  <2> QED  BY <1>1, <1>2, SetInduction
<1>4. \E x \in S : \A y \in S : x >= y
  BY <1>3
<1>5. Max(S) \in S /\ \A y \in S : Max(S) >= y
  BY <1>4 DEF Max
<1>6. ASSUME NEW y \in S PROVE y <= Max(S)
  BY <1>5
<1> QED
  BY <1>5, <1>6

LEMMA MaxOfTwo ==
    ASSUME NEW a \in Int, NEW b \in Int
    PROVE  /\ Max({a, b}) \in Int
           /\ a <= Max({a, b}) /\ b <= Max({a, b})
           /\ Max({a, b}) = a \/ Max({a, b}) = b
           /\ a \in Nat /\ b \in Nat => Max({a, b}) \in Nat
<1>1. \E x \in {a, b} : \A y \in {a, b} : x >= y
  <2>1. CASE a <= b
    BY <2>1
  <2>2. CASE ~(a <= b)
    BY <2>2
  <2> QED  BY <2>1, <2>2
<1>2. Max({a, b}) \in {a, b} /\ \A y \in {a, b} : Max({a, b}) >= y
  BY <1>1 DEF Max
<1>3. Max({a, b}) >= a /\ Max({a, b}) >= b /\ (Max({a, b}) = a \/ Max({a, b}) = b)
  BY <1>2
<1> QED
  BY <1>3

LEMMA MinOfTwo ==
    ASSUME NEW a \in Int, NEW b \in Int
    PROVE  /\ Min({a, b}) \in {a, b}
           /\ Min({a, b}) <= a /\ Min({a, b}) <= b
<1>1. \E x \in {a, b} : \A y \in {a, b} : x <= y
  <2>1. CASE a <= b
    BY <2>1
  <2>2. CASE ~(a <= b)
    BY <2>2
  <2> QED  BY <2>1, <2>2
<1>2. Min({a, b}) \in {a, b} /\ \A y \in {a, b} : Min({a, b}) <= y
  BY <1>1 DEF Min
<1> QED
  BY <1>2

\* A quotient grows with its dividend.
LEMMA QuotientGrows ==
    ASSUME NEW n \in Nat \ {0}, NEW a \in Nat, NEW b \in Nat, a <= b
    PROVE  a \div n \in Nat /\ a \div n <= b \div n
<1> DEFINE p == a \div n
           q == b \div n
<1>1. /\ a = n * p + (a % n) /\ b = n * q + (b % n)
      /\ p \in Int /\ q \in Int
  BY DivMod
<1>2. a % n \in 0..n - 1 /\ b % n \in 0..n - 1
  BY RingIndex
<1> HIDE DEF p, q
<1>3. p >= 0
  <2>1. p <= -1 => n * p <= -n
    BY <1>1
  <2> QED  BY <1>1, <1>2, <2>1
<1>4. p <= q
  <2> SUFFICES ASSUME p - q >= 1 PROVE FALSE
    BY <1>1
  <2>1. n * (p - q) >= n
    BY <1>1
  <2>2. n * (p - q) = n * p - n * q
    BY <1>1
  <2> QED  BY <1>1, <1>2, <2>1, <2>2
<1> QED
  BY <1>1, <1>3, <1>4 DEF p, q

\* What two sets, one in the other, say of the churn limit.
LEMMA LimitGrows ==
    ASSUME NEW S, IsFiniteSet(S), NEW T \in SUBSET S
    PROVE  LET limit(U) == Max({MIN_PER_EPOCH_CHURN_LIMIT,
                                Cardinality(U) \div CHURN_LIMIT_QUOTIENT})
           IN  limit(T) \in Nat \ {0} /\ limit(S) \in Nat \ {0} /\ limit(T) <= limit(S)
<1> DEFINE a == Cardinality(T) \div CHURN_LIMIT_QUOTIENT
           b == Cardinality(S) \div CHURN_LIMIT_QUOTIENT
           m == MIN_PER_EPOCH_CHURN_LIMIT
<1>1. Cardinality(T) \in Nat /\ Cardinality(S) \in Nat /\ Cardinality(T) <= Cardinality(S)
  BY FS_Subset, FS_CardinalityType
<1>2. CHURN_LIMIT_QUOTIENT \in Nat \ {0} /\ m \in Nat \ {0}
  BY RegistryAssumption
<1>3. a \in Nat /\ a <= b /\ b \in Nat
  BY <1>1, <1>2, QuotientGrows
<1> DEFINE low == Max({m, a})
           high == Max({m, b})
<1> HIDE DEF a, b, m
<1>4. /\ low \in Nat /\ m <= low
      /\ low = m \/ low = a
      /\ high \in Nat /\ m <= high /\ b <= high
  BY <1>2, <1>3, MaxOfTwo
<1> HIDE DEF low, high
<1>5. low \in Nat \ {0} /\ high \in Nat \ {0} /\ low <= high
  BY <1>2, <1>3, <1>4
<1> QED
  BY <1>5 DEF low, high, a, b, m

-----------------------------------------------------------------------------
(* The registry vs in the middle of epoch e *)

IsRegistry(vs) == \E n \in 0..MaxValidators : vs \in [0..n - 1 -> Validator]

Leaving(vs) == {i \in DOMAIN vs : vs[i].exit_epoch # FAR_FUTURE_EPOCH}

Activated(vs) == {i \in DOMAIN vs : vs[i].activation_epoch # FAR_FUTURE_EPOCH}

\* The dates of a validator follow each other.  Eligibility is dated el at most,
\* activation ac at most, and it waited for the finalized epoch fin.
Dated(val, el, ac, fin) ==
    /\ val.activation_eligibility_epoch \in Epochs(el)
    /\ val.activation_epoch \in Epochs(ac)
    /\ val.activation_epoch # FAR_FUTURE_EPOCH =>
         val.activation_eligibility_epoch <= fin
    /\ val.exit_epoch # FAR_FUTURE_EPOCH =>
         /\ val.activation_epoch < val.exit_epoch
         /\ val.withdrawable_epoch >= val.exit_epoch + MIN_VALIDATOR_WITHDRAWABILITY_DELAY
    /\ val.slashed => val.exit_epoch # FAR_FUTURE_EPOCH

\* Each validator that leaves makes the exit queue an epoch longer at most.
ExitsSoon(vs, e) ==
    \A i \in Leaving(vs) :
        vs[i].exit_epoch <= e + 1 + MAX_SEED_LOOKAHEAD + Cardinality(Leaving(vs))

Ordered(vs) ==
    \A i, j \in DOMAIN vs :
        Before(vs, i, j) => vs[i].activation_epoch <= vs[j].activation_epoch

ChurnLimitOf(S) ==
    Max({MIN_PER_EPOCH_CHURN_LIMIT, Cardinality(S) \div CHURN_LIMIT_QUOTIENT})

ExitsFit(vs) ==
    \A x \in ExitEpochs(vs) : Cardinality(ExitingAt(vs, x)) <= ChurnLimitOf(Activated(vs))

Sound(vs, el, ac, fin, e) ==
    /\ IsRegistry(vs)
    /\ \A i \in DOMAIN vs : Dated(vs[i], el, ac, fin)
    /\ ExitsSoon(vs, e)
    /\ Ordered(vs)
    /\ ExitsFit(vs)

\* What the exits and the slashings of epoch e do to a registry: activations are
\* settled, who leaves keeps its dates, and who joins the exit queue leaves after the
\* lookahead and no earlier than those in it.
Follows(old, new, e) ==
    /\ DOMAIN new = DOMAIN old
    /\ \A i \in DOMAIN old :
         /\ new[i].activation_epoch = old[i].activation_epoch
         /\ old[i].exit_epoch # FAR_FUTURE_EPOCH => new[i].exit_epoch = old[i].exit_epoch
         /\ old[i].exit_epoch = FAR_FUTURE_EPOCH =>
              /\ new[i].exit_epoch >= e + 1 + MAX_SEED_LOOKAHEAD
              /\ \A j \in Leaving(old) : new[i].exit_epoch >= old[j].exit_epoch

LEMMA RegistrySize ==
    ASSUME NEW vs, IsRegistry(vs)
    PROVE  /\ Cardinality(DOMAIN vs) \in 0..MaxValidators
           /\ DOMAIN vs = 0..Cardinality(DOMAIN vs) - 1
           /\ IsFiniteSet(DOMAIN vs)
           /\ vs \in [DOMAIN vs -> Validator]
<1>1. PICK n \in 0..MaxValidators : vs \in [0..n - 1 -> Validator]
  BY DEF IsRegistry
<1>2. MaxValidators \in Nat
  BY RegistryAssumption
<1>3. DOMAIN vs = 0..n - 1 /\ vs \in [DOMAIN vs -> Validator]
  BY <1>1
<1>4. IsFiniteSet(0..n - 1) /\ Cardinality(0..n - 1) = n
  BY <1>2, FS_Interval
<1> QED
  BY <1>1, <1>3, <1>4

LEMMA RegistryOfSize ==
    ASSUME NEW n \in 0..MaxValidators, NEW vs \in [0..n - 1 -> Validator]
    PROVE  IsRegistry(vs)
  BY DEF IsRegistry

LEMMA EntryTypes ==
    ASSUME NEW vs, IsRegistry(vs), NEW i \in DOMAIN vs
    PROVE  /\ vs[i] \in Validator
           /\ vs[i].effective_balance \in EffectiveBalances
           /\ vs[i].slashed \in BOOLEAN
           /\ vs[i].activation_eligibility_epoch \in Nat
           /\ vs[i].activation_epoch \in Nat
           /\ vs[i].exit_epoch \in Nat
           /\ vs[i].withdrawable_epoch \in Nat
<1>1. vs[i] \in Validator
  BY RegistrySize
<1> QED
  BY <1>1 DEF Validator

\* Two registries in which the same validators have the same dates of leaving.
LEMMA FiniteParts ==
    ASSUME NEW vs, IsRegistry(vs)
    PROVE  /\ IsFiniteSet(Leaving(vs)) /\ Cardinality(Leaving(vs)) \in 0..MaxValidators
           /\ IsFiniteSet(Activated(vs))
           /\ \A x : IsFiniteSet(ExitingAt(vs, x)) /\ Cardinality(ExitingAt(vs, x)) \in Nat
<1>1. IsFiniteSet(DOMAIN vs) /\ Cardinality(DOMAIN vs) \in 0..MaxValidators
  BY RegistrySize
<1>2. Leaving(vs) \in SUBSET DOMAIN vs /\ Activated(vs) \in SUBSET DOMAIN vs
  BY DEF Leaving, Activated
<1>3. \A x : ExitingAt(vs, x) \in SUBSET DOMAIN vs
  BY DEF ExitingAt
<1>4. \A T \in SUBSET DOMAIN vs :
         IsFiniteSet(T) /\ Cardinality(T) \in Nat /\ Cardinality(T) <= Cardinality(DOMAIN vs)
  BY <1>1, FS_Subset, FS_CardinalityType
<1>5. Cardinality(Leaving(vs)) \in 0..MaxValidators
  <2>1. Cardinality(Leaving(vs)) \in Nat /\ Cardinality(Leaving(vs)) <= Cardinality(DOMAIN vs)
    BY <1>2, <1>4
  <2> QED  BY <1>1, <2>1, RegistryAssumption
<1>6. ASSUME NEW x
      PROVE  IsFiniteSet(ExitingAt(vs, x)) /\ Cardinality(ExitingAt(vs, x)) \in Nat
  BY <1>3, <1>4
<1> QED
  BY <1>2, <1>4, <1>5, <1>6

-----------------------------------------------------------------------------
(* Leaving *)

\* Exit epochs are bounded, short of the far future.
LEMMA ExitsNear ==
    ASSUME NEW vs, IsRegistry(vs), NEW e \in 0..MaxEpoch, ExitsSoon(vs, e)
    PROVE  \A i \in Leaving(vs) : vs[i].exit_epoch < FAR_FUTURE_EPOCH
<1> TAKE i \in Leaving(vs)
<1>1. vs[i].exit_epoch <= e + 1 + MAX_SEED_LOOKAHEAD + Cardinality(Leaving(vs))
  BY DEF ExitsSoon
<1>2. Cardinality(Leaving(vs)) \in 0..MaxValidators
  BY FiniteParts
<1>3. vs[i].exit_epoch \in Nat
  BY EntryTypes DEF Leaving
<1> QED
  BY <1>1, <1>2, <1>3, RegistryAssumption

\* The epoch that the next one to leave is given.
LEMMA ExitGiven ==
    ASSUME NEW vs, IsRegistry(vs), NEW e \in Nat, NEW b \in Nat,
           e + 1 + MAX_SEED_LOOKAHEAD <= b, \A i \in Leaving(vs) : vs[i].exit_epoch <= b,
           b + 1 < FAR_FUTURE_EPOCH
    PROVE  LET x == ExitQueueEpoch(vs, e)
           IN  /\ x \in Nat
               /\ e + 1 + MAX_SEED_LOOKAHEAD <= x /\ x <= b + 1
               /\ \A i \in Leaving(vs) : x >= vs[i].exit_epoch
               /\ Cardinality(ExitingAt(vs, x)) + 1 <= get_validator_churn_limit(vs, e)
<1> DEFINE x == ExitQueueEpoch(vs, e)
           S == ExitEpochs(vs) \cup {compute_activation_exit_epoch(e)}
           last == Max(S)
           limit == get_validator_churn_limit(vs, e)
           churn == Cardinality(ExitingAt(vs, last))
<1>1. MAX_SEED_LOOKAHEAD \in Nat /\ FAR_FUTURE_EPOCH \in Nat
  BY RegistryAssumption
<1>2. /\ S \in SUBSET Nat /\ S # {}
      /\ \A y \in S : y <= b
      /\ e + 1 + MAX_SEED_LOOKAHEAD \in S
      /\ \A i \in Leaving(vs) : vs[i].exit_epoch \in S
  <2>1. compute_activation_exit_epoch(e) = e + 1 + MAX_SEED_LOOKAHEAD
    BY <1>1 DEF compute_activation_exit_epoch
  <2>2. ExitEpochs(vs) = {vs[i].exit_epoch : i \in Leaving(vs)}
    BY DEF ExitEpochs, Leaving
  <2>3. \A i \in Leaving(vs) : vs[i].exit_epoch \in Nat
    BY EntryTypes DEF Leaving
  <2> QED  BY <1>1, <2>1, <2>2, <2>3
<1>3. last \in S /\ \A y \in S : y <= last
  <2> HIDE DEF S
  <2> QED  BY <1>2, MaxOf
<1>4. /\ last \in Nat /\ last <= b
      /\ e + 1 + MAX_SEED_LOOKAHEAD <= last
      /\ \A i \in Leaving(vs) : vs[i].exit_epoch <= last
  BY <1>2, <1>3
<1>5. limit \in Nat \ {0}
  <2>1. get_active_validator_indices(vs, e) \in SUBSET DOMAIN vs
    BY DEF get_active_validator_indices
  <2> QED  BY <2>1, RegistrySize, LimitGrows DEF get_validator_churn_limit
<1>6. churn \in Nat
  BY FiniteParts
<1>7. x = IF churn >= limit THEN last + 1 ELSE last
  BY DEF ExitQueueEpoch
<1>8. ExitingAt(vs, last + 1) = {}
  <2> SUFFICES ASSUME NEW i \in DOMAIN vs, vs[i].exit_epoch = last + 1 PROVE FALSE
    BY DEF ExitingAt
  <2>1. i \in Leaving(vs)
    BY <1>1, <1>4 DEF Leaving
  <2> QED  BY <1>4, <2>1
<1>9. Cardinality(ExitingAt(vs, last + 1)) = 0
  BY <1>8, FS_EmptySet
<1>10. /\ x \in Nat
       /\ e + 1 + MAX_SEED_LOOKAHEAD <= x /\ x <= b + 1
       /\ \A i \in Leaving(vs) : x >= vs[i].exit_epoch
  <2> HIDE DEF last, x, limit, churn
  <2>1. x = last \/ x = last + 1
    BY <1>7
  <2>2. ASSUME NEW i \in Leaving(vs) PROVE x >= vs[i].exit_epoch
    <3>1. vs[i].exit_epoch <= last /\ vs[i].exit_epoch \in Nat
      BY <1>4, EntryTypes DEF Leaving
    <3> QED  BY <1>4, <2>1, <3>1
  <2> QED  BY <1>1, <1>4, <2>1, <2>2
<1>11. Cardinality(ExitingAt(vs, x)) + 1 <= limit
  <2>1. CASE churn >= limit
    <3>1. x = last + 1
      BY <1>7, <2>1
    <3>2. Cardinality(ExitingAt(vs, x)) = 0
      BY <1>9, <3>1
    <3> HIDE DEF x, limit
    <3> QED  BY <1>5, <3>2
  <2>2. CASE ~(churn >= limit)
    <3>1. x = last
      BY <1>7, <2>2
    <3>2. Cardinality(ExitingAt(vs, x)) = churn
      BY <3>1
    <3> HIDE DEF x, limit, churn
    <3> QED  BY <1>5, <1>6, <2>2, <3>2
  <2> QED  BY <2>1, <2>2
<1> QED
  BY <1>10, <1>11

-----------------------------------------------------------------------------

\* Registries that agree on the dates of the queues.
SameDates(old, new) ==
    /\ DOMAIN new = DOMAIN old
    /\ \A i \in DOMAIN old :
         /\ new[i].activation_eligibility_epoch = old[i].activation_eligibility_epoch
         /\ new[i].activation_epoch = old[i].activation_epoch
         /\ new[i].exit_epoch = old[i].exit_epoch

\* Who was slashed, and when the funds of those unlock, is settled.
FundsKept(old, new) ==
    \A i \in DOMAIN old :
        /\ new[i].slashed = old[i].slashed
        /\ old[i].slashed => new[i].withdrawable_epoch = old[i].withdrawable_epoch

LEMMA SameQueues ==
    ASSUME NEW old, NEW new, SameDates(old, new), NEW e
    PROVE  /\ ExitsSoon(old, e) => ExitsSoon(new, e)
           /\ Ordered(old) => Ordered(new)
           /\ ExitsFit(old) => ExitsFit(new)
<1>1. /\ Leaving(new) = Leaving(old)
      /\ Activated(new) = Activated(old)
      /\ \A x : ExitingAt(new, x) = ExitingAt(old, x)
  BY DEF SameDates, Leaving, Activated, ExitingAt
<1>2. ExitEpochs(new) = ExitEpochs(old)
  BY DEF SameDates, ExitEpochs
<1>3. \A i, j \in DOMAIN old : Before(new, i, j) <=> Before(old, i, j)
  BY DEF SameDates, Before
<1>4. ExitsSoon(old, e) => ExitsSoon(new, e)
  BY <1>1 DEF ExitsSoon, SameDates, Leaving
<1>5. Ordered(old) => Ordered(new)
  BY <1>3 DEF Ordered, SameDates
<1>6. ExitsFit(old) => ExitsFit(new)
  BY <1>1, <1>2 DEF ExitsFit
<1> QED
  BY <1>4, <1>5, <1>6

LEMMA FollowsItself ==
    ASSUME NEW vs, NEW e \in 0..MaxEpoch, IsRegistry(vs), ExitsSoon(vs, e)
    PROVE  Follows(vs, vs, e)
<1>1. \A j \in Leaving(vs) : vs[j].exit_epoch < FAR_FUTURE_EPOCH /\ vs[j].exit_epoch \in Nat
  BY ExitsNear, EntryTypes DEF Leaving
<1>2. \A j \in Leaving(vs) : FAR_FUTURE_EPOCH >= vs[j].exit_epoch
  BY <1>1, RegistryAssumption
<1>3. FAR_FUTURE_EPOCH >= e + 1 + MAX_SEED_LOOKAHEAD
  BY RegistryAssumption
<1> QED
  BY <1>2, <1>3 DEF Follows

\* A validator joins the exit queue.
LEMMA ExitKeeps ==
    ASSUME NEW vs, NEW el, NEW ac, NEW fin, NEW e \in 0..MaxEpoch,
           Sound(vs, el, ac, fin, e), NEW i \in DOMAIN vs, vs[i].activation_epoch <= e
    PROVE  /\ Sound(InitiateValidatorExit(vs, i, e), el, ac, fin, e)
           /\ Follows(vs, InitiateValidatorExit(vs, i, e), e)
           /\ FundsKept(vs, InitiateValidatorExit(vs, i, e))
           /\ InitiateValidatorExit(vs, i, e)[i].exit_epoch # FAR_FUTURE_EPOCH
<1> DEFINE new == InitiateValidatorExit(vs, i, e)
           x == ExitQueueEpoch(vs, e)
           val == [vs[i] EXCEPT
                     !.exit_epoch = x,
                     !.withdrawable_epoch = x + MIN_VALIDATOR_WITHDRAWABILITY_DELAY]
           size == Cardinality(Leaving(vs))
           b == e + 1 + MAX_SEED_LOOKAHEAD + size
<1>1. IsRegistry(vs) /\ ExitsSoon(vs, e)
  BY DEF Sound
<1>2. CASE vs[i].exit_epoch # FAR_FUTURE_EPOCH
  <2>1. new = vs
    BY <1>2 DEF InitiateValidatorExit
  <2> QED  BY <1>1, <1>2, <2>1, FollowsItself DEF FundsKept
<1>3. CASE vs[i].exit_epoch = FAR_FUTURE_EPOCH
  <2>1. /\ IsFiniteSet(Leaving(vs)) /\ size \in 0..MaxValidators
        /\ i \notin Leaving(vs)
        /\ Cardinality(Leaving(vs) \cup {i}) = size + 1
    <3>1. i \notin Leaving(vs)
      BY <1>3 DEF Leaving
    <3> QED  BY <1>1, <3>1, FiniteParts, FS_AddElement
  <2>2. size + 1 <= MaxValidators
    <3>1. Leaving(vs) \cup {i} \in SUBSET DOMAIN vs
      BY DEF Leaving
    <3>2. Cardinality(Leaving(vs) \cup {i}) <= Cardinality(DOMAIN vs)
      BY <1>1, <3>1, RegistrySize, FS_Subset
    <3>3. Cardinality(DOMAIN vs) \in 0..MaxValidators
      BY <1>1, RegistrySize
    <3> QED  BY <2>1, <3>2, <3>3, RegistryAssumption
  <2>3. /\ b \in Nat /\ e \in Nat /\ e + 1 + MAX_SEED_LOOKAHEAD <= b
        /\ \A j \in Leaving(vs) : vs[j].exit_epoch <= b
        /\ b + 1 < FAR_FUTURE_EPOCH
    BY <1>1, <2>1, <2>2, RegistryAssumption DEF ExitsSoon
  <2>4. /\ x \in Nat
        /\ e + 1 + MAX_SEED_LOOKAHEAD <= x /\ x <= b + 1
        /\ \A j \in Leaving(vs) : x >= vs[j].exit_epoch
        /\ Cardinality(ExitingAt(vs, x)) + 1 <= get_validator_churn_limit(vs, e)
    <3> HIDE DEF b, x
    <3> QED  BY <1>1, <2>3, ExitGiven DEF x
  <2>5. new = [j \in DOMAIN vs |-> IF j = i THEN val ELSE vs[j]]
    <3>1. /\ new = [vs EXCEPT
                      ![i].exit_epoch = x,
                      ![i].withdrawable_epoch = x + MIN_VALIDATOR_WITHDRAWABILITY_DELAY]
          /\ vs \in [DOMAIN vs -> Validator]
      BY <1>1, <1>3, RegistrySize DEF InitiateValidatorExit
    <3> HIDE DEF new, x
    <3> QED  BY <3>1 DEF Validator
  <2>6. MIN_VALIDATOR_WITHDRAWABILITY_DELAY \in Nat /\ FAR_FUTURE_EPOCH \in Nat
    BY RegistryAssumption
  <2>7. vs[i] \in Validator /\ \A j \in DOMAIN vs : vs[j].exit_epoch \in Nat
    BY <1>1, EntryTypes
  <2> HIDE DEF new, x
  <2>8. /\ val \in Validator
        /\ val.activation_eligibility_epoch = vs[i].activation_eligibility_epoch
        /\ val.activation_epoch = vs[i].activation_epoch
        /\ val.slashed = vs[i].slashed
        /\ val.exit_epoch = x
        /\ val.withdrawable_epoch = x + MIN_VALIDATOR_WITHDRAWABILITY_DELAY
    <3> DEFINE w == x + MIN_VALIDATOR_WITHDRAWABILITY_DELAY
    <3>1. w \in Nat
      BY <2>4, <2>6
    <3> HIDE DEF w
    <3>2. val = [vs[i] EXCEPT !.exit_epoch = x, !.withdrawable_epoch = w]
      BY DEF w
    <3> HIDE DEF val
    <3>3. /\ val \in Validator
          /\ val.activation_eligibility_epoch = vs[i].activation_eligibility_epoch
          /\ val.activation_epoch = vs[i].activation_epoch
          /\ val.slashed = vs[i].slashed
          /\ val.exit_epoch = x
          /\ val.withdrawable_epoch = w
      <4>1. vs[i] \in Validator /\ x \in Nat
        BY <2>4, <2>7
      <4> QED  BY <3>1, <3>2, <4>1 DEF Validator
    <3> QED  BY <3>3 DEF w
  <2> HIDE DEF val
  <2>9. /\ DOMAIN new = DOMAIN vs
        /\ new[i] = val
        /\ \A j \in DOMAIN vs : j # i => new[j] = vs[j]
        /\ \A j \in DOMAIN vs :
             /\ new[j].activation_eligibility_epoch = vs[j].activation_eligibility_epoch
             /\ new[j].activation_epoch = vs[j].activation_epoch
    BY <2>5, <2>8
  <2>10. x # FAR_FUTURE_EPOCH /\ x \in Nat
    BY <2>3, <2>4, <2>6
  <2>11. Leaving(new) = Leaving(vs) \cup {i} /\ Activated(new) = Activated(vs)
    BY <2>8, <2>9, <2>10 DEF Leaving, Activated
  <2>12. IsRegistry(new)
    <3>1. PICK n \in 0..MaxValidators : vs \in [0..n - 1 -> Validator]
      BY <1>1 DEF IsRegistry
    <3>2. new \in [0..n - 1 -> Validator]
      BY <2>5, <2>8, <3>1
    <3> QED  BY <3>2, RegistryOfSize
  <2>13. ASSUME NEW j \in DOMAIN new PROVE Dated(new[j], el, ac, fin)
    <3>1. Dated(vs[j], el, ac, fin)
      BY <2>9 DEF Sound
    <3>2. CASE j = i
      <4>1. vs[i].activation_epoch < x
        <5>1. vs[i].activation_epoch \in Nat
          BY <2>7 DEF Validator
        <5> QED  BY <2>4, <5>1, RegistryAssumption
      <4> QED  BY <1>3, <2>6, <2>8, <2>9, <2>10, <3>1, <3>2, <4>1 DEF Dated
    <3>3. CASE j # i
      BY <2>9, <3>1, <3>3
    <3> QED  BY <3>2, <3>3
  <2>14. ExitsSoon(new, e)
    <3> SUFFICES ASSUME NEW j \in Leaving(new)
                 PROVE  new[j].exit_epoch <= e + 1 + MAX_SEED_LOOKAHEAD + (size + 1)
      BY <2>1, <2>11 DEF ExitsSoon
    <3>1. CASE j = i
      BY <2>1, <2>4, <2>8, <2>9, <3>1, RegistryAssumption
    <3>2. CASE j # i
      <4>1. j \in Leaving(vs) /\ new[j] = vs[j] /\ vs[j].exit_epoch \in Nat
        BY <2>7, <2>9, <2>11, <3>2 DEF Leaving
      <4>2. vs[j].exit_epoch <= b
        BY <2>3, <4>1
      <4> QED  BY <2>1, <4>1, <4>2, RegistryAssumption
    <3> QED  BY <3>1, <3>2
  <2>15. Ordered(new)
    <3>1. Ordered(vs)
      BY DEF Sound
    <3>2. \A j, k \in DOMAIN vs : Before(new, j, k) <=> Before(vs, j, k)
      BY <2>9 DEF Before
    <3> QED  BY <2>9, <3>1, <3>2 DEF Ordered
  <2>16. ExitsFit(new)
    <3> SUFFICES ASSUME NEW y \in ExitEpochs(new)
                 PROVE  Cardinality(ExitingAt(new, y)) <= ChurnLimitOf(Activated(vs))
      BY <2>11 DEF ExitsFit
    <3>1. CASE y = x
      <4>1. ExitingAt(new, x) = ExitingAt(vs, x) \cup {i} /\ i \notin ExitingAt(vs, x)
        BY <1>3, <2>8, <2>9, <2>10 DEF ExitingAt
      <4>2. /\ Cardinality(ExitingAt(new, x)) = Cardinality(ExitingAt(vs, x)) + 1
            /\ Cardinality(ExitingAt(vs, x)) \in Nat
        BY <1>1, <4>1, FiniteParts, FS_AddElement
      <4> DEFINE active == get_active_validator_indices(vs, e)
      <4>3. active \in SUBSET Activated(vs) /\ IsFiniteSet(Activated(vs))
        <5>1. \A j \in DOMAIN vs : vs[j].activation_epoch <= e =>
                  vs[j].activation_epoch # FAR_FUTURE_EPOCH
          BY RegistryAssumption
        <5> QED  BY <1>1, <5>1, FiniteParts
                 DEF get_active_validator_indices, is_active_validator, Activated
      <4>4. /\ get_validator_churn_limit(vs, e) = ChurnLimitOf(active)
            /\ ChurnLimitOf(active) \in Nat /\ ChurnLimitOf(Activated(vs)) \in Nat
            /\ ChurnLimitOf(active) <= ChurnLimitOf(Activated(vs))
        BY <4>3, LimitGrows DEF get_validator_churn_limit, ChurnLimitOf
      <4> QED  BY <2>4, <3>1, <4>2, <4>4
    <3>2. CASE y # x
      <4>1. y # FAR_FUTURE_EPOCH
        BY DEF ExitEpochs
      <4>2. y \in ExitEpochs(vs)
        BY <2>8, <2>9, <3>2, <4>1 DEF ExitEpochs
      <4>3. ExitingAt(new, y) = ExitingAt(vs, y)
        BY <1>3, <2>8, <2>9, <3>2, <4>1 DEF ExitingAt
      <4> QED  BY <4>2, <4>3 DEF Sound, ExitsFit
    <3> QED  BY <3>1, <3>2
  <2>17. Follows(vs, new, e)
    <3>1. Follows(vs, vs, e)
      BY <1>1, FollowsItself
    <3>2. x >= e + 1 + MAX_SEED_LOOKAHEAD
      BY <2>4, RegistryAssumption
    <3>3. ASSUME NEW j \in DOMAIN vs
          PROVE  /\ new[j].activation_epoch = vs[j].activation_epoch
                 /\ vs[j].exit_epoch # FAR_FUTURE_EPOCH => new[j].exit_epoch = vs[j].exit_epoch
                 /\ vs[j].exit_epoch = FAR_FUTURE_EPOCH =>
                      /\ new[j].exit_epoch >= e + 1 + MAX_SEED_LOOKAHEAD
                      /\ \A k \in Leaving(vs) : new[j].exit_epoch >= vs[k].exit_epoch
      <4>1. CASE j = i
        BY <1>3, <2>4, <2>8, <2>9, <3>2, <4>1
      <4>2. CASE j # i
        BY <2>9, <3>1, <4>2 DEF Follows
      <4> QED  BY <4>1, <4>2
    <3> QED  BY <2>9, <3>3 DEF Follows
  <2>18. FundsKept(vs, new)
    <3>1. ~vs[i].slashed
      BY <1>3 DEF Sound, Dated
    <3> QED  BY <2>8, <2>9, <3>1 DEF FundsKept
  <2>19. new[i].exit_epoch # FAR_FUTURE_EPOCH
    BY <2>8, <2>9, <2>10
  <2> QED  BY <2>12, <2>13, <2>14, <2>15, <2>16, <2>17, <2>18, <2>19 DEF Sound, new
<1> QED
  BY <1>2, <1>3

-----------------------------------------------------------------------------
(* ProcessEligibilityAndEjection, for each validator in turn *)

LEMMA FollowsOn ==
    ASSUME NEW a, NEW b, NEW c, NEW e, Follows(a, b, e), Follows(b, c, e)
    PROVE  Follows(a, c, e)
<1>1. DOMAIN b = DOMAIN a /\ DOMAIN c = DOMAIN a
  BY DEF Follows
<1>2. \A j \in Leaving(a) : j \in Leaving(b) /\ b[j].exit_epoch = a[j].exit_epoch
  BY <1>1 DEF Leaving, Follows
<1>3. ASSUME NEW i \in DOMAIN a
      PROVE  /\ c[i].activation_epoch = a[i].activation_epoch
             /\ a[i].exit_epoch # FAR_FUTURE_EPOCH => c[i].exit_epoch = a[i].exit_epoch
             /\ a[i].exit_epoch = FAR_FUTURE_EPOCH =>
                  /\ c[i].exit_epoch >= e + 1 + MAX_SEED_LOOKAHEAD
                  /\ \A j \in Leaving(a) : c[i].exit_epoch >= a[j].exit_epoch
  <2>1. CASE b[i].exit_epoch = FAR_FUTURE_EPOCH
    BY <1>1, <1>2, <2>1 DEF Follows
  <2>2. CASE b[i].exit_epoch # FAR_FUTURE_EPOCH
    BY <1>1, <1>2, <2>2 DEF Follows
  <2> QED  BY <2>1, <2>2
<1> QED
  BY <1>1, <1>3 DEF Follows

LEMMA FundsKeptOn ==
    ASSUME NEW a, NEW b, NEW c, DOMAIN b = DOMAIN a, FundsKept(a, b), FundsKept(b, c)
    PROVE  FundsKept(a, c)
  BY DEF FundsKept

\* A validator enters the activation queue.
LEMMA QueueKeeps ==
    ASSUME NEW vs, NEW ac \in 0..FAR_FUTURE_EPOCH - 1,
           NEW e \in 0..MaxEpoch, NEW fin \in 0..e,
           Sound(vs, e + 1, ac, fin, e), NEW i \in DOMAIN vs,
           vs[i].activation_eligibility_epoch = FAR_FUTURE_EPOCH
    PROVE  LET new == [vs EXCEPT ![i].activation_eligibility_epoch = e + 1]
           IN  /\ Sound(new, e + 1, ac, fin, e)
               /\ Follows(vs, new, e)
               /\ FundsKept(vs, new)
<1> DEFINE new == [vs EXCEPT ![i].activation_eligibility_epoch = e + 1]
           val == [vs[i] EXCEPT !.activation_eligibility_epoch = e + 1]
<1>1. IsRegistry(vs) /\ ExitsSoon(vs, e) /\ Ordered(vs) /\ ExitsFit(vs)
  BY DEF Sound
<1>2. new = [j \in DOMAIN vs |-> IF j = i THEN val ELSE vs[j]]
  <2>1. vs \in [DOMAIN vs -> Validator]
    BY <1>1, RegistrySize
  <2> QED  BY <2>1
<1>3. /\ val \in Validator
      /\ val.activation_eligibility_epoch = e + 1
      /\ val.activation_epoch = vs[i].activation_epoch
      /\ val.slashed = vs[i].slashed
      /\ val.exit_epoch = vs[i].exit_epoch
      /\ val.withdrawable_epoch = vs[i].withdrawable_epoch
  <2>1. vs[i] \in Validator /\ e + 1 \in Nat
    BY <1>1, EntryTypes
  <2> QED  BY <2>1 DEF Validator
<1> HIDE DEF new, val
<1>4. /\ DOMAIN new = DOMAIN vs
      /\ new[i] = val
      /\ \A j \in DOMAIN vs : j # i => new[j] = vs[j]
      /\ \A j \in DOMAIN vs :
           /\ new[j].activation_epoch = vs[j].activation_epoch
           /\ new[j].exit_epoch = vs[j].exit_epoch
           /\ new[j].slashed = vs[j].slashed
           /\ new[j].withdrawable_epoch = vs[j].withdrawable_epoch
  BY <1>2, <1>3
<1>5. vs[i].activation_epoch = FAR_FUTURE_EPOCH
  <2>1. Dated(vs[i], e + 1, ac, fin)
    BY DEF Sound
  <2>2. ~(FAR_FUTURE_EPOCH <= fin)
    BY RegistryAssumption
  <2> QED  BY <2>1, <2>2 DEF Dated
<1>6. IsRegistry(new)
  <2>1. PICK n \in 0..MaxValidators : vs \in [0..n - 1 -> Validator]
    BY <1>1 DEF IsRegistry
  <2>2. new \in [0..n - 1 -> Validator]
    BY <1>2, <1>3, <2>1
  <2> QED  BY <2>2, RegistryOfSize
<1>7. ASSUME NEW j \in DOMAIN new PROVE Dated(new[j], e + 1, ac, fin)
  <2>1. Dated(vs[j], e + 1, ac, fin)
    BY <1>4 DEF Sound
  <2>2. CASE j = i
    <3>1. e + 1 \in Epochs(e + 1)
      BY DEF Epochs
    <3> QED  BY <1>3, <1>4, <1>5, <2>1, <2>2, <3>1 DEF Dated
  <2>3. CASE j # i
    BY <1>4, <2>1, <2>3
  <2> QED  BY <2>2, <2>3
<1>8. ExitsSoon(new, e) /\ ExitsFit(new)
  <2>1. /\ Leaving(new) = Leaving(vs)
        /\ Activated(new) = Activated(vs)
        /\ \A x : ExitingAt(new, x) = ExitingAt(vs, x)
    BY <1>4 DEF Leaving, Activated, ExitingAt
  <2>2. ExitEpochs(new) = ExitEpochs(vs)
    BY <1>4 DEF ExitEpochs
  <2>3. ExitsSoon(new, e)
    BY <1>1, <1>4, <2>1 DEF ExitsSoon, Leaving
  <2>4. ExitsFit(new)
    BY <1>1, <2>1, <2>2 DEF ExitsFit
  <2> QED  BY <2>3, <2>4
<1>9. Ordered(new)
  <2> SUFFICES ASSUME NEW j \in DOMAIN vs, NEW k \in DOMAIN vs, Before(new, j, k)
               PROVE  vs[j].activation_epoch <= vs[k].activation_epoch
    BY <1>4 DEF Ordered
  <2>1. /\ vs[j].activation_epoch \in Nat /\ vs[k].activation_epoch \in Nat
        /\ vs[j].activation_epoch <= FAR_FUTURE_EPOCH
        /\ vs[k].activation_eligibility_epoch \in Nat
    <3>1. vs[j].activation_epoch \in Epochs(ac)
      BY DEF Sound, Dated
    <3>2. vs[j].activation_epoch \in Nat /\ vs[k].activation_epoch \in Nat
      BY <1>1, EntryTypes
    <3>3. vs[j].activation_epoch <= FAR_FUTURE_EPOCH
      BY <3>1, RegistryAssumption DEF Epochs
    <3> QED  BY <1>1, <3>2, <3>3, EntryTypes
  <2>2. CASE k = i
    BY <1>5, <2>1, <2>2
  <2>3. CASE k # i /\ j = i
    <3>1. vs[k].activation_eligibility_epoch >= e + 1
      BY <1>3, <1>4, <2>1, <2>3 DEF Before
    <3>2. vs[k].activation_epoch = FAR_FUTURE_EPOCH
      <4>1. Dated(vs[k], e + 1, ac, fin)
        BY DEF Sound
      <4>2. ~(vs[k].activation_eligibility_epoch <= fin)
        BY <2>1, <3>1
      <4> QED  BY <4>1, <4>2 DEF Dated
    <3> QED  BY <2>1, <3>2
  <2>4. CASE k # i /\ j # i
    BY <1>1, <1>4, <2>4 DEF Before, Ordered
  <2> QED  BY <2>2, <2>3, <2>4
<1>10. Follows(vs, new, e)
  BY <1>1, <1>4, FollowsItself DEF Follows
<1>11. FundsKept(vs, new)
  BY <1>4 DEF FundsKept
<1> QED
  BY <1>6, <1>7, <1>8, <1>9, <1>10, <1>11 DEF Sound, new
LEMMA ValidatorKeeps ==
    ASSUME NEW vs, NEW ac \in 0..FAR_FUTURE_EPOCH - 1,
           NEW e \in 0..MaxEpoch, NEW fin \in 0..e,
           Sound(vs, e + 1, ac, fin, e), NEW i \in DOMAIN vs
    PROVE  LET new == ProcessEligibilityAndEjection(vs, i, e)
           IN  /\ Sound(new, e + 1, ac, fin, e)
               /\ Follows(vs, new, e)
               /\ FundsKept(vs, new)
<1> DEFINE new == ProcessEligibilityAndEjection(vs, i, e)
           queued == IF is_eligible_for_activation_queue(vs[i])
                     THEN [vs EXCEPT ![i].activation_eligibility_epoch = e + 1]
                     ELSE vs
<1>1. /\ Sound(queued, e + 1, ac, fin, e)
      /\ Follows(vs, queued, e)
      /\ FundsKept(vs, queued)
  <2>1. CASE is_eligible_for_activation_queue(vs[i])
    <3>1. vs[i].activation_eligibility_epoch = FAR_FUTURE_EPOCH
      BY <2>1 DEF is_eligible_for_activation_queue
    <3>2. queued = [vs EXCEPT ![i].activation_eligibility_epoch = e + 1]
      BY <2>1
    <3> HIDE DEF queued
    <3> QED  BY <3>1, <3>2, QueueKeeps
  <2>2. CASE ~is_eligible_for_activation_queue(vs[i])
    <3>1. queued = vs
      BY <2>2
    <3>2. Follows(vs, vs, e)
      BY FollowsItself DEF Sound
    <3>3. FundsKept(vs, vs)
      BY DEF FundsKept
    <3> HIDE DEF queued
    <3> QED  BY <3>1, <3>2, <3>3
  <2> QED  BY <2>1, <2>2
<1>2. new = IF IsToBeEjected(vs[i], e) THEN InitiateValidatorExit(queued, i, e) ELSE queued
  BY DEF ProcessEligibilityAndEjection
<1> HIDE DEF queued, new
<1>3. DOMAIN queued = DOMAIN vs /\ queued[i].activation_epoch = vs[i].activation_epoch
  BY <1>1 DEF Follows
<1>4. CASE IsToBeEjected(vs[i], e)
  <2>1. queued[i].activation_epoch <= e
    BY <1>3, <1>4 DEF IsToBeEjected, is_active_validator
  <2>2. /\ Sound(new, e + 1, ac, fin, e)
        /\ Follows(queued, new, e)
        /\ FundsKept(queued, new)
    BY <1>1, <1>2, <1>3, <1>4, <2>1, ExitKeeps
  <2> QED  BY <1>1, <1>3, <2>2, FollowsOn, FundsKeptOn DEF new
<1>5. CASE ~IsToBeEjected(vs[i], e)
  BY <1>1, <1>2, <1>5 DEF new
<1> QED
  BY <1>4, <1>5

\* The registry after each of the first n validators.
IsAfter(f, vs, e, n) ==
    f = [k \in 0..n |-> IF k = 0 THEN vs ELSE ProcessEligibilityAndEjection(f[k - 1], k - 1, e)]

LEMMA AfterExists ==
    ASSUME NEW vs, NEW e
    PROVE  \A n \in Nat : \E f : IsAfter(f, vs, e, n)
<1> DEFINE S == {n \in Nat : \E f : IsAfter(f, vs, e, n)}
<1>1. 0 \in S
  <2> DEFINE f == [k \in 0..0 |-> vs]
  <2>1. IsAfter(f, vs, e, 0)
    BY DEF IsAfter
  <2> QED  BY <2>1
<1>2. ASSUME NEW n \in Nat, n \in S PROVE n + 1 \in S
  <2>1. PICK f : IsAfter(f, vs, e, n)
    BY <1>2
  <2> DEFINE g == [k \in 0..n + 1 |-> IF k = n + 1
                                      THEN ProcessEligibilityAndEjection(f[n], n, e)
                                      ELSE f[k]]
  <2>2. \A k \in 0..n :
           f[k] = IF k = 0 THEN vs ELSE ProcessEligibilityAndEjection(f[k - 1], k - 1, e)
    BY <2>1 DEF IsAfter
  <2>3. ASSUME NEW k \in 0..n + 1
        PROVE  g[k] = IF k = 0 THEN vs ELSE ProcessEligibilityAndEjection(g[k - 1], k - 1, e)
    <3>1. CASE k = n + 1
      BY <3>1
    <3>2. CASE k \in 0..n
      BY <2>2, <3>2
    <3> QED  BY <3>1, <3>2
  <2>4. g = [k \in 0..n + 1 |-> g[k]]
    OBVIOUS
  <2> HIDE DEF g
  <2>5. IsAfter(g, vs, e, n + 1)
    BY <2>3, <2>4 DEF IsAfter
  <2> QED  BY <2>5
<1>3. Nat \subseteq S
  <2> HIDE DEF S
  <2> QED  BY <1>1, <1>2, SetInduction
<1> QED
  BY <1>3

\* All validators of the registry.
LEMMA AllKeep ==
    ASSUME NEW vs, NEW ac \in 0..FAR_FUTURE_EPOCH - 1,
           NEW e \in 0..MaxEpoch, NEW fin \in 0..e, Sound(vs, e + 1, ac, fin, e)
    PROVE  LET new == ProcessEligibilityAndEjection_over_vids(vs, e)
           IN  /\ Sound(new, e + 1, ac, fin, e)
               /\ Follows(vs, new, e)
               /\ FundsKept(vs, new)
<1> DEFINE n == Cardinality(DOMAIN vs)
           after == CHOOSE f : IsAfter(f, vs, e, n)
           Kept(new) == Sound(new, e + 1, ac, fin, e) /\ Follows(vs, new, e) /\ FundsKept(vs, new)
<1>1. IsRegistry(vs) /\ n \in 0..MaxValidators /\ n \in Nat /\ DOMAIN vs = 0..n - 1
  BY RegistrySize, RegistryAssumption DEF Sound
<1>2. IsAfter(after, vs, e, n)
  <2> HIDE DEF n
  <2> QED  BY <1>1, AfterExists
<1>3. ProcessEligibilityAndEjection_over_vids(vs, e) = after[n]
  BY DEF ProcessEligibilityAndEjection_over_vids, IsAfter
<1>4. PICK f : f = after
  OBVIOUS
<1> HIDE DEF after, n
<1>5. \A k \in 0..n :
         f[k] = IF k = 0 THEN vs ELSE ProcessEligibilityAndEjection(f[k - 1], k - 1, e)
  BY <1>2, <1>4 DEF IsAfter
<1> DEFINE S == {k \in Nat : k <= n => Kept(f[k])}
<1>6. 0 \in S
  <2>1. f[0] = vs
    BY <1>1, <1>5
  <2>2. Kept(vs)
    BY FollowsItself DEF Sound, FundsKept
  <2> QED  BY <2>1, <2>2
<1>7. ASSUME NEW k \in Nat, k \in S PROVE k + 1 \in S
  <2> SUFFICES ASSUME k + 1 <= n PROVE Kept(f[k + 1])
    OBVIOUS
  <2>1. Kept(f[k])
    BY <1>1, <1>7
  <2>2. f[k + 1] = ProcessEligibilityAndEjection(f[k], k, e)
    <3>1. k + 1 \in 0..n /\ k + 1 # 0 /\ k + 1 - 1 = k
      BY <1>1
    <3> QED  BY <1>5, <3>1
  <2>3. DOMAIN f[k] = DOMAIN vs /\ k \in DOMAIN f[k]
    BY <1>1, <2>1 DEF Follows
  <2> DEFINE new == ProcessEligibilityAndEjection(f[k], k, e)
  <2>4. Sound(new, e + 1, ac, fin, e) /\ Follows(f[k], new, e) /\ FundsKept(f[k], new)
    BY <2>1, <2>3, ValidatorKeeps
  <2> HIDE DEF new
  <2>5. Follows(vs, new, e) /\ FundsKept(vs, new)
    BY <2>1, <2>3, <2>4, FollowsOn, FundsKeptOn
  <2> QED  BY <2>2, <2>4, <2>5 DEF new
<1>8. Nat \subseteq S
  <2> HIDE DEF S
  <2> QED  BY <1>6, <1>7, SetInduction
<1>9. Kept(f[n])
  BY <1>1, <1>8
<1> QED
  BY <1>3, <1>4, <1>9

-----------------------------------------------------------------------------
(* The activation queue *)

LEMMA BeforeOrders ==
    ASSUME NEW vs, IsRegistry(vs), NEW i \in DOMAIN vs, NEW j \in DOMAIN vs, NEW k \in DOMAIN vs
    PROVE  /\ ~Before(vs, i, i)
           /\ Before(vs, i, j) \/ Before(vs, j, i) \/ i = j
           /\ Before(vs, i, j) /\ Before(vs, j, k) => Before(vs, i, k)
           /\ i \in Nat
<1>1. i \in Nat /\ j \in Nat /\ k \in Nat
  BY RegistrySize
<1>2. /\ vs[i].activation_eligibility_epoch \in Nat
      /\ vs[j].activation_eligibility_epoch \in Nat
      /\ vs[k].activation_eligibility_epoch \in Nat
  BY EntryTypes
<1> QED
  BY <1>1, <1>2 DEF Before

\* The part of the queue that is before one of its validators.
Ahead(vs, queue, i) == {j \in queue : Before(vs, j, i)}

LEMMA AheadGrows ==
    ASSUME NEW vs, IsRegistry(vs), NEW queue \in SUBSET DOMAIN vs,
           NEW i \in queue, NEW j \in DOMAIN vs, Before(vs, i, j)
    PROVE  /\ Cardinality(Ahead(vs, queue, i)) \in Nat
           /\ Cardinality(Ahead(vs, queue, j)) \in Nat
           /\ Cardinality(Ahead(vs, queue, i)) < Cardinality(Ahead(vs, queue, j))
<1>1. IsFiniteSet(Ahead(vs, queue, j)) /\ IsFiniteSet(Ahead(vs, queue, i))
  <2>1. Ahead(vs, queue, j) \in SUBSET DOMAIN vs /\ Ahead(vs, queue, i) \in SUBSET DOMAIN vs
    BY DEF Ahead
  <2> QED  BY <2>1, RegistrySize, FS_Subset
<1>2. /\ Ahead(vs, queue, i) \cup {i} \in SUBSET Ahead(vs, queue, j)
      /\ i \notin Ahead(vs, queue, i)
  BY BeforeOrders DEF Ahead
<1>3. Cardinality(Ahead(vs, queue, i) \cup {i}) = Cardinality(Ahead(vs, queue, i)) + 1
  BY <1>1, <1>2, FS_AddElement
<1>4. Cardinality(Ahead(vs, queue, i) \cup {i}) <= Cardinality(Ahead(vs, queue, j))
  BY <1>1, <1>2, FS_Subset
<1>5. Cardinality(Ahead(vs, queue, i)) \in Nat /\ Cardinality(Ahead(vs, queue, j)) \in Nat
  BY <1>1, FS_CardinalityType
<1> QED
  BY <1>3, <1>4, <1>5

\* The prefix is as long as the limit allows, at most.
LEMMA PrefixFits ==
    ASSUME NEW vs, IsRegistry(vs), NEW queue \in SUBSET DOMAIN vs, NEW limit \in Nat
    PROVE  /\ Cardinality(Dequeued(vs, queue, limit)) \in Nat
           /\ Cardinality(Dequeued(vs, queue, limit)) <= limit
<1> DEFINE taken == Dequeued(vs, queue, limit)
           position(i) == Cardinality(Ahead(vs, queue, i))
           P == {position(i) : i \in taken}
<1>1. /\ taken \in SUBSET queue
      /\ \A i \in taken : position(i) < limit
  BY DEF Dequeued, Ahead
<1>2. IsFiniteSet(taken) /\ Cardinality(taken) \in Nat
  <2>1. taken \in SUBSET DOMAIN vs
    BY <1>1
  <2> QED  BY <2>1, RegistrySize, FS_Subset, FS_CardinalityType
<1>3. ASSUME NEW i \in DOMAIN vs
      PROVE  position(i) \in Nat /\ IsFiniteSet(Ahead(vs, queue, i))
  <2>1. Ahead(vs, queue, i) \in SUBSET DOMAIN vs
    BY DEF Ahead
  <2> QED  BY <2>1, RegistrySize, FS_Subset, FS_CardinalityType
<1> HIDE DEF taken
<1>4. CASE taken = {}
  BY <1>2, <1>4, FS_EmptySet DEF taken
<1>5. CASE taken # {}
  <2>1. P \in SUBSET Nat /\ P # {} /\ \A p \in P : p <= limit
    <3>1. \A i \in taken : position(i) \in Nat /\ position(i) <= limit
      <4> TAKE i \in taken
      <4>1. position(i) \in Nat /\ position(i) < limit
        BY <1>1, <1>3
      <4> HIDE DEF position
      <4> QED  BY <4>1
    <3> HIDE DEF position
    <3> QED  BY <1>5, <3>1
  <2>2. Max(P) \in P /\ \A p \in P : p <= Max(P)
    <3> HIDE DEF P
    <3> QED  BY <2>1, MaxOf
  <2>3. PICK m \in taken : position(m) = Max(P)
    BY <2>2
  <2>4. ASSUME NEW i \in taken PROVE position(i) <= position(m)
    BY <2>2, <2>3
  <2>5. taken \ {m} \in SUBSET Ahead(vs, queue, m)
    <3> SUFFICES ASSUME NEW i \in taken, i # m PROVE Before(vs, i, m)
      BY <1>1 DEF Ahead
    <3>1. i \in DOMAIN vs /\ m \in DOMAIN vs /\ i \in queue /\ m \in queue
      BY <1>1
    <3>2. ~Before(vs, m, i)
      <4> SUFFICES ASSUME Before(vs, m, i) PROVE FALSE
        OBVIOUS
      <4>1. position(m) < position(i) /\ position(m) \in Nat /\ position(i) \in Nat
        BY <3>1, AheadGrows
      <4>2. position(i) <= position(m)
        BY <2>4
      <4> HIDE DEF position
      <4> QED  BY <4>1, <4>2
    <3> QED  BY <3>1, <3>2, BeforeOrders
  <2>6. Cardinality(taken \ {m}) = Cardinality(taken) - 1
    BY <1>2, FS_RemoveElement
  <2>7. Cardinality(taken \ {m}) <= position(m)
    BY <1>1, <1>3, <2>5, FS_Subset
  <2>8. position(m) \in Nat /\ position(m) < limit
    BY <1>1, <1>3
  <2> HIDE DEF position
  <2> QED  BY <1>2, <2>6, <2>7, <2>8 DEF taken
<1> QED
  BY <1>4, <1>5

\* Who is taken from the queue, and what it is given.
LEMMA ActivationsSay ==
    ASSUME NEW vs, IsRegistry(vs), NEW fin, NEW limit, NEW e \in 0..MaxEpoch
    PROVE  LET taken == Dequeued(vs, ActivationQueue(vs, fin), limit)
               new   == ApplyActivations(vs, taken, e)
           IN  /\ taken \in SUBSET ActivationQueue(vs, fin)
               /\ \A i \in taken : /\ vs[i].activation_epoch = FAR_FUTURE_EPOCH
                                   /\ vs[i].activation_eligibility_epoch <= fin
                                   /\ new[i].activation_epoch = e + 1 + MAX_SEED_LOOKAHEAD
               /\ \A i \in DOMAIN vs \ taken : new[i] = vs[i]
               /\ IsRegistry(new) /\ DOMAIN new = DOMAIN vs
               /\ \A i \in DOMAIN vs :
                    /\ new[i].activation_eligibility_epoch = vs[i].activation_eligibility_epoch
                    /\ new[i].slashed = vs[i].slashed
                    /\ new[i].exit_epoch = vs[i].exit_epoch
                    /\ new[i].withdrawable_epoch = vs[i].withdrawable_epoch
<1> DEFINE taken == Dequeued(vs, ActivationQueue(vs, fin), limit)
           new   == ApplyActivations(vs, taken, e)
           date  == e + 1 + MAX_SEED_LOOKAHEAD
<1>1. date \in Nat /\ compute_activation_exit_epoch(e) = date
  BY RegistryAssumption DEF compute_activation_exit_epoch
<1>2. /\ taken \in SUBSET ActivationQueue(vs, fin)
      /\ ActivationQueue(vs, fin) \in SUBSET DOMAIN vs
      /\ \A i \in taken : /\ vs[i].activation_epoch = FAR_FUTURE_EPOCH
                          /\ vs[i].activation_eligibility_epoch <= fin
  BY DEF Dequeued, ActivationQueue, is_eligible_for_activation
<1> HIDE DEF taken, date
<1>3. new = [i \in DOMAIN vs |-> IF i \in taken THEN [vs[i] EXCEPT !.activation_epoch = date]
                                                ELSE vs[i]]
  BY <1>1 DEF ApplyActivations
<1>4. ASSUME NEW i \in DOMAIN vs
      PROVE  LET val == [vs[i] EXCEPT !.activation_epoch = date]
             IN  /\ vs[i] \in Validator /\ val \in Validator
                 /\ val.activation_epoch = date
                 /\ val.activation_eligibility_epoch = vs[i].activation_eligibility_epoch
                 /\ val.slashed = vs[i].slashed
                 /\ val.exit_epoch = vs[i].exit_epoch
                 /\ val.withdrawable_epoch = vs[i].withdrawable_epoch
  <2>1. vs[i] \in Validator
    BY EntryTypes
  <2> QED  BY <1>1, <2>1 DEF Validator
<1> HIDE DEF new
<1>5. IsRegistry(new)
  <2>1. PICK n \in 0..MaxValidators : vs \in [0..n - 1 -> Validator]
    BY DEF IsRegistry
  <2>2. DOMAIN vs = 0..n - 1
    BY <2>1
  <2>3. new \in [0..n - 1 -> Validator]
    BY <1>3, <1>4, <2>2
  <2> QED  BY <2>3, RegistryOfSize
<1>6. /\ DOMAIN new = DOMAIN vs
      /\ \A i \in taken : new[i].activation_epoch = date
      /\ \A i \in DOMAIN vs \ taken : new[i] = vs[i]
      /\ \A i \in DOMAIN vs :
           /\ new[i].activation_eligibility_epoch = vs[i].activation_eligibility_epoch
           /\ new[i].slashed = vs[i].slashed
           /\ new[i].exit_epoch = vs[i].exit_epoch
           /\ new[i].withdrawable_epoch = vs[i].withdrawable_epoch
  BY <1>2, <1>3, <1>4
<1> QED
  BY <1>2, <1>5, <1>6 DEF taken, date, new

-----------------------------------------------------------------------------
(* The registry steps of an epoch transition *)

\* What the steps of epoch e do to a registry, the transition at its end included:
\* Follows, with activations after the lookahead and further validators.
Advances(old, new, e) ==
    /\ DOMAIN old \subseteq DOMAIN new
    /\ \A i \in DOMAIN old :
         /\ \/ new[i].activation_epoch = old[i].activation_epoch
            \/ /\ old[i].activation_epoch = FAR_FUTURE_EPOCH
               /\ new[i].activation_epoch = e + 1 + MAX_SEED_LOOKAHEAD
         /\ old[i].exit_epoch # FAR_FUTURE_EPOCH => new[i].exit_epoch = old[i].exit_epoch
         /\ old[i].exit_epoch = FAR_FUTURE_EPOCH =>
              /\ new[i].exit_epoch >= e + 1 + MAX_SEED_LOOKAHEAD
              /\ \A j \in Leaving(old) : new[i].exit_epoch >= old[j].exit_epoch

LEMMA ActivationsKeep ==
    ASSUME NEW vs, NEW e \in 0..MaxEpoch - 1, NEW fin \in 0..e, NEW limit \in Nat,
           Sound(vs, e + 1, e + MAX_SEED_LOOKAHEAD, fin, e)
    PROVE  LET new == ApplyActivations(vs, Dequeued(vs, ActivationQueue(vs, fin), limit), e)
           IN  Sound(new, e + 1, e + 1 + MAX_SEED_LOOKAHEAD, fin, e)
<1> DEFINE queue == ActivationQueue(vs, fin)
           taken == Dequeued(vs, queue, limit)
           new == ApplyActivations(vs, taken, e)
           date == e + 1 + MAX_SEED_LOOKAHEAD
           ac == e + MAX_SEED_LOOKAHEAD
<1>1. /\ IsRegistry(vs) /\ ExitsSoon(vs, e) /\ Ordered(vs) /\ ExitsFit(vs)
      /\ \A i \in DOMAIN vs : Dated(vs[i], e + 1, ac, fin)
  BY DEF Sound
<1>2. /\ e \in 0..MaxEpoch /\ e \in Nat
      /\ date \in Nat /\ ac \in Nat /\ ac < date /\ date < FAR_FUTURE_EPOCH
      /\ FAR_FUTURE_EPOCH \in Nat
  BY RegistryAssumption
<1>3. /\ taken \in SUBSET queue
      /\ \A i \in taken : /\ vs[i].activation_epoch = FAR_FUTURE_EPOCH
                          /\ vs[i].activation_eligibility_epoch <= fin
                          /\ new[i].activation_epoch = date
      /\ \A i \in DOMAIN vs \ taken : new[i] = vs[i]
      /\ IsRegistry(new) /\ DOMAIN new = DOMAIN vs
      /\ \A i \in DOMAIN vs :
           /\ new[i].activation_eligibility_epoch = vs[i].activation_eligibility_epoch
           /\ new[i].slashed = vs[i].slashed
           /\ new[i].exit_epoch = vs[i].exit_epoch
           /\ new[i].withdrawable_epoch = vs[i].withdrawable_epoch
  BY <1>1, <1>2, ActivationsSay
<1>4. /\ queue \in SUBSET DOMAIN vs
      /\ \A i \in queue : Cardinality(Ahead(vs, queue, i)) < limit <=> i \in taken
      /\ \A i \in DOMAIN vs : i \in queue <=> /\ vs[i].activation_eligibility_epoch <= fin
                                              /\ vs[i].activation_epoch = FAR_FUTURE_EPOCH
  BY DEF ActivationQueue, is_eligible_for_activation, Dequeued, Ahead
<1> HIDE DEF queue, taken, new, date, ac
<1>5. ASSUME NEW i \in DOMAIN vs
      PROVE  /\ vs[i].activation_epoch \in 0..ac \cup {FAR_FUTURE_EPOCH}
             /\ vs[i].activation_epoch \in Nat /\ vs[i].activation_epoch <= FAR_FUTURE_EPOCH
             /\ vs[i].activation_eligibility_epoch \in Nat
             /\ vs[i].exit_epoch \in Nat
             /\ vs[i].exit_epoch # FAR_FUTURE_EPOCH => vs[i].exit_epoch < FAR_FUTURE_EPOCH
  <2>1. vs[i].activation_epoch \in Epochs(ac)
    BY <1>1 DEF Dated
  <2>2. i \in Leaving(vs) => vs[i].exit_epoch < FAR_FUTURE_EPOCH
    BY <1>1, <1>2, ExitsNear
  <2> QED  BY <1>1, <1>2, <2>1, <2>2, EntryTypes DEF Epochs, Leaving
<1>6. ASSUME NEW i \in DOMAIN new PROVE Dated(new[i], e + 1, date, fin)
  <2>1. Dated(vs[i], e + 1, ac, fin)
    BY <1>1, <1>3
  <2>2. CASE i \in taken
    <3>1. vs[i].exit_epoch = FAR_FUTURE_EPOCH
      <4>1. vs[i].activation_epoch = FAR_FUTURE_EPOCH
        BY <1>3, <2>2
      <4> QED  BY <1>2, <1>3, <1>5, <2>1, <4>1 DEF Dated
    <3>2. date \in Epochs(date)
      BY <1>2 DEF Epochs
    <3> QED  BY <1>3, <2>1, <2>2, <3>1, <3>2 DEF Dated
  <2>3. CASE i \notin taken
    <3>1. new[i] = vs[i]
      BY <1>3, <2>3
    <3>2. Epochs(ac) \in SUBSET Epochs(date)
      BY <1>2 DEF Epochs
    <3> QED  BY <2>1, <3>1, <3>2 DEF Dated
  <2> QED  BY <2>2, <2>3
<1>7. ExitsSoon(new, e)
  <2>1. Leaving(new) = Leaving(vs)
    BY <1>3 DEF Leaving
  <2> QED  BY <1>1, <1>3, <2>1 DEF ExitsSoon, Leaving
<1>8. Ordered(new)
  <2> SUFFICES ASSUME NEW i \in DOMAIN vs, NEW j \in DOMAIN vs, Before(new, i, j)
               PROVE  new[i].activation_epoch <= new[j].activation_epoch
    BY <1>3 DEF Ordered
  <2>1. /\ Before(vs, i, j)
        /\ vs[i].activation_epoch <= vs[j].activation_epoch
    BY <1>1, <1>3 DEF Before, Ordered
  <2>2. CASE i \in taken
    <3>1. new[i].activation_epoch = date /\ vs[i].activation_epoch = FAR_FUTURE_EPOCH
      BY <1>3, <2>2
    <3>2. vs[j].activation_epoch = FAR_FUTURE_EPOCH
      BY <1>5, <2>1, <3>1
    <3>3. new[j].activation_epoch = date \/ new[j].activation_epoch = FAR_FUTURE_EPOCH
      BY <1>3, <3>2
    <3> QED  BY <1>2, <3>1, <3>3
  <2>3. CASE i \notin taken /\ j \notin taken
    BY <1>3, <2>1, <2>3
  <2>4. CASE i \notin taken /\ j \in taken
    <3>1. /\ new[i] = vs[i]
          /\ new[j].activation_epoch = date
          /\ j \in queue /\ vs[j].activation_eligibility_epoch <= fin
      BY <1>3, <2>4
    <3>2. ASSUME vs[i].activation_epoch = FAR_FUTURE_EPOCH PROVE FALSE
      <4>1. vs[i].activation_eligibility_epoch <= fin
        BY <1>5, <2>1, <3>1 DEF Before
      <4>2. i \in queue
        BY <1>4, <3>2, <4>1
      <4>3. /\ Cardinality(Ahead(vs, queue, i)) \in Nat
            /\ Cardinality(Ahead(vs, queue, j)) \in Nat
            /\ Cardinality(Ahead(vs, queue, i)) < Cardinality(Ahead(vs, queue, j))
        BY <1>1, <1>4, <2>1, <4>2, AheadGrows
      <4>4. Cardinality(Ahead(vs, queue, j)) < limit
        BY <1>4, <2>4, <3>1
      <4>5. Cardinality(Ahead(vs, queue, i)) < limit
        BY <4>3, <4>4
      <4> QED  BY <1>4, <2>4, <4>2, <4>5
    <3> QED  BY <1>2, <1>5, <3>1, <3>2
  <2> QED  BY <2>2, <2>3, <2>4
<1>9. ExitsFit(new)
  <2>1. ExitEpochs(new) = ExitEpochs(vs) /\ \A x : ExitingAt(new, x) = ExitingAt(vs, x)
    BY <1>3 DEF ExitEpochs, ExitingAt
  <2>2. Activated(vs) \in SUBSET Activated(new)
    BY <1>3 DEF Activated
  <2>3. IsFiniteSet(Activated(new))
    BY <1>3, FiniteParts
  <2>4. /\ ChurnLimitOf(Activated(vs)) \in Nat
        /\ ChurnLimitOf(Activated(new)) \in Nat
        /\ ChurnLimitOf(Activated(vs)) <= ChurnLimitOf(Activated(new))
    BY <2>2, <2>3, LimitGrows DEF ChurnLimitOf
  <2> SUFFICES ASSUME NEW x \in ExitEpochs(vs)
               PROVE  Cardinality(ExitingAt(vs, x)) <= ChurnLimitOf(Activated(new))
    BY <2>1 DEF ExitsFit
  <2>5. Cardinality(ExitingAt(vs, x)) <= ChurnLimitOf(Activated(vs))
    BY <1>1 DEF ExitsFit
  <2>6. Cardinality(ExitingAt(vs, x)) \in Nat
    BY <1>1, FiniteParts
  <2> QED  BY <2>4, <2>5, <2>6
<1> QED
  BY <1>3, <1>6, <1>7, <1>8, <1>9 DEF Sound, date, new, taken, queue

\* What the registry steps of a transition make of the registry of epoch e.
Updated(old, new, e, fin) ==
    /\ Sound(new, e + 1, e + 1 + MAX_SEED_LOOKAHEAD, fin, e)
    /\ DOMAIN new = DOMAIN old
    /\ Advances(old, new, e)
    /\ FundsKept(old, new)
    /\ Cardinality({i \in DOMAIN new : new[i].activation_epoch = e + 1 + MAX_SEED_LOOKAHEAD})
         <= MAX_PER_EPOCH_ACTIVATION_CHURN_LIMIT

\* A transition: from the registry of epoch e to that of the next.
LEMMA UpdatesKeep ==
    ASSUME NEW vs, NEW e \in 0..MaxEpoch - 1, NEW fin \in 0..e, NEW fin_2 \in fin..e,
           Sound(vs, e, e + MAX_SEED_LOOKAHEAD, fin, e)
    PROVE  Updated(vs, ProcessRegistryUpdates(vs, e, fin_2), e, fin_2)
<1> DEFINE ac == e + MAX_SEED_LOOKAHEAD
           date == e + 1 + MAX_SEED_LOOKAHEAD
           state_1 == ProcessEligibilityAndEjection_over_vids(vs, e)
           queue == ActivationQueue(state_1, fin_2)
           limit == get_validator_activation_churn_limit(state_1, e)
           taken == Dequeued(state_1, queue, limit)
           new == ProcessRegistryUpdates(vs, e, fin_2)
<1>1. new = ApplyActivations(state_1, taken, e)
  BY DEF ProcessRegistryUpdates
<1>2. /\ e \in 0..MaxEpoch /\ e \in Nat /\ fin_2 \in 0..e
      /\ ac \in 0..FAR_FUTURE_EPOCH - 1
      /\ date \in Nat /\ ac < date /\ date < FAR_FUTURE_EPOCH
  BY RegistryAssumption
<1>3. Sound(vs, e + 1, ac, fin_2, e)
  <2>1. Epochs(e) \in SUBSET Epochs(e + 1)
    BY <1>2 DEF Epochs
  <2>2. ASSUME NEW i \in DOMAIN vs PROVE Dated(vs[i], e + 1, ac, fin_2)
    <3>1. Dated(vs[i], e, ac, fin)
      BY DEF Sound
    <3>2. vs[i].activation_eligibility_epoch \in Nat
      BY EntryTypes DEF Sound
    <3>3. vs[i].activation_eligibility_epoch <= fin => vs[i].activation_eligibility_epoch <= fin_2
      BY <3>2
    <3> QED  BY <2>1, <3>1, <3>3 DEF Dated
  <2> QED  BY <2>2 DEF Sound
<1>4. /\ Sound(state_1, e + 1, ac, fin_2, e)
      /\ Follows(vs, state_1, e)
      /\ FundsKept(vs, state_1)
  <2> HIDE DEF ac
  <2> QED  BY <1>2, <1>3, AllKeep
<1>5. limit \in Nat /\ limit <= MAX_PER_EPOCH_ACTIVATION_CHURN_LIMIT
  <2>1. get_active_validator_indices(state_1, e) \in SUBSET DOMAIN state_1
    BY DEF get_active_validator_indices
  <2> HIDE DEF state_1
  <2>2. IsFiniteSet(DOMAIN state_1)
    BY <1>4, RegistrySize DEF Sound
  <2> DEFINE churn == get_validator_churn_limit(state_1, e)
             most == MAX_PER_EPOCH_ACTIVATION_CHURN_LIMIT
  <2>3. churn \in Nat
    BY <2>1, <2>2, LimitGrows DEF get_validator_churn_limit
  <2>4. limit = Min({most, churn}) /\ most \in Nat
    BY RegistryAssumption DEF get_validator_activation_churn_limit
  <2> HIDE DEF churn, most
  <2>5. Min({most, churn}) \in {most, churn} /\ Min({most, churn}) <= most
    BY <2>3, <2>4, MinOfTwo
  <2> HIDE DEF limit
  <2> QED  BY <2>3, <2>4, <2>5 DEF most
<1> HIDE DEF state_1, limit, new
<1>6. Sound(new, e + 1, date, fin_2, e)
  BY <1>1, <1>2, <1>4, <1>5, ActivationsKeep
<1>7. /\ \A i \in taken : /\ state_1[i].activation_epoch = FAR_FUTURE_EPOCH
                          /\ new[i].activation_epoch = date
      /\ \A i \in DOMAIN state_1 \ taken : new[i] = state_1[i]
      /\ DOMAIN new = DOMAIN state_1
      /\ taken \in SUBSET queue
      /\ \A i \in DOMAIN state_1 :
           /\ new[i].slashed = state_1[i].slashed
           /\ new[i].exit_epoch = state_1[i].exit_epoch
           /\ new[i].withdrawable_epoch = state_1[i].withdrawable_epoch
  <2>1. IsRegistry(state_1)
    BY <1>4 DEF Sound
  <2> QED  BY <1>1, <1>2, <2>1, ActivationsSay
<1>8. queue \in SUBSET DOMAIN state_1
  BY DEF ActivationQueue
<1> HIDE DEF taken, queue
<1>9. DOMAIN new = DOMAIN vs /\ Advances(vs, new, e)
  <2>1. DOMAIN new = DOMAIN vs /\ DOMAIN state_1 = DOMAIN vs
    BY <1>4, <1>7 DEF Follows
  <2>2. ASSUME NEW i \in DOMAIN vs
        PROVE  \/ new[i].activation_epoch = vs[i].activation_epoch
               \/ vs[i].activation_epoch = FAR_FUTURE_EPOCH /\ new[i].activation_epoch = date
    <3>1. state_1[i].activation_epoch = vs[i].activation_epoch
      BY <1>4 DEF Follows
    <3> QED  BY <1>7, <2>1, <3>1
  <2> QED  BY <1>4, <1>7, <2>1, <2>2 DEF Follows, Advances
<1>10. FundsKept(vs, new)
  <2>1. DOMAIN state_1 = DOMAIN vs
    BY <1>4 DEF Follows
  <2> QED  BY <1>4, <1>7, <2>1 DEF FundsKept
<1>11. Cardinality({i \in DOMAIN new : new[i].activation_epoch = date})
          <= MAX_PER_EPOCH_ACTIVATION_CHURN_LIMIT
  <2>1. ASSUME NEW i \in DOMAIN state_1 PROVE state_1[i].activation_epoch # date
    <3>1. state_1[i].activation_epoch \in Epochs(ac)
      BY <1>4 DEF Sound, Dated
    <3> QED  BY <1>2, <3>1 DEF Epochs
  <2>2. {i \in DOMAIN new : new[i].activation_epoch = date} = taken
    BY <1>7, <1>8, <2>1
  <2>3. IsRegistry(state_1)
    BY <1>4 DEF Sound
  <2>4. Cardinality(taken) \in Nat /\ Cardinality(taken) <= limit
    BY <1>5, <1>8, <2>3, PrefixFits DEF taken
  <2>5. MAX_PER_EPOCH_ACTIVATION_CHURN_LIMIT \in Nat
    BY RegistryAssumption
  <2>6. Cardinality(taken) <= MAX_PER_EPOCH_ACTIVATION_CHURN_LIMIT
    BY <1>5, <2>4, <2>5
  <2> QED  BY <2>2, <2>6
<1> QED
  BY <1>6, <1>9, <1>10, <1>11 DEF new, Updated

-----------------------------------------------------------------------------
(* New validators, slashings, and balances *)

\* A new validator is in none of the queues.
LEMMA AppendKeeps ==
    ASSUME NEW vs, NEW ac \in 0..FAR_FUTURE_EPOCH - 1, NEW fin, NEW e \in 0..MaxEpoch,
           Sound(vs, e, ac, fin, e), Cardinality(DOMAIN vs) < MaxValidators,
           NEW balance \in EffectiveBalances
    PROVE  LET val == get_validator_from_deposit(balance)
               n   == Cardinality(DOMAIN vs)
               new == Appended(vs, val)
           IN  /\ Sound(new, e, ac, fin, e)
               /\ DOMAIN new = DOMAIN vs \cup {n} /\ n \notin DOMAIN vs
               /\ \A i \in DOMAIN vs : new[i] = vs[i]
               /\ new[n] = val
               /\ val.activation_epoch = FAR_FUTURE_EPOCH
               /\ val.exit_epoch = FAR_FUTURE_EPOCH
               /\ ~val.slashed
<1> DEFINE val == get_validator_from_deposit(balance)
           n   == Cardinality(DOMAIN vs)
           new == Appended(vs, val)
<1>1. /\ IsRegistry(vs) /\ ExitsSoon(vs, e) /\ Ordered(vs) /\ ExitsFit(vs)
      /\ \A i \in DOMAIN vs : Dated(vs[i], e, ac, fin)
  BY DEF Sound
<1>2. /\ n \in 0..MaxValidators /\ n \in Nat /\ n + 1 \in 0..MaxValidators
      /\ DOMAIN vs = 0..n - 1 /\ vs \in [DOMAIN vs -> Validator]
      /\ FAR_FUTURE_EPOCH \in Nat /\ e < FAR_FUTURE_EPOCH /\ e \in Nat
  <2>1. n \in 0..MaxValidators /\ DOMAIN vs = 0..n - 1 /\ vs \in [DOMAIN vs -> Validator]
    BY <1>1, RegistrySize
  <2>2. n < MaxValidators
    OBVIOUS
  <2>3. n \in Nat /\ n + 1 \in 0..MaxValidators
    <3>1. MaxValidators \in Nat
      BY RegistryAssumption
    <3>2. \A k \in 0..MaxValidators :
             k < MaxValidators => k \in Nat /\ k + 1 \in 0..MaxValidators
      BY <3>1
    <3> QED  BY <2>1, <2>2, <3>2
  <2>4. FAR_FUTURE_EPOCH \in Nat /\ e < FAR_FUTURE_EPOCH /\ e \in Nat
    BY RegistryAssumption
  <2> QED  BY <2>1, <2>3, <2>4
<1>3. /\ val.effective_balance = balance
      /\ val.slashed = FALSE
      /\ val.activation_eligibility_epoch = FAR_FUTURE_EPOCH
      /\ val.activation_epoch = FAR_FUTURE_EPOCH
      /\ val.exit_epoch = FAR_FUTURE_EPOCH
      /\ val.withdrawable_epoch = FAR_FUTURE_EPOCH
      /\ val \in Validator
  <2> DEFINE g == GenesisValidator
  <2>1. /\ g \in Validator /\ g.slashed = FALSE
        /\ g.exit_epoch = FAR_FUTURE_EPOCH /\ g.withdrawable_epoch = FAR_FUTURE_EPOCH
    BY <1>2, RegistryAssumption DEF GenesisValidator, Validator
  <2> HIDE DEF g
  <2>2. val = [g EXCEPT
                 !.effective_balance            = balance,
                 !.activation_eligibility_epoch = FAR_FUTURE_EPOCH,
                 !.activation_epoch             = FAR_FUTURE_EPOCH]
    BY DEF get_validator_from_deposit, g
  <2> HIDE DEF val
  <2> QED  BY <1>2, <2>1, <2>2 DEF Validator
<1>4. val \in Validator
  BY <1>3
<1>5. new = [i \in 0..n |-> IF i \in DOMAIN vs THEN vs[i] ELSE val]
  BY DEF Appended
<1> HIDE DEF val, new, n
<1>6. /\ DOMAIN new = 0..n
      /\ DOMAIN new = DOMAIN vs \cup {n} /\ n \notin DOMAIN vs
      /\ \A i \in DOMAIN vs : new[i] = vs[i]
      /\ new[n] = val
  BY <1>2, <1>5
<1>7. IsRegistry(new)
  <2>1. new \in [0..n -> Validator]
    BY <1>2, <1>4, <1>5
  <2>2. n + 1 - 1 = n
    BY <1>2
  <2> QED  BY <1>2, <2>1, <2>2 DEF IsRegistry
<1>8. ASSUME NEW i \in DOMAIN new PROVE Dated(new[i], e, ac, fin)
  <2>1. FAR_FUTURE_EPOCH \in Epochs(e) /\ FAR_FUTURE_EPOCH \in Epochs(ac)
    BY DEF Epochs
  <2> QED  BY <1>1, <1>3, <1>6, <2>1 DEF Dated
<1>9. Leaving(new) = Leaving(vs) /\ Activated(new) = Activated(vs)
  BY <1>3, <1>6 DEF Leaving, Activated
<1>10. ExitsSoon(new, e)
  BY <1>1, <1>6, <1>9 DEF ExitsSoon, Leaving
<1>11. Ordered(new)
  <2> SUFFICES ASSUME NEW i \in DOMAIN new, NEW j \in DOMAIN new, Before(new, i, j)
               PROVE  new[i].activation_epoch <= new[j].activation_epoch
    BY DEF Ordered
  <2>1. CASE i \in DOMAIN vs /\ j \in DOMAIN vs
    BY <1>1, <1>6, <2>1 DEF Ordered, Before
  <2>2. CASE j = n
    <3>1. new[i].activation_epoch \in Epochs(ac) /\ new[j].activation_epoch = FAR_FUTURE_EPOCH
      BY <1>3, <1>6, <1>8, <2>2 DEF Dated
    <3> QED  BY <1>2, <3>1 DEF Epochs
  <2>3. CASE i = n /\ j \in DOMAIN vs
    <3>1. new[j].activation_eligibility_epoch \in Epochs(e) /\ j < i
      BY <1>2, <1>8, <2>3 DEF Dated
    <3>2. new[i].activation_eligibility_epoch = FAR_FUTURE_EPOCH
      BY <1>3, <1>6, <2>3
    <3>3. ~(i < j)
      BY <1>2, <2>3, <3>1
    <3> QED  BY <1>2, <3>1, <3>2, <3>3 DEF Epochs, Before
  <2> QED  BY <1>6, <2>1, <2>2, <2>3
<1>12. ExitsFit(new)
  <2>1. ExitEpochs(new) = ExitEpochs(vs)
    <3>1. \A x : x # FAR_FUTURE_EPOCH =>
            ((\E i \in DOMAIN new : x = new[i].exit_epoch)
              <=> \E i \in DOMAIN vs : x = vs[i].exit_epoch)
      BY <1>3, <1>6
    <3> QED  BY <3>1 DEF ExitEpochs
  <2>2. \A x : x # FAR_FUTURE_EPOCH => ExitingAt(new, x) = ExitingAt(vs, x)
    BY <1>3, <1>6 DEF ExitingAt
  <2>3. \A x \in ExitEpochs(vs) : x # FAR_FUTURE_EPOCH
    BY DEF ExitEpochs
  <2> QED  BY <1>1, <1>9, <2>1, <2>2, <2>3 DEF ExitsFit
<1> QED
  BY <1>3, <1>6, <1>7, <1>8, <1>10, <1>11, <1>12 DEF Sound, val, n, new

\* A slashed validator leaves, and its funds stay for a whole vector.
LEMMA SlashKeeps ==
    ASSUME NEW vs, NEW el, NEW ac, NEW fin, NEW e \in 0..MaxEpoch,
           Sound(vs, el, ac, fin, e), NEW i \in DOMAIN vs,
           is_slashable_validator(vs[i], e)
    PROVE  LET new == Slashed(vs, i, e)
           IN  /\ Sound(new, el, ac, fin, e)
               /\ Follows(vs, new, e)
               /\ new[i].slashed
               /\ new[i].withdrawable_epoch >= e + EPOCHS_PER_SLASHINGS_VECTOR
               /\ \A j \in DOMAIN vs : j # i =>
                    /\ new[j].slashed = vs[j].slashed
                    /\ vs[j].slashed => new[j].withdrawable_epoch = vs[j].withdrawable_epoch
<1> DEFINE left == InitiateValidatorExit(vs, i, e)
           lock == e + EPOCHS_PER_SLASHINGS_VECTOR
           date == Max({left[i].withdrawable_epoch, lock})
           val  == [left[i] EXCEPT !.slashed = TRUE, !.withdrawable_epoch = date]
           new  == Slashed(vs, i, e)
<1>1. vs[i].activation_epoch <= e /\ ~vs[i].slashed
  BY DEF is_slashable_validator
<1>2. /\ Sound(left, el, ac, fin, e) /\ Follows(vs, left, e) /\ FundsKept(vs, left)
      /\ left[i].exit_epoch # FAR_FUTURE_EPOCH
  <2> HIDE DEF left
  <2> QED  BY <1>1, ExitKeeps DEF left
<1>3. new = [left EXCEPT ![i].slashed = TRUE, ![i].withdrawable_epoch = Max({@, lock})]
  BY DEF Slashed
<1> HIDE DEF left
<1>4. IsRegistry(left) /\ DOMAIN left = DOMAIN vs /\ left \in [DOMAIN left -> Validator]
  BY <1>2, RegistrySize DEF Sound, Follows
<1>5. left[i] \in Validator /\ left[i].withdrawable_epoch \in Nat
  BY <1>4, EntryTypes
<1>6. lock \in Nat
  BY RegistryAssumption
<1> HIDE DEF lock
<1>7. date \in Nat /\ left[i].withdrawable_epoch <= date /\ lock <= date
  <2> DEFINE a == left[i].withdrawable_epoch
  <2>1. a \in Nat /\ a \in Int /\ lock \in Int
    BY <1>5, <1>6
  <2> HIDE DEF a
  <2>2. Max({a, lock}) \in Nat /\ a <= Max({a, lock}) /\ lock <= Max({a, lock})
    BY <1>6, <2>1, MaxOfTwo
  <2> QED  BY <2>2 DEF a
<1>8. new = [j \in DOMAIN vs |-> IF j = i THEN val ELSE left[j]]
  <2>1. ([left EXCEPT ![i].slashed = TRUE])[i].withdrawable_epoch = left[i].withdrawable_epoch
    BY <1>4, <1>5 DEF Validator
  <2>2. new = [left EXCEPT ![i].slashed = TRUE, ![i].withdrawable_epoch = date]
    BY <1>3, <2>1
  <2> HIDE DEF new, date
  <2> QED  BY <1>4, <1>5, <2>2 DEF Validator
<1> HIDE DEF date, new
<1>9. /\ val \in Validator
      /\ val.activation_eligibility_epoch = left[i].activation_eligibility_epoch
      /\ val.activation_epoch = left[i].activation_epoch
      /\ val.exit_epoch = left[i].exit_epoch
      /\ val.slashed
      /\ val.withdrawable_epoch = date
  BY <1>5, <1>7 DEF Validator
<1> HIDE DEF val
<1>10. /\ SameDates(left, new)
       /\ new[i] = val
       /\ \A j \in DOMAIN vs : j # i => new[j] = left[j]
  BY <1>4, <1>8, <1>9 DEF SameDates
<1>11. IsRegistry(new)
  <2>1. PICK n \in 0..MaxValidators : left \in [0..n - 1 -> Validator]
    BY <1>4 DEF IsRegistry
  <2>2. new \in [0..n - 1 -> Validator]
    BY <1>4, <1>8, <1>9, <2>1
  <2> QED  BY <2>2, RegistryOfSize
<1>12. ASSUME NEW j \in DOMAIN new PROVE Dated(new[j], el, ac, fin)
  <2>1. j \in DOMAIN vs /\ Dated(left[j], el, ac, fin)
    BY <1>2, <1>4, <1>8 DEF Sound
  <2>2. CASE j = i
    <3>1. /\ left[i].exit_epoch \in Nat
          /\ MIN_VALIDATOR_WITHDRAWABILITY_DELAY \in Nat
      BY <1>4, EntryTypes, RegistryAssumption
    <3>2. left[i].withdrawable_epoch
            >= left[i].exit_epoch + MIN_VALIDATOR_WITHDRAWABILITY_DELAY
      BY <1>2, <2>1, <2>2 DEF Dated
    <3>3. date >= left[i].exit_epoch + MIN_VALIDATOR_WITHDRAWABILITY_DELAY
      BY <1>5, <1>7, <3>1, <3>2
    <3> QED  BY <1>2, <1>9, <1>10, <2>1, <2>2, <3>3 DEF Dated
  <2>3. CASE j # i
    BY <1>10, <2>1, <2>3
  <2> QED  BY <2>2, <2>3
<1>13. Sound(new, el, ac, fin, e)
  BY <1>2, <1>10, <1>11, <1>12, SameQueues DEF Sound
<1>14. Follows(vs, new, e)
  BY <1>2, <1>4, <1>10 DEF Follows, SameDates
<1>15. new[i].slashed /\ new[i].withdrawable_epoch >= e + EPOCHS_PER_SLASHINGS_VECTOR
  <2>1. lock = e + EPOCHS_PER_SLASHINGS_VECTOR
    BY DEF lock
  <2> QED  BY <1>6, <1>7, <1>9, <1>10, <2>1
<1>16. \A j \in DOMAIN vs : j # i =>
         /\ new[j].slashed = vs[j].slashed
         /\ vs[j].slashed => new[j].withdrawable_epoch = vs[j].withdrawable_epoch
  BY <1>2, <1>10 DEF FundsKept
<1> QED
  BY <1>13, <1>14, <1>15, <1>16 DEF new

\* Balances take no part in the dates.
LEMMA BalancesKeep ==
    ASSUME NEW vs, NEW el, NEW ac, NEW fin, NEW e \in Nat,
           Sound(vs, el, ac, fin, e), NEW new \in EffectiveBalanceUpdates(vs)
    PROVE  /\ Sound(new, el, ac, fin, e + 1)
           /\ SameDates(vs, new)
           /\ \A i \in DOMAIN vs :
                /\ new[i].slashed = vs[i].slashed
                /\ new[i].withdrawable_epoch = vs[i].withdrawable_epoch
<1>1. IsRegistry(vs)
  BY DEF Sound
<1>2. PICK balance \in [DOMAIN vs -> EffectiveBalances] :
          new = [i \in DOMAIN vs |-> [vs[i] EXCEPT !.effective_balance = balance[i]]]
  BY DEF EffectiveBalanceUpdates
<1>3. ASSUME NEW i \in DOMAIN vs
      PROVE  /\ new[i] \in Validator
             /\ new[i].activation_eligibility_epoch = vs[i].activation_eligibility_epoch
             /\ new[i].activation_epoch = vs[i].activation_epoch
             /\ new[i].slashed = vs[i].slashed
             /\ new[i].exit_epoch = vs[i].exit_epoch
             /\ new[i].withdrawable_epoch = vs[i].withdrawable_epoch
  <2>1. vs[i] \in Validator /\ balance[i] \in EffectiveBalances
    BY <1>1, EntryTypes
  <2>2. new[i] = [vs[i] EXCEPT !.effective_balance = balance[i]]
    BY <1>2
  <2> QED  BY <2>1, <2>2 DEF Validator
<1>4. DOMAIN new = DOMAIN vs /\ new = [i \in DOMAIN vs |-> new[i]]
  BY <1>2
<1>5. SameDates(vs, new)
  BY <1>3, <1>4 DEF SameDates
<1>6. IsRegistry(new)
  <2>1. PICK n \in 0..MaxValidators : vs \in [0..n - 1 -> Validator]
    BY <1>1 DEF IsRegistry
  <2>2. DOMAIN vs = 0..n - 1
    BY <2>1
  <2>3. new \in [0..n - 1 -> Validator]
    BY <1>3, <1>4, <2>2
  <2> QED  BY <2>3, RegistryOfSize
<1>7. \A i \in DOMAIN new : Dated(new[i], el, ac, fin)
  BY <1>3, <1>4 DEF Sound, Dated
<1>8. ExitsSoon(new, e + 1)
  <2>1. ExitsSoon(new, e)
    BY <1>5, SameQueues DEF Sound
  <2>2. Cardinality(Leaving(new)) \in Nat
    BY <1>6, FiniteParts
  <2>3. \A i \in Leaving(new) : new[i].exit_epoch \in Nat
    BY <1>6, EntryTypes DEF Leaving
  <2> QED  BY <2>1, <2>2, <2>3, RegistryAssumption DEF ExitsSoon
<1>9. Ordered(new) /\ ExitsFit(new)
  BY <1>5, SameQueues DEF Sound
<1> QED
  BY <1>3, <1>5, <1>6, <1>7, <1>8, <1>9 DEF Sound

-----------------------------------------------------------------------------
(* The invariant of the registry *)

IInv ==
    /\ epoch \in 0..MaxEpoch
    /\ finalized \in 0..epoch
    /\ Sound(validators, epoch, epoch + MAX_SEED_LOOKAHEAD, finalized, epoch)
    /\ slashings \in [0..EPOCHS_PER_SLASHINGS_VECTOR - 1 -> Nat]
    /\ slashLog \in [DOMAIN validators -> [at : Nat, amount : Nat]]
    /\ charges \in [DOMAIN validators -> Nat]

LEMMA InitIInv == Init => IInv
<1> SUFFICES ASSUME Init PROVE IInv
  OBVIOUS
<1>1. /\ validators = [i \in 0..GenesisCount - 1 |-> GenesisValidator]
      /\ DOMAIN validators = 0..GenesisCount - 1
      /\ epoch = 0 /\ finalized = 0
  BY DEF Init
<1>2. /\ GenesisCount \in 0..MaxValidators /\ FAR_FUTURE_EPOCH \in Nat
      /\ FAR_FUTURE_EPOCH # 0 /\ MAX_EFFECTIVE_BALANCE \in EffectiveBalances
      /\ MAX_SEED_LOOKAHEAD \in Nat
      /\ EPOCHS_PER_SLASHINGS_VECTOR \in Nat /\ MaxEpoch \in Nat
  BY RegistryAssumption
<1>3. /\ GenesisValidator \in Validator
      /\ GenesisValidator.activation_eligibility_epoch = 0
      /\ GenesisValidator.activation_epoch = 0
      /\ GenesisValidator.exit_epoch = FAR_FUTURE_EPOCH
      /\ GenesisValidator.slashed = FALSE
  BY <1>2 DEF GenesisValidator, Validator
<1>4. IsRegistry(validators)
  BY <1>1, <1>2, <1>3 DEF IsRegistry
<1>5. \A i \in DOMAIN validators : validators[i] = GenesisValidator
  BY <1>1
<1> DEFINE ac == epoch + MAX_SEED_LOOKAHEAD
<1>6. ac \in Nat
  BY <1>1, <1>2
<1> HIDE DEF ac
<1>7. ASSUME NEW i \in DOMAIN validators PROVE Dated(validators[i], epoch, ac, finalized)
  <2>1. 0 \in Epochs(epoch) /\ 0 \in Epochs(ac)
    BY <1>1, <1>6 DEF Epochs
  <2> QED  BY <1>1, <1>3, <1>5, <2>1 DEF Dated
<1>8. Leaving(validators) = {} /\ ExitEpochs(validators) = {}
  BY <1>3, <1>5 DEF Leaving, ExitEpochs
<1>9. ExitsSoon(validators, epoch) /\ ExitsFit(validators)
  BY <1>8 DEF ExitsSoon, ExitsFit
<1>10. Ordered(validators)
  BY <1>3, <1>5 DEF Ordered
<1>11. Sound(validators, epoch, ac, finalized, epoch)
  BY <1>4, <1>7, <1>9, <1>10 DEF Sound
<1>12. slashLog \in [DOMAIN validators -> [at : Nat, amount : Nat]]
  BY <1>1, <1>2 DEF Init, Unslashed
<1> QED
  BY <1>1, <1>2, <1>11, <1>12 DEF Init, IInv, ac

LEMMA EpochRange ==
    ASSUME IInv
    PROVE  /\ epoch \in Nat /\ finalized \in 0..epoch
           /\ epoch + MAX_SEED_LOOKAHEAD \in 0..FAR_FUTURE_EPOCH - 1
           /\ IsRegistry(validators) /\ ExitsSoon(validators, epoch)
  BY RegistryAssumption DEF IInv, Sound

\* A new validator.
LEMMA AddStep ==
    ASSUME IInv, NEW balance \in EffectiveBalances, AddValidator(balance)
    PROVE  LET n == Cardinality(DOMAIN validators)
           IN  /\ IInv'
               /\ epoch' = epoch
               /\ Advances(validators, validators', epoch)
               /\ DOMAIN validators' = DOMAIN validators \cup {n} /\ n \notin DOMAIN validators
               /\ \A i \in DOMAIN validators : /\ validators'[i] = validators[i]
                                               /\ slashLog'[i] = slashLog[i]
                                               /\ charges'[i] = charges[i]
               /\ validators'[n].activation_epoch = FAR_FUTURE_EPOCH
               /\ ~validators'[n].slashed
               /\ slashLog'[n] = Unslashed /\ charges'[n] = 0
<1> DEFINE n == Cardinality(DOMAIN validators)
           val == get_validator_from_deposit(balance)
           ac == epoch + MAX_SEED_LOOKAHEAD
<1>1. /\ n < MaxValidators
      /\ validators' = Appended(validators, val)
      /\ slashLog' = Appended(slashLog, Unslashed)
      /\ charges' = Appended(charges, 0)
      /\ epoch' = epoch /\ finalized' = finalized /\ slashings' = slashings
  BY DEF AddValidator
<1>2. /\ epoch \in 0..MaxEpoch /\ ac \in 0..FAR_FUTURE_EPOCH - 1
      /\ Sound(validators, epoch, ac, finalized, epoch)
  BY EpochRange DEF IInv
<1> HIDE DEF ac
<1>3. /\ Sound(validators', epoch, ac, finalized, epoch)
      /\ DOMAIN validators' = DOMAIN validators \cup {n} /\ n \notin DOMAIN validators
      /\ \A i \in DOMAIN validators : validators'[i] = validators[i]
      /\ validators'[n].activation_epoch = FAR_FUTURE_EPOCH
      /\ validators'[n].exit_epoch = FAR_FUTURE_EPOCH
      /\ ~validators'[n].slashed
  <2> DEFINE new == Appended(validators, val)
  <2>1. /\ Sound(new, epoch, ac, finalized, epoch)
        /\ DOMAIN new = DOMAIN validators \cup {n} /\ n \notin DOMAIN validators
        /\ \A i \in DOMAIN validators : new[i] = validators[i]
        /\ new[n] = val
        /\ val.activation_epoch = FAR_FUTURE_EPOCH
        /\ val.exit_epoch = FAR_FUTURE_EPOCH
        /\ ~val.slashed
    BY <1>1, <1>2, AppendKeeps
  <2> HIDE DEF new, val
  <2>2. validators' = new
    BY <1>1 DEF new, val
  <2> QED  BY <2>1, <2>2
<1>4. /\ DOMAIN validators = 0..n - 1 /\ n \in Nat
      /\ DOMAIN slashLog = DOMAIN validators /\ DOMAIN charges = DOMAIN validators
  <2>1. n \in 0..MaxValidators /\ DOMAIN validators = 0..n - 1
    BY EpochRange, RegistrySize
  <2>2. n \in Nat
    BY <2>1, RegistryAssumption
  <2> QED  BY <2>1, <2>2 DEF IInv
<1>5. /\ slashLog' = [i \in 0..n |-> IF i \in DOMAIN validators THEN slashLog[i] ELSE Unslashed]
      /\ charges' = [i \in 0..n |-> IF i \in DOMAIN validators THEN charges[i] ELSE 0]
  BY <1>1, <1>4 DEF Appended
<1>6. DOMAIN validators' = 0..n
  BY <1>1 DEF Appended
<1> HIDE DEF n, val
<1>7. /\ slashLog' \in [DOMAIN validators' -> [at : Nat, amount : Nat]]
      /\ charges' \in [DOMAIN validators' -> Nat]
  <2>1. Unslashed \in [at : Nat, amount : Nat]
    BY RegistryAssumption DEF Unslashed
  <2>2. /\ slashLog \in [DOMAIN validators -> [at : Nat, amount : Nat]]
        /\ charges \in [DOMAIN validators -> Nat]
    BY DEF IInv
  <2> QED  BY <1>5, <1>6, <2>1, <2>2
<1>8. /\ slashLog'[n] = Unslashed /\ charges'[n] = 0
      /\ \A i \in DOMAIN validators : slashLog'[i] = slashLog[i] /\ charges'[i] = charges[i]
  BY <1>3, <1>4, <1>5
<1>9. IInv'
  BY <1>1, <1>3, <1>7 DEF IInv, ac
<1>10. Advances(validators, validators', epoch)
  <2>1. Follows(validators, validators, epoch)
    BY <1>2, EpochRange, FollowsItself
  <2> QED  BY <1>3, <2>1 DEF Follows, Advances
<1> QED
  BY <1>1, <1>3, <1>8, <1>9, <1>10 DEF n

\* A voluntary exit.
LEMMA ExitStep ==
    ASSUME IInv, NEW i \in DOMAIN validators, ProcessVoluntaryExit(i)
    PROVE  /\ IInv'
           /\ Follows(validators, validators', epoch)
           /\ FundsKept(validators, validators')
<1> DEFINE ac == epoch + MAX_SEED_LOOKAHEAD
<1>1. /\ validators[i].activation_epoch <= epoch
      /\ validators' = InitiateValidatorExit(validators, i, epoch)
      /\ epoch' = epoch /\ finalized' = finalized /\ slashings' = slashings
      /\ slashLog' = slashLog /\ charges' = charges
  BY DEF ProcessVoluntaryExit, is_active_validator
<1>2. epoch \in 0..MaxEpoch /\ Sound(validators, epoch, ac, finalized, epoch)
  BY DEF IInv
<1> HIDE DEF ac
<1>3. /\ Sound(validators', epoch, ac, finalized, epoch)
      /\ Follows(validators, validators', epoch)
      /\ FundsKept(validators, validators')
  BY <1>1, <1>2, ExitKeeps
<1>4. DOMAIN validators' = DOMAIN validators
  BY <1>3 DEF Follows
<1> QED
  BY <1>1, <1>3, <1>4 DEF IInv, ac

\* A slashing.
LEMMA SlashStep ==
    ASSUME IInv, NEW i \in DOMAIN validators, SlashValidator(i)
    PROVE  /\ IInv'
           /\ Follows(validators, validators', epoch)
           /\ ~validators[i].slashed /\ validators'[i].slashed
           /\ validators'[i].withdrawable_epoch >= epoch + EPOCHS_PER_SLASHINGS_VECTOR
           /\ \A j \in DOMAIN validators : j # i =>
                /\ validators'[j].slashed = validators[j].slashed
                /\ validators[j].slashed =>
                     validators'[j].withdrawable_epoch = validators[j].withdrawable_epoch
<1> DEFINE ac == epoch + MAX_SEED_LOOKAHEAD
           slot == epoch % EPOCHS_PER_SLASHINGS_VECTOR
           amount == validators[i].effective_balance
<1>1. /\ is_slashable_validator(validators[i], epoch)
      /\ validators' = Slashed(validators, i, epoch)
      /\ slashings' = [slashings EXCEPT ![slot] = @ + amount]
      /\ slashLog' = [slashLog EXCEPT ![i] = [at |-> epoch, amount |-> amount]]
      /\ epoch' = epoch /\ finalized' = finalized /\ charges' = charges
  BY DEF SlashValidator
<1>2. /\ epoch \in 0..MaxEpoch /\ epoch \in Nat
      /\ Sound(validators, epoch, ac, finalized, epoch)
      /\ slashings \in [0..EPOCHS_PER_SLASHINGS_VECTOR - 1 -> Nat]
      /\ slashLog \in [DOMAIN validators -> [at : Nat, amount : Nat]]
  BY EpochRange DEF IInv
<1>3. amount \in Nat /\ slot \in 0..EPOCHS_PER_SLASHINGS_VECTOR - 1
  <2>1. amount \in EffectiveBalances
    BY EpochRange, EntryTypes
  <2>2. EPOCHS_PER_SLASHINGS_VECTOR \in Nat \ {0} /\ EffectiveBalances \subseteq Nat
    BY RegistryAssumption
  <2> QED  BY <1>2, <2>1, <2>2, RingIndex
<1>4. slashings' \in [0..EPOCHS_PER_SLASHINGS_VECTOR - 1 -> Nat]
  <2> HIDE DEF slot, amount
  <2> QED  BY <1>1, <1>2, <1>3
<1> HIDE DEF ac, slot, amount
<1>5. /\ Sound(validators', epoch, ac, finalized, epoch)
      /\ Follows(validators, validators', epoch)
      /\ validators'[i].slashed
      /\ validators'[i].withdrawable_epoch >= epoch + EPOCHS_PER_SLASHINGS_VECTOR
      /\ \A j \in DOMAIN validators : j # i =>
           /\ validators'[j].slashed = validators[j].slashed
           /\ validators[j].slashed =>
                validators'[j].withdrawable_epoch = validators[j].withdrawable_epoch
  BY <1>1, <1>2, SlashKeeps
<1>6. DOMAIN validators' = DOMAIN validators
  BY <1>5 DEF Follows
<1>7. slashLog' \in [DOMAIN validators' -> [at : Nat, amount : Nat]]
  BY <1>1, <1>2, <1>3, <1>6
<1>8. IInv'
  BY <1>1, <1>4, <1>5, <1>6, <1>7 DEF IInv, ac
<1> QED
  BY <1>1, <1>5, <1>8 DEF is_slashable_validator

\* An epoch transition.
LEMMA EpochStep ==
    ASSUME IInv, ProcessEpoch
    PROVE  /\ IInv'
           /\ epoch' = epoch + 1 /\ finalized <= finalized'
           /\ DOMAIN validators' = DOMAIN validators
           /\ Advances(validators, validators', epoch)
           /\ FundsKept(validators, validators')
           /\ Cardinality({i \in DOMAIN validators' :
                  validators'[i].activation_epoch = epoch + 1 + MAX_SEED_LOOKAHEAD})
                <= MAX_PER_EPOCH_ACTIVATION_CHURN_LIMIT
           /\ \A i \in DOMAIN validators :
                charges'[i] = IF /\ validators[i].slashed
                                 /\ epoch + HalfVector = validators[i].withdrawable_epoch
                              THEN charges[i] + 1 ELSE charges[i]
<1> DEFINE ac == epoch + MAX_SEED_LOOKAHEAD
           date == epoch + 1 + MAX_SEED_LOOKAHEAD
           state_3 == ProcessRegistryUpdates(validators, epoch, finalized')
<1>1. /\ epoch < MaxEpoch /\ finalized' \in Finalizable
      /\ charges' = [i \in DOMAIN validators |->
             IF is_due_slashing(state_3[i], epoch) THEN charges[i] + 1 ELSE charges[i]]
      /\ validators' \in EffectiveBalanceUpdates(state_3)
      /\ slashings' = ProcessSlashingsReset(slashings, epoch)
      /\ epoch' = epoch + 1 /\ slashLog' = slashLog
  BY DEF ProcessEpoch
<1>2. /\ epoch \in 0..MaxEpoch - 1 /\ epoch \in Nat
      /\ finalized \in 0..epoch
      /\ Sound(validators, epoch, ac, finalized, epoch)
  BY <1>1, RegistryAssumption DEF IInv
<1>3. finalized' \in finalized..epoch
  <2> DEFINE low == Min({epoch - 1, MaxFinalized})
             high == Max({finalized, low})
  <2>1. low \in {epoch - 1, MaxFinalized} /\ low <= epoch - 1
    <3> DEFINE a == epoch - 1
    <3>1. a \in Int /\ MaxFinalized \in Int
      BY <1>2, RegistryAssumption
    <3> HIDE DEF a
    <3>2. Min({a, MaxFinalized}) \in {a, MaxFinalized} /\ Min({a, MaxFinalized}) <= a
      BY <3>1, MinOfTwo
    <3> QED  BY <3>2 DEF a
  <2>2. finalized' \in finalized..high
    BY <1>1 DEF Finalizable
  <2>3. low \in Int
    BY <1>2, <2>1, RegistryAssumption
  <2> HIDE DEF low
  <2>4. high \in Int /\ (high = finalized \/ high = low)
    <3>1. finalized \in Int
      BY <1>2
    <3> QED  BY <2>3, <3>1, MaxOfTwo
  <2> HIDE DEF high
  <2> QED  BY <1>2, <2>1, <2>2, <2>3, <2>4
<1>4. PICK fin : fin = finalized'
  OBVIOUS
<1>5. /\ Sound(state_3, epoch + 1, date, fin, epoch)
      /\ DOMAIN state_3 = DOMAIN validators
      /\ Advances(validators, state_3, epoch)
      /\ FundsKept(validators, state_3)
      /\ Cardinality({i \in DOMAIN state_3 : state_3[i].activation_epoch = date})
           <= MAX_PER_EPOCH_ACTIVATION_CHURN_LIMIT
  <2>1. fin \in finalized..epoch
    BY <1>3, <1>4
  <2>2. state_3 = ProcessRegistryUpdates(validators, epoch, fin)
    BY <1>4
  <2> DEFINE new == ProcessRegistryUpdates(validators, epoch, fin)
  <2>3. Updated(validators, new, epoch, fin)
    BY <1>2, <2>1, UpdatesKeep
  <2> HIDE DEF new, state_3
  <2>4. state_3 = new
    BY <2>2 DEF new
  <2> QED  BY <2>3, <2>4 DEF Updated
<1> HIDE DEF ac, date, state_3
<1>6. PICK new : new = validators'
  OBVIOUS
<1>7. new \in EffectiveBalanceUpdates(state_3)
  BY <1>1, <1>6
<1>8. /\ Sound(new, epoch + 1, date, fin, epoch + 1)
      /\ SameDates(state_3, new)
      /\ \A i \in DOMAIN state_3 :
           /\ new[i].slashed = state_3[i].slashed
           /\ new[i].withdrawable_epoch = state_3[i].withdrawable_epoch
  BY <1>2, <1>5, <1>7, BalancesKeep
<1>9. DOMAIN new = DOMAIN validators
  BY <1>5, <1>8 DEF SameDates
<1>10. slashings' \in [0..EPOCHS_PER_SLASHINGS_VECTOR - 1 -> Nat]
  BY <1>1 DEF IInv, ProcessSlashingsReset
<1>11. charges' \in [DOMAIN validators -> Nat]
  <2>1. charges \in [DOMAIN validators -> Nat]
    BY DEF IInv
  <2> QED  BY <1>1, <2>1
<1>12. IInv'
  <2>1. epoch' \in 0..MaxEpoch /\ finalized' \in 0..epoch'
    BY <1>1, <1>2, <1>3, RegistryAssumption
  <2>2. epoch + 1 + MAX_SEED_LOOKAHEAD = date
    BY DEF date
  <2>3. Sound(validators', epoch', epoch' + MAX_SEED_LOOKAHEAD, finalized', epoch')
    BY <1>1, <1>4, <1>6, <1>8, <2>2
  <2> QED  BY <1>1, <1>6, <1>9, <1>10, <1>11, <2>1, <2>3 DEF IInv
<1>13. Advances(validators, new, epoch)
  BY <1>5, <1>8, <1>9 DEF Advances, SameDates
<1>14. FundsKept(validators, new)
  BY <1>5, <1>8 DEF FundsKept
<1>15. Cardinality({i \in DOMAIN new : new[i].activation_epoch = date})
          <= MAX_PER_EPOCH_ACTIVATION_CHURN_LIMIT
  <2>1. {i \in DOMAIN new : new[i].activation_epoch = date}
          = {i \in DOMAIN state_3 : state_3[i].activation_epoch = date}
    BY <1>8 DEF SameDates
  <2> QED  BY <1>5, <2>1
<1>16. ASSUME NEW i \in DOMAIN validators
       PROVE  charges'[i] = IF /\ validators[i].slashed
                               /\ epoch + HalfVector = validators[i].withdrawable_epoch
                            THEN charges[i] + 1 ELSE charges[i]
  <2>1. is_due_slashing(state_3[i], epoch)
          <=> validators[i].slashed /\ epoch + HalfVector = validators[i].withdrawable_epoch
    <3>1. state_3[i].slashed = validators[i].slashed
      BY <1>5 DEF FundsKept
    <3>2. validators[i].slashed =>
            state_3[i].withdrawable_epoch = validators[i].withdrawable_epoch
      BY <1>5 DEF FundsKept
    <3> QED  BY <3>1, <3>2 DEF is_due_slashing
  <2> QED  BY <1>1, <2>1
<1>17. finalized <= finalized'
  BY <1>2, <1>3
<1> QED
  BY <1>1, <1>6, <1>9, <1>12, <1>13, <1>14, <1>15, <1>16, <1>17 DEF date

-----------------------------------------------------------------------------
(* Theorems on the queues *)

LEMMA FollowsAdvances ==
    ASSUME NEW old, NEW new, NEW e, Follows(old, new, e)
    PROVE  Advances(old, new, e) /\ DOMAIN new = DOMAIN old
  BY DEF Follows, Advances

LEMMA NextIInv == IInv /\ [Next]_vars => IInv'
<1> SUFFICES ASSUME IInv, [Next]_vars PROVE IInv'
  OBVIOUS
<1>1. ASSUME NEW balance \in EffectiveBalances, AddValidator(balance) PROVE IInv'
  BY <1>1, AddStep
<1>2. ASSUME NEW i \in DOMAIN validators, ProcessVoluntaryExit(i) PROVE IInv'
  BY <1>2, ExitStep
<1>3. ASSUME NEW i \in DOMAIN validators, SlashValidator(i) PROVE IInv'
  BY <1>3, SlashStep
<1>4. CASE ProcessEpoch
  BY <1>4, EpochStep
<1>5. CASE UNCHANGED vars
  BY <1>5 DEF vars, IInv
<1> QED
  BY <1>1, <1>2, <1>3, <1>4, <1>5 DEF Next

LEMMA NextAdvances ==
    ASSUME IInv, [Next]_vars
    PROVE  /\ Advances(validators, validators', epoch)
           /\ \A i \in DOMAIN validators' \ DOMAIN validators :
                validators'[i].activation_epoch = FAR_FUTURE_EPOCH
<1>1. ASSUME NEW balance \in EffectiveBalances, AddValidator(balance)
      PROVE  /\ Advances(validators, validators', epoch)
             /\ \A i \in DOMAIN validators' \ DOMAIN validators :
                  validators'[i].activation_epoch = FAR_FUTURE_EPOCH
  BY <1>1, AddStep
<1>2. ASSUME NEW i \in DOMAIN validators, ProcessVoluntaryExit(i)
      PROVE  Advances(validators, validators', epoch) /\ DOMAIN validators' = DOMAIN validators
  BY <1>2, ExitStep, FollowsAdvances
<1>3. ASSUME NEW i \in DOMAIN validators, SlashValidator(i)
      PROVE  Advances(validators, validators', epoch) /\ DOMAIN validators' = DOMAIN validators
  BY <1>3, SlashStep, FollowsAdvances
<1>4. ASSUME ProcessEpoch
      PROVE  Advances(validators, validators', epoch) /\ DOMAIN validators' = DOMAIN validators
  BY <1>4, EpochStep
<1>5. ASSUME UNCHANGED vars
      PROVE  Advances(validators, validators', epoch) /\ DOMAIN validators' = DOMAIN validators
  <2>1. Follows(validators, validators, epoch)
    BY EpochRange, FollowsItself DEF IInv
  <2> QED  BY <1>5, <2>1, FollowsAdvances DEF vars
<1> QED
  BY <1>1, <1>2, <1>3, <1>4, <1>5 DEF Next

\* The registry of epoch 'epoch' is sound in every state, for any preset within the
\* assumptions: its dates follow each other, and its queues are in order.
THEOREM RegistryInvariance == Spec => []IInv
<1> QED
  BY InitIInv, NextIInv, PTL DEF Spec

\* For any preset, every date of a validator is in its range, in the order of its life.
THEOREM TypeCorrect == Spec => []TypeOK
<1>1. IInv => TypeOK
  <2> SUFFICES ASSUME IInv PROVE TypeOK
    OBVIOUS
  <2>1. ASSUME NEW i \in DOMAIN validators
        PROVE  /\ validators[i] \in Validator
               /\ Dated(validators[i], epoch, epoch + MAX_SEED_LOOKAHEAD, finalized)
    BY EpochRange, EntryTypes DEF IInv, Sound
  <2> QED  BY <2>1 DEF IInv, TypeOK, Dated
<1> QED
  BY <1>1, RegistryInvariance, PTL

\* For any preset, no validator overtakes another in the activation queue, and none is
\* active before its eligibility is finalized.
THEOREM AlwaysActivatedInTurn == Spec => []ActivatedInTurn
<1>1. IInv => ActivatedInTurn
  <2> SUFFICES ASSUME IInv PROVE ActivatedInTurn
    OBVIOUS
  <2>1. ActivationOrder
    BY DEF IInv, Sound, Ordered, ActivationOrder
  <2>2. ActiveWasFinalized
    <3> SUFFICES ASSUME NEW i \in DOMAIN validators, is_active_validator(validators[i], epoch)
                 PROVE  validators[i].activation_eligibility_epoch <= finalized
      BY DEF ActiveWasFinalized
    <3>1. Dated(validators[i], epoch, epoch + MAX_SEED_LOOKAHEAD, finalized)
      BY DEF IInv, Sound
    <3>2. validators[i].activation_epoch # FAR_FUTURE_EPOCH
      <4>1. validators[i].activation_epoch <= epoch
        BY DEF is_active_validator
      <4>2. ~(FAR_FUTURE_EPOCH <= epoch)
        BY RegistryAssumption DEF IInv
      <4> QED  BY <4>1, <4>2
    <3> QED  BY <3>1, <3>2 DEF Dated
  <2> QED  BY <2>1, <2>2 DEF ActivatedInTurn
<1> QED
  BY <1>1, RegistryInvariance, PTL

LEMMA InitChurn == Init => ActivationChurn
<1> SUFFICES ASSUME Init, NEW x \in 1..epoch + MAX_SEED_LOOKAHEAD
             PROVE  Cardinality({i \in DOMAIN validators : validators[i].activation_epoch = x})
                      <= MAX_PER_EPOCH_ACTIVATION_CHURN_LIMIT
  BY DEF ActivationChurn
<1>1. \A i \in DOMAIN validators : validators[i].activation_epoch = 0
  BY DEF Init, GenesisValidator
<1>2. {i \in DOMAIN validators : validators[i].activation_epoch = x} = {}
  BY <1>1
<1> QED
  BY <1>2, FS_EmptySet, RegistryAssumption

\* The validators activated for each of the epochs that are settled stay the same.
LEMMA NextChurn ==
    ASSUME IInv, ActivationChurn, [Next]_vars
    PROVE  ActivationChurn'
<1> DEFINE At(vs, x) == {i \in DOMAIN vs : vs[i].activation_epoch = x}
           last == epoch + MAX_SEED_LOOKAHEAD
<1>1. PICK new : new = validators'
  OBVIOUS
<1>2. /\ Advances(validators, new, epoch)
      /\ \A i \in DOMAIN new \ DOMAIN validators : new[i].activation_epoch = FAR_FUTURE_EPOCH
  BY <1>1, NextAdvances
<1>3. /\ last \in Nat /\ epoch \in Nat
      /\ epoch + 1 + MAX_SEED_LOOKAHEAD = last + 1
      /\ last < FAR_FUTURE_EPOCH /\ FAR_FUTURE_EPOCH \in Nat
  BY EpochRange, RegistryAssumption
<1>4. ASSUME NEW x \in 1..last
      PROVE  Cardinality(At(new, x)) <= MAX_PER_EPOCH_ACTIVATION_CHURN_LIMIT
  <2>1. x # FAR_FUTURE_EPOCH /\ x # last + 1
    BY <1>3
  <2> HIDE DEF last
  <2>2. At(new, x) = At(validators, x)
    BY <1>2, <1>3, <2>1 DEF Advances
  <2>3. Cardinality(At(validators, x)) <= MAX_PER_EPOCH_ACTIVATION_CHURN_LIMIT
    BY DEF ActivationChurn, last
  <2> QED  BY <2>2, <2>3
<1>5. CASE epoch' = epoch
  BY <1>1, <1>4, <1>5 DEF ActivationChurn
<1>6. CASE ProcessEpoch
  <2>1. /\ epoch' = epoch + 1
        /\ Cardinality(At(new, last + 1)) <= MAX_PER_EPOCH_ACTIVATION_CHURN_LIMIT
    BY <1>1, <1>3, <1>6, EpochStep
  <2>2. epoch' + MAX_SEED_LOOKAHEAD = last + 1
    BY <1>3, <2>1
  <2>3. ASSUME NEW x \in 1..last + 1
        PROVE  Cardinality(At(new, x)) <= MAX_PER_EPOCH_ACTIVATION_CHURN_LIMIT
    <3>1. x \in 1..last \/ x = last + 1
      BY <1>3
    <3> HIDE DEF At, last
    <3> QED  BY <1>4, <2>1, <3>1
  <2> HIDE DEF last
  <2> QED  BY <1>1, <2>2, <2>3 DEF ActivationChurn
<1> QED
  BY <1>5, <1>6 DEF Next, AddValidator, ProcessVoluntaryExit, SlashValidator, vars

\* For any preset, neither end of a validator's life sees more than the churn limit in
\* one epoch.
THEOREM ChurnAlwaysRespected == Spec => []ChurnRespected
<1>1. Init => ActivationChurn
  BY InitChurn
<1>2. IInv /\ ActivationChurn /\ [Next]_vars => ActivationChurn'
  BY NextChurn
<1>3. IInv => ExitQueueChurn
  BY DEF IInv, Sound, ExitsFit, ExitQueueChurn, ChurnLimitOf, Activated
<1>4. ActivationChurn /\ ExitQueueChurn => ChurnRespected
  BY DEF ChurnRespected
<1> QED
  BY <1>1, <1>2, <1>3, <1>4, RegistryInvariance, PTL DEF Spec

\* For any preset, no step lets a validator into the exit queue ahead of others, or moves
\* one that is in it.
THEOREM ExitsInTurn == Spec => ExitQueueFIFO
<1> DEFINE A == \A i, j \in DOMAIN validators :
          LET before == validators[j].exit_epoch
              given  == validators'[i].exit_epoch
          IN  before # FAR_FUTURE_EPOCH =>
                /\ validators'[j].exit_epoch = before
                /\ validators[i].exit_epoch = FAR_FUTURE_EPOCH => given >= before
<1>1. IInv /\ [Next]_vars => A
  <2> SUFFICES ASSUME IInv, [Next]_vars PROVE A
    OBVIOUS
  <2>1. Advances(validators, validators', epoch)
    BY NextAdvances
  <2> QED  BY <2>1 DEF Advances, Leaving
<1>2. IInv /\ [Next]_vars => [A]_vars
  BY <1>1
<1> HIDE DEF A
<1>3. Spec => [][A]_vars
  BY <1>2, RegistryInvariance, PTL DEF Spec
<1> QED
  BY <1>3 DEF ExitQueueFIFO, A

\* For any preset, the active sets of the current epoch and of those within the
\* lookahead are settled.
THEOREM ActiveSetsSettled == Spec => ActiveSetLookahead
<1> DEFINE A == \A e \in epoch..epoch + MAX_SEED_LOOKAHEAD :
          get_active_validator_indices(validators', e)
              = get_active_validator_indices(validators, e)
<1>1. IInv /\ [Next]_vars => A
  <2> SUFFICES ASSUME IInv, [Next]_vars, NEW x \in epoch..epoch + MAX_SEED_LOOKAHEAD
               PROVE  get_active_validator_indices(validators', x)
                        = get_active_validator_indices(validators, x)
    OBVIOUS
  <2>1. /\ Advances(validators, validators', epoch)
        /\ \A i \in DOMAIN validators' \ DOMAIN validators :
             validators'[i].activation_epoch = FAR_FUTURE_EPOCH
    BY NextAdvances
  <2>2. /\ x \in Nat /\ x < FAR_FUTURE_EPOCH /\ x < epoch + 1 + MAX_SEED_LOOKAHEAD
        /\ epoch + 1 + MAX_SEED_LOOKAHEAD \in Nat /\ FAR_FUTURE_EPOCH \in Nat
    BY EpochRange, RegistryAssumption
  <2>3. IsRegistry(validators) /\ IsRegistry(validators')
    BY NextIInv DEF IInv, Sound
  <2>4. ASSUME NEW i \in DOMAIN validators
        PROVE  is_active_validator(validators'[i], x) <=> is_active_validator(validators[i], x)
    <3>1. i \in DOMAIN validators'
      BY <2>1 DEF Advances
    <3>2. /\ validators[i].activation_epoch \in Nat /\ validators[i].exit_epoch \in Nat
          /\ validators'[i].activation_epoch \in Nat /\ validators'[i].exit_epoch \in Nat
      BY <2>3, <3>1, EntryTypes
    <3>3. \/ validators'[i].activation_epoch = validators[i].activation_epoch
          \/ /\ validators[i].activation_epoch = FAR_FUTURE_EPOCH
             /\ validators'[i].activation_epoch = epoch + 1 + MAX_SEED_LOOKAHEAD
      BY <2>1 DEF Advances
    <3>4. \/ validators'[i].exit_epoch = validators[i].exit_epoch
          \/ /\ validators[i].exit_epoch = FAR_FUTURE_EPOCH
             /\ validators'[i].exit_epoch >= epoch + 1 + MAX_SEED_LOOKAHEAD
      BY <2>1 DEF Advances
    <3>5. validators'[i].activation_epoch <= x <=> validators[i].activation_epoch <= x
      BY <2>2, <3>2, <3>3
    <3>6. x < validators'[i].exit_epoch <=> x < validators[i].exit_epoch
      BY <2>2, <3>2, <3>4
    <3> QED  BY <3>5, <3>6 DEF is_active_validator
  <2>5. ASSUME NEW i \in DOMAIN validators' \ DOMAIN validators
        PROVE  ~is_active_validator(validators'[i], x)
    BY <2>1, <2>2 DEF is_active_validator
  <2>6. DOMAIN validators \subseteq DOMAIN validators'
    BY <2>1 DEF Advances
  <2> QED  BY <2>4, <2>5, <2>6 DEF get_active_validator_indices
<1>2. IInv /\ [Next]_vars => [A]_vars
  BY <1>1
<1> QED
  BY <1>2, RegistryInvariance, PTL DEF Spec, ActiveSetLookahead

-----------------------------------------------------------------------------
(* Sums of what was slashed *)

\* The sum that SlashingsWindow compares with: of the amounts of the log's entries in S.
Sum(log, S) == MapThenSumSet(LAMBDA i : log[i].amount, S)

Pick(S) == CHOOSE x \in S : TRUE

\* f gives the sum over each subset of S, element by element.
Sums(f, log, S) ==
    f = [s \in SUBSET S |->
           IF s = {} THEN 0 ELSE log[Pick(s)].amount + f[s \ {Pick(s)}]]

LEMMA PickIn == ASSUME NEW S, S # {} PROVE Pick(S) \in S
  BY DEF Pick

\* Such a function exists for each finite set.
LEMMA SumsExist ==
    ASSUME NEW log, NEW S, IsFiniteSet(S)
    PROVE  \E f : Sums(f, log, S)
<1> DEFINE Small(n) == {s \in SUBSET S : Cardinality(s) <= n}
           Part(f, n) ==
             f = [s \in Small(n) |->
                    IF s = {} THEN 0 ELSE log[Pick(s)].amount + f[s \ {Pick(s)}]]
           T == {n \in Nat : \E f : Part(f, n)}
<1>1. ASSUME NEW s \in SUBSET S PROVE IsFiniteSet(s) /\ Cardinality(s) \in Nat
  BY FS_Subset, FS_CardinalityType
<1>2. 0 \in T
  <2> DEFINE f == [s \in Small(0) |-> 0]
  <2>1. \A s \in Small(0) : s = {}
    BY <1>1, FS_EmptySet
  <2>2. Part(f, 0)
    <3>1. f = [s \in Small(0) |->
                 IF s = {} THEN 0 ELSE log[Pick(s)].amount + f[s \ {Pick(s)}]]
      <4> HIDE DEF Small
      <4> QED  BY <2>1
    <3> QED  BY <3>1
  <2> HIDE DEF f, Part
  <2> QED  BY <2>2
<1>3. ASSUME NEW n \in Nat, n \in T PROVE n + 1 \in T
  <2>1. PICK f : Part(f, n)
    BY <1>3
  <2> DEFINE g == [s \in Small(n + 1) |->
                     IF s = {} THEN 0 ELSE log[Pick(s)].amount + f[s \ {Pick(s)}]]
  <2>2. ASSUME NEW s \in Small(n + 1), s # {}
        PROVE  s \ {Pick(s)} \in Small(n) /\ s \ {Pick(s)} \in Small(n + 1)
    <3>1. Pick(s) \in s
      BY <2>2, PickIn
    <3>2. /\ Cardinality(s \ {Pick(s)}) = Cardinality(s) - 1
          /\ Cardinality(s) \in Nat /\ Cardinality(s) <= n + 1
      BY <1>1, <3>1, FS_RemoveElement
    <3>3. Cardinality(s \ {Pick(s)}) <= n /\ Cardinality(s \ {Pick(s)}) <= n + 1
      BY <3>2
    <3> QED  BY <3>3
  <2>3. ASSUME NEW s \in Small(n) PROVE s \in Small(n + 1) /\ g[s] = f[s]
    <3>1. s \in Small(n + 1)
      <4>1. Cardinality(s) \in Nat /\ Cardinality(s) <= n
        BY <1>1
      <4>2. Cardinality(s) <= n + 1
        BY <4>1
      <4> QED  BY <4>2
    <3> HIDE DEF Small
    <3>2. f[s] = IF s = {} THEN 0 ELSE log[Pick(s)].amount + f[s \ {Pick(s)}]
      BY <2>1
    <3> QED  BY <3>1, <3>2
  <2> HIDE DEF Small
  <2>4. g = [s \in Small(n + 1) |->
               IF s = {} THEN 0 ELSE log[Pick(s)].amount + g[s \ {Pick(s)}]]
    <3>1. ASSUME NEW s \in Small(n + 1), s # {}
          PROVE  g[s \ {Pick(s)}] = f[s \ {Pick(s)}]
      BY <2>2, <2>3, <3>1
    <3> QED  BY <3>1
  <2>5. Part(g, n + 1)
    BY <2>4
  <2> HIDE DEF g, Part
  <2> QED  BY <2>5
<1>4. Nat \subseteq T
  <2> HIDE DEF T
  <2> QED  BY <1>2, <1>3, SetInduction
<1>5. Cardinality(S) \in Nat
  BY FS_CardinalityType
<1>6. PICK f : Part(f, Cardinality(S))
  BY <1>4, <1>5
<1>7. Small(Cardinality(S)) = SUBSET S
  BY FS_Subset
<1>8. Sums(f, log, S)
  <2> HIDE DEF Small
  <2> QED  BY <1>6, <1>7 DEF Sums
<1> QED
  BY <1>8

LEMMA SumIs ==
    ASSUME NEW log, NEW S, IsFiniteSet(S)
    PROVE  \E f : Sums(f, log, S) /\ Sum(log, S) = f[S]
<1> DEFINE sums == CHOOSE f : Sums(f, log, S)
<1>1. Sums(sums, log, S)
  BY SumsExist
<1>2. Sum(log, S) = sums[S]
  BY DEF Sum, MapThenSumSet, MapThenFoldSet, Sums, Pick
<1> QED
  BY <1>1, <1>2

\* What such a function gives for a subset does not depend on the whole.
LEMMA SumsAgree ==
    ASSUME NEW log, NEW S, IsFiniteSet(S), NEW T \in SUBSET S,
           NEW f, Sums(f, log, S), NEW g, Sums(g, log, T)
    PROVE  f[T] = g[T]
<1> DEFINE N == {n \in Nat : \A s \in SUBSET T : Cardinality(s) = n => f[s] = g[s]}
<1>1. ASSUME NEW s \in SUBSET T
      PROVE  /\ f[s] = IF s = {} THEN 0 ELSE log[Pick(s)].amount + f[s \ {Pick(s)}]
             /\ g[s] = IF s = {} THEN 0 ELSE log[Pick(s)].amount + g[s \ {Pick(s)}]
             /\ IsFiniteSet(s) /\ Cardinality(s) \in Nat
  <2>1. s \in SUBSET S
    OBVIOUS
  <2>2. IsFiniteSet(s) /\ Cardinality(s) \in Nat
    BY <2>1, FS_Subset, FS_CardinalityType
  <2> QED  BY <2>1, <2>2 DEF Sums
<1>2. 0 \in N
  <2> SUFFICES ASSUME NEW s \in SUBSET T, Cardinality(s) = 0 PROVE f[s] = g[s]
    OBVIOUS
  <2>1. s = {}
    BY <1>1, FS_EmptySet
  <2> QED  BY <1>1, <2>1
<1>3. ASSUME NEW n \in Nat, n \in N PROVE n + 1 \in N
  <2> SUFFICES ASSUME NEW s \in SUBSET T, Cardinality(s) = n + 1 PROVE f[s] = g[s]
    OBVIOUS
  <2>1. s # {}
    BY FS_EmptySet
  <2>2. Pick(s) \in s
    BY <2>1, PickIn
  <2>3. Cardinality(s \ {Pick(s)}) = n
    <3>1. Cardinality(s \ {Pick(s)}) = Cardinality(s) - 1
      BY <1>1, <2>2, FS_RemoveElement
    <3> QED  BY <3>1
  <2>4. f[s \ {Pick(s)}] = g[s \ {Pick(s)}]
    BY <1>3, <2>3
  <2> QED  BY <1>1, <2>1, <2>4
<1>4. Nat \subseteq N
  <2> HIDE DEF N
  <2> QED  BY <1>2, <1>3, SetInduction
<1>5. Cardinality(T) \in Nat
  BY <1>1
<1> QED
  BY <1>4, <1>5

LEMMA SumOfNone ==
    ASSUME NEW log
    PROVE  Sum(log, {}) = 0
<1>1. PICK f : Sums(f, log, {}) /\ Sum(log, {}) = f[{}]
  BY SumIs, FS_EmptySet
<1> QED
  BY <1>1 DEF Sums

\* The sum is that of the element picked and of the others.
LEMMA SumUnfolds ==
    ASSUME NEW log, NEW S, IsFiniteSet(S), S # {}
    PROVE  Sum(log, S) = log[Pick(S)].amount + Sum(log, S \ {Pick(S)})
<1> DEFINE rest == S \ {Pick(S)}
<1>1. rest \in SUBSET S /\ IsFiniteSet(rest)
  BY FS_Subset
<1>2. PICK f : Sums(f, log, S) /\ Sum(log, S) = f[S]
  BY SumIs
<1>3. PICK g : Sums(g, log, rest) /\ Sum(log, rest) = g[rest]
  BY <1>1, SumIs
<1>4. f[rest] = g[rest]
  BY <1>1, <1>2, <1>3, SumsAgree
<1>5. f[S] = log[Pick(S)].amount + f[rest]
  BY <1>2 DEF Sums
<1> QED
  BY <1>2, <1>3, <1>4, <1>5

\* A further element adds its amount, whichever is picked first.
LEMMA SumAdds ==
    ASSUME NEW log, NEW S, IsFiniteSet(S), \A i \in S : log[i].amount \in Nat,
           NEW x \in S
    PROVE  /\ Sum(log, S) = Sum(log, S \ {x}) + log[x].amount
           /\ Sum(log, S) \in Nat /\ Sum(log, S \ {x}) \in Nat
<1> DEFINE Adds(s) == /\ Sum(log, s) \in Nat
                      /\ \A y \in s : /\ Sum(log, s \ {y}) \in Nat
                                      /\ Sum(log, s) = Sum(log, s \ {y}) + log[y].amount
           N == {n \in Nat : \A s \in SUBSET S : Cardinality(s) = n => Adds(s)}
<1>1. ASSUME NEW s \in SUBSET S PROVE IsFiniteSet(s) /\ Cardinality(s) \in Nat
  BY FS_Subset, FS_CardinalityType
<1> HIDE DEF Adds
<1>2. 0 \in N
  <2> SUFFICES ASSUME NEW s \in SUBSET S, Cardinality(s) = 0 PROVE Adds(s)
    OBVIOUS
  <2>1. s = {}
    BY <1>1, FS_EmptySet
  <2> QED  BY <2>1, SumOfNone DEF Adds
<1>3. ASSUME NEW n \in Nat, n \in N PROVE n + 1 \in N
  <2> SUFFICES ASSUME NEW s \in SUBSET S, Cardinality(s) = n + 1 PROVE Adds(s)
    OBVIOUS
  <2>1. \A t \in SUBSET S : Cardinality(t) = n => Adds(t)
    BY <1>3
  <2> DEFINE p == Pick(s)
  <2>2. s # {}
    BY FS_EmptySet
  <2>3. p \in s
    BY <2>2, PickIn
  <2>4. ASSUME NEW y \in s PROVE Adds(s \ {y}) /\ log[y].amount \in Nat
    <3>1. Cardinality(s \ {y}) = Cardinality(s) - 1
      BY <1>1, FS_RemoveElement
    <3> QED  BY <2>1, <3>1
  <2>5. Sum(log, s) = log[p].amount + Sum(log, s \ {p})
    BY <1>1, <2>2, SumUnfolds
  <2> HIDE DEF p
  <2>6. Sum(log, s) \in Nat
    <3>1. Sum(log, s \ {p}) \in Nat /\ log[p].amount \in Nat
      BY <2>3, <2>4 DEF Adds
    <3> QED  BY <2>5, <3>1
  <2>7. ASSUME NEW y \in s
        PROVE  Sum(log, s \ {y}) \in Nat /\ Sum(log, s) = Sum(log, s \ {y}) + log[y].amount
    <3>1. /\ Sum(log, s \ {p}) \in Nat /\ log[p].amount \in Nat
          /\ Sum(log, s \ {y}) \in Nat /\ log[y].amount \in Nat
      BY <2>3, <2>4 DEF Adds
    <3>2. CASE y = p
      BY <2>5, <3>1, <3>2
    <3>3. CASE y # p
      <4> DEFINE both == (s \ {p}) \ {y}
      <4>1. /\ y \in s \ {p} /\ p \in s \ {y}
            /\ both = (s \ {y}) \ {p}
        BY <2>3, <3>3
      <4>2. Sum(log, s \ {p}) = Sum(log, both) + log[y].amount
        BY <2>3, <2>4, <4>1 DEF Adds
      <4>3. Sum(log, s \ {y}) = Sum(log, both) + log[p].amount
        BY <2>4, <4>1 DEF Adds
      <4>4. Sum(log, both) \in Nat
        BY <2>3, <2>4, <4>1 DEF Adds
      <4> HIDE DEF both
      <4> QED  BY <2>5, <3>1, <4>2, <4>3, <4>4
    <3> QED  BY <3>2, <3>3
  <2> QED  BY <2>6, <2>7 DEF Adds
<1>4. Nat \subseteq N
  <2> HIDE DEF N
  <2> QED  BY <1>2, <1>3, SetInduction
<1>5. ASSUME NEW s \in SUBSET S PROVE Adds(s)
  BY <1>1, <1>4
<1>6. Adds(S) /\ Adds(S \ {x})
  BY <1>5
<1> QED
  BY <1>6 DEF Adds

-----------------------------------------------------------------------------
(* Charges and the ring of what was slashed *)

\* A sum depends on the amounts alone.
LEMMA SumSame ==
    ASSUME NEW log, NEW other, NEW S, IsFiniteSet(S),
           \A i \in S : other[i].amount = log[i].amount
    PROVE  Sum(other, S) = Sum(log, S)
<1> DEFINE N == {n \in Nat : \A s \in SUBSET S :
                    Cardinality(s) = n => Sum(other, s) = Sum(log, s)}
<1>1. ASSUME NEW s \in SUBSET S PROVE IsFiniteSet(s) /\ Cardinality(s) \in Nat
  BY FS_Subset, FS_CardinalityType
<1>2. 0 \in N
  <2> SUFFICES ASSUME NEW s \in SUBSET S, Cardinality(s) = 0
               PROVE  Sum(other, s) = Sum(log, s)
    OBVIOUS
  <2>1. s = {}
    BY <1>1, FS_EmptySet
  <2> QED  BY <2>1, SumOfNone
<1>3. ASSUME NEW n \in Nat, n \in N PROVE n + 1 \in N
  <2> SUFFICES ASSUME NEW s \in SUBSET S, Cardinality(s) = n + 1
               PROVE  Sum(other, s) = Sum(log, s)
    OBVIOUS
  <2>1. s # {}
    BY FS_EmptySet
  <2>2. Pick(s) \in s
    BY <2>1, PickIn
  <2>3. Cardinality(s \ {Pick(s)}) = n
    <3>1. Cardinality(s \ {Pick(s)}) = Cardinality(s) - 1
      BY <1>1, <2>2, FS_RemoveElement
    <3> QED  BY <3>1
  <2>4. Sum(other, s \ {Pick(s)}) = Sum(log, s \ {Pick(s)})
    BY <1>3, <2>3
  <2>5. /\ Sum(other, s) = other[Pick(s)].amount + Sum(other, s \ {Pick(s)})
        /\ Sum(log, s) = log[Pick(s)].amount + Sum(log, s \ {Pick(s)})
    BY <1>1, <2>1, SumUnfolds
  <2>6. other[Pick(s)].amount = log[Pick(s)].amount
    BY <2>2
  <2> QED  BY <2>4, <2>5, <2>6
<1>4. Nat \subseteq N
  <2> HIDE DEF N
  <2> QED  BY <1>2, <1>3, SetInduction
<1>5. Cardinality(S) \in Nat
  BY <1>1
<1> QED
  BY <1>4, <1>5

\* The log dates the slashings, and says nothing of the others.
Logged ==
    \A i \in DOMAIN validators :
        IF validators[i].slashed THEN slashLog[i].at \in 0..epoch
                                 ELSE slashLog[i] = Unslashed

\* Who was slashed in epoch x.
Of(log, x) == {i \in DOMAIN log : log[i].at = x}

\* In epoch e the ring holds the sums of the epochs that share it.
Window(ring, log, e) ==
    \A x \in 0..e :
        e < x + EPOCHS_PER_SLASHINGS_VECTOR =>
            ring[x % EPOCHS_PER_SLASHINGS_VECTOR] = Sum(log, Of(log, x))

LEMMA WindowSays ==
    ASSUME IInv
    PROVE  SlashingsWindow <=> Window(slashings, slashLog, epoch)
<1> DEFINE N == EPOCHS_PER_SLASHINGS_VECTOR
           last == Min({epoch, N - 1})
<1>1. epoch \in Nat /\ N \in Nat \ {0, 1}
  BY EpochRange, RegistryAssumption
<1>2. last \in {epoch, N - 1} /\ last <= epoch /\ last <= N - 1
  <2> DEFINE b == N - 1
  <2>1. b \in Int
    BY <1>1
  <2> HIDE DEF b
  <2>2. Min({epoch, b}) \in {epoch, b} /\ Min({epoch, b}) <= epoch /\ Min({epoch, b}) <= b
    BY <1>1, <2>1, MinOfTwo
  <2> QED  BY <2>2 DEF b
<1>3. SlashingsWindow <=> \A d \in 0..last :
                            slashings[(epoch - d) % N] = Sum(slashLog, Of(slashLog, epoch - d))
  BY DEF SlashingsWindow, Sum, Of
<1>4. Window(slashings, slashLog, epoch) <=>
        \A x \in 0..epoch : epoch < x + N => slashings[x % N] = Sum(slashLog, Of(slashLog, x))
  BY DEF Window
<1> HIDE DEF N, last
<1> DEFINE Holds(x) == slashings[x % N] = Sum(slashLog, Of(slashLog, x))
<1>5. SlashingsWindow <=> \A d \in 0..last : Holds(epoch - d)
  BY <1>3
<1>6. Window(slashings, slashLog, epoch) <=> \A x \in 0..epoch : epoch < x + N => Holds(x)
  BY <1>4
<1> HIDE DEF Holds
<1>7. ASSUME \A d \in 0..last : Holds(epoch - d), NEW x \in 0..epoch, epoch < x + N
      PROVE  Holds(x)
  <2> DEFINE d == epoch - x
  <2>1. d \in 0..last /\ epoch - d = x
    BY <1>1, <1>2, <1>7
  <2> HIDE DEF d
  <2> QED  BY <1>7, <2>1
<1>8. ASSUME \A x \in 0..epoch : epoch < x + N => Holds(x), NEW d \in 0..last
      PROVE  Holds(epoch - d)
  <2> DEFINE x == epoch - d
  <2>1. x \in 0..epoch /\ epoch < x + N
    BY <1>1, <1>2
  <2> HIDE DEF x
  <2>2. Holds(x)
    BY <1>8, <2>1
  <2> QED  BY <2>2 DEF x
<1> QED
  BY <1>5, <1>6, <1>7, <1>8

\* The sum of an epoch stays when nobody is, or was, slashed in it by the step.
LEMMA SumStays ==
    ASSUME NEW S, IsFiniteSet(S), NEW log, DOMAIN log \subseteq S,
           NEW other, NEW x, Of(other, x) = Of(log, x),
           \A i \in Of(log, x) : other[i].amount = log[i].amount
    PROVE  Sum(other, Of(other, x)) = Sum(log, Of(log, x))
<1>1. IsFiniteSet(Of(log, x))
  BY FS_Subset DEF Of
<1> QED
  BY <1>1, SumSame

\* The invariant of the charges and of the ring.
SInv == IInv /\ Logged /\ ChargedOnce /\ Window(slashings, slashLog, epoch)

LEMMA HalfIsLess == HalfVector \in Nat \ {0} /\ HalfVector < EPOCHS_PER_SLASHINGS_VECTOR
<1> DEFINE N == EPOCHS_PER_SLASHINGS_VECTOR
           q == N \div 2
<1>1. N \in Nat \ {0, 1}
  BY RegistryAssumption
<1> HIDE DEF N
<1>2. N = 2 * q + (N % 2) /\ q \in Int /\ N % 2 \in 0..1
  BY <1>1
<1> HIDE DEF q
<1>3. q \in Nat \ {0} /\ q < N
  BY <1>1, <1>2
<1> QED
  BY <1>3 DEF q, N, HalfVector

LEMMA InitSInv == Init => SInv
<1> SUFFICES ASSUME Init PROVE SInv
  OBVIOUS
<1>1. IInv
  BY InitIInv
<1>2. /\ \A i \in DOMAIN validators : /\ ~validators[i].slashed
                                      /\ slashLog[i] = Unslashed /\ charges[i] = 0
      /\ DOMAIN slashLog = DOMAIN validators
      /\ epoch = 0 /\ slashings = [k \in 0..EPOCHS_PER_SLASHINGS_VECTOR - 1 |-> 0]
  BY DEF Init, GenesisValidator
<1>3. Logged /\ ChargedOnce
  BY <1>2 DEF Logged, ChargedOnce
<1>4. Of(slashLog, 0) = {}
  <2>1. FAR_FUTURE_EPOCH # 0
    BY RegistryAssumption
  <2> QED  BY <1>2, <2>1 DEF Of, Unslashed
<1>5. Window(slashings, slashLog, epoch)
  <2> SUFFICES ASSUME NEW x \in 0..epoch
               PROVE  slashings[x % EPOCHS_PER_SLASHINGS_VECTOR]
                        = Sum(slashLog, Of(slashLog, x))
    BY DEF Window
  <2>1. x = 0
    BY <1>2
  <2>2. slashings[0 % EPOCHS_PER_SLASHINGS_VECTOR] = 0
    <3>1. 0 % EPOCHS_PER_SLASHINGS_VECTOR \in 0..EPOCHS_PER_SLASHINGS_VECTOR - 1
      BY RegistryAssumption, RingIndex
    <3> QED  BY <1>2, <3>1
  <2>3. Sum(slashLog, Of(slashLog, 0)) = 0
    BY <1>4, SumOfNone
  <2> QED  BY <2>1, <2>2, <2>3
<1> QED
  BY <1>1, <1>3, <1>5 DEF SInv

-----------------------------------------------------------------------------
(* The steps *)

LEMMA NextLogged ==
    ASSUME SInv, [Next]_vars
    PROVE  Logged'
<1>1. /\ IInv /\ Logged
      /\ epoch \in Nat
  BY EpochRange DEF SInv
<1>2. ASSUME NEW balance \in EffectiveBalances, AddValidator(balance) PROVE Logged'
  <2> DEFINE n == Cardinality(DOMAIN validators)
  <2>1. /\ epoch' = epoch
        /\ DOMAIN validators' = DOMAIN validators \cup {n}
        /\ \A i \in DOMAIN validators : /\ validators'[i] = validators[i]
                                        /\ slashLog'[i] = slashLog[i]
        /\ ~validators'[n].slashed /\ slashLog'[n] = Unslashed
    BY <1>1, <1>2, AddStep
  <2> HIDE DEF n
  <2> QED  BY <1>1, <2>1 DEF Logged, Unslashed
<1>3. ASSUME NEW i \in DOMAIN validators, ProcessVoluntaryExit(i) PROVE Logged'
  <2>1. /\ epoch' = epoch /\ slashLog' = slashLog
        /\ DOMAIN validators' = DOMAIN validators
        /\ \A j \in DOMAIN validators : validators'[j].slashed = validators[j].slashed
    BY <1>1, <1>3, ExitStep DEF ProcessVoluntaryExit, Follows, FundsKept
  <2> QED  BY <1>1, <2>1 DEF Logged, Unslashed
<1>4. ASSUME NEW i \in DOMAIN validators, SlashValidator(i) PROVE Logged'
  <2> DEFINE entry == [at |-> epoch, amount |-> validators[i].effective_balance]
  <2>1. /\ epoch' = epoch /\ slashLog' = [slashLog EXCEPT ![i] = entry]
    BY <1>4 DEF SlashValidator
  <2>2. /\ DOMAIN validators' = DOMAIN validators
        /\ validators'[i].slashed
        /\ \A j \in DOMAIN validators \ {i} : validators'[j].slashed = validators[j].slashed
    BY <1>1, <1>4, SlashStep DEF Follows
  <2>3. DOMAIN slashLog = DOMAIN validators
    BY <1>1 DEF IInv
  <2>4. /\ slashLog'[i].at = epoch
        /\ \A j \in DOMAIN validators \ {i} : slashLog'[j] = slashLog[j]
    BY <2>1, <2>3
  <2>5. epoch \in 0..epoch
    BY <1>1
  <2> QED  BY <1>1, <2>1, <2>2, <2>4, <2>5 DEF Logged, Unslashed
<1>5. ASSUME ProcessEpoch PROVE Logged'
  <2>1. /\ epoch' = epoch + 1 /\ slashLog' = slashLog
        /\ DOMAIN validators' = DOMAIN validators
        /\ \A j \in DOMAIN validators : validators'[j].slashed = validators[j].slashed
    BY <1>1, <1>5, EpochStep DEF ProcessEpoch, FundsKept
  <2> QED  BY <1>1, <2>1 DEF Logged, Unslashed
<1>6. ASSUME UNCHANGED vars PROVE Logged'
  BY <1>1, <1>6 DEF vars, Logged, Unslashed
<1> QED
  BY <1>2, <1>3, <1>4, <1>5, <1>6 DEF Next

LEMMA NextCharged ==
    ASSUME SInv, [Next]_vars
    PROVE  ChargedOnce'
<1>1. /\ IInv
      /\ \A i \in DOMAIN validators :
           charges[i] = IF /\ validators[i].slashed
                           /\ epoch + HalfVector > validators[i].withdrawable_epoch
                        THEN 1 ELSE 0
      /\ epoch \in Nat /\ HalfVector \in Nat \ {0} /\ EPOCHS_PER_SLASHINGS_VECTOR \in Nat
      /\ HalfVector < EPOCHS_PER_SLASHINGS_VECTOR
  BY EpochRange, HalfIsLess, RegistryAssumption DEF SInv, ChargedOnce
<1>2. ASSUME NEW i \in DOMAIN validators
      PROVE  validators[i].withdrawable_epoch \in Nat
  BY <1>1, EpochRange, EntryTypes
<1>3. ASSUME NEW balance \in EffectiveBalances, AddValidator(balance) PROVE ChargedOnce'
  <2> DEFINE n == Cardinality(DOMAIN validators)
  <2>1. /\ epoch' = epoch
        /\ DOMAIN validators' = DOMAIN validators \cup {n}
        /\ \A i \in DOMAIN validators : /\ validators'[i] = validators[i]
                                        /\ charges'[i] = charges[i]
        /\ ~validators'[n].slashed /\ charges'[n] = 0
    BY <1>1, <1>3, AddStep
  <2> HIDE DEF n
  <2> QED  BY <1>1, <2>1 DEF ChargedOnce
<1>4. ASSUME NEW i \in DOMAIN validators, ProcessVoluntaryExit(i) PROVE ChargedOnce'
  <2>1. /\ epoch' = epoch /\ charges' = charges
        /\ DOMAIN validators' = DOMAIN validators
        /\ \A j \in DOMAIN validators :
             /\ validators'[j].slashed = validators[j].slashed
             /\ validators[j].slashed =>
                  validators'[j].withdrawable_epoch = validators[j].withdrawable_epoch
    BY <1>1, <1>4, ExitStep DEF ProcessVoluntaryExit, Follows, FundsKept
  <2> QED  BY <1>1, <2>1 DEF ChargedOnce
<1>5. ASSUME NEW i \in DOMAIN validators, SlashValidator(i) PROVE ChargedOnce'
  <2>1. /\ epoch' = epoch /\ charges' = charges
    BY <1>5 DEF SlashValidator
  <2>2. /\ IInv' /\ DOMAIN validators' = DOMAIN validators
        /\ ~validators[i].slashed
        /\ validators'[i].withdrawable_epoch >= epoch + EPOCHS_PER_SLASHINGS_VECTOR
        /\ \A j \in DOMAIN validators : j # i =>
             /\ validators'[j].slashed = validators[j].slashed
             /\ validators[j].slashed =>
                  validators'[j].withdrawable_epoch = validators[j].withdrawable_epoch
    BY <1>1, <1>5, SlashStep DEF Follows
  <2>3. PICK new : new = validators'
    OBVIOUS
  <2>4. new[i].withdrawable_epoch \in Nat
    <3>1. IsRegistry(new)
      BY <2>2, <2>3 DEF IInv, Sound
    <3> QED  BY <2>2, <2>3, <3>1, EntryTypes
  <2>5. ~(epoch + HalfVector > new[i].withdrawable_epoch) /\ charges[i] = 0
    BY <1>1, <2>2, <2>3, <2>4
  <2> QED  BY <1>1, <2>1, <2>2, <2>3, <2>5 DEF ChargedOnce
<1>6. ASSUME ProcessEpoch PROVE ChargedOnce'
  <2>1. /\ epoch' = epoch + 1
        /\ DOMAIN validators' = DOMAIN validators
        /\ \A j \in DOMAIN validators :
             /\ validators'[j].slashed = validators[j].slashed
             /\ validators[j].slashed =>
                  validators'[j].withdrawable_epoch = validators[j].withdrawable_epoch
             /\ charges'[j] = IF /\ validators[j].slashed
                                 /\ epoch + HalfVector = validators[j].withdrawable_epoch
                              THEN charges[j] + 1 ELSE charges[j]
    BY <1>1, <1>6, EpochStep DEF FundsKept
  <2> SUFFICES ASSUME NEW j \in DOMAIN validators
               PROVE  charges'[j] = IF /\ validators'[j].slashed
                                       /\ epoch' + HalfVector
                                            > validators'[j].withdrawable_epoch
                                    THEN 1 ELSE 0
    BY <2>1 DEF ChargedOnce
  <2>2. CASE ~validators[j].slashed
    BY <1>1, <2>1, <2>2
  <2>3. CASE validators[j].slashed
    <3>1. /\ charges[j] = IF epoch + HalfVector > validators[j].withdrawable_epoch
                          THEN 1 ELSE 0
          /\ charges'[j] = IF epoch + HalfVector = validators[j].withdrawable_epoch
                           THEN charges[j] + 1 ELSE charges[j]
          /\ validators'[j].slashed
          /\ validators'[j].withdrawable_epoch = validators[j].withdrawable_epoch
      BY <1>1, <2>1, <2>3
    <3>2. charges'[j] = IF epoch + 1 + HalfVector > validators[j].withdrawable_epoch
                        THEN 1 ELSE 0
      BY <1>1, <1>2, <3>1
    <3> QED  BY <2>1, <3>1, <3>2
  <2> QED  BY <2>2, <2>3
<1>7. ASSUME UNCHANGED vars PROVE ChargedOnce'
  BY <1>1, <1>7 DEF vars, ChargedOnce
<1> QED
  BY <1>3, <1>4, <1>5, <1>6, <1>7 DEF Next

\* A slashing adds its amount to the slot of its epoch, and to no other.
LEMMA SlashWindow ==
    ASSUME SInv, NEW i \in DOMAIN validators, SlashValidator(i)
    PROVE  Window(slashings', slashLog', epoch)
<1> DEFINE N == EPOCHS_PER_SLASHINGS_VECTOR
           slot == epoch % N
           amount == validators[i].effective_balance
           entry == [at |-> epoch, amount |-> amount]
<1>1. /\ slashings' = [slashings EXCEPT ![slot] = @ + amount]
      /\ slashLog' = [slashLog EXCEPT ![i] = entry]
      /\ is_slashable_validator(validators[i], epoch)
  BY DEF SlashValidator
<1>2. /\ IInv /\ Logged /\ Window(slashings, slashLog, epoch)
      /\ epoch \in Nat /\ N \in Nat \ {0}
      /\ slashings \in [0..N - 1 -> Nat]
      /\ slashLog \in [DOMAIN validators -> [at : Nat, amount : Nat]]
      /\ IsFiniteSet(DOMAIN validators)
  BY EpochRange, RegistrySize, RegistryAssumption DEF SInv, IInv
<1>3. amount \in Nat
  <2>1. amount \in EffectiveBalances
    BY <1>2, EpochRange, EntryTypes
  <2> QED  BY <2>1, RegistryAssumption
<1>4. slashLog[i].at = FAR_FUTURE_EPOCH /\ \A x \in 0..epoch : x # FAR_FUTURE_EPOCH
  <2>1. ~validators[i].slashed
    BY <1>1 DEF is_slashable_validator
  <2>2. \A x \in 0..epoch : x # FAR_FUTURE_EPOCH
    <3>1. epoch + MAX_SEED_LOOKAHEAD < FAR_FUTURE_EPOCH
      BY <1>2, EpochRange, RegistryAssumption
    <3> QED  BY <1>2, <3>1, RegistryAssumption
  <2> QED  BY <1>2, <2>1, <2>2 DEF Logged, Unslashed
<1> DEFINE log == [slashLog EXCEPT ![i] = entry]
<1>5. /\ DOMAIN slashLog = DOMAIN validators /\ DOMAIN log = DOMAIN validators
      /\ log[i].at = epoch /\ log[i].amount = amount
      /\ \A j \in DOMAIN validators : j # i => log[j] = slashLog[j]
  BY <1>2
<1>6. slashLog' = log
  BY <1>1
<1> HIDE DEF entry, amount, log
<1> SUFFICES ASSUME NEW x \in 0..epoch, epoch < x + N
             PROVE  slashings'[x % N] = Sum(log, Of(log, x))
  BY <1>6 DEF Window
<1>7. slashings[x % N] = Sum(slashLog, Of(slashLog, x)) /\ x \in Nat
  BY <1>2 DEF Window
<1>8. x % N \in 0..N - 1 /\ slot \in 0..N - 1
  BY <1>2, <1>7, RingIndex
<1>9. CASE x = epoch
  <2> DEFINE S == Of(slashLog, epoch)
             T == Of(log, epoch)
  <2>1. i \in T /\ T \ {i} = S /\ T \subseteq DOMAIN validators
    <3>1. slashLog[i].at # epoch
      BY <1>2, <1>4
    <3> QED  BY <1>5, <3>1 DEF Of
  <2>2. IsFiniteSet(T) /\ IsFiniteSet(S)
    BY <1>2, <2>1, FS_Subset
  <2>3. ASSUME NEW j \in T PROVE log[j].amount \in Nat
    <3>1. j = i \/ (log[j] = slashLog[j] /\ j \in DOMAIN validators)
      BY <1>5, <2>1
    <3> QED  BY <1>2, <1>3, <1>5, <3>1
  <2>4. ASSUME NEW j \in S PROVE log[j].amount = slashLog[j].amount
    BY <1>5, <2>1
  <2> HIDE DEF S, T
  <2>5. Sum(log, T) = Sum(log, S) + amount
    BY <1>5, <2>1, <2>2, <2>3, SumAdds
  <2>6. Sum(log, S) = Sum(slashLog, S)
    BY <2>2, <2>4, SumSame
  <2>7. slashings'[slot] = slashings[slot] + amount
    BY <1>1, <1>2, <1>8 DEF amount
  <2>8. slashings[slot] = Sum(slashLog, S)
    BY <1>7, <1>9 DEF S
  <2> QED  BY <1>9, <2>5, <2>6, <2>7, <2>8 DEF T
<1>10. CASE x # epoch
  <2>1. x < epoch
    BY <1>2, <1>7, <1>10
  <2>2. x % N # slot
    BY <1>2, <1>7, <2>1, RingInjective
  <2>3. slashings'[x % N] = slashings[x % N]
    BY <1>1, <1>2, <1>8, <2>2
  <2>4. Of(log, x) = Of(slashLog, x) /\ i \notin Of(slashLog, x)
    <3>1. slashLog[i].at # x
      BY <1>4
    <3> QED  BY <1>5, <1>10, <3>1 DEF Of
  <2>5. \A j \in Of(slashLog, x) : log[j].amount = slashLog[j].amount
    BY <1>5, <2>4 DEF Of
  <2>6. Sum(log, Of(log, x)) = Sum(slashLog, Of(slashLog, x))
    BY <1>2, <1>5, <2>4, <2>5, SumStays
  <2> QED  BY <1>7, <2>3, <2>6
<1> QED
  BY <1>9, <1>10

\* The slot of the next epoch is emptied, and the epoch that had it is out of the window.
LEMMA EpochWindow ==
    ASSUME SInv, ProcessEpoch
    PROVE  Window(slashings', slashLog', epoch + 1)
<1> DEFINE N == EPOCHS_PER_SLASHINGS_VECTOR
           next == epoch + 1
<1>1. /\ slashings' = [slashings EXCEPT ![next % N] = 0]
      /\ slashLog' = slashLog
      /\ epoch < MaxEpoch
  BY DEF ProcessEpoch, ProcessSlashingsReset
<1>2. /\ IInv /\ Logged /\ Window(slashings, slashLog, epoch)
      /\ epoch \in Nat /\ N \in Nat \ {0, 1}
      /\ slashings \in [0..N - 1 -> Nat]
      /\ DOMAIN slashLog = DOMAIN validators
  BY EpochRange, RegistryAssumption DEF SInv, IInv
<1>3. next \in Nat /\ next % N \in 0..N - 1
  <2>1. next \in Nat
    BY <1>2
  <2> HIDE DEF next
  <2> QED  BY <1>2, <2>1, RingIndex
<1> SUFFICES ASSUME NEW x \in 0..next, next < x + N
             PROVE  slashings'[x % N] = Sum(slashLog, Of(slashLog, x))
  BY <1>1 DEF Window
<1>4. CASE x = next
  <2>1. Of(slashLog, next) = {}
    <3> SUFFICES ASSUME NEW j \in DOMAIN validators, slashLog[j].at = next
                 PROVE  FALSE
      BY <1>2 DEF Of
    <3>1. slashLog[j].at \in 0..epoch \/ slashLog[j].at = FAR_FUTURE_EPOCH
      BY <1>2 DEF Logged, Unslashed
    <3>2. next \notin 0..epoch /\ next # FAR_FUTURE_EPOCH
      BY <1>1, <1>2, RegistryAssumption
    <3> QED  BY <3>1, <3>2
  <2> HIDE DEF next
  <2>2. slashings'[next % N] = 0
    BY <1>1, <1>2, <1>3
  <2> QED  BY <1>4, <2>1, <2>2, SumOfNone
<1>5. CASE x # next
  <2>1. x \in 0..epoch /\ epoch < x + N /\ x \in Nat /\ x < next /\ next < x + N
    BY <1>2, <1>5
  <2>2. slashings[x % N] = Sum(slashLog, Of(slashLog, x))
    BY <1>2, <2>1 DEF Window
  <2> HIDE DEF next
  <2>3. x % N # next % N /\ x % N \in 0..N - 1
    BY <1>2, <1>3, <2>1, RingInjective, RingIndex
  <2>4. slashings'[x % N] = slashings[x % N]
    BY <1>1, <1>2, <2>3
  <2> QED  BY <2>2, <2>4
<1> QED
  BY <1>4, <1>5

LEMMA NextSInv == SInv /\ [Next]_vars => SInv'
<1> SUFFICES ASSUME SInv, [Next]_vars PROVE SInv'
  OBVIOUS
<1>1. IInv' /\ Logged' /\ ChargedOnce'
  BY NextIInv, NextLogged, NextCharged DEF SInv
<1>2. /\ IInv /\ Window(slashings, slashLog, epoch)
      /\ DOMAIN slashLog = DOMAIN validators
      /\ IsFiniteSet(DOMAIN validators)
      /\ \A x \in 0..epoch : x # FAR_FUTURE_EPOCH
  <2>1. IInv /\ Window(slashings, slashLog, epoch)
    BY DEF SInv
  <2>2. /\ DOMAIN slashLog = DOMAIN validators
        /\ IsFiniteSet(DOMAIN validators)
    BY <2>1, EpochRange, RegistrySize DEF IInv
  <2>3. \A x \in 0..epoch : x # FAR_FUTURE_EPOCH
    <3>1. epoch \in Nat /\ epoch + MAX_SEED_LOOKAHEAD < FAR_FUTURE_EPOCH
      BY <2>1, EpochRange, RegistryAssumption
    <3> QED  BY <3>1, RegistryAssumption
  <2> QED  BY <2>1, <2>2, <2>3
<1>3. ASSUME NEW balance \in EffectiveBalances, AddValidator(balance)
      PROVE  Window(slashings', slashLog', epoch')
  <2> DEFINE n == Cardinality(DOMAIN validators)
  <2>1. PICK log : log = slashLog'
    OBVIOUS
  <2>2. /\ epoch' = epoch /\ slashings' = slashings
        /\ DOMAIN log = DOMAIN validators \cup {n} /\ n \notin DOMAIN validators
        /\ \A j \in DOMAIN validators : log[j] = slashLog[j]
        /\ log[n] = Unslashed
    BY <1>1, <1>2, <1>3, <2>1, AddStep DEF AddValidator, IInv
  <2> HIDE DEF n
  <2>3. ASSUME NEW x \in 0..epoch
        PROVE  Sum(log, Of(log, x)) = Sum(slashLog, Of(slashLog, x))
    <3>1. log[n].at # x
      <4>1. log[n].at = FAR_FUTURE_EPOCH
        BY <2>2 DEF Unslashed
      <4>2. x # FAR_FUTURE_EPOCH
        BY <1>2
      <4> QED  BY <4>1, <4>2
    <3>2. Of(log, x) = Of(slashLog, x)
      BY <1>2, <2>2, <3>1 DEF Of
    <3>3. \A j \in Of(slashLog, x) : log[j].amount = slashLog[j].amount
      BY <1>2, <2>2 DEF Of
    <3> QED  BY <1>2, <3>2, <3>3, SumStays
  <2> QED  BY <1>2, <2>1, <2>2, <2>3 DEF Window
<1>4. ASSUME NEW i \in DOMAIN validators, ProcessVoluntaryExit(i)
      PROVE  Window(slashings', slashLog', epoch')
  BY <1>2, <1>4 DEF ProcessVoluntaryExit
<1>5. ASSUME NEW i \in DOMAIN validators, SlashValidator(i)
      PROVE  Window(slashings', slashLog', epoch')
  <2>1. epoch' = epoch
    BY <1>5 DEF SlashValidator
  <2> QED  BY <1>5, <2>1, SlashWindow
<1>6. ASSUME ProcessEpoch PROVE Window(slashings', slashLog', epoch')
  <2>1. epoch' = epoch + 1
    BY <1>6 DEF ProcessEpoch
  <2> QED  BY <1>6, <2>1, EpochWindow
<1>7. ASSUME UNCHANGED vars PROVE Window(slashings', slashLog', epoch')
  BY <1>2, <1>7 DEF vars
<1>8. Window(slashings', slashLog', epoch')
  BY <1>3, <1>4, <1>5, <1>6, <1>7 DEF Next
<1> QED
  BY <1>1, <1>8 DEF SInv

\* For any preset, every slashed validator is charged for correlation exactly once, and
\* the ring holds what was slashed in each epoch of its window.
THEOREM SlashingsAlwaysCharged == Spec => []SlashingsCharged
<1>1. SInv => SlashingsCharged
  BY WindowSays DEF SInv, SlashingsCharged
<1> QED
  BY <1>1, InitSInv, NextSInv, PTL DEF Spec
=============================================================================
