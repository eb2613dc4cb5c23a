------------------------------ MODULE Registry ------------------------------
(***************************************************************************)
(* The life of a validator in the registry of the beacon chain: deposit,   *)
(* activation queue, exit queue, slashing and withdrawability, with the    *)
(* ring of slashed balances that the correlated penalty is computed from.  *)
(*                                                                         *)
(* The unit of time is the epoch.  Blocks of the epoch add validators,     *)
(* exit and slash them in any order; ProcessEpoch then runs the registry   *)
(* steps of the epoch transition.  Balances are not modelled: which        *)
(* effective balances the epoch ends with is the environment's choice.     *)
(* Finality is the environment's too, within the bounds that the module    *)
(* Finality establishes.                                                   *)
(***************************************************************************)
EXTENDS Integers, FiniteSetsExt

CONSTANTS
    GenesisCount,                           \* validators active at genesis
    MaxValidators,                          \* bound: size of the registry
    MaxEpoch,                               \* bound: no step beyond this epoch
    BalanceChanges,                         \* bound: see EffectiveBalanceUpdates
    MaxSlashed,                             \* bound: how many get slashed
    MaxFinalized,                           \* bound: no later epoch is finalized
    EffectiveBalances,                      \* effective balances, in increments
    MAX_EFFECTIVE_BALANCE,
    EJECTION_BALANCE,
    MAX_SEED_LOOKAHEAD,
    MIN_PER_EPOCH_CHURN_LIMIT,
    CHURN_LIMIT_QUOTIENT,
    MAX_PER_EPOCH_ACTIVATION_CHURN_LIMIT,
    MIN_VALIDATOR_WITHDRAWABILITY_DELAY,
    SHARD_COMMITTEE_PERIOD,
    EPOCHS_PER_SLASHINGS_VECTOR,
    FAR_FUTURE_EPOCH

ASSUME RegistryAssumption ==
    /\ GenesisCount \in Nat /\ MaxValidators \in Nat /\ GenesisCount <= MaxValidators
    /\ MaxEpoch \in Nat /\ BalanceChanges \in Nat
    /\ MaxSlashed \in Nat /\ MaxFinalized \in Nat
    /\ EffectiveBalances \subseteq Nat
    /\ MAX_EFFECTIVE_BALANCE \in EffectiveBalances
    /\ EJECTION_BALANCE \in Nat /\ EJECTION_BALANCE < MAX_EFFECTIVE_BALANCE
    /\ MAX_SEED_LOOKAHEAD \in Nat
    /\ MIN_PER_EPOCH_CHURN_LIMIT \in Nat \ {0}
    /\ CHURN_LIMIT_QUOTIENT \in Nat \ {0}
    /\ MAX_PER_EPOCH_ACTIVATION_CHURN_LIMIT \in Nat \ {0}
    /\ MIN_VALIDATOR_WITHDRAWABILITY_DELAY \in Nat
    /\ SHARD_COMMITTEE_PERIOD \in Nat
    /\ EPOCHS_PER_SLASHINGS_VECTOR \in Nat \ {0, 1}
    /\ FAR_FUTURE_EPOCH \in Nat
    \* No exit queue that fits into the bounds comes near the far future.
    /\ FAR_FUTURE_EPOCH > MaxEpoch + 1 + MAX_SEED_LOOKAHEAD + MaxValidators

VARIABLES
    epoch,              \* the current epoch
    finalized,          \* the epoch of the finalized checkpoint
    validators,         \* the registry: a function on the validator indices
    slashings,          \* the ring of slashed effective balances
    slashLog,           \* history: who was slashed, when, with which balance
    charges             \* history: how often each was charged for correlation

vars == <<epoch, finalized, validators, slashings, slashLog, charges>>

Validator ==
    [ effective_balance            : EffectiveBalances,
      slashed                      : BOOLEAN,
      activation_eligibility_epoch : Nat,
      activation_epoch             : Nat,
      exit_epoch                   : Nat,
      withdrawable_epoch           : Nat ]

-----------------------------------------------------------------------------
(* Predicates on a validator *)

\* Two faults: the change takes effect an epoch early, an epoch late.
ActivationExitTooEarly(e) == e + MAX_SEED_LOOKAHEAD
ActivationExitTooLate(e) == e + 2 + MAX_SEED_LOOKAHEAD

compute_activation_exit_epoch(e) == e + 1 + MAX_SEED_LOOKAHEAD

is_active_validator(val, e) == val.activation_epoch <= e /\ e < val.exit_epoch

is_eligible_for_activation_queue(val) ==
    /\ val.activation_eligibility_epoch = FAR_FUTURE_EPOCH
    /\ val.effective_balance = MAX_EFFECTIVE_BALANCE

is_eligible_for_activation(val, finalized_epoch) ==
    /\ val.activation_eligibility_epoch <= finalized_epoch
    /\ val.activation_epoch = FAR_FUTURE_EPOCH

is_slashable_validator(val, e) ==
    ~val.slashed /\ val.activation_epoch <= e /\ e < val.withdrawable_epoch

\* Ejection asks for an active validator of low effective balance.
IsToBeEjected(val, e) ==
    is_active_validator(val, e) /\ val.effective_balance <= EJECTION_BALANCE

-----------------------------------------------------------------------------
(* Churn limits and the exit queue of a registry vs in epoch e *)

get_active_validator_indices(vs, e) == {i \in DOMAIN vs : is_active_validator(vs[i], e)}

get_validator_churn_limit(vs, e) ==
    Max({MIN_PER_EPOCH_CHURN_LIMIT,
         Cardinality(get_active_validator_indices(vs, e)) \div CHURN_LIMIT_QUOTIENT})

get_validator_activation_churn_limit(vs, e) ==
    Min({MAX_PER_EPOCH_ACTIVATION_CHURN_LIMIT, get_validator_churn_limit(vs, e)})

ExitEpochs(vs) == {vs[i].exit_epoch : i \in DOMAIN vs} \ {FAR_FUTURE_EPOCH}

ExitingAt(vs, e) == {i \in DOMAIN vs : vs[i].exit_epoch = e}

\* A fault: one validator too many fits into an epoch.
OverfullQueueEpoch(vs, e) ==
    LET last  == Max(ExitEpochs(vs) \cup {compute_activation_exit_epoch(e)})
        churn == Cardinality(ExitingAt(vs, last))
    IN  IF churn > get_validator_churn_limit(vs, e) THEN last + 1 ELSE last

\* The epoch the next validator to leave is given: that of the last one in the
\* queue, unless it is too soon, or the one after when that is full.
ExitQueueEpoch(vs, e) ==
    LET last  == Max(ExitEpochs(vs) \cup {compute_activation_exit_epoch(e)})
        churn == Cardinality(ExitingAt(vs, last))
    IN  IF churn >= get_validator_churn_limit(vs, e) THEN last + 1 ELSE last

\* A fault: leaving is initiated again for a validator that is leaving.
InitiatesExitAgain(vs, i, e) ==
    LET exit == ExitQueueEpoch(vs, e)
    IN  [vs EXCEPT
           ![i].exit_epoch = exit,
           ![i].withdrawable_epoch = exit + MIN_VALIDATOR_WITHDRAWABILITY_DELAY]

InitiateValidatorExit(vs, i, e) ==
    IF vs[i].exit_epoch # FAR_FUTURE_EPOCH
    THEN vs
    ELSE LET exit == ExitQueueEpoch(vs, e)
         IN  [vs EXCEPT
               ![i].exit_epoch = exit,
               ![i].withdrawable_epoch = exit + MIN_VALIDATOR_WITHDRAWABILITY_DELAY]

-----------------------------------------------------------------------------
(* ProcessRegistryUpdates *)

ProcessEligibilityAndEjection(vs, i, e) ==
    LET queued == IF is_eligible_for_activation_queue(vs[i])
                  THEN [vs EXCEPT ![i].activation_eligibility_epoch = e + 1]
                  ELSE vs
    IN  IF IsToBeEjected(vs[i], e) THEN InitiateValidatorExit(queued, i, e) ELSE queued

\* The fold over the validator indices, in their order.
ProcessEligibilityAndEjection_over_vids(vs, e) ==
    LET upTo[n \in 0..Cardinality(DOMAIN vs)] ==
            IF n = 0 THEN vs ELSE ProcessEligibilityAndEjection(upTo[n - 1], n - 1, e)
    IN  upTo[Cardinality(DOMAIN vs)]

ActivationQueue(vs, finalized_epoch) ==
    {i \in DOMAIN vs : is_eligible_for_activation(vs[i], finalized_epoch)}

\* The order of the activation queue: by eligibility epoch, then by index.
Before(vs, i, j) ==
    \/ vs[i].activation_eligibility_epoch < vs[j].activation_eligibility_epoch
    \/ /\ vs[i].activation_eligibility_epoch = vs[j].activation_eligibility_epoch
       /\ i < j

\* A fault: the queue is taken in index order.
DequeuedUnsorted(vs, queue, limit) ==
    {i \in queue : Cardinality({j \in queue : j < i}) < limit}

\* The prefix of the sorted queue that the churn limit lets through.
Dequeued(vs, queue, limit) ==
    {i \in queue : Cardinality({j \in queue : Before(vs, j, i)}) < limit}

ApplyActivations(vs, dequeued, e) ==
    [i \in DOMAIN vs |->
        IF i \in dequeued
        THEN [vs[i] EXCEPT !.activation_epoch = compute_activation_exit_epoch(e)]
        ELSE vs[i]]

ProcessRegistryUpdates(vs, e, finalized_epoch) ==
    LET state_1 == ProcessEligibilityAndEjection_over_vids(vs, e)
        queue   == ActivationQueue(state_1, finalized_epoch)
        limit   == get_validator_activation_churn_limit(state_1, e)
    IN  ApplyActivations(state_1, Dequeued(state_1, queue, limit), e)

-----------------------------------------------------------------------------
(* Slashing *)

HalfVector == EPOCHS_PER_SLASHINGS_VECTOR \div 2

\* A fault: a slashed validator keeps the withdrawable epoch of its exit.
SlashedAtExit(vs, i, e) ==
    [InitiateValidatorExit(vs, i, e) EXCEPT ![i].slashed = TRUE]

\* The slashed validator leaves, and its funds stay for a whole vector at least.
Slashed(vs, i, e) ==
    LET leaving == InitiateValidatorExit(vs, i, e)
        lock    == e + EPOCHS_PER_SLASHINGS_VECTOR
    IN  [leaving EXCEPT
           ![i].slashed = TRUE,
           ![i].withdrawable_epoch = Max({@, lock})]

is_due_slashing(val, e) == val.slashed /\ e + HalfVector = val.withdrawable_epoch

ProcessSlashingsReset(ring, e) ==
    [ring EXCEPT ![(e + 1) % EPOCHS_PER_SLASHINGS_VECTOR] = 0]

-----------------------------------------------------------------------------
(* The steps *)

GenesisValidator ==
    [ effective_balance            |-> MAX_EFFECTIVE_BALANCE,
      slashed                      |-> FALSE,
      activation_eligibility_epoch |-> 0,
      activation_epoch             |-> 0,
      exit_epoch                   |-> FAR_FUTURE_EPOCH,
      withdrawable_epoch           |-> FAR_FUTURE_EPOCH ]

get_validator_from_deposit(balance) ==
    [GenesisValidator EXCEPT
        !.effective_balance            = balance,
        !.activation_eligibility_epoch = FAR_FUTURE_EPOCH,
        !.activation_epoch             = FAR_FUTURE_EPOCH]

Unslashed == [at |-> FAR_FUTURE_EPOCH, amount |-> 0]

Init ==
    /\ epoch = 0
    /\ finalized = 0
    /\ validators = [i \in 0..GenesisCount - 1 |-> GenesisValidator]
    /\ slashings = [k \in 0..EPOCHS_PER_SLASHINGS_VECTOR - 1 |-> 0]
    /\ slashLog = [i \in 0..GenesisCount - 1 |-> Unslashed]
    /\ charges = [i \in 0..GenesisCount - 1 |-> 0]

\* The list on the validator indices, with one more entry at its end.
Appended(list, value) ==
    [i \in 0..Cardinality(DOMAIN list) |-> IF i \in DOMAIN list THEN list[i] ELSE value]

\* A deposit for a public key not in the registry, with a valid signature.
AddValidator(balance) ==
    /\ Cardinality(DOMAIN validators) < MaxValidators
    /\ validators' = Appended(validators, get_validator_from_deposit(balance))
    /\ slashLog' = Appended(slashLog, Unslashed)
    /\ charges' = Appended(charges, 0)
    /\ UNCHANGED <<epoch, finalized, slashings>>

ProcessVoluntaryExit(i) ==
    /\ is_active_validator(validators[i], epoch)
    /\ validators[i].exit_epoch = FAR_FUTURE_EPOCH
    /\ epoch >= validators[i].activation_epoch + SHARD_COMMITTEE_PERIOD
    /\ validators' = InitiateValidatorExit(validators, i, epoch)
    /\ UNCHANGED <<epoch, finalized, slashings, slashLog, charges>>

\* By a proposer slashing, or as one of the validators of an attester slashing.
SlashValidator(i) ==
    LET slot   == epoch % EPOCHS_PER_SLASHINGS_VECTOR
        amount == validators[i].effective_balance
    IN  /\ Cardinality({j \in DOMAIN validators : validators[j].slashed}) < MaxSlashed
        /\ is_slashable_validator(validators[i], epoch)
        /\ validators' = Slashed(validators, i, epoch)
        /\ slashings' = [slashings EXCEPT ![slot] = @ + amount]
        /\ slashLog' = [slashLog EXCEPT ![i] = [at |-> epoch, amount |-> amount]]
        /\ UNCHANGED <<epoch, finalized, charges>>

\* The environment's part of an epoch transition: what gets finalized.
Finalizable == finalized..Max({finalized, Min({epoch - 1, MaxFinalized})})

\* The environment's part of an epoch transition: the effective balances it
\* leaves.  BalanceChanges bounds how many change in one.
EffectiveBalanceUpdates(vs) ==
    {[i \in DOMAIN vs |-> [vs[i] EXCEPT !.effective_balance = balance[i]]] :
        balance \in {b \in [DOMAIN vs -> EffectiveBalances] :
            Cardinality({i \in DOMAIN vs : b[i] # vs[i].effective_balance})
                <= BalanceChanges}}

ProcessEpoch ==
    /\ epoch < MaxEpoch
    /\ finalized' \in Finalizable
    /\ LET state_3 == ProcessRegistryUpdates(validators, epoch, finalized')
       IN  /\ charges' = [i \in DOMAIN validators |->
                 IF is_due_slashing(state_3[i], epoch) THEN charges[i] + 1 ELSE charges[i]]
           /\ validators' \in EffectiveBalanceUpdates(state_3)
    /\ slashings' = ProcessSlashingsReset(slashings, epoch)
    /\ epoch' = epoch + 1
    /\ UNCHANGED slashLog

Next ==
    \/ \E balance \in EffectiveBalances : AddValidator(balance)
    \/ \E i \in DOMAIN validators : ProcessVoluntaryExit(i)
    \/ \E i \in DOMAIN validators : SlashValidator(i)
    \/ ProcessEpoch

Spec == Init /\ [][Next]_vars

-----------------------------------------------------------------------------
(* Properties *)

Epochs(last) == 0..last \cup {FAR_FUTURE_EPOCH}

\* Types, with the range that each date of a validator may take: eligibility is
\* never in the future, activation at most the lookahead away, and a validator
\* leaves only after it was activated and is withdrawable a delay later.
TypeOK ==
    /\ epoch \in 0..MaxEpoch
    /\ finalized \in 0..epoch
    /\ \A i \in DOMAIN validators :
         LET val == validators[i]
         IN  /\ val \in Validator
             /\ val.activation_eligibility_epoch \in Epochs(epoch)
             /\ val.activation_epoch \in Epochs(epoch + MAX_SEED_LOOKAHEAD)
             /\ val.exit_epoch # FAR_FUTURE_EPOCH =>
                  /\ val.activation_epoch < val.exit_epoch
                  /\ val.withdrawable_epoch >=
                        val.exit_epoch + MIN_VALIDATOR_WITHDRAWABILITY_DELAY
    /\ slashings \in [0..EPOCHS_PER_SLASHINGS_VECTOR - 1 -> Nat]
    /\ DOMAIN slashLog = DOMAIN validators
    /\ charges \in [DOMAIN validators -> Nat]

\* No epoch sees more validators leave than the churn limit allows to all that
\* were ever activated, whatever mix of voluntary exits, ejections and slashings sent them
\* to the exit queue.
ExitQueueChurn ==
    \A e \in ExitEpochs(validators) :
        Cardinality(ExitingAt(validators, e))
            <= Max({MIN_PER_EPOCH_CHURN_LIMIT,
                    Cardinality({i \in DOMAIN validators :
                        validators[i].activation_epoch # FAR_FUTURE_EPOCH})
                      \div CHURN_LIMIT_QUOTIENT})

\* The exit queue is first in, first out: whoever joins it leaves no earlier
\* than all who joined before, and nobody's exit epoch ever changes.
ExitQueueFIFO ==
    [][\A i, j \in DOMAIN validators :
          LET before == validators[j].exit_epoch
              given  == validators'[i].exit_epoch
          IN  before # FAR_FUTURE_EPOCH =>
                /\ validators'[j].exit_epoch = before
                /\ validators[i].exit_epoch = FAR_FUTURE_EPOCH => given >= before]_vars

\* The activation queue lets nobody overtake: a validator that became eligible
\* earlier, or in the same epoch with a smaller index, is activated no later.
ActivationOrder ==
    \A i, j \in DOMAIN validators :
        Before(validators, i, j) =>
            validators[i].activation_epoch <= validators[j].activation_epoch

\* Deposits activate no more validators for one epoch than the churn limit.
ActivationChurn ==
    \A e \in 1..epoch + MAX_SEED_LOOKAHEAD :
        Cardinality({i \in DOMAIN validators : validators[i].activation_epoch = e})
            <= MAX_PER_EPOCH_ACTIVATION_CHURN_LIMIT

\* The churn limit holds at both ends of a validator's life, although it moves with
\* the active set and exits are given ahead of time.
ChurnRespected == ActivationChurn /\ ExitQueueChurn

\* A validator in the active set became eligible in an epoch that is finalized:
\* no reorganisation within the rules can take its eligibility back.
ActiveWasFinalized ==
    \A i \in DOMAIN validators :
        is_active_validator(validators[i], epoch) =>
            validators[i].activation_eligibility_epoch <= finalized

\* Activation is in turn, and waits for finality.
ActivatedInTurn == ActivationOrder /\ ActiveWasFinalized

\* The active set of every epoch up to the lookahead is settled: neither blocks
\* nor epoch transitions change it any more, so that committees can be computed
\* ahead of time.
ActiveSetLookahead ==
    [][\A e \in epoch..epoch + MAX_SEED_LOOKAHEAD :
          get_active_validator_indices(validators', e)
              = get_active_validator_indices(validators, e)]_vars

\* Every slashed validator pays the correlated penalty exactly once, in the
\* transition half a vector before its funds unlock, and nobody else pays it.
ChargedOnce ==
    \A i \in DOMAIN validators :
        charges[i] =
            IF /\ validators[i].slashed
               /\ epoch + HalfVector > validators[i].withdrawable_epoch
            THEN 1 ELSE 0

\* Slot by slot, the ring holds what was slashed in each of the last
\* EPOCHS_PER_SLASHINGS_VECTOR epochs, and nothing older: that is the sum
\* that ProcessSlashings charges in proportion to.
SlashingsWindow ==
    \A d \in 0..Min({epoch, EPOCHS_PER_SLASHINGS_VECTOR - 1}) :
        slashings[(epoch - d) % EPOCHS_PER_SLASHINGS_VECTOR] =
            MapThenSumSet(LAMBDA i : slashLog[i].amount,
                          {i \in DOMAIN slashLog : slashLog[i].at = epoch - d})

\* Who was slashed pays once, from a ring that holds what was slashed with it.
SlashingsCharged == ChargedOnce /\ SlashingsWindow
=============================================================================
