SPECIFICATION Spec
CONSTANTS
    GenesisCount = 2
    MaxValidators = 4
    MaxEpoch = 4
    MaxSlashed = 2
    MaxFinalized = 100
    BalanceChanges = 1
    EffectiveBalances <- Balances
    MAX_EFFECTIVE_BALANCE = 2
    EJECTION_BALANCE = 1
    MAX_SEED_LOOKAHEAD = 1
    MIN_PER_EPOCH_CHURN_LIMIT = 1
    CHURN_LIMIT_QUOTIENT = 2
    MAX_PER_EPOCH_ACTIVATION_CHURN_LIMIT = 1
    MIN_VALIDATOR_WITHDRAWABILITY_DELAY = 1
    SHARD_COMMITTEE_PERIOD = 1
    EPOCHS_PER_SLASHINGS_VECTOR = 4
    FAR_FUTURE_EPOCH = 1000
INVARIANTS
    TypeOK
    ActivatedInTurn
    ChurnRespected
    SlashingsCharged
PROPERTIES
    ActiveSetLookahead
    ExitQueueFIFO
CHECK_DEADLOCK FALSE
