SPECIFICATION Spec
CONSTANTS
    GenesisCount = 1
    MaxValidators = 3
    Supply = 5
    MaxBurnt = 1
    MAX_EFFECTIVE_BALANCE = 1
    MAX_WITHDRAWALS_PER_PAYLOAD = 2
    MAX_VALIDATORS_PER_WITHDRAWALS_SWEEP = 2
INVARIANTS
    TypeOK
    FirstDue
    PayoutsAccounted
PROPERTIES
    StakeKept
    DueIsPaid
