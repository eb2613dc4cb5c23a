SPECIFICATION Spec
CONSTANTS
    SLOTS_PER_EPOCH = 2
    SLOTS_PER_HISTORICAL_ROOT = 4
    MaxSlot = 13
INVARIANTS
    TypeOK
    RootsServed
    SummariesComplete
CHECK_DEADLOCK FALSE
