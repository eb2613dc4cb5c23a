SPECIFICATION Spec
CONSTANTS
    SlotsPerPeriod = 4
    MAX_DEPOSITS = 2
    a = a
    b = b
    Tree <- Deposits
    Views <- Counts
INVARIANTS
    TypeOK
    NeverStuck
    DepositsCountedOnce
PROPERTIES
    OneWinnerPerPeriod
    BacklogCleared
