SPECIFICATION CaseSpec
CONSTANTS
    Steps = 3
    Listings <- SomeLists
    Relations <- InOrderBut
    Kinds = {"block", "operation", "epoch", "slots"}
    MaxRuns = 3
    Rejected = {0, 2}
INVARIANTS
    CaseTypeOK
    PairConsistent
    CaseReproduced
CHECK_DEADLOCK FALSE
