SPECIFICATION CaseSpec
CONSTANTS
    Steps = 2
    Listings <- SomeLists
    Relations <- InOrderBut
    Kinds = {"operation"}
    MaxRuns = 2
    Rejected = {0}
INVARIANT AllStepsOrNone
CHECK_DEADLOCK FALSE
