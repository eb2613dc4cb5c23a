SPECIFICATION MergeSpec
CONSTANTS
    CovDirs = {1, 2, 3, 4, 5}
    Suites <- SomeSuites
    Listing <- Sorted
    MERGE_CHUNK_SIZE = 2
    NIMBUS_COVERAGE_JOBS = 2
    Parts <- SomeParts
    MaxRuns = 2
INVARIANTS
    MergedOnce
PROPERTIES
    MergesAtOnce
    MergeEnds
CHECK_DEADLOCK FALSE
