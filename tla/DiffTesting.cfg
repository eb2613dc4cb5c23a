SPECIFICATION Spec
CONSTANTS
    Tools <- SomeTools
    Blocks = {0, 1}
    Cases <- TwoBlocks
    Deviant = {"prysm"}
    Installs <- AllButOne
    FailCodes = {"1", "101", "-11"}
    Configs <- AllConfigs
    MaxRuns = 2
INVARIANTS
    DifferencesReported
    ChainOfSuccesses
    SplitListed
CHECK_DEADLOCK FALSE
