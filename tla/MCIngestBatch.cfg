SPECIFICATION FairSpec
CONSTANTS
    N = 3
    Filename <- MCFilename
    Concurrency = {1, 2}
    MaxCalls = 2
CHECK_DEADLOCK FALSE
INVARIANTS TypeOK CheckpointTruthful PartialIsExact
PROPERTIES NoReingest CallReturns
