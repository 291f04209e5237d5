SPECIFICATION Spec
CONSTANTS
    N = 3
    Filename <- MCFilename
    Concurrency = {1, 2}
    MaxCalls = 1
CHECK_DEADLOCK FALSE
INVARIANTS PartialKeepsCheckpoint
