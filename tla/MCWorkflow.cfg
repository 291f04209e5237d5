SPECIFICATION FairSpec
CONSTANTS
    a = a
    b = b
    c = c
    d = d
    e = e
    NoStep = NoStep
    Steps = {a, b, c, d, e}
    After <- JoinAfter
    Conditional = {b}
    Retries <- RetryB
    MaxResumes = 2
    CallerMayCancel = TRUE
CHECK_DEADLOCK FALSE
INVARIANTS TypeOK StartsAfterDependencies SucceedsOnce BlockedExactly OutcomeTruthful NothingLeftBehind SnapshotClosed CountsExact
PROPERTIES KeepsContract RunReturns
