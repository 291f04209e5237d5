SPECIFICATION FairSpec
CONSTANTS
    a = a
    b = b
    c = c
    d = d
    e = e
    NoStep = NoStep
    Steps = {a, b, c, d}
    After <- ForkAfter
    Conditional = {b}
    Retries <- RetryB
    MaxResumes = 1
    CallerMayCancel = FALSE
CHECK_DEADLOCK FALSE
INVARIANTS PrePopulatedWereRun
