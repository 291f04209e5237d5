SPECIFICATION FairSpec
CONSTANTS
    e1 = e1
    e2 = e2
    e3 = e3
    Suspensions = {e1, e2, e3}
    Size <- MCSize
    MaxSnap = 2
    MaxBytes = 3
    MaxTTLCalls = 1
CHECK_DEADLOCK FALSE
INVARIANTS TypeOK BudgetExact WithinBudget ResumedOnce
PROPERTIES NothingLeaks
