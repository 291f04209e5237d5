SPECIFICATION Spec
CONSTANTS
    c1 = c1  c2 = c2  c3 = c3  k1 = k1  k2 = k2
    Calls = {c1, c2, c3}
    Keys = {k1, k2}
    KeyOf <- MCKeyOf
    BatchOf <- MCBatchOf
    Batches = 2
    MaxWorkers = 2
    MaxRestarts <- MCNoRestarts
    Guarded = {k2}
CHECK_DEADLOCK FALSE
INVARIANTS NoCrash
