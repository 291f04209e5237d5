SPECIFICATION Spec
CONSTANTS
    Readers = {r1}
    Callbacks = {k1}
    ReplayLimit = 3
    BufSize = 2
    SourceSize = 1
    MaxEvents = 3
CHECK_DEADLOCK FALSE
INVARIANTS PanicIsSafe
