SPECIFICATION FairSpec
CONSTANTS
    Readers = {r1, r2}
    Callbacks = {k1}
    ReplayLimit = 3
    BufSize = 2
    SourceSize = 1
    MaxEvents = 6
CHECK_DEADLOCK FALSE
INVARIANTS TypeOK RingIsRecent NoGaps NothingMissed CallbacksHearAll
PROPERTIES StreamEnds
