SPECIFICATION Spec
CONSTANTS
    Callers = {c1, c2}
    Rpm = 2
    Tpm = 3
    Minute = 2
    Usages = {0, 1, 3}
    MaxTime = 6
CHECK_DEADLOCK FALSE
INVARIANTS TypeOK RpmHolds TpmOvershoot NoOversleep
