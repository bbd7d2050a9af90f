SPECIFICATION Spec
CONSTANTS
    j1 = j1
    w1 = w1
    w2 = w2
    None = None
    Jobs = {j1}
    Workers = {w1, w2}
    MaxAttempts = 2
    MayWaitLong = TRUE
    MayRunLong = TRUE
    MaxRetries = 1
    MaxFaults = 2
CHECK_DEADLOCK FALSE
INVARIANTS
    DeadLetteredIsExhausted
    ForgottenHasACause
PROPERTIES
    SettledUnlessForgotten
    SucceededByHolder
