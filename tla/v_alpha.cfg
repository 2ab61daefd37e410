SPECIFICATION Spec
CONSTANTS
    Requests <- WithEnd
    MAX_FRAME_BYTES = 12
    Keys = {k1, k2}
    ConnHandles = {1}
    StartMayFail = FALSE
    NotifyMayFail = FALSE
    MayRetry = FALSE
    MaxConnections = 2
    MaxBreaks = 0
    MaxMissed = 3
    MaxAir = 1
INVARIANTS
    Hears
