SPECIFICATION Spec
CONSTANTS
    Requests <- Settings
    MAX_FRAME_BYTES = 12
    Keys = {k1, k2}
    ConnHandles = {1}
    StartMayFail = FALSE
    NotifyMayFail = TRUE
    MayRetry = TRUE
    MaxConnections = 2
    MaxBreaks = 1
    MaxMissed = 3
    MaxAir = 1
INVARIANTS
    TypeOK
    Hears
    Recovers
    FreshSession
    Understood
    
    CanBeFound
SYMMETRY Alike
