SPECIFICATION Spec
CONSTANTS
    Callers = {c1, c2, c3}
    Nobody = Nobody
    Tanks = {"water", "tray"}
    Parts = {"trays"}
    FULL = 1
    Levels = {0, 1}
    Deltas <- UpAndDown
    StoreMayFail = TRUE
    MaxLosses = 1
SYMMETRY Alike
INVARIANTS
    TypeOK
    LevelsKept
    NoLostUpdate
