SPECIFICATION Spec
CONSTANTS
    c1 = c1
    c2 = c2
    b1 = b1
    b2 = b2
    m1 = m1
    m2 = m2
    Clients = {c1, c2}
    BrewTasks = {b1, b2}
    CycleTasks = {m1, m2}
    Ops = {"brew", "cycle", "cancel"}
    InUse = {"700"}
    Selectors = {0, 6}
    Kinds = {17}
    Watched = {"FILL_WATER"}
    StageTicks = 1
    CycleTicks = 1
    CounterMod = 2
SYMMETRY TaskSymmetry
INVARIANTS
    TypeOK
    OneTaskEach
    NoStaleCancel
    OneStageAfterCancel
    RunsWhatWasAccepted
    SettledReady
PROPERTIES
    BrewIsAJob
