SPECIFICATION FairSpec
CONSTANTS
    c1 = c1
    c2 = c2
    b1 = b1
    b2 = b2
    m1 = m1
    m2 = m2
    Clients = {c1}
    BrewTasks = {b1}
    CycleTasks = {m1}
    Ops = {"brew", "cycle", "cancel", "tank", "confirm"}
    InUse = {"700", "8000"}
    Selectors = {0, 3}
    Kinds = {9, 11}
    Watched = {"FILL_WATER", "EMPTY_TRAYS"}
    StageTicks = 2
    CycleTicks = 2
    CounterMod = 1
INVARIANTS
    NoOverlap
    ShowsTheStage
    ShowsTheCycle
PROPERTIES
    ProgressMonotone
    BrewEnds
    CycleEnds
    PromptHeals
