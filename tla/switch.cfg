SPECIFICATION Spec
CONSTANTS
    c1 = c1
    c2 = c2
    b1 = b1
    b2 = b2
    m1 = m1
    m2 = m2
    Clients = {c1}
    BrewTasks = {b1}
    CycleTasks = {m1}
    Ops = {"brew", "cycle", "cancel", "confirm", "tank", "trigger", "family_cli", "family_ui"}
    InUse = {"700", "8000"}
    Selectors = {6}
    Kinds = {11}
    Watched = {"CLOSE_POWDER_LID"}
    StageTicks = 1
    CycleTicks = 1
    CounterMod = 2
INVARIANTS
    SettledReady
