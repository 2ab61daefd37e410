SPECIFICATION Spec
CONSTANTS
    c1 = c1
    c2 = c2
    b1 = b1
    b2 = b2
    m1 = m1
    m2 = m2
    Clients = {c1, c2}
    BrewTasks = {b1}
    CycleTasks = {m1}
    Ops = {"brew", "cycle"}
    InUse = {"700"}
    Selectors = {0}
    Kinds = {9}
    Watched = {}
    StageTicks = 1
    CycleTicks = 1
    CounterMod = 2
INVARIANTS
    NoOverlap
