SPECIFICATION PanelFairSpec
CONSTANTS
    Touch = Touch
    console = console
    b1 = b1
    Clients = {Touch, console}
    BrewTasks = {b1}
    CycleTasks = {}
    Ops = {"brew", "cancel", "confirm", "tank", "family_ui"}
    InUse = {"700"}
    Selectors = {6}
    Kinds = {}
    Watched = {"FILL_WATER"}
    StageTicks = 1
    CycleTicks = 1
    CounterMod = 1
INVARIANTS
    PanelTypeOK
PROPERTIES
    PanelSettles
