SPECIFICATION Spec
CONSTANTS
    NUM_CAP = 16
    InUse = {"1040"}
    Stored <- Worn
    Selectors = {0, 7}
    Kinds = {11}
    HostIds = {101}
    HostValues = {1}
    NameIds = {512}
    NameTexts = {""}
    OpenMayFail = FALSE
    MayOverlap = FALSE
    MaxCount = 10
    MaxLosses = 1
INVARIANTS
    TypeOK
    UniqueEntries
    
    WarnsWhenLow
    

    
