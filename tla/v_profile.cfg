SPECIFICATION Spec
CONSTANTS
    NUM_CAP = 16
    InUse = {"1040"}
    Stored <- Worn
    Selectors = {0}
    Kinds = {11}
    HostIds = {101}
    HostValues = {1}
    NameIds = {256}
    NameTexts = {"Ann"}
    OpenMayFail = FALSE
    MayOverlap = FALSE
    MaxCount = 10
    MaxLosses = 1
PROPERTIES
    NamesSurviveReboot
