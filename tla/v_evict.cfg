SPECIFICATION Spec
CONSTANTS
    d1 = d1
    d2 = d2
    s1 = s1
    s2 = s2
    Fds = {d1, d2}
    NoFd = NoFd
    Sessions = {s1, s2}
    Images = {"good", "crash"}
    Chunks = 2
    FailureMod = 2
PROPERTIES
    EvictsOnlyTelnet
