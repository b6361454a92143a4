SPECIFICATION FairSpec

CONSTANTS
    c1 = c1
    c2 = c2
    Callers = {c1, c2}
    NoCaller = NoCaller
    MayInherit = TRUE
    MaxCrashes = 0

PROPERTY TimeoutContinues
