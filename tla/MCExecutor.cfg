SPECIFICATION FairSpec

CONSTANTS
    c1 = c1
    c2 = c2
    Callers = {c1, c2}
    NoCaller = NoCaller
    MayInherit = TRUE
    MaxCrashes = 2

INVARIANT TypeOK
INVARIANT OneClient
INVARIANT CredentialsScoped
PROPERTY ImplementsSyncCall
PROPERTY RunReturns
