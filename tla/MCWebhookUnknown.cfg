SPECIFICATION Spec
CONSTANTS
    r1 = r1
    r2 = r2
    r3 = r3
    server1 = server1
    peer1 = peer1
    Requests <- ThreeRequests
    Addresses <- TwoAddresses
    RateMin = 2
    PurgeEvery = 1
    Filtering = TRUE
    MaxDelay = 2
    MaxClock = 4
SYMMETRY Interchangeable
INVARIANT
    UnknownPathTriggers
