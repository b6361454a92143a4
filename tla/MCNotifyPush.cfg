SPECIFICATION FairSpec
CONSTANTS
    ReconnectInterval = 1
    ReconnectMax = 5
    Discovering = TRUE
    MaxMessages = 2
    MaxOutages = 3
INVARIANT
    TypeOK
PROPERTIES
    BacksOff
    Recovers
