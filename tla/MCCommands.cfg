SPECIFICATION FairSpec
CONSTANTS
    m = m
    n = n
    Validity = 7
    Every = 1
    Patience = 2
    Lag = 1
    Manual <- Hands
    Strangers <- Others
    unitProcess = unitProcess
    NoProcess = NoProcess
    Items = {"Makefile", "FatalError.txt", "tab.txt"}
    Messages = {"Bad Request", "long.page", "see FatalError"}
    Pathlike = {"FatalError.txt", "tab.txt", "long.page"}
    Telling = {"FatalError.txt", "see FatalError"}
    Control = {"tab.txt"}
    Long = {"long.page"}
    MaxLines = 3
    Texts <- AllTexts
    Files <- Contents
    Least <- Bare
    Places = {"", "given"}
INVARIANT
    TypeOK
    OneDaemon
    DisableConverges
    BlamesCause
    AcceptedRuns
PROPERTY
    ApprovalPrinted
    ForeignUntouched
    TakesOver
CHECK_DEADLOCK FALSE
