SPECIFICATION FairSpec
CONSTANTS
    root = root
    draft = draft
    report = report
    Root = root
    Uploads <- Drafts
    Downloads <- Reports
    Debounce = 1
    Cooldown = 2
    Interval = 2
    Polling = TRUE
    Backlog = TRUE
    Prompts = {TRUE, FALSE}
    QueueCap = 2
    MaxFailures = 1
INVARIANT
    TypeOK
PROPERTY
    NoEcho
    Converges
