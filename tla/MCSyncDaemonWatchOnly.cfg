SPECIFICATION FairSpec
CONSTANTS
    root = root
    draft = draft
    report = report
    Root = root
    Uploads <- Drafts
    Downloads <- None
    Debounce = 1
    Cooldown = 2
    Interval = 2
    Polling = FALSE
    Backlog = FALSE
    Prompts = {FALSE}
    QueueCap = 1
    MaxFailures = 0
PROPERTY
    EditsSynced
