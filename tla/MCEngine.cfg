SPECIFICATION FairSpec
CONSTANTS
    watcher = watcher
    poller = poller
    Sources <- TwoSources
    Watcher = watcher
    Cooldown = 2
    HasNotifier = TRUE
    MaxTriggers = 3
INVARIANTS
    TypeOK
    Coalescing
    HealthAgrees
    QuietAfterReturn
PROPERTIES
    ImplementsSyncLoop
    ShutdownCompletes
    TriggersAnswered
