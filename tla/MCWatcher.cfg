SPECIFICATION FairSpec
CONSTANTS
    root = root
    a = a
    b = b
    c = c
    deepFile = deepFile
    ignoredFile = ignoredFile
    watcher = watcher
    Root = root
    Watcher = watcher
    Dirs <- ThreeDirs
    Parent <- ThreeParent
    Files <- TwoFiles
    Home <- TwoHomes
    Ignored <- IgnoredFiles
    Invalid <- DeepFiles
    Conflicts <- DeepFiles
    ModTimes <- OneTime
    Unreadable <- None
    MaxWatches = 3
    QueueCap = 2
    MayOverflow = TRUE
    MayRemove = TRUE
    Debounce = 2
    MaxDisplayedNames = 1
    MaxDisplayedConflicts = 1
INVARIANTS
    TypeOK
    QuietBeforeTrigger
    NoMissedChange
PROPERTY
    ChangesAnnounced
