SPECIFICATION FindingsSpec
CONSTANTS
    root = root
    badDir = badDir
    badCopy = badCopy
    copy1 = copy1
    copy2 = copy2
    folder = folder
    crlf = crlf
    private = private
    hidden = hidden
    tab = tab
    Root = root
    WalkOrder <- Order
    Parent <- Folder
    Dirs <- AllDirs
    Unusable <- AllUnusable
    Copies <- AllCopies
    Unreadable <- OnePrivate
    Times <- TwoTimes
    MaxFindings = 2
    MaxChanges = 2
    MaxDisplayedNames = 1
    MaxDisplayedConflicts = 2
INVARIANTS
    FindingsTypeOK
    CountsDistinct
    NewestShown
    NothingOverlooked
