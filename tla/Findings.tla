------------------------------ MODULE Findings ------------------------------
(***************************************************************************)
(* What the health endpoint says of offending paths over the life of the   *)
(* daemon: the scan at startup (internal/scan/scan.go: Tree, called from   *)
(* main.go before there is a watcher) and the watcher's checkName and      *)
(* checkConflict afterwards, while others change the tree.  The tree is    *)
(* external, without the paths that match an exclude pattern.  How events  *)
(* reach the watcher is the matter of Watcher.tla; here it sees each       *)
(* change where it has a watch at once.                                    *)
(***************************************************************************)
EXTENDS Integers, Sequences, FiniteSets, HealthLists

CONSTANTS
    Root,           \* the sync directory
    WalkOrder,      \* all paths below it, in the order of filepath.WalkDir
    Dirs,           \* those that are directories
    Parent,         \* the directory each path is in
    Unusable,       \* paths whose own name holds a control character
    Copies,         \* paths whose own name is that of a conflicted copy
    Unreadable,     \* directories the daemon has no permission to read
    Times,          \* modification times
    MaxFindings,    \* scan.maxFindings
    MaxChanges      \* bound: changes of the tree

Paths == ToSet(WalkOrder)

ASSUME FindingsAssumption ==
    /\ Root \notin Paths
    /\ Dirs \subseteq Paths /\ Unreadable \subseteq Dirs
    /\ Parent \in [Paths -> Dirs \cup {Root}]
    /\ Unusable \subseteq Paths /\ Copies \subseteq Paths
    /\ Times \subseteq Nat \ {0}
    /\ \E t \in Times : \A u \in Times : u <= t   \* now
    /\ MaxFindings \in Nat /\ MaxChanges \in Nat
    /\ MaxDisplayedNames <= MaxFindings      \* 50 and 10000
    /\ MaxDisplayedConflicts <= MaxFindings  \* 10 and 10000

\* Each path comes once, a directory before what is in it.
ASSUME WalkOrderAssumption ==
    /\ WalkOrder \in Seq(Paths)
    /\ \A i, j \in DOMAIN WalkOrder :
          /\ WalkOrder[i] = WalkOrder[j] => i = j
          /\ Parent[WalkOrder[j]] = WalkOrder[i] => i < j

\* With a path its directory.
Connected(S) == \A p \in S : Parent[p] \in S \cup {Root}

\* The directories a path is in, without Root: they are in every connected
\* set that the path is in.
Above == [p \in Paths |->
             {a \in Paths \ {p} :
                 \A S \in SUBSET Paths : p \in S /\ Connected(S) => a \in S}]

VARIABLES
    fpc,            \* scan, start (no watcher yet), watch or unwatched
    present,        \* paths that exist
    modified,       \* the modification times of conflicted copies, Now for
                    \* those that do not exist
    toVisit,        \* entries the walk has read and not visited
    found,          \* scan.Findings
    watched,        \* directories that had a watch from the start
    warned,         \* Watcher.warned
    lists,          \* the lists of health.Status
    changes

\* History, read only by properties.
VARIABLES
    missed,         \* paths neither the scan nor the watcher could see
    known           \* conflicted copies with the time first reported

tree == <<present, modified, changes, missed>>
findingsVars == <<fpc, tree, toVisit, found, watched, warned, lists, known>>

NoTime == 0         \* the zero time.Time
Now == CHOOSE t \in Times : \A u \in Times : u <= t

Inside(dir) == {p \in present : Parent[p] = dir}
Exists(dir) == dir = Root \/ dir \in present

NoFindings == [names |-> <<>>, total |-> 0, copies |-> <<>>, copyTotal |-> 0]

\* Result.Truncated: the scan met more names than it keeps; and the same of
\* the copies, which the code does not ask.
Truncated == found.total > Len(found.names)
CopiesTruncated == found.copyTotal > Len(found.copies)

FindingsInit ==
    /\ fpc = "scan"
    /\ present \in {S \in SUBSET Paths : Connected(S)}
    /\ modified \in {m \in [Copies -> Times] :
                        \A c \in Copies \ present : m[c] = Now}
    /\ toVisit = Inside(Root)
    /\ found = NoFindings
    /\ watched = {}
    /\ warned = {}
    /\ lists = NoLists
    /\ changes = 0
    /\ missed = {}
    /\ known = {}

-----------------------------------------------------------------------------
(* scan.Tree.                                                              *)

\* The root cannot be read: a warning, and the daemon goes on.
ScanFails ==
    /\ fpc = "scan"
    /\ found = NoFindings
    /\ fpc' = "start"
    /\ toVisit' = {}
    /\ missed' = missed \cup present
    /\ UNCHANGED <<present, modified, changes, found, watched, warned,
                   lists, known>>

IsFirst(p) ==
    \E i \in DOMAIN WalkOrder :
        /\ WalkOrder[i] = p
        /\ \A j \in DOMAIN WalkOrder : WalkOrder[j] \in toVisit => i <= j

\* Mutant: the name is kept and not counted.
NoteNameUncounted(f, p) == [f EXCEPT !.names = Append(@, p)]

\* Both lists stop at maxFindings, both counts go on.
NoteName(f, p) ==
    [f EXCEPT !.total = @ + 1,
              !.names = IF Len(@) < MaxFindings THEN Append(@, p) ELSE @]

NoteCopy(f, p) ==
    [f EXCEPT
        !.copyTotal = @ + 1,
        !.copies = IF Len(@) < MaxFindings
                   THEN Append(@, [path |-> p,
                                   modified |-> IF p \in present
                                                THEN modified[p] ELSE NoTime])
                   ELSE @]

Judged(p) ==
    IF p \in Unusable THEN NoteName(found, p)
    ELSE IF p \in Copies \ Dirs THEN NoteCopy(found, p)
    ELSE found

\* Mutant: an unreadable directory ends the walk.
EntriesAborting(p) ==
    IF p \in Unreadable THEN {}
    ELSE IF p \in Dirs \ Unusable
    THEN (toVisit \ {p}) \cup Inside(p) ELSE toVisit \ {p}

\* The walk reads a directory whole, but for one with an unusable name, and
\* leaves out one it cannot read.
Entries(p) ==
    IF p \in Dirs \ (Unusable \cup Unreadable)
    THEN (toVisit \ {p}) \cup Inside(p) ELSE toVisit \ {p}

\* The next entry, with what the walk has read of the tree by now.
Visit(p) ==
    /\ fpc = "scan"
    /\ p \in toVisit
    /\ IsFirst(p)
    /\ found' = Judged(p)
    /\ toVisit' = Entries(p)
    /\ UNCHANGED <<fpc, tree, watched, warned, lists, known>>

\* Mutant: the copies stay in the order of the walk.
CopiesAsWalked == found.copies

\* The last statement of Tree.
CopiesSorted == NewestFirst(found.copies)

EndScan ==
    LET named == IF found.total > 0
                 THEN SetInvalidNames(lists, found.names, found.total)
                 ELSE lists
    IN  /\ fpc = "scan"
        /\ toVisit = {}
        /\ fpc' = "start"
        /\ lists' = IF found.copyTotal > 0
                    THEN SetConflictFiles(named, CopiesSorted, found.copyTotal)
                    ELSE named
        /\ known' = ToSet(CopiesSorted)
        /\ UNCHANGED <<tree, toVisit, found, watched, warned>>

\* The initial walk has added its watches, or met a directory it cannot read
\* and ended the watcher.
WatcherStarts ==
    /\ fpc = "start"
    /\ fpc' = IF present \cap Unreadable = {} THEN "watch" ELSE "unwatched"
    /\ watched' = present \cap Dirs
    /\ UNCHANGED <<tree, toVisit, found, warned, lists, known>>

-----------------------------------------------------------------------------
(* The tree changes; the watcher looks at each path it is told of.         *)

\* scan.HasControlChars(relPath): the path's own name or one above it.
HasControlChars(p) == ({p} \cup Above[p]) \cap Unusable # {}

\* checkName and checkConflict, with the time os.Stat finds, or now.
Report(p, time) ==
    LET named == IF HasControlChars(p) /\ p \notin warned
                 THEN AddInvalidName(lists, p) ELSE lists
    IN  /\ warned' = IF HasControlChars(p) THEN warned \cup {p} ELSE warned
        /\ lists' = IF p \in Copies
                    THEN AddConflictFile(named, p, time) ELSE named
        /\ known' = IF p \in Copies \ lists.conflictSeen
                    THEN known \cup {[path |-> p, modified |-> time]}
                    ELSE known

\* The watcher is told of a change, or not: there is no watcher, or the
\* change is in a directory that came later and has no watch yet.  What such
\* a directory holds when its watch is added is not looked at.
Seen(p, time) ==
    /\ changes < MaxChanges
    /\ changes' = changes + 1
    /\ \/ /\ fpc = "watch"
          /\ Parent[p] \notin Unreadable
          /\ Report(p, time)
          /\ missed' = missed \ {p}
       \/ /\ fpc # "watch" \/ Parent[p] \notin watched \cup {Root}
          /\ missed' = missed \cup {p}
          /\ UNCHANGED <<warned, lists, known>>
    /\ UNCHANGED <<fpc, toVisit, found>>

\* Created, or renamed to this name, or written.
Write(p) ==
    /\ Exists(Parent[p])
    /\ present' = present \cup {p}
    /\ \E t \in Times :
          /\ p \notin Copies => t = Now
          /\ modified' = [c \in Copies |-> IF c = p THEN t ELSE modified[c]]
          /\ Seen(p, t)
    /\ UNCHANGED watched

\* Removed, or renamed to another name.
Unlink(p) ==
    /\ p \in present
    /\ Inside(p) = {}
    /\ present' = present \ {p}
    /\ modified' = [c \in Copies |-> IF c = p THEN Now ELSE modified[c]]
    /\ Seen(p, Now)
    /\ watched' = watched \ {p}

\* The tree changes no more.
Finished ==
    /\ fpc \in {"watch", "unwatched"}
    /\ changes = MaxChanges
    /\ UNCHANGED findingsVars

FindingsNext ==
    \/ Finished
    \/ ScanFails \/ EndScan \/ WatcherStarts
    \/ \E p \in Paths : Visit(p) \/ Write(p) \/ Unlink(p)

FindingsSpec == FindingsInit /\ [][FindingsNext]_findingsVars

-----------------------------------------------------------------------------
(* Properties.                                                             *)

Copied == [path : Copies, modified : Times \cup {NoTime}]

Found == [names : Seq(Unusable), total : Nat,
          copies : Seq(Copied), copyTotal : Nat]

Lists == [invalidSeen : SUBSET Paths, invalidNames : Seq(Paths),
          invalidNameCount : Nat, conflictSeen : SUBSET Copies,
          conflictFiles : Seq(Copied), conflictCount : Nat]

FindingsTypeOK ==
    /\ fpc \in {"scan", "start", "watch", "unwatched"}
    /\ present \subseteq Paths
    /\ modified \in [Copies -> Times]
    /\ toVisit \subseteq Paths
    /\ found \in Found
    /\ Len(found.names) <= found.total
    /\ Len(found.copies) <= found.copyTotal
    /\ lists \in Lists
    /\ known \subseteq Copied
    /\ watched \subseteq Dirs
    /\ warned \subseteq Paths /\ missed \subseteq Paths
    /\ changes \in 0..MaxChanges

Least(m, n) == IF m < n THEN m ELSE n

\* The scan's findings and the watcher's add up: a path both meet counts
\* once, also beyond what the endpoint shows, unless the scan met more than
\* it keeps; and the endpoint lists as many as its caps allow.
CountsDistinct ==
    /\ ~Truncated => lists.invalidNameCount = Cardinality(lists.invalidSeen)
    /\ ~CopiesTruncated => lists.conflictCount = Cardinality(lists.conflictSeen)
    /\ Len(lists.invalidNames) =
          Least(lists.invalidNameCount, MaxDisplayedNames)
    /\ Len(lists.conflictFiles) =
          Least(lists.conflictCount, MaxDisplayedConflicts)

\* The copies shown are the newest of all that were reported, newest first,
\* wherever the scan met them and whenever the watcher added one.
NewestShown ==
    LET shown == ToSet(lists.conflictFiles)
    IN  /\ \A k \in known \ shown : \A s \in shown : s.modified >= k.modified
        /\ \A i, j \in DOMAIN lists.conflictFiles :
              i < j => lists.conflictFiles[i].modified
                          >= lists.conflictFiles[j].modified

\* Once the scan is over no path with an unusable name is overlooked, but
\* what changed where there was no watch, what is inside a directory that
\* is itself reported, what the daemon may not read, and what is beyond
\* maxFindings.
NothingOverlooked ==
    fpc \in {"watch", "unwatched"} =>
        \A p \in present \cap Unusable :
            \/ p \in lists.invalidSeen \cup missed
            \/ Truncated
            \/ Above[p] \cap (lists.invalidSeen \cup Unreadable) # {}
=============================================================================
