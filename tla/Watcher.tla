------------------------------ MODULE Watcher -------------------------------
(***************************************************************************)
(* internal/watcher/watcher.go: the goroutine that watches the sync        *)
(* directory.  inotify watches single directories, so the watcher walks    *)
(* the tree when it starts and walks each directory created later, while   *)
(* others keep changing the tree.  Every event it is not told to ignore    *)
(* restarts the debounce timer; when the timer expires it sends one        *)
(* trigger, without blocking, on the engine's channel.                     *)
(*                                                                         *)
(* The tree, the kernel's event queue and the watch table are external:    *)
(* modelled as far as the watcher depends on them.  A directory whose path *)
(* matches an exclude pattern is neither watched nor promised anything,    *)
(* and is left out of Dirs; an excluded file is in Ignored.                *)
(***************************************************************************)
EXTENDS Integers, Sequences, FiniteSets, HealthLists

CONSTANTS
    Root,          \* the sync directory itself
    Dirs,          \* directories that may exist below it
    Parent,        \* the directory each of them is in
    Files,         \* files that may be written
    Home,          \* the directory each of them is in
    Ignored,       \* files that match an exclude pattern
    Invalid,       \* paths that hold control characters
    Conflicts,     \* paths whose name is that of a conflicted copy
    ModTimes,      \* modification times of conflicted copies
    Unreadable,    \* directories the daemon has no permission to read
    MaxWatches,    \* fs.inotify.max_user_watches
    QueueCap,      \* fs.inotify.max_queued_events
    MayOverflow,   \* may that queue overflow?
    MayRemove,     \* may directories be removed?
    Debounce,      \* watch.debounce, in time units
    Watcher        \* the name "watcher"

ASSUME WatcherAssumption ==
    /\ Root \notin Dirs \cup Files
    /\ Dirs \cap Files = {}
    /\ Parent \in [Dirs -> Dirs \cup {Root}]
    /\ Home \in [Files -> Dirs \cup {Root}]
    /\ Ignored \subseteq Files
    /\ Unreadable \subseteq Dirs
    /\ ModTimes \subseteq Nat /\ ModTimes # {}
    /\ MaxWatches \in Nat
    /\ QueueCap \in Nat \ {0}
    /\ MayOverflow \in BOOLEAN
    /\ MayRemove \in BOOLEAN
    /\ Debounce \in Nat \ {0}             \* config.Validate

\* A tree has no cycle: of any directories, some is not inside another.
ASSUME TreeAssumption ==
    \A S \in SUBSET Dirs : S # {} => \E d \in S : Parent[d] \notin S

VARIABLES
    wpc,           \* control point of Start
    starting,      \* is the walk the initial one?
    dirs,          \* directories that exist below Root
    watched,       \* directories that have a watch
    queue,         \* the kernel's queue, read through fsw.Events and Errors
    toVisit,       \* the walk: directories whose watch is still to be added
    toList,        \* the walk: directories still to be read
    timer,         \* debounceTimer: nil, or the time it has left
    events,        \* the engine's channel
    wctxDone,      \* the context is cancelled
    warned,        \* w.warned
    lists          \* the lists of the shared *health.Status

\* History, read only by properties.
VARIABLES
    changed,       \* a change since the last trigger was due
    quiet,         \* time since an event last restarted the timer
    gaveUp         \* a watch or an event was lost and nothing was done

tree    == <<dirs, watched, queue>>
walk    == <<wpc, starting, toVisit, toList>>
reports == <<warned, lists>>
wvars   == <<tree, walk, reports, timer, events, wctxDone, changed, quiet,
             gaveUp>>

NoTimer == -1      \* debounceTimer = nil, debounceC = nil
Capacity == 1

Exists(d) == d \in dirs \cup {Root}
Children(d) == {c \in dirs : Parent[c] = d}

-----------------------------------------------------------------------------
(* External: a change in a watched directory is queued.  When the queue is *)
(* full the kernel drops the change and queues one overflow error.         *)

Overflow == [op |-> "overflow", path |-> Root]

Full == Len(queue) >= QueueCap

Notify(dir, op, path) ==
    queue' = IF dir \notin watched THEN queue
             ELSE IF ~Full THEN Append(queue, [op |-> op, path |-> path])
             ELSE IF queue[Len(queue)] = Overflow THEN queue
             ELSE Append(queue, Overflow)

\* Changes made while the initial walk is under way are not yet promised a
\* trigger.
Change(dir, op, path) ==
    /\ wpc # "stopped"
    /\ ~Full \/ MayOverflow
    /\ Notify(dir, op, path)
    /\ changed' = (changed \/ (~starting /\ path \notin Ignored))
    /\ gaveUp' = (gaveUp \/ (dir \in watched /\ Full))
    /\ UNCHANGED <<walk, reports, timer, events, wctxDone, quiet>>

\* Created, written, renamed or removed: the watcher treats them alike.
WriteFile(f) ==
    /\ Exists(Home[f])
    /\ Change(Home[f], "write", f)
    /\ UNCHANGED <<dirs, watched>>

Mkdir(d) ==
    /\ d \notin dirs
    /\ Exists(Parent[d])
    /\ dirs' = dirs \cup {d}
    /\ Change(Parent[d], "create", d)
    /\ UNCHANGED watched

\* The kernel drops the watch of a removed directory.
Rmdir(d) ==
    /\ MayRemove
    /\ d \in dirs
    /\ Children(d) = {}
    /\ dirs' = dirs \ {d}
    /\ watched' = watched \ {d}
    /\ Change(Parent[d], "remove", d)

-----------------------------------------------------------------------------
Init ==
    /\ wpc = "walk"
    /\ starting = TRUE
    /\ dirs \in {S \in SUBSET Dirs : \A d \in S : Parent[d] \in S \cup {Root}}
    /\ watched = {}
    /\ queue = <<>>
    /\ toVisit = {Root}
    /\ toList = {}
    /\ timer = NoTimer
    /\ events = <<>>
    /\ wctxDone = FALSE
    /\ warned = {}
    /\ lists = NoLists
    /\ changed = FALSE
    /\ quiet = 0
    /\ gaveUp = FALSE

-----------------------------------------------------------------------------
(* addRecursive: filepath.WalkDir calls its function on a directory, which *)
(* adds the watch, and only then reads the directory to go on with what is *)
(* in it.  The order among siblings is left open.                          *)

Readable(d) == Exists(d) /\ d \notin Unreadable

\* Mutant: off by one.
RestartTimerLate ==
    /\ timer' = Debounce + 1
    /\ quiet' = 0

\* Mutant: a running timer is left alone.
StartTimerOnce ==
    /\ timer' = IF timer = NoTimer THEN Debounce ELSE timer
    /\ quiet' = 0

\* The first event starts the timer; later ones stop, drain and reset it.
RestartTimer ==
    /\ timer' = Debounce
    /\ quiet' = 0

\* A failed fsw.Add is a warning: the walk goes on.
WatchDir(d) ==
    IF Readable(d) /\ Cardinality(watched) < MaxWatches
    THEN /\ watched' = watched \cup {d}
         /\ UNCHANGED gaveUp
    ELSE /\ UNCHANGED watched
         /\ gaveUp' = (gaveUp \/ Exists(d))

VisitDir(d) ==
    /\ wpc = "walk"
    /\ d \in toVisit
    /\ WatchDir(d)
    /\ toVisit' = toVisit \ {d}
    /\ toList' = toList \cup {d}
    /\ UNCHANGED <<wpc, starting, dirs, queue, reports, timer, events,
                   wctxDone, changed, quiet>>

ListDir(d) ==
    /\ wpc = "walk"
    /\ d \in toList
    /\ Readable(d)
    /\ toList' = toList \ {d}
    /\ toVisit' = toVisit \cup Children(d)
    /\ UNCHANGED <<wpc, starting, tree, reports, timer, events, wctxDone,
                   changed, quiet, gaveUp>>

\* When a directory cannot be read the function is called again with the
\* error, returns it, and so ends the whole walk.  Start then returns the
\* error and closes fsw; the handler of an event logs it and goes on.
AbortWalk(d) ==
    /\ wpc = "walk"
    /\ d \in toList
    /\ ~Readable(d)
    /\ toVisit' = {}
    /\ toList' = {}
    /\ IF starting
       THEN /\ wpc' = "stopped"
            /\ watched' = {}
            /\ queue' = <<>>
            /\ UNCHANGED <<timer, quiet>>
       ELSE /\ wpc' = "select"
            /\ RestartTimer
            /\ UNCHANGED <<watched, queue>>
    /\ gaveUp' = TRUE
    /\ UNCHANGED <<starting, dirs, reports, events, wctxDone, changed>>

EndWalk ==
    /\ wpc = "walk"
    /\ toVisit = {}
    /\ toList = {}
    /\ wpc' = "select"
    /\ starting' = FALSE
    /\ IF starting THEN UNCHANGED <<timer, quiet>> ELSE RestartTimer
    /\ UNCHANGED <<toVisit, toList, tree, reports, events, wctxDone,
                   changed, gaveUp>>

-----------------------------------------------------------------------------
(* The select loop.                                                        *)

\* checkName reports a rejected path once; checkConflict reports a conflicted
\* copy with the time it finds, which may be any.
CheckPath(path) ==
    LET named == IF path \in Invalid \ warned
                 THEN AddInvalidName(lists, path) ELSE lists
    IN  /\ warned' = warned \cup ({path} \cap Invalid)
        /\ IF path \in Conflicts
           THEN \E modified \in ModTimes :
                    lists' = AddConflictFile(named, path, modified)
           ELSE lists' = named

IgnoreEvent ==
    /\ wpc = "select"
    /\ queue # <<>>
    /\ Head(queue).path \in Ignored
    /\ queue' = Tail(queue)
    /\ UNCHANGED <<walk, dirs, watched, reports, timer, events, wctxDone,
                   changed, quiet, gaveUp>>

\* An event on anything but a directory just created.
HandleChange ==
    /\ wpc = "select"
    /\ queue # <<>>
    /\ LET e == Head(queue)
       IN  /\ e # Overflow
           /\ e.path \notin Ignored
           /\ ~(e.op = "create" /\ e.path \in dirs)
           /\ CheckPath(e.path)
    /\ RestartTimer
    /\ queue' = Tail(queue)
    /\ UNCHANGED <<walk, dirs, watched, events, wctxDone, changed, gaveUp>>

\* Mutant: the new directory is watched, what is in it already is not.
WatchOnly(d) ==
    /\ watched' = watched \cup {d}
    /\ RestartTimer
    /\ UNCHANGED <<wpc, toVisit>>

\* addRecursive on the new directory; the timer is restarted when it returns.
BeginWalk(d) ==
    /\ wpc' = "walk"
    /\ toVisit' = {d}
    /\ UNCHANGED <<watched, timer, quiet>>

HandleMkdir ==
    /\ wpc = "select"
    /\ queue # <<>>
    /\ LET e == Head(queue)
       IN  /\ e.op = "create"
           /\ e.path \in dirs
           /\ CheckPath(e.path)
           /\ BeginWalk(e.path)
    /\ queue' = Tail(queue)
    /\ UNCHANGED <<starting, toList, dirs, events, wctxDone, changed, gaveUp>>

\* An error of fsnotify is logged, nothing else.
LogError ==
    /\ wpc = "select"
    /\ queue # <<>>
    /\ Head(queue) = Overflow
    /\ queue' = Tail(queue)
    /\ UNCHANGED <<walk, dirs, watched, reports, timer, events, wctxDone,
                   changed, quiet, gaveUp>>

\* Mutant: the trigger is sent with a blocking send.
BlockingSend ==
    /\ Len(events) < Capacity
    /\ events' = Append(events, Watcher)

\* A trigger that finds the channel full is dropped.
Send ==
    events' = IF Len(events) < Capacity THEN Append(events, Watcher)
              ELSE events

Fire ==
    /\ wpc = "select"
    /\ timer = 0
    /\ Send
    /\ timer' = NoTimer
    /\ changed' = FALSE
    /\ UNCHANGED <<walk, tree, reports, wctxDone, quiet, gaveUp>>

Stop ==
    /\ wpc = "select"
    /\ wctxDone
    /\ wpc' = "stopped"
    /\ watched' = {}
    /\ queue' = <<>>
    /\ timer' = NoTimer
    /\ UNCHANGED <<starting, toVisit, toList, dirs, reports, events,
                   wctxDone, changed, quiet, gaveUp>>

-----------------------------------------------------------------------------
(* The surroundings of the watcher when it is checked on its own.          *)

EngineTakes ==
    /\ events # <<>>
    /\ events' = Tail(events)
    /\ UNCHANGED <<tree, walk, reports, timer, wctxDone,
                   changed, quiet, gaveUp>>

Cancel ==
    /\ ~wctxDone
    /\ wctxDone' = TRUE
    /\ UNCHANGED <<tree, walk, reports, timer, events, changed, quiet, gaveUp>>

Tick ==
    /\ timer > 0 \/ quiet < Debounce
    /\ timer' = IF timer > 0 THEN timer - 1 ELSE timer
    /\ quiet' = IF quiet < Debounce THEN quiet + 1 ELSE quiet
    /\ UNCHANGED <<tree, walk, reports, events, wctxDone, changed, gaveUp>>

Finished ==
    /\ wpc = "stopped"
    /\ UNCHANGED wvars

TreeStep ==
    \/ \E f \in Files : WriteFile(f)
    \/ \E d \in Dirs : Mkdir(d) \/ Rmdir(d)

WalkStep ==
    \/ \E d \in Dirs \cup {Root} : VisitDir(d) \/ ListDir(d) \/ AbortWalk(d)
    \/ EndWalk

SelectStep ==
    \/ IgnoreEvent
    \/ HandleChange
    \/ HandleMkdir
    \/ LogError
    \/ Fire
    \/ Stop

Next ==
    \/ TreeStep
    \/ WalkStep
    \/ SelectStep
    \/ EngineTakes
    \/ Cancel
    \/ Tick
    \/ Finished

Spec == Init /\ [][Next]_wvars

\* The watcher's goroutine runs when it can, and time passes.  When its
\* select finds both a file event and the expired timer it picks either.
Fairness ==
    /\ WF_wvars(WalkStep \/ SelectStep)
    /\ WF_wvars(Tick)

FairSpec == Spec /\ Fairness

-----------------------------------------------------------------------------
(* Properties.                                                             *)

\* Every variable has the type of what it models.
Paths == Dirs \cup Files

TypeOK ==
    /\ wpc \in {"walk", "select", "stopped"}
    /\ starting \in BOOLEAN
    /\ dirs \subseteq Dirs
    /\ watched \subseteq Dirs \cup {Root}
    /\ queue \in Seq([op : {"write", "create", "remove", "overflow"},
                      path : Paths \cup {Root}])
    /\ toVisit \subseteq Dirs \cup {Root}
    /\ toList \subseteq Dirs \cup {Root}
    /\ timer \in NoTimer..Debounce
    /\ events \in Seq({Watcher})
    /\ Len(events) <= Capacity
    /\ wctxDone \in BOOLEAN
    /\ warned \subseteq Invalid
    /\ changed \in BOOLEAN
    /\ gaveUp \in BOOLEAN
    /\ quiet \in 0..Debounce

\* The timer expires, and a trigger goes out, only after a full debounce
\* window in which no event was handled, however the resets fell.
QuietBeforeTrigger == timer = 0 => quiet = Debounce

\* No change is missed: until a change has been announced by a trigger, the
\* watcher has it ahead of it: in the kernel's queue, in a walk under way or
\* in a running timer.  Nothing is missed in a directory created a moment
\* ago and not yet watched, nor in one created inside it in the meantime.
\* The only ways to miss a change are the three the code gives up on: a
\* queue overflow, a watch that cannot be added, a walk that is aborted.
NoMissedChange ==
    changed /\ ~gaveUp /\ wpc # "stopped" =>
        \/ \E i \in 1..Len(queue) : queue[i].path \notin Ignored
        \/ wpc = "walk"
        \/ timer # NoTimer

\* Why: once the queue is read and no walk is under way, every directory
\* that exists is watched.
AllWatched ==
    wpc = "select" /\ queue = <<>> /\ ~gaveUp => dirs \cup {Root} \subseteq watched

\* Once the tree stops changing, a change is announced, whether or not the
\* engine is taking triggers.
QuietAtLast == <>[][~TreeStep]_wvars
ChangesAnnounced ==
    QuietAtLast => [](changed => <>(~changed \/ gaveUp \/ wctxDone))
=============================================================================
