----------------------------- MODULE SyncDaemon -----------------------------
(***************************************************************************)
(* The daemon at work: the watcher, the poller and the server's push share *)
(* the engine's channel, and nextcloudcmd changes the very directory that  *)
(* is watched.  The watcher is Watcher.tla after its initial walk, over a  *)
(* directory without subdirectories; the engine is SyncLoop.tla, which     *)
(* Engine.tla implements; the poller is internal/poller/poller.go.  Users, *)
(* the server, the push sources and nextcloudcmd are external.             *)
(***************************************************************************)
EXTENDS Integers, Sequences, FiniteSets

CONSTANTS
    Root,           \* the sync directory
    Uploads,        \* files that are edited here
    Downloads,      \* files that are edited on the server
    Debounce, Cooldown, Interval,   \* in time units
    Polling,        \* poll.enabled
    Backlog,        \* may there be edits from before the daemon ran?
    Prompts,        \* may goroutines run within the time unit, or late?
    QueueCap,       \* bound: changes in the kernel's queue
    MaxFailures     \* bound: how often a sync fails

ASSUME SyncDaemonAssumption ==
    /\ Uploads \cap Downloads = {}
    /\ Debounce \in Nat \ {0} /\ Interval \in Nat \ {0}
    /\ Cooldown \in Nat /\ Cooldown >= Debounce      \* config.Validate
    /\ Polling \in BOOLEAN /\ Backlog \in BOOLEAN /\ Prompts \subseteq BOOLEAN
    /\ QueueCap \in Nat \ {0} /\ MaxFailures \in Nat

VARIABLES
    prompt,         \* goroutines run within the time unit; it stays as it is
    events,         \* the engine's channel
    running, by, rest,              \* SyncLoop
    queue, timer, changed,          \* Watcher
    ticker,         \* time until the poller's next tick
    unsynced,       \* edited here, not read by a sync since
    newer,          \* edited on the server, not written here since
    toDo,           \* the sync: files it has still to look at
    picked,         \* the sync: edits it has read
    failures

\* History, read only by properties.
VARIABLES
    edited,         \* the debounce window holds a user's edit
    carried         \* the watcher's event stands for a user's edit

\* The rest of Watcher's variables; they do not change here.
VARIABLES wpc, starting, dirs, watched, toVisit, toList, wctxDone, warned,
          lists, quiet, gaveUp

settled == <<wpc, starting, dirs, watched, toVisit, toList, wctxDone, warned,
             lists, quiet, gaveUp>>
watcherVars == <<queue, timer, changed, settled>>
loopVars == <<running, by, rest>>
clientVars == <<unsynced, newer, toDo, picked, failures>>
vars == <<prompt, events, watcherVars, loopVars, ticker, clientVars, edited, carried>>

Files == Uploads \cup Downloads
Sources == {"watcher", "poller", "push"}

L == INSTANCE SyncLoop

W == INSTANCE Watcher WITH
         Dirs <- {}, Parent <- [d \in {} |-> Root],
         Home <- [f \in Files |-> Root],
         Ignored <- {}, Invalid <- {}, Conflicts <- {}, ModTimes <- {0},
         Unreadable <- {}, MaxWatches <- 1,
         MayOverflow <- FALSE, MayRemove <- FALSE, Watcher <- "watcher",
         MaxDisplayedNames <- 1, MaxDisplayedConflicts <- 1

NoTimer == -1

Init ==
    /\ prompt \in Prompts
    /\ events = <<>>
    /\ running = FALSE
    /\ by = "poller"
    /\ rest = Cooldown
    /\ queue = <<>>
    /\ timer = NoTimer
    /\ changed = FALSE
    /\ wpc = "select" /\ starting = FALSE
    /\ dirs = {} /\ watched = {Root} /\ toVisit = {} /\ toList = {}
    /\ wctxDone = FALSE /\ warned = {} /\ lists = W!NoLists
    /\ quiet = 0 /\ gaveUp = FALSE
    /\ ticker = Interval
    /\ unsynced \in IF Backlog THEN SUBSET Uploads ELSE {{}}
    /\ newer \in IF Backlog THEN SUBSET Downloads ELSE {{}}
    /\ toDo = {}
    /\ picked = {}
    /\ failures = 0
    /\ edited = FALSE
    /\ carried = FALSE

-----------------------------------------------------------------------------
(* Users and the server.                                                   *)

Edit(f) ==
    /\ f \in Uploads
    /\ W!WriteFile(f)
    /\ unsynced' = unsynced \cup {f}
    /\ UNCHANGED <<prompt, loopVars, ticker, newer, toDo, picked, failures, edited,
                   carried>>

ServerChange(f) ==
    /\ f \in Downloads
    /\ newer' = newer \cup {f}
    /\ UNCHANGED <<prompt, events, watcherVars, loopVars, ticker, unsynced, toDo,
                   picked, failures, edited, carried>>

\* notify_push, a webhook or a peer triggers, at any time or never.
Push ==
    /\ L!Put("push")
    /\ UNCHANGED <<prompt, watcherVars, ticker, clientVars, edited, carried>>

-----------------------------------------------------------------------------
(* The watcher and the poller.                                             *)

HandleChange ==
    /\ W!HandleChange
    /\ edited' = (edited \/ Head(queue).path \in Uploads)
    /\ UNCHANGED <<prompt, loopVars, ticker, clientVars, carried>>

Fire ==
    /\ W!Fire
    /\ L!Put("watcher")
    /\ carried' = IF events = <<>> THEN edited ELSE carried
    /\ edited' = FALSE
    /\ UNCHANGED <<prompt, ticker, clientVars>>

\* Mutant: the channel has room for every tick.
PollQueueing ==
    /\ Polling
    /\ ticker = 0
    /\ events' = Append(events, "poller")
    /\ ticker' = Interval
    /\ UNCHANGED <<prompt, watcherVars, loopVars, clientVars, edited, carried>>

\* Mutant: a timer in the place of the ticker.
PollOnce ==
    /\ Polling
    /\ ticker = 0
    /\ L!Put("poller")
    /\ ticker' = NoTimer
    /\ UNCHANGED <<prompt, watcherVars, clientVars, edited, carried>>

\* A tick that finds the channel full is dropped, like any trigger.
Poll ==
    /\ Polling
    /\ ticker = 0
    /\ L!Put("poller")
    /\ ticker' = Interval
    /\ UNCHANGED <<prompt, watcherVars, clientVars, edited, carried>>

-----------------------------------------------------------------------------
(* The engine and nextcloudcmd.                                            *)

Discard ==
    /\ L!Discard
    /\ UNCHANGED <<prompt, watcherVars, ticker, clientVars, edited, carried>>

\* Mutant: no cooldown.
BeginAtOnce ==
    /\ ~running
    /\ events # <<>>
    /\ running' = TRUE
    /\ by' = Head(events)
    /\ events' = Tail(events)
    /\ toDo' = Files
    /\ picked' = {}
    /\ UNCHANGED <<prompt, rest, watcherVars, ticker, unsynced, newer, failures,
                   edited, carried>>

Begin ==
    /\ L!Begin
    /\ toDo' = Files
    /\ picked' = {}
    /\ UNCHANGED <<prompt, watcherVars, ticker, unsynced, newer, failures, edited,
                   carried>>

\* nextcloudcmd looks at each file once, in any order.
Upload(f) ==
    /\ f \in toDo \cap Uploads
    /\ toDo' = toDo \ {f}
    /\ picked' = picked \cup ({f} \cap unsynced)
    /\ unsynced' = unsynced \ {f}
    /\ UNCHANGED <<prompt, events, watcherVars, loopVars, ticker, newer, failures,
                   edited, carried>>

SkipDownload(f) ==
    /\ f \in (toDo \cap Downloads) \ newer
    /\ toDo' = toDo \ {f}
    /\ UNCHANGED <<prompt, events, watcherVars, loopVars, ticker, unsynced, newer,
                   picked, failures, edited, carried>>

\* The watcher cannot tell this write from a user's.
Download(f) ==
    /\ f \in toDo \cap Downloads \cap newer
    /\ W!WriteFile(f)
    /\ toDo' = toDo \ {f}
    /\ newer' = newer \ {f}
    /\ UNCHANGED <<prompt, loopVars, ticker, unsynced, picked, failures, edited,
                   carried>>

Succeed ==
    /\ toDo = {}
    /\ L!End
    /\ picked' = {}
    /\ UNCHANGED <<prompt, watcherVars, ticker, unsynced, newer, toDo, failures,
                   edited, carried>>

\* nextcloudcmd fails at any point, or is killed: nothing it read counts.
Fail ==
    /\ failures < MaxFailures
    /\ L!End
    /\ failures' = failures + 1
    /\ unsynced' = unsynced \cup picked
    /\ picked' = {}
    /\ toDo' = {}
    /\ UNCHANGED <<prompt, watcherVars, ticker, newer, edited, carried>>

-----------------------------------------------------------------------------
(* Time.                                                                   *)

Urgent ==
    \/ queue # <<>>
    \/ timer = 0
    \/ ~running /\ events # <<>>
    \/ Polling /\ ticker = 0

Down(clock) == IF clock > 0 THEN clock - 1 ELSE clock

Tick ==
    /\ prompt => ~Urgent
    /\ timer' = Down(timer)
    /\ ticker' = IF Polling THEN Down(ticker) ELSE ticker
    /\ rest' = IF rest < Cooldown THEN rest + 1 ELSE rest
    /\ <<timer, ticker, rest>>' # <<timer, ticker, rest>>
    /\ UNCHANGED <<prompt, events, running, by, queue, changed, settled, clientVars,
                   edited, carried>>

World == \E f \in Files : Edit(f) \/ ServerChange(f)

Client == \E f \in Files : Upload(f) \/ SkipDownload(f) \/ Download(f)

Next ==
    \/ World
    \/ Push
    \/ HandleChange \/ Fire \/ Poll
    \/ Discard \/ Begin \/ Client \/ Succeed \/ Fail
    \/ Tick

Spec == Init /\ [][Next]_vars

\* Goroutines run, nextcloudcmd goes on until it is done, and time passes
\* however many pushes come.
\* Users, the server and the push sources owe nothing.
Fairness ==
    /\ WF_vars(HandleChange \/ Fire)
    /\ WF_vars(Poll)
    /\ WF_vars(Discard \/ Begin)
    /\ WF_vars(Client \/ Succeed)
    /\ SF_vars(Tick)

FairSpec == Spec /\ Fairness

-----------------------------------------------------------------------------
(* Properties.                                                             *)

TypeOK ==
    /\ prompt \in Prompts
    /\ events \in {<<>>} \cup {<<s>> : s \in Sources}
    /\ running \in BOOLEAN
    /\ by \in Sources
    /\ rest \in 0..Cooldown
    /\ queue \in Seq([op : {"write"}, path : Files])
    /\ Len(queue) <= QueueCap
    /\ timer \in NoTimer..Debounce
    /\ changed \in BOOLEAN
    /\ ticker \in 0..Interval
    /\ unsynced \subseteq Uploads
    /\ newer \subseteq Downloads
    /\ toDo \subseteq Files
    /\ picked \subseteq Uploads
    /\ failures \in 0..MaxFailures
    /\ edited \in BOOLEAN
    /\ carried \in BOOLEAN

\* No echo: a sync that the watcher asks for answers a user's edit, never
\* only what an earlier sync wrote, however the downloads, the debounce
\* window, the channel and the cooldown fall.  This takes a cooldown longer
\* than the debounce window.
NoEcho ==
    [][prompt /\ Begin /\ by' = "watcher" => carried]_vars

\* Once the users and the server leave the files alone, both sides converge:
\* what was edited during a sync, in the cooldown, before the daemon ran or
\* before a failed sync, is not lost.
Converged == unsynced = {} /\ picked = {} /\ newer = {}
QuietAtLast == <>[][~World]_vars
Converges == QuietAtLast => <>[]Converged

\* DESIGN.md:515, "Editing a file in the sync directory triggers a sync within
\* debounce window": every edit is followed by a sync that reads it.
EditsSynced ==
    QuietAtLast => \A f \in Uploads : [](f \in unsynced => <>(f \notin unsynced))
=============================================================================
