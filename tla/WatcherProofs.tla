--------------------------- MODULE WatcherProofs ----------------------------
(***************************************************************************)
(* Theorems about Watcher, for every tree, every debounce window, every    *)
(* size of the kernel's queue and of its watch table.                      *)
(***************************************************************************)
EXTENDS Watcher, TLAPS

Event == [op : {"write", "create", "remove", "overflow"},
          path : Paths \cup {Root}]

\* A change in a directory is queued, unless the directory is not watched or
\* the queue is full.
LEMMA NotifyCases ==
    ASSUME NEW dir, NEW op, NEW path, Notify(dir, op, path)
    PROVE  \/ dir \notin watched /\ queue' = queue
           \/ /\ dir \in watched /\ ~Full
              /\ queue' = Append(queue, [op |-> op, path |-> path])
           \/ /\ dir \in watched /\ Full
              /\ queue' = queue \/ queue' = Append(queue, Overflow)
BY DEF Notify

\* Every variable keeps the type of what it models (watcher.go:59-160).
THEOREM WatcherTypeOK == Spec => []TypeOK
<1> USE WatcherAssumption DEF NoTimer, Capacity
<1>1. Init => TypeOK
  <2> SUFFICES ASSUME Init PROVE TypeOK
    OBVIOUS
  <2>1. queue \in Seq(Event) /\ events \in Seq({Watcher})
        /\ Len(events) <= Capacity
    BY DEF Init
  <2>2. dirs \subseteq Dirs
    BY DEF Init
  <2>3. /\ starting \in BOOLEAN /\ wctxDone \in BOOLEAN
        /\ changed \in BOOLEAN /\ gaveUp \in BOOLEAN
    BY DEF Init
  <2>4. timer \in NoTimer..Debounce /\ quiet \in 0..Debounce
    BY DEF Init
  <2> QED
    BY <2>1, <2>2, <2>3, <2>4 DEF Init, TypeOK, Event
<1>2. TypeOK /\ [Next]_wvars => TypeOK'
  <2> SUFFICES ASSUME TypeOK, [Next]_wvars
               PROVE  TypeOK'
    OBVIOUS
  <2>1. queue \in Seq(Event)
    BY DEF TypeOK, Event
  <2>2. ASSUME NEW dir, NEW op \in {"write", "create", "remove"},
               NEW path \in Paths, Change(dir, op, path),
               dirs' \subseteq Dirs, watched' \subseteq Dirs \cup {Root}
        PROVE  TypeOK'
    <3>1. [op |-> op, path |-> path] \in Event /\ Overflow \in Event
      BY DEF Event, Overflow
    <3>2. queue' \in Seq(Event)
      BY <2>1, <2>2, <3>1, NotifyCases DEF Change
    <3> QED
      BY <2>2, <3>2 DEF TypeOK, Event, Change, walk, reports
  <2>3. ASSUME NEW f \in Files, WriteFile(f) PROVE TypeOK'
    BY <2>2, <2>3 DEF WriteFile, Paths, TypeOK
  <2>4. ASSUME NEW d \in Dirs, Mkdir(d) PROVE TypeOK'
    BY <2>2, <2>4 DEF Mkdir, Paths, TypeOK
  <2>5. ASSUME NEW d \in Dirs, Rmdir(d) PROVE TypeOK'
    BY <2>2, <2>5 DEF Rmdir, Paths, TypeOK
  <2>6. ASSUME NEW d \in Dirs \cup {Root}, VisitDir(d) PROVE TypeOK'
    BY <2>6 DEF TypeOK, VisitDir, WatchDir, reports
  <2>7. ASSUME NEW d \in Dirs \cup {Root}, ListDir(d) PROVE TypeOK'
    BY <2>7 DEF TypeOK, ListDir, Children, tree, reports
  <2>8. ASSUME NEW d \in Dirs \cup {Root}, AbortWalk(d) PROVE TypeOK'
    <3>1. gaveUp' \in BOOLEAN
      BY <2>8 DEF AbortWalk
    <3>2. timer' \in NoTimer..Debounce /\ quiet' \in 0..Debounce
      BY <2>8 DEF TypeOK, AbortWalk, RestartTimer
    <3>3. queue' = queue \/ queue' = <<>>
      BY <2>8 DEF AbortWalk
    <3>4. queue' \in Seq(Event)
      <4>1. <<>> \in Seq(Event)
        OBVIOUS
      <4> QED
        BY <2>1, <3>3, <4>1
    <3>5. watched' \subseteq Dirs \cup {Root}
      BY <2>8 DEF TypeOK, AbortWalk
    <3> QED
      BY <2>8, <3>1, <3>2, <3>4, <3>5 DEF TypeOK, Event, AbortWalk, reports
  <2>9. CASE EndWalk
    <3>1. starting' \in BOOLEAN
      BY <2>9 DEF EndWalk
    <3>2. timer' \in NoTimer..Debounce /\ quiet' \in 0..Debounce
      BY <2>9 DEF TypeOK, EndWalk, RestartTimer
    <3> QED
      BY <2>9, <3>1, <3>2 DEF TypeOK, EndWalk, tree, reports
  <2>10. ASSUME queue # <<>>, queue' = Tail(queue)
         PROVE  queue' \in Seq(Event)
    BY <2>1, <2>10
  <2>11. CASE IgnoreEvent
    BY <2>10, <2>11 DEF TypeOK, Event, IgnoreEvent, walk, reports
  <2>12. CASE HandleChange
    <3>1. warned' \subseteq Invalid
      BY <2>12 DEF TypeOK, HandleChange, CheckPath
    <3> QED
      BY <2>10, <2>12, <3>1
      DEF TypeOK, Event, HandleChange, RestartTimer, walk
  <2>13. CASE HandleMkdir
    <3>1. warned' \subseteq Invalid
      BY <2>13 DEF TypeOK, HandleMkdir, CheckPath
    <3> QED
      BY <2>10, <2>13, <3>1 DEF TypeOK, Event, HandleMkdir, BeginWalk
  <2>14. CASE LogError
    BY <2>10, <2>14 DEF TypeOK, Event, LogError, walk, reports
  <2>15. CASE Fire
    <3>1. events' \in Seq({Watcher}) /\ Len(events') <= Capacity
      BY <2>15 DEF TypeOK, Fire, Send
    <3>2. changed' \in BOOLEAN
      BY <2>15 DEF Fire
    <3>3. timer' \in NoTimer..Debounce
      BY <2>15 DEF Fire
    <3> QED
      BY <2>15, <3>1, <3>2, <3>3 DEF TypeOK, Fire, walk, tree, reports
  <2>16. CASE Stop
    BY <2>16 DEF TypeOK, Stop, reports
  <2>17. CASE EngineTakes
    <3>1. events' \in Seq({Watcher}) /\ Len(events') <= Capacity
      BY <2>17 DEF TypeOK, EngineTakes
    <3> QED
      BY <2>17, <3>1 DEF TypeOK, EngineTakes, walk, tree, reports
  <2>18. CASE Cancel
    BY <2>18 DEF TypeOK, Cancel, walk, tree, reports
  <2>19. CASE Tick
    BY <2>19 DEF TypeOK, Tick, walk, tree, reports
  <2>20. CASE UNCHANGED wvars
    BY <2>20 DEF TypeOK, wvars, walk, tree, reports
  <2> QED
    BY <2>3, <2>4, <2>5, <2>6, <2>7, <2>8, <2>9, <2>11, <2>12, <2>13, <2>14,
       <2>15, <2>16, <2>17, <2>18, <2>19, <2>20
    DEF Next, TreeStep, WalkStep, SelectStep, Finished
<1> QED
  BY <1>1, <1>2, PTL DEF Spec

-----------------------------------------------------------------------------
(* Debounce: while the timer runs, what it has left and the quiet so far   *)
(* add up to the window.                                                   *)

DebounceInv == timer # NoTimer => quiet = Debounce - timer

\* A trigger goes out only after a whole window without an event, however
\* the resets interleave with the passing of time (watcher.go:122-135).
THEOREM WatcherQuietBeforeTrigger == Spec => []QuietBeforeTrigger
<1> USE WatcherAssumption DEF NoTimer
<1>1. Init => DebounceInv
  BY DEF Init, DebounceInv
<1>2. TypeOK /\ DebounceInv /\ [Next]_wvars => DebounceInv'
  <2> SUFFICES ASSUME TypeOK, DebounceInv, [Next]_wvars
               PROVE  DebounceInv'
    OBVIOUS
  <2>1. CASE UNCHANGED <<timer, quiet>>
    BY <2>1 DEF DebounceInv
  <2>2. CASE RestartTimer
    BY <2>2 DEF RestartTimer, DebounceInv
  <2>3. CASE timer' = NoTimer
    BY <2>3 DEF DebounceInv
  <2>4. CASE Tick
    BY <2>4 DEF Tick, DebounceInv, TypeOK
  <2>5. CASE TreeStep
    BY <2>1, <2>3, <2>5
    DEF TreeStep, WriteFile, Mkdir, Rmdir, Change
  <2>6. CASE WalkStep
    BY <2>1, <2>2, <2>6
    DEF WalkStep, VisitDir, ListDir, AbortWalk, EndWalk
  <2>7. CASE SelectStep
    BY <2>1, <2>2, <2>3, <2>7
    DEF SelectStep, IgnoreEvent, HandleChange, HandleMkdir, BeginWalk,
        LogError, Fire, Stop
  <2> QED
    BY <2>1, <2>4, <2>5, <2>6, <2>7
    DEF Next, EngineTakes, Cancel, Finished, wvars
<1>3. DebounceInv => QuietBeforeTrigger
  BY DEF DebounceInv, QuietBeforeTrigger
<1> QED
  BY <1>1, <1>2, <1>3, WatcherTypeOK, PTL DEF Spec

-----------------------------------------------------------------------------
(* Coverage.  A directory that is not watched is on its way to a watch:    *)
(* the walk is to visit it or to read its parent, its parent is not        *)
(* watched either and will be read later, or its creation is in the queue. *)

Created(d) == [op |-> "create", path |-> d]

PendingCreate(d) == \E i \in 1..Len(queue) : queue[i] = Created(d)

Covered(d) ==
    \/ d \in watched
    \/ d \in toVisit
    \/ Parent[d] \in toList
    \/ Parent[d] \notin watched
    \/ PendingCreate(d)

ShapeInv ==
    /\ \A d \in dirs : Parent[d] \in dirs \cup {Root}
    /\ wpc = "select" => toVisit = {} /\ toList = {}
    /\ starting => wpc # "select" /\ ~changed
    /\ (\E i \in 1..Len(queue) : queue[i] = Overflow) => gaveUp

CoverInv ==
    ~gaveUp /\ wpc # "stopped" =>
        /\ Root \in watched \cup toVisit
        /\ \A d \in dirs : Covered(d)

\* What is queued stays queued when an event is appended.
LEMMA AppendKeeps ==
    ASSUME NEW e, queue \in Seq(Event), queue' = Append(queue, e)
    PROVE  /\ \A i \in 1..Len(queue) :
                 i \in 1..Len(queue') /\ queue'[i] = queue[i]
           /\ Len(queue') \in 1..Len(queue') /\ queue'[Len(queue')] = e
           /\ \A i \in 1..Len(queue') : i \in 1..Len(queue) \/ queue'[i] = e
OBVIOUS

\* Reading an event leaves the others.
LEMMA TailKeeps ==
    ASSUME queue \in Seq(Event), queue # <<>>, queue' = Tail(queue)
    PROVE  /\ \A i \in 1..Len(queue) :
                 \/ queue[i] = Head(queue)
                 \/ i - 1 \in 1..Len(queue') /\ queue'[i - 1] = queue[i]
           /\ \A i \in 1..Len(queue') :
                 i + 1 \in 1..Len(queue) /\ queue'[i] = queue[i + 1]
OBVIOUS

\* A step of the tree only adds to the queue.  If the directory is watched
\* and no event is lost, the change itself is queued.
LEMMA ChangeKeeps ==
    ASSUME TypeOK, NEW dir, NEW op \in {"write", "create", "remove"},
           NEW path \in Paths, Change(dir, op, path)
    PROVE  /\ \A i \in 1..Len(queue) :
                 i \in 1..Len(queue') /\ queue'[i] = queue[i]
           /\ \A i \in 1..Len(queue') :
                 queue'[i] = Overflow =>
                     gaveUp' \/ (i \in 1..Len(queue) /\ queue[i] = Overflow)
           /\ dir \in watched =>
                 \/ gaveUp'
                 \/ \E i \in 1..Len(queue') :
                       queue'[i] = [op |-> op, path |-> path]
<1>1. queue \in Seq(Event)
  BY DEF TypeOK, Event
<1>2. Notify(dir, op, path) /\ gaveUp' = (gaveUp \/ (dir \in watched /\ Full))
  BY DEF Change
<1> DEFINE e == [op |-> op, path |-> path]
<1>3. e # Overflow
  BY DEF Overflow
<1> HIDE DEF e
<1>4. CASE queue' = queue /\ (dir \notin watched \/ gaveUp')
  BY <1>4
<1>5. CASE gaveUp' /\ queue' = Append(queue, Overflow)
  BY <1>1, <1>5, AppendKeeps
<1>6. CASE queue' = Append(queue, e)
  BY <1>1, <1>3, <1>6, AppendKeeps DEF e
<1> QED
  BY <1>2, <1>4, <1>5, <1>6, NotifyCases DEF e

-----------------------------------------------------------------------------
\* The tree stays a tree, no walk is left over in the select, nothing is
\* promised before the initial walk is done, an overflow is a loss.
LEMMA WatcherShape == Spec => []ShapeInv
<1> USE WatcherAssumption
<1>1. Init => ShapeInv
  BY DEF Init, ShapeInv
<1>2. TypeOK /\ ShapeInv /\ [Next]_wvars => ShapeInv'
  <2> SUFFICES ASSUME TypeOK, ShapeInv, [Next]_wvars
               PROVE  ShapeInv'
    OBVIOUS
  <2>1. queue \in Seq(Event)
    BY DEF TypeOK, Event
  <2>2. ASSUME NEW dir, NEW op \in {"write", "create", "remove"},
               NEW path \in Paths, Change(dir, op, path),
               \A d \in dirs' : Parent[d] \in dirs' \cup {Root}
        PROVE  ShapeInv'
    <3>1. (\E i \in 1..Len(queue') : queue'[i] = Overflow) => gaveUp'
      BY <2>2, ChangeKeeps DEF ShapeInv, Change
    <3>2. starting' => wpc' # "select" /\ ~changed'
      BY <2>2 DEF ShapeInv, Change, walk
    <3> QED
      BY <2>2, <3>1, <3>2 DEF ShapeInv, Change, walk
  <2>3. ASSUME NEW f \in Files, WriteFile(f) PROVE ShapeInv'
    BY <2>2, <2>3 DEF WriteFile, Paths, ShapeInv
  <2>4. ASSUME NEW d \in Dirs, Mkdir(d) PROVE ShapeInv'
    <3>1. \A c \in dirs' : Parent[c] \in dirs' \cup {Root}
      BY <2>4 DEF Mkdir, Exists, ShapeInv
    <3> QED
      BY <2>2, <2>4, <3>1 DEF Mkdir, Paths
  <2>5. ASSUME NEW d \in Dirs, Rmdir(d) PROVE ShapeInv'
    <3>1. \A c \in dirs' : Parent[c] \in dirs' \cup {Root}
      BY <2>5 DEF Rmdir, Children, ShapeInv
    <3> QED
      BY <2>2, <2>5, <3>1 DEF Rmdir, Paths
  <2>6. ASSUME NEW d \in Dirs \cup {Root}, VisitDir(d) PROVE ShapeInv'
    BY <2>6 DEF ShapeInv, VisitDir, WatchDir
  <2>7. ASSUME NEW d \in Dirs \cup {Root}, ListDir(d) PROVE ShapeInv'
    BY <2>7 DEF ShapeInv, ListDir, tree
  <2>8. ASSUME NEW d \in Dirs \cup {Root}, AbortWalk(d) PROVE ShapeInv'
    BY <2>8 DEF ShapeInv, AbortWalk
  <2>9. CASE EndWalk
    BY <2>9 DEF ShapeInv, EndWalk, tree
  <2>10. ASSUME queue # <<>>, queue' = Tail(queue), UNCHANGED gaveUp
         PROVE  (\E i \in 1..Len(queue') : queue'[i] = Overflow) => gaveUp'
    BY <2>1, <2>10, TailKeeps DEF ShapeInv
  <2>11. CASE IgnoreEvent
    BY <2>10, <2>11 DEF ShapeInv, IgnoreEvent, walk
  <2>12. CASE HandleChange
    BY <2>10, <2>12 DEF ShapeInv, HandleChange, walk
  <2>13. CASE HandleMkdir
    BY <2>10, <2>13 DEF ShapeInv, HandleMkdir, BeginWalk
  <2>14. CASE LogError
    BY <2>10, <2>14 DEF ShapeInv, LogError, walk
  <2>15. CASE Fire
    BY <2>15 DEF ShapeInv, Fire, walk, tree
  <2>16. CASE Stop
    BY <2>16 DEF ShapeInv, Stop
  <2>17. CASE EngineTakes \/ Cancel \/ Tick \/ UNCHANGED wvars
    BY <2>17 DEF ShapeInv, EngineTakes, Cancel, Tick, wvars, walk, tree
  <2> QED
    BY <2>3, <2>4, <2>5, <2>6, <2>7, <2>8, <2>9, <2>11, <2>12, <2>13, <2>14,
       <2>15, <2>16, <2>17
    DEF Next, TreeStep, WalkStep, SelectStep, Finished
<1> QED
  BY <1>1, <1>2, WatcherTypeOK, PTL DEF Spec

\* Every directory that exists is watched or on its way to a watch, although
\* the tree changes between any two steps of a walk.
LEMMA WatcherCover == Spec => []CoverInv
<1> USE WatcherAssumption
<1>1. Init => CoverInv
  BY DEF Init, CoverInv, Covered
<1>2. TypeOK /\ ShapeInv /\ CoverInv /\ [Next]_wvars => CoverInv'
  <2> SUFFICES ASSUME TypeOK, ShapeInv, CoverInv, [Next]_wvars
               PROVE  CoverInv'
    OBVIOUS
  <2>1. queue \in Seq(Event) /\ dirs \subseteq Dirs
    BY DEF TypeOK, Event
  <2>2. ASSUME NEW dir, NEW op \in {"write", "create", "remove"},
               NEW path \in Paths, Change(dir, op, path), NEW d
        PROVE  PendingCreate(d) => PendingCreate(d)'
    BY <2>2, ChangeKeeps DEF PendingCreate
  <2>3. ASSUME NEW f \in Files, WriteFile(f) PROVE CoverInv'
    <3>1. \A d \in dirs : Covered(d) => Covered(d)'
      BY <2>2, <2>3 DEF WriteFile, Paths, Change, walk, Covered
    <3> QED
      BY <2>3, <3>1 DEF WriteFile, Change, walk, CoverInv
  <2>4. ASSUME NEW c \in Dirs, Mkdir(c) PROVE CoverInv'
    <3>1. \A d \in dirs : Covered(d) => Covered(d)'
      BY <2>2, <2>4 DEF Mkdir, Paths, Change, walk, Covered
    <3>2. gaveUp' \/ Covered(c)'
      <4>1. CASE Parent[c] \notin watched
        BY <2>4, <4>1 DEF Mkdir, Covered
      <4>2. CASE Parent[c] \in watched
        BY <2>4, <4>2, ChangeKeeps
        DEF Mkdir, Paths, Covered, PendingCreate, Created
      <4> QED
        BY <4>1, <4>2
    <3> QED
      BY <2>4, <3>1, <3>2 DEF Mkdir, Change, walk, CoverInv
  <2>5. ASSUME NEW c \in Dirs, Rmdir(c) PROVE CoverInv'
    <3>1. \A d \in dirs' : Covered(d) => Covered(d)'
      BY <2>2, <2>5 DEF Rmdir, Paths, Change, walk, Covered
    <3> QED
      BY <2>5, <3>1 DEF Rmdir, Change, walk, CoverInv
  <2>6. ASSUME NEW c \in Dirs \cup {Root}, VisitDir(c) PROVE CoverInv'
    <3>1. ASSUME NEW d \in dirs, Covered(d) PROVE gaveUp' \/ Covered(d)'
      <4>1. PendingCreate(d) => PendingCreate(d)'
        BY <2>6 DEF VisitDir, PendingCreate
      <4>2. CASE d = c
        BY <2>6, <4>2 DEF VisitDir, WatchDir, Exists, Covered
      <4>3. CASE d # c
        BY <2>6, <3>1, <4>1, <4>3 DEF VisitDir, WatchDir, Covered
      <4> QED
        BY <4>2, <4>3
    <3>2. Root \in watched \cup toVisit => gaveUp' \/ Root \in (watched \cup toVisit)'
      BY <2>6 DEF VisitDir, WatchDir, Exists
    <3>3. gaveUp => gaveUp'
      BY <2>6 DEF VisitDir, WatchDir
    <3> QED
      BY <2>6, <3>1, <3>2, <3>3 DEF VisitDir, CoverInv
  <2>7. ASSUME NEW c \in Dirs \cup {Root}, ListDir(c) PROVE CoverInv'
    <3>1. ASSUME NEW d \in dirs, Covered(d) PROVE Covered(d)'
      <4>1. PendingCreate(d) => PendingCreate(d)'
        BY <2>7 DEF ListDir, tree, PendingCreate
      <4> QED
        BY <2>7, <3>1, <4>1 DEF ListDir, tree, Children, Covered
    <3> QED
      BY <2>7, <3>1 DEF ListDir, tree, CoverInv
  <2>8. ASSUME NEW c \in Dirs \cup {Root}, AbortWalk(c) PROVE CoverInv'
    BY <2>8 DEF AbortWalk, CoverInv
  <2>9. ASSUME UNCHANGED <<dirs, watched, queue, toVisit, toList>>,
               gaveUp' = gaveUp, wpc # "stopped"
        PROVE  CoverInv'
    BY <2>9 DEF CoverInv, Covered, PendingCreate
  <2>10. CASE EndWalk
    BY <2>9, <2>10 DEF EndWalk, tree
  <2>11. ASSUME queue # <<>>, queue' = Tail(queue), wpc = "select",
                UNCHANGED <<dirs, watched, toList, gaveUp>>,
                toVisit \subseteq toVisit',
                \A d \in dirs : Head(queue) = Created(d) => d \in toVisit'
         PROVE  CoverInv'
    <3>1. ASSUME NEW d \in dirs, PendingCreate(d)
          PROVE  d \in toVisit' \/ PendingCreate(d)'
      BY <2>1, <2>11, <3>1, TailKeeps DEF PendingCreate
    <3>2. \A d \in dirs : Covered(d) => Covered(d)'
      BY <2>11, <3>1 DEF Covered
    <3> QED
      BY <2>11, <3>2 DEF CoverInv
  <2>12. CASE IgnoreEvent
    <3>1. \A d \in dirs : Head(queue) # Created(d)
      BY <2>1, <2>12 DEF IgnoreEvent, Created
    <3> QED
      BY <2>11, <2>12, <3>1 DEF IgnoreEvent, walk
  <2>13. CASE HandleChange
    <3>1. \A d \in dirs : Head(queue) # Created(d)
      BY <2>13 DEF HandleChange, Created
    <3> QED
      BY <2>11, <2>13, <3>1 DEF HandleChange, walk
  <2>14. CASE HandleMkdir
    <3>1. toVisit = {}
      BY <2>14 DEF HandleMkdir, ShapeInv
    <3>2. toVisit' = {Head(queue).path}
      BY <2>14 DEF HandleMkdir, BeginWalk
    <3>3. \A d \in dirs : Head(queue) = Created(d) => d \in toVisit'
      BY <3>2 DEF Created
    <3> QED
      BY <2>11, <2>14, <3>1, <3>3 DEF HandleMkdir, BeginWalk
  <2>15. CASE LogError
    <3>1. \A d \in dirs : Head(queue) # Created(d)
      BY <2>15 DEF LogError, Overflow, Created
    <3> QED
      BY <2>11, <2>15, <3>1 DEF LogError, walk
  <2>16. CASE Fire
    BY <2>9, <2>16 DEF Fire, tree, walk
  <2>17. CASE Stop
    BY <2>17 DEF Stop, CoverInv
  <2>18. CASE EngineTakes \/ Cancel \/ Tick \/ UNCHANGED wvars
    BY <2>18
    DEF EngineTakes, Cancel, Tick, wvars, tree, walk, CoverInv, Covered,
        PendingCreate
  <2> QED
    BY <2>3, <2>4, <2>5, <2>6, <2>7, <2>8, <2>10, <2>12, <2>13, <2>14,
       <2>15, <2>16, <2>17, <2>18
    DEF Next, TreeStep, WalkStep, SelectStep, Finished
<1> QED
  BY <1>1, <1>2, WatcherTypeOK, WatcherShape, PTL DEF Spec

-----------------------------------------------------------------------------
\* With no walk under way and no creation in the queue, a topmost directory
\* among those not watched would be in a watched one, and so be covered.
LEMMA AllWatchedWhenIdle ==
    ASSUME TypeOK, ShapeInv, CoverInv, ~gaveUp, wpc = "select",
           \A d \in Dirs : ~PendingCreate(d)
    PROVE  dirs \cup {Root} \subseteq watched
<1> DEFINE missing == dirs \ watched
<1>1. toVisit = {} /\ toList = {} /\ dirs \subseteq Dirs
  BY DEF ShapeInv, TypeOK
<1>2. Root \in watched
  BY <1>1 DEF CoverInv
<1>3. ASSUME missing # {} PROVE FALSE
  <2>1. PICK d \in missing : Parent[d] \notin missing
    BY <1>1, <1>3, TreeAssumption
  <2>2. Parent[d] \in watched
    BY <1>2, <2>1 DEF ShapeInv
  <2>3. Covered(d)
    BY <2>1 DEF CoverInv
  <2> QED
    BY <1>1, <2>1, <2>2, <2>3 DEF Covered
<1> QED
  BY <1>2, <1>3

\* Unless the watcher has given something up, every directory that exists is
\* watched once the queue is read (watcher.go:110-120, 211-232).
THEOREM WatcherAllWatched == Spec => []AllWatched
<1>1. TypeOK /\ ShapeInv /\ CoverInv => AllWatched
  <2> SUFFICES ASSUME TypeOK, ShapeInv, CoverInv, wpc = "select",
                      queue = <<>>, ~gaveUp
               PROVE  dirs \cup {Root} \subseteq watched
    BY DEF AllWatched
  <2>1. \A d \in Dirs : ~PendingCreate(d)
    BY DEF PendingCreate
  <2> QED
    BY <2>1, AllWatchedWhenIdle
<1> QED
  BY <1>1, WatcherTypeOK, WatcherShape, WatcherCover, PTL

\* Unless the watcher has given something up, a change that no trigger has
\* announced yet is in the queue, in a walk or behind a running timer
\* (watcher.go:87-158).
THEOREM WatcherNoMissedChange == Spec => []NoMissedChange
<1> USE WatcherAssumption
<1> DEFINE Waiting == \E i \in 1..Len(queue) : queue[i].path \notin Ignored
<1>1. Init => NoMissedChange
  BY DEF Init, NoMissedChange
<1>2. TypeOK /\ ShapeInv /\ CoverInv /\ NoMissedChange /\ [Next]_wvars
      => NoMissedChange'
  <2> SUFFICES ASSUME TypeOK, ShapeInv, CoverInv, NoMissedChange,
                      [Next]_wvars
               PROVE  NoMissedChange'
    OBVIOUS
  <2>1. queue \in Seq(Event) /\ dirs \subseteq Dirs
    BY DEF TypeOK, Event
  <2>2. ASSUME ~gaveUp, wpc = "select", ~Waiting
        PROVE  dirs \cup {Root} \subseteq watched
    <3>1. \A d \in Dirs : ~PendingCreate(d)
      BY <2>2 DEF PendingCreate, Created
    <3> QED
      BY <2>2, <3>1, AllWatchedWhenIdle
  <2>3. ASSUME NEW dir \in dirs \cup {Root},
               NEW op \in {"write", "create", "remove"},
               NEW path \in Paths, Change(dir, op, path)
        PROVE  NoMissedChange'
    <3> SUFFICES ASSUME changed', ~gaveUp', wpc' # "stopped",
                        wpc' # "walk", timer' = NoTimer
                 PROVE  Waiting'
      BY DEF NoMissedChange
    <3>1. wpc = "select" /\ timer = NoTimer /\ ~gaveUp
      BY <2>3 DEF Change, walk, TypeOK
    <3>2. Waiting => Waiting'
      BY <2>3, ChangeKeeps
    <3>3. CASE ~Waiting
      <4>1. path \notin Ignored
        BY <2>3, <3>1, <3>3 DEF Change, NoMissedChange
      <4>2. dir \in watched
        BY <2>2, <3>1, <3>3
      <4>3. \E i \in 1..Len(queue') :
               queue'[i] = [op |-> op, path |-> path]
        BY <2>3, <4>2, ChangeKeeps
      <4> QED
        BY <4>1, <4>3
    <3> QED
      BY <3>2, <3>3
  <2>4. ASSUME NEW f \in Files, WriteFile(f) PROVE NoMissedChange'
    BY <2>3, <2>4 DEF WriteFile, Exists, Paths
  <2>5. ASSUME NEW d \in Dirs, Mkdir(d) PROVE NoMissedChange'
    BY <2>3, <2>5 DEF Mkdir, Exists, Paths
  <2>6. ASSUME NEW d \in Dirs, Rmdir(d) PROVE NoMissedChange'
    BY <2>3, <2>6 DEF Rmdir, ShapeInv, Paths
  <2>7. ASSUME wpc' = "walk" \/ timer' # NoTimer \/ wpc' = "stopped"
               \/ ~changed'
        PROVE  NoMissedChange'
    BY <2>7 DEF NoMissedChange
  <2>8. Debounce # NoTimer
    BY DEF NoTimer
  <2>9. CASE WalkStep
    BY <2>7, <2>8, <2>9
    DEF WalkStep, VisitDir, ListDir, AbortWalk, EndWalk, RestartTimer,
        ShapeInv
  <2>10. ASSUME queue # <<>>, queue' = Tail(queue),
                Head(queue).path \in Ignored \/ gaveUp,
                UNCHANGED <<wpc, timer, changed, gaveUp>>
         PROVE  NoMissedChange'
    BY <2>1, <2>10, TailKeeps DEF NoMissedChange
  <2>11. CASE IgnoreEvent
    BY <2>10, <2>11 DEF IgnoreEvent, walk
  <2>12. CASE LogError
    <3>1. gaveUp
      BY <2>1, <2>12 DEF LogError, ShapeInv
    <3> QED
      BY <2>10, <2>12, <3>1 DEF LogError, walk
  <2>13. CASE HandleChange \/ HandleMkdir \/ Fire \/ Stop
    BY <2>7, <2>8, <2>13
    DEF HandleChange, HandleMkdir, BeginWalk, RestartTimer, Fire, Stop
  <2>14. CASE Tick
    BY <2>14 DEF Tick, NoMissedChange, NoTimer, walk, tree, TypeOK
  <2>15. CASE EngineTakes \/ Cancel \/ UNCHANGED wvars
    BY <2>15
    DEF EngineTakes, Cancel, wvars, walk, tree, NoMissedChange
  <2> QED
    BY <2>4, <2>5, <2>6, <2>9, <2>11, <2>12, <2>13, <2>14, <2>15
    DEF Next, TreeStep, SelectStep, Finished
<1> QED
  BY <1>1, <1>2, WatcherTypeOK, WatcherShape, WatcherCover, PTL DEF Spec
=============================================================================
