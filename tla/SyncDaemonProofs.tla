-------------------------- MODULE SyncDaemonProofs ---------------------------
(***************************************************************************)
(* Theorems about SyncDaemon, for any files, any debounce window, cooldown *)
(* and interval that the configuration allows.                             *)
(***************************************************************************)
EXTENDS SyncDaemon, SequenceTheorems, TLAPS

Changes == [op : {"write"}, path : Files]

-----------------------------------------------------------------------------
(* The channel has one place.                                              *)

Full == {<<s>> : s \in Sources}

LEMMA OneEvent ==
    ASSUME NEW s
    PROVE  /\ Len(<<>>) = 0 /\ Len(<<s>>) = 1
           /\ Append(<<>>, s) = <<s>>
           /\ Head(<<s>>) = s /\ Tail(<<s>>) = <<>>
           /\ <<s>> # <<>>
OBVIOUS

LEMMA PutKeeps ==
    ASSUME events \in {<<>>} \cup Full, NEW s \in Sources, L!Put(s)
    PROVE  /\ events' \in {<<>>} \cup Full
           /\ events' = IF events = <<>> THEN <<s>> ELSE events
           /\ UNCHANGED loopVars
<1>1. /\ events' = IF Len(events) < 1 THEN Append(events, s) ELSE events
      /\ UNCHANGED loopVars
  BY Zenon DEF L!Put, L!Capacity, loopVars
<1>2. CASE events = <<>>
  <2>1. events' = Append(<<>>, s)
    BY <1>1, <1>2, OneEvent
  <2>2. events' = <<s>>
    BY <2>1, OneEvent, Zenon
  <2>3. events' \in Full
    BY <2>2, Zenon DEF Full
  <2> QED
    BY <1>1, <1>2, <2>2, <2>3, Zenon
<1>3. CASE events \in Full
  <2>1. PICK t \in Sources : events = <<t>>
    BY <1>3, Zenon DEF Full
  <2>2. Len(events) = 1 /\ events # <<>>
    BY <2>1, OneEvent, Zenon
  <2>3. events' = events
    BY <1>1, <2>2
  <2> QED
    BY <1>1, <1>3, <2>2, <2>3, Zenon
<1> QED
  BY <1>2, <1>3, Zenon

LEMMA TakeEmpties ==
    ASSUME events \in {<<>>} \cup Full, events # <<>>
    PROVE  /\ Tail(events) = <<>> /\ Head(events) \in Sources
           /\ events = <<Head(events)>>
<1>1. PICK t \in Sources : events = <<t>>
  BY Zenon DEF Full
<1> QED
  BY <1>1, OneEvent, Zenon

-----------------------------------------------------------------------------
(* The kernel's queue.                                                     *)

\* The watcher waits at its select, with a watch on the directory.
Settled == wpc = "select" /\ watched = {Root}

\* A write is put at the end of the queue.
LEMMA WriteQueues ==
    ASSUME Settled, queue \in Seq(Changes), Len(queue) <= QueueCap,
           changed \in BOOLEAN, NEW f \in Files, W!WriteFile(f)
    PROVE  /\ queue' = Append(queue, [op |-> "write", path |-> f])
           /\ queue' \in Seq(Changes) /\ Len(queue') <= QueueCap
           /\ Settled' /\ changed' \in BOOLEAN
           /\ UNCHANGED <<timer, events>>
<1>1. ~W!Full /\ Root \in watched
  BY DEF W!WriteFile, W!Change, Settled
<1>2. queue' = Append(queue, [op |-> "write", path |-> f])
  BY <1>1 DEF W!WriteFile, W!Change, W!Notify
<1>3. Len(queue) < QueueCap
  BY <1>1, SyncDaemonAssumption DEF W!Full, SyncDaemonAssumption
<1>4. [op |-> "write", path |-> f] \in Changes
  BY DEF Changes
<1>5. queue' \in Seq(Changes) /\ Len(queue') = Len(queue) + 1
  BY <1>2, <1>4, AppendProperties
<1>6. Settled' /\ UNCHANGED <<timer, events>> /\ changed' \in BOOLEAN
  BY DEF W!WriteFile, W!Change, W!walk, Settled
<1>7. Len(queue) \in Int /\ Len(queue') <= QueueCap
  BY <1>3, <1>5, SyncDaemonAssumption DEF SyncDaemonAssumption
<1> QED
  BY <1>2, <1>5, <1>6, <1>7

-----------------------------------------------------------------------------
EventsOK == events \in {<<>>} \cup Full
QueueOK == queue \in Seq(Changes) /\ Len(queue) <= QueueCap
ClocksOK ==
    /\ rest \in 0..Cooldown
    /\ timer \in NoTimer..Debounce
    /\ ticker \in 0..Interval
FlagsOK ==
    /\ prompt \in Prompts
    /\ running \in BOOLEAN /\ by \in Sources
    /\ changed \in BOOLEAN /\ edited \in BOOLEAN /\ carried \in BOOLEAN
ClientOK ==
    /\ unsynced \subseteq Uploads /\ newer \subseteq Downloads
    /\ toDo \subseteq Files /\ picked \subseteq Uploads
    /\ failures \in 0..MaxFailures

TypeParts == EventsOK /\ QueueOK /\ ClocksOK /\ FlagsOK /\ ClientOK /\ Settled

LEMMA PartsType == TypeParts => TypeOK
BY Zenon DEF TypeParts, EventsOK, QueueOK, ClocksOK, FlagsOK, ClientOK, TypeOK, Full, Changes

\* Which variables each action leaves alone or sets, the queue aside.
LEMMA EventsStep == EventsOK /\ [Next]_vars => EventsOK'
<1> SUFFICES ASSUME EventsOK, [Next]_vars PROVE EventsOK'
  OBVIOUS
<1>1. CASE Push \/ Poll \/ Fire
  <2>1. PICK s \in Sources : L!Put(s)
    BY <1>1, Zenon DEF Push, Poll, Fire, Sources
  <2> QED
    BY <2>1, PutKeeps, Zenon DEF EventsOK
<1>2. CASE Discard \/ Begin
  <2>1. events # <<>> /\ events' = Tail(events)
    BY <1>2, Zenon DEF Discard, Begin, L!Discard, L!Begin
  <2> QED
    BY <2>1, TakeEmpties, Zenon DEF EventsOK
<1>3. ASSUME UNCHANGED events PROVE EventsOK'
  BY <1>3, Zenon DEF EventsOK
<1> QED
  BY <1>1, <1>2, <1>3, Zenon
  DEF Next, World, Client, Edit, ServerChange, HandleChange, Upload,
      SkipDownload, Download, Succeed, Fail, Tick, vars, L!End, W!WriteFile,
      W!Change, W!HandleChange

LEMMA QueueStep ==
    QueueOK /\ Settled /\ changed \in BOOLEAN /\ [Next]_vars
        => QueueOK' /\ Settled' /\ changed' \in BOOLEAN
<1> SUFFICES ASSUME QueueOK, Settled, changed \in BOOLEAN, [Next]_vars
             PROVE  QueueOK' /\ Settled' /\ changed' \in BOOLEAN
  OBVIOUS
<1>1. ASSUME NEW f \in Files, W!WriteFile(f)
      PROVE  QueueOK' /\ Settled' /\ changed' \in BOOLEAN
  BY <1>1, WriteQueues DEF QueueOK
<1>2. CASE HandleChange
  <2>1. queue # <<>> /\ queue' = Tail(queue) /\ Settled' /\ changed' = changed
    BY <1>2 DEF HandleChange, W!HandleChange, W!walk, Settled
  <2>2. queue' \in Seq(Changes) /\ Len(queue') = Len(queue) - 1
    BY <2>1, HeadTailProperties DEF QueueOK
  <2>3. Len(queue') <= QueueCap
    BY <2>2, SyncDaemonAssumption DEF QueueOK, SyncDaemonAssumption
  <2> QED
    BY <2>1, <2>2, <2>3 DEF QueueOK
<1>3. CASE Fire
  BY <1>3 DEF Fire, W!Fire, W!walk, W!tree, Settled, QueueOK
<1>4. ASSUME UNCHANGED <<queue, changed, settled>>
      PROVE  QueueOK' /\ Settled' /\ changed' \in BOOLEAN
  BY <1>4 DEF QueueOK, Settled, settled
<1> QED
  BY <1>1, <1>2, <1>3, <1>4, Zenon
  DEF Next, World, Client, Edit, ServerChange, Push, Poll, Discard, Begin,
      Upload, SkipDownload, Download, Succeed, Fail, Tick, vars, watcherVars,
      Files

LEMMA ClocksStep == ClocksOK /\ [Next]_vars => ClocksOK'
<1> USE SyncDaemonAssumption DEF SyncDaemonAssumption, NoTimer
<1> SUFFICES ASSUME ClocksOK, [Next]_vars PROVE ClocksOK'
  OBVIOUS
<1>1. ASSUME UNCHANGED <<timer, rest>>, ticker' \in {ticker, Interval} PROVE ClocksOK'
  BY <1>1 DEF ClocksOK
<1>2. ASSUME NEW f \in Files, Edit(f) \/ Download(f) PROVE ClocksOK'
  BY <1>1, <1>2 DEF Edit, Download, W!WriteFile, W!Change, loopVars
<1>3. CASE HandleChange
  <2>1. timer' = Debounce /\ UNCHANGED <<rest, ticker>>
    BY <1>3 DEF HandleChange, W!HandleChange, W!RestartTimer, loopVars
  <2> QED
    BY <2>1 DEF ClocksOK
<1>4. CASE Fire
  <2>1. timer' = NoTimer /\ UNCHANGED <<rest, ticker>>
    BY <1>4 DEF Fire, W!Fire, W!NoTimer, L!Put
  <2> QED
    BY <2>1 DEF ClocksOK
<1>5. CASE Succeed \/ Fail
  <2>1. rest' = 0 /\ UNCHANGED <<timer, ticker>>
    BY <1>5 DEF Succeed, Fail, L!End, watcherVars
  <2> QED
    BY <2>1 DEF ClocksOK
<1>6. CASE Tick
  <2>1. /\ timer' = Down(timer)
        /\ ticker' = IF Polling THEN Down(ticker) ELSE ticker
        /\ rest' = IF rest < Cooldown THEN rest + 1 ELSE rest
    BY <1>6, Zenon DEF Tick
  <2> QED
    BY <2>1 DEF Down, ClocksOK
<1> QED
  BY <1>1, <1>2, <1>3, <1>4, <1>5, <1>6
  DEF Next, World, Client, ServerChange, Push, Poll, Discard, Begin, Upload,
      SkipDownload, vars, watcherVars, loopVars, L!Put, L!Discard, L!Begin

LEMMA FlagsStep ==
    EventsOK /\ FlagsOK /\ changed' \in BOOLEAN /\ [Next]_vars => FlagsOK'
<1> SUFFICES ASSUME EventsOK, FlagsOK, changed' \in BOOLEAN, [Next]_vars
             PROVE  FlagsOK'
  OBVIOUS
<1>1. UNCHANGED prompt
  BY Zenon DEF Next, World, Client, Edit, ServerChange, Push, HandleChange, Fire,
     Poll, Discard, Begin, Upload, SkipDownload, Download, Succeed, Fail, Tick, vars
<1>2. running' \in BOOLEAN /\ by' \in Sources
  <2>1. CASE Begin
    BY <2>1, TakeEmpties, Zenon DEF Begin, L!Begin, EventsOK
  <2>2. CASE Succeed \/ Fail
    BY <2>2, Zenon DEF Succeed, Fail, L!End, FlagsOK
  <2>3. ASSUME UNCHANGED <<running, by>>
        PROVE  running' \in BOOLEAN /\ by' \in Sources
    BY <2>3, Zenon DEF FlagsOK
  <2> QED
    BY <2>1, <2>2, <2>3, Zenon DEF Next, World, Client, Edit, ServerChange, Push,
       HandleChange, Fire, Poll, Discard, Upload, SkipDownload, Download, Tick,
       vars, loopVars, L!Put, L!Discard
<1>3. edited' \in BOOLEAN /\ carried' \in BOOLEAN
  <2>1. CASE HandleChange \/ Fire
    BY <2>1, Zenon DEF HandleChange, Fire, FlagsOK
  <2>2. ASSUME UNCHANGED <<edited, carried>>
        PROVE  edited' \in BOOLEAN /\ carried' \in BOOLEAN
    BY <2>2, Zenon DEF FlagsOK
  <2> QED
    BY <2>1, <2>2, Zenon DEF Next, World, Client, Edit, ServerChange, Push, Poll,
       Discard, Begin, Upload, SkipDownload, Download, Succeed, Fail, Tick, vars
<1> QED
  BY <1>1, <1>2, <1>3, Zenon DEF FlagsOK

LEMMA ClientStep == ClientOK /\ [Next]_vars => ClientOK'
<1> SUFFICES ASSUME ClientOK, [Next]_vars PROVE ClientOK'
  OBVIOUS
<1> USE DEF ClientOK, Files
<1>1. CASE Fail
  <2>1. failures' \in 0..MaxFailures
    BY <1>1, SyncDaemonAssumption DEF Fail, SyncDaemonAssumption
  <2>2. unsynced' = unsynced \cup picked /\ picked' = {} /\ toDo' = {}
        /\ UNCHANGED newer
    BY <1>1, Zenon DEF Fail
  <2> QED
    BY <2>1, <2>2
<1>2. ASSUME UNCHANGED failures,
             \/ UNCHANGED clientVars
             \/ \E f \in Files : \/ Edit(f) \/ ServerChange(f)
                                 \/ Upload(f) \/ SkipDownload(f) \/ Download(f)
             \/ Begin \/ Succeed
      PROVE  ClientOK'
  BY <1>2 DEF Edit, ServerChange, Upload, SkipDownload, Download, Begin, Succeed,
     clientVars
<1> QED
  BY <1>1, <1>2, Zenon DEF Next, World, Client, Edit, ServerChange, Push,
     HandleChange, Fire, Poll, Discard, Begin, Upload, SkipDownload, Download,
     Succeed, Tick, vars, clientVars

LEMMA PartsInvariant == Spec => []TypeParts
<1>1. Init => TypeParts
  <2> USE SyncDaemonAssumption DEF SyncDaemonAssumption, NoTimer
  <2> SUFFICES ASSUME Init PROVE TypeParts
    OBVIOUS
  <2>1. EventsOK
    BY Zenon DEF Init, EventsOK
  <2>2. QueueOK
    BY DEF Init, QueueOK
  <2>3. ClocksOK
    <3>1. rest = Cooldown /\ timer = NoTimer /\ ticker = Interval
      BY Zenon DEF Init
    <3> QED
      BY <3>1 DEF ClocksOK
  <2>6. FlagsOK
    BY Zenon DEF Init, FlagsOK, Sources
  <2>4. ClientOK
    <3>1. unsynced \in SUBSET Uploads /\ newer \in SUBSET Downloads
      BY Zenon DEF Init
    <3>2. toDo = {} /\ picked = {} /\ failures = 0
      BY Zenon DEF Init
    <3> QED
      BY <3>1, <3>2 DEF ClientOK
  <2>5. Settled
    BY DEF Init, Settled
  <2> QED
    BY <2>1, <2>2, <2>3, <2>4, <2>5, <2>6 DEF TypeParts
<1>2. TypeParts /\ [Next]_vars => TypeParts'
  BY EventsStep, QueueStep, ClocksStep, FlagsStep, ClientStep, Zenon
  DEF TypeParts, FlagsOK
<1> QED
  BY <1>1, <1>2, PTL DEF Spec

\* Every variable keeps to its values: the channel holds one event, the queue
\* and the clocks stay within their bounds.
THEOREM DaemonTypeOK == Spec => []TypeOK
BY PartsInvariant, PartsType, PTL

-----------------------------------------------------------------------------
(* No echo.  With goroutines that run within the time unit, what a sync has *)
(* written comes through the watcher's queue before any time passes after   *)
(* the sync; then the debounce window and the rest since that sync run      *)
(* together, and the trigger comes while the engine still discards.         *)

Written(i) == queue[i].path \notin Uploads

NoEchoInv ==
    /\ ~running => toDo = {}
    /\ prompt => \A i \in 1..Len(queue) : Written(i) => running \/ rest = 0
    /\ prompt /\ timer # NoTimer /\ ~edited => running \/ rest + timer <= Debounce
    /\ prompt /\ events = <<"watcher">> /\ ~carried => running \/ rest < Cooldown

LEMMA NoEchoStep ==
    ASSUME Debounce < Cooldown, TypeParts, NoEchoInv, [Next]_vars
    PROVE  NoEchoInv'
<1> USE SyncDaemonAssumption DEF SyncDaemonAssumption
<1> DEFINE Idle == ~running => toDo = {}
           QueueSoon == prompt => \A i \in 1..Len(queue) :
                                      Written(i) => running \/ rest = 0
           TimerSoon == prompt /\ timer # NoTimer /\ ~edited =>
                            running \/ rest + timer <= Debounce
           EventSoon == prompt /\ events = <<"watcher">> /\ ~carried =>
                            running \/ rest < Cooldown
<1>1. /\ Idle /\ QueueSoon /\ TimerSoon /\ EventSoon
      /\ rest \in 0..Cooldown /\ timer \in NoTimer..Debounce
      /\ queue \in Seq(Changes) /\ events \in {<<>>} \cup Full
      /\ NoTimer = -1
  BY Zenon DEF NoEchoInv, TypeParts, ClocksOK, QueueOK, EventsOK, NoTimer
<1> SUFFICES Idle' /\ QueueSoon' /\ TimerSoon' /\ EventSoon'
  BY Zenon DEF NoEchoInv
<1>2. ASSUME UNCHANGED <<prompt, running, rest, queue>> PROVE QueueSoon'
  BY <1>1, <1>2 DEF Written
<1>3. ASSUME UNCHANGED <<prompt, running, rest, timer, edited>> PROVE TimerSoon'
  BY <1>1, <1>3
<1>4. ASSUME UNCHANGED <<prompt, running, rest, events, carried>> PROVE EventSoon'
  BY <1>1, <1>4
<1>5. ASSUME NEW f \in Files, Edit(f) \/ Download(f)
      PROVE  Idle' /\ QueueSoon' /\ TimerSoon' /\ EventSoon'
  <2>1. /\ queue' = Append(queue, [op |-> "write", path |-> f])
        /\ UNCHANGED <<timer, events>>
    BY <1>5, WriteQueues DEF Edit, Download, TypeParts, QueueOK, FlagsOK
  <2>2. UNCHANGED <<prompt, running, rest, edited, carried>>
    BY <1>5, Zenon DEF Edit, Download, loopVars
  <2>3. f \in Uploads \/ running
    BY <1>1, <1>5 DEF Edit, Download
  <2>4. Idle'
    BY <1>1, <1>5, <2>2 DEF Edit, Download
  <2>5. QueueSoon'
    <3> SUFFICES ASSUME prompt, NEW i \in 1..Len(queue'), Written(i)'
                 PROVE  running \/ rest = 0
      BY <2>2
    <3>1. CASE i \in 1..Len(queue)
      <4>1. queue'[i] = queue[i]
        BY <1>1, <2>1, <3>1
      <4> QED
        BY <1>1, <3>1, <4>1 DEF Written
    <3>2. CASE i = Len(queue) + 1
      <4>1. queue'[i].path = f
        BY <1>1, <2>1, <3>2
      <4> QED
        BY <2>3, <4>1 DEF Written
    <3>3. Len(queue') = Len(queue) + 1 /\ Len(queue) \in Nat
      BY <1>1, <2>1
    <3> QED
      BY <3>1, <3>2, <3>3
  <2> QED
    BY <1>3, <1>4, <2>1, <2>2, <2>4, <2>5
<1>6. CASE HandleChange
  <2>1. /\ queue # <<>> /\ queue' = Tail(queue) /\ timer' = Debounce
        /\ edited' = (edited \/ Head(queue).path \in Uploads)
        /\ UNCHANGED <<prompt, running, rest, toDo, events, carried>>
    BY <1>6 DEF HandleChange, W!HandleChange, W!RestartTimer, loopVars, clientVars
  <2>2. Len(queue) \in Nat /\ 1 \in 1..Len(queue) /\ Head(queue) = queue[1]
        /\ Len(queue') = Len(queue) - 1
        /\ \A i \in 1..Len(queue') : i + 1 \in 1..Len(queue)
                                     /\ queue'[i] = queue[i + 1]
    BY <1>1, <2>1
  <2>3. QueueSoon'
    BY <1>1, <2>1, <2>2 DEF Written
  <2>4. TimerSoon'
    <3>1. CASE edited'
      BY <3>1
    <3>2. CASE ~edited'
      <4>1. Written(1)
        BY <2>1, <2>2, <3>2 DEF Written
      <4>2. prompt => running \/ rest = 0
        BY <1>1, <2>2, <4>1
      <4> QED
        BY <1>1, <2>1, <4>2
    <3> QED
      BY <3>1, <3>2
  <2> QED
    BY <1>1, <1>4, <2>1, <2>3, <2>4
<1>7. CASE Fire
  <2>1. /\ timer = 0 /\ timer' = NoTimer /\ L!Put("watcher")
        /\ UNCHANGED <<prompt, toDo, queue>>
    BY <1>7 DEF Fire, W!Fire, W!NoTimer, NoTimer, W!tree, clientVars
  <2>2. /\ events' = IF events = <<>> THEN <<"watcher">> ELSE events
        /\ carried' = IF events = <<>> THEN edited ELSE carried
        /\ UNCHANGED <<running, rest>>
    BY <1>1, <1>7, <2>1, PutKeeps, Zenon DEF Fire, Sources, loopVars
  <2>3. prompt /\ ~edited => running \/ rest < Cooldown
    BY <1>1, <2>1
  <2>4. EventSoon'
    BY <1>1, <2>1, <2>2, <2>3, Zenon
  <2> QED
    BY <1>1, <1>2, <2>1, <2>2, <2>4
<1>8. ASSUME NEW s \in {"push", "poller"}, L!Put(s),
             UNCHANGED <<prompt, toDo, queue, timer, edited, carried>>
      PROVE  Idle' /\ QueueSoon' /\ TimerSoon' /\ EventSoon'
  <2>1. /\ events' = IF events = <<>> THEN <<s>> ELSE events
        /\ UNCHANGED <<running, rest>>
    BY <1>1, <1>8, PutKeeps, Zenon DEF Sources, loopVars
  <2>2. <<s>> # <<"watcher">>
    BY Zenon
  <2>3. EventSoon'
    BY <1>1, <1>8, <2>1, <2>2, Zenon
  <2> QED
    BY <1>1, <1>2, <1>3, <1>8, <2>1, <2>3
<1>9. CASE Discard
  <2>1. events' = <<>>
    BY <1>1, <1>9, TakeEmpties, Zenon DEF Discard, L!Discard
  <2>2. UNCHANGED <<prompt, running, rest, toDo, queue, timer, edited, carried>>
    BY <1>9 DEF Discard, L!Discard, watcherVars, clientVars
  <2>3. <<"watcher">> # <<>>
    BY OneEvent
  <2> QED
    BY <1>1, <1>2, <1>3, <2>1, <2>2, <2>3
<1>10. CASE Begin
  BY <1>10 DEF Begin, L!Begin
<1>11. ASSUME NEW f \in Files, Upload(f) \/ SkipDownload(f) \/ ServerChange(f)
       PROVE  Idle' /\ QueueSoon' /\ TimerSoon' /\ EventSoon'
  <2>1. UNCHANGED <<prompt, running, rest, queue, timer, edited, events, carried>>
    BY <1>11 DEF Upload, SkipDownload, ServerChange, loopVars, watcherVars
  <2>2. Idle'
    BY <1>1, <1>11, <2>1 DEF Upload, SkipDownload, ServerChange
  <2> QED
    BY <1>2, <1>3, <1>4, <2>1, <2>2
<1>12. CASE Succeed \/ Fail
  <2>1. /\ rest' = 0 /\ running' = FALSE /\ toDo' = {}
        /\ UNCHANGED <<prompt, timer, edited, events, carried>>
    BY <1>12 DEF Succeed, Fail, L!End, watcherVars
  <2>2. TimerSoon'
    BY <1>1, <2>1
  <2> QED
    BY <2>1, <2>2
<1>13. CASE Tick
  <2>1. /\ prompt => queue = <<>> /\ timer # 0 /\ (running \/ events = <<>>)
        /\ timer' = Down(timer)
        /\ rest' = IF rest < Cooldown THEN rest + 1 ELSE rest
        /\ UNCHANGED <<prompt, running, queue, events, toDo, edited, carried>>
    BY <1>13, Zenon DEF Tick, Urgent, clientVars
  <2>2. prompt => Len(queue') = 0
    BY <2>1, OneEvent
  <2>3. QueueSoon'
    BY <2>1, <2>2
  <2>4. TimerSoon'
    BY <1>1, <2>1 DEF Down
  <2>5. EventSoon'
    BY <2>1, OneEvent
  <2> QED
    BY <1>1, <2>1, <2>3, <2>4, <2>5
<1>14. CASE UNCHANGED vars
  BY <1>1, <1>2, <1>3, <1>4, <1>14
  DEF vars, watcherVars, loopVars, clientVars
<1>15. CASE Push \/ Poll
  BY <1>8, <1>15 DEF Push, Poll, watcherVars, clientVars
<1> QED
  BY <1>5, <1>6, <1>7, <1>9, <1>10, <1>11, <1>12, <1>13, <1>14, <1>15, Zenon
  DEF Next, World, Client

\* With a cooldown longer than the debounce window, a sync that the watcher
\* asks for answers a user's edit, whatever was downloaded.
THEOREM DaemonNoEcho ==
    ASSUME Debounce < Cooldown
    PROVE  Spec => NoEcho
<1>1. Init => NoEchoInv
  <2> SUFFICES ASSUME Init PROVE NoEchoInv
    OBVIOUS
  <2>1. toDo = {} /\ queue = <<>> /\ timer = NoTimer /\ events = <<>>
    BY Zenon DEF Init
  <2>2. Len(queue) = 0 /\ events # <<"watcher">>
    BY <2>1, OneEvent
  <2> QED
    BY <2>1, <2>2 DEF NoEchoInv
<1>2. TypeParts /\ NoEchoInv /\ [Next]_vars => NoEchoInv'
  BY NoEchoStep
<1>3. TypeParts /\ NoEchoInv /\ [Next]_vars =>
          [prompt /\ Begin /\ by' = "watcher" => carried]_vars
  <2> SUFFICES ASSUME TypeParts, NoEchoInv, prompt, Begin, by' = "watcher"
               PROVE  carried
    BY Zenon
  <2>1. ~running /\ events # <<>> /\ rest = Cooldown /\ by' = Head(events)
    BY Zenon DEF Begin, L!Begin
  <2>2. events = <<"watcher">>
    BY <2>1, TakeEmpties, Zenon DEF TypeParts, EventsOK
  <2>3. running \/ rest < Cooldown \/ carried
    BY <2>2, Zenon DEF NoEchoInv
  <2> QED
    BY <2>1, <2>3, SyncDaemonAssumption DEF SyncDaemonAssumption
<1> QED
  BY <1>1, <1>2, <1>3, PartsInvariant, PTL DEF Spec, NoEcho

-----------------------------------------------------------------------------
(* The composition keeps the engine's promise.                             *)

\* Time passes for the engine, or only for the debounce window and the ticker.
LEMMA TickPasses == Tick => L!Pass \/ UNCHANGED L!vars
BY Zenon DEF Tick, L!Pass, L!vars

\* Each step of the daemon is one step of SyncLoop or none: the watcher, the
\* poller and the pushes reach the engine by nothing but its channel, whose
\* one place they share, and neither the directory nor nextcloudcmd moves a
\* sync's start, its end or the rest after it.
THEOREM DaemonImplementsSyncLoop == Spec => L!Spec
<1>1. Init => L!Init
  BY DEF Init, L!Init, Sources
<1>2. [Next]_vars => [L!Next]_(L!vars)
  <2> SUFFICES ASSUME [Next]_vars PROVE L!Next \/ UNCHANGED L!vars
    OBVIOUS
  <2>1. CASE Push \/ Fire \/ Poll
    <3>1. PICK s \in Sources : L!Put(s)
      BY <2>1, Zenon DEF Push, Fire, Poll, Sources
    <3> QED
      BY <3>1, Zenon DEF L!Next
  <2>2. CASE Discard \/ Begin
    BY <2>2, Zenon DEF Discard, Begin, L!Next
  <2>3. CASE Succeed \/ Fail
    BY <2>3, Zenon DEF Succeed, Fail, L!Next
  <2>4. CASE Tick
    BY <2>4, TickPasses, Zenon DEF L!Next
  <2>5. CASE World \/ Client \/ HandleChange \/ UNCHANGED vars
    BY <2>5, Zenon
    DEF World, Client, Edit, ServerChange, HandleChange, Upload, SkipDownload,
        Download, W!WriteFile, W!Change, W!HandleChange, loopVars, vars, L!vars
  <2> QED
    BY <2>1, <2>2, <2>3, <2>4, <2>5, Zenon DEF Next
<1> QED
  BY <1>1, <1>2, PTL DEF Spec, L!Spec
=============================================================================
