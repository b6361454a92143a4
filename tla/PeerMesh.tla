------------------------------ MODULE PeerMesh ------------------------------
(***************************************************************************)
(* Daemons that keep copies of one server's directory and tell each other  *)
(* of their syncs: engine.go's rule for when peers are told,               *)
(* internal/peer/notifier.go's one request per peer, without a retry, and  *)
(* the peer's webhook.  Each daemon is the engine (SyncLoop), a watcher    *)
(* with its debounce window and a poller, as in SyncDaemon, here without   *)
(* the details of either; it may be restarted at any time.  Users, the     *)
(* network, the server and nextcloudcmd are external.                      *)
(***************************************************************************)
EXTENDS Integers, FiniteSets

CONSTANTS
    Nodes,          \* the daemons, each a peer of every other
    Editors,        \* those with users
    Debounce, Cooldown              \* in time units

ASSUME PeerMeshAssumption ==
    /\ Editors \subseteq Nodes
    /\ Debounce \in Nat \ {0}
    /\ Cooldown \in Nat /\ Cooldown >= Debounce      \* config.Validate

VARIABLES
    event,          \* per node: what waits in the engine's channel
    running,        \* per node: a sync is running
    by,             \* per node: the event it answers
    rest,           \* per node: time since the last sync, up to Cooldown
    window,         \* per node: what is left of the debounce window
    edited,         \* history: the window holds a user's edit
    toDo,           \* per node: the directions nextcloudcmd has still to go
    dirty,          \* per node: edits that are not on the server
    stale,          \* per node: the server has what is not here
    due,            \* pollers that may tick within this time unit
    sent            \* requests to peers on the way, <<from, to>>

engine == <<event, running, by, rest>>
sources == <<window, edited, due>>
files == <<toDo, dirty, stale>>
vars == <<engine, sources, files, sent>>

Closed == -1

\* The watcher's events, "edit" if a user's edit is among what it saw and
\* "echo" if all of it was written by nextcloudcmd: the engine cannot tell.
\* "other" is the poller's or a webhook's.
FromWatcher == {"edit", "echo"}
Events == FromWatcher \cup {"other"}

Init ==
    /\ event = [n \in Nodes |-> "none"]
    /\ running = [n \in Nodes |-> FALSE]
    /\ by = [n \in Nodes |-> "none"]
    /\ rest = [n \in Nodes |-> Cooldown]
    /\ window = [n \in Nodes |-> Closed]
    /\ edited = [n \in Nodes |-> FALSE]
    /\ toDo = [n \in Nodes |-> {}]
    /\ dirty = [n \in Nodes |-> FALSE]
    /\ stale = [n \in Nodes |-> FALSE]
    /\ due = Nodes
    /\ sent = {}

-----------------------------------------------------------------------------
(* Triggers.                                                               *)

Edit(n) ==
    /\ n \in Editors
    /\ dirty' = [dirty EXCEPT ![n] = TRUE]
    /\ window' = [window EXCEPT ![n] = Debounce]
    /\ edited' = [edited EXCEPT ![n] = TRUE]
    /\ UNCHANGED <<engine, due, toDo, stale, sent>>

\* The non-blocking send.
Put(n, e) ==
    event' = IF event[n] = "none" THEN [event EXCEPT ![n] = e] ELSE event

Fire(n) ==
    /\ window[n] = 0
    /\ Put(n, IF edited[n] THEN "edit" ELSE "echo")
    /\ window' = [window EXCEPT ![n] = Closed]
    /\ edited' = [edited EXCEPT ![n] = FALSE]
    /\ UNCHANGED <<running, by, rest, due, files, sent>>

\* The interval is left open: a time unit or any number of them.
Poll(n) ==
    /\ n \in due
    /\ due' = due \ {n}
    /\ Put(n, "other")
    /\ UNCHANGED <<running, by, rest, window, edited, files, sent>>

\* The peer's webhook takes the request for a trigger.
Deliver(n, m) ==
    /\ <<n, m>> \in sent
    /\ sent' = sent \ {<<n, m>>}
    /\ Put(m, "other")
    /\ UNCHANGED <<running, by, rest, sources, files>>

\* No answer in five seconds, a refused connection, 429, or the daemon ended
\* before it was sent: it is logged, and that is all.
Lose(n, m) ==
    /\ <<n, m>> \in sent
    /\ sent' = sent \ {<<n, m>>}
    /\ UNCHANGED <<engine, sources, files>>

-----------------------------------------------------------------------------
(* The engine and nextcloudcmd.                                            *)

Discard(n) ==
    /\ ~running[n]
    /\ event[n] # "none"
    /\ rest[n] < Cooldown
    /\ event' = [event EXCEPT ![n] = "none"]
    /\ UNCHANGED <<running, by, rest, sources, files, sent>>

\* Mutant: no cooldown.
BeginAtOnce(n) ==
    /\ ~running[n]
    /\ event[n] # "none"
    /\ running' = [running EXCEPT ![n] = TRUE]
    /\ by' = [by EXCEPT ![n] = event[n]]
    /\ event' = [event EXCEPT ![n] = "none"]
    /\ toDo' = [toDo EXCEPT ![n] = {"up", "down"}]
    /\ UNCHANGED <<rest, sources, dirty, stale, sent>>

Begin(n) ==
    /\ ~running[n]
    /\ event[n] # "none"
    /\ rest[n] = Cooldown
    /\ running' = [running EXCEPT ![n] = TRUE]
    /\ by' = [by EXCEPT ![n] = event[n]]
    /\ event' = [event EXCEPT ![n] = "none"]
    /\ toDo' = [toDo EXCEPT ![n] = {"up", "down"}]
    /\ UNCHANGED <<rest, sources, dirty, stale, sent>>

Upload(n) ==
    /\ "up" \in toDo[n]
    /\ toDo' = [toDo EXCEPT ![n] = @ \ {"up"}]
    /\ dirty' = [dirty EXCEPT ![n] = FALSE]
    /\ stale' = IF dirty[n] THEN [m \in Nodes |-> stale[m] \/ m # n] ELSE stale
    /\ UNCHANGED <<engine, sources, sent>>

\* The watcher sees what nextcloudcmd writes.
Download(n) ==
    /\ "down" \in toDo[n]
    /\ toDo' = [toDo EXCEPT ![n] = @ \ {"down"}]
    /\ stale' = [stale EXCEPT ![n] = FALSE]
    /\ window' = IF stale[n] THEN [window EXCEPT ![n] = Debounce] ELSE window
    /\ UNCHANGED <<engine, edited, due, dirty, sent>>

Stop(n) ==
    /\ running' = [running EXCEPT ![n] = FALSE]
    /\ by' = [by EXCEPT ![n] = "none"]
    /\ toDo' = [toDo EXCEPT ![n] = {}]

\* Mutant: peers are told of every sync.
NotifyOfAll(n) == sent' = sent \cup ({n} \X (Nodes \ {n}))

NotifyPeers(n) ==
    sent' = IF by[n] \in FromWatcher
            THEN sent \cup ({n} \X (Nodes \ {n})) ELSE sent

Succeed(n) ==
    /\ running[n]
    /\ toDo[n] = {}
    /\ Stop(n)
    /\ rest' = [rest EXCEPT ![n] = 0]
    /\ NotifyPeers(n)
    /\ UNCHANGED <<event, sources, dirty, stale>>

Fail(n) ==
    /\ running[n]
    /\ Stop(n)
    /\ rest' = [rest EXCEPT ![n] = 0]
    /\ UNCHANGED <<event, sources, dirty, stale, sent>>

\* Whatever the daemon held is gone, the time of the last sync too.
Restart(n) ==
    /\ Stop(n)
    /\ event' = [event EXCEPT ![n] = "none"]
    /\ rest' = [rest EXCEPT ![n] = Cooldown]
    /\ window' = [window EXCEPT ![n] = Closed]
    /\ edited' = [edited EXCEPT ![n] = FALSE]
    /\ UNCHANGED <<due, dirty, stale, sent>>

-----------------------------------------------------------------------------
(* Time.  Goroutines run within the time unit.                             *)

Urgent(n) == window[n] = 0 \/ (event[n] # "none" /\ ~running[n])

\* Mutant: a stopped timer runs on.
TickStopped ==
    /\ \A n \in Nodes : ~Urgent(n)
    /\ window' = [n \in Nodes |-> window[n] - 1]
    /\ rest' = [n \in Nodes |-> IF rest[n] < Cooldown THEN rest[n] + 1 ELSE rest[n]]
    /\ due' = Nodes
    /\ <<window, rest, due>>' # <<window, rest, due>>
    /\ UNCHANGED <<event, running, by, edited, files, sent>>

Tick ==
    /\ \A n \in Nodes : ~Urgent(n)
    /\ window' = [n \in Nodes |-> IF window[n] > 0 THEN window[n] - 1 ELSE window[n]]
    /\ rest' = [n \in Nodes |-> IF rest[n] < Cooldown THEN rest[n] + 1 ELSE rest[n]]
    /\ due' = Nodes
    /\ <<window, rest, due>>' # <<window, rest, due>>
    /\ UNCHANGED <<event, running, by, edited, files, sent>>

Take(n) == Discard(n) \/ Begin(n)
Work(n) == Upload(n) \/ Download(n) \/ Succeed(n)
Disturb(n) == Edit(n) \/ Fail(n) \/ Restart(n)

Next ==
    \/ \E n \in Nodes : \/ Fire(n) \/ Poll(n) \/ Take(n) \/ Work(n) \/ Disturb(n)
                        \/ \E m \in Nodes : Deliver(n, m) \/ Lose(n, m)
    \/ Tick

Spec == Init /\ [][Next]_vars

\* Goroutines run, pollers tick, nextcloudcmd goes on.  Users and the network
\* owe nothing.
Fairness ==
    /\ \A n \in Nodes : /\ WF_vars(Fire(n)) /\ WF_vars(Poll(n))
                        /\ WF_vars(Take(n)) /\ WF_vars(Work(n))
    /\ WF_vars(Tick)

FairSpec == Spec /\ Fairness

-----------------------------------------------------------------------------
(* Properties.                                                             *)

TypeOK ==
    /\ event \in [Nodes -> Events \cup {"none"}]
    /\ running \in [Nodes -> BOOLEAN]
    /\ by \in [Nodes -> Events \cup {"none"}]
    /\ rest \in [Nodes -> 0..Cooldown]
    /\ window \in [Nodes -> Closed..Debounce]
    /\ edited \in [Nodes -> BOOLEAN]
    /\ toDo \in [Nodes -> SUBSET {"up", "down"}]
    /\ dirty \in [Nodes -> BOOLEAN]
    /\ stale \in [Nodes -> BOOLEAN]
    /\ due \subseteq Nodes
    /\ sent \subseteq Nodes \X Nodes

\* Echo loop prevention, JOURNAL.md:489: a daemon notifies its peers only
\* after a sync that answers an edit of its own users, never because of what
\* a peer's edit, told or polled, made nextcloudcmd write.  The cooldown must
\* be longer than the debounce window: at equality, which config.Validate
\* accepts, the echo's event may come just when the rest is over.
NoPingPong ==
    \A n \in Nodes : running[n] => by[n] # "echo"

\* JOURNAL.md:529, a peer that was not told "will catch up on its next poll":
\* once users, failures and restarts cease, every copy is the same, though
\* any request may be lost, and no request is made any more.
Quiet == <>[][\A n \in Nodes : ~Disturb(n)]_vars
Settled == \A n \in Nodes : ~dirty[n] /\ ~stale[n] /\ window[n] = Closed
MeshSettles ==
    Quiet => /\ <>[]Settled
             /\ <>[][sent' \subseteq sent]_vars
=============================================================================
