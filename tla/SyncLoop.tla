------------------------------ MODULE SyncLoop ------------------------------
(***************************************************************************)
(* What the engine promises its sources and the server, without its        *)
(* start-up, shutdown, counters and health: one pending event at most, one *)
(* sync at a time, and at least Cooldown units of rest between the end of  *)
(* a sync and the start of the next one; an event taken before that is     *)
(* discarded.  Engine.tla implements this specification, and               *)
(* SyncDaemon.tla uses it in its place.                                    *)
(***************************************************************************)
EXTENDS Integers, Sequences

CONSTANTS
    Sources,           \* who sends events
    Cooldown           \* minimum rest between two syncs, in time units

VARIABLES
    events,            \* the channel
    running,           \* a sync is running
    by,                \* the source of its event
    rest               \* time since the last sync ended, up to Cooldown

vars == <<events, running, by, rest>>

Capacity == 1

\* Before its first sync the daemon is rested.
Init ==
    /\ events = <<>>
    /\ running = FALSE
    /\ by \in Sources
    /\ rest = Cooldown

\* A send that finds the channel full is dropped.
Put(s) ==
    /\ events' = IF Len(events) < Capacity THEN Append(events, s) ELSE events
    /\ UNCHANGED <<running, by, rest>>

Discard ==
    /\ ~running
    /\ events # <<>>
    /\ rest < Cooldown
    /\ events' = Tail(events)
    /\ UNCHANGED <<running, by, rest>>

Begin ==
    /\ ~running
    /\ events # <<>>
    /\ rest = Cooldown
    /\ running' = TRUE
    /\ by' = Head(events)
    /\ events' = Tail(events)
    /\ UNCHANGED rest

End ==
    /\ running
    /\ running' = FALSE
    /\ rest' = 0
    /\ UNCHANGED <<events, by>>

Pass ==
    /\ rest < Cooldown
    /\ rest' = rest + 1
    /\ UNCHANGED <<events, running, by>>

Next ==
    \/ \E s \in Sources : Put(s)
    \/ Discard
    \/ Begin
    \/ End
    \/ Pass

Spec == Init /\ [][Next]_vars
=============================================================================
