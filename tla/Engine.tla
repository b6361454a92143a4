------------------------------- MODULE Engine -------------------------------
(***************************************************************************)
(* internal/engine/engine.go: the goroutine that runs Engine.Run, one      *)
(* goroutine per event source, and the event channel of capacity one       *)
(* between them.  A source is seen from outside: it starts, triggers, and  *)
(* stops; Watcher.tla opens one up.  The executor is the call Run makes,   *)
(* with the three outcomes the engine tells apart.                         *)
(*                                                                         *)
(* Time is counted in units; elapsed times are counted up to the largest   *)
(* value any guard compares them with, so the model has finitely many      *)
(* states without a bound on the clock.                                    *)
(***************************************************************************)
EXTENDS Integers, Sequences, FiniteSets, HealthStatus

CONSTANTS
    Sources,       \* names of the configured event sources
    Watcher,       \* the name "watcher", configured or not
    Cooldown,      \* watch.cooldown, in time units
    HasNotifier,   \* are peers configured?
    MaxTriggers    \* bound: how often the sources trigger in a behaviour

ASSUME SourcesAssumption     ==
    /\ IsFiniteSet(Sources)
    /\ Sources # {}                        \* config.ValidateEventSources
ASSUME CooldownAssumption    == Cooldown \in Nat
ASSUME NotifierAssumption    == HasNotifier \in BOOLEAN
ASSUME MaxTriggersAssumption == MaxTriggers \in Nat

VARIABLES
    pc,            \* control point of Engine.Run
    ctxDone,       \* the daemon's context is cancelled
    src,           \* control point of each source's goroutine
    wg,            \* the WaitGroup counter
    events,        \* the channel of trigger sources
    current,       \* source of the event being synced
    live,          \* was the context live when the executor was called?
    synced,        \* lastSync is not the zero time
    since,         \* time.Since(lastSync), up to Cooldown
    syncCount,
    failCount,
    health,        \* the shared *health.Status
    ready,         \* OnReady was called
    notifying,     \* NotifyPeers goroutines in flight
    triggers       \* triggers so far

\* History, read only by properties and refinement mappings.
VARIABLES
    duty,          \* per source: what became of its latest trigger
    idle,          \* time since executor.Run last returned, up to Cooldown
    lastOutcome    \* how executor.Run last returned

engineVars == <<pc, ctxDone, src, wg, events, current, live, synced, since,
                syncCount, failCount, health, ready, notifying, triggers>>
history == <<duty, idle, lastOutcome>>
vars == <<engineVars, history>>

Capacity == 1

\* "ok": exit code 0.  "exit": nextcloudcmd exited non-zero or was killed
\* on cancellation (a result, no Go error).  "goerr": no password, no netrc,
\* no process, or timed out.
Outcomes == {"ok", "exit", "goerr"}

SourceStates ==
    {"unborn", "created", "running", "returned", "cleared", "done"}

\* "none": no trigger since the last sync started.  "sent": in the channel.
\* "coalesced": dropped because the channel was full ("sync already
\* pending").  "cooled": its event was taken and dropped in the cooldown.
Duties == {"none", "sent", "coalesced", "cooled"}

-----------------------------------------------------------------------------
Init ==
    /\ pc = "spawn"
    /\ ctxDone = FALSE
    /\ src = [s \in Sources |-> "unborn"]
    /\ wg = 0
    /\ events = <<>>
    /\ current \in Sources
    /\ live = TRUE
    /\ synced = FALSE
    /\ since = 0
    /\ syncCount = 0
    /\ failCount = 0
    /\ health = NewStatus(Sources)
    /\ ready = FALSE
    /\ notifying = 0
    /\ triggers = 0
    /\ duty = [s \in Sources |-> "none"]
    /\ idle = Cooldown
    /\ lastOutcome = "none"

-----------------------------------------------------------------------------
(* Start-up: wg.Add and the go statement, then OnReady.                    *)

Spawn(s) ==
    /\ pc = "spawn"
    /\ src[s] = "unborn"
    /\ src' = [src EXCEPT ![s] = "created"]
    /\ wg' = wg + 1
    /\ UNCHANGED <<pc, ctxDone, events, current, live, synced, since,
                   syncCount, failCount, health, ready, notifying, triggers,
                   history>>

SignalReady ==
    /\ pc = "spawn"
    /\ \A s \in Sources : src[s] # "unborn"
    /\ ready' = TRUE
    /\ pc' = "loop"
    /\ UNCHANGED <<ctxDone, src, wg, events, current, live, synced, since,
                   syncCount, failCount, health, notifying, triggers,
                   history>>

-----------------------------------------------------------------------------
(* A source's goroutine.                                                   *)

BeginSource(s) ==
    /\ src[s] = "created"
    /\ src' = [src EXCEPT ![s] = "running"]
    /\ health' = SetSourceRunning(health, s, TRUE)
    /\ UNCHANGED <<pc, ctxDone, wg, events, current, live, synced, since,
                   syncCount, failCount, ready, notifying, triggers, history>>

\* Start sends on the channel without blocking.  The source's select may
\* still pick its own event after the context is cancelled.
Accept(s) ==
    /\ Len(events) < Capacity
    /\ events' = Append(events, s)
    /\ duty' = [duty EXCEPT ![s] = "sent"]

\* Mutant: the channel grows instead of dropping.
CoalesceByQueueing(s) ==
    /\ Len(events) = Capacity
    /\ duty' = [duty EXCEPT ![s] = "coalesced"]
    /\ events' = Append(events, s)

\* Mutant: a running sync is taken for a pending one.
CoalesceWithRunningSync(s) ==
    /\ Len(events) = Capacity \/ pc = "sync"
    /\ duty' = [duty EXCEPT ![s] = "coalesced"]
    /\ UNCHANGED events

Coalesce(s) ==
    /\ Len(events) = Capacity
    /\ duty' = [duty EXCEPT ![s] = "coalesced"]
    /\ UNCHANGED events

Trigger(s) ==
    /\ src[s] = "running"
    /\ triggers < MaxTriggers
    /\ triggers' = triggers + 1
    /\ Accept(s) \/ Coalesce(s)
    /\ UNCHANGED <<pc, ctxDone, src, wg, current, live, synced, since,
                   syncCount, failCount, health, ready, notifying, idle,
                   lastOutcome>>

ReturnFromStart(s) ==
    /\ src[s] = "running"
    /\ src' = [src EXCEPT ![s] = "returned"]
    /\ UNCHANGED <<pc, ctxDone, wg, events, current, live, synced, since,
                   syncCount, failCount, health, ready, notifying, triggers,
                   history>>

\* Start returns nil once it sees the cancelled context.
StopSource(s) == ctxDone /\ ReturnFromStart(s)

\* Mutant: the error path skips wg.Done.
FailSourceWithoutDone(s) ==
    /\ ~ctxDone
    /\ src[s] = "running"
    /\ src' = [src EXCEPT ![s] = "done"]
    /\ health' = SetSourceRunning(health, s, FALSE)
    /\ UNCHANGED <<pc, ctxDone, wg, events, current, live, synced, since,
                   syncCount, failCount, ready, notifying, triggers, history>>

\* Start returns an error, which is only logged: a port in use, a directory
\* that cannot be watched.
FailSource(s) == ~ctxDone /\ ReturnFromStart(s)

\* The deferred calls run last in, first out.
ClearRunning(s) ==
    /\ src[s] = "returned"
    /\ src' = [src EXCEPT ![s] = "cleared"]
    /\ health' = SetSourceRunning(health, s, FALSE)
    /\ UNCHANGED <<pc, ctxDone, wg, events, current, live, synced, since,
                   syncCount, failCount, ready, notifying, triggers, history>>

WgDone(s) ==
    /\ src[s] = "cleared"
    /\ src' = [src EXCEPT ![s] = "done"]
    /\ wg' = wg - 1
    /\ UNCHANGED <<pc, ctxDone, events, current, live, synced, since,
                   syncCount, failCount, health, ready, notifying, triggers,
                   history>>

-----------------------------------------------------------------------------
(* The main loop.  Its select chooses between the two ready cases at       *)
(* random: both SeeDone and the actions on an event may be enabled.        *)

InCooldown == synced /\ since < Cooldown

DropInCooldown ==
    /\ pc = "loop"
    /\ events # <<>>
    /\ InCooldown
    /\ events' = Tail(events)
    /\ duty' = [s \in Sources |->
                   IF duty[s] = "none" THEN "none" ELSE "cooled"]
    /\ UNCHANGED <<pc, ctxDone, src, wg, current, live, synced, since,
                   syncCount, failCount, health, ready, notifying, triggers,
                   idle, lastOutcome>>

StartSync ==
    /\ pc = "loop"
    /\ events # <<>>
    /\ ~InCooldown
    /\ current' = Head(events)
    /\ events' = Tail(events)
    /\ live' = ~ctxDone
    /\ pc' = "sync"
    /\ duty' = [s \in Sources |-> "none"]
    /\ UNCHANGED <<ctxDone, src, wg, synced, since, syncCount, failCount,
                   health, ready, notifying, triggers, idle, lastOutcome>>

\* What Run does with the outcome of executor.Run.  On a Go error the
\* executor's own result is discarded: the recorded one has exit code 0 and
\* the error.
CountSync(outcome) ==
    IF outcome = "ok"
    THEN /\ syncCount' = syncCount + 1
         /\ UNCHANGED failCount
    ELSE /\ failCount' = failCount + 1
         /\ UNCHANGED syncCount

\* Mutant: the error is not passed on to health.
RecordExitCodeOnly(outcome) ==
    health' = RecordSync(health,
                 SyncResult(IF outcome = "exit" THEN 1 ELSE 0, FALSE, current))

RecordOutcome(outcome) ==
    health' = RecordSync(health,
                 SyncResult(IF outcome = "exit" THEN 1 ELSE 0,
                            outcome # "ok", current))

NotifyIfLocal(outcome) ==
    notifying' = IF outcome = "ok" /\ HasNotifier /\ current = Watcher
                 THEN notifying + 1 ELSE notifying

\* Mutant: lastSync is set after a successful sync only.
MarkSuccess(outcome) ==
    /\ IF outcome = "ok"
       THEN synced' = TRUE /\ since' = 0
       ELSE UNCHANGED <<synced, since>>
    /\ pc' = "loop"

\* Mutant: Run gives up on an executor error.
StopOnError(outcome) ==
    /\ synced' = TRUE
    /\ since' = 0
    /\ pc' = IF outcome = "goerr" THEN "drain" ELSE "loop"

\* lastSync = time.Now() and back to the select, whatever the outcome.
MarkSynced(outcome) ==
    /\ synced' = TRUE
    /\ since' = 0
    /\ pc' = "loop"

\* With a context that was done at the call no process starts, so the
\* outcome is a Go error.
FinishSync(outcome) ==
    /\ pc = "sync"
    /\ ~live => outcome = "goerr"
    /\ CountSync(outcome)
    /\ RecordOutcome(outcome)
    /\ NotifyIfLocal(outcome)
    /\ MarkSynced(outcome)
    /\ idle' = 0
    /\ lastOutcome' = outcome
    /\ UNCHANGED <<ctxDone, src, wg, events, current, live, ready, triggers,
                   duty>>

SeeDone ==
    /\ pc = "loop"
    /\ ctxDone
    /\ pc' = "drain"
    /\ UNCHANGED <<ctxDone, src, wg, events, current, live, synced, since,
                   syncCount, failCount, health, ready, notifying, triggers,
                   history>>

\* Mutant: Run returns without wg.Wait.
ReturnAtOnce ==
    /\ pc = "drain"
    /\ pc' = "returned"
    /\ UNCHANGED <<ctxDone, src, wg, events, current, live, synced, since,
                   syncCount, failCount, health, ready, notifying, triggers,
                   history>>

\* wg.Wait, then Run returns.
Return ==
    /\ pc = "drain"
    /\ wg = 0
    /\ pc' = "returned"
    /\ UNCHANGED <<ctxDone, src, wg, events, current, live, synced, since,
                   syncCount, failCount, health, ready, notifying, triggers,
                   history>>

-----------------------------------------------------------------------------
(* The surroundings.                                                       *)

\* SIGTERM or SIGINT, at any time.
Cancel ==
    /\ ~ctxDone
    /\ ctxDone' = TRUE
    /\ UNCHANGED <<pc, src, wg, events, current, live, synced, since,
                   syncCount, failCount, health, ready, notifying, triggers,
                   history>>

\* A NotifyPeers goroutine ends.  Run does not wait for it.
NotifierEnds ==
    /\ notifying > 0
    /\ notifying' = notifying - 1
    /\ UNCHANGED <<pc, ctxDone, src, wg, events, current, live, synced, since,
                   syncCount, failCount, health, ready, triggers, history>>

Aged(elapsed) == IF elapsed < Cooldown THEN elapsed + 1 ELSE elapsed

Tick ==
    /\ since' = Aged(since)
    /\ idle' = Aged(idle)
    /\ <<since, idle>>' # <<since, idle>>
    /\ UNCHANGED <<pc, ctxDone, src, wg, events, current, live, synced,
                   syncCount, failCount, health, ready, notifying, triggers,
                   duty, lastOutcome>>

\* Run has returned and nothing is left to do: not a deadlock.
Finished ==
    /\ pc = "returned"
    /\ UNCHANGED vars

-----------------------------------------------------------------------------
SourceStep(s) ==
    \/ BeginSource(s)
    \/ Trigger(s)
    \/ StopSource(s)
    \/ FailSource(s)
    \/ ClearRunning(s)
    \/ WgDone(s)

LoopStep ==
    \/ DropInCooldown
    \/ StartSync
    \/ \E outcome \in Outcomes : FinishSync(outcome)
    \/ SeeDone
    \/ Return

Next ==
    \/ \E s \in Sources : Spawn(s) \/ SourceStep(s)
    \/ SignalReady
    \/ LoopStep
    \/ Cancel
    \/ NotifierEnds
    \/ Tick
    \/ Finished

Spec == Init /\ [][Next]_vars

\* A goroutine that can run does; executor.Run returns (sync.timeout bounds
\* it); a source whose context is cancelled returns from Start; time passes.
\* Triggers, failures and the cancellation owe nothing.
Fairness ==
    /\ WF_vars(SignalReady \/ \E s \in Sources : Spawn(s))
    /\ WF_vars(LoopStep)
    /\ WF_vars(Tick)
    /\ \A s \in Sources :
          /\ WF_vars(BeginSource(s))
          /\ WF_vars(StopSource(s))
          /\ WF_vars(ClearRunning(s) \/ WgDone(s))

FairSpec == Spec /\ Fairness

-----------------------------------------------------------------------------
(* Properties.                                                             *)

\* Every variable has the type of the field or local it models.
HealthOK ==
    health \in [lastSync      : SUBSET [exitCode : {0, 1}, error : BOOLEAN,
                                        trigger : Sources],
                syncCount     : Nat,
                failCount     : Nat,
                sources       : [Sources -> {"absent", "up", "down"}],
                triggerCounts : [Sources -> Nat]]

TypeOK ==
    /\ pc \in {"spawn", "loop", "sync", "drain", "returned"}
    /\ ctxDone \in BOOLEAN
    /\ src \in [Sources -> SourceStates]
    /\ wg \in Int
    /\ events \in Seq(Sources)
    /\ Len(events) <= Capacity
    /\ current \in Sources
    /\ live \in BOOLEAN
    /\ synced \in BOOLEAN
    /\ since \in 0..Cooldown
    /\ syncCount \in Nat
    /\ failCount \in Nat
    /\ HealthOK
    /\ ready \in BOOLEAN
    /\ notifying \in Nat
    /\ triggers \in Nat
    /\ duty \in [Sources -> Duties]
    /\ idle \in 0..Cooldown
    /\ lastOutcome \in Outcomes \cup {"none"}

\* A trigger that no sync has started after, and that the cooldown has not
\* discarded, has an event in the channel: a send that found the channel full
\* really had a pending event to rely on, sent before or during a sync.
Coalescing ==
    (\E s \in Sources : duty[s] \in {"sent", "coalesced"}) => events # <<>>

\* The health endpoint and the engine's own counters agree on how many syncs
\* succeeded and failed, on both branches of Run, and the status is
\* "degraded" exactly when the last sync failed.
HealthAgrees ==
    /\ health.syncCount = syncCount
    /\ health.failCount = failCount
    /\ (ComputeStatus(health) = "degraded") <=>
          (lastOutcome \in {"exit", "goerr"})

\* The WaitGroup counts the goroutines that were spawned and are not done, so
\* once Run has returned no source is still in Start or can trigger again,
\* and health shows no source running.
QuietAfterReturn ==
    pc = "returned" =>
        /\ wg = 0
        /\ \A s \in Sources :
              src[s] = "done" /\ health.sources[s] = "down"

\* Through start-up, failed syncs, failed sources and shutdown, Run keeps the
\* promise of SyncLoop: one pending event, one sync at a time, Cooldown apart,
\* measured from when the executor returned.
Loop == INSTANCE SyncLoop WITH
             running <- (pc = "sync"),
             by      <- current,
             rest    <- idle
ImplementsSyncLoop == Loop!Spec

\* Cancellation ends Run, also during start-up or a sync and with sources
\* that failed.
ShutdownCompletes == ctxDone ~> (pc = "returned")

\* A trigger is answered: a sync starts after it, or the cooldown discards
\* it, unless the daemon is shutting down.
TriggersAnswered ==
    \A s \in Sources :
        duty[s] \in {"sent", "coalesced"} ~>
            (duty[s] \in {"none", "cooled"} \/ ctxDone)
=============================================================================
