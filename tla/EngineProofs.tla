---------------------------- MODULE EngineProofs ----------------------------
(***************************************************************************)
(* Theorems about Engine, for every set of sources, every cooldown and     *)
(* every number of triggers.                                               *)
(***************************************************************************)
EXTENDS Engine, FiniteSetTheorems, TLAPS

-----------------------------------------------------------------------------
\* A recorded result keeps the status record well formed.
LEMMA RecordSyncType ==
    ASSUME HealthOK, NEW result \in [exitCode : {0, 1}, error : BOOLEAN,
                                     trigger : Sources],
           health' = RecordSync(health, result)
    PROVE  HealthOK'
<1>1. health.syncCount + 1 \in Nat /\ health.failCount + 1 \in Nat
      /\ health.triggerCounts[result.trigger] + 1 \in Nat
  BY DEF HealthOK
<1> QED
  BY <1>1 DEF HealthOK, RecordSync, Failed

\* Setting a running flag keeps it well formed.
LEMMA SetSourceRunningType ==
    ASSUME HealthOK, NEW s \in Sources, NEW running \in BOOLEAN,
           health' = SetSourceRunning(health, s, running)
    PROVE  HealthOK'
BY DEF HealthOK, SetSourceRunning

\* Every variable keeps the type of what it models (engine.go: the locals of
\* Run, the channel and the shared status).
THEOREM EngineTypeOK == Spec => []TypeOK
<1>1. Init => TypeOK
  <2> SUFFICES ASSUME Init PROVE TypeOK
    OBVIOUS
  <2>1. HealthOK
    BY DEF Init, HealthOK, NewStatus
  <2>2. events \in Seq(Sources) /\ Len(events) <= Capacity
    BY DEF Init, Capacity
  <2>3. since \in 0..Cooldown /\ idle \in 0..Cooldown
    BY CooldownAssumption DEF Init
  <2>4. ctxDone \in BOOLEAN /\ live \in BOOLEAN /\ synced \in BOOLEAN
        /\ ready \in BOOLEAN
    BY DEF Init
  <2>5. src \in [Sources -> SourceStates] /\ duty \in [Sources -> Duties]
    BY DEF Init, SourceStates, Duties
  <2> QED
    BY <2>1, <2>2, <2>3, <2>4, <2>5 DEF Init, TypeOK
<1>2. TypeOK /\ [Next]_vars => TypeOK'
  <2> SUFFICES ASSUME TypeOK, [Next]_vars
               PROVE  TypeOK'
    OBVIOUS
  <2> USE CooldownAssumption DEF SourceStates, Duties, Capacity
  <2>1. ASSUME NEW s \in Sources, Spawn(s) PROVE TypeOK'
    BY <2>1 DEF TypeOK, HealthOK, Spawn, history
  <2>2. ASSUME NEW s \in Sources, BeginSource(s) PROVE TypeOK'
    <3>1. HealthOK'
      BY <2>2, SetSourceRunningType DEF TypeOK, BeginSource
    <3> QED
      BY <2>2, <3>1 DEF TypeOK, BeginSource, history
  <2>3. ASSUME NEW s \in Sources, Trigger(s) PROVE TypeOK'
    <3>1. HealthOK'
      BY <2>3 DEF TypeOK, HealthOK, Trigger
    <3>2. CASE Accept(s)
      <4>1. events' \in Seq(Sources) /\ Len(events') <= Capacity
        BY <3>2 DEF TypeOK, Accept
      <4>2. duty' \in [Sources -> Duties]
        BY <3>2 DEF TypeOK, Accept
      <4> QED
        BY <2>3, <3>1, <4>1, <4>2 DEF TypeOK, Trigger
    <3>3. CASE Coalesce(s)
      <4>1. events' = events /\ duty' \in [Sources -> Duties]
        BY <3>3 DEF TypeOK, Coalesce
      <4> QED
        BY <2>3, <3>1, <4>1 DEF TypeOK, Trigger
    <3>4. Accept(s) \/ Coalesce(s)
      BY <2>3 DEF Trigger
    <3> QED
      BY <3>2, <3>3, <3>4
  <2>4. ASSUME NEW s \in Sources, ReturnFromStart(s) PROVE TypeOK'
    BY <2>4 DEF TypeOK, HealthOK, ReturnFromStart, history
  <2>5. ASSUME NEW s \in Sources, ClearRunning(s) PROVE TypeOK'
    <3>1. HealthOK'
      BY <2>5, SetSourceRunningType DEF TypeOK, ClearRunning
    <3> QED
      BY <2>5, <3>1 DEF TypeOK, ClearRunning, history
  <2>6. ASSUME NEW s \in Sources, WgDone(s) PROVE TypeOK'
    BY <2>6 DEF TypeOK, HealthOK, WgDone, history
  <2>7. CASE SignalReady
    BY <2>7 DEF TypeOK, HealthOK, SignalReady, history
  <2>8. CASE DropInCooldown
    BY <2>8 DEF TypeOK, HealthOK, DropInCooldown
  <2>9. CASE StartSync
    BY <2>9 DEF TypeOK, HealthOK, StartSync
  <2>10. ASSUME NEW outcome \in Outcomes, FinishSync(outcome) PROVE TypeOK'
    <3>1. HealthOK'
      <4> DEFINE result == SyncResult(IF outcome = "exit" THEN 1 ELSE 0,
                                      outcome # "ok", current)
      <4>1. result \in [exitCode : {0, 1}, error : BOOLEAN, trigger : Sources]
        BY DEF TypeOK, SyncResult
      <4>2. health' = RecordSync(health, result)
        BY <2>10 DEF FinishSync, RecordOutcome
      <4> HIDE DEF result
      <4> QED
        BY <4>1, <4>2, RecordSyncType DEF TypeOK
    <3>2. syncCount' \in Nat /\ failCount' \in Nat /\ notifying' \in Nat
      BY <2>10 DEF TypeOK, FinishSync, CountSync, NotifyIfLocal
    <3> QED
      BY <2>10, <3>1, <3>2 DEF TypeOK, FinishSync, MarkSynced
  <2>11. CASE SeeDone
    BY <2>11 DEF TypeOK, HealthOK, SeeDone, history
  <2>12. CASE Return
    BY <2>12 DEF TypeOK, HealthOK, Return, history
  <2>13. CASE Cancel
    BY <2>13 DEF TypeOK, HealthOK, Cancel, history
  <2>14. CASE NotifierEnds
    BY <2>14 DEF TypeOK, HealthOK, NotifierEnds, history
  <2>15. CASE Tick
    BY <2>15 DEF TypeOK, HealthOK, Tick, Aged
  <2>16. CASE UNCHANGED vars
    BY <2>16 DEF TypeOK, HealthOK, vars, engineVars, history
  <2> QED
    BY <2>1, <2>2, <2>3, <2>4, <2>5, <2>6, <2>7, <2>8, <2>9, <2>10, <2>11,
       <2>12, <2>13, <2>14, <2>15, <2>16
    DEF Next, SourceStep, StopSource, FailSource, LoopStep, Finished
<1> QED
  BY <1>1, <1>2, PTL DEF Spec

-----------------------------------------------------------------------------
\* A send that finds the channel full has a pending event to rely on
\* (engine.go:34, the non-blocking sends of the sources).  Inductive as it is.
THEOREM EngineCoalescing == Spec => []Coalescing
<1>1. Init => Coalescing
  BY DEF Init, Coalescing
<1>2. TypeOK /\ Coalescing /\ [Next]_vars => Coalescing'
  <2> SUFFICES ASSUME TypeOK, Coalescing, [Next]_vars
               PROVE  Coalescing'
    OBVIOUS
  <2>1. ASSUME NEW s \in Sources, Accept(s) PROVE Coalescing'
    <3>1. events' # <<>>
      BY <2>1 DEF TypeOK, Accept
    <3> QED
      BY <3>1 DEF Coalescing
  <2>2. ASSUME NEW s \in Sources, Coalesce(s) PROVE Coalescing'
    <3>1. events # <<>>
      <4>1. Len(events) = 1
        BY <2>2 DEF Coalesce, Capacity
      <4> QED
        BY <4>1
    <3> QED
      BY <2>2, <3>1 DEF Coalescing, Coalesce
  <2>3. CASE DropInCooldown
    BY <2>3 DEF DropInCooldown, Coalescing
  <2>4. CASE StartSync
    BY <2>4 DEF StartSync, Coalescing
  <2>5. CASE UNCHANGED <<duty, events>>
    BY <2>5 DEF Coalescing
  <2>6. ASSUME NEW s \in Sources, SourceStep(s)
        PROVE  Accept(s) \/ Coalesce(s) \/ UNCHANGED <<duty, events>>
    <3>1. CASE Trigger(s)
      BY <3>1 DEF Trigger
    <3> QED
      BY <2>6, <3>1
      DEF SourceStep, BeginSource, StopSource, FailSource, ReturnFromStart,
          ClearRunning, WgDone, history
  <2>7. ASSUME NEW s \in Sources, Spawn(s) PROVE UNCHANGED <<duty, events>>
    BY <2>7 DEF Spawn, history
  <2>8. CASE LoopStep
    BY <2>3, <2>4, <2>5, <2>8
    DEF LoopStep, FinishSync, SeeDone, Return, history
  <2> QED
    BY <2>1, <2>2, <2>5, <2>6, <2>7, <2>8
    DEF Next, SignalReady, Cancel, NotifierEnds, Tick, Finished, vars,
        engineVars, history
<1> QED
  BY <1>1, <1>2, EngineTypeOK, PTL DEF Spec

-----------------------------------------------------------------------------
\* The health record and the engine's counters agree, and "degraded" means
\* that the last sync failed (engine.go:104-140, health.go:45-57, 269-274).
\* Inductive as it is: FinishSync rewrites all of it.
THEOREM EngineHealthAgrees == Spec => []HealthAgrees
<1>1. Init => HealthAgrees
  BY DEF Init, HealthAgrees, NewStatus, ComputeStatus
<1>2. TypeOK /\ HealthAgrees /\ [Next]_vars => HealthAgrees'
  <2> SUFFICES ASSUME TypeOK, HealthAgrees, [Next]_vars
               PROVE  HealthAgrees'
    OBVIOUS
  <2>1. ASSUME NEW outcome \in Outcomes, FinishSync(outcome)
        PROVE  HealthAgrees'
    <3> DEFINE result == SyncResult(IF outcome = "exit" THEN 1 ELSE 0,
                                    outcome # "ok", current)
    <3>1. health' = RecordSync(health, result)
      BY <2>1 DEF FinishSync, RecordOutcome
    <3>2. Failed(result) <=> outcome # "ok"
      BY DEF Failed, SyncResult
    <3> HIDE DEF result
    <3>3. /\ health'.lastSync = {result}
          /\ health'.syncCount = IF Failed(result) THEN health.syncCount
                                 ELSE health.syncCount + 1
          /\ health'.failCount = IF Failed(result) THEN health.failCount + 1
                                 ELSE health.failCount
      BY <3>1 DEF TypeOK, HealthOK, RecordSync
    <3>4. health'.syncCount = syncCount' /\ health'.failCount = failCount'
      BY <2>1, <3>2, <3>3 DEF HealthAgrees, FinishSync, CountSync
    <3>5. (ComputeStatus(health') = "degraded") <=> outcome # "ok"
      BY <3>2, <3>3 DEF ComputeStatus
    <3>6. lastOutcome' = outcome
      BY <2>1 DEF FinishSync
    <3> QED
      BY <3>4, <3>5, <3>6 DEF HealthAgrees, Outcomes
  <2>2. ASSUME NEW s \in Sources, NEW running \in BOOLEAN,
               health' = SetSourceRunning(health, s, running),
               UNCHANGED <<syncCount, failCount, lastOutcome>>
        PROVE  HealthAgrees'
    <3>1. /\ health'.syncCount = health.syncCount
          /\ health'.failCount = health.failCount
          /\ health'.lastSync = health.lastSync
      BY <2>2 DEF TypeOK, HealthOK, SetSourceRunning
    <3> QED
      BY <2>2, <3>1 DEF HealthAgrees, ComputeStatus
  <2>3. CASE UNCHANGED <<health, syncCount, failCount, lastOutcome>>
    BY <2>3 DEF HealthAgrees, ComputeStatus
  <2>4. ASSUME NEW s \in Sources, SourceStep(s) PROVE HealthAgrees'
    <3>1. CASE BeginSource(s)
      BY <2>2, <3>1 DEF BeginSource, history
    <3>2. CASE ClearRunning(s)
      BY <2>2, <3>2 DEF ClearRunning, history
    <3> QED
      BY <2>3, <2>4, <3>1, <3>2
      DEF SourceStep, Trigger, StopSource, FailSource, ReturnFromStart,
          WgDone, history
  <2>5. ASSUME NEW s \in Sources, Spawn(s) PROVE HealthAgrees'
    BY <2>3, <2>5 DEF Spawn, history
  <2>6. CASE LoopStep
    BY <2>1, <2>3, <2>6
    DEF LoopStep, DropInCooldown, StartSync, SeeDone, Return, history
  <2> QED
    BY <2>3, <2>4, <2>5, <2>6
    DEF Next, SignalReady, Cancel, NotifierEnds, Tick, Finished, vars,
        engineVars, history
<1> QED
  BY <1>1, <1>2, EngineTypeOK, PTL DEF Spec

-----------------------------------------------------------------------------
(* Pacing.  The engine decides by lastSync, the promise is about the time  *)
(* the executor last returned: the two clocks agree.                       *)

ClocksAgree == idle = IF synced THEN since ELSE Cooldown

\* lastSync is set on every path on which the executor returns.
LEMMA EngineClocksAgree == Spec => []ClocksAgree
<1>1. Init => ClocksAgree
  BY DEF Init, ClocksAgree
<1>2. TypeOK /\ ClocksAgree /\ [Next]_vars => ClocksAgree'
  <2> SUFFICES ASSUME TypeOK, ClocksAgree, [Next]_vars
               PROVE  ClocksAgree'
    OBVIOUS
  <2>1. ASSUME NEW outcome \in Outcomes, FinishSync(outcome)
        PROVE  ClocksAgree'
    BY <2>1 DEF FinishSync, MarkSynced, ClocksAgree
  <2>2. CASE Tick
    BY <2>2, CooldownAssumption DEF Tick, Aged, ClocksAgree, TypeOK
  <2>3. CASE UNCHANGED <<idle, synced, since>>
    BY <2>3 DEF ClocksAgree
  <2> QED
    BY <2>1, <2>2, <2>3
    DEF Next, Spawn, SourceStep, BeginSource, Trigger, StopSource,
        FailSource, ReturnFromStart, ClearRunning, WgDone, SignalReady,
        LoopStep, DropInCooldown, StartSync, SeeDone, Return, Cancel,
        NotifierEnds, Finished, vars, engineVars, history
<1> QED
  BY <1>1, <1>2, EngineTypeOK, PTL DEF Spec

\* One pending event, one sync at a time and at least Cooldown between the end
\* of one and the start of the next, whatever its outcome and whatever the
\* sources send.
THEOREM EngineImplementsSyncLoop == Spec => ImplementsSyncLoop
<1>1. Init => Loop!Init
  BY DEF Init, Loop!Init
<1>2. TypeOK /\ ClocksAgree /\ [Next]_vars => [Loop!Next]_(Loop!vars)
  <2> SUFFICES ASSUME TypeOK, ClocksAgree, [Next]_vars
               PROVE  [Loop!Next]_(Loop!vars)
    OBVIOUS
  <2> USE DEF Loop!vars, Loop!Next
  <2>1. CASE StartSync
    <3>1. idle = Cooldown
      BY <2>1, CooldownAssumption
      DEF StartSync, InCooldown, ClocksAgree, TypeOK
    <3> QED
      BY <2>1, <3>1 DEF StartSync, Loop!Begin
  <2>2. ASSUME NEW outcome \in Outcomes, FinishSync(outcome)
        PROVE  Loop!End
    BY <2>2 DEF FinishSync, MarkSynced, Loop!End
  <2>3. CASE DropInCooldown
    <3>1. idle < Cooldown
      BY <2>3 DEF DropInCooldown, InCooldown, ClocksAgree
    <3> QED
      BY <2>3, <3>1 DEF DropInCooldown, Loop!Discard
  <2>4. CASE Tick
    BY <2>4, CooldownAssumption DEF Tick, Aged, Loop!Pass, TypeOK
  <2>5. ASSUME UNCHANGED <<events, idle, current>>,
               (pc = "sync") = (pc' = "sync")
        PROVE  UNCHANGED Loop!vars
    BY <2>5
  <2>6. ASSUME NEW s \in Sources, Trigger(s) PROVE [Loop!Next]_(Loop!vars)
    <3>1. CASE Accept(s)
      BY <2>6, <3>1 DEF Trigger, Accept, Loop!Put, Capacity, Loop!Capacity
    <3>2. CASE Coalesce(s)
      BY <2>6, <3>2 DEF Trigger, Coalesce
    <3> QED
      BY <2>6, <3>1, <3>2 DEF Trigger
  <2>7. ASSUME NEW s \in Sources, SourceStep(s), ~Trigger(s)
        PROVE  UNCHANGED <<pc, idle, events, current>>
    BY <2>7
    DEF SourceStep, BeginSource, StopSource, FailSource, ReturnFromStart,
        ClearRunning, WgDone, history
  <2>8. CASE LoopStep
    BY <2>1, <2>2, <2>3, <2>5, <2>8 DEF LoopStep, SeeDone, Return, history
  <2> QED
    BY <2>4, <2>5, <2>6, <2>7, <2>8
    DEF Next, Spawn, SignalReady, Cancel, NotifierEnds, Finished, vars,
        engineVars, history
<1> QED
  BY <1>1, <1>2, EngineTypeOK, EngineClocksAgree, PTL
  DEF Spec, ImplementsSyncLoop, Loop!Spec

-----------------------------------------------------------------------------
(* Shutdown.  The WaitGroup counts the goroutines between their go         *)
(* statement and their deferred wg.Done, none is left unspawned once the   *)
(* loop runs, and a source is marked as not running before wg.Done.        *)

Active == {s \in Sources : src[s] \notin {"unborn", "done"}}

DrainInv ==
    /\ wg = Cardinality(Active)
    /\ pc # "spawn" => \A s \in Sources : src[s] # "unborn"
    /\ pc = "returned" => \A s \in Sources : src[s] = "done"
    /\ \A s \in Sources :
          src[s] \in {"cleared", "done"} => health.sources[s] = "down"

LEMMA EngineDrain == Spec => []DrainInv
<1>1. Init => DrainInv
  <2> SUFFICES ASSUME Init PROVE DrainInv
    OBVIOUS
  <2>1. Active = {}
    BY DEF Init, Active
  <2> QED
    BY <2>1, FS_EmptySet DEF Init, DrainInv
<1>2. TypeOK /\ DrainInv /\ [Next]_vars => DrainInv'
  <2> SUFFICES ASSUME TypeOK, DrainInv, [Next]_vars
               PROVE  DrainInv'
    OBVIOUS
  <2>1. IsFiniteSet(Active)
    BY SourcesAssumption, FS_Subset DEF Active
  <2>2. ASSUME NEW s \in Sources, Spawn(s) PROVE DrainInv'
    <3>1. Active' = Active \cup {s} /\ s \notin Active
      BY <2>2 DEF Active, Spawn, TypeOK
    <3>2. wg' = Cardinality(Active')
      BY <2>1, <2>2, <3>1, FS_AddElement DEF DrainInv, Spawn
    <3> QED
      BY <2>2, <3>2 DEF DrainInv, Spawn, TypeOK
  <2>3. ASSUME NEW s \in Sources, WgDone(s) PROVE DrainInv'
    <3>1. Active' = Active \ {s} /\ s \in Active
      BY <2>3 DEF Active, WgDone, TypeOK
    <3>2. wg' = Cardinality(Active')
      BY <2>1, <2>3, <3>1, FS_RemoveElement DEF DrainInv, WgDone
    <3> QED
      BY <2>3, <3>2 DEF DrainInv, WgDone, TypeOK
  <2>4. ASSUME NEW s \in Sources, BeginSource(s) PROVE DrainInv'
    <3>1. Active' = Active
      BY <2>4 DEF Active, BeginSource, TypeOK
    <3>2. \A t \in Sources \ {s} : health'.sources[t] = health.sources[t]
      BY <2>4 DEF BeginSource, SetSourceRunning, TypeOK, HealthOK
    <3> QED
      BY <2>4, <3>1, <3>2 DEF DrainInv, BeginSource, TypeOK
  <2>5. ASSUME NEW s \in Sources, ClearRunning(s) PROVE DrainInv'
    <3>1. Active' = Active
      BY <2>5 DEF Active, ClearRunning, TypeOK
    <3>2. /\ health'.sources[s] = "down"
          /\ \A t \in Sources \ {s} : health'.sources[t] = health.sources[t]
      BY <2>5 DEF ClearRunning, SetSourceRunning, TypeOK, HealthOK
    <3> QED
      BY <2>5, <3>1, <3>2 DEF DrainInv, ClearRunning, TypeOK
  <2>6. ASSUME NEW s \in Sources, ReturnFromStart(s) PROVE DrainInv'
    <3>1. Active' = Active
      BY <2>6 DEF Active, ReturnFromStart, TypeOK
    <3> QED
      BY <2>6, <3>1 DEF DrainInv, ReturnFromStart, TypeOK
  <2>7. ASSUME UNCHANGED <<src, wg, health>>, pc' \in {pc, "loop", "sync"},
               pc = "spawn" => pc' = "spawn"
        PROVE  DrainInv'
    BY <2>7 DEF DrainInv, Active
  <2>8. CASE SignalReady
    BY <2>8 DEF SignalReady, DrainInv, Active
  <2>9. CASE SeeDone
    BY <2>9 DEF SeeDone, DrainInv, Active
  <2>10. CASE Return
    <3>1. Active = {}
      BY <2>1, <2>10, FS_EmptySet DEF Return, DrainInv
    <3> QED
      BY <2>10, <3>1 DEF Return, DrainInv, Active, TypeOK
  <2>11. ASSUME NEW outcome \in Outcomes, FinishSync(outcome)
         PROVE  DrainInv'
    <3>1. health'.sources = health.sources
      BY <2>11 DEF FinishSync, RecordOutcome, RecordSync, TypeOK, HealthOK
    <3> QED
      BY <2>11, <3>1 DEF FinishSync, MarkSynced, DrainInv, Active
  <2>12. CASE DropInCooldown
    BY <2>7, <2>12 DEF DropInCooldown
  <2>13. CASE StartSync
    BY <2>7, <2>13 DEF StartSync
  <2>14. ASSUME NEW s \in Sources, Trigger(s) PROVE DrainInv'
    BY <2>7, <2>14 DEF Trigger
  <2>15. CASE Cancel \/ NotifierEnds \/ Tick \/ UNCHANGED vars
    BY <2>7, <2>15
    DEF Cancel, NotifierEnds, Tick, vars, engineVars, history
  <2> QED
    BY <2>2, <2>3, <2>4, <2>5, <2>6, <2>8, <2>9, <2>10, <2>11, <2>12,
       <2>13, <2>14, <2>15
    DEF Next, SourceStep, StopSource, FailSource, LoopStep, Finished
<1> QED
  BY <1>1, <1>2, EngineTypeOK, PTL DEF Spec

\* When Run returns every source has returned from Start, none can trigger
\* any more, and health shows none running (engine.go:50-63, 81-88).
THEOREM EngineQuietAfterReturn == Spec => []QuietAfterReturn
<1>1. DrainInv => QuietAfterReturn
  <2> SUFFICES ASSUME DrainInv, pc = "returned"
               PROVE  wg = 0 /\ \A s \in Sources :
                         src[s] = "done" /\ health.sources[s] = "down"
    BY DEF QuietAfterReturn
  <2>1. Active = {}
    BY DEF DrainInv, Active
  <2> QED
    BY <2>1, FS_EmptySet DEF DrainInv
<1> QED
  BY <1>1, EngineDrain, PTL
=============================================================================
