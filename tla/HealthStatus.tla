---------------------------- MODULE HealthStatus ----------------------------
(***************************************************************************)
(* The part of health.Status (internal/health/health.go) that the engine   *)
(* writes: counters, the last result and the running flag of each source.  *)
(* Each method holds the mutex from its first line to its last, so each is *)
(* one operator on the status record, applied in one step of its caller.   *)
(***************************************************************************)
EXTENDS Integers

\* A daemon.SyncResult, as far as health reads it: a zero or non-zero exit
\* code, an error that is nil or not, and the source that triggered it.
SyncResult(exitCode, failed, trigger) ==
    [exitCode |-> exitCode, error |-> failed, trigger |-> trigger]

\* lastSync is a pointer: the empty set when nil, else the one result it
\* points to.
NewStatus(names) ==
    [lastSync      |-> {},
     syncCount     |-> 0,
     failCount     |-> 0,
     sources       |-> [s \in names |-> "absent"],
     triggerCounts |-> [s \in names |-> 0]]

Failed(result) == result.exitCode # 0 \/ result.error

RecordSync(status, result) ==
    [status EXCEPT
        !.lastSync                      = {result},
        !.triggerCounts[result.trigger] = @ + 1,
        !.failCount                     = IF Failed(result) THEN @ + 1 ELSE @,
        !.syncCount                     = IF Failed(result) THEN @ ELSE @ + 1]

\* The key of a source appears in the map when its goroutine first sets it.
SetSourceRunning(status, name, running) ==
    [status EXCEPT !.sources[name] = IF running THEN "up" ELSE "down"]

ComputeStatus(status) ==
    IF \E result \in status.lastSync : Failed(result)
    THEN "degraded" ELSE "ok"
=============================================================================
