------------------------------ MODULE SyncCall ------------------------------
(***************************************************************************)
(* What a caller of daemon.SyncExecutor.Run may rely on, and what Engine   *)
(* does rely on: the call ends with "ok" (exit code 0), "exit" (non-zero   *)
(* exit code, no Go error) or "goerr" (a Go error); a call made with a     *)
(* context that is already done ends with a Go error; "ok" means that the  *)
(* client ran and exited with code 0 by itself.                            *)
(***************************************************************************)
CONSTANT NoOutcome

VARIABLES
    busy,       \* a call is in progress
    live,       \* its context was not done when it was made
    succeeded,  \* the client of this call has exited with code 0
    outcome     \* how the last call ended, while none is in progress

vars == <<busy, live, succeeded, outcome>>

Init ==
    /\ busy = FALSE
    /\ live \in BOOLEAN
    /\ succeeded = FALSE
    /\ outcome = NoOutcome

Call ==
    /\ ~busy
    /\ busy' = TRUE
    /\ live' \in BOOLEAN
    /\ succeeded' = FALSE
    /\ outcome' = NoOutcome

ClientSucceeds ==
    /\ busy /\ live
    /\ succeeded' = TRUE
    /\ UNCHANGED <<busy, live, outcome>>

Return ==
    /\ busy
    /\ busy' = FALSE
    /\ outcome' \in {"ok", "exit", "goerr"}
    /\ ~live => outcome' = "goerr"
    /\ outcome' = "ok" => succeeded
    /\ UNCHANGED <<live, succeeded>>

\* The daemon is killed.
Die ==
    /\ busy' = FALSE
    /\ live' \in BOOLEAN
    /\ succeeded' = FALSE
    /\ outcome' = NoOutcome

Next == Call \/ ClientSucceeds \/ Return \/ Die

Spec == Init /\ [][Next]_vars
=============================================================================
