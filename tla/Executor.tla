------------------------------ MODULE Executor ------------------------------
(***************************************************************************)
(* internal/sync/executor.go: Executor.Run, the nextcloudcmd process it    *)
(* starts and what os/exec does around it.  The process, its descendants   *)
(* and the kernel are external, modelled as far as Run depends on them:    *)
(* os/exec kills the process, and no other, when the command's context is  *)
(* done; Wait returns when the process is reaped and both output pipes are *)
(* closed, with no limit (Cmd.WaitDelay is zero).                          *)
(***************************************************************************)
EXTENDS Integers, FiniteSets

CONSTANTS
    Callers,        \* goroutines that may call Run
    NoCaller,
    MayInherit,     \* may the client leave a process that holds its pipes?
    MaxCrashes      \* bound: how often the daemon is killed

ASSUME ExecutorAssumption ==
    /\ NoCaller \notin Callers
    /\ MayInherit \in BOOLEAN
    /\ MaxCrashes \in Nat

VARIABLES
    pc,             \* per caller: control point in Run
    holder,         \* who holds e.mu
    ctxDone,        \* the caller's context is cancelled
    cmdCtx,         \* per caller: cmdCtx, live or done for which reason
    netrc,          \* per caller: the temporary directory of its last Run
    client,         \* per caller: its nextcloudcmd process
    pipes,          \* per caller: another process holds the output pipes
    waitErr,        \* per caller: what cmd.Run returns
    outcome,        \* per caller: what its last Run returned
    crashes

\* History, read only by properties.
VARIABLES
    live,           \* per caller: was the context live at the call?
    zero            \* per caller: the client has exited with code 0

run == <<holder, cmdCtx, netrc, client, pipes, waitErr>>
vars == <<pc, run, ctxDone, outcome, crashes, live, zero>>

Points == {"idle", "lock", "password", "netrc", "start", "running", "reaped",
           "classify", "cleanup", "unlock"}

Init ==
    /\ pc = [c \in Callers |-> "idle"]
    /\ holder = NoCaller
    /\ ctxDone = FALSE
    /\ cmdCtx = [c \in Callers |-> "none"]
    /\ netrc = [c \in Callers |-> "none"]
    /\ client = [c \in Callers |-> "none"]
    /\ pipes = [c \in Callers |-> FALSE]
    /\ waitErr = [c \in Callers |-> "nil"]
    /\ outcome = [c \in Callers |-> "none"]
    /\ crashes = 0
    /\ live = [c \in Callers |-> TRUE]
    /\ zero = [c \in Callers |-> FALSE]

\* Caller c goes from one control point to another.
Goto(c, from, to) ==
    /\ pc[c] = from
    /\ pc' = [pc EXCEPT ![c] = to]

Returns(c, result) == outcome' = [outcome EXCEPT ![c] = result]

-----------------------------------------------------------------------------
(* Before the process.                                                     *)

Call(c) ==
    /\ Goto(c, "idle", "lock")
    /\ live' = [live EXCEPT ![c] = ~ctxDone]
    /\ zero' = [zero EXCEPT ![c] = FALSE]
    /\ UNCHANGED <<run, ctxDone, outcome, crashes>>

\* Mutant: Run without its mutex.
EnterFreely(c) ==
    /\ Goto(c, "lock", "password")
    /\ holder' = c
    /\ UNCHANGED <<ctxDone, cmdCtx, netrc, client, pipes, waitErr, outcome,
                   crashes, live, zero>>

Lock(c) ==
    /\ Goto(c, "lock", "password")
    /\ holder = NoCaller
    /\ holder' = c
    /\ UNCHANGED <<ctxDone, cmdCtx, netrc, client, pipes, waitErr, outcome,
                   crashes, live, zero>>

\* The password file cannot be read, on this sync.
FailPassword(c) ==
    /\ Goto(c, "password", "unlock")
    /\ Returns(c, "goerr")
    /\ UNCHANGED <<run, ctxDone, crashes, live, zero>>

ResolvePassword(c) ==
    /\ Goto(c, "password", "netrc")
    /\ UNCHANGED <<run, ctxDone, outcome, crashes, live, zero>>

\* writeNetrc leaves no directory behind when it fails, also when it fails
\* after the directory was made.
FailNetrc(c) ==
    /\ Goto(c, "netrc", "unlock")
    /\ Returns(c, "goerr")
    /\ UNCHANGED <<run, ctxDone, crashes, live, zero>>

\* context.WithTimeout follows a context that may already be cancelled.
WriteNetrc(c) ==
    /\ Goto(c, "netrc", "start")
    /\ netrc' = [netrc EXCEPT ![c] = "present"]
    /\ cmdCtx' = [cmdCtx EXCEPT ![c] = IF ctxDone THEN "canceled" ELSE "live"]
    /\ UNCHANGED <<holder, client, pipes, waitErr, ctxDone, outcome, crashes,
                   live, zero>>

-----------------------------------------------------------------------------
(* The process.                                                            *)

\* cmd.Start refuses when the context is done, and may fail by itself.
FailStart(c) ==
    /\ Goto(c, "start", "classify")
    /\ waitErr' = [waitErr EXCEPT ![c] = "other"]
    /\ UNCHANGED <<holder, cmdCtx, netrc, client, pipes, ctxDone, outcome,
                   crashes, live, zero>>

StartClient(c) ==
    /\ Goto(c, "start", "running")
    /\ cmdCtx[c] = "live"
    /\ client' = [client EXCEPT ![c] = "alive"]
    /\ waitErr' = [waitErr EXCEPT ![c] = "nil"]
    /\ UNCHANGED <<holder, cmdCtx, netrc, pipes, ctxDone, outcome, crashes,
                   live, zero>>

\* The process exits by itself, with code 0 or another.
ClientExits(c) ==
    /\ client[c] = "alive"
    /\ \E code \in {"zero", "nonzero"} :
          /\ client' = [client EXCEPT ![c] = code]
          /\ zero' = [zero EXCEPT ![c] = (code = "zero")]
    /\ UNCHANGED <<pc, holder, cmdCtx, netrc, pipes, waitErr, ctxDone,
                   outcome, crashes, live>>

\* It starts a process of its own that inherits stdout or stderr.
ClientForks(c) ==
    /\ MayInherit
    /\ client[c] = "alive"
    /\ pipes' = [pipes EXCEPT ![c] = TRUE]
    /\ UNCHANGED <<pc, holder, cmdCtx, netrc, client, waitErr, ctxDone,
                   outcome, crashes, live, zero>>

\* Mutant: the command does not follow the deadline.
KillOnCancelOnly(c) ==
    /\ pc[c] = "running"
    /\ cmdCtx[c] = "canceled"
    /\ waitErr[c] # "killed"
    /\ client' = [client EXCEPT ![c] = IF @ = "alive" THEN "killed" ELSE @]
    /\ waitErr' = [waitErr EXCEPT ![c] = "killed"]
    /\ UNCHANGED <<pc, holder, cmdCtx, netrc, pipes, ctxDone, outcome,
                   crashes, live, zero>>

\* os/exec kills the process when cmdCtx is done.  If it has exited already
\* but is not reaped the signal still succeeds, and Wait reports the
\* context's error for a process that exited with code 0.
KillClient(c) ==
    /\ pc[c] = "running"
    /\ cmdCtx[c] \in {"canceled", "deadline"}
    /\ waitErr[c] # "killed"
    /\ client' = [client EXCEPT ![c] = IF @ = "alive" THEN "killed" ELSE @]
    /\ waitErr' = [waitErr EXCEPT ![c] = "killed"]
    /\ UNCHANGED <<pc, holder, cmdCtx, netrc, pipes, ctxDone, outcome,
                   crashes, live, zero>>

\* Process.Wait: a process that did not succeed is an ExitError, which
\* prevails over the error of the context.
Reap(c) ==
    /\ Goto(c, "running", "reaped")
    /\ client[c] # "alive"
    /\ waitErr' = [waitErr EXCEPT ![c] =
                      IF client[c] \in {"nonzero", "killed"} THEN "exit"
                      ELSE IF @ = "killed" THEN "other" ELSE "nil"]
    /\ client' = [client EXCEPT ![c] = "none"]
    /\ UNCHANGED <<holder, cmdCtx, netrc, pipes, ctxDone, outcome, crashes,
                   live, zero>>

\* cmd.Run returns when the goroutines copying stdout and stderr are done.
PipesClosed(c) ==
    /\ Goto(c, "reaped", "classify")
    /\ ~pipes[c]
    /\ UNCHANGED <<run, ctxDone, outcome, crashes, live, zero>>

\* The process that held the pipes ends, if ever.
DescendantEnds(c) ==
    /\ pipes[c]
    /\ pipes' = [pipes EXCEPT ![c] = FALSE]
    /\ UNCHANGED <<pc, holder, cmdCtx, netrc, client, waitErr, ctxDone,
                   outcome, crashes, live, zero>>

-----------------------------------------------------------------------------
(* After the process.                                                      *)

\* Mutant: a deadline that passed is the only error looked at.
ForgiveExit(err, reason) ==
    IF reason = "deadline" THEN "goerr"
    ELSE IF err = "other" THEN "goerr" ELSE "ok"

\* Mutant: the error of cmd.Run is returned as it is.
ClassifiedAsIs(err, reason) == IF err = "nil" THEN "ok" ELSE err

\* The error cmd.Run returned, and whether the deadline had passed by then.
Classified(err, reason) ==
    IF err = "nil" THEN "ok"
    ELSE IF reason = "deadline" THEN "goerr"       \* "sync timed out"
    ELSE IF err = "exit" THEN "exit"
    ELSE "goerr"

Classify(c) ==
    /\ Goto(c, "classify", "cleanup")
    /\ Returns(c, Classified(waitErr[c], cmdCtx[c]))
    /\ UNCHANGED <<run, ctxDone, crashes, live, zero>>

\* Deferred: cancel, then cleanup, whose failure is only a warning.
Cleanup(c) ==
    /\ Goto(c, "cleanup", "unlock")
    /\ \E left \in {"none", "abandoned"} : netrc' = [netrc EXCEPT ![c] = left]
    /\ cmdCtx' = [cmdCtx EXCEPT ![c] = "none"]
    /\ UNCHANGED <<holder, client, pipes, waitErr, ctxDone, outcome, crashes,
                   live, zero>>

Unlock(c) ==
    /\ Goto(c, "unlock", "idle")
    /\ holder' = NoCaller
    /\ UNCHANGED <<cmdCtx, netrc, client, pipes, waitErr, ctxDone, outcome,
                   crashes, live, zero>>

-----------------------------------------------------------------------------
(* The surroundings.                                                       *)

\* The timer of cmdCtx; nothing happens when it is done already.
Deadline(c) ==
    /\ cmdCtx[c] = "live"
    /\ cmdCtx' = [cmdCtx EXCEPT ![c] = "deadline"]
    /\ UNCHANGED <<pc, holder, netrc, client, pipes, waitErr, ctxDone,
                   outcome, crashes, live, zero>>

\* SIGTERM or SIGINT cancels the callers' context and those made from it.
Cancel ==
    /\ ~ctxDone
    /\ ctxDone' = TRUE
    /\ cmdCtx' = [c \in Callers |->
                     IF cmdCtx[c] = "live" THEN "canceled" ELSE cmdCtx[c]]
    /\ UNCHANGED <<pc, holder, netrc, client, pipes, waitErr, outcome,
                   crashes, live, zero>>

\* The daemon is killed and started again.  No deferred call runs; a netrc
\* directory stays, and the processes fare as orphans says.
CrashWith(orphans) ==
    /\ crashes < MaxCrashes
    /\ crashes' = crashes + 1
    /\ pc' = [c \in Callers |-> "idle"]
    /\ holder' = NoCaller
    /\ ctxDone' = FALSE
    /\ cmdCtx' = [c \in Callers |-> "none"]
    /\ netrc' = [c \in Callers |->
                    IF netrc[c] = "present" THEN "abandoned" ELSE netrc[c]]
    /\ client' = orphans
    /\ pipes' = [c \in Callers |-> FALSE]
    /\ waitErr' = [c \in Callers |-> "nil"]
    /\ outcome' = [c \in Callers |-> "none"]
    /\ live' = [c \in Callers |-> TRUE]
    /\ zero' = [c \in Callers |-> FALSE]

\* Mutant: no Pdeathsig, a client outlives its daemon.
CrashLeavingClient == CrashWith(client)

\* Pdeathsig: the kernel kills the client with the daemon.
Crash == CrashWith([c \in Callers |-> "none"])

Step(c) ==
    \/ FailPassword(c) \/ ResolvePassword(c)
    \/ FailNetrc(c) \/ WriteNetrc(c)
    \/ FailStart(c) \/ StartClient(c)
    \/ KillClient(c) \/ Reap(c) \/ PipesClosed(c)
    \/ Classify(c) \/ Cleanup(c) \/ Unlock(c)

ProcessStep(c) == ClientExits(c) \/ ClientForks(c) \/ DescendantEnds(c)

Next ==
    \/ \E c \in Callers :
          Call(c) \/ Lock(c) \/ Step(c) \/ ProcessStep(c) \/ Deadline(c)
    \/ Cancel
    \/ Crash

Spec == Init /\ [][Next]_vars

\* Go runs every runnable goroutine, hands a mutex to each that waits for it,
\* and fires timers.  Nothing makes the client or its descendants end.
Fairness ==
    \A c \in Callers :
        WF_vars(Step(c)) /\ SF_vars(Lock(c)) /\ WF_vars(Deadline(c))

FairSpec == Spec /\ Fairness

-----------------------------------------------------------------------------
(* Properties.                                                             *)

TypeOK ==
    /\ pc \in [Callers -> Points]
    /\ holder \in Callers \cup {NoCaller}
    /\ ctxDone \in BOOLEAN
    /\ cmdCtx \in [Callers -> {"none", "live", "canceled", "deadline"}]
    /\ netrc \in [Callers -> {"none", "present", "abandoned"}]
    /\ client \in [Callers -> {"none", "alive", "zero", "nonzero", "killed"}]
    /\ pipes \in [Callers -> BOOLEAN]
    /\ waitErr \in [Callers -> {"nil", "exit", "killed", "other"}]
    /\ outcome \in [Callers -> {"none", "ok", "exit", "goerr"}]
    /\ crashes \in 0..MaxCrashes
    /\ live \in [Callers -> BOOLEAN]
    /\ zero \in [Callers -> BOOLEAN]

\* Never two nextcloudcmd processes on the same directory, whoever calls Run
\* and however often the daemon was killed: the mutex serialises the callers
\* of one daemon, Pdeathsig the daemons (executor.go:76-83, issue 27).
OneClient ==
    \A c, d \in Callers :
        client[c] = "alive" /\ client[d] = "alive" => c = d

\* The credentials are on disk for as long as a client may read them, and
\* otherwise only while the Run that wrote them holds the mutex: at most one
\* netrc directory is ever in use.
CredentialsScoped ==
    \A c \in Callers :
        /\ client[c] = "alive" => netrc[c] = "present"
        /\ netrc[c] = "present" => holder = c

\* Whatever the order in which the client exits, the deadline passes, the
\* context is cancelled and the kill arrives, Run reports success only if its
\* client exited with code 0 by itself, and a call made with a cancelled
\* context is a Go error: each caller sees the contract of SyncCall.
Contract(c) ==
    INSTANCE SyncCall WITH
        NoOutcome <- "none",
        busy <- pc[c] # "idle",
        live <- live[c],
        succeeded <- zero[c],
        outcome <- IF pc[c] = "idle" THEN outcome[c] ELSE "none"

ImplementsSyncCall ==
    /\ \A c \in Callers : Contract(c)!Init
    /\ [][\A c \in Callers : [Contract(c)!Next]_(Contract(c)!vars)]_vars

\* Every call of Run returns, however long the client would run, provided that
\* no process it leaves behind holds its pipes for ever.
RunReturns ==
    (\A c \in Callers : []<>~pipes[c]) =>
        \A c \in Callers : pc[c] # "idle" ~> pc[c] = "idle"

\* DESIGN.md:415, "nextcloudcmd times out: Kill process, log warning,
\* continue", also when nextcloudcmd has children of its own
\* (executor.go:82-83).
TimeoutContinues ==
    \A c \in Callers : cmdCtx[c] = "deadline" ~> pc[c] = "idle"
=============================================================================
