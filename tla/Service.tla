------------------------------ MODULE Service ------------------------------
(***************************************************************************)
(* The daemon as a service: --init-enable and --init-disable of            *)
(* internal/svcinit/svcinit.go, the unit they install, the processes that  *)
(* main.go's run is started as, by systemd or by hand, and the lock file   *)
(* that is to keep two daemons from running.  The administrator, systemd   *)
(* and its systemctl are external.                                         *)
(***************************************************************************)
EXTENDS Naturals

CONSTANTS
    Manual,         \* processes started by hand
    Strangers,      \* those of them that another user starts
    unitProcess,    \* the process systemd starts
    NoProcess

ServiceAssumption ==
    /\ unitProcess \notin Manual /\ Strangers \subseteq Manual
    /\ NoProcess \notin Manual \cup {unitProcess}

VARIABLES
    scope,          \* who ran --init-enable: root or a user
    config,         \* the configuration file
    unit,           \* what is at the managed path
    enabled,        \* systemd starts the unit at boot
    wanted,         \* systemd is to keep the service up
    tool,           \* control point of --init-enable or --init-disable
    unitExists,     \* Disable: the unit was there when it looked
    warned,         \* Disable: systemctl disable failed
    said,           \* how the last of them ended, if nothing changed since
    proc,           \* per process: what it is at
    lock,           \* per directory for temporary files: who has the flock
    lockFile        \* whose the file is in the shared one

toolVars == <<tool, unitExists, warned, said>>
systemd == <<enabled, wanted>>
locks == <<lock, lockFile>>
vars == <<scope, config, unit, systemd, toolVars, proc, locks>>

Processes == Manual \cup {unitProcess}

\* "unfit" passes Load and Validate, and the daemon refuses it: no event
\* source, or no nextcloudcmd.
Configs == {"fit", "unfit", "invalid"}

\* "torn" has been created and does not hold the marker; "other" was
\* written by someone else.
Units == {"none", "torn", "ours", "other"}

\* "due" waits for RestartSec.  "once" runs a single sync.
Activities == {"off", "due", "loading", "once", "running"}

\* PrivateTmp=yes gives the process of a system-scope unit a /tmp of its own.
TempDirs == {"shared", "private"}
PrivateTmp == scope = "system"
\* Nobody has set TMPDIR, which os.TempDir would go by.
TempDir(p) == IF p = unitProcess /\ PrivateTmp THEN "private" ELSE "shared"

\* The lock file stays, mode 0644, when a daemon ends.
Owners == {"nobody", "own", "stranger"}
Owner(p) == IF p \in Strangers THEN "stranger" ELSE "own"

\* Only root opens the file of another user, and a stranger may be root; a
\* private /tmp has no such file.
Barred(p) == scope = "user" /\ Owner(p) = "own" /\ lockFile = "stranger"

Init ==
    /\ scope \in {"system", "user"}
    /\ config \in Configs
    /\ unit \in {"none", "other"}
    /\ enabled = FALSE
    /\ wanted = FALSE
    /\ tool = "idle"
    /\ unitExists = FALSE
    /\ warned = FALSE
    /\ said = "nothing"
    /\ proc = [p \in Processes |-> "off"]
    /\ lock = [t \in TempDirs |-> NoProcess]
    /\ lockFile \in Owners

Finish(words) ==
    /\ tool' = "idle"
    /\ said' = words
    /\ UNCHANGED <<unitExists, warned>>

\* One step of the tool that goes on to the next, or fails.
GoTo(next) ==
    /\ tool' = next
    /\ said' = "nothing"
    /\ UNCHANGED <<unitExists, warned>>

-----------------------------------------------------------------------------
(* --init-enable.                                                          *)

\* Load and Validate, then Stat.
RunEnable ==
    /\ tool = "idle"
    /\ IF config # "invalid" /\ unit = "none"
       THEN GoTo("create")
       ELSE Finish("failed")
    /\ UNCHANGED <<scope, config, unit, systemd, proc, locks>>

\* Mutant: without O_EXCL.
CreateOver ==
    /\ tool = "create"
    /\ unit' = "torn"
    /\ GoTo("write")
    /\ UNCHANGED <<scope, config, systemd, proc, locks>>

\* O_EXCL: whoever created the file since the Stat keeps it.
Create ==
    /\ tool = "create"
    /\ \/ unit = "none" /\ unit' = "torn" /\ GoTo("write")
       \/ unit' = unit /\ Finish("failed")
    /\ UNCHANGED <<scope, config, systemd, proc, locks>>

\* A disk that is full or fails leaves what was written.
Write ==
    /\ tool = "write"
    /\ unit' \in IF unit = "torn" THEN {"torn", "ours"} ELSE {unit}
    /\ \/ unit' # "torn" /\ GoTo("reload")
       \/ Finish("failed")
    /\ UNCHANGED <<scope, config, systemd, proc, locks>>

Reload ==
    /\ tool = "reload"
    /\ GoTo("start") \/ Finish("failed")
    /\ UNCHANGED <<scope, config, unit, systemd, proc, locks>>

\* systemctl enable --now; it may fail before anything, or after enabling.
StartUnit ==
    /\ tool = "start"
    /\ \/ /\ unit \in {"ours", "other"}
          /\ enabled' = TRUE
          /\ wanted' = TRUE
          /\ proc' = IF proc[unitProcess] \in {"off", "due"}
                     THEN [proc EXCEPT ![unitProcess] = "loading"] ELSE proc
          /\ GoTo("starting")
       \/ /\ enabled' \in {enabled, enabled \/ unit \in {"ours", "other"}}
          /\ UNCHANGED <<wanted, proc>>
          /\ Finish("failed")
    /\ UNCHANGED <<scope, config, unit, locks>>

\* Type=notify: systemctl waits for READY=1 or for the process to fail.
AwaitReady ==
    /\ tool = "starting"
    /\ proc[unitProcess] # "loading"
    /\ Finish(IF proc[unitProcess] = "running" THEN "enabled" ELSE "failed")
    /\ UNCHANGED <<scope, config, unit, systemd, proc, locks>>

-----------------------------------------------------------------------------
(* --init-disable.                                                         *)

\* The marker tells whether the unit is its own.
RunDisable ==
    /\ tool = "idle"
    /\ IF unit \in {"none", "ours"}
       THEN /\ tool' = "stop"
            /\ unitExists' = (unit = "ours")
            /\ warned' = FALSE
            /\ said' = "nothing"
       ELSE Finish("failed")
    /\ UNCHANGED <<scope, config, unit, systemd, proc, locks>>

Unlock(p) == [t \in TempDirs |-> IF lock[t] = p THEN NoProcess ELSE lock[t]]

\* Mutant: systemctl disable without --now.
StopUnitLater ==
    /\ tool = "stop"
    /\ enabled' = FALSE
    /\ tool' = "remove"
    /\ UNCHANGED <<scope, config, unit, wanted, unitExists, warned, said,
                   proc, locks>>

\* systemctl disable --now; its failure is a warning.
StopUnit ==
    /\ tool = "stop"
    /\ \/ /\ enabled' = FALSE
          /\ wanted' = FALSE
          /\ proc' = [proc EXCEPT ![unitProcess] = "off"]
          /\ lock' = Unlock(unitProcess)
          /\ UNCHANGED warned
       \/ /\ warned' = TRUE
          /\ UNCHANGED <<systemd, proc, lock>>
    /\ tool' = "remove"
    /\ UNCHANGED <<scope, config, unit, unitExists, said, lockFile>>

\* The file is not looked at again.
Remove ==
    /\ tool = "remove"
    /\ \/ unitExists /\ unit # "none" /\ unit' = "none" /\ GoTo("forget")
       \/ ~unitExists /\ unit' = unit /\ GoTo("forget")
       \/ unitExists /\ unit' = unit /\ Finish("failed")
    /\ UNCHANGED <<scope, config, systemd, proc, locks>>

\* daemon-reload.
Forget ==
    /\ tool = "forget"
    /\ Finish("disabled") \/ Finish("failed")
    /\ UNCHANGED <<scope, config, unit, systemd, proc, locks>>

Interrupt ==
    /\ tool # "idle"
    /\ Finish("failed")
    /\ UNCHANGED <<scope, config, unit, systemd, proc, locks>>

-----------------------------------------------------------------------------
(* run() as a daemon or with --once.                                       *)

Launch(p) ==
    /\ p \in Manual
    /\ proc[p] = "off"
    /\ proc' = [proc EXCEPT ![p] = "loading"]
    /\ UNCHANGED <<scope, config, unit, systemd, toolVars, locks>>

\* Exit code 1: systemd restarts the service, Restart=on-failure.
AfterFailure(p) == IF p = unitProcess /\ wanted THEN "due" ELSE "off"

Reject(p) ==
    /\ proc[p] = "loading"
    /\ config # "fit"
    /\ proc' = [proc EXCEPT ![p] = AfterFailure(p)]
    /\ UNCHANGED <<scope, config, unit, systemd, toolVars, locks>>

\* --once takes no lock and needs no event source.
Once(p) ==
    /\ p \in Manual
    /\ proc[p] = "loading"
    /\ config # "invalid"
    /\ proc' = [proc EXCEPT ![p] = "once"]
    /\ UNCHANGED <<scope, config, unit, systemd, toolVars, locks>>

\* The file cannot be opened or made: another user's, or a /tmp that is full
\* or read-only.
OpenFails(p) ==
    /\ proc[p] = "loading"
    /\ config = "fit"
    /\ proc' = [proc EXCEPT ![p] = AfterFailure(p)]
    /\ UNCHANGED <<scope, config, unit, systemd, toolVars, locks>>

Opens(p) == proc[p] = "loading" /\ config = "fit" /\ ~Barred(p)

\* Mutant: a daemon that finds the lock taken ends as if all were well.
YieldLock(p) ==
    /\ Opens(p)
    /\ lock[TempDir(p)] # NoProcess
    /\ proc' = [proc EXCEPT ![p] = "off"]
    /\ UNCHANGED <<scope, config, unit, systemd, toolVars, locks>>

LockTaken(p) ==
    /\ Opens(p)
    /\ lock[TempDir(p)] # NoProcess
    /\ proc' = [proc EXCEPT ![p] = AfterFailure(p)]
    /\ UNCHANGED <<scope, config, unit, systemd, toolVars, locks>>

\* O_CREATE.
MakeLockFile(p) ==
    lockFile' = IF lockFile = "nobody" /\ TempDir(p) = "shared"
                THEN Owner(p) ELSE lockFile

\* Mutant: the lock file is named after the process.
TakeOwnLock(p) ==
    /\ Opens(p)
    /\ proc' = [proc EXCEPT ![p] = "running"]
    /\ lock' = [lock EXCEPT ![TempDir(p)] = p]
    /\ MakeLockFile(p)
    /\ UNCHANGED <<scope, config, unit, systemd, toolVars>>

TakeLock(p) ==
    /\ Opens(p)
    /\ lock[TempDir(p)] = NoProcess
    /\ proc' = [proc EXCEPT ![p] = "running"]
    /\ lock' = [lock EXCEPT ![TempDir(p)] = p]
    /\ MakeLockFile(p)
    /\ UNCHANGED <<scope, config, unit, systemd, toolVars>>

\* A process started by hand is done, or stopped.
Exit(p) ==
    /\ p \in Manual
    /\ proc[p] \in {"once", "running"}
    /\ proc' = [proc EXCEPT ![p] = "off"]
    /\ lock' = Unlock(p)
    /\ UNCHANGED <<scope, config, unit, systemd, toolVars, lockFile>>

\* The kernel releases the lock of a process that dies.
Crash(p) ==
    /\ proc[p] \in {"once", "running"}
    /\ proc' = [proc EXCEPT ![p] = AfterFailure(p)]
    /\ lock' = Unlock(p)
    /\ UNCHANGED <<scope, config, unit, systemd, toolVars, lockFile>>

-----------------------------------------------------------------------------
(* systemd and the administrator.                                          *)

Restart ==
    /\ proc[unitProcess] = "due"
    /\ proc' = [proc EXCEPT ![unitProcess] = "loading"]
    /\ UNCHANGED <<scope, config, unit, systemd, toolVars, locks>>

Boot ==
    /\ wanted' = (enabled /\ unit \in {"ours", "other"})
    /\ proc' = [p \in Processes |->
                   IF p = unitProcess /\ wanted' THEN "loading" ELSE "off"]
    /\ lock' = [t \in TempDirs |-> NoProcess]
    /\ lockFile' \in {lockFile, "nobody"}
    /\ tool' = "idle"
    /\ said' = "nothing"
    /\ UNCHANGED <<scope, config, unit, enabled, unitExists, warned>>

EditConfig ==
    /\ config' \in Configs \ {config}
    /\ UNCHANGED <<scope, unit, systemd, toolVars, proc, locks>>

WriteOther ==
    /\ unit # "other"
    /\ unit' = "other"
    /\ said' = "nothing"
    /\ UNCHANGED <<scope, config, systemd, tool, unitExists, warned, proc, locks>>

RemoveOther ==
    /\ unit \in {"torn", "other"}
    /\ unit' = "none"
    /\ said' = "nothing"
    /\ UNCHANGED <<scope, config, systemd, tool, unitExists, warned, proc, locks>>

\* Nobody removes the file of a daemon that runs.
RemoveLockFile ==
    /\ lockFile # "nobody"
    /\ lock["shared"] = NoProcess
    /\ lockFile' = "nobody"
    /\ UNCHANGED <<scope, config, unit, systemd, toolVars, proc, lock>>

Tool ==
    \/ RunEnable \/ Create \/ Write \/ Reload \/ StartUnit \/ AwaitReady
    \/ RunDisable \/ StopUnit \/ Remove \/ Forget
    \/ Interrupt

Step(p) == Reject(p) \/ OpenFails(p) \/ LockTaken(p) \/ TakeLock(p)

Administrator == EditConfig \/ WriteOther \/ RemoveOther \/ RemoveLockFile

Next ==
    \/ Tool
    \/ \E p \in Processes :
          Launch(p) \/ Step(p) \/ Once(p) \/ Exit(p) \/ Crash(p)
    \/ Restart \/ Boot
    \/ Administrator

Spec == Init /\ [][Next]_vars

\* systemd restarts what failed, and a process goes on to its lock.
Fairness ==
    /\ WF_vars(Restart)
    /\ WF_vars(Step(unitProcess))

FairSpec == Spec /\ Fairness

-----------------------------------------------------------------------------
(* Properties.                                                             *)

TypeOK ==
    /\ scope \in {"system", "user"}
    /\ config \in Configs
    /\ unit \in Units
    /\ enabled \in BOOLEAN
    /\ wanted \in BOOLEAN
    /\ tool \in {"idle", "create", "write", "reload", "start", "starting",
                 "stop", "remove", "forget"}
    /\ unitExists \in BOOLEAN
    /\ warned \in BOOLEAN
    /\ said \in {"nothing", "enabled", "disabled", "failed"}
    /\ proc \in [Processes -> Activities]
    /\ lock \in [TempDirs -> Processes \cup {NoProcess}]
    /\ lockFile \in Owners

\* main.go:182, no two daemons at a time, however they were started, through
\* crashes, restarts and reboots; but for the process of a system-scope unit,
\* whose lock file is in a /tmp of its own.
OneDaemon ==
    \A p, q \in Processes :
        proc[p] = "running" /\ proc[q] = "running" /\ p # q
        => PrivateTmp /\ unitProcess \in {p, q}

\* svcinit.go:7, units at the path that the tool did not write stay, however
\* the steps of the tool and of the other writer fall; only a unit that took
\* the place of the tool's own while --init-disable ran goes with it.
ForeignUntouched ==
    [][unit = "other" /\ unit' # "other" =>
          RemoveOther \/ (Remove /\ unitExists)]_vars

\* svcinit.go:168, "a half-removed state converges": after an --init-disable
\* that ended without an error or a warning there is no unit of the tool's,
\* nothing is enabled and no service runs or is due, whatever was interrupted
\* before.
DisableConverges ==
    said = "disabled" /\ ~warned =>
        /\ unit # "ours"
        /\ ~enabled
        /\ proc[unitProcess] = "off"

\* A service that finds the lock taken by a daemon started by hand, the lock
\* file beyond its reach, or the configuration broken, tries again until it
\* runs.  While the file is another user's, whose daemon may have ended long
\* ago, it never does (main.go:187): from some time on, the opening must
\* succeed, whatever the lock.
TakesOver ==
    /\ <>[](wanted /\ config = "fit")
    /\ <>[](\A p \in Manual : proc[p] # "running")
    /\ <>[][~(OpenFails(unitProcess) /\ lock[TempDir(unitProcess)] = NoProcess)]_vars
    /\ <>[][~Crash(unitProcess) /\ ~Boot]_vars
    => <>[](proc[unitProcess] = "running")
=============================================================================
