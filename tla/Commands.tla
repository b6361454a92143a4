------------------------------ MODULE Commands ------------------------------
(***************************************************************************)
(* What one run of the program can be but the daemon's own loop: run() of  *)
(* main.go goes by its flags to the login flow (AppAuth), to the service   *)
(* and its processes (Service), or to the configuration (ConfigFile); and  *)
(* a sync that failed is reported (FailureParse).  A behaviour is of one   *)
(* of these; the others stay as they begin.                                *)
(***************************************************************************)
EXTENDS Integers, ConfigFile

CONSTANTS
    Validity, Every, Patience, Lag,                          \* AppAuth
    Manual, Strangers, unitProcess, NoProcess,               \* Service
    Items, Messages, Pathlike, Telling, Control, Long, MaxLines, \* FailureParse
    Files,          \* contents of the configuration file
    Least,          \* the one with nothing but what is required
    Places          \* values of the flag and the environment variable

VARIABLES
    mode,
    phase, ctxDone, age, nextTick, tick, answer, waited, grant, stray,
    approvedAt, lost,
    scope, config, unit, enabled, wanted, tool, unitExists, warned, said,
    proc, lock, lockFile,
    wording, output, cause,
    file,           \* what is in the configuration file
    found,          \* where it is
    loaded          \* what Load made of it

A == INSTANCE AppAuth
S == INSTANCE Service
F == INSTANCE FailureParse

ASSUME CommandsAssumption ==
    /\ A!AppAuthAssumption
    /\ S!ServiceAssumption
    /\ F!FailureParseAssumption
    /\ Files \subseteq Settings
    /\ Least \in Settings /\ OnlyRequired(Least)

configVars == <<file, found, loaded>>
loginVars == <<phase, ctxDone, age, nextTick, tick, answer, waited, grant,
               stray, approvedAt, lost>>
serviceVars == <<scope, config, unit, enabled, wanted, tool, unitExists,
                 warned, said, proc, lock, lockFile>>
reportVars == <<wording, output, cause>>
vars == <<mode, loginVars, serviceVars, reportVars, configVars>>

\* The flags --get-app-password, --init-enable or --init-disable (or none, or
\* --once), and --validate; "report" is the end of a failed sync.
Modes == {"get-app-password", "service", "validate", "report"}

Unknown == "unknown"

Init ==
    /\ mode \in Modes
    /\ A!Init
    /\ S!Init /\ (mode # "service" =>
                     scope = "user" /\ config = "fit" /\ unit = "none"
                     /\ lockFile = "nobody")
    /\ F!Init /\ (mode # "report" => wording = "bare")
    /\ file = Least
    /\ found = Unknown
    /\ loaded = Load(Least)

\* The program may be started in any environment.
Find ==
    /\ found = Unknown
    /\ \E flag, env \in Places, there \in SUBSET {"/etc", "~/.config"} :
          found' = FindConfigPath(flag, env, there)
    /\ UNCHANGED <<file, loaded>>

Read ==
    /\ found \notin {Unknown, NoFile}
    /\ file = Least
    /\ \E content \in Files : file' = content /\ loaded' = Load(content)
    /\ UNCHANGED found

Next ==
    \/ mode = "get-app-password" /\ A!Next
       /\ UNCHANGED <<mode, serviceVars, reportVars, configVars>>
    \/ mode = "service" /\ S!Next
       /\ UNCHANGED <<mode, loginVars, reportVars, configVars>>
    \/ mode = "validate" /\ (Find \/ Read)
       /\ UNCHANGED <<mode, loginVars, serviceVars, reportVars>>
    \/ mode = "report" /\ F!Next
       /\ UNCHANGED <<mode, loginVars, serviceVars, configVars>>

Spec == Init /\ [][Next]_vars

\* The fairness of AppAuth and of Service, each where it runs.
Fairness ==
    /\ WF_loginVars(mode = "get-app-password" /\ A!Command)
    /\ WF_loginVars(mode = "get-app-password" /\ (A!Hear \/ A!Fail))
    /\ WF_loginVars(mode = "get-app-password" /\ A!Tick)
    /\ WF_serviceVars(mode = "service" /\ S!Restart)
    /\ WF_serviceVars(mode = "service" /\ S!Step(unitProcess))

FairSpec == Spec /\ Fairness

-----------------------------------------------------------------------------
(* Properties.                                                             *)

TypeOK ==
    /\ mode \in Modes
    /\ A!TypeOK
    /\ S!TypeOK
    /\ wording \in {"propagator", "bare"} /\ Len(output) <= MaxLines
    /\ cause \in 0 .. Len(output)
    /\ found \in {Unknown, NoFile, "/etc", "~/.config"} \cup Places

\* AppAuth: who approves in time gets the password, and the command ends.
ApprovalPrinted == mode = "get-app-password" => A!ApprovalPrinted

\* Service: no two daemons at a time, but for a private /tmp.
OneDaemon == S!OneDaemon

\* Service: what the tool did not write it leaves alone.
ForeignUntouched == S!ForeignUntouched

\* Service: a half-removed state converges.
DisableConverges == S!DisableConverges

\* Service: the service runs once the lock is free and the file is right.
TakesOver == mode = "service" => S!TakesOver

\* FailureParse: the item blamed for a failed sync is the one that failed.
BlamesCause == F!BlamesCause

\* A configuration that is accepted is one the rest of the program can run
\* with, whatever was left out of the file: no ticker of zero or less, which
\* panics, a cooldown that covers the debounce window and a backoff that can
\* grow (the assumptions of SyncDaemon and NotifyPush), one password, and no
\* webhook or peer without a secret.  Written out and loaded again it is the
\* same, and a file with nothing but what is required is accepted.
AcceptedRuns ==
    LET c == loaded.config
    IN  /\ loaded.accepted =>
              /\ c.timeout > 0 /\ c.interval > 0
              /\ 0 < c.debounce /\ c.debounce <= c.cooldown
              /\ 0 < c.reconnect /\ c.reconnect <= c.reconnectMax
              /\ ResolvePassword(c, "read") =
                    IF c.passwordFile # Unset THEN "read" ELSE c.password
              /\ c.passwordFile # Unset \/ c.password # Unset
              /\ \A p \in c.peers : p.secret # Unset
              /\ c.webhook => c.secret # Unset
              /\ Load(c) = loaded
        /\ file = Least => loaded.accepted
=============================================================================
