--------------------------- MODULE ExecutorProofs ---------------------------
(***************************************************************************)
(* Proofs about Executor: for any number of callers and of crashes, with   *)
(* or without descendants that hold the pipes.                             *)
(***************************************************************************)
EXTENDS Executor, TLAPS

\* Control points at which the caller holds the mutex, and those at which the
\* command's context and the netrc directory exist.
Inside == Points \ {"idle", "lock"}
WithNetrc == {"start", "running", "reaped", "classify", "cleanup"}

\* The mutex, the netrc directory and the process follow the program counter.
Scopes ==
    \A c \in Callers :
        /\ pc[c] \in Inside <=> holder = c
        /\ netrc[c] = "present" <=> pc[c] \in WithNetrc
        /\ client[c] # "none" => pc[c] = "running"

\* What Run already knows, at each control point, of the result it will return.
Verdicts ==
    \A c \in Callers :
        /\ pc[c] \in {"lock", "password", "netrc", "start"} => ~zero[c]
        /\ pc[c] # "idle" /\ ~live[c] => ctxDone
        /\ pc[c] \in {"running", "reaped"} => live[c]
        /\ pc[c] \in WithNetrc => cmdCtx[c] # "none"
        /\ pc[c] \in WithNetrc /\ ~live[c] => cmdCtx[c] = "canceled"
        /\ client[c] = "alive" => ~zero[c]
        /\ client[c] = "zero" => zero[c]
        /\ pc[c] = "running" => client[c] # "none"
        /\ pc[c] \in {"reaped", "classify"} /\ waitErr[c] = "nil" => zero[c]
        /\ pc[c] = "classify" /\ ~live[c] => waitErr[c] = "other"
        /\ pc[c] \in {"cleanup", "unlock"} =>
              /\ outcome[c] \in {"ok", "exit", "goerr"}
              /\ ~live[c] => outcome[c] = "goerr"
              /\ outcome[c] = "ok" => zero[c]

IInv == TypeOK /\ Scopes /\ Verdicts
-----------------------------------------------------------------------------
\* Every step of Run, of the process and of the surroundings keeps the types.
LEMMA TypeStep ==
    ASSUME TypeOK, [Next]_vars
    PROVE  TypeOK'
<1> USE ExecutorAssumption DEF TypeOK, Points, run
<1>1. ASSUME NEW c \in Callers, Call(c) PROVE TypeOK'
  BY <1>1 DEF Call, Goto
<1>2. ASSUME NEW c \in Callers, Lock(c) PROVE TypeOK'
  BY <1>2 DEF Lock, Goto
<1>3. ASSUME NEW c \in Callers, FailPassword(c) PROVE TypeOK'
  BY <1>3 DEF FailPassword, Goto, Returns
<1>4. ASSUME NEW c \in Callers, ResolvePassword(c) PROVE TypeOK'
  BY <1>4 DEF ResolvePassword, Goto
<1>5. ASSUME NEW c \in Callers, FailNetrc(c) PROVE TypeOK'
  BY <1>5 DEF FailNetrc, Goto, Returns
<1>6. ASSUME NEW c \in Callers, WriteNetrc(c) PROVE TypeOK'
  BY <1>6 DEF WriteNetrc, Goto
<1>7. ASSUME NEW c \in Callers, FailStart(c) PROVE TypeOK'
  BY <1>7 DEF FailStart, Goto
<1>8. ASSUME NEW c \in Callers, StartClient(c) PROVE TypeOK'
  BY <1>8 DEF StartClient, Goto
<1>9. ASSUME NEW c \in Callers, KillClient(c) PROVE TypeOK'
  BY <1>9 DEF KillClient
<1>10. ASSUME NEW c \in Callers, Reap(c) PROVE TypeOK'
  BY <1>10 DEF Reap, Goto
<1>11. ASSUME NEW c \in Callers, PipesClosed(c) PROVE TypeOK'
  BY <1>11 DEF PipesClosed, Goto
<1>12. ASSUME NEW c \in Callers, Classify(c) PROVE TypeOK'
  BY <1>12 DEF Classify, Goto, Returns, Classified
<1>13. ASSUME NEW c \in Callers, Cleanup(c) PROVE TypeOK'
  BY <1>13 DEF Cleanup, Goto
<1>14. ASSUME NEW c \in Callers, Unlock(c) PROVE TypeOK'
  BY <1>14 DEF Unlock, Goto
<1>15. ASSUME NEW c \in Callers, ClientExits(c) PROVE TypeOK'
  BY <1>15 DEF ClientExits
<1>16. ASSUME NEW c \in Callers, ClientForks(c) PROVE TypeOK'
  BY <1>16 DEF ClientForks
<1>17. ASSUME NEW c \in Callers, DescendantEnds(c) PROVE TypeOK'
  BY <1>17 DEF DescendantEnds
<1>18. ASSUME NEW c \in Callers, Deadline(c) PROVE TypeOK'
  BY <1>18 DEF Deadline
<1>19. CASE Cancel
  BY <1>19 DEF Cancel
<1>20. CASE Crash
  <2>1. crashes' \in 0..MaxCrashes
    BY <1>20 DEF Crash, CrashWith
  <2> QED
    BY <1>20, <2>1 DEF Crash, CrashWith
<1>21. CASE UNCHANGED vars
  BY <1>21 DEF vars
<1> QED
  BY <1>1, <1>2, <1>3, <1>4, <1>5, <1>6, <1>7, <1>8, <1>9,
     <1>10, <1>11, <1>12, <1>13, <1>14, <1>15, <1>16, <1>17, <1>18, <1>19,
     <1>20, <1>21
  DEF Next, Step, ProcessStep

\* Every step keeps mutex, directory and process where the program counter
\* says they are.
LEMMA ScopesStep ==
    ASSUME TypeOK, Scopes, [Next]_vars
    PROVE  Scopes'
<1> USE ExecutorAssumption DEF TypeOK, Scopes, Points, Inside, WithNetrc, run
<1>1. ASSUME NEW c \in Callers, Call(c) PROVE Scopes'
  BY <1>1 DEF Call, Goto
<1>2. ASSUME NEW c \in Callers, Lock(c) PROVE Scopes'
  BY <1>2 DEF Lock, Goto
<1>3. ASSUME NEW c \in Callers, FailPassword(c) PROVE Scopes'
  BY <1>3 DEF FailPassword, Goto, Returns
<1>4. ASSUME NEW c \in Callers, ResolvePassword(c) PROVE Scopes'
  BY <1>4 DEF ResolvePassword, Goto
<1>5. ASSUME NEW c \in Callers, FailNetrc(c) PROVE Scopes'
  BY <1>5 DEF FailNetrc, Goto, Returns
<1>6. ASSUME NEW c \in Callers, WriteNetrc(c) PROVE Scopes'
  BY <1>6 DEF WriteNetrc, Goto
<1>7. ASSUME NEW c \in Callers, FailStart(c) PROVE Scopes'
  BY <1>7 DEF FailStart, Goto
<1>8. ASSUME NEW c \in Callers, StartClient(c) PROVE Scopes'
  BY <1>8 DEF StartClient, Goto
<1>9. ASSUME NEW c \in Callers, KillClient(c) PROVE Scopes'
  BY <1>9 DEF KillClient
<1>10. ASSUME NEW c \in Callers, Reap(c) PROVE Scopes'
  BY <1>10 DEF Reap, Goto
<1>11. ASSUME NEW c \in Callers, PipesClosed(c) PROVE Scopes'
  BY <1>11 DEF PipesClosed, Goto
<1>12. ASSUME NEW c \in Callers, Classify(c) PROVE Scopes'
  BY <1>12 DEF Classify, Goto, Returns, Classified
<1>13. ASSUME NEW c \in Callers, Cleanup(c) PROVE Scopes'
  BY <1>13 DEF Cleanup, Goto
<1>14. ASSUME NEW c \in Callers, Unlock(c) PROVE Scopes'
  BY <1>14 DEF Unlock, Goto
<1>15. ASSUME NEW c \in Callers, ClientExits(c) PROVE Scopes'
  BY <1>15 DEF ClientExits
<1>16. ASSUME NEW c \in Callers, ClientForks(c) PROVE Scopes'
  BY <1>16 DEF ClientForks
<1>17. ASSUME NEW c \in Callers, DescendantEnds(c) PROVE Scopes'
  BY <1>17 DEF DescendantEnds
<1>18. ASSUME NEW c \in Callers, Deadline(c) PROVE Scopes'
  BY <1>18 DEF Deadline
<1>19. CASE Cancel
  BY <1>19 DEF Cancel
<1>20. CASE Crash
  BY <1>20 DEF Crash, CrashWith
<1>21. CASE UNCHANGED vars
  BY <1>21 DEF vars
<1> QED
  BY <1>1, <1>2, <1>3, <1>4, <1>5, <1>6, <1>7, <1>8, <1>9,
     <1>10, <1>11, <1>12, <1>13, <1>14, <1>15, <1>16, <1>17, <1>18, <1>19,
     <1>20, <1>21
  DEF Next, Step, ProcessStep

\* Call records whether the context was live.
LEMMA CallIsLive ==
    ASSUME NEW c \in Callers, live \in [Callers -> BOOLEAN], Call(c)
    PROVE  ~live'[c] => ctxDone
<1>1. live'[c] = ~ctxDone
  BY Zenon DEF Call
<1> QED
  BY <1>1, Zenon

\* Every step keeps what Run knows of its result.
LEMMA VerdictsStep ==
    ASSUME TypeOK, Scopes, Verdicts, [Next]_vars
    PROVE  Verdicts'
<1> USE ExecutorAssumption DEF TypeOK, Scopes, Verdicts, Points, Inside, WithNetrc, run
<1>1. ASSUME NEW c \in Callers, Call(c) PROVE Verdicts'
  <2>1. pc[c] = "idle" /\ pc'[c] = "lock" /\ zero'[c] = FALSE
    BY <1>1 DEF Call, Goto
  <2>2. UNCHANGED <<ctxDone, cmdCtx, client, waitErr, outcome>>
    BY <1>1 DEF Call, run
  <2>3. client[c] = "none"
    BY <2>1
  <2>4. ~live'[c] => ctxDone
    BY <1>1, CallIsLive
  <2>5. ASSUME NEW d \in Callers, d # c
        PROVE  /\ pc'[d] = pc[d] /\ live'[d] = live[d] /\ zero'[d] = zero[d]
    BY <1>1, <2>5 DEF Call, Goto
  <2> QED
    BY <2>1, <2>2, <2>3, <2>4, <2>5
<1>2. ASSUME NEW c \in Callers, Lock(c) PROVE Verdicts'
  BY <1>2 DEF Lock, Goto
<1>3. ASSUME NEW c \in Callers, FailPassword(c) PROVE Verdicts'
  BY <1>3 DEF FailPassword, Goto, Returns
<1>4. ASSUME NEW c \in Callers, ResolvePassword(c) PROVE Verdicts'
  BY <1>4 DEF ResolvePassword, Goto
<1>5. ASSUME NEW c \in Callers, FailNetrc(c) PROVE Verdicts'
  BY <1>5 DEF FailNetrc, Goto, Returns
<1>6. ASSUME NEW c \in Callers, WriteNetrc(c) PROVE Verdicts'
  BY <1>6 DEF WriteNetrc, Goto
<1>7. ASSUME NEW c \in Callers, FailStart(c) PROVE Verdicts'
  BY <1>7 DEF FailStart, Goto
<1>8. ASSUME NEW c \in Callers, StartClient(c) PROVE Verdicts'
  BY <1>8 DEF StartClient, Goto
<1>9. ASSUME NEW c \in Callers, KillClient(c) PROVE Verdicts'
  BY <1>9 DEF KillClient
<1>10. ASSUME NEW c \in Callers, Reap(c) PROVE Verdicts'
  BY <1>10 DEF Reap, Goto
<1>11. ASSUME NEW c \in Callers, PipesClosed(c) PROVE Verdicts'
  BY <1>11 DEF PipesClosed, Goto
<1>12. ASSUME NEW c \in Callers, Classify(c) PROVE Verdicts'
  BY <1>12 DEF Classify, Goto, Returns, Classified
<1>13. ASSUME NEW c \in Callers, Cleanup(c) PROVE Verdicts'
  BY <1>13 DEF Cleanup, Goto
<1>14. ASSUME NEW c \in Callers, Unlock(c) PROVE Verdicts'
  BY <1>14 DEF Unlock, Goto
<1>15. ASSUME NEW c \in Callers, ClientExits(c) PROVE Verdicts'
  BY <1>15 DEF ClientExits
<1>16. ASSUME NEW c \in Callers, ClientForks(c) PROVE Verdicts'
  BY <1>16 DEF ClientForks
<1>17. ASSUME NEW c \in Callers, DescendantEnds(c) PROVE Verdicts'
  BY <1>17 DEF DescendantEnds
<1>18. ASSUME NEW c \in Callers, Deadline(c) PROVE Verdicts'
  BY <1>18 DEF Deadline
<1>19. CASE Cancel
  BY <1>19 DEF Cancel
<1>20. CASE Crash
  BY <1>20 DEF Crash, CrashWith
<1>21. CASE UNCHANGED vars
  BY <1>21 DEF vars
<1> QED
  BY <1>1, <1>2, <1>3, <1>4, <1>5, <1>6, <1>7, <1>8, <1>9,
     <1>10, <1>11, <1>12, <1>13, <1>14, <1>15, <1>16, <1>17, <1>18, <1>19,
     <1>20, <1>21
  DEF Next, Step, ProcessStep

LEMMA ExecutorIInv == Spec => []IInv
<1>1. Init => IInv
  <2> SUFFICES ASSUME Init PROVE IInv
    OBVIOUS
  <2> USE ExecutorAssumption DEF Init
  <2>1. TypeOK
    <3>1. MaxCrashes \in Nat
      BY DEF ExecutorAssumption
    <3>2. crashes \in 0..MaxCrashes
      BY <3>1
    <3>3. ctxDone \in BOOLEAN
      OBVIOUS
    <3>4. /\ pipes \in [Callers -> BOOLEAN]
          /\ live \in [Callers -> BOOLEAN]
          /\ zero \in [Callers -> BOOLEAN]
      OBVIOUS
    <3> QED
      BY <3>2, <3>3, <3>4 DEF TypeOK, Points
  <2>2. Scopes
    BY DEF Scopes, Points, Inside, WithNetrc
  <2>3. Verdicts
    BY DEF Verdicts, WithNetrc
  <2> QED
    BY <2>1, <2>2, <2>3 DEF IInv
<1>2. IInv /\ [Next]_vars => IInv'
  BY TypeStep, ScopesStep, VerdictsStep DEF IInv
<1> QED
  BY <1>1, <1>2, PTL DEF Spec

-----------------------------------------------------------------------------
\* Every variable keeps the type of what it models (executor.go:35-153).
THEOREM ExecutorTypeOK == Spec => []TypeOK
<1>1. IInv => TypeOK
  BY DEF IInv
<1> QED
  BY <1>1, ExecutorIInv, PTL

\* At most one nextcloudcmd runs, for any number of goroutines that call Run
\* and across any number of kills of the daemon (executor.go:36, 76-87).
THEOREM ExecutorOneClient == Spec => []OneClient
<1>1. IInv => OneClient
  BY DEF IInv, Scopes, OneClient, Inside, Points
<1> QED
  BY <1>1, ExecutorIInv, PTL

\* A client always finds the credentials it was started with, and no netrc
\* directory is in use outside the Run that holds the mutex
\* (executor.go:51-62, 176-204).
THEOREM ExecutorCredentialsScoped == Spec => []CredentialsScoped
<1>1. IInv => CredentialsScoped
  BY DEF IInv, Scopes, CredentialsScoped, Inside, WithNetrc, Points
<1> QED
  BY <1>1, ExecutorIInv, PTL

\* Each caller sees the contract of SyncCall: "ok" only after a client that
\* exited with code 0, a Go error whenever the context was cancelled before
\* the call (executor.go:99-152).
THEOREM ExecutorImplementsSyncCall == Spec => ImplementsSyncCall
<1>1. Init => \A c \in Callers : Contract(c)!Init
  BY DEF Init, Contract!Init
<1>2. ASSUME IInv, [Next]_vars
      PROVE  \A c \in Callers : [Contract(c)!Next]_(Contract(c)!vars)
  <2> SUFFICES ASSUME NEW c \in Callers
               PROVE  [Contract(c)!Next]_(Contract(c)!vars)
    OBVIOUS
  <2> USE <1>2 DEF IInv, TypeOK, Points, Goto, run
  <2>1. ASSUME NEW d \in Callers, d # c,
               Call(d) \/ Lock(d) \/ Step(d) \/ ProcessStep(d) \/ Deadline(d)
        PROVE  UNCHANGED <<pc[c], live[c], zero[c], outcome[c]>>
    BY <2>1 DEF Call, Lock, Step, ProcessStep, Deadline, FailPassword,
       ResolvePassword, FailNetrc, WriteNetrc, FailStart, StartClient,
       KillClient, Reap, PipesClosed, Classify, Cleanup, Unlock, Returns,
       ClientExits, ClientForks, DescendantEnds
  <2>2. ASSUME Lock(c) \/ Deadline(c) \/ ClientForks(c) \/ DescendantEnds(c)
               \/ (Step(c) /\ ~Unlock(c))
        PROVE  /\ UNCHANGED <<live[c], zero[c]>>
               /\ \/ UNCHANGED <<pc[c], outcome[c]>>
                  \/ pc[c] # "idle" /\ pc'[c] # "idle"
    BY <2>2 DEF Lock, Step, Deadline, FailPassword, ResolvePassword,
       FailNetrc, WriteNetrc, FailStart, StartClient, KillClient, Reap,
       PipesClosed, Classify, Cleanup, ClientForks, DescendantEnds
  <2>3. CASE Call(c)
    <3>1. /\ pc[c] = "idle" /\ pc'[c] = "lock"
          /\ zero'[c] = FALSE /\ live'[c] \in BOOLEAN
      BY <2>3 DEF Call
    <3> QED
      BY <3>1 DEF Contract!Next, Contract!Call
  <2>4. CASE ClientExits(c)
    <3>1. /\ pc[c] = "running" /\ pc'[c] = "running" /\ live[c]
          /\ UNCHANGED <<live[c], outcome[c]>>
          /\ \/ zero'[c] = TRUE
             \/ zero'[c] = FALSE /\ zero[c] = FALSE
      BY <2>4 DEF ClientExits, Scopes, Verdicts
    <3> QED
      BY <3>1 DEF Contract!Next, Contract!ClientSucceeds, Contract!vars
  <2>5. CASE Unlock(c)
    <3>1. /\ pc[c] = "unlock" /\ pc'[c] = "idle"
          /\ UNCHANGED <<live[c], zero[c], outcome[c]>>
          /\ outcome[c] \in {"ok", "exit", "goerr"}
          /\ ~live[c] => outcome[c] = "goerr"
          /\ outcome[c] = "ok" => zero[c]
      BY <2>5 DEF Unlock, Verdicts
    <3> QED
      BY <3>1 DEF Contract!Next, Contract!Return
  <2>6. CASE Crash
    <3>1. /\ pc'[c] = "idle" /\ live'[c] = TRUE /\ zero'[c] = FALSE
          /\ outcome'[c] = "none"
      BY <2>6 DEF Crash, CrashWith
    <3> QED
      BY <3>1 DEF Contract!Next, Contract!Die
  <2>7. CASE Cancel \/ UNCHANGED vars
    BY <2>7 DEF Cancel, vars, Contract!vars
  <2>8. ASSUME UNCHANGED <<live[c], zero[c]>>,
               \/ UNCHANGED <<pc[c], outcome[c]>>
               \/ pc[c] # "idle" /\ pc'[c] # "idle"
        PROVE  UNCHANGED Contract(c)!vars
    BY <2>8 DEF Contract!vars
  <2> QED
    BY <2>1, <2>2, <2>3, <2>4, <2>5, <2>6, <2>7, <2>8 DEF Next, ProcessStep, Step
<1>3. Spec => (\A c \in Callers : Contract(c)!Init)
              /\ [][\A c \in Callers : [Contract(c)!Next]_(Contract(c)!vars)]_vars
  BY <1>1, <1>2, ExecutorIInv, PTL DEF Spec
<1> QED
  BY <1>3 DEF ImplementsSyncCall
=============================================================================
