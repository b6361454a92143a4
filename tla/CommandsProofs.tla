--------------------------- MODULE CommandsProofs ---------------------------
(***************************************************************************)
(* Theorems about Commands, for every number of processes, every validity, *)
(* interval and timeout of the login flow and every content of the files.  *)
(***************************************************************************)
EXTENDS Commands, SequenceTheorems, TLAPS

-----------------------------------------------------------------------------
(* A behaviour of Commands is one of Service, of AppAuth and of            *)
(* FailureParse, each of which the others' steps leave alone.              *)

LEMMA ServiceInit == Init => S!Init
BY DEF Init

LEMMA ServiceStep == [Next]_vars => S!Next \/ UNCHANGED serviceVars
BY DEF Next, vars

LEMMA LoginStep == [Next]_vars => A!Next \/ UNCHANGED loginVars
BY DEF Next, vars

LEMMA ReportStep == [Next]_vars => F!Next \/ UNCHANGED reportVars
BY DEF Next, vars

-----------------------------------------------------------------------------
LEMMA LoginTypeOK == Spec => []A!TypeOK
<1> USE CommandsAssumption DEF CommandsAssumption, A!AppAuthAssumption, A!Ended, A!Answers, A!Never
<1>1. Init => A!TypeOK
  <2> SUFFICES ASSUME A!Init PROVE A!TypeOK
    BY DEF Init
  <2>1. /\ age \in 0 .. Validity + 1
        /\ nextTick \in 1..Every
        /\ waited \in 0..Patience
        /\ approvedAt \in A!Never .. Validity + 1
    BY DEF A!Init
  <2> QED
    BY <2>1 DEF A!Init, A!TypeOK
<1>2. A!TypeOK /\ [Next]_vars => A!TypeOK'
  <2> SUFFICES ASSUME A!TypeOK, A!Next \/ UNCHANGED loginVars
               PROVE  A!TypeOK'
    BY LoginStep
  <2> USE DEF A!TypeOK, A!flow
  <2>1. CASE A!Begin
    BY <2>1 DEF A!Begin
  <2>2. CASE A!GiveUp
    BY <2>2 DEF A!GiveUp
  <2>3. CASE A!Expire
    BY <2>3 DEF A!Expire
  <2>4. CASE A!Ask
    <3>1. phase' \in {"waiting", "asking"}
      BY <2>4, Zenon DEF A!Ask
    <3>2. waited' \in 0..Patience
      BY <2>4 DEF A!Ask
    <3> QED
      BY <2>4, <3>1, <3>2 DEF A!Ask
  <2>5. CASE A!Hear
    BY <2>5 DEF A!Hear
  <2>6. CASE A!Fail
    BY <2>6 DEF A!Fail
  <2>7. CASE A!Interrupt
    BY <2>7 DEF A!Interrupt
  <2>8. CASE A!Approve
    BY <2>8 DEF A!Approve
  <2>9. CASE A!Void
    BY <2>9 DEF A!Void
  <2>10. CASE A!Serve
    BY <2>10 DEF A!Serve
  <2>11. CASE A!ServeStray
    BY <2>11 DEF A!ServeStray
  <2>12. CASE A!Tick
    BY <2>12 DEF A!Tick, A!Busy
  <2>13. CASE UNCHANGED loginVars
    BY <2>13 DEF loginVars
  <2> QED
    BY <2>1, <2>2, <2>3, <2>4, <2>5, <2>6, <2>7, <2>8, <2>9, <2>10, <2>11,
       <2>12, <2>13 DEF A!Next, A!Command, A!World
<1> QED
  BY <1>1, <1>2, PTL DEF Spec

-----------------------------------------------------------------------------
(* The login flow, between the approval and the deadline.                  *)

\* Who approves in time is let down only by a loss after the approval or by
\* an interruption: the safe half of ApprovalPrinted.
ApprovalKept ==
    phase \in A!Ended /\ A!InTime =>
        phase \in {"printed", "refused"} \/ lost \/ ctxDone

\* The first request after an approval begins by this age.
Asked == approvedAt + (IF Every > Patience THEN Every ELSE Patience)

\* The next tick comes within one interval of the approval.
Ticks == tick \/ age + nextTick <= approvedAt + Every

\* After an approval in time, with nothing lost: a request that just missed
\* it is over and the next one begins soon enough, and that one ends while
\* the server still has the password.
OnTheWay ==
    /\ phase \in {"waiting", "asking", "printed", "refused"}
    /\ grant # "open"
    /\ phase = "waiting" => grant = "approved" /\ age <= Asked /\ Ticks
    /\ phase = "asking" /\ answer = "pending" =>
          grant = "approved" /\ age <= approvedAt + waited /\ Ticks
    /\ phase = "asking" /\ answer = "none" =>
          grant = "approved" /\ age <= Asked + waited

\* The terms of OnTheWay are numbers.
LEMMA LoginNumbers ==
    ASSUME A!TypeOK
    PROVE  /\ Validity \in Nat /\ Lag \in Nat
           /\ Every \in Nat \ {0} /\ Patience \in Nat \ {0}
           /\ age \in Nat /\ age <= Validity + 1
           /\ nextTick \in Nat /\ 1 <= nextTick /\ nextTick <= Every
           /\ waited \in Nat /\ waited <= Patience
           /\ approvedAt \in Int
           /\ Asked \in Int
           /\ approvedAt + Every <= Asked /\ approvedAt + Patience <= Asked
           /\ A!InTime <=> approvedAt # -1 /\ Asked + Patience <= Validity - Lag
<1>1. /\ Validity \in Nat /\ Lag \in Nat
      /\ Every \in Nat \ {0} /\ Patience \in Nat \ {0}
  BY CommandsAssumption DEF A!AppAuthAssumption
<1>2. /\ age \in 0 .. Validity + 1 /\ nextTick \in 1..Every
      /\ waited \in 0..Patience /\ approvedAt \in -1 .. Validity + 1
  BY DEF A!TypeOK, A!Never
<1> QED
  BY <1>1, <1>2 DEF Asked, A!InTime, A!Reach, A!Never

LEMMA LoginKept ==
    ASSUME A!TypeOK, A!TypeOK', A!Next,
           A!InTime => lost \/ ctxDone \/ OnTheWay,
           A!InTime', ~ lost', ~ ctxDone'
    PROVE  OnTheWay'
<1>1. ~ lost /\ ~ ctxDone
  BY DEF A!TypeOK, A!Next, A!Command, A!World, A!Begin, A!GiveUp, A!Expire, A!Ask,
         A!Hear, A!Fail, A!Interrupt, A!Approve, A!Void, A!Serve, A!ServeStray, A!Tick,
         A!flow
<1>2. CASE A!Approve
  <2>1. /\ phase \in {"waiting", "asking"} /\ grant' = "approved"
        /\ approvedAt' = age
        /\ UNCHANGED <<phase, ctxDone, age, nextTick, tick, answer, waited>>
    BY <1>2 DEF A!Approve, A!flow
  <2>2. /\ age <= Asked' /\ age <= Asked' + waited
        /\ age <= approvedAt' + waited /\ age + nextTick <= approvedAt' + Every
    BY <2>1, LoginNumbers DEF Asked
  <2> QED
    BY <2>1, <2>2 DEF OnTheWay, Ticks
<1>3. ASSUME ~ A!Approve PROVE OnTheWay'
  <2>1. approvedAt' = approvedAt
    BY <1>3 DEF A!Next, A!Command, A!World, A!Begin, A!GiveUp, A!Expire, A!Ask,
       A!Hear, A!Fail, A!Interrupt, A!Void, A!Serve, A!ServeStray, A!Tick
  <2>2. A!InTime /\ OnTheWay /\ Asked' = Asked
    BY <1>1, <2>1 DEF A!InTime, Asked
  <2>3. Asked + Patience <= Validity - Lag
    BY <2>2, LoginNumbers
  <2>4. CASE A!Begin \/ A!GiveUp \/ A!Interrupt
    BY <1>1, <2>2, <2>4 DEF A!Begin, A!GiveUp, A!Interrupt, OnTheWay
  <2>5. CASE A!Expire
    <3>1. age > Validity /\ age <= Asked
      BY <2>2, <2>5 DEF A!Expire, OnTheWay
    <3> QED
      BY <2>3, <3>1, LoginNumbers
  <2>6. CASE A!Ask
    <3>1. /\ phase' = "asking" /\ answer' = "none" /\ waited' = 0
          /\ grant' = grant /\ age' = age /\ phase = "waiting"
      BY <1>1, <2>6 DEF A!Ask
    <3> QED
      BY <2>2, <3>1, LoginNumbers DEF OnTheWay
  <2>7. CASE A!Hear
    <3>1. /\ phase = "asking" /\ answer # "none"
          /\ UNCHANGED <<age, nextTick, tick, answer, grant>>
      BY <2>7 DEF A!Hear
    <3>2. phase' = CASE answer = "pending"  -> "waiting"
                     [] answer = "password" -> "printed"
                     [] answer = "useless"  -> "refused"
      BY <2>7, Zenon DEF A!Hear
    <3>3. CASE answer = "pending"
      <4>1. phase' = "waiting"
        BY <3>2, <3>3
      <4>2. grant = "approved" /\ age <= approvedAt + waited /\ Ticks
        BY <2>2, <3>1, <3>3 DEF OnTheWay
      <4>3. age <= Asked
        BY <4>2, LoginNumbers
      <4> QED
        BY <2>1, <2>2, <3>1, <4>1, <4>2, <4>3 DEF OnTheWay, Ticks
    <3>4. CASE answer \in {"password", "useless"}
      <4>1. phase' \in {"printed", "refused"}
        BY <3>2, <3>4
      <4> QED
        BY <2>2, <3>1, <4>1 DEF OnTheWay
    <3> QED
      BY <3>1, <3>3, <3>4 DEF A!TypeOK, A!Answers
  <2>8. CASE A!Fail
    BY <2>2, <2>8 DEF A!Fail, OnTheWay
  <2>9. CASE A!Void
    <3>1. /\ age > Validity - Lag /\ grant' = "void"
          /\ UNCHANGED <<phase, age, nextTick, tick, answer, waited>>
      BY <2>9 DEF A!Void, A!flow
    <3>2. CASE phase = "waiting" \/ (phase = "asking" /\ answer \in {"pending", "none"})
      <4>1. \/ age <= Asked \/ age <= approvedAt + waited \/ age <= Asked + waited
        BY <2>2, <3>2 DEF OnTheWay
      <4> QED
        BY <2>3, <3>1, <4>1, LoginNumbers
    <3> QED
      BY <2>2, <3>1, <3>2 DEF OnTheWay
  <2>10. CASE A!Serve
    <3>1. /\ phase = "asking" /\ answer = "none" /\ phase' = "asking"
          /\ answer' \in {"password", "pending", "useless"}
          /\ answer' = "pending" => grant # "approved"
          /\ grant' # "open" \/ grant = "open"
      BY <2>10 DEF A!Serve
    <3> QED
      BY <2>2, <3>1 DEF OnTheWay
  <2>11. CASE A!ServeStray
    <3>1. grant # "approved" /\ grant' = grant
      BY <1>1, <2>11 DEF A!ServeStray
    <3> QED
      BY <2>1, <2>2, <2>11, <3>1 DEF A!ServeStray, A!flow, OnTheWay, Ticks
  <2>12. CASE A!Tick
    <3>1. /\ phase \in {"waiting", "asking"}
          /\ age' = IF age <= Validity THEN age + 1 ELSE age
          /\ nextTick' = IF nextTick = 1 THEN Every ELSE nextTick - 1
          /\ tick' = (tick \/ nextTick = 1)
          /\ waited' = IF phase = "asking" THEN waited + 1 ELSE waited
          /\ UNCHANGED <<phase, answer, grant>>
      BY <2>12 DEF A!Tick
    <3>2. age' \in Int /\ age' <= age + 1
      BY <3>1, LoginNumbers
    <3>3. Ticks => Ticks'
      <4> SUFFICES ASSUME Ticks, ~ tick' PROVE age' + nextTick' <= approvedAt' + Every
        BY DEF Ticks
      <4>1. ~ tick /\ nextTick # 1
        BY <3>1
      <4> QED
        BY <2>1, <3>1, <3>2, <4>1, LoginNumbers DEF Ticks
    <3>4. CASE phase = "waiting"
      <4>1. ~ tick
        BY <2>12, <3>4 DEF A!Tick, A!Busy
      <4>2. grant = "approved" /\ Ticks
        BY <2>2, <3>4 DEF OnTheWay
      <4>3. age' <= Asked
        BY <3>2, <4>1, <4>2, LoginNumbers DEF Ticks
      <4> QED
        BY <2>2, <3>1, <3>3, <3>4, <4>2, <4>3 DEF OnTheWay
    <3>5. CASE phase = "asking"
      <4>1. waited' = waited + 1
        BY <3>1, <3>5
      <4>2. answer = "pending" =>
              grant = "approved" /\ age' <= approvedAt' + waited' /\ Ticks'
        BY <2>1, <2>2, <3>2, <3>3, <3>5, <4>1, LoginNumbers DEF OnTheWay
      <4>3. answer = "none" => grant = "approved" /\ age' <= Asked' + waited'
        BY <2>2, <3>2, <3>5, <4>1, LoginNumbers DEF OnTheWay
      <4> QED
        BY <2>2, <3>1, <3>5, <4>2, <4>3 DEF OnTheWay
    <3> QED
      BY <3>1, <3>4, <3>5
  <2> QED
    BY <1>3, <2>4, <2>5, <2>6, <2>7, <2>8, <2>9, <2>10, <2>11, <2>12
    DEF A!Next, A!Command, A!World
<1> QED
  BY <1>2, <1>3

\* For every validity, interval, timeout and lag, a user who approves at least
\* Reach before the server's token runs out finds the command ended without a
\* password only if the server answered uselessly, something was lost after
\* the approval, or the command was interrupted: Poll's deadline, dropped ticks
\* and slow requests never cost it.
THEOREM CommandsApprovalKept == Spec => []ApprovalKept
<1> DEFINE Kept == A!InTime => lost \/ ctxDone \/ OnTheWay
<1>1. Init => Kept
  BY DEF Init, A!Init, A!InTime, A!Never
<1>2. A!TypeOK /\ A!TypeOK' /\ Kept /\ [Next]_vars => Kept'
  <2> SUFFICES ASSUME A!TypeOK, A!TypeOK', Kept, A!Next \/ UNCHANGED loginVars
               PROVE  Kept'
    BY LoginStep
  <2>1. CASE A!Next
    BY <2>1, LoginKept
  <2>2. CASE UNCHANGED loginVars
    BY <2>2 DEF loginVars, OnTheWay, Ticks, Asked, A!InTime
  <2> QED
    BY <2>1, <2>2
<1>3. Kept => ApprovalKept
  BY DEF ApprovalKept, OnTheWay, A!Ended
<1> QED
  BY <1>1, <1>2, <1>3, LoginTypeOK, PTL DEF Spec

-----------------------------------------------------------------------------
LEMMA ServiceTypeOK == Spec => []S!TypeOK
<1> USE CommandsAssumption DEF CommandsAssumption, S!ServiceAssumption, S!Configs, S!Units,
        S!Activities, S!TempDirs, S!Processes, S!Owners, S!locks
<1>1. Init => S!TypeOK
  BY ServiceInit DEF S!Init, S!TypeOK
<1>2. S!TypeOK /\ [Next]_vars => S!TypeOK'
  <2> SUFFICES ASSUME S!TypeOK, S!Next \/ UNCHANGED serviceVars
               PROVE  S!TypeOK'
    BY ServiceStep
  <2> USE DEF S!TypeOK, S!Finish, S!GoTo, S!systemd, S!toolVars
  <2>1. CASE S!RunEnable
    BY <2>1 DEF S!RunEnable
  <2>2. CASE S!Create
    BY <2>2 DEF S!Create
  <2>3. CASE S!Write
    BY <2>3 DEF S!Write
  <2>4. CASE S!Reload
    BY <2>4 DEF S!Reload
  <2>5. CASE S!StartUnit
    BY <2>5 DEF S!StartUnit
  <2>6. CASE S!AwaitReady
    BY <2>6 DEF S!AwaitReady
  <2>7. CASE S!RunDisable
    BY <2>7 DEF S!RunDisable
  <2>8. CASE S!StopUnit
    <3>1. S!Unlock(unitProcess) \in [S!TempDirs -> S!Processes \cup {NoProcess}]
      BY DEF S!Unlock
    <3>2. /\ lock' \in {lock, S!Unlock(unitProcess)}
          /\ proc' \in {proc, [proc EXCEPT ![unitProcess] = "off"]}
          /\ enabled' \in BOOLEAN /\ wanted' \in BOOLEAN /\ warned' \in BOOLEAN
          /\ tool' = "remove"
          /\ UNCHANGED <<scope, config, unit, unitExists, said, lockFile>>
      BY <2>8 DEF S!StopUnit
    <3> QED
      BY <3>1, <3>2
  <2>9. CASE S!Remove
    BY <2>9 DEF S!Remove
  <2>10. CASE S!Forget
    BY <2>10 DEF S!Forget
  <2>11. CASE S!Interrupt
    BY <2>11 DEF S!Interrupt
  <2>12. ASSUME NEW p \in S!Processes,
                S!Launch(p) \/ S!Step(p) \/ S!Once(p) \/ S!Exit(p) \/ S!Crash(p)
         PROVE  S!TypeOK'
    <3>1. S!TempDir(p) \in S!TempDirs
      BY DEF S!TempDir
    <3> QED
      BY <2>12, <3>1 DEF S!Launch, S!Step, S!Reject, S!OpenFails, S!LockTaken, S!TakeLock,
         S!Once, S!Exit, S!Crash, S!Unlock, S!AfterFailure, S!Opens,
         S!MakeLockFile, S!Owner
  <2>13. CASE S!Restart
    BY <2>13 DEF S!Restart
  <2>14. CASE S!Boot
    BY <2>14 DEF S!Boot
  <2>15. CASE S!Administrator
    BY <2>15 DEF S!Administrator, S!EditConfig, S!WriteOther, S!RemoveOther, S!RemoveLockFile
  <2>16. CASE UNCHANGED serviceVars
    BY <2>16 DEF serviceVars
  <2> QED
    BY <2>1, <2>2, <2>3, <2>4, <2>5, <2>6, <2>7, <2>8, <2>9, <2>10, <2>11,
       <2>12, <2>13, <2>14, <2>15, <2>16 DEF S!Next, S!Tool
<1> QED
  BY <1>1, <1>2, PTL DEF Spec

-----------------------------------------------------------------------------
(* What holds of the text that nextcloudcmd has written so far: where the  *)
(* first item that failed is among the lines that the parser looks for.    *)

Tokens == F!ErrorStatuses \cup {F!None}

Lines ==
    [status : Tokens \cup F!Survived, token : Tokens,
     quoted : {<<>>} \cup Seq(Items \cup Messages),
     text : {<<>>, <<"remark">>} \cup Seq(Items \cup Messages)]

Failed == {i \in DOMAIN output : output[i].status \in F!ErrorStatuses}
Marked == {i \in DOMAIN output : output[i].token # F!None}
Written == {i \in DOMAIN output : output[i].text # <<>>}

HasFirst(K) == K # {} => \E m \in K : \A i \in K : m <= i
HasLast(K) == K # {} => \E m \in K : \A i \in K : m >= i

TextOK ==
    /\ wording \in {"propagator", "bare"}
    /\ output \in Seq(Lines)
    /\ Len(output) <= MaxLines
    /\ cause \in 0 .. Len(output)

\* What a line is, apart from the others: about an item, or a remark, or blank.
AboutItem(line) ==
    \E item \in Items, reply \in F!Replies :
        line.quoted = <<item>> \o reply /\ line.text = line.quoted

LineOK(line) ==
    \/ AboutItem(line)
    \/ line.status = F!None /\ line = F!Blank
    \/ line.status = F!None /\ line = F!Remark(line.token)

\* The item that failed first is in its line; the propagator's wording has no
\* failed line before it; and a line before it is marked only if it misleads
\* or is a remark.
TextInv ==
    /\ \A i \in DOMAIN output : LineOK(output[i])
    /\ HasFirst(Marked)
    /\ HasLast(Written)
    /\ \A i \in Failed : wording = "propagator" /\ cause # 0 /\ cause <= i
    /\ cause # 0 => /\ AboutItem(output[cause])
                    /\ output[cause].token # F!None
                    /\ wording = "propagator" =>
                          output[cause].status \in F!ErrorStatuses
    /\ \A i \in Marked :
          \/ cause # 0 /\ cause <= i
          \/ F!Holds(output[i].quoted, Telling)
          \/ output[i] = F!Remark(output[i].token)

\* A line more at the end keeps the first one where it is, or is the last one.
LEMMA FirstAndLast ==
    ASSUME NEW k \in Nat, NEW K \in SUBSET (1..k)
    PROVE  /\ HasFirst(K) => HasFirst(K \cup {k + 1})
           /\ HasLast(K \cup {k + 1})
<1>1. ASSUME HasFirst(K) PROVE HasFirst(K \cup {k + 1})
  <2>1. CASE K = {}
    BY <2>1 DEF HasFirst
  <2>2. CASE K # {}
    <3>1. PICK m \in K : \A i \in K : m <= i
      BY <1>1, <2>2 DEF HasFirst
    <3>2. m \in K \cup {k + 1} /\ \A i \in K \cup {k + 1} : m <= i
      BY <3>1
    <3> QED
      BY <3>2 DEF HasFirst
  <2> QED
    BY <2>1, <2>2
<1>2. k + 1 \in K \cup {k + 1} /\ \A i \in K \cup {k + 1} : k + 1 >= i
  OBVIOUS
<1> QED
  BY <1>1, <1>2 DEF HasLast

\* What a line about an item holds, and that it counts as failed or marked.
LEMMA ItemLine ==
    ASSUME CommandsAssumption, wording \in {"propagator", "bare"},
           NEW item \in Items, NEW reply \in F!Replies,
           NEW status \in F!ErrorStatuses \cup F!Survived
    PROVE  LET line == F!Line(item, status, reply)
           IN  /\ line \in Lines
               /\ AboutItem(line)
               /\ line.status \in F!ErrorStatuses <=>
                     wording = "propagator" /\ status \in F!ErrorStatuses
               /\ status \in F!ErrorStatuses => line.token # F!None
               /\ status \notin F!ErrorStatuses /\ line.token # F!None =>
                     F!Holds(line.quoted, Telling)
<1> DEFINE line == F!Line(item, status, reply)
           q == <<item>> \o reply
<1>1. reply \in Seq(Messages) /\ (reply = <<>> \/ \E m \in Messages : reply = <<m>>)
  <2>1. <<>> \in Seq(Messages) /\ \A m \in Messages : <<m>> \in Seq(Messages)
    OBVIOUS
  <2>2. reply = <<>> \/ \E m \in Messages : reply = <<m>>
    BY Zenon DEF F!Replies
  <2> QED
    BY <2>1, <2>2
<1>2. q \in Seq(Items \cup Messages) /\ q[1] = item /\ 1 \in DOMAIN q
  BY <1>1
<1>3. /\ line.quoted = q /\ line.text = q
      /\ line.status = IF wording = "propagator" THEN status ELSE F!None
      /\ line.token = IF item \in Telling \/ (status \in F!Survived /\ F!Holds(reply, Telling))
                      THEN "FatalError"
                      ELSE IF status \in F!ErrorStatuses THEN status ELSE F!None
  BY DEF F!Line
<1>4. F!Holds(reply, Telling) => F!Holds(q, Telling)
  <2>1. CASE reply = <<>>
    BY <2>1 DEF F!Holds
  <2>2. CASE \E m \in Messages : reply = <<m>>
    <3>1. PICK m \in Messages : reply = <<m>>
      BY <2>2
    <3>2. q[2] = m /\ 2 \in DOMAIN q
      BY <3>1
    <3>3. F!Holds(reply, Telling) => m \in Telling
      BY <3>1 DEF F!Holds
    <3> QED
      BY <3>2, <3>3 DEF F!Holds
  <2> QED
    BY <1>1, <2>1, <2>2
<1>5. /\ line.token \in Tokens
      /\ status \in F!ErrorStatuses => line.token # F!None
      /\ status \notin F!ErrorStatuses /\ line.token # F!None =>
            item \in Telling \/ F!Holds(reply, Telling)
  BY <1>3 DEF F!ErrorStatuses, F!Survived, F!None, Tokens
<1>6. item \in Telling => F!Holds(q, Telling)
  BY <1>2 DEF F!Holds
<1>7. line \in Lines
  BY <1>2, <1>3, <1>5 DEF F!Line, Lines, Tokens
<1>8. AboutItem(line)
  BY <1>3 DEF AboutItem
<1>9. line.status \in F!ErrorStatuses <=>
         wording = "propagator" /\ status \in F!ErrorStatuses
  BY <1>3 DEF F!ErrorStatuses, F!None
<1> QED
  BY <1>3, <1>4, <1>5, <1>6, <1>7, <1>8, <1>9

\* What a line at the end does to the three sets of lines.
LEMMA LineAdded ==
    ASSUME TextOK, TextInv, NEW line \in Lines, LineOK(line),
           output' = Append(output, line)
    PROVE  LET n == Len(output) + 1
           IN  /\ output' \in Seq(Lines) /\ Len(output') = n /\ n \in Nat \ {0}
               /\ DOMAIN output = 1 .. Len(output) /\ DOMAIN output' = 1..n
               /\ \A i \in 1 .. Len(output) : output'[i] = output[i]
               /\ output'[n] = line
               /\ Failed' = Failed \cup
                     (IF line.status \in F!ErrorStatuses THEN {n} ELSE {})
               /\ Marked' = Marked \cup
                     (IF line.token # F!None THEN {n} ELSE {})
               /\ HasFirst(Marked')
               /\ HasLast(Written')
               /\ \A i \in 1..n : LineOK(output'[i])
<1> DEFINE n == Len(output) + 1
<1>1. /\ output' \in Seq(Lines) /\ Len(output') = n /\ n \in Nat \ {0}
      /\ DOMAIN output = 1 .. Len(output) /\ DOMAIN output' = 1..n
      /\ \A i \in 1 .. Len(output) : output'[i] = output[i]
      /\ output'[n] = line /\ Len(output) \in Nat
  BY AppendProperties DEF TextOK
<1>2. /\ Failed' = Failed \cup (IF line.status \in F!ErrorStatuses THEN {n} ELSE {})
      /\ Marked' = Marked \cup (IF line.token # F!None THEN {n} ELSE {})
      /\ Written' = Written \cup (IF line.text # <<>> THEN {n} ELSE {})
  BY <1>1 DEF Failed, Marked, Written
<1>3. Marked \in SUBSET (1 .. Len(output)) /\ Written \in SUBSET (1 .. Len(output))
  BY <1>1 DEF Marked, Written
<1>4. HasFirst(Marked')
  BY <1>1, <1>2, <1>3, FirstAndLast DEF TextInv
<1>5. HasLast(Written')
  BY <1>1, <1>2, <1>3, FirstAndLast DEF TextInv
<1>6. \A i \in 1..n : LineOK(output'[i])
  BY <1>1 DEF TextInv
<1> QED
  BY <1>1, <1>2, <1>4, <1>5, <1>6

LEMMA ReportText == Spec => [](TextOK /\ TextInv)
<1> USE CommandsAssumption DEF CommandsAssumption, F!FailureParseAssumption
<1>1. Init => TextOK /\ TextInv
  <2> SUFFICES ASSUME F!Init PROVE TextOK /\ TextInv
    BY DEF Init
  <2>1. /\ output = <<>> /\ cause = 0
        /\ Failed = {} /\ Marked = {} /\ Written = {}
    BY DEF F!Init, Failed, Marked, Written
  <2> QED
    BY <2>1 DEF F!Init, TextOK, TextInv, HasFirst, HasLast
<1>2. TextOK /\ TextInv /\ [Next]_vars => (TextOK /\ TextInv)'
  <2> SUFFICES ASSUME TextOK, TextInv, F!Next \/ UNCHANGED reportVars
               PROVE  (TextOK /\ TextInv)'
    BY ReportStep
  <2> DEFINE n == Len(output) + 1
  <2>1. ASSUME NEW item \in Items, NEW reply \in F!Replies,
               NEW status \in F!ErrorStatuses \cup F!Survived,
               F!Report(item, status, reply)
        PROVE  (TextOK /\ TextInv)'
    <3> DEFINE line == F!Line(item, status, reply)
    <3>1. /\ line \in Lines
          /\ AboutItem(line)
          /\ line.status \in F!ErrorStatuses <=>
                wording = "propagator" /\ status \in F!ErrorStatuses
          /\ status \in F!ErrorStatuses => line.token # F!None
          /\ status \notin F!ErrorStatuses /\ line.token # F!None =>
                F!Holds(line.quoted, Telling)
      BY ItemLine DEF TextOK
    <3> HIDE DEF line
    <3>2. /\ output' = Append(output, line)
          /\ wording' = wording
          /\ cause' = IF cause = 0 /\ status \in F!ErrorStatuses THEN n ELSE cause
          /\ Len(output) < MaxLines
      BY <2>1 DEF F!Report, line
    <3>3. LineOK(line)
      BY <3>1 DEF LineOK
    <3>4. /\ output' \in Seq(Lines) /\ Len(output') = n /\ n \in Nat \ {0}
          /\ DOMAIN output = 1 .. Len(output) /\ DOMAIN output' = 1..n
          /\ \A i \in 1 .. Len(output) : output'[i] = output[i]
          /\ output'[n] = line
          /\ Failed' = Failed \cup (IF line.status \in F!ErrorStatuses THEN {n} ELSE {})
          /\ Marked' = Marked \cup (IF line.token # F!None THEN {n} ELSE {})
          /\ HasFirst(Marked') /\ HasLast(Written')
          /\ \A i \in 1..n : LineOK(output'[i])
      BY <3>1, <3>2, <3>3, LineAdded
    <3>5. cause \in 0 .. Len(output) /\ Len(output) \in Nat
      BY DEF TextOK
    <3> HIDE DEF n
    <3>6. Len(output) < n /\ n <= MaxLines /\ cause < n /\ cause \in Nat
      BY <3>2, <3>4, <3>5 DEF n
    <3>7. TextOK'
      BY <3>2, <3>4, <3>5, <3>6 DEF TextOK
    <3>8. /\ cause # 0 => cause' = cause /\ cause \in 1 .. Len(output)
          /\ cause = 0 => cause' \in {0, n}
          /\ status \in F!ErrorStatuses => cause' # 0 /\ cause' <= n
      BY <3>2, <3>4, <3>5, <3>6
    <3>9. \A i \in Failed' : wording' = "propagator" /\ cause' # 0 /\ cause' <= i
      BY <3>1, <3>2, <3>4, <3>8 DEF TextInv
    <3>10. cause' # 0 => /\ AboutItem(output'[cause'])
                         /\ output'[cause'].token # F!None
                         /\ wording' = "propagator" =>
                               output'[cause'].status \in F!ErrorStatuses
      <4>1. CASE cause # 0
        BY <3>2, <3>4, <3>8, <4>1 DEF TextInv
      <4>2. CASE cause = 0 /\ status \in F!ErrorStatuses
        BY <3>1, <3>2, <3>4, <4>2
      <4> QED
        BY <3>2, <4>1, <4>2
    <3>11. ASSUME NEW i \in Marked'
           PROVE  \/ cause' # 0 /\ cause' <= i
                  \/ F!Holds(output'[i].quoted, Telling)
                  \/ output'[i] = F!Remark(output'[i].token)
      <4>1. CASE i \in Marked
        <5>1. output'[i] = output[i]
          BY <3>4, <4>1 DEF Marked
        <5> QED
          BY <3>8, <4>1, <5>1 DEF TextInv
      <4>2. CASE i = n /\ line.token # F!None
        BY <3>1, <3>4, <3>8, <4>2
      <4> QED
        BY <3>4, <3>11, <4>1, <4>2
    <3> QED
      BY <3>4, <3>7, <3>9, <3>10, <3>11 DEF TextInv
  <2>2. CASE F!WriteOther
    <3>1. PICK line \in {F!Blank, F!Remark(F!None)} \cup
                           {F!Remark(s) : s \in F!ErrorStatuses} :
                   output' = Append(output, line)
      BY <2>2 DEF F!WriteOther
    <3>2. /\ line \in Lines /\ line.status = F!None
          /\ line = F!Blank \/ line = F!Remark(line.token)
          /\ line.token # F!None => line = F!Remark(line.token)
      BY DEF F!Blank, F!Remark, Lines, Tokens
    <3>3. LineOK(line) /\ line.status \notin F!ErrorStatuses
      BY <3>2 DEF LineOK, F!None, F!ErrorStatuses
    <3>4. wording' = wording /\ cause' = cause /\ Len(output) < MaxLines
      BY <2>2 DEF F!WriteOther
    <3>5. /\ output' \in Seq(Lines) /\ Len(output') = n /\ n \in Nat \ {0}
          /\ DOMAIN output = 1 .. Len(output) /\ DOMAIN output' = 1..n
          /\ \A i \in 1 .. Len(output) : output'[i] = output[i]
          /\ output'[n] = line
          /\ Failed' = Failed
          /\ Marked' = Marked \cup (IF line.token # F!None THEN {n} ELSE {})
          /\ HasFirst(Marked') /\ HasLast(Written')
          /\ \A i \in 1..n : LineOK(output'[i])
      BY <3>1, <3>2, <3>3, LineAdded
    <3>6. cause \in 0 .. Len(output) /\ Len(output) \in Nat
      BY DEF TextOK
    <3>7. TextOK'
      BY <3>4, <3>5, <3>6 DEF TextOK
    <3>8. \A i \in Failed' : wording' = "propagator" /\ cause' # 0 /\ cause' <= i
      BY <3>4, <3>5 DEF TextInv
    <3>9. cause' # 0 => /\ AboutItem(output'[cause'])
                        /\ output'[cause'].token # F!None
                        /\ wording' = "propagator" =>
                              output'[cause'].status \in F!ErrorStatuses
      <4> SUFFICES ASSUME cause # 0
                   PROVE  output'[cause] = output[cause] /\ cause' = cause
        BY <3>4 DEF TextInv
      <4> QED
        BY <3>4, <3>5, <3>6
    <3>10. ASSUME NEW i \in Marked'
           PROVE  \/ cause' # 0 /\ cause' <= i
                  \/ F!Holds(output'[i].quoted, Telling)
                  \/ output'[i] = F!Remark(output'[i].token)
      <4>1. CASE i \in Marked
        <5>1. output'[i] = output[i]
          BY <3>5, <4>1 DEF Marked
        <5> QED
          BY <3>4, <4>1, <5>1 DEF TextInv
      <4>2. CASE i = n /\ line.token # F!None
        BY <3>2, <3>5, <4>2
      <4> QED
        BY <3>5, <3>10, <4>1, <4>2
    <3> QED
      BY <3>5, <3>7, <3>8, <3>9, <3>10 DEF TextInv
  <2>3. CASE UNCHANGED reportVars
    BY <2>3 DEF reportVars, TextOK, TextInv, HasFirst, HasLast, Failed, Marked, Written
  <2> QED
    BY <2>1, <2>2, <2>3 DEF F!Next
<1> QED
  BY <1>1, <1>2, PTL DEF Spec

\* The least element is the one that F!Min chooses, the greatest that of F!Max.
LEMMA Extremes ==
    ASSUME NEW K \in SUBSET Nat, K # {}
    PROVE  /\ HasFirst(K) => F!Min(K) \in K /\ \A i \in K : F!Min(K) <= i
           /\ HasLast(K) => F!Max(K) \in K
<1>1. HasFirst(K) => F!Min(K) \in K /\ \A i \in K : F!Min(K) <= i
  BY Zenon DEF HasFirst, F!Min
<1>2. HasLast(K) => F!Max(K) \in K
  BY Zenon DEF HasLast, F!Max
<1> QED
  BY <1>1, <1>2

\* What is reported has been through Sanitize, and its detail has been cut.
LEMMA Reported ==
    ASSUME NEW reason, NEW t, NEW u
    PROVE  LET f == F!Failure(reason, F!Sanitize(t), F!Sanitize(u))
           IN  /\ f.reason = reason /\ f.path.of = t /\ f.detail.of = u
               /\ F!Holds(f.path.of, Control) => f.path.escaped
               /\ F!Holds(f.detail.of, Control) => f.detail.escaped
               /\ f.detail.short
BY DEF F!Failure, F!Sanitize, F!Truncate

\* The path that is found in a line is one it names.
LEMMA NamedPath ==
    ASSUME NEW line, AboutItem(line) \/ line.quoted = <<>>
    PROVE  \E t : /\ F!PathFromLine(line) = F!Sanitize(t)
                  /\ t # <<>> => AboutItem(line) /\ t[1] \in F!NamedBy(line)
<1> DEFINE paths == {i \in DOMAIN line.quoted : line.quoted[i] \in Pathlike}
<1>1. CASE paths = {}
  BY <1>1 DEF F!PathFromLine
<1>2. CASE paths # {}
  <2>1. line.quoted # <<>>
    BY <1>2
  <2>2. PICK item \in Items, reply \in F!Replies : line.quoted = <<item>> \o reply
    BY <2>1 DEF AboutItem
  <2>3. DOMAIN line.quoted \in {1..1, 1..2}
    BY <2>2 DEF F!Replies
  <2>4. paths \in SUBSET Nat /\ HasFirst(paths) /\ paths \subseteq {1, 2}
    BY <2>3 DEF HasFirst
  <2> DEFINE k == F!Min(paths)
             t == <<line.quoted[k]>>
  <2>5. k \in paths /\ \A i \in paths : k <= i
    BY <1>2, <2>4, Extremes
  <2>6. F!PathFromLine(line) = F!Sanitize(t)
    BY <1>2 DEF F!PathFromLine
  <2> HIDE DEF k
  <2>7. /\ k \in DOMAIN line.quoted /\ line.quoted[k] \in Pathlike
        /\ k = 1 \/ line.quoted[1] \notin Pathlike
    BY <2>3, <2>4, <2>5
  <2>8. t[1] \in F!NamedBy(line)
    BY <2>7 DEF F!NamedBy
  <2> QED
    BY <2>1, <2>6, <2>8
<1> QED
  BY <1>1, <1>2

LEMMA TextBlames == TextOK /\ TextInv => F!BlamesCause
<1> USE CommandsAssumption DEF CommandsAssumption, F!FailureParseAssumption
<1> SUFFICES ASSUME TextOK, TextInv PROVE F!BlamesCause
  OBVIOUS
<1> DEFINE f == F!ParseFailure(output)
<1>1. /\ Failed \in SUBSET Nat /\ Marked \in SUBSET Nat /\ Written \in SUBSET Nat
      /\ 0 \notin Failed \cup Marked \cup Written
      /\ DOMAIN output = 1 .. Len(output) /\ Len(output) \in Nat
      /\ cause \in 0 .. Len(output)
  BY DEF TextOK, Failed, Marked, Written
<1>2. /\ F!FirstPropagated(output) = IF Failed = {} THEN 0 ELSE F!Min(Failed)
      /\ F!FirstMarked(output) = IF Marked = {} THEN 0 ELSE F!Min(Marked)
      /\ F!LastWritten(output) = IF Written = {} THEN 0 ELSE F!Max(Written)
  BY DEF F!FirstPropagated, F!FirstMarked, F!LastWritten, Failed, Marked, Written
<1>3. /\ cause # 0 /\ wording = "propagator" <=> Failed # {}
      /\ cause # 0 /\ wording = "propagator" =>
            cause \in Failed /\ \A i \in Failed : cause <= i
      /\ cause # 0 => cause \in Marked
  BY <1>1 DEF TextInv, Failed, Marked
<1>4. CASE Failed # {}
  <2>1. F!Min(Failed) \in Failed /\ \A i \in Failed : F!Min(Failed) <= i
    <3>1. HasFirst(Failed)
      BY <1>3, <1>4 DEF HasFirst
    <3> QED
      BY <1>1, <1>4, <3>1, Extremes
  <2>2. F!Min(Failed) = cause
    <3>1. cause \in Failed /\ \A i \in Failed : cause <= i
      BY <1>3, <1>4
    <3>2. ASSUME NEW m \in Failed, m <= cause, cause <= m PROVE m = cause
      BY <1>1, <3>2
    <3> QED
      BY <2>1, <3>1, <3>2
  <2>3. f = F!Failure(output[cause].status, F!Sanitize(<<output[cause].quoted[1]>>),
                      F!Sanitize(Tail(output[cause].quoted)))
    BY <1>1, <1>2, <1>3, <1>4, <2>2 DEF F!ParseFailure
  <2>4. output[cause].status # F!None /\ cause # 0 /\ cause \in DOMAIN output
    BY <1>1, <1>3, <1>4 DEF Failed, F!ErrorStatuses, F!None
  <2> DEFINE t == <<output[cause].quoted[1]>>
  <2>5. AboutItem(output[cause])
    BY <2>4 DEF TextInv
  <2>6. t # <<>> /\ t[1] \in F!NamedBy(output[cause])
    <3>1. 1 \in DOMAIN output[cause].quoted
      BY <2>5 DEF AboutItem, F!Replies
    <3> QED
      BY <3>1 DEF F!NamedBy
  <2> HIDE DEF f
  <2>7. /\ f.reason = output[cause].status /\ f.path.of = t
        /\ f.detail.of = Tail(output[cause].quoted)
        /\ F!Holds(f.path.of, Control) => f.path.escaped
        /\ F!Holds(f.detail.of, Control) => f.detail.escaped
        /\ f.detail.short
    BY <2>3, Reported
  <2> QED
    BY <2>4, <2>6, <2>7 DEF F!BlamesCause, f
<1>5. CASE Failed = {} /\ Marked # {}
  <2> DEFINE m == F!Min(Marked)
  <2>1. m \in Marked /\ \A i \in Marked : m <= i
    BY <1>1, <1>5, Extremes DEF TextInv
  <2> HIDE DEF m
  <2>2. m \in DOMAIN output /\ output[m].token # F!None /\ LineOK(output[m])
    BY <2>1 DEF TextInv, Marked
  <2>3. AboutItem(output[m]) \/ output[m].quoted = <<>>
    BY <2>2 DEF LineOK, F!Blank, F!Remark
  <2>4. PICK t : /\ F!PathFromLine(output[m]) = F!Sanitize(t)
                 /\ t # <<>> =>
                       AboutItem(output[m]) /\ t[1] \in F!NamedBy(output[m])
    BY <2>3, NamedPath
  <2>5. f = F!Failure(output[m].token, F!Sanitize(t), F!Sanitize(output[m].text))
    BY <1>1, <1>2, <1>5, <2>1, <2>4 DEF F!ParseFailure, m
  <2>6. \/ m = cause \/ F!Misleading(m) \/ output[m] = F!Remark(output[m].token)
    <3>1. CASE cause # 0 /\ cause <= m
      BY <1>1, <1>3, <2>1, <3>1
    <3>2. CASE ~(cause # 0 /\ cause <= m) /\ F!Holds(output[m].quoted, Telling)
      BY <1>1, <2>1, <3>2 DEF F!Misleading
    <3> QED
      BY <2>1, <3>1, <3>2 DEF TextInv
  <2>7. t # <<>> => m = cause \/ F!Misleading(m)
    <3> SUFFICES ASSUME t # <<>>, output[m] = F!Remark(output[m].token) PROVE FALSE
      BY <2>6
    <3>1. output[m].quoted = <<>>
      BY DEF F!Remark
    <3> QED
      BY <2>4, <3>1 DEF F!NamedBy
  <2>8. ~(wording = "propagator" /\ cause # 0)
    BY <1>3, <1>5
  <2> HIDE DEF f
  <2>9. /\ f.reason = output[m].token /\ f.path.of = t
        /\ F!Holds(f.path.of, Control) => f.path.escaped
        /\ F!Holds(f.detail.of, Control) => f.detail.escaped
        /\ f.detail.short
    BY <2>5, Reported
  <2>10. cause = 0 => F!Misleading(m) \/ output[m] = F!Remark(f.reason)
    BY <1>1, <2>1, <2>6, <2>9
  <2> QED
    BY <2>2, <2>4, <2>7, <2>8, <2>9, <2>10 DEF F!BlamesCause, f
<1>6. CASE Failed = {} /\ Marked = {}
  <2>1. cause = 0
    BY <1>3, <1>6
  <2>2. CASE Written # {}
    <3> DEFINE m == F!Max(Written)
    <3>1. m \in Written
      BY <1>1, <2>2, Extremes DEF TextInv
    <3>2. f = F!Failure(F!None, F!Sanitize(<<>>), F!Sanitize(output[m].text))
      BY <1>1, <1>2, <1>6, <2>2, <3>1 DEF F!ParseFailure
    <3> HIDE DEF m, f
    <3>3. output[m].text # <<>>
      BY <3>1 DEF Written
    <3> QED
      BY <2>1, <3>2, <3>3, Reported DEF F!BlamesCause, f
  <2>3. CASE Written = {}
    <3>1. f = F!Failure(F!None, F!Sanitize(<<>>), F!Sanitize(<<>>))
      BY <1>2, <1>6, <2>3 DEF F!ParseFailure
    <3>2. ASSUME NEW i \in DOMAIN output PROVE output[i] = F!Blank
      <4>1. output[i].text = <<>> /\ LineOK(output[i])
        BY <2>3 DEF Written, TextInv
      <4>2. ~AboutItem(output[i])
        <5>1. \A item \in Items, reply \in F!Replies : <<item>> \o reply # <<>>
          BY DEF F!Replies
        <5> QED
          BY <4>1, <5>1 DEF AboutItem
      <4>3. output[i] # F!Remark(output[i].token)
        BY <4>1 DEF F!Remark
      <4> QED
        BY <4>1, <4>2, <4>3 DEF LineOK
    <3> HIDE DEF f
    <3> QED
      BY <2>1, <3>1, <3>2, Reported DEF F!BlamesCause, f
  <2> QED
    BY <2>2, <2>3
<1> QED
  BY <1>4, <1>5, <1>6

\* Whatever nextcloudcmd writes, in however many lines: its propagator's line
\* of the item that failed first is what is reported; in another wording a
\* failure has a reason, and the path is that item's or its message, or what an
\* earlier line that misleads gives; if nothing failed only a line that
\* misleads gives a path, and that or a remark a reason.
THEOREM CommandsBlamesCause == Spec => []BlamesCause
<1>1. TextOK /\ TextInv => BlamesCause
  BY TextBlames DEF BlamesCause
<1> QED
  BY <1>1, ReportText, PTL
-----------------------------------------------------------------------------
LEMMA FoundOK == Spec => [](found \in {Unknown, NoFile, "/etc", "~/.config"} \cup Places)
<1> DEFINE Inv == found \in {Unknown, NoFile, "/etc", "~/.config"} \cup Places
<1>1. Init => Inv
  BY DEF Init
<1>2. Inv /\ [Next]_vars => Inv'
  <2> SUFFICES ASSUME Inv, Find PROVE Inv'
    BY DEF Next, vars, configVars, Read
  <2> QED
    BY DEF Find, FindConfigPath
<1> QED
  BY <1>1, <1>2, PTL DEF Spec

LEMMA ModeOK == Spec => [](mode \in Modes)
<1>1. Init => mode \in Modes
  BY DEF Init
<1>2. mode \in Modes /\ [Next]_vars => (mode \in Modes)'
  BY DEF Next, vars
<1> QED
  BY <1>1, <1>2, PTL DEF Spec

\* Every variable keeps to its values, for every number of processes, every
\* time limit of the login flow and every environment.
THEOREM CommandsTypeOK == Spec => []TypeOK
<1>1. /\ mode \in Modes /\ A!TypeOK /\ S!TypeOK /\ TextOK
      /\ found \in {Unknown, NoFile, "/etc", "~/.config"} \cup Places
      => TypeOK
  BY DEF TypeOK, TextOK
<1> QED
  BY <1>1, ModeOK, LoginTypeOK, ServiceTypeOK, ReportText, FoundOK, PTL

-----------------------------------------------------------------------------
(* One daemon: a process that runs holds the lock of its directory.        *)

Locked == \A p \in S!Processes : proc[p] = "running" => lock[S!TempDir(p)] = p

LEMMA RunsLocked == Spec => []Locked
<1> USE CommandsAssumption DEF CommandsAssumption, S!ServiceAssumption,
        S!Activities, S!TempDirs, S!Processes
<1>1. Init => Locked
  BY ServiceInit DEF S!Init, Locked
<1>2. S!TypeOK /\ Locked /\ [Next]_vars => Locked'
  <2> SUFFICES ASSUME S!TypeOK, Locked, S!Next \/ UNCHANGED serviceVars,
                      NEW p \in S!Processes, proc'[p] = "running"
               PROVE  lock'[S!TempDir(p)'] = p
    BY ServiceStep DEF Locked
  <2>1. scope' = scope
    BY DEF S!Next, S!Tool, S!RunEnable, S!Create, S!Write, S!Reload,
       S!StartUnit, S!AwaitReady, S!RunDisable, S!StopUnit, S!Remove, S!Forget,
       S!Interrupt, S!Launch, S!Step, S!Reject, S!OpenFails, S!LockTaken, S!TakeLock, S!Once,
       S!Exit, S!Crash, S!Restart, S!Boot, S!Administrator, S!EditConfig,
       S!WriteOther, S!RemoveOther, S!RemoveLockFile, serviceVars
  <2>2. S!TempDir(p)' = S!TempDir(p) /\ S!TempDir(p) \in S!TempDirs
    BY <2>1 DEF S!TempDir, S!PrivateTmp
  <2> DEFINE dir == S!TempDir(p)
  <2>3. dir \in {"shared", "private"}
    BY <2>2
  <2> HIDE DEF dir
  <2> SUFFICES lock'[dir] = p
    BY <2>2 DEF dir
  <2>4. proc[p] = "running" => lock[dir] = p
    BY DEF Locked, dir
  <2> USE DEF S!TypeOK, S!systemd, S!toolVars, S!locks
  <2>5. CASE UNCHANGED <<proc, lock>>
    BY <2>4, <2>5
  <2>6. CASE S!StartUnit
    BY <2>4, <2>6 DEF S!StartUnit
  <2>7. CASE S!StopUnit
    BY <2>3, <2>4, <2>7 DEF S!StopUnit, S!Unlock
  <2>8. ASSUME NEW q \in S!Processes,
               S!Launch(q) \/ S!Step(q) \/ S!Once(q) \/ S!Exit(q) \/ S!Crash(q)
        PROVE  lock'[dir] = p
    <3>1. CASE S!Launch(q)
      BY <2>4, <3>1 DEF S!Launch
    <3>2. CASE S!Reject(q)
      BY <2>4, <3>2 DEF S!Reject, S!AfterFailure
    <3>8. CASE S!OpenFails(q)
      BY <2>4, <3>8 DEF S!OpenFails, S!AfterFailure
    <3>3. CASE S!LockTaken(q)
      BY <2>4, <3>3 DEF S!LockTaken, S!Opens, S!AfterFailure
    <3>4. CASE S!TakeLock(q)
      <4>1. lock[S!TempDir(q)] = NoProcess /\ S!TempDir(q) \in S!TempDirs
        BY <3>4 DEF S!TakeLock, S!TempDir
      <4>2. CASE q = p
        BY <2>3, <3>4, <4>1, <4>2 DEF S!TakeLock, dir
      <4>3. CASE q # p
        BY <2>3, <2>4, <3>4, <4>1, <4>3 DEF S!TakeLock
      <4> QED
        BY <4>2, <4>3
    <3>5. CASE S!Once(q)
      BY <2>4, <3>5 DEF S!Once
    <3>6. CASE S!Exit(q)
      BY <2>3, <2>4, <3>6 DEF S!Exit, S!Unlock
    <3>7. CASE S!Crash(q)
      BY <2>3, <2>4, <3>7 DEF S!Crash, S!Unlock, S!AfterFailure
    <3> QED
      BY <2>8, <3>1, <3>2, <3>3, <3>4, <3>5, <3>6, <3>7, <3>8 DEF S!Step
  <2>9. CASE S!Restart
    BY <2>4, <2>9 DEF S!Restart
  <2>10. CASE S!Boot
    BY <2>10 DEF S!Boot
  <2>11. CASE S!Tool \/ S!Administrator \/ UNCHANGED serviceVars
    BY <2>5, <2>6, <2>7, <2>11 DEF S!Tool, S!RunEnable, S!Create, S!Write,
       S!Reload, S!AwaitReady, S!RunDisable, S!Remove, S!Forget, S!Interrupt,
       S!Administrator, S!EditConfig, S!WriteOther, S!RemoveOther, S!RemoveLockFile, serviceVars
  <2> QED
    BY <2>8, <2>9, <2>10, <2>11 DEF S!Next
<1> QED
  BY <1>1, <1>2, ServiceTypeOK, PTL DEF Spec

\* However many processes are started by hand, no two daemons run at a time
\* but for the one with a /tmp of its own.
THEOREM CommandsOneDaemon == Spec => []OneDaemon
<1>1. S!TypeOK /\ Locked => OneDaemon
  BY CommandsAssumption
  DEF CommandsAssumption, S!ServiceAssumption, Locked, OneDaemon, S!OneDaemon,
      S!TempDir, S!Processes, S!PrivateTmp
<1> QED
  BY <1>1, ServiceTypeOK, RunsLocked, PTL

-----------------------------------------------------------------------------
(* --init-disable: what each of its steps has established.                 *)

Stopped == ~enabled /\ ~wanted /\ proc[unitProcess] = "off"

Converging ==
    /\ tool = "stop" => ~warned
    /\ tool \in {"remove", "forget"} /\ ~warned => Stopped
    /\ tool \in {"stop", "remove"} /\ ~unitExists => unit # "ours"
    /\ tool = "forget" => unit # "ours"
    /\ said = "disabled" => tool = "idle"
    /\ said = "disabled" /\ ~warned => unit # "ours" /\ Stopped

LEMMA Converges == Spec => []Converging
<1> USE CommandsAssumption DEF CommandsAssumption, S!ServiceAssumption,
        S!Activities, S!Units, S!Processes
<1>1. Init => Converging
  BY ServiceInit DEF S!Init, Converging
<1>2. S!TypeOK /\ Converging /\ [Next]_vars => Converging'
  <2> SUFFICES ASSUME S!TypeOK, Converging, S!Next \/ UNCHANGED serviceVars
               PROVE  Converging'
    BY ServiceStep
  <2> USE DEF S!TypeOK, Converging, Stopped, S!Finish, S!GoTo, S!systemd, S!toolVars
  <2>1. CASE S!RunEnable
    BY <2>1 DEF S!RunEnable
  <2>2. CASE S!Create
    BY <2>2 DEF S!Create
  <2>3. CASE S!Write
    BY <2>3 DEF S!Write
  <2>4. CASE S!Reload
    BY <2>4 DEF S!Reload
  <2>5. CASE S!StartUnit
    BY <2>5 DEF S!StartUnit
  <2>6. CASE S!AwaitReady
    BY <2>6 DEF S!AwaitReady
  <2>7. CASE S!RunDisable
    BY <2>7 DEF S!RunDisable
  <2>8. CASE S!StopUnit
    BY <2>8 DEF S!StopUnit
  <2>9. CASE S!Remove
    BY <2>9 DEF S!Remove
  <2>10. CASE S!Forget
    BY <2>10 DEF S!Forget
  <2>11. CASE S!Interrupt
    BY <2>11 DEF S!Interrupt
  <2>12. ASSUME NEW p \in S!Processes,
                S!Launch(p) \/ S!Step(p) \/ S!Once(p) \/ S!Exit(p) \/ S!Crash(p)
         PROVE  Converging'
    <3>1. proc[unitProcess] = "off" => proc'[unitProcess] = "off"
      BY <2>12 DEF S!Launch, S!Step, S!Reject, S!OpenFails, S!LockTaken, S!TakeLock, S!Once,
         S!Exit, S!Crash, S!Opens
    <3>2. UNCHANGED <<unit, enabled, wanted, tool, unitExists, warned, said>>
      BY <2>12 DEF S!Launch, S!Step, S!Reject, S!OpenFails, S!LockTaken, S!TakeLock, S!Once,
         S!Exit, S!Crash
    <3> QED
      BY <3>1, <3>2
  <2>13. CASE S!Restart
    BY <2>13 DEF S!Restart
  <2>14. CASE S!Boot
    BY <2>14 DEF S!Boot
  <2>15. CASE S!Administrator
    BY <2>15 DEF S!Administrator, S!EditConfig, S!WriteOther, S!RemoveOther, S!RemoveLockFile
  <2>16. CASE UNCHANGED serviceVars
    BY <2>16 DEF serviceVars
  <2> QED
    BY <2>1, <2>2, <2>3, <2>4, <2>5, <2>6, <2>7, <2>8, <2>9, <2>10, <2>11,
       <2>12, <2>13, <2>14, <2>15, <2>16 DEF S!Next, S!Tool
<1> QED
  BY <1>1, <1>2, ServiceTypeOK, PTL DEF Spec

\* A half-removed state converges, whatever was interrupted before.
THEOREM CommandsDisableConverges == Spec => []DisableConverges
<1>1. Converging => DisableConverges
  BY DEF Converging, Stopped, DisableConverges, S!DisableConverges
<1> QED
  BY <1>1, Converges, PTL

\* No step of the tool takes away a unit that someone else wrote, but the
\* removal of one it had seen to be its own.
THEOREM CommandsForeignUntouched == Spec => ForeignUntouched
<1>1. [Next]_vars =>
        [unit = "other" /\ unit' # "other" =>
            S!RemoveOther \/ (S!Remove /\ unitExists)]_(S!vars)
  <2> SUFFICES ASSUME S!Next \/ UNCHANGED serviceVars,
                      unit = "other", unit' # "other"
               PROVE  S!RemoveOther \/ (S!Remove /\ unitExists)
    BY ServiceStep
  <2>1. CASE S!Tool
    BY <2>1 DEF S!Tool, S!RunEnable, S!Create, S!Write, S!Reload, S!StartUnit,
       S!AwaitReady, S!RunDisable, S!StopUnit, S!Remove, S!Forget, S!Interrupt
  <2>2. CASE \E p \in S!Processes :
                 S!Launch(p) \/ S!Step(p) \/ S!Once(p) \/ S!Exit(p) \/ S!Crash(p)
    BY <2>2 DEF S!Launch, S!Step, S!Reject, S!OpenFails, S!LockTaken, S!TakeLock, S!Once,
       S!Exit, S!Crash, S!Opens
  <2>3. CASE S!Restart \/ S!Boot \/ S!Administrator
    BY <2>3 DEF S!Restart, S!Boot, S!Administrator, S!EditConfig, S!WriteOther,
       S!RemoveLockFile
  <2>4. CASE UNCHANGED serviceVars
    BY <2>4 DEF serviceVars
  <2> QED
    BY <2>1, <2>2, <2>3, <2>4 DEF S!Next
<1> QED
  BY <1>1, PTL DEF Spec, ForeignUntouched, S!ForeignUntouched

-----------------------------------------------------------------------------
(* The configuration: what a file says is filled up, checked and loaded.   *)

\* What Defaults puts into each field, and that it leaves the others.
LEMMA DefaultFields ==
    ASSUME NEW c \in Settings
    PROVE  LET d == Defaults(c)
           IN  /\ d.timeout = OrTime(c.timeout, 300)
               /\ d.debounce = OrTime(c.debounce, 10)
               /\ d.cooldown = OrTime(c.cooldown, 30)
               /\ d.interval = OrTime(c.interval, 60)
               /\ d.reconnect = OrTime(c.reconnect, 5)
               /\ d.reconnectMax = OrTime(c.reconnectMax, 300)
               /\ d.level = OrText(c.level, "info")
               /\ d.format = OrText(c.format, "text")
               /\ d.subprocess = OrText(c.subprocess, "off")
               /\ d.url = c.url /\ d.username = c.username
               /\ d.password = c.password /\ d.passwordFile = c.passwordFile
               /\ d.localDir = c.localDir
               /\ d.webhook = c.webhook /\ d.secret = c.secret
               /\ d.pushURL = c.pushURL /\ d.peers = c.peers
               /\ d.subprocessFile = c.subprocessFile
BY DEF Defaults, Settings

\* They are again settings.
LEMMA DefaultsAreSettings ==
    ASSUME NEW c \in Settings
    PROVE  Defaults(c) \in Settings
<1> DEFINE t1 == OrTime(c.timeout, 300)
           t2 == OrTime(c.debounce, 10)
           t3 == OrTime(c.cooldown, 30)
           t4 == OrTime(c.interval, 60)
           t5 == OrTime(c.reconnect, 5)
           t6 == OrTime(c.reconnectMax, 300)
           s1 == OrText(c.level, "info")
           s2 == OrText(c.format, "text")
           s3 == OrText(c.subprocess, "off")
<1>1. /\ t1 \in Int /\ t2 \in Int /\ t3 \in Int
      /\ t4 \in Int /\ t5 \in Int /\ t6 \in Int
  BY DEF OrTime, Settings
<1>2. s1 \in Texts /\ s2 \in Texts /\ s3 \in Texts
  <2>1. c.level \in Texts /\ c.format \in Texts /\ c.subprocess \in Texts
    BY DEF Settings
  <2> QED
    BY <2>1, ConfigAssumption DEF OrText
<1>3. Defaults(c) =
        [c EXCEPT !.timeout = t1, !.debounce = t2, !.cooldown = t3,
                  !.interval = t4, !.reconnect = t5, !.reconnectMax = t6,
                  !.level = s1, !.format = s2, !.subprocess = s3]
  BY DEF Defaults
<1> HIDE DEF t1, t2, t3, t4, t5, t6, s1, s2, s3
<1>4. [c EXCEPT !.timeout = t1, !.debounce = t2, !.cooldown = t3,
                !.interval = t4, !.reconnect = t5, !.reconnectMax = t6,
                !.level = s1, !.format = s2, !.subprocess = s3] \in Settings
  BY <1>1, <1>2 DEF Settings
<1> QED
  BY <1>3, <1>4

\* A field that has been set is not set again.
LEMMA DefaultsTwice ==
    ASSUME NEW c \in Settings
    PROVE  Defaults(Defaults(c)) = Defaults(c)
<1> DEFINE d == Defaults(c)
<1>1. d \in Settings
  BY DefaultsAreSettings
<1>2. /\ OrTime(d.timeout, 300) = d.timeout
      /\ OrTime(d.debounce, 10) = d.debounce
      /\ OrTime(d.cooldown, 30) = d.cooldown
      /\ OrTime(d.interval, 60) = d.interval
      /\ OrTime(d.reconnect, 5) = d.reconnect
      /\ OrTime(d.reconnectMax, 300) = d.reconnectMax
  BY DefaultFields DEF OrTime
<1>3. /\ OrText(d.level, "info") = d.level
      /\ OrText(d.format, "text") = d.format
      /\ OrText(d.subprocess, "off") = d.subprocess
  <2>1. /\ d.level = OrText(c.level, "info")
        /\ d.format = OrText(c.format, "text")
        /\ d.subprocess = OrText(c.subprocess, "off")
    BY DefaultFields
  <2>2. "info" # Unset /\ "text" # Unset /\ "off" # Unset
    BY DEF Unset
  <2> HIDE DEF d
  <2> QED
    BY <2>1, <2>2, Zenon DEF OrText
<1>4. Defaults(d) = [d EXCEPT !.timeout = d.timeout,
              !.debounce = d.debounce, !.cooldown = d.cooldown,
              !.interval = d.interval, !.reconnect = d.reconnect,
              !.reconnectMax = d.reconnectMax, !.level = d.level,
              !.format = d.format, !.subprocess = d.subprocess]
  <2> HIDE DEF d
  <2> QED
    BY <1>2, <1>3 DEF Defaults
<1> HIDE DEF d
<1> QED
  BY <1>1, <1>4 DEF Settings, d

\* What is loaded is always made of what the file says.
LoadedOK == loaded = Load(file) /\ file \in Settings

LEMMA LoadedInv == Spec => []LoadedOK
<1>1. Init => LoadedOK
  BY CommandsAssumption DEF Init, LoadedOK
<1>2. LoadedOK /\ [Next]_vars => LoadedOK'
  <2> SUFFICES ASSUME LoadedOK, [Next]_vars PROVE LoadedOK'
    OBVIOUS
  <2>1. CASE Read
    BY <2>1, CommandsAssumption DEF Read, LoadedOK
  <2>2. ASSUME UNCHANGED <<file, loaded>> PROVE LoadedOK'
    BY <2>2 DEF LoadedOK
  <2> QED
    BY <2>1, <2>2 DEF Next, vars, configVars, Find
<1> QED
  BY <1>1, <1>2, PTL DEF Spec

\* With nothing but what is required the defaults do.
LEMMA LeastAccepted == Load(Least).accepted
<1> DEFINE d == Defaults(Least)
<1>1. Least \in Settings /\ OnlyRequired(Least)
  BY CommandsAssumption
<1>2. /\ d.timeout = 300 /\ d.debounce = 10 /\ d.cooldown = 30
      /\ d.interval = 60 /\ d.reconnect = 5 /\ d.reconnectMax = 300
      /\ d.level = "info" /\ d.format = "text" /\ d.subprocess = "off"
  BY <1>1, DefaultFields DEF OnlyRequired, OrTime, OrText
<1>3. /\ d.url = Least.url /\ d.username = Least.username
      /\ d.password = Least.password /\ d.passwordFile = Least.passwordFile
      /\ d.localDir = Least.localDir
      /\ ~ d.webhook /\ d.pushURL = Unset /\ d.peers = {}
  BY <1>1, DefaultFields DEF OnlyRequired
<1> HIDE DEF d
<1>4. ServerValid(d) /\ d.localDir # Unset
  BY <1>1, <1>3 DEF ServerValid, OnlyRequired
<1>5. TimesValid(d)
  BY <1>2 DEF TimesValid
<1>6. SourcesValid(d)
  BY <1>3 DEF SourcesValid
<1>7. LoggingValid(d)
  BY <1>2 DEF LoggingValid
<1>8. Validate(d)
  BY <1>4, <1>5, <1>6, <1>7 DEF Validate
<1> QED
  BY <1>8 DEF Load, d

\* Whatever a file says and leaves out, what Load accepts is a configuration
\* that the other parts can run with; loaded again it is the same; and what is
\* required is enough.
THEOREM CommandsAcceptedRuns == Spec => []AcceptedRuns
<1>1. LoadedOK => AcceptedRuns
  <2> SUFFICES ASSUME LoadedOK PROVE AcceptedRuns
    OBVIOUS
  <2> DEFINE c == Defaults(file)
  <2>1. loaded.config = c /\ loaded.accepted = Validate(c) /\ file \in Settings
    BY DEF LoadedOK, Load
  <2>2. c \in Settings /\ Defaults(c) = c
    BY <2>1, DefaultsAreSettings, DefaultsTwice
  <2>3. Load(c) = loaded
    BY <2>2 DEF LoadedOK, Load
  <2>4. file = Least => loaded.accepted
    BY LeastAccepted DEF LoadedOK
  <2> HIDE DEF c
  <2>5. ASSUME Validate(c)
        PROVE  /\ c.timeout > 0 /\ c.interval > 0
               /\ 0 < c.debounce /\ c.debounce <= c.cooldown
               /\ 0 < c.reconnect /\ c.reconnect <= c.reconnectMax
               /\ ResolvePassword(c, "read") =
                     IF c.passwordFile # Unset THEN "read" ELSE c.password
               /\ c.passwordFile # Unset \/ c.password # Unset
               /\ \A p \in c.peers : p.secret # Unset
               /\ c.webhook => c.secret # Unset
    <3>1. /\ c.timeout \in Int /\ c.interval \in Int /\ c.debounce \in Int
          /\ c.cooldown \in Int /\ c.reconnect \in Int /\ c.reconnectMax \in Int
      BY <2>2 DEF Settings
    <3>2. ServerValid(c) /\ TimesValid(c) /\ SourcesValid(c)
      BY <2>5 DEF Validate
    <3>3. /\ c.timeout > 0 /\ c.interval > 0
          /\ 0 < c.debounce /\ c.debounce <= c.cooldown
          /\ 0 < c.reconnect /\ c.reconnect <= c.reconnectMax
      BY <3>1, <3>2 DEF TimesValid
    <3>4. (c.password = Unset) # (c.passwordFile = Unset)
      BY <3>2 DEF ServerValid
    <3> QED
      BY <3>2, <3>3, <3>4 DEF ResolvePassword, SourcesValid
  <2> QED
    BY <2>1, <2>3, <2>4, <2>5 DEF AcceptedRuns
<1> QED
  BY <1>1, LoadedInv, PTL
=============================================================================
