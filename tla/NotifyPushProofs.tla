-------------------------- MODULE NotifyPushProofs ---------------------------
(***************************************************************************)
(* Theorems about NotifyPush, for any intervals that the configuration     *)
(* allows and any number of messages and outages.                          *)
(***************************************************************************)
EXTENDS NotifyPush, SequenceTheorems, FiniteSetTheorems, TLAPS

-----------------------------------------------------------------------------
(* The channel has one place.                                              *)

EventsOK == events \in {<<>>, <<"notify_push">>}

LEMMA OneEvent ==
    /\ Len(<<>>) = 0 /\ Len(<<"notify_push">>) = 1
    /\ Append(<<>>, "notify_push") = <<"notify_push">>
    /\ Tail(<<"notify_push">>) = <<>>
OBVIOUS

LEMMA EventsStep == EventsOK /\ [Next]_vars => EventsOK'
<1> SUFFICES ASSUME EventsOK, [Next]_vars PROVE EventsOK'
  OBVIOUS
<1>1. CASE HandleMessage
  <2>1. \/ events' = events
        \/ Len(events) < 1 /\ events' = Append(events, "notify_push")
    BY <1>1, Zenon DEF HandleMessage, Capacity
  <2>2. CASE events = <<>>
    BY <2>1, <2>2, OneEvent, Zenon DEF EventsOK
  <2>3. CASE events = <<"notify_push">>
    <3>1. ~(Len(events) < 1)
      BY <2>3, OneEvent
    <3> QED
      BY <2>1, <2>3, <3>1, Zenon DEF EventsOK
  <2> QED
    BY <2>2, <2>3, Zenon DEF EventsOK
<1>2. CASE EngineTakes
  BY <1>2, OneEvent, Zenon DEF EngineTakes, EventsOK
<1>3. ASSUME UNCHANGED events PROVE EventsOK'
  BY <1>3, Zenon DEF EventsOK
<1> QED
  BY <1>1, <1>2, <1>3, Zenon
  DEF Next, ClientStep, Discover, Dial, FailToConnect, Authenticated,
      FailToAuthenticate, FailToRead, Disconnected, Wake, Stop, FailPassword,
      Leave, ServerAnswers, ServerTells, ServerFails, ServerReturns,
      ConnectionBreaks, Cancel, Tick, Finished, vars

-----------------------------------------------------------------------------
(* The connection: the server answers the credentials once, so what is on  *)
(* its way is that answer and what the server has told since.              *)

WireOK ==
    /\ conn \in {"none", "open", "known", "broken"}
    /\ messages \in 0..MaxMessages
    /\ outages \in 0..MaxOutages
    /\ inbox \in Seq(Messages)
    /\ Len(inbox) <= messages + 1
    /\ conn \in {"none", "open"} => inbox = <<>>
    /\ phase \in {"discover", "dial", "left", "sleep", "stopped"} => conn = "none"

-----------------------------------------------------------------------------
(* The rest: while the client sleeps, what it has slept and what is left   *)
(* add up to the backoff.                                                  *)

RestOK ==
    /\ phase \in {"discover", "dial", "authenticate", "listen", "left",
                  "sleep", "stopped"}
    /\ backoff \in ReconnectInterval..ReconnectMax
    /\ sleep \in 0..ReconnectMax
    /\ rested \in 0..ReconnectMax
    /\ failures \in 0..ReconnectMax
    /\ phase = "left" => rested = 0
    /\ phase = "sleep" => rested + sleep = backoff

FlagsOK ==
    wasAuthenticated \in BOOLEAN /\ pctxDone \in BOOLEAN /\ serverUp \in BOOLEAN

LEMMA RestStep == RestOK /\ [Next]_vars => RestOK'
<1> USE NotifyPushAssumption DEF NotifyPushAssumption
<1> SUFFICES ASSUME RestOK, [Next]_vars PROVE RestOK'
  OBVIOUS
<1>1. ASSUME NEW b \in BOOLEAN, Leave(b) PROVE RestOK'
  BY <1>1 DEF Leave, Least, RestOK
<1>2. CASE Disconnected
  BY <1>2 DEF Disconnected, RestOK, history
<1>3. CASE Wake
  <2>1. backoff' \in ReconnectInterval..ReconnectMax
    BY <1>3 DEF Wake, Doubled, Least, RestOK
  <2> QED
    BY <1>3, <2>1 DEF Wake, FirstCall, RestOK, history
<1>4. CASE Tick
  BY <1>4 DEF Tick, RestOK
<1>5. ASSUME UNCHANGED <<backoff, sleep, rested, failures>>,
             phase' = phase \/ phase' \in {"dial", "authenticate", "listen", "stopped"}
      PROVE  RestOK'
  BY <1>5 DEF RestOK
<1> QED
  BY <1>1, <1>2, <1>3, <1>4, <1>5, Zenon
  DEF Next, ClientStep, Discover, Dial, FailToConnect, Authenticated,
      FailToAuthenticate, HandleMessage, FailToRead, Stop, FailPassword,
      ServerAnswers, ServerTells, ServerFails, ServerReturns, ConnectionBreaks,
      EngineTakes, Cancel, Finished, vars, loop, history

LEMMA WireStep == RestOK /\ WireOK /\ [Next]_vars => WireOK'
<1> USE NotifyPushAssumption DEF NotifyPushAssumption
<1> SUFFICES ASSUME RestOK, WireOK, [Next]_vars PROVE WireOK'
  OBVIOUS
<1>0. Len(inbox) \in Nat /\ messages \in Nat
  BY DEF WireOK
<1>1. ASSUME NEW b \in BOOLEAN, Leave(b), outages' \in 0..MaxOutages PROVE WireOK'
  <2>1. inbox' = <<>> /\ conn' = "none" /\ messages' = messages
    BY <1>1, Zenon DEF Leave
  <2>2. inbox' \in Seq(Messages) /\ Len(inbox') = 0
    BY <2>1
  <2> QED
    BY <1>0, <1>1, <2>1, <2>2 DEF WireOK
<1>2. CASE Authenticated \/ HandleMessage
  <2>1. inbox # <<>> /\ inbox' = Tail(inbox) /\ phase' = "listen"
        /\ UNCHANGED <<conn, messages, outages>>
    BY <1>2 DEF Authenticated, HandleMessage, world
  <2>2. inbox' \in Seq(Messages) /\ Len(inbox') = Len(inbox) - 1
    BY <2>1, HeadTailProperties DEF WireOK
  <2>3. conn \notin {"none", "open"}
    BY <2>1, Zenon DEF WireOK
  <2> QED
    BY <1>0, <2>1, <2>2, <2>3 DEF WireOK
<1>3. CASE Dial
  <2>1. inbox' = <<>> /\ inbox = <<>>
    BY <1>3 DEF Dial, WireOK
  <2> QED
    BY <1>3, <2>1 DEF Dial, WireOK, world
<1>4. CASE ServerAnswers
  <2>1. PICK m \in Messages : inbox' = Append(inbox, m)
    BY <1>4 DEF ServerAnswers, Messages
  <2>2. inbox = <<>> /\ Len(<<>>) = 0
    BY <1>4 DEF ServerAnswers, WireOK
  <2>3. inbox' \in Seq(Messages) /\ Len(inbox') = Len(inbox) + 1
    BY <2>1, AppendProperties DEF WireOK
  <2>4. outages' \in 0..MaxOutages
    BY <1>4 DEF ServerAnswers, WireOK
  <2> QED
    BY <1>0, <1>4, <2>2, <2>3, <2>4 DEF ServerAnswers, WireOK
<1>5. ASSUME NEW m \in Notifications, ServerTells(m) PROVE WireOK'
  <2>1. m \in Messages
    BY DEF Messages
  <2>2. inbox' \in Seq(Messages) /\ Len(inbox') <= Len(inbox) + 1
        /\ (conn # "known" => inbox' = inbox)
    BY <1>0, <1>5, <2>1, AppendProperties DEF ServerTells, WireOK
  <2> QED
    BY <1>0, <1>5, <2>2 DEF ServerTells, WireOK
<1>6. CASE ServerFails \/ ConnectionBreaks
  <2>1. UNCHANGED <<phase, inbox, messages>> /\ outages' \in 0..MaxOutages
    BY <1>6 DEF ServerFails, ConnectionBreaks, WireOK
  <2>2. (conn = "none" /\ conn' = "none") \/ (conn # "none" /\ conn' = "broken")
    BY <1>6, Zenon DEF ServerFails, ConnectionBreaks
  <2> QED
    BY <2>1, <2>2, Zenon DEF WireOK
<1>7. ASSUME UNCHANGED <<wire, messages, outages>>,
             \/ phase' = phase
             \/ phase \in {"discover", "dial", "left", "sleep"}
      PROVE  WireOK'
  <2>1. UNCHANGED <<conn, inbox, messages, outages>>
    BY <1>7, Zenon DEF wire
  <2>2. phase' = phase \/ conn = "none"
    BY <1>7, Zenon DEF WireOK
  <2> QED
    BY <2>1, <2>2, Zenon DEF WireOK
<1>8. CASE FailPassword
  <2>1. Leave(FALSE)
    BY <1>8, Zenon DEF FailPassword
  <2>2. outages' \in 0..MaxOutages
    BY <1>8 DEF FailPassword, WireOK
  <2> QED
    BY <1>1, <2>1, <2>2
<1>9. CASE FailToConnect \/ FailToAuthenticate \/ FailToRead
  BY <1>1, <1>9 DEF FailToConnect, FailToAuthenticate, FailToRead, WireOK
<1> QED
  BY <1>2, <1>3, <1>4, <1>5, <1>6, <1>7, <1>8, <1>9, Zenon
  DEF Next, ClientStep, Discover, Disconnected, Wake, Stop, ServerReturns,
      EngineTakes, Cancel, Tick, Finished, vars, wire, world

LEMMA FlagsStep == FlagsOK /\ [Next]_vars => FlagsOK'
<1> SUFFICES ASSUME FlagsOK, [Next]_vars PROVE FlagsOK'
  OBVIOUS
<1>1. ASSUME NEW b \in BOOLEAN, Leave(b) PROVE FlagsOK'
  BY <1>1, Zenon DEF Leave, FlagsOK
<1> QED
  BY <1>1, Zenon
  DEF Next, ClientStep, Discover, Dial, FailToConnect, Authenticated,
      FailToAuthenticate, HandleMessage, FailToRead, Disconnected, Wake, Stop,
      FailPassword, ServerAnswers, ServerTells, ServerFails, ServerReturns,
      ConnectionBreaks, EngineTakes, Cancel, Tick, Finished, vars, loop, world,
      FlagsOK

-----------------------------------------------------------------------------
Parts == EventsOK /\ RestOK /\ WireOK /\ FlagsOK

LEMMA PartsInvariant == Spec => []Parts
<1>1. Init => Parts
  <2> SUFFICES ASSUME Init PROVE Parts
    OBVIOUS
  <2> USE NotifyPushAssumption DEF NotifyPushAssumption
  <2>1. EventsOK
    BY Zenon DEF Init, EventsOK
  <2>2. phase \in {"discover", "dial"}
    BY Zenon DEF Init, FirstCall
  <2>3. RestOK
    BY <2>2 DEF Init, RestOK
  <2>4. WireOK
    BY <2>2 DEF Init, WireOK
  <2>5. FlagsOK
    BY DEF Init, FlagsOK
  <2> QED
    BY <2>1, <2>3, <2>4, <2>5 DEF Parts
<1>2. Parts /\ [Next]_vars => Parts'
  BY EventsStep, RestStep, WireStep, FlagsStep, Zenon DEF Parts
<1> QED
  BY <1>1, <1>2, PTL DEF Spec

\* Every variable keeps to its values: the backoff stays between its two ends
\* and no more is on its way than the answer and what the server told.
THEOREM PushTypeOK == Spec => []TypeOK
<1>1. Parts => TypeOK
  <2> SUFFICES ASSUME Parts PROVE TypeOK
    OBVIOUS
  <2>1. Len(inbox) <= MaxMessages + 1
    BY NotifyPushAssumption DEF NotifyPushAssumption, Parts, WireOK
  <2> QED
    BY <2>1, Zenon DEF Parts, EventsOK, RestOK, WireOK, FlagsOK, TypeOK
<1> QED
  BY <1>1, PartsInvariant, PTL

\* Nobody reconnects without having slept for the whole backoff.
THEOREM PushRests == Spec => [][Wake => rested = backoff]_vars
<1>1. RestOK => [Wake => rested = backoff]_vars
  BY DEF RestOK, Wake
<1>2. Parts => RestOK
  BY DEF Parts
<1> QED
  BY <1>1, <1>2, PartsInvariant, PTL

-----------------------------------------------------------------------------
(* The backoff doubles.                                                    *)

\* A power of two is the number of subsets, so the next is twice as large.
LEMMA PowersOfTwo ==
    /\ 2^0 = 1
    /\ \A n \in Nat : 2^n \in Nat /\ 2^(n + 1) = 2 * 2^n
<1> DEFINE Small(n) == SUBSET (1..n)
           Large(n) == {T \cup {n + 1} : T \in Small(n)}
<1>1. ASSUME NEW n \in Nat
      PROVE  /\ IsFiniteSet(Small(n)) /\ Cardinality(Small(n)) = 2^n
             /\ 2^n \in Nat
  <2>1. IsFiniteSet(1..n) /\ Cardinality(1..n) = n
    <3>1. IsFiniteSet(1..n) /\ Cardinality(1..n) = IF 1 > n THEN 0 ELSE n - 1 + 1
      BY FS_Interval
    <3> QED
      BY <3>1
  <2>2. IsFiniteSet(Small(n)) /\ Cardinality(Small(n)) = 2^n
    BY <2>1, FS_SUBSET
  <2> QED
    BY <2>2, FS_CardinalityType
<1>2. 2^0 = 1
  <2>1. Small(0) = {{}}
    BY SMT
  <2>2. Cardinality({{}}) = 1
    BY FS_Singleton
  <2> QED
    BY <1>1, <2>1, <2>2
<1>3. ASSUME NEW n \in Nat PROVE 2^(n + 1) = 2 * 2^n
  <2> DEFINE f == [T \in Small(n) |-> T \cup {n + 1}]
  <2>1. \A T \in Small(n) : n + 1 \notin T
    OBVIOUS
  <2>2. f \in Bijection(Small(n), Large(n))
    <3>1. f \in Surjection(Small(n), Large(n))
      BY DEF Surjection
    <3>2. ASSUME NEW T \in Small(n), NEW U \in Small(n), f[T] = f[U]
          PROVE  T = U
      <4>1. T \cup {n + 1} = U \cup {n + 1}
        BY <3>2
      <4>2. /\ T = (T \cup {n + 1}) \ {n + 1}
            /\ U = (U \cup {n + 1}) \ {n + 1}
        BY <2>1
      <4> HIDE DEF Small
      <4> QED
        BY <4>1, <4>2
    <3>3. f \in Injection(Small(n), Large(n))
      <4>1. f \in [Small(n) -> Large(n)]
        OBVIOUS
      <4> HIDE DEF f
      <4> QED
        BY <3>2, <4>1 DEF Injection, IsInjective
    <3> QED
      BY <3>1, <3>3 DEF Bijection
  <2>3. IsFiniteSet(Large(n)) /\ Cardinality(Large(n)) = 2^n
    <3> HIDE DEF f, Small, Large
    <3> QED
      BY <1>1, <2>2, FS_Bijection DEF ExistsBijection
  <2>4. Small(n) \cap Large(n) = {}
    BY <2>1
  <2>5. Small(n + 1) = Small(n) \cup Large(n)
    <3>1. 1..n + 1 = (1..n) \cup {n + 1}
      OBVIOUS
    <3>2. ASSUME NEW U \in Small(n + 1) PROVE U \in Small(n) \cup Large(n)
      <4>1. CASE n + 1 \in U
        <5>1. U \ {n + 1} \in Small(n) /\ U = (U \ {n + 1}) \cup {n + 1}
          BY <3>1, <4>1
        <5> QED
          BY <5>1
      <4>2. CASE n + 1 \notin U
        BY <3>1, <4>2
      <4> QED
        BY <4>1, <4>2
    <3>3. ASSUME NEW U \in Small(n) \cup Large(n) PROVE U \in Small(n + 1)
      BY <3>1
    <3> QED
      BY <3>2, <3>3
  <2> HIDE DEF Small, Large
  <2>6. Cardinality(Small(n + 1)) = 2^n + 2^n - Cardinality({})
    BY <1>1, <2>3, <2>4, <2>5, FS_Union
  <2> QED
    BY <1>1, <2>6, FS_EmptySet
<1> QED
  BY <1>1, <1>2, <1>3

\* What a run of failures asks for grows with it, never more than twofold.
LEMMA PatienceGrows ==
    ASSUME NEW n \in Nat
    PROVE  /\ Patience(n) \in Nat /\ Patience(n + 1) \in Nat
           /\ Patience(n) <= Patience(n + 1)
           /\ Patience(n + 1) <= Least(Patience(n) * 2, ReconnectMax)
           /\ Patience(0) = ReconnectInterval
           /\ Patience(1) = ReconnectInterval
<1> DEFINE unit(m) == ReconnectInterval * 2^m
<1>1. /\ ReconnectInterval \in Nat /\ ReconnectInterval >= 1
      /\ ReconnectMax \in Nat /\ ReconnectInterval <= ReconnectMax
  BY NotifyPushAssumption
<1>2. unit(0) = ReconnectInterval
  BY <1>1, PowersOfTwo
<1>3. ASSUME NEW m \in Nat
      PROVE  unit(m) \in Nat /\ unit(m + 1) = unit(m) + unit(m)
  <2> DEFINE p == 2^m
  <2>1. p \in Nat /\ 2^(m + 1) = 2 * p
    BY PowersOfTwo
  <2> HIDE DEF p
  <2>2. ReconnectInterval * p \in Nat
    BY <1>1, <2>1
  <2>3. ReconnectInterval * (2 * p) = ReconnectInterval * p + ReconnectInterval * p
    BY <1>1, <2>1
  <2> QED
    BY <2>1, <2>2, <2>3 DEF p
<1>4. Patience(0) = ReconnectInterval /\ Patience(1) = ReconnectInterval
  BY <1>1, <1>2 DEF Patience, Least
<1>5. CASE n = 0
  BY <1>1, <1>4, <1>5 DEF Least
<1>6. CASE n # 0
  <2>1. n - 1 \in Nat /\ (n - 1) + 1 = n /\ (n + 1) - 1 = n /\ n + 1 # 0
    BY <1>6
  <2> HIDE DEF unit
  <2>2. unit(n - 1) \in Nat /\ unit(n) = unit(n - 1) + unit(n - 1)
    BY <1>3, <2>1
  <2>3. /\ Patience(n) = Least(unit(n - 1), ReconnectMax)
        /\ Patience(n + 1) = Least(unit(n), ReconnectMax)
    BY <1>6, <2>1 DEF Patience, unit
  <2> QED
    BY <1>1, <1>4, <2>2, <2>3 DEF Least
<1> QED
  BY <1>5, <1>6

Trying == {"discover", "dial", "authenticate", "listen"}

\* While the client is at it, the backoff is enough for one failure more;
\* once it has failed, for all there were.
Grown ==
    /\ phase \in Trying =>
          backoff >= Patience(Least(failures + 1, ReconnectMax))
    /\ phase \in {"left", "sleep"} =>
          /\ backoff >= Patience(failures)
          /\ wasAuthenticated => failures = 0

LEMMA GrownStep == RestOK /\ FlagsOK /\ Grown /\ [Next]_vars => Grown'
<1> SUFFICES ASSUME RestOK, FlagsOK, Grown, [Next]_vars PROVE Grown'
  OBVIOUS
<1>0. /\ ReconnectInterval \in Nat \ {0} /\ ReconnectMax \in Nat \ {0}
      /\ failures \in Nat /\ failures <= ReconnectMax
      /\ backoff \in Nat /\ backoff >= ReconnectInterval
      /\ backoff <= ReconnectMax
  BY NotifyPushAssumption DEF RestOK
<1>1. ASSUME NEW b \in BOOLEAN, Leave(b), phase \in Trying PROVE Grown'
  <2>1. /\ phase' = "left" /\ wasAuthenticated' = b /\ backoff' = backoff
        /\ failures' = IF b THEN 0 ELSE Least(failures + 1, ReconnectMax)
    BY <1>1, Zenon DEF Leave
  <2>2. backoff >= Patience(Least(failures + 1, ReconnectMax))
    BY <1>1, Zenon DEF Grown
  <2>3. backoff' >= Patience(failures')
    <3>1. CASE b
      BY <1>0, <2>1, <3>1, PatienceGrows
    <3>2. CASE ~ b
      BY <2>1, <2>2, <3>2
    <3> QED
      BY <3>1, <3>2
  <2> QED
    BY <2>1, <2>3, Zenon DEF Grown, Trying
<1>2. CASE Disconnected
  BY <1>2, Zenon DEF Disconnected, Grown, history, Trying
<1>3. CASE Wake
  <2>1. /\ phase = "sleep" /\ phase' \in Trying
        /\ backoff' = IF wasAuthenticated THEN ReconnectInterval ELSE Doubled
        /\ failures' = failures
    BY <1>3, Zenon DEF Wake, FirstCall, Trying, history
  <2>2. /\ backoff >= Patience(failures)
        /\ wasAuthenticated => failures = 0
    BY <2>1, Zenon DEF Grown
  <2>3. /\ Patience(failures) \in Nat /\ Patience(failures + 1) \in Nat
        /\ Patience(failures) <= Patience(failures + 1)
        /\ Patience(failures + 1) <= Least(Patience(failures) * 2, ReconnectMax)
        /\ Patience(1) = ReconnectInterval
    BY <1>0, PatienceGrows
  <2>4. backoff' >= Patience(failures + 1) /\ backoff' \in Nat
    <3>1. CASE wasAuthenticated
      BY <1>0, <2>1, <2>2, <2>3, <3>1
    <3>2. CASE ~ wasAuthenticated
      BY <1>0, <2>1, <2>2, <2>3, <3>2 DEF Doubled, Least
    <3> QED
      BY <3>1, <3>2
  <2>5. Patience(Least(failures + 1, ReconnectMax)) <= Patience(failures + 1)
    <3>1. Least(failures + 1, ReconnectMax) \in {failures, failures + 1}
      BY <1>0 DEF Least
    <3> QED
      BY <2>3, <3>1
  <2>6. Patience(Least(failures + 1, ReconnectMax)) \in Nat
    <3>1. Least(failures + 1, ReconnectMax) \in {failures, failures + 1}
      BY <1>0 DEF Least
    <3> QED
      BY <2>3, <3>1
  <2>7. backoff' >= Patience(Least(failures' + 1, ReconnectMax))
    BY <2>1, <2>3, <2>4, <2>5, <2>6
  <2> QED
    BY <2>1, <2>7, Zenon DEF Grown, Trying
<1>4. ASSUME UNCHANGED <<backoff, failures, wasAuthenticated>>,
             \/ phase' = phase \/ phase' = "stopped"
             \/ phase \in Trying /\ phase' \in Trying
      PROVE  Grown'
  BY <1>4, Zenon DEF Grown, Trying
<1>5. CASE Tick
  BY <1>5, Zenon DEF Tick, Grown, Trying
<1>6. CASE FailToConnect \/ FailToAuthenticate \/ FailToRead \/ FailPassword
  BY <1>1, <1>6, Zenon
  DEF FailToConnect, FailToAuthenticate, FailToRead, FailPassword, Trying
<1> QED
  BY <1>2, <1>3, <1>4, <1>5, <1>6, Zenon
  DEF Next, ClientStep, Discover, Dial, Authenticated, HandleMessage, Stop,
      ServerAnswers, ServerTells, ServerFails, ServerReturns, ConnectionBreaks,
      EngineTakes, Cancel, Finished, vars, loop, history, Trying

\* A server that cannot be reached, or refuses, is tried at distances that
\* double up to the maximum; the distances start over only after a connection
\* that was authenticated, and nobody reconnects without a rest.
THEOREM PushBacksOff == Spec => BacksOff
<1>1. Init => Grown
  <2> SUFFICES ASSUME Init PROVE Grown
    OBVIOUS
  <2>1. /\ phase \in {"discover", "dial"} /\ backoff = ReconnectInterval
        /\ failures = 0
    BY Zenon DEF Init, FirstCall
  <2>2. Least(failures + 1, ReconnectMax) = 1
    BY <2>1, NotifyPushAssumption DEF Least
  <2>3. ReconnectInterval >= Patience(1)
    BY NotifyPushAssumption, PatienceGrows
  <2> QED
    BY <2>1, <2>2, <2>3 DEF Grown
<1>2. Parts /\ Grown /\ [Next]_vars => Grown'
  BY GrownStep DEF Parts
<1>3. Parts /\ Grown => [Wake => rested >= Patience(failures)]_vars
  <2> SUFFICES ASSUME Parts, Grown, Wake PROVE rested >= Patience(failures)
    OBVIOUS
  <2>1. rested = backoff
    BY DEF Parts, RestOK, Wake
  <2> QED
    BY <2>1 DEF Grown, Wake
<1> QED
  BY <1>1, <1>2, <1>3, PartsInvariant, PTL DEF Spec, BacksOff
=============================================================================
