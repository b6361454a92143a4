---------------------------- MODULE WebhookProofs ----------------------------
(***************************************************************************)
(* Theorems about Webhook, for any number of requests and addresses, any   *)
(* rate limit, purge interval and delay of the handlers.                   *)
(***************************************************************************)
EXTENDS Webhook, TLAPS

\* A channel with one place, full and empty.
LEMMA Channel ==
    /\ Len(<<>>) = 0 /\ Len(<<"webhook">>) = 1
    /\ Append(<<>>, "webhook") = <<"webhook">>
    /\ Tail(<<"webhook">>) = <<>>
OBVIOUS

\* Every variable keeps to its values; the channel holds one event at most.
THEOREM WebhookTypeOK == Spec => []TypeOK
<1> USE WebhookAssumption DEF WebhookAssumption, Times, Never, Bodies, Answers, Points
<1>1. Init => TypeOK
  <2> SUFFICES ASSUME Init PROVE TypeOK
    OBVIOUS
  <2>1. events \in {<<>>, <<"webhook">>}
    BY DEF Init
  <2>2. /\ gap \in [Addresses -> Int]
        /\ rateMap \in [Addresses -> Times] /\ admitted \in [Addresses -> Times]
        /\ rateCleanup \in Times /\ received \in Times
    BY DEF Init
  <2>3. stamp \in [Requests -> 0..MaxClock] /\ clock \in 0..MaxClock
    BY DEF Init
  <2>4. /\ server \in {"starting", "serving", "stopped", "failed"}
        /\ wctxDone \in BOOLEAN
        /\ pc \in [Requests -> Points] /\ path \in [Requests -> Bodies]
        /\ from \in [Requests -> Addresses]
    BY DEF Init
  <2> QED
    BY <2>1, <2>2, <2>3, <2>4, Zenon DEF TypeOK
<1>2. TypeOK /\ [Next]_vars => TypeOK'
  <2> SUFFICES ASSUME TypeOK, [Next]_vars PROVE TypeOK'
    OBVIOUS
  <2> USE DEF TypeOK, handler, rate
  <2>1. CASE Listen
    BY <2>1 DEF Listen
  <2>2. CASE Shutdown \/ ServeFails
    BY <2>2 DEF Shutdown, ServeFails
  <2>3. ASSUME NEW r \in Requests, Reject(r) PROVE TypeOK'
    BY <2>3 DEF Reject
  <2>4. ASSUME NEW r \in Requests, Accept(r) PROVE TypeOK'
    BY <2>4 DEF Accept
  <2>5. ASSUME NEW r \in Requests, Record(r) PROVE TypeOK'
    BY <2>5 DEF Record
  <2>6. ASSUME NEW r \in Requests
        PROVE  /\ Purged(stamp[r]) \in [Addresses -> Never..MaxClock]
               /\ Cleaned(stamp[r]) \in Never..MaxClock
    BY DEF Purged, Cleaned
  <2>7. ASSUME NEW r \in Requests, Limit(r) PROVE TypeOK'
    BY <2>6, <2>7 DEF Limit
  <2>8. ASSUME NEW r \in Requests, Admit(r) PROVE TypeOK'
    <3>1. from[r] \in Addresses /\ stamp[r] \in Never..MaxClock
      OBVIOUS
    <3>2. rateMap' \in [Addresses -> Never..MaxClock]
      BY <2>6, <2>8, <3>1 DEF Admit
    <3>3. admitted' \in [Addresses -> Never..MaxClock]
      BY <2>8, <3>1 DEF Admit
    <3>4. gap' \in [Addresses -> Int]
      BY <2>8, <3>1 DEF Admit
    <3> QED
      BY <2>6, <2>8, <3>2, <3>3, <3>4 DEF Admit
  <2>9. ASSUME NEW r \in Requests, BadBody(r) PROVE TypeOK'
    BY <2>9 DEF BadBody
  <2>10. ASSUME NEW r \in Requests, Filter(r) PROVE TypeOK'
    BY <2>10 DEF Filter
  <2>11. ASSUME NEW r \in Requests, Trigger(r) PROVE TypeOK'
    <3>1. events' \in {<<>>, <<"webhook">>}
      <4>1. events' = IF Len(events) < 1 THEN Append(events, "webhook") ELSE events
        BY <2>11, Zenon DEF Trigger, Capacity
      <4>2. events = <<>> \/ events = <<"webhook">>
        BY Zenon
      <4>3. CASE events = <<>>
        <5>1. events' = Append(<<>>, "webhook")
          BY <4>1, <4>3, Channel
        <5> QED
          BY <5>1, Channel, Zenon
      <4>4. CASE events = <<"webhook">>
        <5>1. events' = events
          BY <4>1, <4>4, Channel
        <5> QED
          BY <4>4, <5>1, Zenon
      <4> QED
        BY <4>2, <4>3, <4>4
    <3> QED
      BY <2>11, <3>1 DEF Trigger
  <2>12. CASE EngineTakes
    <3>1. events' = <<>>
      <4>1. events # <<>> /\ events' = Tail(events)
        BY <2>12, Zenon DEF EngineTakes
      <4>2. events = <<"webhook">>
        BY <4>1, Zenon
      <4> QED
        BY <4>1, <4>2, Channel, Zenon
    <3> QED
      BY <2>12, <3>1 DEF EngineTakes
  <2>13. CASE Cancel
    BY <2>13 DEF Cancel
  <2>14. CASE Tick
    BY <2>14 DEF Tick
  <2>15. CASE UNCHANGED vars
    BY <2>15 DEF vars
  <2> QED
    BY <2>1, <2>2, <2>3, <2>4, <2>5, <2>7, <2>8, <2>9, <2>10, <2>11, <2>12,
       <2>13, <2>14, <2>15 DEF Next, Handle, Finished
<1> QED
  BY <1>1, <1>2, PTL DEF Spec

-----------------------------------------------------------------------------
(* The rate limit.  The map holds the last admission of an address or has  *)
(* let it go, and then it is more than RateMin past; and the time that a   *)
(* handler acts on is at most MaxDelay old.                                *)

Recent(r) == stamp[r] <= clock /\ clock - stamp[r] <= MaxDelay

Remembered(a) ==
    /\ rateMap[a] # Never => rateMap[a] = admitted[a]
    /\ rateMap[a] = Never /\ admitted[a] # Never => clock - admitted[a] > RateMin

RateInv ==
    /\ \A r \in Requests : pc[r] \in {"record", "limit"} => Recent(r)
    /\ \A a \in Addresses : Remembered(a) /\ admitted[a] <= clock
    /\ Spacing

\* What a purge takes out of the map is old by the clock.
LEMMA PurgeKeeps ==
    ASSUME TypeOK, RateInv, NEW r \in Requests, pc[r] = "limit",
           NEW a \in Addresses
    PROVE  LET last == Purged(stamp[r])[a]
           IN  /\ last # Never => last = admitted[a]
               /\ last = Never /\ admitted[a] # Never =>
                      \/ clock - admitted[a] > RateMin
<1>1. /\ Remembered(a) /\ Recent(r)
      /\ stamp[r] \in Int /\ clock \in Int /\ admitted[a] \in Int
      /\ rateMap[a] \in Int
  BY DEF RateInv, TypeOK, Times, Never
<1>2. Purged(stamp[r])[a] \in {Never, rateMap[a]}
  BY DEF Purged
<1>3. Purged(stamp[r])[a] # rateMap[a] => stamp[r] - rateMap[a] > RateMin
  BY DEF Purged
<1> QED
  BY <1>1, <1>2, <1>3, WebhookAssumption DEF WebhookAssumption, Remembered, Recent, Never

\* Whatever the purge removes and however the handlers overtake each other,
\* for every number of them.
LEMMA RateInvariant == Spec => []RateInv
<1> USE WebhookAssumption DEF WebhookAssumption
<1>1. Init => RateInv
  BY DEF Init, RateInv, Remembered, Spacing, Never
<1>2. TypeOK /\ TypeOK' /\ RateInv /\ [Next]_vars => RateInv'
  <2> SUFFICES ASSUME TypeOK, TypeOK', RateInv, [Next]_vars PROVE RateInv'
    OBVIOUS
  <2>1. CASE UNCHANGED <<rate, clock, stamp>> /\
             \A r \in Requests : pc'[r] \in {"record", "limit"} => pc'[r] = pc[r]
    BY <2>1 DEF RateInv, Remembered, Recent, Spacing, rate
  <2>2. CASE Tick
    <3>1. ASSUME NEW r \in Requests, pc'[r] \in {"record", "limit"}
          PROVE  Recent(r)'
      BY <2>2, <3>1 DEF Tick, RateInv, Recent, TypeOK, handler
    <3>2. ASSUME NEW a \in Addresses PROVE Remembered(a)'
      BY <2>2 DEF Tick, RateInv, Remembered, TypeOK, rate, Times, Never
    <3>3. ASSUME NEW a \in Addresses PROVE admitted'[a] <= clock'
      <4>1. admitted' = admitted /\ clock' = clock + 1
            /\ admitted[a] \in Int /\ clock \in Int
        BY <2>2 DEF Tick, rate, TypeOK, Times, Never
      <4> QED
        BY <4>1 DEF RateInv
    <3>4. Spacing'
      BY <2>2 DEF Tick, RateInv, Spacing, rate
    <3> QED
      BY <3>1, <3>2, <3>3, <3>4 DEF RateInv
  <2>3. ASSUME NEW q \in Requests, Accept(q) \/ Record(q) PROVE RateInv'
    <3>1. ASSUME NEW r \in Requests, pc'[r] \in {"record", "limit"}
          PROVE  Recent(r)'
      <4>1. CASE r = q
        <5>1. stamp'[r] = clock /\ clock' = clock /\ clock \in Int
          BY <2>3, <4>1 DEF Accept, Record, TypeOK
        <5> QED
          BY <5>1 DEF Recent
      <4>2. CASE r # q
        BY <2>3, <3>1, <4>2 DEF Accept, Record, RateInv, Recent, TypeOK
      <4> QED
        BY <4>1, <4>2
    <3> QED
      BY <2>3, <3>1 DEF Accept, Record, RateInv, Remembered, Spacing, rate
  <2>4. ASSUME NEW q \in Requests, Limit(q) PROVE RateInv'
    <3>1. ASSUME NEW r \in Requests, pc'[r] \in {"record", "limit"}
          PROVE  Recent(r)'
      BY <2>4, <3>1 DEF Limit, RateInv, Recent, TypeOK
    <3>2. ASSUME NEW a \in Addresses PROVE Remembered(a)'
      BY <2>4, PurgeKeeps DEF Limit, Remembered
    <3> QED
      BY <2>4, <3>1, <3>2 DEF Limit, RateInv, Spacing
  <2>5. ASSUME NEW q \in Requests, Admit(q) PROVE RateInv'
    <3> DEFINE now == stamp[q]
    <3>1. ASSUME NEW r \in Requests, pc'[r] \in {"record", "limit"}
          PROVE  Recent(r)'
      BY <2>5, <3>1 DEF Admit, RateInv, Recent, TypeOK
    <3>2. from[q] \in Addresses /\ now \in Nat /\ pc[q] = "limit"
      BY <2>5 DEF TypeOK, Admit
    <3>3. ASSUME NEW a \in Addresses, a # from[q]
          PROVE  Remembered(a)' /\ gap'[a] = gap[a]
      <4>1. rateMap'[a] = Purged(now)[a] /\ admitted'[a] = admitted[a]
            /\ gap'[a] = gap[a] /\ clock' = clock
        BY <2>5, <3>2, <3>3 DEF Admit, TypeOK, Purged
      <4> QED
        BY <3>2, <4>1, PurgeKeeps DEF Remembered
    <3> DEFINE a == from[q]
    <3>4. rateMap'[a] = now /\ admitted'[a] = now
      BY <2>5, <3>2 DEF Admit, TypeOK, Purged
    <3>5. Remembered(a)'
      <4>1. a' = a
        BY <2>5 DEF Admit
      <4>2. now # Never
        BY <3>2 DEF Never
      <4> QED
        BY <3>4, <4>1, <4>2 DEF Remembered
    <3>6. gap'[a] >= RateMin \/ gap'[a] > RateMin - MaxDelay
      <4>1. CASE gap'[a] = gap[a]
        BY <3>2, <4>1 DEF RateInv, Spacing
      <4>2. CASE admitted[a] # Never /\ gap'[a] = now - admitted[a]
        <5> DEFINE last == Purged(now)[a]
        <5>1. last = Never \/ now - last >= RateMin
          BY <2>5 DEF Admit
        <5>2. /\ last # Never => last = admitted[a]
              /\ last = Never => clock - admitted[a] > RateMin
          BY <3>2, <4>2, PurgeKeeps
        <5>3. clock - now <= MaxDelay /\ clock \in Int /\ admitted[a] \in Int
          BY <3>2 DEF RateInv, Recent, TypeOK, Times, Never
        <5> HIDE DEF last, a, now
        <5>4. now \in Int
          BY <3>2
        <5> QED
          BY <4>2, <5>1, <5>2, <5>3, <5>4
      <4> QED
        BY <2>5, <3>2, <4>1, <4>2 DEF Admit, TypeOK
    <3>7. Spacing'
      BY <3>3, <3>6 DEF RateInv, Spacing
    <3>8. \A b \in Addresses : Remembered(b)'
      BY <2>5, <3>3, <3>5 DEF Admit
    <3>9. ASSUME NEW b \in Addresses PROVE admitted'[b] <= clock'
      <4>1. clock' = clock /\ admitted' = [admitted EXCEPT ![from[q]] = stamp[q]]
            /\ admitted \in [Addresses -> Times]
        BY <2>5 DEF Admit, TypeOK
      <4>2. stamp[q] <= clock
        BY <3>2 DEF RateInv, Recent
      <4> QED
        BY <4>1, <4>2 DEF RateInv
    <3> QED
      BY <3>1, <3>7, <3>8, <3>9 DEF RateInv
  <2>6. CASE Listen \/ Shutdown \/ ServeFails \/ EngineTakes \/ Cancel \/ Finished \/ UNCHANGED vars
    BY <2>1, <2>6 DEF Listen, Shutdown, ServeFails, EngineTakes, Cancel, Finished, vars, handler
  <2>7. ASSUME NEW q \in Requests,
               Reject(q) \/ BadBody(q) \/ Filter(q) \/ Trigger(q)
        PROVE  RateInv'
    BY <2>1, <2>7 DEF Reject, BadBody, Filter, Trigger, TypeOK
  <2> QED
    BY <2>2, <2>3, <2>4, <2>5, <2>6, <2>7 DEF Next, Handle
<1> QED
  BY <1>1, <1>2, WebhookTypeOK, PTL DEF Spec

\* Requests of one address pass the limit RateMin apart but for the delay.
THEOREM WebhookSpacing == Spec => []Spacing
<1>1. RateInv => Spacing
  BY DEF RateInv
<1> QED
  BY <1>1, RateInvariant, PTL

\* A request is refused only when another of its address has just passed.
THEOREM WebhookRefusals == Spec => RefusedOnlyIfRecent
<1>1. TypeOK /\ RateInv /\ [Next]_vars =>
        [\A r \in Requests :
            Limit(r) => /\ admitted[from[r]] # Never
                        /\ stamp[r] - admitted[from[r]] < RateMin
                        /\ admitted[from[r]] - stamp[r] <= MaxDelay]_vars
  <2> SUFFICES ASSUME TypeOK, RateInv, NEW r \in Requests, Limit(r)
               PROVE  /\ admitted[from[r]] # Never
                      /\ stamp[r] - admitted[from[r]] < RateMin
                      /\ admitted[from[r]] - stamp[r] <= MaxDelay
    OBVIOUS
  <2>1. from[r] \in Addresses /\ pc[r] = "limit"
    BY DEF Limit, TypeOK
  <2>2. admitted[from[r]] <= clock /\ clock - stamp[r] <= MaxDelay
    BY <2>1 DEF RateInv, Recent
  <2>3. /\ admitted[from[r]] \in Int /\ clock \in Int /\ stamp[r] \in Int
        /\ MaxDelay \in Int
    BY <2>1, WebhookAssumption DEF WebhookAssumption, TypeOK, Times, Never
  <2>4. admitted[from[r]] - stamp[r] <= MaxDelay
    BY <2>2, <2>3
  <2> QED
    BY <2>1, <2>4, PurgeKeeps DEF Limit
<1> QED
  BY <1>1, RateInvariant, WebhookTypeOK, PTL DEF Spec, RefusedOnlyIfRecent
=============================================================================
