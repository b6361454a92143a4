------------------------------ MODULE Webhook ------------------------------
(***************************************************************************)
(* internal/webhook/webhook.go: the HTTP server that Nextcloud and peer    *)
(* daemons post to.  net/http runs one goroutine per request, so handlers  *)
(* interleave: what they share is the rate map (under rateMu), health's    *)
(* lastWebhookReceived (under its mutex) and the engine's channel.  A      *)
(* handler reads the clock before it takes a lock, so it may act on an     *)
(* older time than the handlers that overtook it.  Clients, net/http and   *)
(* the engine's side of the channel are external.                          *)
(***************************************************************************)
EXTENDS Integers, Sequences

CONSTANTS
    Requests,       \* the requests of a behaviour, each served once
    Addresses,      \* the clients' IP addresses
    RateMin,        \* minimum time between two requests of one address
    PurgeEvery,     \* how often old entries leave the rate map
    Filtering,      \* is path_filter something else than "" and "/"?
    MaxDelay,       \* bound: time from reading the clock to using it
    MaxClock        \* bound: how long the behaviour lasts

ASSUME WebhookAssumption ==
    /\ RateMin \in Nat \ {0} /\ PurgeEvery \in Nat
    /\ Filtering \in BOOLEAN
    /\ MaxDelay \in Nat /\ MaxClock \in Nat

VARIABLES
    server,         \* Start: starting, serving, stopped or failed
    wctxDone,       \* the context is cancelled
    pc,             \* per request: control point of its handler
    from,           \* per request: the client's address
    path,           \* per request: what extractPath makes of its body
    stamp,          \* per request: the clock as its handler last read it
    rateMap,
    rateCleanup,
    received,       \* health.lastWebhookReceived
    events,         \* the engine's channel
    clock

\* History, read only by properties.
VARIABLES
    admitted,       \* per address: when it last passed the rate limit
    gap             \* per address: least time between two such passes

handler == <<pc, from, path, stamp>>
rate == <<rateMap, rateCleanup, admitted, gap>>
vars == <<server, wctxDone, handler, rate, received, events, clock>>

Never == -1
Capacity == 1

\* A body that names no path (not JSON, or a peer's notification), and one
\* whose path contains path_filter or does not.
Bodies == {"unknown", "inside", "outside"}
Answers == {"rejected", "limited", "bad", "filtered", "ok"}
Points == {"new", "record", "limit", "send"} \cup Answers

Init ==
    /\ server = "starting"
    /\ wctxDone = FALSE
    /\ pc = [r \in Requests |-> "new"]
    /\ from \in [Requests -> Addresses]
    /\ path = [r \in Requests |-> "unknown"]
    /\ stamp = [r \in Requests |-> 0]
    /\ rateMap = [a \in Addresses |-> Never]
    /\ rateCleanup = Never
    /\ received = Never
    /\ events = <<>>
    /\ clock = 0
    /\ admitted = [a \in Addresses |-> Never]
    /\ gap = [a \in Addresses |-> RateMin]

-----------------------------------------------------------------------------
(* Start.                                                                  *)

Listen ==
    /\ server = "starting"
    /\ \E outcome \in {"serving", "failed"} : server' = outcome
    /\ UNCHANGED <<wctxDone, handler, rate, received, events, clock>>

\* Serve returns as soon as Shutdown is called: Start does not wait for the
\* handlers, which go on.
Shutdown ==
    /\ server = "serving"
    /\ wctxDone
    /\ server' = "stopped"
    /\ UNCHANGED <<wctxDone, handler, rate, received, events, clock>>

\* Serve returns another error; the handlers that run go on.
ServeFails ==
    /\ server = "serving"
    /\ server' = "failed"
    /\ UNCHANGED <<wctxDone, handler, rate, received, events, clock>>

-----------------------------------------------------------------------------
(* The handler.                                                            *)

\* A GET, another method or a wrong secret: answered, and nothing else.
Reject(r) ==
    /\ server = "serving"
    /\ pc[r] = "new"
    /\ pc' = [pc EXCEPT ![r] = "rejected"]
    /\ UNCHANGED <<server, wctxDone, from, path, stamp, rate, received,
                   events, clock>>

\* A POST with the secret, up to the time.Now() of its health record.
Accept(r) ==
    /\ server = "serving"
    /\ pc[r] = "new"
    /\ pc' = [pc EXCEPT ![r] = "record"]
    /\ stamp' = [stamp EXCEPT ![r] = clock]
    /\ UNCHANGED <<server, wctxDone, from, path, rate, received, events, clock>>

\* RecordWebhookReceived, then the time.Now() of the rate limit.
Record(r) ==
    /\ pc[r] = "record"
    /\ received' = stamp[r]
    /\ stamp' = [stamp EXCEPT ![r] = clock]
    /\ pc' = [pc EXCEPT ![r] = "limit"]
    /\ UNCHANGED <<server, wctxDone, from, path, rate, events, clock>>

\* Mutant: the age of an entry is not looked at.
PurgedWhole(now) ==
    IF rateCleanup = Never \/ now - rateCleanup > PurgeEvery
    THEN [a \in Addresses |-> Never] ELSE rateMap

\* The rate map as a handler with time now finds it after the purge, if one
\* is due.  The zero time is more than PurgeEvery ago.
Purged(now) ==
    IF rateCleanup = Never \/ now - rateCleanup > PurgeEvery
    THEN [a \in Addresses |->
             IF now - rateMap[a] > RateMin THEN Never ELSE rateMap[a]]
    ELSE rateMap

Cleaned(now) ==
    IF rateCleanup = Never \/ now - rateCleanup > PurgeEvery
    THEN now ELSE rateCleanup

\* Mutant: a request that is refused starts the interval again.
LimitAnew(r) ==
    LET a == from[r]
        now == stamp[r]
        last == Purged(now)[a]
    IN  /\ pc[r] = "limit"
        /\ last # Never /\ now - last < RateMin
        /\ rateMap' = [Purged(now) EXCEPT ![a] = now]
        /\ rateCleanup' = Cleaned(now)
        /\ pc' = [pc EXCEPT ![r] = "limited"]
        /\ UNCHANGED <<server, wctxDone, from, path, stamp, received, events,
                       clock, admitted, gap>>

\* One critical section of rateMu, the request being refused.
Limit(r) ==
    LET a == from[r]
        now == stamp[r]
        last == Purged(now)[a]
    IN  /\ pc[r] = "limit"
        /\ last # Never /\ now - last < RateMin
        /\ rateMap' = Purged(now)
        /\ rateCleanup' = Cleaned(now)
        /\ pc' = [pc EXCEPT ![r] = "limited"]
        /\ UNCHANGED <<server, wctxDone, from, path, stamp, received, events,
                       clock, admitted, gap>>

\* The same, the request being admitted.
Admit(r) ==
    LET a == from[r]
        now == stamp[r]
        last == Purged(now)[a]
    IN  /\ pc[r] = "limit"
        /\ last = Never \/ now - last >= RateMin
        /\ rateMap' = [Purged(now) EXCEPT ![a] = now]
        /\ rateCleanup' = Cleaned(now)
        /\ admitted' = [admitted EXCEPT ![a] = now]
        /\ gap' = [gap EXCEPT ![a] =
                      IF admitted[a] # Never /\ now - admitted[a] < @
                      THEN now - admitted[a] ELSE @]
        /\ pc' = [pc EXCEPT ![r] = "send"]
        /\ UNCHANGED <<server, wctxDone, from, path, stamp, received, events,
                       clock>>

\* The body is too slow or the connection breaks.
BadBody(r) ==
    /\ pc[r] = "send"
    /\ pc' = [pc EXCEPT ![r] = "bad"]
    /\ UNCHANGED <<server, wctxDone, from, path, stamp, rate, received,
                   events, clock>>

\* A body without a path has the path "unknown", which a path_filter such
\* as "/alice/" is not part of.
Filter(r) ==
    /\ pc[r] = "send"
    /\ Filtering
    /\ \E body \in Bodies \ {"inside"} : path' = [path EXCEPT ![r] = body]
    /\ pc' = [pc EXCEPT ![r] = "filtered"]
    /\ UNCHANGED <<server, wctxDone, from, stamp, rate, received,
                   events, clock>>

\* Mutant: the channel has room for every event.
TriggerQueueing(r) ==
    /\ pc[r] = "send"
    /\ \E body \in IF Filtering THEN {"inside"} ELSE Bodies :
          path' = [path EXCEPT ![r] = body]
    /\ events' = Append(events, "webhook")
    /\ pc' = [pc EXCEPT ![r] = "ok"]
    /\ UNCHANGED <<server, wctxDone, from, stamp, rate, received, clock>>

\* The answer is "ok", also when the channel is full and the event dropped.
Trigger(r) ==
    /\ pc[r] = "send"
    /\ \E body \in IF Filtering THEN {"inside"} ELSE Bodies :
          path' = [path EXCEPT ![r] = body]
    /\ events' = IF Len(events) < Capacity
                 THEN Append(events, "webhook") ELSE events
    /\ pc' = [pc EXCEPT ![r] = "ok"]
    /\ UNCHANGED <<server, wctxDone, from, stamp, rate, received,
                   clock>>

-----------------------------------------------------------------------------
(* The surroundings.                                                       *)

EngineTakes ==
    /\ events # <<>>
    /\ events' = Tail(events)
    /\ UNCHANGED <<server, wctxDone, handler, rate, received, clock>>

Cancel ==
    /\ ~wctxDone
    /\ wctxDone' = TRUE
    /\ UNCHANGED <<server, handler, rate, received, events, clock>>

\* Handlers are prompt: none holds on to a time for more than MaxDelay.
Tick ==
    /\ clock < MaxClock
    /\ \A r \in Requests :
          pc[r] \in {"record", "limit"} => clock - stamp[r] < MaxDelay
    /\ clock' = clock + 1
    /\ UNCHANGED <<server, wctxDone, handler, rate, received, events>>

\* The server has stopped and every handler is through.
Finished ==
    /\ server \in {"stopped", "failed"}
    /\ wctxDone
    /\ \A r \in Requests : pc[r] \in {"new"} \cup Answers
    /\ UNCHANGED vars

Handle(r) ==
    \/ Record(r)
    \/ Limit(r) \/ Admit(r)
    \/ BadBody(r) \/ Filter(r) \/ Trigger(r)

Next ==
    \/ Listen \/ Shutdown \/ ServeFails
    \/ \E r \in Requests : Reject(r) \/ Accept(r) \/ Handle(r)
    \/ EngineTakes \/ Cancel \/ Tick \/ Finished

Spec == Init /\ [][Next]_vars

-----------------------------------------------------------------------------
(* Properties.                                                             *)

Times == Never..MaxClock

TypeOK ==
    /\ server \in {"starting", "serving", "stopped", "failed"}
    /\ wctxDone \in BOOLEAN
    /\ pc \in [Requests -> Points]
    /\ from \in [Requests -> Addresses]
    /\ path \in [Requests -> Bodies]
    /\ stamp \in [Requests -> 0..MaxClock]
    /\ rateMap \in [Addresses -> Times]
    /\ rateCleanup \in Times
    /\ received \in Times
    /\ events \in {<<>>, <<"webhook">>}
    /\ clock \in 0..MaxClock
    /\ admitted \in [Addresses -> Times]
    /\ gap \in [Addresses -> Int]

\* However the handlers overtake each other and whatever the purge removes,
\* two requests of one address pass the rate limit no less than RateMin apart
\* by the clock they read, but for the delay of a handler.
Spacing ==
    \A a \in Addresses : gap[a] >= RateMin \/ gap[a] > RateMin - MaxDelay

\* The rate limit refuses a request only if another of its address passed
\* less than RateMin before it, or after it, where it was overtaken, and then
\* by no more than the delay of a handler: a refusal never prolongs the wait,
\* and the entry of one address never counts against another.
RefusedOnlyIfRecent ==
    [][\A r \in Requests :
          Limit(r) => /\ admitted[from[r]] # Never
                      /\ stamp[r] - admitted[from[r]] < RateMin
                      /\ admitted[from[r]] - stamp[r] <= MaxDelay]_vars

\* webhook.go:204, "we still trigger a sync on any valid notification" whose
\* path is unknown, and peer/notifier.go sends no other.
UnknownPathTriggers ==
    \A r \in Requests : pc[r] = "filtered" => path[r] # "unknown"
=============================================================================
