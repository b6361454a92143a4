----------------------------- MODULE NotifyPush -----------------------------
(***************************************************************************)
(* internal/notifypush/client.go: the source that keeps a WebSocket open   *)
(* to the server's notify_push app and reconnects with a growing backoff.  *)
(* The server, the network and the WebSocket library are external: a       *)
(* connection delivers in order what was sent on it until it breaks, a     *)
(* call that was given the context returns when the context is done, and   *)
(* the server tells a client of changes only while it is connected.        *)
(***************************************************************************)
EXTENDS Integers, Sequences

CONSTANTS
    ReconnectInterval, ReconnectMax,    \* in time units
    Discovering,    \* is notify_push.url unset?
    MaxMessages,    \* bound: what the server has to tell
    MaxOutages      \* bound: how often something fails

ASSUME NotifyPushAssumption ==
    /\ ReconnectInterval \in Nat \ {0} /\ ReconnectMax \in Nat
    /\ ReconnectMax >= ReconnectInterval         \* config.Validate
    /\ Discovering \in BOOLEAN
    /\ MaxMessages \in Nat /\ MaxOutages \in Nat

VARIABLES
    phase,          \* control point of Start and the calls it makes
    backoff,
    wasAuthenticated,
    sleep,          \* what is left of time.After(backoff)
    pctxDone,       \* the context is cancelled
    events,         \* the engine's channel
    conn,           \* none, open, known (credentials answered) or broken
    inbox,          \* messages on their way to the client
    serverUp,
    messages, outages

\* History, read only by properties.
VARIABLES
    rested,         \* time slept since the last attempt, up to the maximum
    failures        \* attempts in a row that failed, up to the maximum

loop == <<backoff, wasAuthenticated, sleep>>
wire == <<conn, inbox>>
world == <<serverUp, messages, outages>>
history == <<rested, failures>>
vars == <<phase, loop, pctxDone, events, wire, world, history>>

Capacity == 1
FileMessages == {"notify_file", "notify_file_id"}
Notifications == FileMessages \cup {"notify_activity"}
Messages == Notifications \cup {"authenticated", "refused"}

FirstCall == IF Discovering THEN "discover" ELSE "dial"

Least(a, b) == IF a < b THEN a ELSE b

Init ==
    /\ phase = FirstCall
    /\ backoff = ReconnectInterval
    /\ wasAuthenticated = FALSE
    /\ sleep = 0
    /\ pctxDone = FALSE
    /\ events = <<>>
    /\ conn = "none"
    /\ inbox = <<>>
    /\ serverUp \in BOOLEAN
    /\ messages = 0
    /\ outages = 0
    /\ rested = 0
    /\ failures = 0

-----------------------------------------------------------------------------
(* connectAndListen.                                                       *)

\* It returns an error, and its deferred calls close what it opened.
Leave(authenticated) ==
    /\ phase' = "left"
    /\ wasAuthenticated' = authenticated
    /\ conn' = "none"
    /\ inbox' = <<>>
    /\ rested' = 0
    /\ failures' = IF authenticated THEN 0
                   ELSE Least(failures + 1, ReconnectMax)
    /\ UNCHANGED <<backoff, sleep, pctxDone, events, serverUp, messages>>

Discover ==
    /\ phase = "discover"
    /\ serverUp
    /\ phase' = "dial"
    /\ UNCHANGED <<loop, pctxDone, events, wire, world, history>>

Dial ==
    /\ phase = "dial"
    /\ serverUp
    /\ phase' = "authenticate"
    /\ conn' = "open"
    /\ UNCHANGED <<loop, pctxDone, events, inbox, world, history>>

\* discoverPushURL or websocket.Dial fails: no server, or no context.
FailToConnect ==
    /\ phase \in {"discover", "dial"}
    /\ ~serverUp \/ pctxDone
    /\ Leave(FALSE)
    /\ UNCHANGED outages

\* resolvePassword reads the password file at each use of the password.
FailPassword ==
    /\ \/ phase = "discover"
       \/ phase = "authenticate" /\ conn = "open"
    /\ outages < MaxOutages
    /\ outages' = outages + 1
    /\ Leave(FALSE)

Authenticated ==
    /\ phase = "authenticate"
    /\ inbox # <<>>
    /\ Head(inbox) = "authenticated"
    /\ inbox' = Tail(inbox)
    /\ phase' = "listen"
    /\ UNCHANGED <<loop, pctxDone, events, conn, world, history>>

\* Mutant: a refusal ends the source.
RefusedForGood ==
    /\ phase = "authenticate"
    /\ \/ conn = "broken" \/ pctxDone
       \/ inbox # <<>> /\ Head(inbox) # "authenticated"
    /\ phase' = "stopped"
    /\ conn' = "none"
    /\ inbox' = <<>>
    /\ UNCHANGED <<loop, pctxDone, events, world, history>>

\* The connection breaks, the context is done, or the first message of the
\* server is another one.
FailToAuthenticate ==
    /\ phase = "authenticate"
    /\ \/ conn = "broken" \/ pctxDone
       \/ inbox # <<>> /\ Head(inbox) # "authenticated"
    /\ Leave(FALSE)
    /\ UNCHANGED outages

\* A change of files is put into the channel, or dropped when that is full;
\* any other message is ignored.
HandleMessage ==
    /\ phase = "listen"
    /\ inbox # <<>>
    /\ inbox' = Tail(inbox)
    /\ events' = IF Head(inbox) \in FileMessages /\ Len(events) < Capacity
                 THEN Append(events, "notify_push") ELSE events
    /\ UNCHANGED <<phase, loop, pctxDone, conn, world, history>>

FailToRead ==
    /\ phase = "listen"
    /\ conn = "broken" \/ pctxDone
    /\ Leave(TRUE)
    /\ UNCHANGED outages

-----------------------------------------------------------------------------
(* Start.                                                                  *)

Disconnected ==
    /\ phase = "left"
    /\ ~pctxDone
    /\ phase' = "sleep"
    /\ sleep' = backoff
    /\ UNCHANGED <<backoff, wasAuthenticated, pctxDone, events, wire, world,
                   history>>

Stop ==
    /\ phase \in {"left", "sleep"}
    /\ pctxDone
    /\ phase' = "stopped"
    /\ UNCHANGED <<loop, pctxDone, events, wire, world, history>>

\* Mutant: no cap.
DoubledFreely == backoff * 2

\* Mutant: a constant backoff.
NotDoubled == backoff

Doubled == Least(backoff * 2, ReconnectMax)

\* The sleep is over; the backoff of the next one is chosen only now.
Wake ==
    /\ phase = "sleep"
    /\ sleep = 0
    /\ backoff' = IF wasAuthenticated THEN ReconnectInterval ELSE Doubled
    /\ phase' = FirstCall
    /\ UNCHANGED <<wasAuthenticated, sleep, pctxDone, events, wire, world,
                   history>>

-----------------------------------------------------------------------------
(* The surroundings.                                                       *)

\* Two writes of the client, username and password, and one answer.
ServerAnswers ==
    /\ conn = "open"
    /\ conn' = "known"
    /\ \/ /\ inbox' = Append(inbox, "authenticated")
          /\ UNCHANGED outages
       \/ /\ outages < MaxOutages
          /\ inbox' = Append(inbox, "refused")
          /\ outages' = outages + 1
    /\ UNCHANGED <<phase, loop, pctxDone, events, serverUp, messages, history>>

\* Something happens on the server: only who is connected is told.
ServerTells(m) ==
    /\ messages < MaxMessages
    /\ messages' = messages + 1
    /\ inbox' = IF conn = "known" THEN Append(inbox, m) ELSE inbox
    /\ UNCHANGED <<phase, loop, pctxDone, events, conn, serverUp, outages,
                   history>>

\* With the server go its connections; ConnectionBreaks is the network's.
ServerFails ==
    /\ serverUp
    /\ outages < MaxOutages
    /\ outages' = outages + 1
    /\ serverUp' = FALSE
    /\ conn' = IF conn = "none" THEN conn ELSE "broken"
    /\ UNCHANGED <<phase, loop, pctxDone, events, inbox, messages, history>>

ServerReturns ==
    /\ ~serverUp
    /\ serverUp' = TRUE
    /\ UNCHANGED <<phase, loop, pctxDone, events, wire, messages, outages,
                   history>>

ConnectionBreaks ==
    /\ conn \in {"open", "known"}
    /\ outages < MaxOutages
    /\ outages' = outages + 1
    /\ conn' = "broken"
    /\ UNCHANGED <<phase, loop, pctxDone, events, inbox, serverUp, messages,
                   history>>

EngineTakes ==
    /\ events # <<>>
    /\ events' = Tail(events)
    /\ UNCHANGED <<phase, loop, pctxDone, wire, world, history>>

Cancel ==
    /\ ~pctxDone
    /\ pctxDone' = TRUE
    /\ UNCHANGED <<phase, loop, events, wire, world, history>>

Tick ==
    /\ phase = "sleep"
    /\ sleep > 0
    /\ sleep' = sleep - 1
    /\ rested' = rested + 1
    /\ UNCHANGED <<phase, backoff, wasAuthenticated, pctxDone, events, wire,
                   world, failures>>

Finished ==
    /\ phase = "stopped"
    /\ UNCHANGED vars

ClientStep ==
    \/ Discover \/ Dial \/ FailToConnect
    \/ Authenticated \/ FailToAuthenticate
    \/ HandleMessage \/ FailToRead
    \/ Disconnected \/ Wake \/ Stop

Next ==
    \/ ClientStep \/ FailPassword
    \/ ServerAnswers \/ (\E m \in Notifications : ServerTells(m))
    \/ ServerFails \/ ServerReturns \/ ConnectionBreaks
    \/ EngineTakes \/ Cancel \/ Tick \/ Finished

Spec == Init /\ [][Next]_vars

\* The goroutine runs, time passes, and a server that is up answers.
Fairness == WF_vars(ClientStep) /\ WF_vars(ServerAnswers) /\ WF_vars(Tick)

FairSpec == Spec /\ Fairness

-----------------------------------------------------------------------------
(* Properties.                                                             *)

TypeOK ==
    /\ phase \in {"discover", "dial", "authenticate", "listen", "left",
                  "sleep", "stopped"}
    /\ backoff \in ReconnectInterval..ReconnectMax
    /\ wasAuthenticated \in BOOLEAN
    /\ sleep \in 0..ReconnectMax
    /\ pctxDone \in BOOLEAN
    /\ events \in {<<>>, <<"notify_push">>}
    /\ conn \in {"none", "open", "known", "broken"}
    /\ inbox \in Seq(Messages)
    /\ Len(inbox) <= MaxMessages + 1
    /\ serverUp \in BOOLEAN
    /\ messages \in 0..MaxMessages
    /\ outages \in 0..MaxOutages
    /\ rested \in 0..ReconnectMax
    /\ failures \in 0..ReconnectMax

\* A server that cannot be reached or refuses is tried at distances that
\* double up to the maximum, whatever connections came before; and nobody
\* reconnects without a rest.
Patience(n) ==
    IF n = 0 THEN ReconnectInterval
    ELSE Least(ReconnectInterval * 2^(n - 1), ReconnectMax)

BacksOff == [][Wake => rested >= Patience(failures)]_vars

\* However often it failed, once the server stays reachable and answers, the
\* client is connected and stays so.
Recovers == <>[](serverUp /\ ~pctxDone) => <>[](phase = "listen")
=============================================================================
