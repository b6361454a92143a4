------------------------------ MODULE AppAuth ------------------------------
(***************************************************************************)
(* --get-app-password: runGetAppPassword of main.go and Login Flow v2 of   *)
(* internal/appauth/appauth.go.  The command asks the server, at each tick *)
(* and until a deadline, for the password that the user's approval         *)
(* releases; the server gives it out once.  The user, the network and the  *)
(* server are external.                                                    *)
(***************************************************************************)
EXTENDS Integers

CONSTANTS
    Validity,       \* tokenValidity, in time units
    Every,          \* Poll's interval
    Patience,       \* the client's timeout for one request
    Lag             \* bound: how much sooner the server's token runs out

AppAuthAssumption ==
    /\ Validity \in Nat /\ Every \in Nat \ {0} /\ Patience \in Nat \ {0}
    /\ Lag \in Nat

VARIABLES
    phase,          \* where the command is
    ctxDone,        \* it was interrupted
    age,            \* time since Poll began, up to just past Validity
    nextTick,       \* time until the ticker's next tick
    tick,           \* a tick waits in the ticker's channel
    answer,         \* what the server answered the request in flight
    waited,         \* how long that request has taken
    grant,          \* the server: the token and its password
    stray           \* a request the client gave up on may yet arrive

\* History, read only by properties.
VARIABLES
    approvedAt,     \* age at the approval
    lost            \* a request or an answer was lost after the approval

flow == <<phase, ctxDone, age, nextTick, tick, answer, waited>>
vars == <<flow, grant, stray, approvedAt, lost>>

Never == -1
Ended == {"printed", "cancelled", "expired", "refused"}
Answers == {"none", "pending", "password", "useless"}

Init ==
    /\ phase = "starting"
    /\ ctxDone = FALSE
    /\ age = 0
    /\ nextTick = Every
    /\ tick = FALSE
    /\ answer = "none"
    /\ waited = 0
    /\ grant = "open"
    /\ stray = FALSE
    /\ approvedAt = Never
    /\ lost = FALSE

-----------------------------------------------------------------------------
(* The command.                                                            *)

\* The server's URL is known, from the flag or the configuration, and it
\* answers with a login URL and a poll token; or one of this fails.
Begin ==
    /\ phase = "starting"
    /\ \E outcome \in {"waiting", "refused"} : phase' = outcome
    /\ UNCHANGED <<ctxDone, age, nextTick, tick, answer, waited, grant, stray,
                   approvedAt, lost>>

GiveUp ==
    /\ phase = "waiting"
    /\ ctxDone
    /\ phase' = "cancelled"
    /\ UNCHANGED <<ctxDone, age, nextTick, tick, answer, waited, grant, stray,
                   approvedAt, lost>>

Expire ==
    /\ phase = "waiting"
    /\ tick
    /\ age > Validity
    /\ phase' = "expired"
    /\ tick' = FALSE
    /\ UNCHANGED <<ctxDone, age, nextTick, answer, waited, grant, stray,
                   approvedAt, lost>>

\* With the context cancelled, Do fails at once and nothing is sent.
Ask ==
    /\ phase = "waiting"
    /\ tick
    /\ age <= Validity
    /\ phase' = IF ctxDone THEN "waiting" ELSE "asking"
    /\ tick' = FALSE
    /\ answer' = "none"
    /\ waited' = 0
    /\ UNCHANGED <<ctxDone, age, nextTick, grant, stray, approvedAt, lost>>

\* Mutant: a pause after each request in place of the ticker.
HearAndPause ==
    /\ phase = "asking"
    /\ answer # "none"
    /\ phase' = CASE answer = "pending"  -> "waiting"
                  [] answer = "password" -> "printed"
                  [] answer = "useless"  -> "refused"
    /\ nextTick' = Every
    /\ tick' = FALSE
    /\ UNCHANGED <<ctxDone, age, answer, waited, grant, stray, approvedAt, lost>>

\* 404 means not approved yet; a status of another kind, or a 200 without
\* a password, ends the command.
Hear ==
    /\ phase = "asking"
    /\ answer # "none"
    /\ phase' = CASE answer = "pending"  -> "waiting"
                  [] answer = "password" -> "printed"
                  [] answer = "useless"  -> "refused"
    /\ UNCHANGED <<ctxDone, age, nextTick, tick, answer, waited, grant, stray,
                   approvedAt, lost>>

\* A broken connection, the client's timeout or a cancelled context: the
\* loop goes on.  What was sent may still reach the server.
Fail ==
    /\ phase = "asking"
    /\ phase' = "waiting"
    /\ stray' = (stray \/ answer = "none")
    /\ lost' = (lost \/ grant # "open")
    /\ UNCHANGED <<ctxDone, age, nextTick, tick, answer, waited, grant,
                   approvedAt>>

-----------------------------------------------------------------------------
(* The user, the server, the clock.                                        *)

Interrupt ==
    /\ ~ctxDone
    /\ phase \notin Ended
    /\ ctxDone' = TRUE
    /\ UNCHANGED <<phase, age, nextTick, tick, answer, waited, grant, stray,
                   approvedAt, lost>>

Approve ==
    /\ phase \in {"waiting", "asking"}
    /\ grant = "open"
    /\ grant' = "approved"
    /\ approvedAt' = age
    /\ UNCHANGED <<flow, stray, lost>>

Void ==
    /\ grant \in {"open", "approved"}
    /\ age > Validity - Lag
    /\ grant' = "void"
    /\ UNCHANGED <<flow, stray, approvedAt, lost>>

Serve ==
    /\ phase = "asking"
    /\ answer = "none"
    /\ \/ /\ grant = "approved"
          /\ grant' = "released"
          /\ answer' = "password"
       \/ /\ grant # "approved"
          /\ grant' = grant
          /\ answer' = "pending"
       \/ /\ grant' = grant
          /\ answer' = "useless"
    /\ UNCHANGED <<phase, ctxDone, age, nextTick, tick, waited, stray,
                   approvedAt, lost>>

ServeStray ==
    /\ stray
    /\ stray' = FALSE
    /\ grant' = IF grant = "approved" THEN "released" ELSE grant
    /\ lost' = (lost \/ grant = "approved")
    /\ UNCHANGED <<flow, approvedAt>>

\* What the command can do at once it does within the time unit.
Busy ==
    \/ phase = "waiting" /\ (tick \/ ctxDone)
    \/ phase = "asking" /\ (ctxDone \/ waited = Patience)

\* Mutant: the client has no timeout.
TickThroughRequest ==
    /\ phase \in {"waiting", "asking"}
    /\ age' = IF age <= Validity THEN age + 1 ELSE age
    /\ nextTick' = IF nextTick = 1 THEN Every ELSE nextTick - 1
    /\ tick' = (tick \/ nextTick = 1)
    /\ waited' = IF phase = "asking" THEN waited + 1 ELSE waited
    /\ UNCHANGED <<phase, ctxDone, answer, grant, stray, approvedAt, lost>>

Tick ==
    /\ phase \in {"waiting", "asking"}
    /\ ~Busy
    /\ age' = IF age <= Validity THEN age + 1 ELSE age
    /\ nextTick' = IF nextTick = 1 THEN Every ELSE nextTick - 1
    /\ tick' = (tick \/ nextTick = 1)
    /\ waited' = IF phase = "asking" THEN waited + 1 ELSE waited
    /\ UNCHANGED <<phase, ctxDone, answer, grant, stray, approvedAt, lost>>

Command == Begin \/ GiveUp \/ Expire \/ Ask \/ Hear
World == Interrupt \/ Approve \/ Void \/ Serve \/ ServeStray \/ Tick

Next == Command \/ Fail \/ World

Spec == Init /\ [][Next]_vars

\* The command runs and time passes; a request in flight is answered or
\* fails.  The user and the server owe nothing.
Fairness ==
    /\ WF_vars(Command)
    /\ WF_vars(Hear \/ Fail)
    /\ WF_vars(Tick)

FairSpec == Spec /\ Fairness

-----------------------------------------------------------------------------
(* Properties.                                                             *)

TypeOK ==
    /\ phase \in {"starting", "waiting", "asking"} \cup Ended
    /\ ctxDone \in BOOLEAN
    /\ age \in 0 .. Validity + 1
    /\ nextTick \in 1..Every
    /\ tick \in BOOLEAN
    /\ answer \in Answers
    /\ waited \in 0..Patience
    /\ grant \in {"open", "approved", "released", "void"}
    /\ stray \in BOOLEAN
    /\ approvedAt \in Never .. Validity + 1
    /\ lost \in BOOLEAN

\* How late before the deadline an approval still counts: the request that
\* just missed it, or the wait for a tick, and then the one that fetches it.
Reach == (IF Every > Patience THEN Every ELSE Patience) + Patience

\* The user who approves in time gets the password, to the last interval
\* before the deadline and although requests fail before the approval: only a
\* request or an answer lost after it, an interruption or a server that
\* answers uselessly can cost it.  Whatever the user does, the command ends.
InTime == approvedAt # Never /\ approvedAt + Reach <= Validity - Lag

ApprovalPrinted ==
    <>(phase \in Ended /\
          (InTime => phase \in {"printed", "refused"} \/ lost \/ ctxDone))
=============================================================================
