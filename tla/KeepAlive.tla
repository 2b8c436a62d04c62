----------------------------- MODULE KeepAlive -----------------------------
(***************************************************************************)
(* The clocks of one UDP session whose peer is the client of this project: *)
(* the server's timer, restarted by client_connup only, against the        *)
(* client's select, which leads to a client_connup only when it has        *)
(* waited IdleTime in vain.  Time is discrete; no datagram is lost.        *)
(*                                                                         *)
(* Server and Client let timers expire and users pause at any moment.      *)
(* This module says when they do.                                          *)
(***************************************************************************)
EXTENDS Naturals

CONSTANTS
    IdleTime,  \* the timeout of the client's select: 5
    Timeout,   \* WAIT_TIMEOUT_SEC: 15
    Delay,     \* how long a datagram travels and waits for its handler at most
    Burst      \* how many lines the user types between two pauses at most

ASSUME TimeAssumption ==
    IdleTime \in Nat /\ Timeout \in Nat /\ Delay \in Nat /\ Burst \in Nat

VARIABLES
    phase,   \* where the session is: see Phase
    age,     \* how long it has been there
    timer,   \* how long ago the timer was started
    typed,   \* lines since the last sign of life
    gone     \* the client is out of reach

vars == <<phase, age, timer, typed, gone>>

\* The client in select, a datagram on its way, or the timer has run out.
Phase == {"select", "connup_up", "connup_down", "msg_up", "msg_down", "expired"}

\* The session has been accepted, and accept_connstart is on its way.
Init ==
    /\ phase = "connup_down"
    /\ age = 0
    /\ timer = 0
    /\ typed = 0
    /\ gone = FALSE

Enter(p) == phase' = p /\ age' = 0

\* How long a phase lasts at most.
Limit == IF phase = "select" THEN IdleTime ELSE Delay

Tick ==
    /\ phase # "expired"
    /\ timer < Timeout
    /\ age < Limit \/ gone
    /\ age' = age + 1
    /\ timer' = timer + 1
    /\ UNCHANGED <<phase, typed, gone>>

\* The client's host is cut off or loses its power: no farewell comes, and no error
\* for what is sent to it.
Vanish ==
    /\ ~gone
    /\ gone' = TRUE
    /\ UNCHANGED <<phase, age, timer, typed>>

\* The server drops the session.
Expire ==
    /\ timer = Timeout /\ phase # "expired"
    /\ Enter("expired")
    /\ UNCHANGED <<timer, typed, gone>>

\* select returns 0.
SendConnup ==
    /\ ~gone /\ phase = "select" /\ age = IdleTime
    /\ Enter("connup_up")
    /\ UNCHANGED <<timer, typed, gone>>

\* stdin is readable.  Whatever the line is, the next select waits IdleTime
\* again; one that is not empty is a message.
SendMessage ==
    /\ ~gone /\ phase = "select" /\ typed < Burst
    /\ Enter("msg_up")
    /\ typed' = typed + 1
    /\ UNCHANGED <<timer, gone>>

EmptyLine ==
    /\ ~gone /\ phase = "select" /\ typed < Burst
    /\ Enter("select")
    /\ typed' = typed + 1
    /\ UNCHANGED <<timer, gone>>

\* Mutant: the timer is not restarted.
ServeConnupOnly ==
    /\ phase = "connup_up" /\ timer < Timeout
    /\ Enter("connup_down")
    /\ UNCHANGED <<timer, typed, gone>>

\* client_connup: timerReset, server_connup.
ServeConnup ==
    /\ phase = "connup_up" /\ timer < Timeout
    /\ Enter("connup_down")
    /\ timer' = 0
    /\ typed' = 0
    /\ UNCHANGED gone

\* client_msg: server_msg, and the timer goes on.
ServeMessage ==
    /\ phase = "msg_up" /\ timer < Timeout
    /\ Enter("msg_down")
    /\ UNCHANGED <<timer, typed, gone>>

TakeAnswer ==
    /\ ~gone /\ phase \in {"connup_down", "msg_down"}
    /\ Enter("select")
    /\ UNCHANGED <<timer, typed, gone>>

Next ==
    \/ Tick \/ Expire \/ Vanish
    \/ SendConnup \/ SendMessage \/ EmptyLine
    \/ ServeConnup \/ ServeMessage \/ TakeAnswer

Spec == Init /\ [][Next]_vars

TypeOK ==
    /\ phase \in Phase
    /\ age \in Nat /\ timer \in Nat /\ typed \in Nat
    /\ gone \in BOOLEAN

\* How long the client can take from one return to select to the next.
Round == IdleTime + 2 * Delay

\* The inductive invariant: how long ago the timer was started, in every phase
\* of a client that is there.
Clock ==
    /\ TypeOK
    /\ typed <= Burst
    /\ ~gone /\ phase # "expired" =>
        /\ age <= Limit
        /\ phase = "select" => timer <= typed * Round + Delay + age
        /\ phase = "connup_up" => timer <= typed * Round + Delay + IdleTime + age
        /\ phase = "connup_down" => timer <= age /\ typed = 0
        /\ phase = "msg_up" => timer + Delay <= typed * Round + age
        /\ phase = "msg_down" => timer <= typed * Round + age

\* Every pause of the user comes early enough.
Timely == (Burst + 1) * Round < Timeout

\* A session is kept while its client is there and active: "Session activity
\* check" (common.h:36) is the exchange that restarts the timer.
ActiveIsKept == phase = "expired" => gone
=============================================================================
