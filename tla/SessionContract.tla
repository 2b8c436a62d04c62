-------------------------- MODULE SessionContract --------------------------
(***************************************************************************)
(* What the server promises about its sessions, without sockets, timers or *)
(* epoll.  A session is admitted for one client and serves it until it is  *)
(* dismissed or the server shuts down; a dismissed session is never        *)
(* taken back and is settled together with all others dismissed.  A UDP    *)
(* client hears how its session ended unless it ended it itself.           *)
(***************************************************************************)
EXTENDS Naturals

CONSTANTS Id, Client, NoClient

VARIABLES
    up,        \* the server is running
    status,    \* session -> what it is to the server
    client,    \* session -> whom it serves
    transport, \* session -> "tcp" or "udp"
    late,      \* the dismissed sessions whose client had fallen silent
    farewell   \* what the current step tells the clients

cvars == <<up, status, client, transport, late, farewell>>

Is(s) == {i \in Id : status[i] = s}
Absent(S) == [i \in Id |-> IF i \in S THEN "absent" ELSE status[i]]

Tell(S, header) == {[via |-> i, to |-> client[i], header |-> header] : i \in S}

Init ==
    /\ up = TRUE
    /\ status = [i \in Id |-> "absent"]
    /\ client = [i \in Id |-> NoClient]
    /\ transport = [i \in Id |-> "none"]
    /\ late = {}
    /\ farewell = {}

Admit(i, c, t) ==
    /\ up
    /\ status[i] = "absent"
    /\ status' = [status EXCEPT ![i] = "serving"]
    /\ client' = [client EXCEPT ![i] = c]
    /\ transport' = [transport EXCEPT ![i] = t]
    /\ farewell' = {}
    /\ UNCHANGED <<up, late>>

\* The client has closed the session, or the server cannot go on serving it,
\* which a UDP client is told.
Dismiss(i) ==
    /\ up
    /\ status[i] = "serving"
    /\ status' = [status EXCEPT ![i] = "leaving"]
    /\ \/ farewell' = {}
       \/ transport[i] = "udp" /\ farewell' = Tell({i}, "server_session_err")
    /\ UNCHANGED <<up, client, transport, late>>

\* The client of a UDP session has not been heard of in time.
Expire(i) ==
    /\ up
    /\ status[i] = "serving" /\ transport[i] = "udp"
    /\ status' = [status EXCEPT ![i] = "leaving"]
    /\ late' = late \cup {i}
    /\ farewell' = {}
    /\ UNCHANGED <<up, client, transport>>

\* A dismissed session may still fail before it is settled.
FailLate(i) ==
    /\ up
    /\ i \in late
    /\ late' = late \ {i}
    /\ farewell' = Tell({i}, "server_session_err")
    /\ UNCHANGED <<up, status, client, transport>>

Forget(S) ==
    /\ status' = Absent(S)
    /\ client' = [i \in Id |-> IF i \in S THEN NoClient ELSE client[i]]
    /\ transport' = [i \in Id |-> IF i \in S THEN "none" ELSE transport[i]]

\* All dismissed sessions go, the late ones with a notice.
Settle ==
    /\ up
    /\ Forget(Is("leaving"))
    /\ late' = {}
    /\ farewell' = Tell(late, "server_timeout")
    /\ UNCHANGED up

\* An orderly stop: nothing is left and every UDP client is told.
Shutdown ==
    /\ up
    /\ Is("leaving") = {}
    /\ up' = FALSE
    /\ Forget(Is("serving"))
    /\ farewell' = Tell({i \in Is("serving") : transport[i] = "udp"}, "server_conndown")
    /\ UNCHANGED late

\* The process dies: nobody is told anything.
Crash ==
    /\ up
    /\ up' = FALSE
    /\ farewell' = {}
    /\ UNCHANGED <<status, client, transport, late>>

\* Steps that serve, or do not concern, the sessions.
Serve ==
    /\ farewell' = {}
    /\ UNCHANGED <<up, status, client, transport, late>>

Next ==
    \/ \E i \in Id, c \in Client, t \in {"tcp", "udp"} : Admit(i, c, t)
    \/ \E i \in Id : Dismiss(i) \/ Expire(i) \/ FailLate(i)
    \/ Settle \/ Shutdown \/ Crash \/ Serve

Spec == Init /\ [][Next]_cvars
=============================================================================
