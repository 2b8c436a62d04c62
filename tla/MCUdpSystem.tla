---------------------------- MODULE MCUdpSystem ----------------------------
(***************************************************************************)
(* UdpSystem on small instances.                                           *)
(***************************************************************************)
EXTENDS UdpSystemInductive, TLC

CONSTANTS a1, a2, p1, p2

\* "u" and "address" are commands first and, once connected, two messages.
TwoMessages == {"u", "address"}
NoTraffic   == {}

\* out, csent and csaid are written by every step and read by none.
View == <<serverVars, clientVars, portVars, up, down, rxText>>

\* The client does not tell its ports apart.
SymPeer == Permutations({p1, p2})

\* Not explored further: stdin has ended, Ctrl+C of the client in the menu or
\* during a blocking call, Ctrl+C of the server while it is not waiting for
\* events, a server that has only failed to open its TCP socket.
Explored ==
    /\ ~ceof /\ cbreakIn \in {"none", "connected"}
    /\ stopRaised => pc = "wait" \/ StopFd \in events
    /\ master["udp"] => master["tcp"]

\* The same without Ctrl+C of the client, which ends its sessions as failures do.
ExploredLive == Explored /\ cbreakIn = "none"
=============================================================================
