-------------------------- MODULE ServerInductive --------------------------
(***************************************************************************)
(* The inductive invariant of Server.  The safety properties of Server are *)
(* about single hazards; what makes them true is how the session objects,  *)
(* the two sets that own them, the epoll interest list and the events of   *)
(* the current batch fit together, which is what the parts below say.      *)
(***************************************************************************)
EXTENDS Server

\* Phases of serverLoop in which there are no sessions.
Sessionless == {"create", "setup", "cleanup", "exit"}

\* Phases inside the handling of one batch.
InBatch == {"dispatch", "bind", "connect", "abort"}

\* A free address holds nothing, and only allocated ones are owned.
FreeIsBlank ==
    \A a \in Address :
        IF kind[a] = "free"
          THEN /\ a \notin slaves
               /\ sock[a] = "none" /\ rx[a] = <<>> /\ peer[a] = NoPeer
          ELSE peer[a] \in Peer

\* The timer lives exactly as long as the UDP session, in and out of epoll.
TimerIsSessions ==
    \A a \in Address :
        /\ kind[a] = "udp" <=> timer[a] # "none"
        /\ kind[a] = "udp" <=> TimerFd(a) \in epoll

\* A socket is in epoll from its connection to its closing.
SocketIsWatched ==
    \A a \in Address : SocketFd(a) \in epoll <=> sock[a] = "connected"

\* Only initSession's current UDP session is allocated and not in slaves.
FreshInInit ==
    /\ \A a \in Address :
         /\ Fresh(a) =>
              /\ pc \in {"bind", "connect"}
              /\ kind[a] = "udp" /\ ~isTimeout[a]
              /\ sock[a] = (IF pc = "bind" THEN "none" ELSE "bound")
         /\ sock[a] = "bound" => Fresh(a)
    /\ \A a, b \in Address : Fresh(a) /\ Fresh(b) => a = b

\* Marked sessions are owned; they have lost their socket or timed out.
MarkedHasReason ==
    /\ remove \subseteq slaves
    /\ \A a \in remove : sock[a] = "none" \/ isTimeout[a]
    /\ ClosedIsMarked

\* isTimeout means that the timer has run out and the loop knows it.
TimeoutIsMarked ==
    \A a \in Address :
        isTimeout[a] => kind[a] = "udp" /\ timer[a] = "expired" /\ a \in remove

\* What the events still to be handled say is still true.
EventsAreCurrent ==
    /\ EventsAreLive
    /\ \A a \in Address :
         /\ SocketFd(a) \in events => sock[a] = "none" \/ rx[a] # <<>>
         /\ TimerFd(a) \in events => timer[a] = "expired"
    /\ pc \notin InBatch => events = {} /\ remove = {}

\* Every pending edge and every undelivered event of a master socket stands for
\* an entry of its own.
EdgesAreBacked ==
    \A m \in Listener :
        /\ m \in edge => backlog[m] # <<>>
        /\ MasterFd(m) \in events => backlog[m] # <<>>
        /\ m \in edge /\ MasterFd(m) \in events => Len(backlog[m]) >= 2

\* What the phases before and after the loop leave open.
PhaseIsClean ==
    /\ pc \in Sessionless => slaves = {} /\ \A a \in Address : kind[a] = "free"
    /\ pc \in {"create", "setup"} => ~epfd /\ epoll = {}
    /\ pc = "create" => \A m \in Listener : ~master[m]
    /\ pc = "exit" => ~epfd /\ epoll = {} /\ \A m \in Listener : ~master[m]
    /\ pc = "closing" => stopping

\* The conjunction is inductive; every safety property of Server follows.
IInv ==
    /\ TypeOK
    /\ FreeIsBlank
    /\ TimerIsSessions
    /\ SocketIsWatched
    /\ FreshInInit
    /\ MarkedHasReason
    /\ TimeoutIsMarked
    /\ EventsAreCurrent
    /\ EdgesAreBacked
    /\ PhaseIsClean
=============================================================================
