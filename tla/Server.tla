------------------------------- MODULE Server -------------------------------
(***************************************************************************)
(* The server: one thread running Server::serverLoop over epoll, the TCP   *)
(* and UDP sessions it owns, and the kernel objects they share.            *)
(*                                                                         *)
(* Every action of ServerNext is one handler of the loop, atomic because   *)
(* nothing else runs in the process; the actions of EnvNext (datagrams,    *)
(* connections, timers, SIGINT) interleave between handlers.  A UDP        *)
(* handshake is three actions, since a socket that is bound but not yet    *)
(* connected already receives.  epoll_wait may also return -1/EINTR when   *)
(* SIGINT arrives; that iteration changes nothing and is a stuttering      *)
(* step.  The peers are arbitrary: any of them may send anything in        *)
(* UdpTraffic and TcpTraffic at any time.                                  *)
(***************************************************************************)
EXTENDS Protocol, Naturals, Sequences, FiniteSets

CONSTANTS
    Address,     \* heap addresses of sessions, as many as the descriptor limit allows
    Peer,        \* remote addresses
    NoPeer,      \* peer of a session that does not exist
    UdpTraffic,  \* what the peers' datagrams hold
    TcpTraffic,  \* what the peers' streams yield, chunk by chunk
    MaxRx,       \* bound on a session socket's receive queue
    MaxBacklog,  \* bound on a master socket's queue
    MaxEvents    \* MAX_EVENTS_BUFFER

ASSUME AddressAssumption == "main" \notin Address
ASSUME PeerAssumption    == NoPeer \notin Peer
ASSUME TrafficAssumption == UdpTraffic \subseteq UdpInput /\ TcpTraffic \subseteq TcpInput
ASSUME BoundAssumption   == MaxRx \in Nat /\ MaxBacklog \in Nat /\ MaxEvents \in Nat \ {0}

VARIABLES
    pc,          \* where the loop is
    stopRaised,  \* stopEventFd is readable
    stopping,    \* stopEventHappened
    master,      \* listener -> its master socket is open
    backlog,     \* listener -> what is queued on its master socket
    edge,        \* listeners whose edge-triggered event is pending
    epfd,        \* epollfd is open
    epoll,       \* descriptors registered with it
    events,      \* the events of the current batch still to be handled
    slaves,      \* slaveSocketsMap
    remove,      \* slavesForRemove
    kind,        \* address -> what is allocated there
    sock,        \* address -> state of _socket
    peer,        \* address -> the peer the session was created for
    rx,          \* address -> receive queue of _socket
    timer,       \* address -> state of timerfd
    isTimeout,   \* address -> isTimeout
    out          \* what the current step has sent

loopVars    == <<stopRaised, stopping>>
masterVars  == <<master, backlog, edge>>
ownerVars   == <<slaves, remove>>
sessionVars == <<kind, sock, peer, rx, timer, isTimeout>>
vars == <<pc, loopVars, masterVars, epfd, epoll, events, ownerVars, sessionVars, out>>

Listener == {"tcp", "udp"}

StopFd      == <<"main", "stop">>
MasterFd(m) == <<"main", m>>
SocketFd(a) == <<a, "socket">>
TimerFd(a)  == <<a, "timer">>
Fd == {StopFd} \cup {MasterFd(m) : m \in Listener}
        \cup {SocketFd(a) : a \in Address} \cup {TimerFd(a) : a \in Address}

Request == [from : Peer, input : Input \cup {"connect"}]
Message == [via : Address \cup {"main"}, to : Peer, header : ServerHeader]

\* States in which the process exists.
Running == pc \notin {"exit", "abort"}

-----------------------------------------------------------------------------
(* Sessions *)

SetAll(f, S, v) == [a \in Address |-> IF a \in S THEN v ELSE f[a]]

\* The descriptors of the sessions in S.
FdsOf(S) == {SocketFd(a) : a \in S} \cup {TimerFd(a) : a \in S}

\* Mutant: the destructor forgets the timer.
DeleteKeepsTimer(S) ==
    /\ kind' = SetAll(kind, S, "free")
    /\ sock' = SetAll(sock, S, "none")
    /\ peer' = SetAll(peer, S, NoPeer)
    /\ rx' = SetAll(rx, S, <<>>)
    /\ timer' = SetAll(timer, S, "none")
    /\ isTimeout' = SetAll(isTimeout, S, FALSE)
    /\ epoll' = epoll \ {SocketFd(a) : a \in S}

\* delete: the destructors close timer and socket, which also takes them out
\* of epoll, and free the address.
Delete(S) ==
    /\ kind' = SetAll(kind, S, "free")
    /\ sock' = SetAll(sock, S, "none")
    /\ peer' = SetAll(peer, S, NoPeer)
    /\ rx' = SetAll(rx, S, <<>>)
    /\ timer' = SetAll(timer, S, "none")
    /\ isTimeout' = SetAll(isTimeout, S, FALSE)
    /\ epoll' = epoll \ FdsOf(S)

\* Mutant: the socket is given up but not closed.
CloseWithoutDel(a) ==
    /\ sock' = [sock EXCEPT ![a] = "none"]
    /\ rx' = [rx EXCEPT ![a] = <<>>]
    /\ UNCHANGED epoll

\* SessionServer::sessionClose.
Close(a) ==
    /\ sock' = [sock EXCEPT ![a] = "none"]
    /\ rx' = [rx EXCEPT ![a] = <<>>]
    /\ epoll' = epoll \ {SocketFd(a)}

Send(a, header) == {[via |-> a, to |-> peer[a], header |-> header]}

\* Mutant: the destructor does not look at _socket.
NoticesWithoutSocket(S) ==
    UNION {Send(a, Notice(isTimeout[a])) : a \in {b \in S : kind[b] = "udp"}}

\* What the destructors of the sessions in S send.
Notices(S) ==
    UNION {Send(a, Notice(isTimeout[a])) :
              a \in {b \in S : kind[b] = "udp" /\ sock[b] = "connected"}}

\* The switch over session_status after proceed().
Judge(a, status) ==
    remove' = IF status \in EndingStatus THEN remove \cup {a}
              ELSE IF status \in LiveStatus THEN remove \ {a}
              ELSE remove

-----------------------------------------------------------------------------
(* Start-up and shutdown *)

Init ==
    /\ pc = "create"
    /\ stopRaised = FALSE
    /\ stopping = FALSE
    /\ master = [m \in Listener |-> FALSE]
    /\ backlog = [m \in Listener |-> <<>>]
    /\ edge = {}
    /\ epfd = FALSE
    /\ epoll = {}
    /\ events = {}
    /\ slaves = {}
    /\ remove = {}
    /\ kind = [a \in Address |-> "free"]
    /\ sock = [a \in Address |-> "none"]
    /\ peer = [a \in Address |-> NoPeer]
    /\ rx = [a \in Address |-> <<>>]
    /\ timer = [a \in Address |-> "none"]
    /\ isTimeout = [a \in Address |-> FALSE]
    /\ out = {}

\* createTcpSocket and createUdpSocket; each may fail.
CreateSockets ==
    /\ pc = "create"
    /\ master' \in [Listener -> BOOLEAN]
    /\ pc' = IF \E m \in Listener : master'[m] THEN "setup" ELSE "exit"
    /\ out' = {}
    /\ UNCHANGED <<loopVars, backlog, edge, epfd, epoll, events, ownerVars, sessionVars>>

\* epoll_create1 or the registration of stopEventFd fails.
SetupFails ==
    /\ pc = "setup"
    /\ pc' = "cleanup"
    /\ epfd' \in BOOLEAN
    /\ out' = {}
    /\ UNCHANGED <<loopVars, masterVars, epoll, events, ownerVars, sessionVars>>

\* stopEventFd is registered; a master socket that cannot be is closed.  Adding
\* a descriptor that is already readable queues its first edge.
SetupEpoll ==
    /\ pc = "setup"
    /\ epfd' = TRUE
    /\ \E kept \in SUBSET {m \in Listener : master[m]} :
         /\ master' = [m \in Listener |-> m \in kept]
         /\ backlog' = [m \in Listener |-> IF m \in kept THEN backlog[m] ELSE <<>>]
         /\ edge' = {m \in kept : backlog[m] # <<>>}
         /\ epoll' = IF kept = {} THEN {} ELSE {StopFd} \cup {MasterFd(m) : m \in kept}
         /\ pc' = IF kept = {} THEN "cleanup" ELSE "wait"
    /\ out' = {}
    /\ UNCHANGED <<loopVars, events, ownerVars, sessionVars>>

\* The sessions still alive after the last batch.
CloseSessions ==
    /\ pc = "closing"
    /\ pc' = "cleanup"
    /\ Delete(slaves)
    /\ slaves' = {}
    /\ out' = Notices(slaves)
    /\ UNCHANGED <<loopVars, masterVars, epfd, events, remove>>

\* Mutant: the UDP master is not closed.
CleanupTcpOnly ==
    /\ pc = "cleanup"
    /\ pc' = "exit"
    /\ epfd' = FALSE
    /\ epoll' = {}
    /\ master' = [master EXCEPT !["tcp"] = FALSE]
    /\ backlog' = [backlog EXCEPT !["tcp"] = <<>>]
    /\ edge' = {}
    /\ out' = {}
    /\ UNCHANGED <<loopVars, events, ownerVars, sessionVars>>

\* The end of serverLoop.  Line 474 shuts down the TCP master where the UDP one
\* is meant; by then that descriptor is closed or -1, so nothing happens.
Cleanup ==
    /\ pc = "cleanup"
    /\ pc' = "exit"
    /\ epfd' = FALSE
    /\ epoll' = {}
    /\ master' = [m \in Listener |-> FALSE]
    /\ backlog' = [m \in Listener |-> <<>>]
    /\ edge' = {}
    /\ out' = {}
    /\ UNCHANGED <<loopVars, events, ownerVars, sessionVars>>

-----------------------------------------------------------------------------
(* The loop *)

\* Level-triggered descriptors that are readable and pending edges.
Ready ==
    {fd \in epoll :
        \/ fd = StopFd /\ stopRaised
        \/ \E m \in edge : fd = MasterFd(m)
        \/ \E a \in Address : fd = SocketFd(a) /\ rx[a] # <<>>
        \/ \E a \in Address : fd = TimerFd(a) /\ timer[a] = "expired"}

WaitEvents ==
    /\ pc = "wait"
    /\ \E batch \in SUBSET Ready \ {{}} :
         /\ IF Cardinality(Ready) <= MaxEvents
              THEN batch = Ready
              ELSE Cardinality(batch) = MaxEvents
         /\ events' = batch
         /\ edge' = {m \in edge : MasterFd(m) \notin batch}
    /\ pc' = "dispatch"
    /\ out' = {}
    /\ UNCHANGED <<loopVars, master, backlog, epfd, epoll, ownerVars, sessionVars>>

\* Mutant: stopEventHappened is not set.
HandleStopForgets ==
    /\ pc = "dispatch"
    /\ StopFd \in events
    /\ events' = events \ {StopFd}
    /\ stopRaised' = FALSE
    /\ epoll' = epoll \ {MasterFd(m) : m \in Listener}
    /\ edge' = {}
    /\ out' = {}
    /\ UNCHANGED <<pc, stopping, master, backlog, epfd, ownerVars, sessionVars>>

\* The masters leave epoll but stay open, and their events in this batch are
\* still handled.
HandleStop ==
    /\ pc = "dispatch"
    /\ StopFd \in events
    /\ events' = events \ {StopFd}
    /\ stopRaised' = FALSE
    /\ stopping' = TRUE
    /\ epoll' = epoll \ {MasterFd(m) : m \in Listener}
    /\ edge' = {}
    /\ out' = {}
    /\ UNCHANGED <<pc, master, backlog, epfd, ownerVars, sessionVars>>

\* Mutant: the marked sessions are destroyed after every event.
EndBatchEager ==
    /\ pc = "dispatch"
    /\ Delete(remove)
    /\ slaves' = slaves \ remove
    /\ remove' = {}
    /\ pc' = IF events # {} THEN pc ELSE IF stopping THEN "closing" ELSE "wait"
    /\ out' = Notices(remove)
    /\ UNCHANGED <<loopVars, masterVars, epfd, events>>

\* After the batch the marked sessions are destroyed.
EndBatch ==
    /\ pc = "dispatch"
    /\ events = {}
    /\ Delete(remove)
    /\ slaves' = slaves \ remove
    /\ remove' = {}
    /\ pc' = IF stopping THEN "closing" ELSE "wait"
    /\ out' = Notices(remove)
    /\ UNCHANGED <<loopVars, masterVars, epfd, events>>

-----------------------------------------------------------------------------
(* New sessions: initSession, SessionTcp::init, SessionUdp::init *)

\* The loop takes an event of master socket m.
TakeMaster(m) ==
    /\ pc = "dispatch"
    /\ MasterFd(m) \in events
    /\ events' = events \ {MasterFd(m)}

\* Mutant: one event empties the queue, as if the master were level-triggered.
PopAll(m) ==
    /\ backlog[m] # <<>>
    /\ backlog' = [backlog EXCEPT ![m] = <<>>]

\* accept or recvfrom takes one entry from the queue.
Pop(m) ==
    /\ backlog[m] # <<>>
    /\ backlog' = [backlog EXCEPT ![m] = Tail(@)]

\* accept or recvfrom returns -1: the event is spent, the queue is not.
ListenerFails(m) ==
    /\ TakeMaster(m)
    /\ out' = {}
    /\ UNCHANGED <<pc, loopVars, masterVars, epfd, epoll, ownerVars, sessionVars>>

\* Mutant: the accepted socket is not registered.
AcceptTcpUnwatched(a) ==
    /\ TakeMaster("tcp")
    /\ Pop("tcp")
    /\ kind[a] = "free"
    /\ kind' = [kind EXCEPT ![a] = "tcp"]
    /\ sock' = [sock EXCEPT ![a] = "connected"]
    /\ peer' = [peer EXCEPT ![a] = Head(backlog["tcp"]).from]
    /\ slaves' = slaves \cup {a}
    /\ out' = {}
    /\ UNCHANGED <<pc, loopVars, master, edge, epfd, epoll, remove, rx, timer, isTimeout>>

AcceptTcp(a) ==
    /\ TakeMaster("tcp")
    /\ Pop("tcp")
    /\ kind[a] = "free"
    /\ kind' = [kind EXCEPT ![a] = "tcp"]
    /\ sock' = [sock EXCEPT ![a] = "connected"]
    /\ peer' = [peer EXCEPT ![a] = Head(backlog["tcp"]).from]
    /\ epoll' = epoll \cup {SocketFd(a)}
    /\ slaves' = slaves \cup {a}
    /\ out' = {}
    /\ UNCHANGED <<pc, loopVars, master, edge, epfd, remove, rx, timer, isTimeout>>

\* set_nonblock or EPOLL_CTL_ADD fails after accept: the connection is closed.
DropTcp ==
    /\ TakeMaster("tcp")
    /\ Pop("tcp")
    /\ out' = {}
    /\ UNCHANGED <<pc, loopVars, master, edge, epfd, epoll, ownerVars, sessionVars>>

\* The datagram is not a req_connstart, or the timer cannot be set up.
RefuseUdp ==
    /\ TakeMaster("udp")
    /\ Pop("udp")
    /\ out' = {[via |-> "main", to |-> Head(backlog["udp"]).from,
                header |-> "err_connstart"]}
    /\ UNCHANGED <<pc, loopVars, master, edge, epfd, epoll, ownerVars, sessionVars>>

\* A req_connstart: the timer is armed and registered.
AcceptUdp(a) ==
    /\ TakeMaster("udp")
    /\ Pop("udp")
    /\ Head(backlog["udp"]).input = "req_connstart"
    /\ kind[a] = "free"
    /\ kind' = [kind EXCEPT ![a] = "udp"]
    /\ peer' = [peer EXCEPT ![a] = Head(backlog["udp"]).from]
    /\ timer' = [timer EXCEPT ![a] = "armed"]
    /\ epoll' = epoll \cup {TimerFd(a)}
    /\ pc' = "bind"
    /\ out' = {}
    /\ UNCHANGED <<loopVars, master, edge, epfd, ownerVars, sock, rx, isTimeout>>

\* The session initSession is working on: allocated and not yet inserted.
Fresh(a) == kind[a] # "free" /\ a \notin slaves

BindUdp(a) ==
    /\ pc = "bind"
    /\ Fresh(a)
    /\ pc' = "connect"
    /\ sock' = [sock EXCEPT ![a] = "bound"]
    /\ out' = {}
    /\ UNCHANGED <<loopVars, masterVars, epfd, epoll, events, ownerVars,
                   kind, peer, rx, timer, isTimeout>>

\* connect keeps what the bound socket has received in the meantime.
ConnectUdp(a) ==
    /\ pc = "connect"
    /\ Fresh(a)
    /\ pc' = "dispatch"
    /\ sock' = [sock EXCEPT ![a] = "connected"]
    /\ epoll' = epoll \cup {SocketFd(a)}
    /\ slaves' = slaves \cup {a}
    /\ out' = Send(a, "accept_connstart")
    /\ UNCHANGED <<loopVars, masterVars, epfd, events, remove,
                   kind, peer, rx, timer, isTimeout>>

\* socket, set_nonblock, bind, connect or EPOLL_CTL_ADD fails.
AbandonUdp(a) ==
    /\ pc \in {"bind", "connect"}
    /\ Fresh(a)
    /\ pc' = "dispatch"
    /\ Delete({a})
    /\ out' = {[via |-> "main", to |-> peer[a], header |-> "err_connstart"]}
    /\ UNCHANGED <<loopVars, masterVars, epfd, events, ownerVars>>

-----------------------------------------------------------------------------
(* Session events: SessionTcp::proceed, SessionUdp::proceed *)

\* The loop takes an event of the session at address a, which it knows.
Take(a) ==
    /\ pc = "dispatch"
    /\ \E fd \in events \cap FdsOf({a}) : events' = events \ {fd}
    /\ a \in slaves

\* An address the loop does not know ("Unknown event happened"), or a session
\* whose socket an earlier event of the batch closed.
IgnoreEvent(a) ==
    /\ pc = "dispatch"
    /\ \E fd \in events \cap FdsOf({a}) : events' = events \ {fd}
    /\ a \in slaves => sock[a] = "none"
    /\ out' = {}
    /\ UNCHANGED <<pc, loopVars, masterVars, epfd, epoll, ownerVars, sessionVars>>

\* Mutant: || for && in the test of it_value: a running timer counts as expired.
ExpiredEarly(a) == timer[a] # "none"

\* timerfd_gettime reports no time left.
Expired(a) == timer[a] = "expired"

\* Mutant: the timer is not looked at before recv.
ReceivesLate(a) == sock[a] # "none"

\* proceed() gets as far as recv.
Receives(a) == sock[a] # "none" /\ (kind[a] = "udp" => ~Expired(a))

\* The handler takes an event of a session of kind k and recv returns input.
Receive(a, k, inputs) ==
    /\ Take(a)
    /\ kind[a] = k
    /\ Receives(a)
    /\ rx[a] # <<>>
    /\ Head(rx[a]).input \in inputs

\* recv returns -1 or, for UDP, nothing: only logged.  An empty queue is EAGAIN.
RecvFails(a) ==
    /\ Take(a)
    /\ Receives(a)
    /\ rx[a] # <<>> => Head(rx[a]).input \in {"empty", "error"}
    /\ rx' = [rx EXCEPT ![a] = IF @ = <<>> THEN @ ELSE Tail(@)]
    /\ out' = {}
    /\ UNCHANGED <<pc, loopVars, masterVars, epfd, epoll, ownerVars,
                   kind, sock, peer, timer, isTimeout>>

\* How far the peer's stream has gone: its end, if any, is queued last.  A
\* stream that has ended in order can still be written to.
End(a) == IF rx[a] = <<>> THEN "none" ELSE rx[a][Len(rx[a])].input

\* client_msg: the answer is sent, or send fails.
Answer(a) ==
    /\ Receive(a, kind[a], {"client_msg"})
    /\ End(a) \notin StreamLoss
    /\ rx' = [rx EXCEPT ![a] = Tail(@)]
    /\ \E sent \in BOOLEAN :
         /\ out' = IF sent THEN Send(a, "server_msg") ELSE {}
         /\ Judge(a, IF sent THEN "proceed_msg_send" ELSE "proceed_send_fail")
    /\ UNCHANGED <<pc, loopVars, masterVars, epfd, epoll, slaves,
                   kind, sock, peer, timer, isTimeout>>

\* Inputs that are answered with incorrect_msg.
Incorrect == {"malformed", "req_connstart"}

Complain(a) ==
    /\ Receive(a, kind[a], Incorrect)
    /\ End(a) \notin StreamLoss
    /\ rx' = [rx EXCEPT ![a] = Tail(@)]
    /\ out' = Send(a, "incorrect_msg")
    /\ Judge(a, "proceed_wrong_header")
    /\ UNCHANGED <<pc, loopVars, masterVars, epfd, epoll, slaves,
                   kind, sock, peer, timer, isTimeout>>

\* The first call that meets a reset, recv or, if something is queued before
\* it, send, returns ECONNRESET, and the connection is dead.  All that is
\* logged; the session stays.
ReportReset(a) ==
    /\ Receive(a, "tcp", {"reset", "client_msg"} \cup Incorrect)
    /\ End(a) = "reset"
    /\ LET rest == SubSeq(rx[a], 2, Len(rx[a]) - 1)
       IN rx' = [rx EXCEPT ![a] = Append(rest, [from |-> peer[a], input |-> "dead"])]
    /\ out' = {}
    /\ UNCHANGED <<pc, loopVars, masterVars, epfd, epoll, ownerVars,
                   kind, sock, peer, timer, isTimeout>>

\* recv returns 0 on a stream.
FinTcp(a) ==
    /\ Receive(a, "tcp", {"fin", "dead"})
    /\ Close(a)
    /\ Judge(a, "proceed_disconnect")
    /\ out' = {}
    /\ UNCHANGED <<pc, loopVars, masterVars, epfd, slaves, kind, peer, timer, isTimeout>>

\* timerfd_gettime fails.
TimerFails(a) ==
    /\ Take(a)
    /\ kind[a] = "udp"
    /\ sock[a] # "none"
    /\ out' = Send(a, "server_session_err")
    /\ Close(a)
    /\ Judge(a, "proceed_udp_timer_fail")
    /\ UNCHANGED <<pc, loopVars, masterVars, epfd, slaves, kind, peer, timer, isTimeout>>

\* The 15 seconds since the last client_connup are over: whatever event brought
\* the loop here, nothing is received.
TimeoutUdp(a) ==
    /\ Take(a)
    /\ kind[a] = "udp"
    /\ sock[a] # "none"
    /\ Expired(a)
    /\ isTimeout' = [isTimeout EXCEPT ![a] = TRUE]
    /\ Judge(a, "proceed_recv_timeout")
    /\ out' = {}
    /\ UNCHANGED <<pc, loopVars, masterVars, epfd, epoll, slaves,
                   kind, sock, peer, rx, timer>>

\* client_connup is the only input that restarts the timer.
ConnupUdp(a) ==
    /\ Receive(a, "udp", {"client_connup"})
    /\ rx' = [rx EXCEPT ![a] = Tail(@)]
    /\ timer' = [timer EXCEPT ![a] = "armed"]
    /\ isTimeout' = [isTimeout EXCEPT ![a] = FALSE]
    /\ \E sent \in BOOLEAN :
         /\ out' = IF sent THEN Send(a, "server_connup") ELSE {}
         /\ Judge(a, IF sent THEN "proceed_udp_connup" ELSE "proceed_send_fail")
    /\ UNCHANGED <<pc, loopVars, masterVars, epfd, epoll, slaves, kind, sock, peer>>

\* client_conndown and client_timeout.
DisconnectUdp(a) ==
    /\ Receive(a, "udp", {"client_conndown", "client_timeout"})
    /\ Close(a)
    /\ Judge(a, IF Head(rx[a]).input = "client_conndown"
                  THEN "proceed_disconnect" ELSE "proceed_udp_client_timeout")
    /\ out' = {}
    /\ UNCHANGED <<pc, loopVars, masterVars, epfd, slaves, kind, peer, timer, isTimeout>>

\* proceedMsg: std::stoi throws, nobody catches, and the process ends.
Throw(a) ==
    /\ Receive(a, kind[a], {"overflow_msg"})
    /\ pc' = "abort"
    /\ out' = {}
    /\ UNCHANGED <<loopVars, masterVars, epfd, epoll, ownerVars, sessionVars>>

\* send on a dead connection raises SIGPIPE, which ends the process.
BrokenPipe(a) ==
    /\ Receive(a, "tcp", {"client_msg"} \cup Incorrect)
    /\ End(a) = "dead"
    /\ pc' = "abort"
    /\ out' = {}
    /\ UNCHANGED <<loopVars, masterVars, epfd, epoll, ownerVars, sessionVars>>

-----------------------------------------------------------------------------
(* The environment *)

Connected(p) == {a \in Address : kind[a] = "udp" /\ sock[a] = "connected" /\ peer[a] = p}

\* A datagram from p reaches a session socket: one connected to p or, if there
\* is none, one bound to the public port and not connected yet.  A full queue
\* drops it.
UdpArrives(p, h, a) ==
    /\ Running
    /\ a \in Connected(p) \/ (Connected(p) = {} /\ sock[a] = "bound")
    /\ Len(rx[a]) < MaxRx
    /\ rx' = [rx EXCEPT ![a] = Append(@, [from |-> p, input |-> h])]
    /\ out' = {}
    /\ UNCHANGED <<pc, loopVars, masterVars, epfd, epoll, events, ownerVars,
                   kind, sock, peer, timer, isTimeout>>

\* Entry r joins the queue of master socket m; if m is in epoll, that is an edge.
Enqueue(m, r) ==
    /\ Running
    /\ master[m]
    /\ Len(backlog[m]) < MaxBacklog
    /\ backlog' = [backlog EXCEPT ![m] = Append(@, r)]
    /\ edge' = IF MasterFd(m) \in epoll THEN edge \cup {m} ELSE edge
    /\ out' = {}
    /\ UNCHANGED <<pc, loopVars, master, epfd, epoll, events, ownerVars, sessionVars>>

\* The master socket receives from the peers no session socket is connected to.
UdpArrivesAtMaster(p, h) ==
    /\ Connected(p) = {}
    /\ Enqueue("udp", [from |-> p, input |-> h])

TcpConnects(p) == Enqueue("tcp", [from |-> p, input |-> "connect"])

\* The peer goes on with its stream, or ends it; MaxRx bounds what it says.
TcpArrives(a, h) ==
    /\ Running
    /\ kind[a] = "tcp"
    /\ sock[a] = "connected"
    /\ End(a) \notin {"fin"} \cup StreamLoss
    /\ h # "fin" => Len(rx[a]) < MaxRx
    /\ rx' = [rx EXCEPT ![a] = Append(@, [from |-> peer[a], input |-> h])]
    /\ out' = {}
    /\ UNCHANGED <<pc, loopVars, masterVars, epfd, epoll, events, ownerVars,
                   kind, sock, peer, timer, isTimeout>>

\* The connection is reset, behind what is queued.  After the orderly end that
\* is no error recv or send would still report.
TcpResets(a) ==
    /\ Running
    /\ kind[a] = "tcp"
    /\ sock[a] = "connected"
    /\ End(a) \notin StreamLoss
    /\ LET e(i) == [from |-> peer[a], input |-> i]
       IN rx' = [rx EXCEPT ![a] =
                   IF End(a) = "fin" THEN Append(SubSeq(@, 1, Len(@) - 1), e("dead"))
                   ELSE Append(@, e("reset"))]
    /\ out' = {}
    /\ UNCHANGED <<pc, loopVars, masterVars, epfd, epoll, events, ownerVars,
                   kind, sock, peer, timer, isTimeout>>

\* An ICMP error on a connected UDP socket, reported before queued data.
SocketError(a) ==
    /\ Running
    /\ kind[a] = "udp"
    /\ sock[a] = "connected"
    /\ Len(rx[a]) < MaxRx
    /\ rx' = [rx EXCEPT ![a] = <<[from |-> peer[a], input |-> "error"]>> \o @]
    /\ out' = {}
    /\ UNCHANGED <<pc, loopVars, masterVars, epfd, epoll, events, ownerVars,
                   kind, sock, peer, timer, isTimeout>>

TimerExpires(a) ==
    /\ Running
    /\ timer[a] = "armed"
    /\ timer' = [timer EXCEPT ![a] = "expired"]
    /\ out' = {}
    /\ UNCHANGED <<pc, loopVars, masterVars, epfd, epoll, events, ownerVars,
                   kind, sock, peer, rx, isTimeout>>

\* SIGINT: onExit writes to stopEventFd.
RaiseStop ==
    /\ Running
    /\ ~stopRaised
    /\ stopRaised' = TRUE
    /\ out' = {}
    /\ UNCHANGED <<pc, stopping, masterVars, epfd, epoll, events, ownerVars, sessionVars>>

-----------------------------------------------------------------------------
SessionNext(a) ==
    \/ AcceptTcp(a) \/ AcceptUdp(a) \/ BindUdp(a) \/ ConnectUdp(a) \/ AbandonUdp(a)
    \/ IgnoreEvent(a) \/ RecvFails(a) \/ Answer(a) \/ Complain(a)
    \/ ReportReset(a) \/ FinTcp(a)
    \/ TimerFails(a) \/ TimeoutUdp(a) \/ ConnupUdp(a) \/ DisconnectUdp(a)
    \/ Throw(a) \/ BrokenPipe(a)

ServerNext ==
    \/ CreateSockets \/ SetupFails \/ SetupEpoll \/ CloseSessions \/ Cleanup
    \/ WaitEvents \/ HandleStop \/ EndBatch
    \/ \E m \in Listener : ListenerFails(m)
    \/ DropTcp \/ RefuseUdp
    \/ \E a \in Address : SessionNext(a)

EnvNext ==
    \/ \E p \in Peer, h \in UdpTraffic, a \in Address : UdpArrives(p, h, a)
    \/ \E p \in Peer, h \in UdpTraffic : UdpArrivesAtMaster(p, h)
    \/ \E p \in Peer : TcpConnects(p)
    \/ \E a \in Address, h \in TcpTraffic : TcpArrives(a, h)
    \/ \E a \in Address : TcpResets(a) \/ SocketError(a) \/ TimerExpires(a)
    \/ RaiseStop

Next == ServerNext \/ EnvNext

Spec == Init /\ [][Next]_vars

\* The loop is the only thread of the process and no handler blocks
\* (NeverWaits), so it keeps taking steps.  The environment owes nothing.
FairSpec == Spec /\ WF_vars(ServerNext)

-----------------------------------------------------------------------------
(* Type invariant *)

\* Every variable keeps its shape; a session exists exactly where something is
\* allocated, and the two sets of the loop hold addresses.
TypeOK ==
    /\ pc \in {"create", "setup", "wait", "dispatch", "bind", "connect",
               "closing", "cleanup", "exit", "abort"}
    /\ stopRaised \in BOOLEAN /\ stopping \in BOOLEAN
    /\ master \in [Listener -> BOOLEAN]
    /\ backlog \in [Listener -> Seq(Request)]
    /\ edge \in SUBSET Listener
    /\ epfd \in BOOLEAN
    /\ epoll \in SUBSET Fd /\ events \in SUBSET Fd
    /\ slaves \in SUBSET Address /\ remove \in SUBSET Address
    /\ kind \in [Address -> {"free", "tcp", "udp"}]
    /\ sock \in [Address -> {"none", "bound", "connected"}]
    /\ peer \in [Address -> Peer \cup {NoPeer}]
    /\ rx \in [Address -> Seq(Request)]
    /\ timer \in [Address -> {"none", "armed", "expired"}]
    /\ isTimeout \in [Address -> BOOLEAN]
    /\ out \in SUBSET Message

-----------------------------------------------------------------------------
(* Safety *)

\* An event of the current batch never points at a destroyed session: sessions
\* are destroyed only after the whole batch (Server.cpp:448), so the pointer
\* the loop casts at line 348 is always one it still owns.
EventsAreLive ==
    \A a \in Address : events \cap FdsOf({a}) # {} => a \in slaves

\* Whenever a handler reaches accept, recvfrom or recv, something is queued:
\* the loop never depends on O_NONBLOCK, which set_nonblock sets only in some
\* builds (common.cpp:17), and is never held up by one peer.
NeverWaits ==
    /\ \A m \in Listener : MasterFd(m) \in events => backlog[m] # <<>>
    /\ \A a \in Address :
         events \cap FdsOf({a}) # {} /\ Receives(a) => rx[a] # <<>>

\* A session whose socket a handler has closed is always marked for removal:
\* it has left epoll, so no later event could ever bring it back to the loop.
ClosedIsMarked ==
    \A a \in slaves : sock[a] = "none" => a \in remove

\* A session the loop means to keep is registered with epoll by its socket and,
\* for UDP, by an existing timer, so a silent peer is noticed as well.
Watched ==
    pc \in {"wait", "dispatch", "bind", "connect"} =>
        \A a \in slaves \ remove :
            /\ SocketFd(a) \in epoll
            /\ kind[a] = "udp" => TimerFd(a) \in epoll /\ timer[a] # "none"

\* epoll holds no descriptor of a session that no longer exists: the pointer
\* registered with it would dangle.
NoOrphan ==
    \A a \in Address :
        /\ SocketFd(a) \in epoll => kind[a] # "free" /\ sock[a] = "connected"
        /\ TimerFd(a) \in epoll => kind[a] = "udp" /\ timer[a] # "none"

\* When serverLoop returns every session is destroyed and every descriptor it
\* opened is closed, whatever failed on the way.
NoLeakAtExit ==
    pc = "exit" =>
        /\ \A a \in Address : kind[a] = "free"
        /\ \A m \in Listener : ~master[m]
        /\ ~epfd /\ epoll = {}

-----------------------------------------------------------------------------
(* Action properties *)

\* Once marked a session is destroyed: the slavesForRemove.erase at
\* Server.cpp:363 never takes a mark back, although another event of the same
\* session may follow in the batch.
MarkedIsFinal ==
    [][\A a \in remove : a \in remove' \/ kind'[a] = "free"]_vars

\* server_conndown is what the server says when it stops.  Before that every
\* session destroyed with an open socket has timed out.
ConndownOnlyAtStop ==
    [][\A m \in out' : m.header = "server_conndown" => stopping]_vars

\* server_timeout is sent only for a session whose 15 seconds are over at that
\* moment: no client_connup has been accepted after the expiry was noticed.
TimeoutIsReal ==
    [][\A m \in out' : m.header = "server_timeout" => timer[m.via] = "expired"]_vars

-----------------------------------------------------------------------------
(* Liveness *)

\* A UDP session whose timer has run out is destroyed in the end.
ExpiredReaped ==
    \A a \in Address :
        timer[a] = "expired" ~> kind[a] = "free" \/ pc = "abort"

\* What a session socket has received is read in the end, however busy the
\* other sessions are.  The form is meant for MaxRx = 1, as in its run: a socket
\* then holds no second datagram or chunk, only what one recv returns and the
\* end of the stream.
InputIsRead ==
    \A a \in Address : rx[a] # <<>> ~> rx[a] = <<>> \/ pc = "abort"

\* After SIGINT the server terminates, whatever the peers keep sending.
StopTerminates == stopRaised ~> pc \in {"exit", "abort"}

\* The loop does not sleep over a request queued on a master socket ("Server
\* uses 'epoll' method to work with multiple UPD and TCP sessions at same time",
\* README.MD:16), if accept and recvfrom do not keep failing.
WakesForRequests ==
    <>[][~\E m \in Listener : ListenerFails(m)]_vars =>
        \A m \in Listener :
            pc = "wait" /\ MasterFd(m) \in epoll /\ backlog[m] # <<>> ~> pc # "wait"

\* The process ends only by Ctrl+C ("For exit press Ctrl+C", main.cpp:37); in
\* particular a message with numbers is answered ("If message contains numbers
\* then server returns sum of that numbers", README.MD:24).
NeverAborts == pc # "abort"
=============================================================================
