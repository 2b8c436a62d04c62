---------------------------- MODULE ServerProof ----------------------------
(***************************************************************************)
(* TLAPS proofs about Server, for every value of its constants.            *)
(***************************************************************************)
EXTENDS ServerInductive, TLAPS

-----------------------------------------------------------------------------
(* Descriptors *)

\* Descriptors of different objects are different.
LEMMA FdDistinct ==
    /\ \A a, b \in Address : SocketFd(a) = SocketFd(b) => a = b
    /\ \A a, b \in Address : TimerFd(a) = TimerFd(b) => a = b
    /\ \A a, b \in Address : SocketFd(a) # TimerFd(b)
    /\ \A m, n \in Listener : MasterFd(m) = MasterFd(n) => m = n
    /\ \A m \in Listener, a \in Address : MasterFd(m) # SocketFd(a) /\ MasterFd(m) # TimerFd(a)
    /\ \A a \in Address : StopFd # SocketFd(a) /\ StopFd # TimerFd(a)
    /\ \A m \in Listener : StopFd # MasterFd(m)
BY AddressAssumption DEF SocketFd, TimerFd, MasterFd, StopFd, Listener

\* Membership in FdsOf(S) is membership of the owner in S.
LEMMA FdsOfOwners ==
    ASSUME NEW S \in SUBSET Address
    PROVE  /\ FdsOf(S) \subseteq Fd
           /\ \A a \in Address : SocketFd(a) \in FdsOf(S) <=> a \in S
           /\ \A a \in Address : TimerFd(a) \in FdsOf(S) <=> a \in S
           /\ \A m \in Listener : MasterFd(m) \notin FdsOf(S)
           /\ StopFd \notin FdsOf(S)
BY FdDistinct DEF FdsOf, Fd

\* A session has an event pending if its socket or its timer has one.
LEMMA PendingEvent ==
    ASSUME NEW a \in Address
    PROVE  /\ FdsOf({a}) = {SocketFd(a), TimerFd(a)}
           /\ events \cap FdsOf({a}) # {} <=> SocketFd(a) \in events \/ TimerFd(a) \in events
BY DEF FdsOf

LEMMA FdMembers ==
    /\ StopFd \in Fd
    /\ \A m \in Listener : MasterFd(m) \in Fd
    /\ \A a \in Address : SocketFd(a) \in Fd /\ TimerFd(a) \in Fd
BY DEF Fd

-----------------------------------------------------------------------------
(* Type correctness *)

\* What deleting sessions does to the types.
LEMMA DeleteType ==
    ASSUME TypeOK, NEW S \in SUBSET Address, Delete(S)
    PROVE  /\ kind' \in [Address -> {"free", "tcp", "udp"}]
           /\ sock' \in [Address -> {"none", "bound", "connected"}]
           /\ peer' \in [Address -> Peer \cup {NoPeer}]
           /\ rx' \in [Address -> Seq(Request)]
           /\ timer' \in [Address -> {"none", "armed", "expired"}]
           /\ isTimeout' \in [Address -> BOOLEAN]
           /\ epoll' \in SUBSET Fd
<1>1. kind' \in [Address -> {"free", "tcp", "udp"}]
  BY DEF TypeOK, Delete, SetAll
<1>2. sock' \in [Address -> {"none", "bound", "connected"}]
  BY DEF TypeOK, Delete, SetAll
<1>3. peer' \in [Address -> Peer \cup {NoPeer}]
  BY DEF TypeOK, Delete, SetAll
<1>4. rx' \in [Address -> Seq(Request)]
  BY DEF TypeOK, Delete, SetAll
<1>5. timer' \in [Address -> {"none", "armed", "expired"}]
  BY DEF TypeOK, Delete, SetAll
<1>6. isTimeout' \in [Address -> BOOLEAN]
  BY DEF TypeOK, Delete, SetAll
<1>7. epoll' \in SUBSET Fd
  BY DEF TypeOK, Delete, SetAll
<1>. QED  BY <1>1, <1>2, <1>3, <1>4, <1>5, <1>6, <1>7

\* What a session of the loop sends is a message.
LEMMA SendType ==
    ASSUME NEW a \in Address, peer[a] \in Peer, NEW header \in ServerHeader
    PROVE  Send(a, header) \in SUBSET Message
BY DEF Send, Message

LEMMA NoticesType ==
    ASSUME IInv, NEW S \in SUBSET slaves
    PROVE  Notices(S) \in SUBSET Message
<1>1. ASSUME NEW a \in S, kind[a] = "udp"
      PROVE  Send(a, Notice(isTimeout[a])) \in SUBSET Message
  <2>1. peer[a] \in Peer  BY <1>1 DEF IInv, TypeOK, FreeIsBlank
  <2>2. Notice(isTimeout[a]) \in ServerHeader  BY DEF Notice, ServerHeader
  <2>. QED  BY <2>1, <2>2, SendType DEF IInv, TypeOK
<1>. QED  BY <1>1 DEF Notices

-----------------------------------------------------------------------------
(* The facts of the session handlers *)

\* A handler that gets as far as recv was brought there by the socket's event,
\* for a connected and unmarked session, and finds something to receive.
LEMMA ReceivesByOwnEvent ==
    ASSUME IInv, NEW a \in Address, Take(a), Receives(a)
    PROVE  /\ SocketFd(a) \in events /\ TimerFd(a) \notin events
           /\ events' = events \ {SocketFd(a)}
           /\ a \in slaves /\ a \notin remove
           /\ kind[a] # "free" /\ peer[a] \in Peer
           /\ sock[a] = "connected" /\ rx[a] # <<>> /\ ~isTimeout[a]
           /\ pc = "dispatch"
<1>1. pc = "dispatch" /\ a \in slaves  BY DEF Take
<1>2. kind[a] # "free" /\ peer[a] \in Peer
  BY <1>1 DEF IInv, FreeIsBlank
<1>3. sock[a] = "connected"
  BY <1>1 DEF IInv, TypeOK, FreshInInit, Fresh, Receives
<1>4. timer[a] # "expired"
  BY <1>2 DEF IInv, TypeOK, TimerIsSessions, Receives, Expired
<1>5. TimerFd(a) \notin events  BY <1>4 DEF IInv, EventsAreCurrent
<1>6. SocketFd(a) \in events /\ events' = events \ {SocketFd(a)}
  BY <1>5, PendingEvent DEF Take
<1>7. rx[a] # <<>>  BY <1>3, <1>6 DEF IInv, EventsAreCurrent
<1>8. a \notin remove /\ ~isTimeout[a]
  BY <1>3, <1>4 DEF IInv, MarkedHasReason, TimeoutIsMarked
<1>. QED  BY <1>1, <1>2, <1>3, <1>5, <1>6, <1>7, <1>8

\* A handler that changes its queue and keeps the session.  The timer may be
\* restarted; a mark could be taken back, were there one.
LEMMA ReadStep ==
    ASSUME IInv, NEW a \in Address, Take(a), Receives(a),
           NEW q \in Seq(Request), rx' = [rx EXCEPT ![a] = q],
           timer' = timer \/ (kind[a] = "udp" /\ timer' = [timer EXCEPT ![a] = "armed"]),
           remove' = remove, isTimeout' = isTimeout,
           out' \in SUBSET Message,
           UNCHANGED <<pc, loopVars, masterVars, epfd, epoll, slaves, kind, sock, peer>>
    PROVE  IInv'
<1>. USE ReceivesByOwnEvent, FdDistinct DEF loopVars, masterVars
<1>1. TypeOK'
  BY DEF IInv, TypeOK
<1>2. FreeIsBlank' /\ FreshInInit' /\ SocketIsWatched'
  BY DEF IInv, TypeOK, FreeIsBlank, FreshInInit, Fresh, SocketIsWatched
<1>3. TimerIsSessions' /\ TimeoutIsMarked'
  BY DEF IInv, TypeOK, TimerIsSessions, TimeoutIsMarked
<1>4. MarkedHasReason'
  BY DEF IInv, MarkedHasReason, ClosedIsMarked
<1>5. EventsAreCurrent'
  BY PendingEvent DEF IInv, TypeOK, EventsAreCurrent, EventsAreLive, InBatch
<1>6. EdgesAreBacked' /\ PhaseIsClean'
  BY DEF IInv, EdgesAreBacked, PhaseIsClean, Sessionless
<1>. QED  BY <1>1, <1>2, <1>3, <1>4, <1>5, <1>6 DEF IInv

\* A handler that consumes its input.
LEMMA ConsumeStep ==
    ASSUME IInv, NEW a \in Address, Take(a), Receives(a),
           rx' = [rx EXCEPT ![a] = Tail(@)],
           timer' = timer \/ (kind[a] = "udp" /\ timer' = [timer EXCEPT ![a] = "armed"]),
           remove' = remove, isTimeout' = isTimeout,
           out' \in SUBSET Message,
           UNCHANGED <<pc, loopVars, masterVars, epfd, epoll, slaves, kind, sock, peer>>
    PROVE  IInv'
<1>1. rx[a] \in Seq(Request) /\ rx[a] # <<>>
  BY ReceivesByOwnEvent DEF IInv, TypeOK
<1>2. Tail(rx[a]) \in Seq(Request)  BY <1>1
<1>. QED  BY <1>2, ReadStep

\* A handler that meets a reset leaves the end of the stream to be read.
LEMMA ReportResetStep ==
    ASSUME IInv, NEW a \in Address, ReportReset(a)
    PROVE  IInv'
<1>. DEFINE r == [from |-> peer[a], input |-> "dead"]
            q == Append(SubSeq(rx[a], 2, Len(rx[a]) - 1), r)
<1>1. Take(a) /\ Receives(a)  BY DEF ReportReset, Receive
<1>2. peer[a] \in Peer /\ rx[a] \in Seq(Request)
  BY <1>1, ReceivesByOwnEvent DEF IInv, TypeOK
<1>3. r \in Request  BY <1>2 DEF Request, Input, StreamLoss
<1>4. q \in Seq(Request)
  <2>1. Len(rx[a]) \in Nat  BY <1>2
  <2>2. SubSeq(rx[a], 2, Len(rx[a]) - 1) \in Seq(Request)  BY <1>2, <2>1
  <2>. HIDE DEF r
  <2>. QED  BY <1>3, <2>2
<1>5. rx' = [rx EXCEPT ![a] = q]  BY DEF ReportReset
<1>. HIDE DEF q
<1>. QED
  BY <1>1, <1>4, <1>5, ReadStep DEF ReportReset, ownerVars

\* A handler that closes the socket marks the session.
LEMMA CloseStep ==
    ASSUME IInv, NEW a \in Address, Take(a), sock[a] # "none", Close(a),
           remove' = remove \cup {a}, out' \in SUBSET Message,
           UNCHANGED <<pc, loopVars, masterVars, epfd, slaves, kind, peer, timer, isTimeout>>
    PROVE  IInv'
<1>. USE FdDistinct DEF loopVars, masterVars
<1>1. /\ pc = "dispatch" /\ a \in slaves /\ sock[a] = "connected"
      /\ \E fd \in {SocketFd(a), TimerFd(a)} : events' = events \ {fd}
  BY PendingEvent DEF Take, IInv, TypeOK, FreshInInit, Fresh
<1>2. TypeOK'
  BY <1>1 DEF IInv, TypeOK, Close
<1>3. FreeIsBlank' /\ FreshInInit'
  BY <1>1 DEF IInv, TypeOK, FreeIsBlank, FreshInInit, Fresh, Close
<1>4. TimerIsSessions' /\ TimeoutIsMarked'
  BY DEF IInv, TypeOK, TimerIsSessions, TimeoutIsMarked, Close
<1>5. SocketIsWatched'
  BY DEF IInv, TypeOK, SocketIsWatched, Close
<1>6. MarkedHasReason'
  BY <1>1 DEF IInv, TypeOK, MarkedHasReason, ClosedIsMarked, Close
<1>7. EventsAreCurrent'
  BY <1>1, PendingEvent DEF IInv, TypeOK, EventsAreCurrent, EventsAreLive, InBatch, Close
<1>8. EdgesAreBacked' /\ PhaseIsClean'
  BY <1>1 DEF IInv, EdgesAreBacked, PhaseIsClean, Sessionless
<1>. QED  BY <1>2, <1>3, <1>4, <1>5, <1>6, <1>7, <1>8 DEF IInv

LEMMA IgnoreEventStep ==
    ASSUME IInv, NEW a \in Address, IgnoreEvent(a)
    PROVE  IInv'
<1>. USE FdDistinct DEF IgnoreEvent, loopVars, masterVars, ownerVars, sessionVars
<1>1. /\ pc = "dispatch"
      /\ \E fd \in {SocketFd(a), TimerFd(a)} : events' = events \ {fd}
  BY PendingEvent
<1>2. TypeOK' /\ FreeIsBlank' /\ TimerIsSessions' /\ SocketIsWatched'
  BY <1>1 DEF IInv, TypeOK, FreeIsBlank, TimerIsSessions, SocketIsWatched
<1>3. FreshInInit' /\ MarkedHasReason' /\ TimeoutIsMarked'
  BY DEF IInv, FreshInInit, Fresh, MarkedHasReason, ClosedIsMarked, TimeoutIsMarked
<1>4. EventsAreCurrent'
  BY <1>1, PendingEvent DEF IInv, EventsAreCurrent, EventsAreLive, InBatch
<1>5. EdgesAreBacked' /\ PhaseIsClean'
  BY <1>1 DEF IInv, EdgesAreBacked, PhaseIsClean, Sessionless
<1>. QED  BY <1>2, <1>3, <1>4, <1>5 DEF IInv

LEMMA TimeoutUdpStep ==
    ASSUME IInv, NEW a \in Address, TimeoutUdp(a)
    PROVE  IInv'
<1>. USE FdDistinct DEF TimeoutUdp, loopVars, masterVars
<1>1. /\ pc = "dispatch" /\ a \in slaves /\ timer[a] = "expired"
      /\ remove' = remove \cup {a}
      /\ \E fd \in {SocketFd(a), TimerFd(a)} : events' = events \ {fd}
  BY PendingEvent DEF Take, Expired, Judge, EndingStatus
<1>2. TypeOK' /\ FreeIsBlank' /\ TimerIsSessions' /\ SocketIsWatched'
  BY <1>1 DEF IInv, TypeOK, FreeIsBlank, TimerIsSessions, SocketIsWatched
<1>3. FreshInInit' /\ MarkedHasReason' /\ TimeoutIsMarked'
  BY <1>1 DEF IInv, TypeOK, FreshInInit, Fresh, MarkedHasReason, ClosedIsMarked, TimeoutIsMarked
<1>4. EventsAreCurrent'
  BY <1>1, PendingEvent DEF IInv, EventsAreCurrent, EventsAreLive, InBatch
<1>5. EdgesAreBacked' /\ PhaseIsClean'
  BY <1>1 DEF IInv, EdgesAreBacked, PhaseIsClean, Sessionless
<1>. QED  BY <1>2, <1>3, <1>4, <1>5 DEF IInv

\* The two ways a handler ends the process.
LEMMA AbortStep ==
    ASSUME IInv, NEW a \in Address, Throw(a) \/ BrokenPipe(a)
    PROVE  IInv'
<1>. USE DEF Throw, BrokenPipe, loopVars, masterVars, ownerVars, sessionVars
<1>1. /\ pc = "dispatch" /\ pc' = "abort" /\ events' \subseteq events
  BY DEF Receive, Take
<1>2. TypeOK' /\ FreeIsBlank' /\ TimerIsSessions' /\ SocketIsWatched'
  BY <1>1 DEF IInv, TypeOK, FreeIsBlank, TimerIsSessions, SocketIsWatched
<1>3. FreshInInit' /\ MarkedHasReason' /\ TimeoutIsMarked'
  BY <1>1 DEF IInv, FreshInInit, Fresh, MarkedHasReason, ClosedIsMarked, TimeoutIsMarked
<1>4. EventsAreCurrent'
  BY <1>1, PendingEvent DEF IInv, EventsAreCurrent, EventsAreLive, InBatch
<1>5. EdgesAreBacked' /\ PhaseIsClean'
  BY <1>1 DEF IInv, EdgesAreBacked, PhaseIsClean, Sessionless
<1>. QED  BY <1>2, <1>3, <1>4, <1>5 DEF IInv

\* proceed(), by what it does to the session.
LEMMA SessionEventStep ==
    ASSUME IInv, NEW a \in Address,
           \/ IgnoreEvent(a) \/ RecvFails(a) \/ Answer(a) \/ Complain(a)
           \/ ReportReset(a) \/ FinTcp(a)
           \/ TimerFails(a) \/ TimeoutUdp(a) \/ ConnupUdp(a) \/ DisconnectUdp(a)
           \/ Throw(a) \/ BrokenPipe(a)
    PROVE  IInv'
<1>. USE DEF loopVars, masterVars, ownerVars
<1>h. /\ {"server_msg", "incorrect_msg", "server_session_err", "server_connup"} \subseteq ServerHeader
      /\ {} \in SUBSET Message
  BY DEF ServerHeader
<1>1. CASE IgnoreEvent(a)  BY <1>1, IgnoreEventStep
<1>2. CASE RecvFails(a)
  <2>1. rx' = [rx EXCEPT ![a] = Tail(@)]
    BY <1>2, ReceivesByOwnEvent DEF RecvFails
  <2>. QED  BY <1>2, <1>h, <2>1, ConsumeStep DEF RecvFails
<1>3. CASE Answer(a)
  <2>1. remove' = remove /\ out' \in SUBSET Message
    BY <1>3, <1>h, ReceivesByOwnEvent, SendType
    DEF Answer, Receive, Judge, EndingStatus, LiveStatus
  <2>. QED  BY <1>3, <2>1, ConsumeStep DEF Answer, Receive
<1>4. CASE Complain(a)
  <2>1. remove' = remove /\ out' \in SUBSET Message
    BY <1>4, <1>h, ReceivesByOwnEvent, SendType
    DEF Complain, Receive, Judge, EndingStatus, LiveStatus
  <2>. QED  BY <1>4, <2>1, ConsumeStep DEF Complain, Receive
<1>5. CASE FinTcp(a)
  BY <1>5, <1>h, CloseStep DEF FinTcp, Receive, Receives, Judge, EndingStatus
<1>6. CASE TimerFails(a)
  <2>1. peer[a] \in Peer
    BY <1>6 DEF TimerFails, IInv, FreeIsBlank
  <2>2. out' \in SUBSET Message
    BY <1>6, <1>h, <2>1, SendType DEF TimerFails
  <2>. QED  BY <1>6, <2>2, CloseStep DEF TimerFails, Judge, EndingStatus
<1>7. CASE TimeoutUdp(a)  BY <1>7, TimeoutUdpStep
<1>8. CASE ConnupUdp(a)
  <2>1. remove' = remove /\ out' \in SUBSET Message
    BY <1>8, <1>h, ReceivesByOwnEvent, SendType
    DEF ConnupUdp, Receive, Judge, EndingStatus, LiveStatus
  <2>2. isTimeout' = isTimeout
    BY <1>8, ReceivesByOwnEvent DEF ConnupUdp, Receive, IInv, TypeOK
  <2>. QED  BY <1>8, <2>1, <2>2, ConsumeStep DEF ConnupUdp, Receive
<1>9. CASE DisconnectUdp(a)
  BY <1>9, <1>h, CloseStep DEF DisconnectUdp, Receive, Receives, Judge, EndingStatus
<1>10. CASE Throw(a) \/ BrokenPipe(a)  BY <1>10, AbortStep
<1>11. CASE ReportReset(a)  BY <1>11, ReportResetStep
<1>. QED  BY <1>1, <1>2, <1>3, <1>4, <1>5, <1>6, <1>7, <1>8, <1>9, <1>10, <1>11

-----------------------------------------------------------------------------
(* Arrivals *)

\* Something is added to a session's queue.
LEMMA ArrivalStep ==
    ASSUME IInv, NEW a \in Address, sock[a] # "none",
           NEW q \in Seq(Request), q # <<>>, rx' = [rx EXCEPT ![a] = q], out' = {},
           UNCHANGED <<pc, loopVars, masterVars, epfd, epoll, events, ownerVars,
                       kind, sock, peer, timer, isTimeout>>
    PROVE  IInv'
<1>. USE DEF loopVars, masterVars, ownerVars
<1>1. TypeOK' /\ FreeIsBlank' /\ TimerIsSessions' /\ SocketIsWatched'
  BY DEF IInv, TypeOK, FreeIsBlank, TimerIsSessions, SocketIsWatched
<1>2. FreshInInit' /\ MarkedHasReason' /\ TimeoutIsMarked'
  BY DEF IInv, FreshInInit, Fresh, MarkedHasReason, ClosedIsMarked, TimeoutIsMarked
<1>3. EventsAreCurrent'
  BY DEF IInv, TypeOK, EventsAreCurrent, EventsAreLive, InBatch
<1>4. EdgesAreBacked' /\ PhaseIsClean'
  BY DEF IInv, EdgesAreBacked, PhaseIsClean, Sessionless
<1>. QED  BY <1>1, <1>2, <1>3, <1>4 DEF IInv

\* A request joins the queue of a master socket, with an edge if it is watched.
LEMMA EnqueueStep ==
    ASSUME IInv, NEW m \in Listener, NEW r \in Request, Enqueue(m, r)
    PROVE  IInv'
<1>. USE DEF Enqueue, loopVars, ownerVars, sessionVars
<1>1. backlog[m] \in Seq(Request)  BY DEF IInv, TypeOK
<1>2. TypeOK'  BY <1>1 DEF IInv, TypeOK
<1>3. FreeIsBlank' /\ TimerIsSessions' /\ SocketIsWatched' /\ FreshInInit'
  BY DEF IInv, FreeIsBlank, TimerIsSessions, SocketIsWatched, FreshInInit, Fresh
<1>4. MarkedHasReason' /\ TimeoutIsMarked' /\ EventsAreCurrent' /\ PhaseIsClean'
  BY DEF IInv, MarkedHasReason, ClosedIsMarked, TimeoutIsMarked, EventsAreCurrent,
         EventsAreLive, InBatch, PhaseIsClean, Sessionless
<1>5. EdgesAreBacked'
  <2>. SUFFICES ASSUME NEW n \in Listener
                PROVE  /\ n \in edge' => backlog'[n] # <<>>
                       /\ MasterFd(n) \in events => backlog'[n] # <<>>
                       /\ n \in edge' /\ MasterFd(n) \in events => Len(backlog'[n]) >= 2
    BY DEF EdgesAreBacked
  <2>1. CASE n = m
    <3>1. backlog'[n] = Append(backlog[m], r)  BY <2>1 DEF IInv, TypeOK
    <3>2. Len(backlog'[n]) = Len(backlog[m]) + 1 /\ backlog'[n] # <<>>
      BY <1>1, <3>1
    <3>3. MasterFd(n) \in events => Len(backlog[m]) >= 1
      BY <1>1, <2>1 DEF IInv, EdgesAreBacked
    <3>. QED  BY <1>1, <3>2, <3>3
  <2>2. CASE n # m
    BY <2>2 DEF IInv, TypeOK, EdgesAreBacked
  <2>. QED  BY <2>1, <2>2
<1>. QED  BY <1>2, <1>3, <1>4, <1>5 DEF IInv

LEMMA TimerExpiresStep ==
    ASSUME IInv, NEW a \in Address, TimerExpires(a)
    PROVE  IInv'
<1>. USE DEF TimerExpires, loopVars, masterVars, ownerVars
<1>1. TypeOK' /\ FreeIsBlank' /\ TimerIsSessions' /\ SocketIsWatched'
  BY DEF IInv, TypeOK, FreeIsBlank, TimerIsSessions, SocketIsWatched
<1>2. FreshInInit' /\ MarkedHasReason' /\ TimeoutIsMarked'
  BY DEF IInv, TypeOK, FreshInInit, Fresh, MarkedHasReason, ClosedIsMarked, TimeoutIsMarked
<1>3. EventsAreCurrent'
  BY DEF IInv, TypeOK, EventsAreCurrent, EventsAreLive, InBatch
<1>4. EdgesAreBacked' /\ PhaseIsClean'
  BY DEF IInv, EdgesAreBacked, PhaseIsClean, Sessionless
<1>. QED  BY <1>1, <1>2, <1>3, <1>4 DEF IInv

LEMMA EnvStep ==
    ASSUME IInv, EnvNext
    PROVE  IInv'
<1>1. ASSUME NEW p \in Peer, NEW h \in UdpTraffic, NEW a \in Address, UdpArrives(p, h, a)
      PROVE  IInv'
  <2>. DEFINE r == [from |-> p, input |-> h]
              q == Append(rx[a], r)
  <2>1. r \in Request  BY TrafficAssumption DEF Request, Input
  <2>2. rx[a] \in Seq(Request)  BY DEF IInv, TypeOK
  <2>3. q \in Seq(Request) /\ q # <<>>  BY <2>1, <2>2
  <2>4. sock[a] # "none"  BY <1>1 DEF UdpArrives, Connected
  <2>. QED  BY <1>1, <2>3, <2>4, ArrivalStep DEF UdpArrives
<1>2. ASSUME NEW p \in Peer, NEW h \in UdpTraffic, UdpArrivesAtMaster(p, h)
      PROVE  IInv'
  <2>1. [from |-> p, input |-> h] \in Request
    BY TrafficAssumption DEF Request, Input
  <2>. QED  BY <1>2, <2>1, EnqueueStep DEF UdpArrivesAtMaster, Listener
<1>3. ASSUME NEW p \in Peer, TcpConnects(p)
      PROVE  IInv'
  <2>1. [from |-> p, input |-> "connect"] \in Request  BY DEF Request
  <2>. QED  BY <1>3, <2>1, EnqueueStep DEF TcpConnects, Listener
<1>4. ASSUME NEW a \in Address, NEW h \in TcpTraffic, TcpArrives(a, h)
      PROVE  IInv'
  <2>. DEFINE r == [from |-> peer[a], input |-> h]
              q == Append(rx[a], r)
  <2>1. peer[a] \in Peer  BY <1>4 DEF TcpArrives, IInv, FreeIsBlank
  <2>2. r \in Request  BY <2>1, TrafficAssumption DEF Request, Input
  <2>3. rx[a] \in Seq(Request)  BY DEF IInv, TypeOK
  <2>4. q \in Seq(Request) /\ q # <<>>
    <3>. HIDE DEF r
    <3>. QED  BY <2>2, <2>3
  <2>. QED  BY <1>4, <2>4, ArrivalStep DEF TcpArrives
<1>5. ASSUME NEW a \in Address, SocketError(a)
      PROVE  IInv'
  <2>. DEFINE e == [from |-> peer[a], input |-> "error"]
              q == <<e>> \o rx[a]
  <2>1. peer[a] \in Peer /\ rx[a] \in Seq(Request)
    BY <1>5 DEF SocketError, IInv, TypeOK, FreeIsBlank
  <2>2. e \in Request
    BY <2>1 DEF Request, Input
  <2>3. q \in Seq(Request) /\ q # <<>>
    <3>. HIDE DEF e
    <3>1. <<e>> \in Seq(Request) /\ Len(<<e>>) = 1
      BY <2>2
    <3>2. /\ <<e>> \o rx[a] \in Seq(Request)
          /\ Len(<<e>> \o rx[a]) = 1 + Len(rx[a])
          /\ Len(rx[a]) \in Nat
      BY <2>1, <3>1
    <3>. QED  BY <3>2
  <2>4. rx' = [rx EXCEPT ![a] = q]
    BY <1>5 DEF SocketError
  <2>. QED  BY <1>5, <2>3, <2>4, ArrivalStep DEF SocketError
<1>6. ASSUME NEW a \in Address, TimerExpires(a)
      PROVE  IInv'
  BY <1>6, TimerExpiresStep
<1>7. CASE RaiseStop
  <2>. USE DEF RaiseStop, masterVars, ownerVars, sessionVars
  <2>1. TypeOK' /\ FreeIsBlank' /\ TimerIsSessions' /\ SocketIsWatched'
    BY <1>7 DEF IInv, TypeOK, FreeIsBlank, TimerIsSessions, SocketIsWatched
  <2>2. FreshInInit' /\ MarkedHasReason' /\ TimeoutIsMarked'
    BY <1>7 DEF IInv, FreshInInit, Fresh, MarkedHasReason, ClosedIsMarked, TimeoutIsMarked
  <2>3. EventsAreCurrent' /\ EdgesAreBacked' /\ PhaseIsClean'
    BY <1>7 DEF IInv, EventsAreCurrent, EventsAreLive, InBatch, EdgesAreBacked,
                PhaseIsClean, Sessionless
  <2>. QED  BY <2>1, <2>2, <2>3 DEF IInv
<1>8. ASSUME NEW a \in Address, TcpResets(a)
      PROVE  IInv'
  <2>. DEFINE e(i) == [from |-> peer[a], input |-> i]
              q == IF End(a) = "fin"
                     THEN Append(SubSeq(rx[a], 1, Len(rx[a]) - 1), e("dead"))
                     ELSE Append(rx[a], e("reset"))
  <2>1. peer[a] \in Peer /\ rx[a] \in Seq(Request)
    BY <1>8 DEF TcpResets, IInv, TypeOK, FreeIsBlank
  <2>2. e("dead") \in Request /\ e("reset") \in Request
    BY <2>1 DEF Request, Input, StreamLoss
  <2>3. q \in Seq(Request) /\ q # <<>>
    <3>. HIDE DEF e
    <3>1. Len(rx[a]) \in Nat  BY <2>1
    <3>2. SubSeq(rx[a], 1, Len(rx[a]) - 1) \in Seq(Request)  BY <2>1, <3>1
    <3>3. ASSUME NEW s \in Seq(Request), NEW r \in Request
          PROVE  Append(s, r) \in Seq(Request) /\ Append(s, r) # <<>>
      <4>. HIDE DEF q
      <4>1. Append(s, r) \in Seq(Request) /\ Len(Append(s, r)) = Len(s) + 1 /\ Len(s) \in Nat
        OBVIOUS
      <4>. QED  BY <4>1
    <3>. QED  BY <2>1, <2>2, <3>2, <3>3
  <2>4. rx' = [rx EXCEPT ![a] = q]
    BY <1>8 DEF TcpResets
  <2>. QED  BY <1>8, <2>3, <2>4, ArrivalStep DEF TcpResets
<1>. QED  BY <1>1, <1>2, <1>3, <1>4, <1>5, <1>6, <1>7, <1>8 DEF EnvNext

-----------------------------------------------------------------------------
(* New sessions *)

LEMMA ListenerFailsStep ==
    ASSUME IInv, NEW m \in Listener, ListenerFails(m)
    PROVE  IInv'
<1>. USE FdDistinct DEF ListenerFails, TakeMaster, loopVars, masterVars, ownerVars, sessionVars
<1>1. TypeOK' /\ FreeIsBlank' /\ TimerIsSessions' /\ SocketIsWatched'
  BY DEF IInv, TypeOK, FreeIsBlank, TimerIsSessions, SocketIsWatched
<1>2. FreshInInit' /\ MarkedHasReason' /\ TimeoutIsMarked'
  BY DEF IInv, FreshInInit, Fresh, MarkedHasReason, ClosedIsMarked, TimeoutIsMarked
<1>3. EventsAreCurrent'
  BY PendingEvent DEF IInv, EventsAreCurrent, EventsAreLive, InBatch
<1>4. EdgesAreBacked' /\ PhaseIsClean'
  BY DEF IInv, EdgesAreBacked, PhaseIsClean, Sessionless
<1>. QED  BY <1>1, <1>2, <1>3, <1>4 DEF IInv

\* Taking an event and an entry of the same master keeps the two in step.
LEMMA PopKeepsEdges ==
    ASSUME IInv, NEW m \in Listener, TakeMaster(m), Pop(m), edge' = edge
    PROVE  /\ backlog' \in [Listener -> Seq(Request)]
           /\ EdgesAreBacked'
           /\ Head(backlog[m]) \in Request
<1>1. backlog[m] \in Seq(Request) /\ backlog[m] # <<>>
  BY DEF IInv, TypeOK, Pop
<1>2. /\ Head(backlog[m]) \in Request
      /\ Tail(backlog[m]) \in Seq(Request)
      /\ Len(Tail(backlog[m])) = Len(backlog[m]) - 1
      /\ Len(backlog[m]) \in Nat
  BY <1>1
<1>3. backlog' = [backlog EXCEPT ![m] = Tail(backlog[m])]  BY DEF Pop
<1>4. backlog' \in [Listener -> Seq(Request)]  BY <1>2, <1>3 DEF IInv, TypeOK
<1>5. EdgesAreBacked'
  <2>. SUFFICES ASSUME NEW n \in Listener
                PROVE  /\ n \in edge => backlog'[n] # <<>>
                       /\ MasterFd(n) \in events' => backlog'[n] # <<>>
                       /\ n \in edge /\ MasterFd(n) \in events' => Len(backlog'[n]) >= 2
    BY DEF EdgesAreBacked
  <2>1. CASE n = m
    <3>1. MasterFd(n) \notin events'  BY <2>1 DEF TakeMaster
    <3>2. n \in edge => Len(backlog[m]) >= 2
      BY <2>1 DEF IInv, EdgesAreBacked, TakeMaster
    <3>3. backlog'[n] = Tail(backlog[m])  BY <1>3, <2>1 DEF IInv, TypeOK
    <3>4. n \in edge => Len(backlog'[n]) >= 1  BY <1>2, <3>2, <3>3
    <3>. QED  BY <3>1, <3>4
  <2>2. CASE n # m
    BY <2>2, <1>3 DEF IInv, TypeOK, EdgesAreBacked, TakeMaster
  <2>. QED  BY <2>1, <2>2
<1>. QED  BY <1>2, <1>4, <1>5

\* The request is turned down.
LEMMA TurnDownStep ==
    ASSUME IInv, DropTcp \/ RefuseUdp
    PROVE  IInv'
<1>. PICK m \in Listener : TakeMaster(m) /\ Pop(m)
  BY DEF DropTcp, RefuseUdp, Listener
<1>. USE FdDistinct, PopKeepsEdges DEF loopVars, ownerVars, sessionVars
<1>0. UNCHANGED <<pc, loopVars, master, edge, epfd, epoll, ownerVars, sessionVars>>
  BY DEF DropTcp, RefuseUdp
<1>1. out' \in SUBSET Message
  <2>1. CASE DropTcp  BY <2>1 DEF DropTcp
  <2>2. CASE RefuseUdp
    <3>1. Head(backlog["udp"]) \in Request  BY <2>2 DEF RefuseUdp, Listener, IInv
    <3>2. Head(backlog["udp"]).from \in Peer  BY <3>1 DEF Request
    <3>3. "err_connstart" \in ServerHeader  BY DEF ServerHeader
    <3>. QED  BY <2>2, <3>2, <3>3 DEF RefuseUdp, Message
  <2>. QED  BY <2>1, <2>2
<1>2. TypeOK' /\ FreeIsBlank' /\ TimerIsSessions' /\ SocketIsWatched'
  BY <1>0, <1>1 DEF IInv, TypeOK, FreeIsBlank, TimerIsSessions, SocketIsWatched, TakeMaster
<1>3. FreshInInit' /\ MarkedHasReason' /\ TimeoutIsMarked'
  BY <1>0 DEF IInv, FreshInInit, Fresh, MarkedHasReason, ClosedIsMarked, TimeoutIsMarked
<1>4. EventsAreCurrent'
  BY <1>0, PendingEvent
  DEF IInv, EventsAreCurrent, EventsAreLive, InBatch, TakeMaster
<1>5. EdgesAreBacked' /\ PhaseIsClean'
  BY <1>0 DEF IInv, PhaseIsClean, Sessionless
<1>. QED  BY <1>2, <1>3, <1>4, <1>5 DEF IInv

LEMMA AcceptTcpStep ==
    ASSUME IInv, NEW a \in Address, AcceptTcp(a)
    PROVE  IInv'
<1>. USE FdDistinct DEF loopVars
<1>1. /\ TakeMaster("tcp") /\ Pop("tcp") /\ edge' = edge /\ "tcp" \in Listener
      /\ pc = "dispatch" /\ kind[a] = "free" /\ sock[a] = "none"
      /\ a \notin slaves /\ a \notin remove /\ timer[a] = "none"
  BY DEF AcceptTcp, TakeMaster, Listener, IInv, TypeOK, FreeIsBlank, TimerIsSessions,
         MarkedHasReason
<1>2. /\ backlog' \in [Listener -> Seq(Request)] /\ EdgesAreBacked'
      /\ Head(backlog["tcp"]) \in Request
  BY <1>1, PopKeepsEdges
<1>3. Head(backlog["tcp"]).from \in Peer  BY <1>2 DEF Request
<1>4. TypeOK'
  BY <1>2, <1>3, FdMembers DEF IInv, TypeOK, AcceptTcp, TakeMaster
<1>5. FreeIsBlank'
  BY <1>3 DEF IInv, TypeOK, FreeIsBlank, AcceptTcp
<1>6. TimerIsSessions' /\ SocketIsWatched' /\ TimeoutIsMarked'
  BY <1>1 DEF IInv, TypeOK, TimerIsSessions, SocketIsWatched, TimeoutIsMarked, AcceptTcp
<1>7. FreshInInit'
  BY <1>1 DEF IInv, TypeOK, FreshInInit, Fresh, AcceptTcp
<1>8. MarkedHasReason'
  BY <1>1 DEF IInv, TypeOK, MarkedHasReason, ClosedIsMarked, AcceptTcp
<1>9. EventsAreCurrent'
  BY <1>1, PendingEvent
  DEF IInv, TypeOK, EventsAreCurrent, EventsAreLive, InBatch, AcceptTcp, TakeMaster
<1>10. PhaseIsClean'
  BY <1>1 DEF IInv, PhaseIsClean, Sessionless, AcceptTcp
<1>. QED  BY <1>2, <1>4, <1>5, <1>6, <1>7, <1>8, <1>9, <1>10 DEF IInv

LEMMA AcceptUdpStep ==
    ASSUME IInv, NEW a \in Address, AcceptUdp(a)
    PROVE  IInv'
<1>. USE FdDistinct DEF loopVars, ownerVars
<1>1. /\ TakeMaster("udp") /\ Pop("udp") /\ edge' = edge /\ "udp" \in Listener
      /\ pc = "dispatch" /\ pc' = "bind" /\ kind[a] = "free" /\ sock[a] = "none"
      /\ a \notin slaves /\ a \notin remove /\ ~isTimeout[a]
  BY DEF AcceptUdp, TakeMaster, Listener, IInv, TypeOK, FreeIsBlank, TimeoutIsMarked,
         MarkedHasReason
<1>2. /\ backlog' \in [Listener -> Seq(Request)] /\ EdgesAreBacked'
      /\ Head(backlog["udp"]) \in Request
  BY <1>1, PopKeepsEdges
<1>3. Head(backlog["udp"]).from \in Peer  BY <1>2 DEF Request
<1>4. TypeOK'
  BY <1>2, <1>3, FdMembers DEF IInv, TypeOK, AcceptUdp, TakeMaster
<1>5. FreeIsBlank'
  BY <1>3 DEF IInv, TypeOK, FreeIsBlank, AcceptUdp
<1>6. TimerIsSessions' /\ SocketIsWatched' /\ TimeoutIsMarked'
  BY <1>1 DEF IInv, TypeOK, TimerIsSessions, SocketIsWatched, TimeoutIsMarked, AcceptUdp
<1>7. FreshInInit'
  BY <1>1 DEF IInv, TypeOK, FreshInInit, Fresh, AcceptUdp
<1>8. MarkedHasReason'
  BY <1>1 DEF IInv, TypeOK, MarkedHasReason, ClosedIsMarked, AcceptUdp
<1>9. EventsAreCurrent'
  BY <1>1, PendingEvent
  DEF IInv, TypeOK, EventsAreCurrent, EventsAreLive, InBatch, AcceptUdp, TakeMaster
<1>10. PhaseIsClean'
  BY <1>1 DEF IInv, PhaseIsClean, Sessionless, AcceptUdp
<1>. QED  BY <1>2, <1>4, <1>5, <1>6, <1>7, <1>8, <1>9, <1>10 DEF IInv

LEMMA BindUdpStep ==
    ASSUME IInv, NEW a \in Address, BindUdp(a)
    PROVE  IInv'
<1>. USE DEF BindUdp, loopVars, masterVars, ownerVars
<1>1. /\ kind[a] = "udp" /\ sock[a] = "none" /\ a \notin slaves
      /\ \A b \in Address : Fresh(b) => b = a
  BY DEF IInv, FreshInInit, Fresh
<1>2. TypeOK' /\ FreeIsBlank' /\ TimerIsSessions' /\ SocketIsWatched'
  BY <1>1 DEF IInv, TypeOK, FreeIsBlank, TimerIsSessions, SocketIsWatched
<1>3. FreshInInit'
  BY <1>1 DEF IInv, TypeOK, FreshInInit, Fresh
<1>4. MarkedHasReason' /\ TimeoutIsMarked'
  BY <1>1 DEF IInv, TypeOK, MarkedHasReason, ClosedIsMarked, TimeoutIsMarked
<1>5. EventsAreCurrent'
  BY <1>1, PendingEvent DEF IInv, TypeOK, EventsAreCurrent, EventsAreLive, InBatch
<1>6. EdgesAreBacked' /\ PhaseIsClean'
  BY DEF IInv, EdgesAreBacked, PhaseIsClean, Sessionless
<1>. QED  BY <1>2, <1>3, <1>4, <1>5, <1>6 DEF IInv

LEMMA ConnectUdpStep ==
    ASSUME IInv, NEW a \in Address, ConnectUdp(a)
    PROVE  IInv'
<1>. USE FdDistinct DEF ConnectUdp, loopVars, masterVars
<1>1. /\ kind[a] = "udp" /\ sock[a] = "bound" /\ a \notin slaves /\ peer[a] \in Peer
      /\ \A b \in Address : Fresh(b) => b = a
  BY DEF IInv, FreshInInit, Fresh, FreeIsBlank
<1>2. out' \in SUBSET Message
  BY <1>1, SendType DEF ServerHeader
<1>3. TypeOK'
  BY <1>2, FdMembers DEF IInv, TypeOK
<1>4. FreeIsBlank' /\ TimerIsSessions' /\ SocketIsWatched'
  BY <1>1 DEF IInv, TypeOK, FreeIsBlank, TimerIsSessions, SocketIsWatched
<1>5. FreshInInit'
  BY <1>1 DEF IInv, TypeOK, FreshInInit, Fresh
<1>6. MarkedHasReason' /\ TimeoutIsMarked'
  BY <1>1 DEF IInv, TypeOK, MarkedHasReason, ClosedIsMarked, TimeoutIsMarked
<1>7. EventsAreCurrent'
  BY <1>1, PendingEvent DEF IInv, TypeOK, EventsAreCurrent, EventsAreLive, InBatch
<1>8. EdgesAreBacked' /\ PhaseIsClean'
  BY DEF IInv, EdgesAreBacked, PhaseIsClean, Sessionless
<1>. QED  BY <1>3, <1>4, <1>5, <1>6, <1>7, <1>8 DEF IInv

-----------------------------------------------------------------------------
(* Destruction *)

\* Destroying sessions that have no event pending: the blank address, the timer
\* and the socket leave together.
LEMMA DeleteStep ==
    ASSUME IInv, NEW S \in SUBSET Address, Delete(S),
           slaves' = slaves \ S, remove' = remove \ S, events' = events,
           \A a \in S : SocketFd(a) \notin events /\ TimerFd(a) \notin events,
           \A a \in Address : Fresh(a) => a \in S \/ pc' = pc
    PROVE  /\ FreeIsBlank' /\ TimerIsSessions' /\ SocketIsWatched'
           /\ FreshInInit' /\ MarkedHasReason' /\ TimeoutIsMarked'
           /\ EventsAreLive'
           /\ \A a \in Address :
                /\ SocketFd(a) \in events' => sock'[a] = "none" \/ rx'[a] # <<>>
                /\ TimerFd(a) \in events' => timer'[a] = "expired"
<1>1. \A a \in Address :
        /\ a \in S => /\ kind'[a] = "free" /\ sock'[a] = "none" /\ peer'[a] = NoPeer
                      /\ rx'[a] = <<>> /\ timer'[a] = "none" /\ isTimeout'[a] = FALSE
        /\ a \notin S => /\ kind'[a] = kind[a] /\ sock'[a] = sock[a] /\ peer'[a] = peer[a]
                         /\ rx'[a] = rx[a] /\ timer'[a] = timer[a]
                         /\ isTimeout'[a] = isTimeout[a]
  BY DEF Delete, SetAll
<1>2. \A a \in Address :
        /\ SocketFd(a) \in epoll' <=> SocketFd(a) \in epoll /\ a \notin S
        /\ TimerFd(a) \in epoll' <=> TimerFd(a) \in epoll /\ a \notin S
  BY FdsOfOwners DEF Delete
<1>3. FreeIsBlank'
  BY <1>1 DEF IInv, FreeIsBlank
<1>4. TimerIsSessions' /\ SocketIsWatched'
  BY <1>1, <1>2 DEF IInv, TimerIsSessions, SocketIsWatched
<1>5. \A a \in Address : Fresh(a)' <=> Fresh(a) /\ a \notin S
  BY <1>1 DEF Fresh
<1>6. FreshInInit'
  BY <1>1, <1>5 DEF IInv, FreshInInit
<1>7. MarkedHasReason'
  BY <1>1 DEF IInv, TypeOK, MarkedHasReason, ClosedIsMarked
<1>8. TimeoutIsMarked'
  BY <1>1 DEF IInv, TimeoutIsMarked
<1>9. EventsAreLive'
  BY PendingEvent DEF IInv, EventsAreCurrent, EventsAreLive
<1>10. \A a \in Address :
         /\ SocketFd(a) \in events' => sock'[a] = "none" \/ rx'[a] # <<>>
         /\ TimerFd(a) \in events' => timer'[a] = "expired"
  BY <1>1 DEF IInv, EventsAreCurrent
<1>. QED  BY <1>3, <1>4, <1>6, <1>7, <1>8, <1>9, <1>10

LEMMA AbandonUdpStep ==
    ASSUME IInv, NEW a \in Address, AbandonUdp(a)
    PROVE  IInv'
<1>. USE DEF AbandonUdp, loopVars, masterVars, ownerVars
<1>1. /\ a \notin slaves /\ a \notin remove /\ peer[a] \in Peer
      /\ \A b \in Address : Fresh(b) => b = a
      /\ SocketFd(a) \notin events /\ TimerFd(a) \notin events
  BY PendingEvent DEF IInv, FreshInInit, Fresh, FreeIsBlank, MarkedHasReason,
                      EventsAreCurrent, EventsAreLive
<1>2. /\ FreeIsBlank' /\ TimerIsSessions' /\ SocketIsWatched'
      /\ FreshInInit' /\ MarkedHasReason' /\ TimeoutIsMarked'
      /\ EventsAreLive'
      /\ \A b \in Address :
           /\ SocketFd(b) \in events' => sock'[b] = "none" \/ rx'[b] # <<>>
           /\ TimerFd(b) \in events' => timer'[b] = "expired"
  <2>1. slaves' = slaves \ {a} /\ remove' = remove \ {a}  BY <1>1
  <2>. QED  BY <1>1, <2>1, DeleteStep
<1>3. TypeOK'
  BY <1>1, DeleteType DEF IInv, TypeOK, Message, ServerHeader
<1>4. EventsAreCurrent'
  BY <1>2 DEF EventsAreCurrent, InBatch
<1>5. EdgesAreBacked' /\ PhaseIsClean'
  BY DEF IInv, EdgesAreBacked, PhaseIsClean, Sessionless
<1>. QED  BY <1>2, <1>3, <1>4, <1>5 DEF IInv

LEMMA EndBatchStep ==
    ASSUME IInv, EndBatch
    PROVE  IInv'
<1>. USE DEF EndBatch, loopVars, masterVars
<1>1. /\ \A a \in Address : ~Fresh(a)
      /\ remove \in SUBSET Address /\ remove \in SUBSET slaves
  BY DEF IInv, TypeOK, FreshInInit, MarkedHasReason
<1>2. /\ FreeIsBlank' /\ TimerIsSessions' /\ SocketIsWatched'
      /\ FreshInInit' /\ MarkedHasReason' /\ TimeoutIsMarked'
      /\ EventsAreLive'
      /\ \A b \in Address :
           /\ SocketFd(b) \in events' => sock'[b] = "none" \/ rx'[b] # <<>>
           /\ TimerFd(b) \in events' => timer'[b] = "expired"
  <2>1. remove' = remove \ remove  OBVIOUS
  <2>. QED  BY <1>1, <2>1, DeleteStep
<1>3. TypeOK'
  BY <1>1, DeleteType, NoticesType DEF IInv, TypeOK
<1>4. EventsAreCurrent'
  BY <1>2 DEF EventsAreCurrent, InBatch
<1>5. EdgesAreBacked' /\ PhaseIsClean'
  BY DEF IInv, EdgesAreBacked, PhaseIsClean, Sessionless
<1>. QED  BY <1>2, <1>3, <1>4, <1>5 DEF IInv

LEMMA CloseSessionsStep ==
    ASSUME IInv, CloseSessions
    PROVE  IInv'
<1>. USE DEF CloseSessions, loopVars, masterVars
<1>1. /\ \A a \in Address : ~Fresh(a)
      /\ slaves \in SUBSET Address /\ events = {} /\ remove = {}
  BY DEF IInv, TypeOK, FreshInInit, EventsAreCurrent, InBatch
<1>2. /\ FreeIsBlank' /\ TimerIsSessions' /\ SocketIsWatched'
      /\ FreshInInit' /\ MarkedHasReason' /\ TimeoutIsMarked'
      /\ EventsAreLive'
      /\ \A b \in Address :
           /\ SocketFd(b) \in events' => sock'[b] = "none" \/ rx'[b] # <<>>
           /\ TimerFd(b) \in events' => timer'[b] = "expired"
  <2>1. slaves' = slaves \ slaves /\ remove' = remove \ slaves  BY <1>1
  <2>. QED  BY <1>1, <2>1, DeleteStep
<1>3. TypeOK'
  BY <1>1, DeleteType, NoticesType DEF IInv, TypeOK
<1>4. EventsAreCurrent'
  BY <1>1, <1>2 DEF EventsAreCurrent, InBatch
<1>5. EdgesAreBacked'
  BY DEF IInv, EdgesAreBacked
<1>6. \A a \in Address : kind'[a] = "free"
  BY <1>1 DEF Delete, SetAll, Fresh
<1>7. PhaseIsClean'
  BY <1>6 DEF PhaseIsClean, Sessionless
<1>. QED  BY <1>2, <1>3, <1>4, <1>5, <1>7 DEF IInv

-----------------------------------------------------------------------------
(* The loop itself, start-up and shutdown *)

\* What readiness says about the object behind a descriptor.
LEMMA ReadySession ==
    ASSUME NEW a \in Address
    PROVE  /\ SocketFd(a) \in Ready => SocketFd(a) \in epoll /\ rx[a] # <<>>
           /\ TimerFd(a) \in Ready => TimerFd(a) \in epoll /\ timer[a] = "expired"
<1>1. \A n : SocketFd(a) # MasterFd(n) /\ TimerFd(a) # MasterFd(n)
  BY AddressAssumption DEF MasterFd, SocketFd, TimerFd
<1>. QED  BY <1>1, FdDistinct DEF Ready

LEMMA ReadyMaster ==
    ASSUME NEW m \in Listener
    PROVE  MasterFd(m) \in Ready => m \in edge
<1>1. \A n : MasterFd(m) = MasterFd(n) => m = n
  BY DEF MasterFd
<1>. QED  BY <1>1, FdDistinct DEF Ready

LEMMA WaitEventsStep ==
    ASSUME IInv, WaitEvents
    PROVE  IInv'
<1>. USE DEF WaitEvents, loopVars, ownerVars, sessionVars
<1>1. PICK batch \in SUBSET Ready \ {{}} :
         events' = batch /\ edge' = {m \in edge : MasterFd(m) \notin batch}
  OBVIOUS
<1>2. Ready \subseteq epoll  BY DEF Ready
<1>3. TypeOK'
  BY <1>1, <1>2 DEF IInv, TypeOK
<1>4. FreeIsBlank' /\ TimerIsSessions' /\ SocketIsWatched'
  BY DEF IInv, FreeIsBlank, TimerIsSessions, SocketIsWatched
<1>5. FreshInInit' /\ MarkedHasReason' /\ TimeoutIsMarked'
  BY DEF IInv, FreshInInit, Fresh, MarkedHasReason, ClosedIsMarked, TimeoutIsMarked
<1>6. EventsAreCurrent'
  <2>1. ASSUME NEW a \in Address
        PROVE  /\ SocketFd(a) \in batch => a \in slaves /\ rx[a] # <<>>
               /\ TimerFd(a) \in batch => a \in slaves /\ timer[a] = "expired"
    <3>1. ~Fresh(a)  BY DEF IInv, FreshInInit
    <3>2. SocketFd(a) \in batch => SocketFd(a) \in epoll /\ rx[a] # <<>>
      BY <1>1, ReadySession
    <3>3. TimerFd(a) \in batch => TimerFd(a) \in epoll /\ timer[a] = "expired"
      BY <1>1, ReadySession
    <3>4. SocketFd(a) \in epoll \/ TimerFd(a) \in epoll => kind[a] # "free"
      BY DEF IInv, SocketIsWatched, TimerIsSessions, FreeIsBlank
    <3>. QED  BY <3>1, <3>2, <3>3, <3>4 DEF Fresh
  <2>. QED  BY <1>1, <2>1, PendingEvent DEF EventsAreCurrent, EventsAreLive, InBatch
<1>7. EdgesAreBacked'
  BY <1>1, ReadyMaster DEF IInv, EdgesAreBacked
<1>8. PhaseIsClean'
  BY DEF IInv, PhaseIsClean, Sessionless
<1>. QED  BY <1>3, <1>4, <1>5, <1>6, <1>7, <1>8 DEF IInv

LEMMA HandleStopStep ==
    ASSUME IInv, HandleStop
    PROVE  IInv'
<1>. USE FdDistinct DEF HandleStop, ownerVars, sessionVars
<1>1. TypeOK'
  BY DEF IInv, TypeOK
<1>2. FreeIsBlank' /\ TimerIsSessions' /\ SocketIsWatched'
  BY DEF IInv, FreeIsBlank, TimerIsSessions, SocketIsWatched
<1>3. FreshInInit' /\ MarkedHasReason' /\ TimeoutIsMarked'
  BY DEF IInv, FreshInInit, Fresh, MarkedHasReason, ClosedIsMarked, TimeoutIsMarked
<1>4. EventsAreCurrent'
  BY PendingEvent DEF IInv, EventsAreCurrent, EventsAreLive, InBatch
<1>5. EdgesAreBacked' /\ PhaseIsClean'
  BY DEF IInv, EdgesAreBacked, PhaseIsClean, Sessionless
<1>. QED  BY <1>1, <1>2, <1>3, <1>4, <1>5 DEF IInv

\* A step of start-up or of the clean-up: there are no sessions, and a session
\* descriptor is in epoll neither before nor after it.
LEMMA SessionlessStep ==
    ASSUME IInv, pc \in Sessionless, TypeOK', EdgesAreBacked', PhaseIsClean',
           pc' \in Sessionless \cup {"wait"}, UNCHANGED <<events, ownerVars, sessionVars>>,
           \A a \in Address : SocketFd(a) \notin epoll' /\ TimerFd(a) \notin epoll'
    PROVE  IInv'
<1>. USE DEF ownerVars, sessionVars
<1>1. slaves = {} /\ remove = {} /\ events = {} /\ \A a \in Address : kind[a] = "free"
  BY DEF IInv, PhaseIsClean, EventsAreCurrent, InBatch, Sessionless
<1>2. FreeIsBlank' /\ TimerIsSessions' /\ SocketIsWatched'
  BY <1>1 DEF IInv, TypeOK, FreeIsBlank, TimerIsSessions, SocketIsWatched
<1>3. FreshInInit' /\ MarkedHasReason' /\ TimeoutIsMarked'
  BY <1>1 DEF IInv, TypeOK, FreeIsBlank, FreshInInit, Fresh, MarkedHasReason,
              ClosedIsMarked, TimeoutIsMarked
<1>4. EventsAreCurrent'
  BY <1>1 DEF EventsAreCurrent, EventsAreLive, InBatch, Sessionless
<1>. QED  BY <1>2, <1>3, <1>4 DEF IInv

LEMMA StartStopStep ==
    ASSUME IInv, CreateSockets \/ SetupFails \/ SetupEpoll \/ Cleanup
    PROVE  IInv'
<1>. USE FdDistinct DEF loopVars, masterVars, ownerVars, sessionVars
<1>1. CASE CreateSockets
  <2>1. pc \in Sessionless /\ pc' \in Sessionless /\ epoll = {} /\ events = {}
    BY <1>1 DEF CreateSockets, Sessionless, IInv, PhaseIsClean, EventsAreCurrent, InBatch
  <2>2. TypeOK'  BY <1>1 DEF CreateSockets, IInv, TypeOK
  <2>3. EdgesAreBacked'  BY <1>1 DEF CreateSockets, IInv, EdgesAreBacked
  <2>4. PhaseIsClean'  BY <1>1 DEF CreateSockets, IInv, PhaseIsClean, Sessionless
  <2>. QED  BY <1>1, <2>1, <2>2, <2>3, <2>4, SessionlessStep DEF CreateSockets
<1>2. CASE SetupFails
  <2>1. pc \in Sessionless /\ pc' \in Sessionless /\ epoll = {}
    BY <1>2 DEF SetupFails, Sessionless, IInv, PhaseIsClean
  <2>2. TypeOK'  BY <1>2 DEF SetupFails, IInv, TypeOK
  <2>3. EdgesAreBacked'  BY <1>2 DEF SetupFails, IInv, EdgesAreBacked
  <2>4. PhaseIsClean'  BY <1>2 DEF SetupFails, IInv, PhaseIsClean, Sessionless
  <2>. QED  BY <1>2, <2>1, <2>2, <2>3, <2>4, SessionlessStep DEF SetupFails
<1>3. CASE SetupEpoll
  <2>1. PICK kept \in SUBSET {m \in Listener : master[m]} :
          /\ master' = [m \in Listener |-> m \in kept]
          /\ backlog' = [m \in Listener |-> IF m \in kept THEN backlog[m] ELSE <<>>]
          /\ edge' = {m \in kept : backlog[m] # <<>>}
          /\ epoll' = IF kept = {} THEN {} ELSE {StopFd} \cup {MasterFd(m) : m \in kept}
          /\ pc' = IF kept = {} THEN "cleanup" ELSE "wait"
    BY <1>3 DEF SetupEpoll
  <2>2. /\ pc \in Sessionless /\ pc' \in Sessionless \cup {"wait"} /\ events = {}
        /\ \A a \in Address : SocketFd(a) \notin epoll' /\ TimerFd(a) \notin epoll'
    BY <1>3, <2>1 DEF SetupEpoll, Sessionless, IInv, EventsAreCurrent, InBatch
  <2>3. TypeOK'
    <3>1. master' \in [Listener -> BOOLEAN]
      <4>1. \A m \in Listener : (m \in kept) \in BOOLEAN  OBVIOUS
      <4>. QED  BY <2>1, <4>1, Zenon
    <3>2. backlog' \in [Listener -> Seq(Request)] /\ edge' \in SUBSET Listener
      BY <2>1 DEF IInv, TypeOK
    <3>3. epoll' \in SUBSET Fd  BY <2>1, FdMembers
    <3>4. pc' \in {"wait", "cleanup"}  BY <2>1
    <3>. QED  BY <1>3, <3>1, <3>2, <3>3, <3>4 DEF SetupEpoll, IInv, TypeOK
  <2>4. EdgesAreBacked'
    BY <1>3, <2>1, <2>2 DEF SetupEpoll, EdgesAreBacked
  <2>5. PhaseIsClean'
    BY <1>3, <2>1 DEF SetupEpoll, IInv, PhaseIsClean, Sessionless
  <2>. QED  BY <1>3, <2>2, <2>3, <2>4, <2>5, SessionlessStep DEF SetupEpoll
<1>4. CASE Cleanup
  <2>1. pc \in Sessionless /\ pc' \in Sessionless /\ epoll' = {} /\ events = {}
    BY <1>4 DEF Cleanup, Sessionless, IInv, EventsAreCurrent, InBatch
  <2>2. TypeOK'
    <3>1. master' \in [Listener -> BOOLEAN]  BY <1>4, Zenon DEF Cleanup
    <3>2. /\ backlog' \in [Listener -> Seq(Request)] /\ edge' = {} /\ epoll' = {}
          /\ pc' = "exit" /\ epfd' = FALSE /\ out' = {}
          /\ UNCHANGED <<loopVars, events, ownerVars, sessionVars>>
      BY <1>4 DEF Cleanup
    <3>. QED  BY <3>1, <3>2 DEF IInv, TypeOK
  <2>3. EdgesAreBacked'  BY <1>4, <2>1 DEF Cleanup, EdgesAreBacked
  <2>4. PhaseIsClean'  BY <1>4 DEF Cleanup, IInv, PhaseIsClean, Sessionless
  <2>. QED  BY <1>4, <2>1, <2>2, <2>3, <2>4, SessionlessStep DEF Cleanup
<1>. QED  BY <1>1, <1>2, <1>3, <1>4

-----------------------------------------------------------------------------
(* The inductive invariant *)

LEMMA InitIInv == Init => IInv
<1>. SUFFICES ASSUME Init PROVE IInv  OBVIOUS
<1>. USE DEF Init
<1>1. TypeOK
  <2>1. master \in [Listener -> BOOLEAN]  BY Zenon
  <2>2. isTimeout \in [Address -> BOOLEAN]  BY Zenon
  <2>3. /\ backlog \in [Listener -> Seq(Request)]
        /\ kind \in [Address -> {"free", "tcp", "udp"}]
        /\ sock \in [Address -> {"none", "bound", "connected"}]
        /\ peer \in [Address -> Peer \cup {NoPeer}]
        /\ rx \in [Address -> Seq(Request)]
        /\ timer \in [Address -> {"none", "armed", "expired"}]
    OBVIOUS
  <2>4. /\ pc = "create" /\ stopRaised = FALSE /\ stopping = FALSE /\ epfd = FALSE
        /\ edge = {} /\ epoll = {} /\ events = {} /\ slaves = {} /\ remove = {} /\ out = {}
    OBVIOUS
  <2>. HIDE DEF Init
  <2>. QED  BY <2>1, <2>2, <2>3, <2>4 DEF TypeOK
<1>2. FreeIsBlank /\ TimerIsSessions /\ SocketIsWatched
  BY DEF FreeIsBlank, TimerIsSessions, SocketIsWatched
<1>3. FreshInInit /\ MarkedHasReason /\ TimeoutIsMarked
  BY DEF FreshInInit, Fresh, MarkedHasReason, ClosedIsMarked, TimeoutIsMarked
<1>4. EventsAreCurrent /\ EdgesAreBacked /\ PhaseIsClean
  BY DEF EventsAreCurrent, EventsAreLive, InBatch, EdgesAreBacked, PhaseIsClean, Sessionless
<1>. QED  BY <1>1, <1>2, <1>3, <1>4 DEF IInv

LEMMA ServerNextStep ==
    ASSUME IInv, ServerNext
    PROVE  IInv'
<1>1. CASE CreateSockets \/ SetupFails \/ SetupEpoll \/ Cleanup
  BY <1>1, StartStopStep
<1>2. CASE CloseSessions  BY <1>2, CloseSessionsStep
<1>3. CASE WaitEvents  BY <1>3, WaitEventsStep
<1>4. CASE HandleStop  BY <1>4, HandleStopStep
<1>5. CASE EndBatch  BY <1>5, EndBatchStep
<1>6. ASSUME NEW m \in Listener, ListenerFails(m) PROVE IInv'
  BY <1>6, ListenerFailsStep
<1>7. CASE DropTcp \/ RefuseUdp  BY <1>7, TurnDownStep
<1>8. ASSUME NEW a \in Address, SessionNext(a) PROVE IInv'
  <2>1. CASE AcceptTcp(a)  BY <2>1, AcceptTcpStep
  <2>2. CASE AcceptUdp(a)  BY <2>2, AcceptUdpStep
  <2>3. CASE BindUdp(a)  BY <2>3, BindUdpStep
  <2>4. CASE ConnectUdp(a)  BY <2>4, ConnectUdpStep
  <2>5. CASE AbandonUdp(a)  BY <2>5, AbandonUdpStep
  <2>. QED  BY <1>8, <2>1, <2>2, <2>3, <2>4, <2>5, SessionEventStep DEF SessionNext
<1>. QED  BY <1>1, <1>2, <1>3, <1>4, <1>5, <1>6, <1>7, <1>8 DEF ServerNext

LEMMA StutterStep ==
    ASSUME IInv, UNCHANGED vars
    PROVE  IInv'
<1>. USE DEF vars, loopVars, masterVars, ownerVars, sessionVars
<1>1. TypeOK' /\ FreeIsBlank' /\ TimerIsSessions' /\ SocketIsWatched'
  BY DEF IInv, TypeOK, FreeIsBlank, TimerIsSessions, SocketIsWatched
<1>2. FreshInInit' /\ MarkedHasReason' /\ TimeoutIsMarked'
  BY DEF IInv, FreshInInit, Fresh, MarkedHasReason, ClosedIsMarked, TimeoutIsMarked
<1>3. EventsAreCurrent' /\ EdgesAreBacked' /\ PhaseIsClean'
  BY DEF IInv, EventsAreCurrent, EventsAreLive, InBatch, EdgesAreBacked, PhaseIsClean, Sessionless
<1>. QED  BY <1>1, <1>2, <1>3 DEF IInv

\* The strengthening holds in every reachable state of the server, for any
\* number of sessions and peers and any traffic.
THEOREM InductiveInvariant == Spec => []IInv
<1>1. Init => IInv  BY InitIInv
<1>2. IInv /\ [Next]_vars => IInv'
  BY ServerNextStep, EnvStep, StutterStep DEF Next
<1>. QED  BY <1>1, <1>2, PTL DEF Spec

-----------------------------------------------------------------------------
(* Safety *)

\* Every variable keeps its shape.
THEOREM TypeCorrectness == Spec => []TypeOK
<1>1. IInv => TypeOK  BY DEF IInv
<1>. QED  BY <1>1, InductiveInvariant, PTL

\* The loop never casts the pointer of a destroyed session.
THEOREM EventsStayLive == Spec => []EventsAreLive
<1>1. IInv => EventsAreLive  BY DEF IInv, EventsAreCurrent
<1>. QED  BY <1>1, InductiveInvariant, PTL

\* No handler could block even if the sockets were blocking.
THEOREM LoopNeverWaits == Spec => []NeverWaits
<1>1. ASSUME IInv PROVE NeverWaits
  <2>1. \A m \in Listener : MasterFd(m) \in events => backlog[m] # <<>>
    BY <1>1 DEF IInv, EdgesAreBacked
  <2>2. ASSUME NEW a \in Address, events \cap FdsOf({a}) # {}, Receives(a)
        PROVE  rx[a] # <<>>
    <3>1. SocketFd(a) \in events \/ TimerFd(a) \in events  BY <2>2, PendingEvent
    <3>2. timer[a] # "expired"
      BY <1>1, <2>2 DEF IInv, TypeOK, FreeIsBlank, TimerIsSessions, Receives, Expired
    <3>. QED  BY <1>1, <2>2, <3>1, <3>2 DEF IInv, EventsAreCurrent, Receives
  <2>. QED  BY <2>1, <2>2 DEF NeverWaits
<1>. QED  BY <1>1, InductiveInvariant, PTL

\* A session that has lost its socket is on its way out.
THEOREM ClosedStaysMarked == Spec => []ClosedIsMarked
<1>1. IInv => ClosedIsMarked  BY DEF IInv, MarkedHasReason
<1>. QED  BY <1>1, InductiveInvariant, PTL

\* Every session the loop keeps can still reach it.
THEOREM KeptIsWatched == Spec => []Watched
<1>1. ASSUME IInv PROVE Watched
  <2>1. ASSUME NEW a \in slaves \ remove
        PROVE  SocketFd(a) \in epoll /\ (kind[a] = "udp" => TimerFd(a) \in epoll /\ timer[a] # "none")
    <3>1. a \in Address  BY <1>1 DEF IInv, TypeOK
    <3>2. sock[a] = "connected"
      BY <1>1, <3>1 DEF IInv, TypeOK, MarkedHasReason, ClosedIsMarked, FreshInInit, Fresh
    <3>. QED  BY <1>1, <3>1, <3>2 DEF IInv, SocketIsWatched, TimerIsSessions
  <2>. QED  BY <2>1 DEF Watched
<1>. QED  BY <1>1, InductiveInvariant, PTL

\* No registration with epoll outlives its session.
THEOREM NoOrphanEver == Spec => []NoOrphan
<1>1. IInv => NoOrphan
  BY DEF IInv, NoOrphan, SocketIsWatched, TimerIsSessions, FreeIsBlank
<1>. QED  BY <1>1, InductiveInvariant, PTL

\* serverLoop returns with everything released.
THEOREM ExitIsClean == Spec => []NoLeakAtExit
<1>1. IInv => NoLeakAtExit
  BY DEF IInv, NoLeakAtExit, PhaseIsClean, Sessionless
<1>. QED  BY <1>1, InductiveInvariant, PTL

-----------------------------------------------------------------------------
(* Action properties *)

\* What every step does to the marks.
LEMMA MarkStep ==
    ASSUME IInv, Next, NEW a \in remove
    PROVE  a \in remove' \/ kind'[a] = "free"
<1>. USE DEF ownerVars
<1>0. a \in Address /\ a \in slaves  BY DEF IInv, TypeOK, MarkedHasReason
<1>1. CASE EndBatch
  BY <1>0, <1>1 DEF EndBatch, Delete, SetAll
<1>2. ASSUME NEW b \in Address, SessionNext(b) PROVE a \in remove'
  <2>1. CASE AcceptTcp(b) \/ AcceptUdp(b) \/ BindUdp(b) \/ ConnectUdp(b) \/ AbandonUdp(b)
             \/ IgnoreEvent(b) \/ RecvFails(b) \/ ReportReset(b)
             \/ Throw(b) \/ BrokenPipe(b)
    BY <2>1 DEF AcceptTcp, AcceptUdp, BindUdp, ConnectUdp, AbandonUdp, IgnoreEvent,
                RecvFails, ReportReset, Throw, BrokenPipe
  <2>2. CASE Answer(b) \/ Complain(b) \/ ConnupUdp(b)
    <3>1. b \notin remove
      BY <2>2, ReceivesByOwnEvent DEF Answer, Complain, ConnupUdp, Receive
    <3>. QED  BY <2>2, <3>1 DEF Answer, Complain, ConnupUdp, Judge
  <2>3. CASE FinTcp(b) \/ TimerFails(b) \/ TimeoutUdp(b) \/ DisconnectUdp(b)
    BY <2>3 DEF FinTcp, TimerFails, TimeoutUdp, DisconnectUdp, Judge, EndingStatus
  <2>. QED  BY <1>2, <2>1, <2>2, <2>3 DEF SessionNext
<1>3. CASE \/ CreateSockets \/ SetupFails \/ SetupEpoll \/ CloseSessions \/ Cleanup
           \/ WaitEvents \/ HandleStop \/ DropTcp \/ RefuseUdp
           \/ \E m \in Listener : ListenerFails(m)
  BY <1>3 DEF CreateSockets, SetupFails, SetupEpoll, CloseSessions, Cleanup, WaitEvents,
              HandleStop, DropTcp, RefuseUdp, ListenerFails
<1>4. CASE EnvNext
  BY <1>4 DEF EnvNext, UdpArrives, UdpArrivesAtMaster, TcpConnects, Enqueue, TcpArrives,
              TcpResets, SocketError, TimerExpires, RaiseStop
<1>. QED  BY <1>1, <1>2, <1>3, <1>4 DEF Next, ServerNext

\* The loop never changes its mind about a session it has marked.
THEOREM MarksAreFinal == Spec => MarkedIsFinal
<1>1. IInv /\ [Next]_vars => [\A a \in remove : a \in remove' \/ kind'[a] = "free"]_vars
  BY MarkStep
<1>. QED  BY <1>1, InductiveInvariant, PTL DEF Spec, MarkedIsFinal

\* Who may send the two notices of ~SessionUdp.
LEMMA NoticeStep ==
    ASSUME IInv, Next, NEW m \in out', m.header \in {"server_timeout", "server_conndown"}
    PROVE  \/ \E a \in remove :
                 isTimeout[a] /\ m = [via |-> a, to |-> peer[a], header |-> "server_timeout"]
           \/ CloseSessions /\ m.header = "server_conndown"
<1>1. CASE EndBatch
  <2>1. PICK a \in remove :
          /\ sock[a] = "connected"
          /\ m = [via |-> a, to |-> peer[a], header |-> Notice(isTimeout[a])]
    BY <1>1 DEF EndBatch, Notices, Send
  <2>2. isTimeout[a] = TRUE  BY <2>1 DEF IInv, TypeOK, MarkedHasReason
  <2>. QED  BY <1>1, <2>1, <2>2 DEF Notice
<1>2. CASE CloseSessions
  <2>1. PICK a \in slaves : m = [via |-> a, to |-> peer[a], header |-> Notice(isTimeout[a])]
    BY <1>2 DEF CloseSessions, Notices, Send
  <2>2. isTimeout[a] = FALSE
    BY <1>2 DEF CloseSessions, IInv, TypeOK, TimeoutIsMarked, EventsAreCurrent, InBatch
  <2>. QED  BY <1>2, <2>1, <2>2 DEF Notice
<1>3. ASSUME NEW a \in Address, SessionNext(a) PROVE FALSE
  BY <1>3 DEF SessionNext, AcceptTcp, AcceptUdp, BindUdp, ConnectUdp, AbandonUdp,
     IgnoreEvent, RecvFails, ReportReset, Throw, BrokenPipe, Answer, Complain, ConnupUdp,
     FinTcp, TimerFails, TimeoutUdp, DisconnectUdp, Send
<1>4. CASE \/ CreateSockets \/ SetupFails \/ SetupEpoll \/ Cleanup
           \/ WaitEvents \/ HandleStop \/ DropTcp \/ RefuseUdp
           \/ \E n \in Listener : ListenerFails(n)
  BY <1>4 DEF CreateSockets, SetupFails, SetupEpoll, Cleanup, WaitEvents,
              HandleStop, DropTcp, RefuseUdp, ListenerFails
<1>5. CASE EnvNext
  BY <1>5 DEF EnvNext, UdpArrives, UdpArrivesAtMaster, TcpConnects, Enqueue, TcpArrives,
              TcpResets, SocketError, TimerExpires, RaiseStop
<1>. QED  BY <1>1, <1>2, <1>3, <1>4, <1>5 DEF Next, ServerNext

\* Only a stopping server says server_conndown.
THEOREM ConndownMeansStop == Spec => ConndownOnlyAtStop
<1>1. ASSUME IInv, Next, NEW m \in out', m.header = "server_conndown" PROVE stopping
  BY <1>1, NoticeStep DEF CloseSessions, IInv, PhaseIsClean
<1>2. IInv /\ [Next]_vars => [\A m \in out' : m.header = "server_conndown" => stopping]_vars
  BY <1>1
<1>. QED  BY <1>2, InductiveInvariant, PTL DEF Spec, ConndownOnlyAtStop

\* Only a client whose time is over hears server_timeout.
THEOREM TimeoutsAreReal == Spec => TimeoutIsReal
<1>1. ASSUME IInv, Next, NEW m \in out', m.header = "server_timeout"
      PROVE  timer[m.via] = "expired"
  <2>1. PICK a \in remove : isTimeout[a] /\ m.via = a
    BY <1>1, NoticeStep
  <2>. QED  BY <1>1, <2>1 DEF IInv, TypeOK, TimeoutIsMarked
<1>2. IInv /\ [Next]_vars =>
        [\A m \in out' : m.header = "server_timeout" => timer[m.via] = "expired"]_vars
  BY <1>1
<1>. QED  BY <1>2, InductiveInvariant, PTL DEF Spec, TimeoutIsReal
=============================================================================
