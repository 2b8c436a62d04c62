----------------------- MODULE ServerRefinementProof -----------------------
(***************************************************************************)
(* TLAPS proof that Server implements SessionContract.                     *)
(***************************************************************************)
EXTENDS ServerRefinement, ServerProof

\* The sessions as the contract sees them.
sessionMaps == <<statusMap, clientMap, transportMap, lateMap>>

\* A step that leaves the owned sessions alone leaves the contract's alone.
LEMMA SameSessions ==
    ASSUME IInv, ownerVars' = ownerVars,
           \A a \in slaves : kind'[a] = kind[a] /\ peer'[a] = peer[a]
                             /\ (sock'[a] = "none" <=> sock[a] = "none")
    PROVE  sessionMaps' = sessionMaps
<1>. USE DEF ownerVars
<1>1. remove \subseteq slaves  BY DEF IInv, MarkedHasReason
<1>2. statusMap' = statusMap  BY DEF statusMap
<1>3. clientMap' = clientMap  BY DEF clientMap
<1>4. transportMap' = transportMap  BY DEF transportMap
<1>5. lateMap' = lateMap  BY <1>1 DEF lateMap
<1>. QED  BY <1>2, <1>3, <1>4, <1>5 DEF sessionMaps

\* Such a step serves, if the server stays up or down and says no farewell.
LEMMA ServeStep ==
    ASSUME sessionMaps' = sessionMaps, upMap' = upMap, farewellMap' = {}
    PROVE  Contract!Next
BY DEF sessionMaps, Contract!Next, Contract!Serve

\* Or it stops the server without a word.
LEMMA CrashStep ==
    ASSUME sessionMaps' = sessionMaps, upMap, ~upMap', farewellMap' = {}
    PROVE  Contract!Next
BY DEF sessionMaps, Contract!Next, Contract!Crash

\* Inserting a session into slaveSocketsMap is admitting its client.
LEMMA AdmitStep ==
    ASSUME IInv, NEW a \in Address, NEW p \in Peer, NEW k \in {"tcp", "udp"},
           a \notin slaves, slaves' = slaves \cup {a}, remove' = remove,
           kind' = [kind EXCEPT ![a] = k], peer' = [peer EXCEPT ![a] = p],
           \A b \in slaves : sock'[b] = sock[b],
           upMap, upMap', farewellMap' = {}
    PROVE  Contract!Next
<1>1. remove \subseteq slaves  BY DEF IInv, MarkedHasReason
<1>2. statusMap[a] = "absent"  BY DEF statusMap
<1>3. statusMap' = [statusMap EXCEPT ![a] = "serving"]
  BY <1>1 DEF statusMap
<1>4. clientMap' = [clientMap EXCEPT ![a] = p]
  BY DEF clientMap, IInv, TypeOK
<1>5. transportMap' = [transportMap EXCEPT ![a] = k]
  BY DEF transportMap, IInv, TypeOK
<1>6. lateMap' = lateMap  BY <1>1 DEF lateMap
<1>7. Contract!Admit(a, p, k)
  BY <1>2, <1>3, <1>4, <1>5, <1>6 DEF Contract!Admit
<1>. QED  BY <1>7 DEF Contract!Next

\* A handler that marks an unmarked session and closes its socket dismisses it.
LEMMA DismissStep ==
    ASSUME IInv, NEW a \in slaves, a \notin remove, remove' = remove \cup {a},
           sock' = [sock EXCEPT ![a] = "none"], UNCHANGED <<slaves, kind, peer>>,
           upMap, upMap',
           \/ farewellMap' = {}
           \/ kind[a] = "udp" /\ farewellMap' = Send(a, "server_session_err")
    PROVE  Contract!Next
<1>0. a \in Address /\ remove \subseteq Address  BY DEF IInv, TypeOK
<1>1. statusMap[a] = "serving" /\ transportMap[a] = kind[a] /\ clientMap[a] = peer[a]
  BY <1>0 DEF statusMap, transportMap, clientMap
<1>2. statusMap' = [statusMap EXCEPT ![a] = "leaving"]
  BY <1>0 DEF statusMap
<1>3. clientMap' = clientMap /\ transportMap' = transportMap
  BY DEF clientMap, transportMap
<1>4. lateMap' = lateMap
  BY <1>0 DEF lateMap, IInv, TypeOK
<1>5. Send(a, "server_session_err") = Contract!Tell({a}, "server_session_err")
  BY <1>1 DEF Send, Contract!Tell
<1>6. Contract!Dismiss(a)
  BY <1>1, <1>2, <1>3, <1>4, <1>5 DEF Contract!Dismiss
<1>. QED  BY <1>0, <1>6 DEF Contract!Next

\* A timeout is a step of the contract: noticed for the first time it expires
\* the session, and again it changes nothing.
LEMMA TimeoutRefines ==
    ASSUME IInv, NEW a \in Address, TimeoutUdp(a)
    PROVE  Contract!Next
<1>. USE DEF TimeoutUdp, loopVars, masterVars
<1>1. /\ a \in slaves /\ kind[a] = "udp" /\ sock[a] # "none" /\ pc = "dispatch"
      /\ remove' = remove \cup {a}
  BY DEF Take, Judge, EndingStatus
<1>2. upMap /\ upMap' /\ farewellMap' = {}
  BY <1>1 DEF upMap, farewellMap
<1>3. clientMap' = clientMap /\ transportMap' = transportMap
  BY DEF clientMap, transportMap
<1>4. CASE a \in remove
  <2>1. statusMap' = statusMap /\ lateMap' = lateMap
    BY <1>1, <1>4 DEF statusMap, lateMap
  <2>. QED  BY <1>2, <1>3, <2>1, ServeStep DEF sessionMaps
<1>5. CASE a \notin remove
  <2>1. statusMap[a] = "serving" /\ transportMap[a] = "udp"
    BY <1>1, <1>5 DEF statusMap, transportMap
  <2>2. statusMap' = [statusMap EXCEPT ![a] = "leaving"]
    BY <1>1 DEF statusMap
  <2>3. lateMap' = lateMap \cup {a}
    BY <1>1 DEF lateMap
  <2>4. Contract!Expire(a)
    BY <1>2, <1>3, <2>1, <2>2, <2>3 DEF Contract!Expire
  <2>. QED  BY <2>4 DEF Contract!Next
<1>. QED  BY <1>4, <1>5

\* A timer failure dismisses the session or, after a timeout, gives up the late one.
LEMMA TimerFailsRefines ==
    ASSUME IInv, NEW a \in Address, TimerFails(a)
    PROVE  Contract!Next
<1>. USE DEF TimerFails, loopVars, masterVars
<1>1. /\ a \in slaves /\ kind[a] = "udp" /\ sock[a] # "none" /\ pc = "dispatch"
      /\ remove' = remove \cup {a} /\ sock' = [sock EXCEPT ![a] = "none"]
  BY DEF Take, Judge, EndingStatus, Close
<1>2. upMap /\ upMap'  BY <1>1 DEF upMap
<1>3. farewellMap' = Send(a, "server_session_err")
  BY DEF farewellMap, Send, FarewellHeader
<1>4. CASE a \notin remove
  BY <1>1, <1>2, <1>3, <1>4, DismissStep
<1>5. CASE a \in remove
  <2>1. /\ statusMap' = statusMap /\ clientMap' = clientMap /\ transportMap' = transportMap
        /\ clientMap[a] = peer[a]
    BY <1>1, <1>5 DEF statusMap, clientMap, transportMap
  <2>2. a \in lateMap /\ lateMap' = lateMap \ {a}
    BY <1>1, <1>5 DEF lateMap, IInv, TypeOK
  <2>3. Send(a, "server_session_err") = Contract!Tell({a}, "server_session_err")
    BY <2>1 DEF Send, Contract!Tell
  <2>4. Contract!FailLate(a)
    BY <1>2, <1>3, <2>1, <2>2, <2>3 DEF Contract!FailLate
  <2>. QED  BY <2>4 DEF Contract!Next
<1>. QED  BY <1>4, <1>5

\* Destroying owned sessions is forgetting them.
LEMMA ForgetStep ==
    ASSUME IInv, NEW S \in SUBSET slaves, Delete(S),
           slaves' = slaves \ S, remove' \cap slaves' = remove \cap slaves'
    PROVE  Contract!Forget(S)
<1>1. \A a \in Address \ S : kind'[a] = kind[a] /\ peer'[a] = peer[a]
  BY DEF Delete, SetAll
<1>2. statusMap' = [a \in Address |-> IF a \in S THEN "absent" ELSE statusMap[a]]
  BY DEF statusMap
<1>3. clientMap' = [a \in Address |-> IF a \in S THEN NoPeer ELSE clientMap[a]]
  BY <1>1 DEF clientMap
<1>4. transportMap' = [a \in Address |-> IF a \in S THEN "none" ELSE transportMap[a]]
  BY <1>1 DEF transportMap
<1>. QED  BY <1>2, <1>3, <1>4 DEF Contract!Forget, Contract!Absent

\* The end of a batch settles the marked sessions.
LEMMA EndBatchRefines ==
    ASSUME IInv, EndBatch
    PROVE  Contract!Next
<1>. USE DEF EndBatch, loopVars, masterVars
<1>1. remove \subseteq slaves /\ slaves \subseteq Address
  BY DEF IInv, TypeOK, MarkedHasReason
<1>2. Contract!Is("leaving") = remove
  BY <1>1 DEF Contract!Is, statusMap
<1>3. Contract!Forget(remove)
  BY <1>1, ForgetStep
<1>4. lateMap' = {}  BY DEF lateMap
<1>5. \A a \in remove :
        /\ clientMap[a] = peer[a]
        /\ a \in lateMap <=> kind[a] = "udp" /\ sock[a] = "connected"
        /\ a \in lateMap => isTimeout[a] = TRUE
  BY <1>1 DEF clientMap, lateMap, IInv, TypeOK, MarkedHasReason, TimeoutIsMarked,
              FreshInInit, Fresh
<1>6. farewellMap' = Contract!Tell(lateMap, "server_timeout")
  <2>. DEFINE M(a) == [via |-> a, to |-> peer[a], header |-> "server_timeout"]
  <2>1. out' = {M(a) : a \in lateMap}
    <3>1. {b \in remove : kind[b] = "udp" /\ sock[b] = "connected"} = lateMap
      BY <1>5 DEF lateMap
    <3>2. \A a \in lateMap : Send(a, Notice(isTimeout[a])) = {M(a)}
      BY <1>5 DEF Send, Notice, lateMap
    <3>. QED  BY <3>1, <3>2 DEF Notices
  <2>2. farewellMap' = out'
    BY <2>1 DEF farewellMap, FarewellHeader
  <2>3. Contract!Tell(lateMap, "server_timeout") = {M(a) : a \in lateMap}
    BY <1>5 DEF Contract!Tell, lateMap
  <2>. QED  BY <2>1, <2>2, <2>3
<1>7. upMap /\ upMap'  BY DEF upMap
<1>8. Contract!Settle
  BY <1>2, <1>3, <1>4, <1>6, <1>7 DEF Contract!Settle
<1>. QED  BY <1>8 DEF Contract!Next

\* Closing all sessions after the loop is the orderly shutdown.
LEMMA CloseSessionsRefines ==
    ASSUME IInv, CloseSessions
    PROVE  Contract!Next
<1>. USE DEF CloseSessions, loopVars, masterVars
<1>1. slaves \subseteq Address /\ remove = {} /\ remove' = {} /\ \A a \in Address : ~Fresh(a)
  BY DEF IInv, TypeOK, EventsAreCurrent, InBatch, FreshInInit
<1>2. Contract!Is("leaving") = {} /\ Contract!Is("serving") = slaves
  BY <1>1 DEF Contract!Is, statusMap
<1>3. Contract!Forget(slaves)
  BY <1>1, ForgetStep
<1>4. lateMap = {} /\ lateMap' = {}  BY <1>1 DEF lateMap
<1>5. \A a \in slaves :
        /\ clientMap[a] = peer[a] /\ transportMap[a] = kind[a]
        /\ sock[a] = "connected" /\ isTimeout[a] = FALSE
  BY <1>1 DEF clientMap, transportMap, IInv, TypeOK, MarkedHasReason, ClosedIsMarked,
              TimeoutIsMarked, FreshInInit
<1>6. farewellMap' =
        Contract!Tell({a \in slaves : transportMap[a] = "udp"}, "server_conndown")
  <2>. DEFINE M(a) == [via |-> a, to |-> peer[a], header |-> "server_conndown"]
              T == {a \in slaves : transportMap[a] = "udp"}
  <2>1. out' = {M(a) : a \in T}
    <3>1. {b \in slaves : kind[b] = "udp" /\ sock[b] = "connected"} = T
      BY <1>5
    <3>2. \A a \in T : Send(a, Notice(isTimeout[a])) = {M(a)}
      BY <1>5 DEF Send, Notice
    <3>. QED  BY <3>1, <3>2 DEF Notices
  <2>2. farewellMap' = out'
    BY <2>1 DEF farewellMap, FarewellHeader
  <2>3. Contract!Tell(T, "server_conndown") = {M(a) : a \in T}
    BY <1>5 DEF Contract!Tell
  <2>. QED  BY <2>1, <2>2, <2>3
<1>7. upMap /\ ~upMap'  BY DEF upMap
<1>8. Contract!Shutdown
  BY <1>2, <1>3, <1>4, <1>6, <1>7 DEF Contract!Shutdown
<1>. QED  BY <1>8 DEF Contract!Next

\* Steps of the loop that do not concern an owned session.
LEMMA LoopRefines ==
    ASSUME IInv,
           \/ CreateSockets \/ SetupFails \/ SetupEpoll \/ Cleanup
           \/ WaitEvents \/ HandleStop \/ DropTcp \/ RefuseUdp
           \/ \E m \in Listener : ListenerFails(m)
    PROVE  Contract!Next
<1>1. UNCHANGED <<ownerVars, sessionVars>>
  BY DEF CreateSockets, SetupFails, SetupEpoll, Cleanup, WaitEvents, HandleStop, DropTcp,
         RefuseUdp, ListenerFails
<1>2. sessionMaps' = sessionMaps
  BY <1>1, SameSessions DEF ownerVars, sessionVars
<1>3. farewellMap' = {}
  BY DEF CreateSockets, SetupFails, SetupEpoll, Cleanup, WaitEvents, HandleStop, DropTcp,
         RefuseUdp, ListenerFails, farewellMap, FarewellHeader
<1>4. ~upMap => ~upMap'
  BY DEF CreateSockets, SetupFails, SetupEpoll, Cleanup, WaitEvents, HandleStop, DropTcp,
         RefuseUdp, ListenerFails, TakeMaster, upMap
<1>5. upMap \in BOOLEAN /\ upMap' \in BOOLEAN  BY DEF upMap
<1>. QED  BY <1>2, <1>3, <1>4, <1>5, ServeStep, CrashStep

\* Steps of initSession and of proceed().
LEMMA SessionRefines ==
    ASSUME IInv, NEW a \in Address, SessionNext(a)
    PROVE  Contract!Next
<1>. USE DEF loopVars, masterVars, ownerVars
<1>1. CASE AcceptTcp(a)
  <2>1. a \notin slaves /\ Head(backlog["tcp"]) \in Request /\ pc = "dispatch" /\ pc' = pc
    BY <1>1, PopKeepsEdges DEF AcceptTcp, TakeMaster, Listener, IInv, FreeIsBlank
  <2>2. Head(backlog["tcp"]).from \in Peer  BY <2>1 DEF Request
  <2>3. upMap /\ upMap' /\ farewellMap' = {}
    BY <1>1, <2>1 DEF AcceptTcp, upMap, farewellMap
  <2>4. \A b \in slaves : sock'[b] = sock[b]
    BY <1>1, <2>1 DEF AcceptTcp, IInv, TypeOK
  <2>. QED  BY <1>1, <2>1, <2>2, <2>3, <2>4, AdmitStep DEF AcceptTcp
<1>2. CASE ConnectUdp(a)
  <2>1. a \notin slaves /\ kind[a] = "udp" /\ peer[a] \in Peer
    BY <1>2 DEF ConnectUdp, Fresh, IInv, FreshInInit, FreeIsBlank
  <2>2. kind' = [kind EXCEPT ![a] = "udp"] /\ peer' = [peer EXCEPT ![a] = peer[a]]
    BY <1>2, <2>1 DEF ConnectUdp, IInv, TypeOK
  <2>3. upMap /\ upMap' /\ farewellMap' = {}
    BY <1>2 DEF ConnectUdp, upMap, farewellMap, Send, FarewellHeader
  <2>4. \A b \in slaves : sock'[b] = sock[b]
    BY <1>2, <2>1 DEF ConnectUdp, IInv, TypeOK
  <2>. QED  BY <1>2, <2>1, <2>2, <2>3, <2>4, AdmitStep DEF ConnectUdp
<1>3. CASE AcceptUdp(a) \/ BindUdp(a) \/ AbandonUdp(a)
  <2>1. /\ a \notin slaves /\ ownerVars' = ownerVars
        /\ pc \in {"dispatch", "bind", "connect"} /\ pc' \in {"dispatch", "bind", "connect"}
    BY <1>3 DEF AcceptUdp, TakeMaster, BindUdp, AbandonUdp, Fresh, IInv, FreeIsBlank
  <2>2. \A b \in slaves : kind'[b] = kind[b] /\ peer'[b] = peer[b] /\ sock'[b] = sock[b]
    <3>1. CASE AcceptUdp(a)
      <4>1. /\ kind' = [kind EXCEPT ![a] = "udp"]
            /\ peer' = [peer EXCEPT ![a] = Head(backlog["udp"]).from]
            /\ sock' = sock
        BY <3>1 DEF AcceptUdp
      <4>. QED  BY <2>1, <4>1 DEF IInv, TypeOK
    <3>2. CASE BindUdp(a)
      <4>1. /\ sock' = [sock EXCEPT ![a] = "bound"]
            /\ UNCHANGED <<kind, peer>>
        BY <3>2 DEF BindUdp
      <4>. QED  BY <2>1, <4>1 DEF IInv, TypeOK
    <3>3. CASE AbandonUdp(a)
      <4>1. slaves \in SUBSET Address  BY DEF IInv, TypeOK
      <4>2. Delete({a})  BY <3>3 DEF AbandonUdp
      <4>. QED  BY <2>1, <4>1, <4>2 DEF Delete, SetAll
    <3>. QED  BY <1>3, <3>1, <3>2, <3>3
  <2>3. upMap' = upMap  BY <2>1 DEF upMap
  <2>4. farewellMap' = {}
    BY <1>3 DEF AcceptUdp, BindUdp, AbandonUdp, farewellMap, FarewellHeader
  <2>. QED  BY <2>1, <2>2, <2>3, <2>4, SameSessions, ServeStep
<1>4. CASE \/ IgnoreEvent(a) \/ RecvFails(a) \/ Answer(a) \/ Complain(a)
           \/ ReportReset(a) \/ ConnupUdp(a)
  <2>1. UNCHANGED <<pc, slaves, kind, sock, peer>>
    BY <1>4 DEF IgnoreEvent, sessionVars, RecvFails, Answer, Complain, ReportReset, ConnupUdp
  <2>2. remove' = remove
    BY <1>4, ReceivesByOwnEvent
    DEF IgnoreEvent, RecvFails, Answer, Complain, ReportReset, ConnupUdp, Receive, Judge,
        EndingStatus, LiveStatus
  <2>3. farewellMap' = {}
    BY <1>4 DEF IgnoreEvent, RecvFails, Answer, Complain, ReportReset, ConnupUdp, Send,
                farewellMap, FarewellHeader
  <2>4. upMap' = upMap  BY <2>1 DEF upMap
  <2>. QED  BY <2>1, <2>2, <2>3, <2>4, SameSessions, ServeStep
<1>5. CASE FinTcp(a) \/ DisconnectUdp(a)
  <2>1. /\ a \in slaves /\ a \notin remove /\ remove' = remove \cup {a}
        /\ pc = "dispatch" /\ pc' = pc
    BY <1>5, ReceivesByOwnEvent DEF FinTcp, DisconnectUdp, Receive, Judge, EndingStatus
  <2>2. sock' = [sock EXCEPT ![a] = "none"] /\ UNCHANGED <<slaves, kind, peer>>
    BY <1>5 DEF FinTcp, DisconnectUdp, Close
  <2>3. upMap /\ upMap' /\ farewellMap' = {}
    BY <1>5, <2>1 DEF FinTcp, DisconnectUdp, upMap, farewellMap
  <2>. QED  BY <2>1, <2>2, <2>3, DismissStep
<1>6. CASE TimerFails(a)  BY <1>6, TimerFailsRefines
<1>7. CASE TimeoutUdp(a)  BY <1>7, TimeoutRefines
<1>8. CASE Throw(a) \/ BrokenPipe(a)
  <2>1. sessionMaps' = sessionMaps
    BY <1>8, SameSessions DEF Throw, BrokenPipe, sessionVars
  <2>2. upMap /\ ~upMap' /\ farewellMap' = {}
    BY <1>8 DEF Throw, BrokenPipe, Receive, Take, upMap, farewellMap
  <2>. QED  BY <2>1, <2>2, CrashStep
<1>. QED
  BY <1>1, <1>2, <1>3, <1>4, <1>5, <1>6, <1>7, <1>8 DEF SessionNext

LEMMA EnvRefines ==
    ASSUME IInv, EnvNext
    PROVE  Contract!Next
<1>1. /\ UNCHANGED <<pc, ownerVars, kind, sock, peer>>
      /\ out' = {}
  BY DEF EnvNext, UdpArrives, UdpArrivesAtMaster, TcpConnects, Enqueue, TcpArrives,
         TcpResets, SocketError, TimerExpires, RaiseStop, sessionVars
<1>2. upMap' = upMap /\ farewellMap' = {}  BY <1>1 DEF upMap, farewellMap
<1>. QED  BY <1>1, <1>2, SameSessions, ServeStep DEF ownerVars

\* The server keeps its contract: no session is lost, taken back, or ended
\* without the farewell it is due, unless the process dies.
THEOREM Refinement == Spec => ImplementsContract
<1>1. Init => Contract!Init
  BY DEF Init, Contract!Init, upMap, statusMap, clientMap, transportMap, lateMap, farewellMap
<1>2. IInv /\ [Next]_vars => [Contract!Next]_Contract!cvars
  <2>1. IInv /\ Next => Contract!Next
    BY EndBatchRefines, CloseSessionsRefines, LoopRefines, SessionRefines, EnvRefines
    DEF Next, ServerNext
  <2>2. UNCHANGED vars => UNCHANGED Contract!cvars
    BY DEF vars, loopVars, masterVars, ownerVars, sessionVars, Contract!cvars, upMap,
           statusMap, clientMap, transportMap, lateMap, farewellMap
  <2>. QED  BY <2>1, <2>2
<1>. QED
  BY <1>1, <1>2, InductiveInvariant, PTL DEF Spec, ImplementsContract, Contract!Spec
=============================================================================
