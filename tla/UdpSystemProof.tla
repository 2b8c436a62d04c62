--------------------------- MODULE UdpSystemProof ---------------------------
(***************************************************************************)
(* TLAPS proofs about UdpSystem, for every number of ports, sessions and   *)
(* datagrams and every queue length.                                       *)
(***************************************************************************)
EXTENDS UdpSystemInductive, ServerProof, SequenceTheorems

-----------------------------------------------------------------------------
(* Queues *)

\* t is what is left of s when entries have been taken from its front.
Suffix(t, s) ==
    /\ Len(t) <= Len(s)
    /\ \A i \in 1 .. Len(t) : t[i] = s[i + (Len(s) - Len(t))]

LEMMA SuffixIs ==
    ASSUME NEW S, NEW s \in Seq(S)
    PROVE  /\ Suffix(s, s)
           /\ Suffix(<<>>, s)
           /\ s # <<>> => Suffix(Tail(s), s)
<1>1. Suffix(s, s)
  BY LenProperties DEF Suffix
<1>2. Suffix(<<>>, s)
  BY LenProperties, EmptySeq DEF Suffix
<1>3. ASSUME s # <<>> PROVE Suffix(Tail(s), s)
  BY <1>3, LenProperties, HeadTailProperties DEF Suffix
<1>. QED  BY <1>1, <1>2, <1>3

LEMMA SubQueue ==
    ASSUME NEW S, NEW s \in Seq(S)
    PROVE  <<>> \in Seq(S) /\ (s # <<>> => Tail(s) \in Seq(S))
BY EmptySeq, HeadTailProperties

\* What can be found at i in a queue that has got one more entry.
LEMMA AppendAt ==
    ASSUME NEW S, NEW s \in Seq(S), NEW e \in S
    PROVE  /\ DOMAIN Append(s, e) = 1 .. Len(s) + 1
           /\ \A i \in DOMAIN s : Append(s, e)[i] = s[i]
           /\ Append(s, e)[Len(s) + 1] = e
           /\ DOMAIN s = 1 .. Len(s) /\ Len(s) \in Nat
BY AppendProperties, LenProperties

LEMMA TailAt ==
    ASSUME NEW S, NEW s \in Seq(S), s # <<>>
    PROVE  /\ DOMAIN Tail(s) = 1 .. Len(s) - 1 /\ DOMAIN s = 1 .. Len(s)
           /\ \A i \in DOMAIN Tail(s) : i + 1 \in DOMAIN s /\ Tail(s)[i] = s[i + 1]
           /\ 1 \in DOMAIN s /\ Head(s) = s[1]
BY HeadTailProperties, LenProperties

LEMMA ConsAt ==
    ASSUME NEW S, NEW s \in Seq(S), NEW e \in S
    PROVE  /\ <<e>> \o s \in Seq(S) /\ Len(<<e>> \o s) = Len(s) + 1
           /\ DOMAIN (<<e>> \o s) = 1 .. Len(s) + 1
           /\ (<<e>> \o s)[1] = e
           /\ \A i \in 2 .. Len(s) + 1 : (<<e>> \o s)[i] = s[i - 1]
           /\ DOMAIN s = 1 .. Len(s) /\ Len(s) \in Nat
<1>1. <<e>> \in Seq(S) /\ Len(<<e>>) = 1 /\ <<e>>[1] = e
  OBVIOUS
<1>2. /\ <<e>> \o s \in Seq(S) /\ Len(<<e>> \o s) = 1 + Len(s)
      /\ \A i \in 1 .. 1 + Len(s) :
           (<<e>> \o s)[i] = IF i <= 1 THEN <<e>>[i] ELSE s[i - 1]
  BY <1>1, ConcatProperties
<1>3. Len(s) \in Nat /\ DOMAIN s = 1 .. Len(s) /\ DOMAIN (<<e>> \o s) = 1 .. 1 + Len(s)
  BY <1>2, LenProperties
<1>. QED  BY <1>1, <1>2, <1>3

-----------------------------------------------------------------------------
(* The server's own invariant *)

\* Steps of the client and of the network leave the server alone.
LEMMA ServerRestsStep == ASSUME IInv, ServerRests PROVE IInv'
<1>. USE DEF ServerRests, serverVars, loopVars, masterVars, ownerVars, sessionVars
<1>1. TypeOK' /\ FreeIsBlank' /\ TimerIsSessions' /\ SocketIsWatched'
  BY DEF IInv, TypeOK, FreeIsBlank, TimerIsSessions, SocketIsWatched
<1>2. FreshInInit' /\ MarkedHasReason' /\ TimeoutIsMarked'
  BY DEF IInv, FreshInInit, Fresh, MarkedHasReason, ClosedIsMarked, TimeoutIsMarked
<1>3. EventsAreCurrent' /\ EdgesAreBacked' /\ PhaseIsClean'
  BY DEF IInv, EventsAreCurrent, EventsAreLive, InBatch, EdgesAreBacked, PhaseIsClean, Sessionless
<1>. QED  BY <1>1, <1>2, <1>3 DEF IInv

LEMMA RestartStep == ASSUME Restart PROVE IInv'
<1>1. Init'
  BY DEF Restart, Init
<1>2. Init' => IInv'
  BY InitIInv, PTL
<1>. QED  BY <1>1, <1>2

-----------------------------------------------------------------------------
(* What a step of the server does to queues and peers *)

LEMMA QueueTypes ==
    ASSUME IInv, NEW a \in Address
    PROVE  rx[a] \in Seq(Request) /\ backlog["udp"] \in Seq(Request) /\ backlog["tcp"] \in Seq(Request)
BY DEF IInv, TypeOK, Listener

\* What has been received is read from the front or given up with its socket,
\* and the peer stays while something is left.
SessionKept(a) ==
    /\ Suffix(rx'[a], rx[a])
    /\ peer'[a] = peer[a] \/ peer'[a] = NoPeer
    /\ rx'[a] # <<>> => peer'[a] = peer[a]

\* The handlers that only read.
LEMMA ReadKeeps ==
    ASSUME IInv, NEW a \in Address, rx[a] # <<>> \/ rx' = rx,
           rx' = rx \/ rx' = [rx EXCEPT ![a] = Tail(@)] \/ rx' = [rx EXCEPT ![a] = <<>>],
           peer' = peer
    PROVE  \A b \in Address : SessionKept(b)
<1>. TAKE b \in Address
<1>1. rx[b] \in Seq(Request)  BY DEF IInv, TypeOK
<1>2. rx'[b] = rx[b] \/ (rx[b] # <<>> /\ rx'[b] = Tail(rx[b])) \/ rx'[b] = <<>>
  BY DEF IInv, TypeOK
<1>. QED  BY <1>1, <1>2, SuffixIs DEF SessionKept

LEMMA DeleteKeeps ==
    ASSUME IInv, NEW S \in SUBSET Address, Delete(S)
    PROVE  \A b \in Address : SessionKept(b)
<1>. TAKE b \in Address
<1>1. rx[b] \in Seq(Request)  BY DEF IInv, TypeOK
<1>2. \/ rx'[b] = <<>> /\ peer'[b] = NoPeer
      \/ rx'[b] = rx[b] /\ peer'[b] = peer[b]
  BY DEF Delete, SetAll
<1>. QED  BY <1>1, <1>2, SuffixIs DEF SessionKept

-----------------------------------------------------------------------------
(* What a step of the client does to its socket *)

\* A socket is opened and asks for a session.
ClientOpens ==
    /\ ~copen /\ copen' /\ cinbox' = <<>> /\ cpc' = "init"
    /\ csent' = {[header |-> "req_connstart", text |-> "none"]}

\* The user's line is sent.
ClientAsks ==
    /\ copen /\ copen' /\ cinbox' = cinbox
    /\ cpc = "select" /\ cpc' = "answer" /\ casked' \in Text
    /\ csent' = {[header |-> "client_msg", text |-> casked']}

\* The next datagram is taken; by one who has asked, only an answer.
ClientTakes ==
    /\ copen /\ copen' /\ cinbox # <<>> /\ cinbox' = Tail(cinbox)
    /\ cpc = "answer" => Head(cinbox).header = "server_msg"
    /\ cpc' = "select" /\ csent' = {}

ClientKeeps ==
    /\ copen /\ copen' /\ cinbox' = cinbox /\ casked' = casked
    /\ cpc = "answer" <=> cpc' = "answer"
    /\ csent' \in SUBSET {[header |-> "client_connup", text |-> "none"]}

\* There is no socket afterwards, with or without a farewell.
ClientCloses ==
    /\ ~copen' /\ cinbox' = <<>>
    /\ csent' \in SUBSET {[header |-> "client_conndown", text |-> "none"]}
    /\ csent' # {} => copen

ClientEffect ==
    /\ C!SessionFitsState'
    /\ csession' # "tcp" /\ cpc' # "connect" /\ casked' \in Text
    /\ ClientOpens \/ ClientAsks \/ ClientTakes \/ ClientKeeps \/ ClientCloses

LEMMA FarewellIs ==
    /\ C!Farewell \in SUBSET {[header |-> "client_conndown", text |-> "none"]}
    /\ C!Farewell # {} => copen
BY DEF C!Farewell, C!Message

LEMMA LeaveStep ==
    ASSUME C!SessionFitsState, cpc \notin {"exit", "abort"}, NEW f, NEW r, C!Leave(f, r),
           f = {} \/ f = C!Farewell
    PROVE  ClientEffect
<1>1. /\ cpc' = "select" /\ cstate' = "protocol_selection" /\ csession' = "none"
      /\ copen' = FALSE /\ casked' = "none" /\ cinbox' = <<>> /\ csent' = f
      /\ cwatched' = (IF csession = "none" THEN cwatched ELSE FALSE)
  BY DEF C!Leave, C!Drop
<1>2. csession = "none" => ~cwatched
  BY DEF C!SessionFitsState
<1>3. cwatched' = FALSE \/ (csession = "none" /\ cwatched' = cwatched)
  BY <1>1
<1>4. ~cwatched'
  BY <1>2, <1>3
<1>5. C!SessionFitsState'
  BY <1>1, <1>4 DEF C!SessionFitsState
<1>6. casked' \in Text
  BY <1>1 DEF Text
<1>7. ClientCloses
  BY <1>1, FarewellIs DEF ClientCloses
<1>. QED  BY <1>1, <1>5, <1>6, <1>7 DEF ClientEffect

\* The state of a client whose socket is not touched.
LEMMA ClientStays ==
    ASSUME C!SessionFitsState, UdpOnly, NetTypes, cpc \notin {"exit", "abort"},
           UNCHANGED <<cstate, csession, copen, cwatched, casked, cinbox>>,
           \/ cpc' = cpc
           \/ cpc = "select" /\ cstate = "connected" /\ cpc' \in {"connup", "abort"},
           csent' \in SUBSET {[header |-> "client_connup", text |-> "none"]},
           csent' # {} => copen
    PROVE  ClientEffect
<1>1. C!SessionFitsState' /\ csession' # "tcp" /\ cpc' # "connect" /\ casked' \in Text
  BY DEF C!SessionFitsState, UdpOnly, NetTypes
<1>2. CASE copen
  BY <1>1, <1>2 DEF ClientEffect, ClientKeeps
<1>3. CASE ~copen
  BY <1>1, <1>3 DEF ClientEffect, ClientCloses, UdpOnly
<1>. QED  BY <1>2, <1>3

LEMMA ClientStep ==
    ASSUME C!SessionFitsState, UdpOnly, NetTypes, C!ClientNext
    PROVE  ClientEffect
<1>. USE DEF C!sessionVars, C!userVars
<1>1. CASE C!Break
  <2>1. cpc = "select"  BY <1>1 DEF C!Break
  <2>2. CASE cstate = "protocol_selection"
    <3>1. /\ cpc' = "exit" /\ csent' = {}
          /\ UNCHANGED <<cstate, csession, copen, cwatched, casked, cinbox>>
      BY <1>1, <2>2 DEF C!Break
    <3>2. ~copen
      BY <2>1, <2>2 DEF C!SessionFitsState
    <3>. QED  BY <3>1, <3>2 DEF ClientEffect, ClientCloses, C!SessionFitsState, UdpOnly, NetTypes
  <2>3. CASE cstate # "protocol_selection"
    BY <1>1, <2>1, <2>3, LeaveStep DEF C!Break
  <2>. QED  BY <2>2, <2>3
<1>2. CASE C!Unsolicited
  BY <1>2, LeaveStep DEF C!Unsolicited
<1>3. CASE C!InitAnswered
  <2>1. cpc = "init" /\ copen /\ ~cwatched /\ cinbox # <<>>
    BY <1>3 DEF C!InitAnswered, C!SessionFitsState
  <2>2. CASE C!InitStatus(C!Reply) = "init_success"
    <3>1. /\ cpc' = "select" /\ cstate' = "connected" /\ cwatched' = copen /\ csent' = {}
          /\ cinbox' = Tail(cinbox) /\ UNCHANGED <<csession, copen, casked>>
      BY <1>3, <2>2 DEF C!InitAnswered, C!Connect, C!Receive
    <3>2. C!SessionFitsState'
      BY <2>1, <3>1 DEF C!SessionFitsState
    <3>3. ClientTakes
      BY <2>1, <3>1 DEF ClientTakes
    <3>. QED  BY <3>1, <3>2, <3>3 DEF ClientEffect, UdpOnly, NetTypes
  <2>3. CASE C!InitStatus(C!Reply) # "init_success"
    BY <1>3, <2>1, <2>3, LeaveStep DEF C!InitAnswered
  <2>. QED  BY <2>2, <2>3
<1>4. CASE C!ConnupAnswered
  <2>1. cpc = "connup" /\ copen /\ cinbox # <<>>
    BY <1>4 DEF C!ConnupAnswered, C!SessionFitsState
  <2>2. CASE C!ConnupStatus(C!Reply) = "connup_up"
    <3>1. /\ cpc' = "select" /\ csent' = {} /\ cinbox' = Tail(cinbox)
          /\ UNCHANGED <<cstate, csession, copen, cwatched, casked>>
      BY <1>4, <2>2 DEF C!ConnupAnswered, C!Receive
    <3>2. C!SessionFitsState'
      BY <2>1, <3>1 DEF C!SessionFitsState
    <3>3. ClientTakes
      BY <2>1, <3>1 DEF ClientTakes
    <3>. QED  BY <3>1, <3>2, <3>3 DEF ClientEffect, UdpOnly, NetTypes
  <2>3. CASE C!ConnupStatus(C!Reply) # "connup_up"
    BY <1>4, <2>1, <2>3, LeaveStep DEF C!ConnupAnswered
  <2>. QED  BY <2>2, <2>3
<1>5. CASE C!Answered
  <2>1. cpc = "answer" /\ copen /\ cinbox # <<>>
    BY <1>5 DEF C!Answered, C!SessionFitsState
  <2>2. CASE C!AnswerStatus(C!Reply) = "proceed_msg"
    <3>1. /\ cpc' = "select" /\ csent' = {} /\ cinbox' = Tail(cinbox) /\ casked' = "none"
          /\ UNCHANGED <<cstate, csession, copen, cwatched>>
      BY <1>5, <2>2 DEF C!Answered, C!Receive
    <3>2. C!SessionFitsState'
      BY <2>1, <3>1 DEF C!SessionFitsState
    <3>3. Head(cinbox).header = "server_msg"
      BY <2>2 DEF C!AnswerStatus, C!Reply
    <3>4. ClientTakes
      BY <2>1, <3>1, <3>3 DEF ClientTakes
    <3>. QED  BY <3>1, <3>2, <3>4 DEF ClientEffect, UdpOnly, Text
  <2>3. CASE C!AnswerStatus(C!Reply) # "proceed_msg"
    BY <1>5, <2>1, <2>3, LeaveStep DEF C!Answered
  <2>. QED  BY <2>2, <2>3
<1>6. CASE C!WaitFails
  BY <1>6, LeaveStep DEF C!WaitFails
<1>7. CASE C!Connected
  BY <1>7 DEF C!Connected, UdpOnly
<1>8. CASE C!Idle
  <2>1. /\ cpc = "select" /\ cstate = "connected" /\ copen
    BY <1>8 DEF C!Idle, C!SessionFitsState
  <2>2. CASE C!Leave(C!Farewell, "proceed_msg_send_fail")
    BY <2>1, <2>2, LeaveStep
  <2>3. CASE ~C!Leave(C!Farewell, "proceed_msg_send_fail")
    <3>1. /\ cpc' = "connup" /\ csent' = {[header |-> "client_connup", text |-> "none"]}
          /\ UNCHANGED <<cstate, csession, copen, cwatched, casked, cinbox>>
      BY <1>8, <2>3 DEF C!Idle, C!Message
    <3>. QED  BY <2>1, <3>1, ClientStays
  <2>. QED  BY <2>2, <2>3
<1>9. CASE C!SelectFails
  <2>1. /\ cpc = "select" /\ cpc' = "exit" /\ csession' = "none" /\ ~copen'
        /\ casked' = "none" /\ cinbox' = <<>> /\ csent' = C!Farewell
    BY <1>9 DEF C!SelectFails, C!Drop
  <2>. QED  BY <2>1, FarewellIs DEF ClientEffect, ClientCloses, C!SessionFitsState, Text
<1>10. CASE C!RaiseBreak \/ C!EndInput
  BY <1>10, ClientStays DEF C!RaiseBreak, C!EndInput
<1>11. ASSUME NEW line \in Line \cup {""},
              \/ C!SelectProtocol(line) \/ C!RejectLine(line) \/ C!EnterAddress(line)
              \/ C!Ask(line) \/ C!Overrun(line)
       PROVE  ClientEffect
  <2>1. cpc = "select"
    BY <1>11 DEF C!SelectProtocol, C!RejectLine, C!EnterAddress, C!Ask, C!Overrun, C!Reads
  <2>2. CASE C!SelectProtocol(line)
    <3>1. /\ line = "u" /\ csession' = "udp" /\ cstate' = "address_input" /\ csent' = {}
          /\ UNCHANGED <<cpc, copen, cwatched, casked, cinbox>>
      BY <2>2, LineAssumption DEF C!SelectProtocol
    <3>2. cstate = "protocol_selection"  BY <2>2 DEF C!SelectProtocol
    <3>3. ~copen /\ ~cwatched /\ casked = "none"
      BY <2>1, <3>2 DEF C!SessionFitsState
    <3>. QED  BY <2>1, <3>1, <3>3 DEF ClientEffect, ClientCloses, C!SessionFitsState, UdpOnly, NetTypes
  <2>3. CASE C!RejectLine(line)
    BY <2>1, <2>3, ClientStays DEF C!RejectLine
  <2>4. CASE C!EnterAddress(line)
    <3>1. cstate = "address_input"  BY <2>4 DEF C!EnterAddress
    <3>2. ~copen /\ cinbox = <<>> /\ csession # "tcp"
      BY <2>1, <3>1 DEF C!SessionFitsState, UdpOnly
    <3>3. CASE \E report \in C!InitFailure[csession] : C!Leave({}, report)
      BY <2>1, <3>3, LeaveStep
    <3>4. CASE ~\E report \in C!InitFailure[csession] : C!Leave({}, report)
      <4>1. /\ csession = "udp" /\ cpc' = "init" /\ copen' = TRUE
            /\ csent' = {[header |-> "req_connstart", text |-> "none"]}
            /\ UNCHANGED <<cstate, csession, cwatched, casked, cinbox>>
        BY <2>4, <3>2, <3>4 DEF C!EnterAddress, C!Message
      <4>2. C!SessionFitsState'
        BY <2>1, <3>1, <4>1 DEF C!SessionFitsState
      <4>. QED  BY <3>2, <4>1, <4>2 DEF ClientEffect, ClientOpens, NetTypes
    <3>. QED  BY <3>3, <3>4
  <2>5. CASE C!Ask(line)
    <3>1. cstate = "connected" /\ line # "" /\ line \in Line
      BY <1>11, <2>5 DEF C!Ask
    <3>2. CASE C!Leave(C!Farewell, "proceed_msg_send_fail")
      BY <2>1, <3>2, LeaveStep
    <3>3. CASE ~C!Leave(C!Farewell, "proceed_msg_send_fail")
      <4>1. /\ cpc' = "answer" /\ casked' = line
            /\ csent' = {[header |-> "client_msg", text |-> line]}
            /\ UNCHANGED <<cstate, csession, copen, cwatched, cinbox>>
        BY <2>5, <3>3 DEF C!Ask, C!Message
      <4>2. casked' # "none"
        BY <3>1, <4>1, LineAssumption
      <4>3. copen
        BY <2>1, <3>1 DEF C!SessionFitsState
      <4>4. C!SessionFitsState'
        BY <2>1, <3>1, <4>1, <4>2 DEF C!SessionFitsState
      <4>. QED  BY <2>1, <3>1, <4>1, <4>3, <4>4 DEF ClientEffect, ClientAsks, Text, UdpOnly
    <3>. QED  BY <3>2, <3>3
  <2>6. CASE C!Overrun(line)
    BY <2>1, <2>6, ClientStays DEF C!Overrun
  <2>. QED  BY <1>11, <2>2, <2>3, <2>4, <2>5, <2>6
<1>. QED
  BY <1>1, <1>2, <1>3, <1>4, <1>5, <1>6, <1>7, <1>8, <1>9, <1>10, <1>11
  DEF C!ClientNext, C!ProgramNext, C!UserNext

-----------------------------------------------------------------------------
(* Steps of the client *)

LEMMA CarryIn == ASSUME NEW net, NEW new PROVE Carry(net, new) \subseteq net \cup new
BY DEF Carry

\* What a step of the client leaves alone, and where what it sends comes from.
LEMMA ClientFrame ==
    ASSUME SysInv, ClientEffect, ClientSends
    PROVE  /\ UNCHANGED <<down, backlog, peer, rx, rxText>>
           /\ \A d \in up' : \/ d \in up
                             \/ \E m \in csent' :
                                  d = [from |-> port', header |-> m.header, text |-> m.text]
           /\ IF ClientOpens THEN port' \in Peer \ used /\ used' = used \cup {port'}
                             ELSE port' = port /\ used' = used
           /\ copen' => port' \in used'
           /\ csent' # {} => port' \in used' /\ port' \in Peer
<1>1. UNCHANGED <<down, backlog, peer, rx, rxText>>
  BY DEF ClientSends, ServerRests, serverVars, masterVars, sessionVars
<1>2. \A d \in up' : \/ d \in up
                     \/ \E m \in csent' :
                          d = [from |-> port', header |-> m.header, text |-> m.text]
  BY CarryIn DEF ClientSends
<1>3. ClientOpens <=> copen' /\ ~copen
  BY DEF ClientEffect, ClientOpens, ClientAsks, ClientTakes, ClientKeeps, ClientCloses
<1>4. IF ClientOpens THEN port' \in Peer \ used /\ used' = used \cup {port'}
                     ELSE port' = port /\ used' = used
  BY <1>3 DEF ClientSends, portVars
<1>5. copen => port \in used /\ used \subseteq Peer
  BY DEF SysInv, NetInv, KnownPorts, NetTypes
<1>6. copen' => port' \in used'
  BY <1>3, <1>4, <1>5
<1>7. csent' # {} => ClientOpens \/ copen
  BY DEF ClientEffect, ClientOpens, ClientAsks, ClientTakes, ClientKeeps, ClientCloses
<1>. QED  BY <1>1, <1>2, <1>4, <1>5, <1>6, <1>7

\* What it sends: a request from a new port, a question, or neither.
LEMMA ClientSent ==
    ASSUME SysInv, ClientEffect, NEW m \in csent'
    PROVE  /\ m.header \in ClientHeader /\ m.text \in Text
           /\ m.header = "req_connstart" <=> ClientOpens
           /\ m.header = "client_msg" => ClientAsks /\ m.text = casked'
           /\ m.header # "client_msg" => m.text = "none"
BY DEF ClientEffect, ClientOpens, ClientAsks, ClientTakes, ClientKeeps, ClientCloses,
       ClientHeader, Text

LEMMA ClientNetTypes ==
    ASSUME SysInv, ClientEffect, ClientSends
    PROVE  NetTypes' /\ KnownPorts' /\ UdpOnly'
<1>. USE ClientFrame
<1>1. port' \in Peer \cup {NoPeer} /\ used' \in SUBSET Peer /\ used \subseteq used'
  BY DEF SysInv, NetInv, NetTypes
<1>2. ASSUME NEW d \in up'
      PROVE  /\ d \in [from : Peer, header : ClientHeader, text : Text] /\ d.from \in used'
             /\ d.header # "client_msg" => d.text = "none"
  <2>1. CASE d \in up
    BY <1>1, <2>1 DEF SysInv, NetInv, NetTypes, KnownPorts
  <2>2. ASSUME NEW m \in csent', d = [from |-> port', header |-> m.header, text |-> m.text]
        PROVE  /\ d \in [from : Peer, header : ClientHeader, text : Text] /\ d.from \in used'
               /\ d.header # "client_msg" => d.text = "none"
    BY <2>2, ClientSent
  <2>. QED  BY <2>1, <2>2
<1>3. cinbox' \in Seq([header : C!Received, text : Text])
  <2>1. cinbox \in Seq([header : C!Received, text : Text])
    BY DEF SysInv, NetInv, NetTypes
  <2>2. cinbox' = <<>> \/ cinbox' = cinbox \/ (cinbox # <<>> /\ cinbox' = Tail(cinbox))
    BY DEF ClientEffect, ClientOpens, ClientAsks, ClientTakes, ClientKeeps, ClientCloses
  <2>. QED  BY <2>1, <2>2, SubQueue
<1>4. NetTypes'
  BY <1>1, <1>2, <1>3 DEF SysInv, NetInv, NetTypes, ClientEffect
<1>5. KnownPorts'
  BY <1>1, <1>2 DEF SysInv, NetInv, KnownPorts
<1>6. ~copen' => cinbox' = <<>>
  BY DEF ClientEffect, ClientOpens, ClientAsks, ClientTakes, ClientKeeps, ClientCloses
<1>7. UdpOnly'
  BY <1>6 DEF SysInv, NetInv, UdpOnly, ClientEffect
<1>. QED  BY <1>4, <1>5, <1>7

\* A new port has asked for nothing yet.
LEMMA ClientRequestOnce ==
    ASSUME SysInv, ClientEffect, ClientSends
    PROVE  RequestOnce'
<1>. USE ClientFrame
<1>1. \A p : RequestQueued(p)' <=> RequestQueued(p)
  BY DEF RequestQueued, RequestAt
<1>2. \A p : HasSession(p)' <=> HasSession(p)
  BY DEF HasSession
<1>3. ASSUME NEW p \in Peer, RequestUp(p)', ~RequestUp(p)
      PROVE  ~RequestQueued(p) /\ ~HasSession(p)
  <2>1. PICK d \in up' : d.from = p /\ d.header = "req_connstart"
    BY <1>3 DEF RequestUp
  <2>2. d \notin up
    BY <1>3, <2>1 DEF RequestUp
  <2>3. PICK m \in csent' : d = [from |-> port', header |-> m.header, text |-> m.text]
    BY <2>2
  <2>4. ClientOpens /\ p = port'
    BY <2>1, <2>3, ClientSent
  <2>5. p \notin used
    BY <2>4
  <2>6. p # NoPeer
    BY PeerAssumption
  <2>. QED  BY <2>5, <2>6 DEF SysInv, NetInv, KnownPorts, RequestQueued, RequestAt, HasSession
<1>4. RequestOnce
  BY DEF SysInv, NetInv
<1>5. \A p \in Peer :
        /\ ~(RequestUp(p)' /\ RequestQueued(p)')
        /\ ~(RequestUp(p)' /\ HasSession(p)')
        /\ ~(RequestQueued(p)' /\ HasSession(p)')
  BY <1>1, <1>2, <1>3, <1>4 DEF RequestOnce
<1>6. \A p \in Peer :
        /\ \A i, j \in DOMAIN backlog'["udp"] : RequestAt(i, p)' /\ RequestAt(j, p)' => i = j
        /\ \A a, b \in Address : peer'[a] = p /\ peer'[b] = p => a = b
  BY <1>4 DEF RequestOnce, RequestAt
<1>7. \A a \in Address : \A i \in DOMAIN rx'[a] :
        rx'[a][i].input \in (ClientHeader \cup {"error"}) \ {"req_connstart"}
  BY <1>4 DEF RequestOnce
<1>. QED  BY <1>5, <1>6, <1>7 DEF RequestOnce

\* Where nothing is asked and nothing answered, there is nothing to confuse.
LEMMA NoQuestion ==
    ASSUME QuestionsUp' = {}, AnswersDown' = {}, \A i : ~AnswerAt(i)',
           \A a \in Address : \A i : ~QuestionAt(a, i)'
    PROVE  QuestionIsAsked' /\ QuestionOnce'
BY DEF QuestionIsAsked, QuestionOnce, QuestionHeld, AnswerHere

\* While the client does not wait for an answer there is no question.
LEMMA NothingAsked ==
    ASSUME SysInv, copen, cpc # "answer"
    PROVE  /\ QuestionsUp = {} /\ AnswersDown = {} /\ \A i : ~AnswerAt(i)
           /\ \A a \in Address : \A i : ~QuestionAt(a, i)
BY DEF SysInv, NetInv, QuestionIsAsked, QuestionAt, AnswerAt

LEMMA ClientQuestions ==
    ASSUME SysInv, ClientEffect, ClientSends
    PROVE  QuestionIsAsked' /\ QuestionOnce'
<1>. USE ClientFrame
<1>1. CASE ClientOpens
  <2>1. port' # NoPeer /\ port' \notin used
    BY <1>1, PeerAssumption
  <2>2. QuestionsUp' = {}
    <3>. SUFFICES ASSUME NEW d \in up', d.from = port', d.header = "client_msg" PROVE FALSE
      BY DEF QuestionsUp
    <3>1. d \notin up
      BY <2>1 DEF SysInv, NetInv, KnownPorts
    <3>2. PICK m \in csent' : d = [from |-> port', header |-> m.header, text |-> m.text]
      BY <3>1
    <3>. QED  BY <1>1, <3>2 DEF ClientOpens
  <2>3. AnswersDown' = {}
    BY <2>1 DEF SysInv, NetInv, KnownPorts, AnswersDown
  <2>4. \A a \in Address : \A i : ~QuestionAt(a, i)'
    BY <2>1 DEF SysInv, NetInv, KnownPorts, QuestionAt
  <2>5. \A i : ~AnswerAt(i)'
    BY <1>1 DEF ClientOpens, AnswerAt
  <2>. QED  BY <2>2, <2>3, <2>4, <2>5, NoQuestion
<1>2. CASE ClientAsks
  <2>1. copen /\ cpc # "answer" /\ port' = port /\ cinbox' = cinbox
    BY <1>2 DEF ClientAsks, ClientOpens
  <2>2. /\ QuestionsUp = {} /\ AnswersDown = {} /\ \A i : ~AnswerAt(i)
        /\ \A a \in Address : \A i : ~QuestionAt(a, i)
    BY <2>1, NothingAsked
  <2>3. AnswersDown' = {} /\ (\A i : ~AnswerAt(i)')
        /\ \A a \in Address : \A i : ~QuestionAt(a, i)'
    BY <2>1, <2>2 DEF AnswersDown, AnswerAt, QuestionAt
  <2>4. \A d \in QuestionsUp' : d.text = casked'
    <3>. SUFFICES ASSUME NEW d \in up', d.from = port', d.header = "client_msg"
                  PROVE  d.text = casked'
      BY DEF QuestionsUp
    <3>1. d \notin up
      BY <2>1, <2>2 DEF QuestionsUp
    <3>2. PICK m \in csent' : d = [from |-> port', header |-> m.header, text |-> m.text]
      BY <3>1
    <3>. QED  BY <1>2, <3>2 DEF ClientAsks
  <2>5. cpc' = "answer"
    BY <1>2 DEF ClientAsks
  <2>. QED  BY <2>3, <2>4, <2>5 DEF QuestionIsAsked, QuestionOnce, QuestionHeld, AnswerHere
<1>3. CASE ClientTakes
  <2>1. copen /\ port' = port /\ cinbox # <<>> /\ cinbox' = Tail(cinbox) /\ csent' = {}
    BY <1>3 DEF ClientTakes, ClientOpens
  <2>2. cinbox \in Seq([header : C!Received, text : Text])
    BY DEF SysInv, NetInv, NetTypes
  <2>3. /\ DOMAIN cinbox' = 1 .. Len(cinbox) - 1 /\ DOMAIN cinbox = 1 .. Len(cinbox)
        /\ \A i \in DOMAIN cinbox' : i + 1 \in DOMAIN cinbox /\ cinbox'[i] = cinbox[i + 1]
        /\ 1 \in DOMAIN cinbox /\ Head(cinbox) = cinbox[1]
    BY <2>1, <2>2, TailAt
  <2>4. QuestionsUp = {} /\ AnswersDown = {}
        /\ (\A a \in Address : \A i : ~QuestionAt(a, i))
        /\ \A i : AnswerAt(i) => i = 1
    <3>1. CASE cpc = "answer"
      <4>1. AnswerAt(1)
        BY <1>3, <2>3, <3>1 DEF ClientTakes, AnswerAt
      <4>. QED  BY <2>1, <2>3, <4>1 DEF SysInv, NetInv, QuestionOnce, QuestionHeld, AnswerHere, QuestionAt, AnswerAt
    <3>2. CASE cpc # "answer"
      BY <2>1, <3>2, NothingAsked
    <3>. QED  BY <3>1, <3>2
  <2>5. \A i : ~AnswerAt(i)'
    BY <2>3, <2>4 DEF AnswerAt
  <2>6. QuestionsUp' = {} /\ AnswersDown' = {}
    BY <2>1, <2>4 DEF QuestionsUp, AnswersDown
  <2>7. \A a \in Address : \A i : ~QuestionAt(a, i)'
    BY <2>1, <2>4 DEF QuestionAt
  <2>. QED  BY <2>5, <2>6, <2>7, NoQuestion
<1>4. CASE ClientKeeps
  <2>1. /\ copen /\ port' = port /\ cinbox' = cinbox /\ casked' = casked
        /\ cpc = "answer" <=> cpc' = "answer"
    BY <1>4 DEF ClientKeeps, ClientOpens
  <2>2. QuestionsUp' \subseteq QuestionsUp
    <3>. SUFFICES ASSUME NEW d \in up', d.from = port', d.header = "client_msg" PROVE d \in up
      BY <2>1 DEF QuestionsUp
    <3>1. \A m \in csent' : m.header = "client_connup"
      BY <1>4 DEF ClientKeeps
    <3>. QED  BY <3>1
  <2>3. AnswersDown' = AnswersDown
    BY <2>1 DEF AnswersDown
  <2>4. /\ \A a \in Address : \A i : QuestionAt(a, i)' <=> QuestionAt(a, i)
        /\ \A i : AnswerAt(i)' <=> AnswerAt(i)
    BY <2>1 DEF QuestionAt, AnswerAt
  <2>5. (QuestionHeld' <=> QuestionHeld) /\ (AnswerHere' <=> AnswerHere)
    BY <2>1, <2>4 DEF QuestionHeld, AnswerHere
  <2>6. QuestionIsAsked'
    BY <2>1, <2>2, <2>3, <2>4 DEF SysInv, NetInv, QuestionIsAsked
  <2>7. QuestionOnce'
    BY <2>1, <2>2, <2>3, <2>4, <2>5 DEF SysInv, NetInv, QuestionOnce
  <2>. QED  BY <2>6, <2>7
<1>5. CASE ClientCloses
  BY <1>5 DEF ClientCloses, QuestionIsAsked, QuestionOnce
<1>. QED  BY <1>1, <1>2, <1>3, <1>4, <1>5 DEF ClientEffect

LEMMA ClientNetStep ==
    ASSUME SysInv, C!ClientNext, ClientSends
    PROVE  SysInv'
<1>1. ClientEffect
  BY ClientStep DEF SysInv, NetInv
<1>2. IInv'
  BY ServerRestsStep DEF SysInv, NetInv, ClientSends
<1>3. C!SessionFitsState'
  BY <1>1 DEF ClientEffect
<1>. QED
  BY <1>1, <1>2, <1>3, ClientNetTypes, ClientRequestOnce, ClientQuestions DEF SysInv, NetInv

-----------------------------------------------------------------------------
(* What a handler of the server does to queues, peers and what is sent *)

\* A request becomes a session.
Accepts(a) ==
    /\ backlog["udp"] # <<>> /\ Head(backlog["udp"]).input = "req_connstart"
    /\ backlog'["udp"] = Tail(backlog["udp"])
    /\ peer[a] = NoPeer /\ peer' = [peer EXCEPT ![a] = Head(backlog["udp"]).from]
    /\ rx' = rx /\ rx[a] = <<>>

HandlerEffect ==
    /\ backlog'["tcp"] = <<>>
    /\ \/ (\A a \in Address : SessionKept(a)) /\ Suffix(backlog'["udp"], backlog["udp"])
       \/ \E a \in Address : Accepts(a)

LEMMA QueueStays == ASSUME IInv PROVE Suffix(backlog["udp"], backlog["udp"])
<1>1. backlog["udp"] \in Seq(Request)  BY DEF IInv, TypeOK, Listener
<1>. QED  BY <1>1, SuffixIs

\* No stream has been reset.
Unreset == \A a \in Address : \A i \in DOMAIN rx[a] : rx[a][i].input # "reset"

LEMMA SessionEffect ==
    ASSUME IInv, backlog["tcp"] = <<>>, Unreset, NEW a \in Address, SessionNext(a)
    PROVE  HandlerEffect
<1>. USE DEF loopVars, masterVars, ownerVars, sessionVars
<1>0. ~ReportReset(a)
  <2>. SUFFICES ASSUME ReportReset(a) PROVE FALSE  OBVIOUS
  <2>1. rx[a] \in Seq(Request) /\ rx[a] # <<>>
    BY DEF ReportReset, Receive, IInv, TypeOK
  <2>2. Len(rx[a]) \in DOMAIN rx[a]  BY <2>1
  <2>. QED  BY <2>1, <2>2 DEF ReportReset, End, Unreset
<1>1. CASE AcceptTcp(a)
  BY <1>1 DEF AcceptTcp, Pop
<1>2. CASE AcceptUdp(a)
  <2>1. backlog["udp"] # <<>> /\ backlog' = [backlog EXCEPT !["udp"] = Tail(@)]
    BY <1>2 DEF AcceptUdp, Pop
  <2>2. backlog \in [Listener -> Seq(Request)] /\ "udp" \in Listener /\ "tcp" \in Listener
    BY DEF IInv, TypeOK, Listener
  <2>3. backlog'["udp"] = Tail(backlog["udp"]) /\ backlog'["tcp"] = <<>>
    BY <2>1, <2>2
  <2>4. peer[a] = NoPeer /\ rx[a] = <<>>
    BY <1>2 DEF AcceptUdp, IInv, FreeIsBlank
  <2>. QED  BY <1>2, <2>1, <2>3, <2>4 DEF AcceptUdp, Accepts, HandlerEffect
<1>3. CASE AbandonUdp(a)
  <2>1. Delete({a}) /\ backlog' = backlog
    BY <1>3 DEF AbandonUdp
  <2>. QED  BY <2>1, DeleteKeeps, QueueStays DEF HandlerEffect
<1>4. CASE \/ BindUdp(a) \/ ConnectUdp(a) \/ IgnoreEvent(a) \/ TimeoutUdp(a)
           \/ Throw(a) \/ BrokenPipe(a)
  <2>1. rx' = rx /\ peer' = peer /\ backlog' = backlog
    BY <1>4 DEF BindUdp, ConnectUdp, IgnoreEvent, TimeoutUdp, Throw, BrokenPipe
  <2>. QED  BY <2>1, ReadKeeps, QueueStays DEF HandlerEffect
<1>5. CASE RecvFails(a)
  <2>1. /\ rx' = [rx EXCEPT ![a] = IF @ = <<>> THEN @ ELSE Tail(@)]
        /\ peer' = peer /\ backlog' = backlog
    BY <1>5 DEF RecvFails
  <2>2. rx' = rx \/ (rx[a] # <<>> /\ rx' = [rx EXCEPT ![a] = Tail(@)])
    BY <2>1 DEF IInv, TypeOK
  <2>. QED  BY <2>1, <2>2, ReadKeeps, QueueStays DEF HandlerEffect
<1>6. CASE Answer(a) \/ Complain(a) \/ ConnupUdp(a)
  <2>1. /\ rx[a] # <<>> /\ rx' = [rx EXCEPT ![a] = Tail(@)]
        /\ peer' = peer /\ backlog' = backlog
    BY <1>6 DEF Answer, Complain, ConnupUdp, Receive
  <2>. QED  BY <2>1, ReadKeeps, QueueStays DEF HandlerEffect
<1>7. CASE FinTcp(a) \/ TimerFails(a) \/ DisconnectUdp(a)
  <2>1. rx' = [rx EXCEPT ![a] = <<>>] /\ peer' = peer /\ backlog' = backlog
    BY <1>7 DEF FinTcp, TimerFails, DisconnectUdp, Close
  <2>2. \A b \in Address : SessionKept(b)
    <3>. TAKE b \in Address
    <3>1. rx[b] \in Seq(Request)  BY DEF IInv, TypeOK
    <3>2. rx'[b] = rx[b] \/ rx'[b] = <<>>
      BY <2>1 DEF IInv, TypeOK
    <3>. QED  BY <2>1, <3>1, <3>2, SuffixIs DEF SessionKept
  <2>. QED  BY <2>1, <2>2, QueueStays DEF HandlerEffect
<1>. QED
  BY <1>0, <1>1, <1>2, <1>3, <1>4, <1>5, <1>6, <1>7 DEF SessionNext

LEMMA HandlerStep ==
    ASSUME IInv, backlog["tcp"] = <<>>, Unreset, ServerNext
    PROVE  HandlerEffect
<1>. USE DEF loopVars, masterVars, ownerVars, sessionVars
<1>0. backlog \in [Listener -> Seq(Request)] /\ "udp" \in Listener /\ "tcp" \in Listener
  BY DEF IInv, TypeOK, Listener
<1>1. CASE rx' = rx /\ peer' = peer /\ backlog' = backlog
  <2>1. \A a \in Address : SessionKept(a)
    <3>. TAKE a \in Address
    <3>1. rx[a] \in Seq(Request)  BY DEF IInv, TypeOK
    <3>. QED  BY <1>1, <3>1, SuffixIs DEF SessionKept
  <2>. QED  BY <1>1, <2>1, QueueStays DEF HandlerEffect
<1>2. CASE \/ CreateSockets \/ SetupFails \/ WaitEvents \/ HandleStop
           \/ \E m \in Listener : ListenerFails(m)
  BY <1>1, <1>2 DEF CreateSockets, SetupFails, WaitEvents, HandleStop, ListenerFails
<1>3. CASE SetupEpoll \/ Cleanup \/ RefuseUdp
  <2>1. rx' = rx /\ peer' = peer
    BY <1>3 DEF SetupEpoll, Cleanup, RefuseUdp
  <2>2. \A a \in Address : SessionKept(a)
    <3>. TAKE a \in Address
    <3>1. rx[a] \in Seq(Request)  BY DEF IInv, TypeOK
    <3>. QED  BY <2>1, <3>1, SuffixIs DEF SessionKept
  <2>3. /\ backlog'["tcp"] = <<>>
        /\ \/ backlog'["udp"] = backlog["udp"] \/ backlog'["udp"] = <<>>
           \/ backlog["udp"] # <<>> /\ backlog'["udp"] = Tail(backlog["udp"])
    BY <1>0, <1>3 DEF SetupEpoll, Cleanup, RefuseUdp, Pop
  <2>4. Suffix(backlog'["udp"], backlog["udp"])
    BY <1>0, <2>3, SuffixIs
  <2>. QED  BY <2>2, <2>3, <2>4 DEF HandlerEffect
<1>4. CASE CloseSessions \/ EndBatch
  <2>1. backlog' = backlog /\ (Delete(slaves) \/ Delete(remove))
    BY <1>4 DEF CloseSessions, EndBatch
  <2>2. slaves \in SUBSET Address /\ remove \in SUBSET Address
    BY DEF IInv, TypeOK
  <2>. QED  BY <2>1, <2>2, DeleteKeeps, QueueStays DEF HandlerEffect
<1>5. CASE DropTcp
  BY <1>5 DEF DropTcp, Pop
<1>6. CASE \E a \in Address : SessionNext(a)
  BY <1>6, SessionEffect
<1>. QED  BY <1>2, <1>3, <1>4, <1>5, <1>6 DEF ServerNext

\* What is sent goes to the peer of a session or to one whose request is queued.
Addressed(m) ==
    /\ m.to \in Peer /\ m.header \in ServerHeader
    /\ \/ \E a \in Address : peer[a] = m.to
       \/ \E i \in DOMAIN backlog["udp"] : backlog["udp"][i].from = m.to

\* Which handlers answer a question and which find a fault.
Justified(m) ==
    /\ m.header = "server_msg" =>
         \E a \in Address : Answer(a) /\ out' = Send(a, "server_msg")
    /\ m.header = "incorrect_msg" => \E a \in Address : Complain(a)

LEMMA SessionSends ==
    ASSUME IInv, NEW a \in Address, kind[a] # "free", NEW h \in ServerHeader,
           NEW m \in Send(a, h)
    PROVE  m.header = h /\ Addressed(m)
BY DEF IInv, FreeIsBlank, Send, Addressed

LEMMA NoticeSent ==
    ASSUME IInv, NEW S \in SUBSET Address, NEW m \in Notices(S)
    PROVE  m.header \notin {"server_msg", "incorrect_msg"} /\ Addressed(m)
<1>1. PICK a \in Address : kind[a] = "udp" /\ m \in Send(a, Notice(isTimeout[a]))
  BY DEF Notices
<1>2. Notice(isTimeout[a]) \in ServerHeader \ {"server_msg", "incorrect_msg"}
  BY DEF Notice, ServerHeader
<1>. QED  BY <1>1, <1>2, SessionSends

LEMMA HandlerSends ==
    ASSUME IInv, ServerNext, NEW m \in out'
    PROVE  Addressed(m) /\ Justified(m)
<1>1. CASE CloseSessions \/ EndBatch
  <2>1. m \in Notices(slaves) \/ m \in Notices(remove)
    BY <1>1 DEF CloseSessions, EndBatch
  <2>2. slaves \in SUBSET Address /\ remove \in SUBSET Address
    BY DEF IInv, TypeOK
  <2>. QED  BY <2>1, <2>2, NoticeSent DEF Justified
<1>2. CASE RefuseUdp
  <2>1. backlog["udp"] # <<>> /\ backlog["udp"] \in Seq(Request)
    BY <1>2 DEF RefuseUdp, Pop, IInv, TypeOK, Listener
  <2>2. /\ 1 \in DOMAIN backlog["udp"] /\ Head(backlog["udp"]) = backlog["udp"][1]
        /\ Head(backlog["udp"]) \in Request
    BY <2>1, TailAt, HeadTailProperties
  <2>3. m.to = backlog["udp"][1].from /\ m.to \in Peer /\ m.header = "err_connstart"
    BY <1>2, <2>2 DEF RefuseUdp, Request
  <2>. QED  BY <2>2, <2>3 DEF Addressed, Justified, ServerHeader
<1>3. ASSUME NEW a \in Address, SessionNext(a)
      PROVE  Addressed(m) /\ Justified(m)
  <2>1. CASE AbandonUdp(a)
    <3>1. m.to = peer[a] /\ m.header = "err_connstart" /\ peer[a] \in Peer
      BY <2>1 DEF AbandonUdp, Fresh, IInv, FreeIsBlank
    <3>. QED  BY <3>1 DEF Addressed, Justified, ServerHeader
  <2>2. CASE ConnectUdp(a) \/ TimerFails(a) \/ ConnupUdp(a)
    <3>1. \/ m \in Send(a, "accept_connstart") \/ m \in Send(a, "server_session_err")
          \/ m \in Send(a, "server_connup")
      BY <2>2 DEF ConnectUdp, TimerFails, ConnupUdp
    <3>2. kind[a] # "free"
      BY <2>2 DEF ConnectUdp, Fresh, TimerFails, ConnupUdp, Receive
    <3>3. /\ m.header \in {"accept_connstart", "server_session_err", "server_connup"}
          /\ Addressed(m)
      BY <3>1, <3>2, SessionSends DEF ServerHeader
    <3>. QED  BY <3>3 DEF Justified
  <2>3. CASE Answer(a)
    <3>1. out' = Send(a, "server_msg") \/ out' = {}
      BY <2>3 DEF Answer
    <3>2. kind[a] # "free"
      BY <2>3 DEF Answer, Receive, Take, IInv, FreeIsBlank
    <3>3. m.header = "server_msg" /\ Addressed(m)
      BY <3>1, <3>2, SessionSends DEF ServerHeader
    <3>. QED  BY <2>3, <3>1, <3>3 DEF Justified
  <2>4. CASE Complain(a)
    <3>1. kind[a] # "free" /\ m \in Send(a, "incorrect_msg")
      BY <2>4 DEF Complain, Receive, Take, IInv, FreeIsBlank
    <3>2. m.header = "incorrect_msg" /\ Addressed(m)
      BY <3>1, SessionSends DEF ServerHeader
    <3>. QED  BY <2>4, <3>2 DEF Justified
  <2>5. CASE \/ AcceptTcp(a) \/ AcceptUdp(a) \/ BindUdp(a) \/ IgnoreEvent(a) \/ RecvFails(a)
             \/ ReportReset(a) \/ FinTcp(a) \/ TimeoutUdp(a) \/ DisconnectUdp(a)
             \/ Throw(a) \/ BrokenPipe(a)
    BY <2>5 DEF AcceptTcp, AcceptUdp, BindUdp, IgnoreEvent, RecvFails, ReportReset, FinTcp,
                TimeoutUdp, DisconnectUdp, Throw, BrokenPipe
  <2>. QED  BY <1>3, <2>1, <2>2, <2>3, <2>4, <2>5 DEF SessionNext
<1>4. CASE \/ CreateSockets \/ SetupFails \/ SetupEpoll \/ Cleanup \/ WaitEvents \/ HandleStop
           \/ DropTcp \/ \E n \in Listener : ListenerFails(n)
  BY <1>4 DEF CreateSockets, SetupFails, SetupEpoll, Cleanup, WaitEvents, HandleStop,
              DropTcp, ListenerFails
<1>. QED  BY <1>1, <1>2, <1>3, <1>4 DEF ServerNext

-----------------------------------------------------------------------------
(* Steps that leave no more than there was *)

\* What a session has received is read from the front or given up, with its texts.
QueueKept(a) ==
    /\ Suffix(rx'[a], rx[a]) /\ Suffix(rxText'[a], rxText[a])
    /\ Len(rxText'[a]) = Len(rx'[a])
    /\ rx'[a] # <<>> => peer'[a] = peer[a]

\* Where something that is left was before.
Before(t, s, i) == i + (Len(s) - Len(t))

LEMMA SuffixAt ==
    ASSUME NEW S, NEW s \in Seq(S), NEW t \in Seq(S), Suffix(t, s), NEW i \in DOMAIN t
    PROVE  /\ i \in Int /\ Len(s) - Len(t) \in Int
           /\ Before(t, s, i) \in DOMAIN s /\ t[i] = s[Before(t, s, i)]
BY LenProperties DEF Suffix, Before

LEMMA BeforeInjective ==
    ASSUME NEW s, NEW t, NEW i \in Int, NEW j \in Int, Len(s) - Len(t) \in Int,
           Before(t, s, i) = Before(t, s, j)
    PROVE  i = j
BY DEF Before

LEMMA QuestionWasThere ==
    ASSUME IInv, IInv', NetTypes, NEW a \in Address, QueueKept(a), port' = port,
           NEW i, QuestionAt(a, i)'
    PROVE  /\ QuestionAt(a, Before(rx'[a], rx[a], i))
           /\ rxText'[a][i] = rxText[a][Before(rx'[a], rx[a], i)]
           /\ i \in Int /\ Len(rx[a]) - Len(rx'[a]) \in Int
<1>1. rx[a] \in Seq(Request) /\ rx'[a] \in Seq(Request) /\ i \in DOMAIN rx'[a]
  BY DEF IInv, TypeOK, QuestionAt
<1>2. /\ i \in Int /\ Len(rx[a]) - Len(rx'[a]) \in Int
      /\ Before(rx'[a], rx[a], i) \in DOMAIN rx[a]
      /\ rx'[a][i] = rx[a][Before(rx'[a], rx[a], i)]
  BY <1>1, SuffixAt DEF QueueKept
<1>3. rx'[a] # <<>>
  BY <1>1
<1>4. QuestionAt(a, Before(rx'[a], rx[a], i))
  BY <1>2, <1>3 DEF QuestionAt, QueueKept
<1>5. i \in 1 .. Len(rx'[a])
  BY <1>1, LenProperties
<1>6. rxText'[a][i] = rxText[a][Before(rx'[a], rx[a], i)]
  BY <1>5 DEF QueueKept, Suffix, Before, NetTypes
<1>. QED  BY <1>2, <1>4, <1>6

\* The questions that are left were there before, shift[a] entries further back.
LEMMA QuestionsMove ==
    ASSUME SysInv, UNCHANGED <<copen, port, cpc, casked, cinbox>>, up' \subseteq up,
           copen => AnswersDown' \subseteq AnswersDown, NEW shift \in [Address -> Int],
           \A a \in Address : \A i : QuestionAt(a, i)' =>
             /\ i \in Int /\ QuestionAt(a, i + shift[a])
             /\ rxText'[a][i] = rxText[a][i + shift[a]]
    PROVE  QuestionIsAsked' /\ QuestionOnce'
<1>. SUFFICES ASSUME copen PROVE QuestionIsAsked' /\ QuestionOnce'
  BY DEF QuestionIsAsked, QuestionOnce
<1>1. QuestionsUp' \subseteq QuestionsUp
  BY DEF QuestionsUp
<1>2. (\A i : AnswerAt(i)' <=> AnswerAt(i)) /\ (AnswerHere' <=> AnswerHere)
  BY DEF AnswerAt, AnswerHere
<1>3. QuestionHeld' => QuestionHeld
  BY DEF QuestionHeld, QuestionAt
<1>4. QuestionIsAsked'
  <2>1. \A d \in QuestionsUp' : cpc' = "answer" /\ d.text = casked'
    BY <1>1 DEF SysInv, NetInv, QuestionIsAsked
  <2>2. \A d \in AnswersDown' : cpc' = "answer" /\ d.text = casked'
    BY DEF SysInv, NetInv, QuestionIsAsked
  <2>3. \A a \in Address : \A i \in DOMAIN rx'[a] :
           QuestionAt(a, i)' => cpc' = "answer" /\ rxText'[a][i] = casked'
    BY DEF SysInv, NetInv, QuestionIsAsked, QuestionAt
  <2>4. \A i \in DOMAIN cinbox' : AnswerAt(i)' => cpc' = "answer" /\ cinbox'[i].text = casked'
    BY <1>2 DEF SysInv, NetInv, QuestionIsAsked
  <2>. QED  BY <2>1, <2>2, <2>3, <2>4 DEF QuestionIsAsked
<1>5. QuestionOnce'
  <2>1. /\ QuestionsUp' # {} => ~QuestionHeld' /\ AnswersDown' = {} /\ ~AnswerHere'
        /\ QuestionHeld' => AnswersDown' = {} /\ ~AnswerHere'
        /\ AnswersDown' # {} => ~AnswerHere'
    BY <1>1, <1>2, <1>3 DEF SysInv, NetInv, QuestionOnce
  <2>2. ASSUME NEW a \in Address, NEW b \in Address, NEW i, NEW j,
               QuestionAt(a, i)', QuestionAt(b, j)'
        PROVE  a = b /\ i = j
    <3>1. a = b /\ i + shift[a] = j + shift[b]
      BY <2>2 DEF SysInv, NetInv, QuestionOnce, QuestionAt
    <3>2. i \in Int /\ j \in Int
      BY <2>2
    <3>. QED  BY <3>1, <3>2
  <2>3. \A i, j \in DOMAIN cinbox' : AnswerAt(i)' /\ AnswerAt(j)' => i = j
    BY <1>2 DEF SysInv, NetInv, QuestionOnce
  <2>. QED  BY <2>1, <2>2, <2>3 DEF QuestionOnce
<1>. QED  BY <1>4, <1>5

LEMMA QuestionsShrink ==
    ASSUME SysInv, IInv', UNCHANGED <<copen, port, cpc, casked, cinbox>>, up' \subseteq up,
           copen => AnswersDown' \subseteq AnswersDown,
           \A a \in Address : QueueKept(a)
    PROVE  QuestionIsAsked' /\ QuestionOnce'
<1>. DEFINE shift == [a \in Address |-> Len(rx[a]) - Len(rx'[a])]
<1>1. shift \in [Address -> Int]
  <2>1. \A a \in Address : Len(rx[a]) \in Nat /\ Len(rx'[a]) \in Nat
    BY LenProperties DEF SysInv, NetInv, IInv, TypeOK
  <2>. QED  BY <2>1
<1>2. \A a \in Address : \A i : QuestionAt(a, i)' =>
        /\ i \in Int /\ QuestionAt(a, i + shift[a])
        /\ rxText'[a][i] = rxText[a][i + shift[a]]
  BY QuestionWasThere DEF SysInv, NetInv, Before
<1>. HIDE DEF shift
<1>. QED  BY <1>1, <1>2, QuestionsMove

\* Nothing is asked again, and no request reaches a session.
LEMMA RequestsStay ==
    ASSUME RequestOnce, up' \subseteq up, UNCHANGED <<backlog, peer>>,
           \A a \in Address : \A i \in DOMAIN rx'[a] :
             rx'[a][i].input \in (ClientHeader \cup {"error"}) \ {"req_connstart"}
    PROVE  RequestOnce'
<1>1. \A p : RequestUp(p)' => RequestUp(p)
  BY DEF RequestUp
<1>2. \A p : (RequestQueued(p)' <=> RequestQueued(p)) /\ (HasSession(p)' <=> HasSession(p))
  BY DEF RequestQueued, RequestAt, HasSession
<1>3. \A i, p : RequestAt(i, p)' <=> RequestAt(i, p)
  BY DEF RequestAt
<1>. QED  BY <1>1, <1>2, <1>3 DEF RequestOnce

LEMMA RequestsShrink ==
    ASSUME SysInv, IInv', up' \subseteq up, Suffix(backlog'["udp"], backlog["udp"]),
           \A a \in Address : SessionKept(a)
    PROVE  RequestOnce'
<1>0. RequestOnce
  BY DEF SysInv, NetInv
<1>1. backlog["udp"] \in Seq(Request) /\ backlog'["udp"] \in Seq(Request)
  BY DEF SysInv, NetInv, IInv, TypeOK, Listener
<1>. DEFINE was(i) == Before(backlog'["udp"], backlog["udp"], i)
<1>2. \A i \in DOMAIN backlog'["udp"] :
        /\ was(i) \in DOMAIN backlog["udp"] /\ backlog'["udp"][i] = backlog["udp"][was(i)]
        /\ i \in Int /\ Len(backlog["udp"]) - Len(backlog'["udp"]) \in Int
  BY <1>1, SuffixAt
<1>3. \A p : RequestUp(p)' => RequestUp(p)
  BY DEF RequestUp
<1>4. \A p : RequestQueued(p)' => RequestQueued(p)
  BY <1>2 DEF RequestQueued, RequestAt
<1>5. \A p \in Peer : HasSession(p)' => HasSession(p)
  BY PeerAssumption DEF HasSession, SessionKept
<1>6. ASSUME NEW p \in Peer, NEW i \in DOMAIN backlog'["udp"], NEW j \in DOMAIN backlog'["udp"],
             RequestAt(i, p)', RequestAt(j, p)'
      PROVE  i = j
  <2>1. was(i) = was(j)
    BY <1>0, <1>2, <1>6 DEF RequestOnce, RequestAt
  <2>2. i \in Int /\ j \in Int /\ Len(backlog["udp"]) - Len(backlog'["udp"]) \in Int
    BY <1>2
  <2>. QED  BY <2>1, <2>2, BeforeInjective
<1>7. \A p \in Peer : \A a, b \in Address : peer'[a] = p /\ peer'[b] = p => a = b
  BY <1>0, PeerAssumption DEF RequestOnce, SessionKept
<1>8. ASSUME NEW a \in Address, NEW i \in DOMAIN rx'[a]
      PROVE  rx'[a][i].input \in (ClientHeader \cup {"error"}) \ {"req_connstart"}
  <2>1. rx[a] \in Seq(Request) /\ rx'[a] \in Seq(Request)
    BY DEF SysInv, NetInv, IInv, TypeOK
  <2>2. /\ Before(rx'[a], rx[a], i) \in DOMAIN rx[a]
        /\ rx'[a][i] = rx[a][Before(rx'[a], rx[a], i)]
    BY <2>1, SuffixAt DEF SessionKept
  <2>. QED  BY <1>0, <2>2 DEF RequestOnce
<1>. QED
  BY <1>0, <1>3, <1>4, <1>5, <1>6, <1>7, <1>8 DEF RequestOnce

\* The request that leads to a session leaves the queue.
LEMMA RequestAccepted ==
    ASSUME SysInv, IInv', up' = up, NEW a \in Address, Accepts(a)
    PROVE  RequestOnce'
<1>0. RequestOnce
  BY DEF SysInv, NetInv
<1>. DEFINE q == backlog["udp"]
            p1 == Head(q).from
<1>1. q \in Seq(Request) /\ q # <<>> /\ backlog'["udp"] = Tail(q)
  BY DEF SysInv, NetInv, IInv, TypeOK, Listener, Accepts
<1>2. /\ DOMAIN Tail(q) = 1 .. Len(q) - 1 /\ DOMAIN q = 1 .. Len(q)
      /\ \A i \in DOMAIN Tail(q) : i + 1 \in DOMAIN q /\ Tail(q)[i] = q[i + 1]
      /\ 1 \in DOMAIN q /\ Head(q) = q[1]
  BY <1>1, TailAt
<1>3. RequestAt(1, p1) /\ p1 \in Peer
  <2>1. Head(q) \in Request  BY <1>1, HeadTailProperties
  <2>. QED  BY <1>2, <2>1 DEF RequestAt, Accepts, Request
<1>4. RequestQueued(p1) /\ ~RequestUp(p1) /\ ~HasSession(p1)
  BY <1>0, <1>2, <1>3 DEF RequestOnce, RequestQueued
<1>5. peer' = [peer EXCEPT ![a] = p1] /\ peer \in [Address -> Peer \cup {NoPeer}]
  BY DEF Accepts, SysInv, NetInv, IInv, TypeOK
<1>6. \A p : \A i \in DOMAIN Tail(q) : RequestAt(i, p)' <=> RequestAt(i + 1, p)
  BY <1>1, <1>2 DEF RequestAt
<1>7. \A p : RequestQueued(p)' => RequestQueued(p) /\ p # p1
  <2>. SUFFICES ASSUME NEW p, NEW i \in DOMAIN Tail(q), RequestAt(i, p)'
                PROVE  RequestQueued(p) /\ p # p1
    BY <1>1 DEF RequestQueued
  <2>1. i + 1 \in DOMAIN q /\ RequestAt(i + 1, p)
    BY <1>2, <1>6
  <2>2. p = p1 => i + 1 = 1
    BY <1>0, <1>2, <1>3, <2>1 DEF RequestOnce
  <2>3. i + 1 # 1
    BY <1>2
  <2>. QED  BY <2>1, <2>2, <2>3 DEF RequestQueued
<1>8. \A p \in Peer : HasSession(p)' => p = p1 \/ HasSession(p)
  BY <1>5 DEF HasSession
<1>9. \A p : RequestUp(p)' => RequestUp(p)
  BY DEF RequestUp
<1>10. \A p \in Peer :
        /\ ~(RequestUp(p)' /\ RequestQueued(p)')
        /\ ~(RequestUp(p)' /\ HasSession(p)')
        /\ ~(RequestQueued(p)' /\ HasSession(p)')
  BY <1>0, <1>4, <1>7, <1>8, <1>9 DEF RequestOnce
<1>11. ASSUME NEW p \in Peer, NEW i \in DOMAIN Tail(q), NEW j \in DOMAIN Tail(q),
             RequestAt(i, p)', RequestAt(j, p)'
      PROVE  i = j
  <2>1. i + 1 = j + 1
    BY <1>0, <1>2, <1>6, <1>11 DEF RequestOnce
  <2>. QED  BY <1>2, <2>1
<1>12. \A p \in Peer : \A b, c \in Address : peer'[b] = p /\ peer'[c] = p => b = c
  <2>1. \A b \in Address : peer[b] # p1
    BY <1>4 DEF HasSession
  <2>. QED  BY <1>0, <1>5, <2>1 DEF RequestOnce
<1>13. \A b \in Address : \A i \in DOMAIN rx'[b] :
         rx'[b][i].input \in (ClientHeader \cup {"error"}) \ {"req_connstart"}
  BY <1>0 DEF RequestOnce, Accepts
<1>. QED
  BY <1>1, <1>10, <1>11, <1>12, <1>13 DEF RequestOnce

-----------------------------------------------------------------------------
(* Steps of the server, time and loss *)

LEMMA QueuesStay ==
    ASSUME SysInv, UNCHANGED <<rx, rxText, peer>>, NEW a \in Address
    PROVE  QueueKept(a) /\ SessionKept(a)
<1>1. rx[a] \in Seq(Request) /\ rxText[a] \in Seq(Text) /\ Len(rxText[a]) = Len(rx[a])
  BY DEF SysInv, NetInv, IInv, TypeOK, NetTypes
<1>. QED  BY <1>1, SuffixIs DEF QueueKept, SessionKept

\* Nothing is added anywhere.
LEMMA FewerDatagrams ==
    ASSUME SysInv, IInv', UNCHANGED <<clientVars, portVars, backlog, rx, rxText, peer>>,
           up' \subseteq up, down' \subseteq down
    PROVE  SysInv'
<1>. USE DEF clientVars, portVars
<1>1. C!SessionFitsState' /\ UdpOnly'
  BY DEF SysInv, NetInv, C!SessionFitsState, UdpOnly
<1>2. NetTypes'
  BY DEF SysInv, NetInv, NetTypes
<1>3. KnownPorts'
  BY DEF SysInv, NetInv, KnownPorts
<1>4. \A a \in Address : QueueKept(a) /\ SessionKept(a)
  BY QueuesStay
<1>5. RequestOnce'
  BY <1>4, QueueStays, RequestsShrink DEF SysInv, NetInv
<1>6. AnswersDown' \subseteq AnswersDown
  BY DEF AnswersDown
<1>7. QuestionIsAsked' /\ QuestionOnce'
  BY <1>4, <1>6, QuestionsShrink
<1>. QED  BY <1>1, <1>2, <1>3, <1>5, <1>7 DEF SysInv, NetInv

LEMMA LoseStep ==
    ASSUME SysInv, Lose
    PROVE  SysInv'
<1>1. IInv'
  BY ServerRestsStep DEF SysInv, NetInv, Lose
<1>2. /\ UNCHANGED <<clientVars, portVars, backlog, rx, rxText, peer>>
      /\ up' \subseteq up /\ down' \subseteq down
  BY DEF Lose, ServerRests, ClientRests, serverVars, masterVars, sessionVars
<1>. QED  BY <1>1, <1>2, FewerDatagrams

LEMMA TimeStep ==
    ASSUME SysInv, Interrupt \/ \E a \in Address : TimeGoesBy(a)
    PROVE  SysInv'
<1>1. IInv'
  BY EnvStep DEF SysInv, NetInv, Interrupt, TimeGoesBy, EnvNext
<1>2. /\ UNCHANGED <<clientVars, portVars, backlog, rx, rxText, peer>>
      /\ up' \subseteq up /\ down' \subseteq down
  BY DEF Interrupt, TimeGoesBy, RaiseStop, TimerExpires, ClientRests, masterVars, sessionVars
<1>. QED  BY <1>1, <1>2, FewerDatagrams

\* A server that is started again has forgotten its sessions; what is under way
\* is still known.
LEMMA RestartNetStep ==
    ASSUME SysInv, Restart
    PROVE  SysInv'
<1>1. IInv'
  BY RestartStep
<1>2. /\ UNCHANGED <<clientVars, portVars, up, down>>
      /\ backlog' = [m \in Listener |-> <<>>] /\ peer' = [a \in Address |-> NoPeer]
      /\ rx' = [a \in Address |-> <<>>] /\ rxText' = [a \in Address |-> <<>>]
  BY DEF Restart, ClientRests
<1>3. backlog'["udp"] = <<>> /\ backlog'["tcp"] = <<>>
  BY <1>2 DEF Listener
<1>. USE DEF clientVars, portVars
<1>4. C!SessionFitsState' /\ UdpOnly'
  BY <1>2, <1>3 DEF SysInv, NetInv, C!SessionFitsState, UdpOnly
<1>5. NetTypes'
  BY <1>2 DEF SysInv, NetInv, NetTypes
<1>6. KnownPorts'
  BY <1>2, <1>3 DEF SysInv, NetInv, KnownPorts
<1>7. ASSUME NEW a \in Address PROVE QueueKept(a) /\ SessionKept(a)
  <2>1. rx[a] \in Seq(Request) /\ rxText[a] \in Seq(Text)
    BY DEF SysInv, NetInv, IInv, TypeOK, NetTypes
  <2>2. rx'[a] = <<>> /\ rxText'[a] = <<>> /\ peer'[a] = NoPeer
    BY <1>2
  <2>. QED  BY <2>1, <2>2, SuffixIs DEF QueueKept, SessionKept
<1>8. Suffix(backlog'["udp"], backlog["udp"])
  <2>1. backlog["udp"] \in Seq(Request)  BY DEF SysInv, NetInv, IInv, TypeOK, Listener
  <2>. QED  BY <1>3, <2>1, SuffixIs
<1>9. RequestOnce'
  BY <1>1, <1>2, <1>7, <1>8, RequestsShrink
<1>10. AnswersDown' \subseteq AnswersDown
  BY <1>2 DEF AnswersDown
<1>11. QuestionIsAsked' /\ QuestionOnce'
  BY <1>1, <1>2, <1>7, <1>10, QuestionsShrink
<1>. QED  BY <1>1, <1>4, <1>5, <1>6, <1>9, <1>11 DEF SysInv, NetInv

\* The last m entries of a queue.
LEMMA LastEntries ==
    ASSUME NEW S, NEW s \in Seq(S), NEW m \in Nat, m <= Len(s),
           NEW t, t = SubSeq(s, 1 + Len(s) - m, Len(s))
    PROVE  t \in Seq(S) /\ Len(t) = m /\ Suffix(t, s)
<1>. SUFFICES ASSUME NEW n \in Nat, n = Len(s), NEW l \in Int, l = 1 + n - m
              PROVE  t \in Seq(S) /\ Len(t) = m /\ Suffix(t, s)
  BY LenProperties
<1>0. t = SubSeq(s, l, n)
  OBVIOUS
<1>1. \A i \in l .. n : s[i] \in S
  <2>. TAKE i \in l .. n
  <2>1. i \in 1 .. Len(s)  OBVIOUS
  <2>. QED  BY <2>1, ElementOfSeq
<1>2. /\ SubSeq(s, l, n) \in Seq(S)
      /\ Len(SubSeq(s, l, n)) = IF l <= n THEN n - l + 1 ELSE 0
      /\ \A i \in 1 .. n - l + 1 : SubSeq(s, l, n)[i] = s[l + i - 1]
  BY <1>1, SubSeqProperties
<1>3. Len(SubSeq(s, l, n)) = m /\ n - l + 1 = m
  BY <1>2
<1>4. \A i \in 1 .. m : SubSeq(s, l, n)[i] = s[i + (n - m)]
  <2>. TAKE i \in 1 .. m
  <2>1. l + i - 1 = i + (n - m)  OBVIOUS
  <2>. QED  BY <1>2, <1>3, <2>1
<1>. QED  BY <1>0, <1>2, <1>3, <1>4 DEF Suffix

\* The texts stay beside what they belong to.
LEMMA TextsFollow ==
    ASSUME SysInv, IInv', NEW a \in Address, Suffix(rx'[a], rx[a]),
           rxText'[a] = SubSeq(rxText[a], 1 + Len(rx[a]) - Len(rx'[a]), Len(rx[a]))
    PROVE  /\ rxText'[a] \in Seq(Text)
           /\ Len(rxText'[a]) = Len(rx'[a])
           /\ Suffix(rxText'[a], rxText[a])
<1>1. /\ rx'[a] \in Seq(Request) /\ rxText[a] \in Seq(Text) /\ Len(rxText[a]) = Len(rx[a])
  BY DEF SysInv, NetInv, IInv, TypeOK, NetTypes
<1>2. Len(rx'[a]) \in Nat /\ Len(rx'[a]) <= Len(rxText[a])
  BY <1>1, LenProperties DEF Suffix
<1>3. rxText'[a] = SubSeq(rxText[a], 1 + Len(rxText[a]) - Len(rx'[a]), Len(rxText[a]))
  BY <1>1
<1>4. \A t, m : /\ m \in Nat /\ m <= Len(rxText[a])
                /\ t = SubSeq(rxText[a], 1 + Len(rxText[a]) - m, Len(rxText[a]))
                => t \in Seq(Text) /\ Len(t) = m /\ Suffix(t, rxText[a])
  BY <1>1, LastEntries
<1>. QED  BY <1>2, <1>3, <1>4

\* The datagram a message of the server becomes.
Datagram(m) ==
    [to |-> m.to, header |-> m.header,
     text |-> IF m.header = "server_msg" THEN Head(rxText[m.via]) ELSE "none"]

\* What a step of the server does to the whole.
LEMMA ServerFrame ==
    ASSUME SysInv, ServerStep
    PROVE  /\ IInv' /\ HandlerEffect
           /\ UNCHANGED <<clientVars, portVars, up>>
           /\ \A d \in down' : d \in down \/ \E m \in out' : d = Datagram(m)
           /\ \A m \in out' : Addressed(m) /\ Justified(m)
           /\ \A a \in Address : QueueKept(a) /\ rxText'[a] \in Seq(Text)
           /\ rxText' \in [Address -> Seq(Text)]
<1>1. IInv /\ backlog["tcp"] = <<>> /\ Unreset /\ ServerNext
  BY DEF SysInv, NetInv, UdpOnly, RequestOnce, ClientHeader, Unreset, ServerStep
<1>2. IInv' /\ HandlerEffect /\ \A m \in out' : Addressed(m) /\ Justified(m)
  BY <1>1, ServerNextStep, HandlerStep, HandlerSends
<1>3. \A d \in down' : d \in down \/ \E m \in out' : d = Datagram(m)
  BY CarryIn DEF ServerStep, Datagram
<1>4. ASSUME NEW a \in Address
      PROVE  Suffix(rx'[a], rx[a]) /\ (rx'[a] # <<>> => peer'[a] = peer[a])
  <2>1. CASE \A b \in Address : SessionKept(b)
    BY <2>1 DEF SessionKept
  <2>2. ASSUME NEW b \in Address, Accepts(b)
        PROVE  Suffix(rx'[a], rx[a]) /\ (rx'[a] # <<>> => peer'[a] = peer[a])
    <3>1. rx[a] \in Seq(Request)  BY <1>1 DEF IInv, TypeOK
    <3>2. rx' = rx /\ rx[b] = <<>> /\ (a # b => peer'[a] = peer[a])
      BY <1>1, <2>2 DEF Accepts, IInv, TypeOK
    <3>. QED  BY <3>1, <3>2, SuffixIs
  <2>. QED  BY <1>2, <2>1, <2>2 DEF HandlerEffect
<1>5. ASSUME NEW a \in Address
      PROVE  QueueKept(a) /\ rxText'[a] \in Seq(Text)
  <2>1. rxText'[a] = SubSeq(rxText[a], 1 + Len(rx[a]) - Len(rx'[a]), Len(rx[a]))
    BY DEF ServerStep
  <2>. QED  BY <1>2, <1>4, <2>1, TextsFollow DEF QueueKept
<1>6. rxText' \in [Address -> Seq(Text)]
  BY <1>5 DEF ServerStep
<1>. QED  BY <1>2, <1>3, <1>5, <1>6 DEF ServerStep, ClientRests

\* An answer takes its text from the question at the front of the queue.
LEMMA AnswerFrom ==
    ASSUME SysInv, NEW a \in Address, Answer(a), NEW m \in Send(a, "server_msg")
    PROVE  /\ m.to = peer[a] /\ Datagram(m).text = rxText[a][1]
           /\ 1 \in DOMAIN rx[a] /\ rx[a][1].input = "client_msg" /\ rxText[a][1] \in Text
           /\ rx' = [rx EXCEPT ![a] = Tail(@)] /\ rx[a] # <<>>
<1>1. /\ rx[a] \in Seq(Request) /\ rxText[a] \in Seq(Text) /\ Len(rxText[a]) = Len(rx[a])
  BY DEF SysInv, NetInv, IInv, TypeOK, NetTypes
<1>2. /\ rx[a] # <<>> /\ Head(rx[a]).input = "client_msg"
      /\ rx' = [rx EXCEPT ![a] = Tail(@)]
  BY DEF Answer, Receive
<1>3. rxText[a] # <<>>
  BY <1>1, <1>2, EmptySeq
<1>4. 1 \in DOMAIN rx[a] /\ Head(rx[a]) = rx[a][1] /\ Head(rxText[a]) = rxText[a][1]
  BY <1>1, <1>2, <1>3, TailAt
<1>5. Head(rxText[a]) \in Text
  BY <1>1, <1>3, HeadTailProperties
<1>6. m.to = peer[a] /\ m.via = a /\ m.header = "server_msg"
  BY DEF Send
<1>7. Datagram(m).text = Head(rxText[a])
  BY <1>6 DEF Datagram
<1>. QED  BY <1>2, <1>4, <1>5, <1>6, <1>7

LEMMA ServerNetTypes ==
    ASSUME SysInv, ServerStep
    PROVE  NetTypes' /\ KnownPorts' /\ UdpOnly' /\ C!SessionFitsState'
<1>. USE ServerFrame DEF clientVars, portVars
<1>1. ASSUME NEW m \in out' PROVE m.to \in used
  <2>1. CASE \E a \in Address : peer[a] = m.to
    <3>1. m.to # NoPeer  BY PeerAssumption DEF Addressed
    <3>. QED  BY <2>1, <3>1 DEF SysInv, NetInv, KnownPorts
  <2>2. CASE \E i \in DOMAIN backlog["udp"] : backlog["udp"][i].from = m.to
    BY <2>2 DEF SysInv, NetInv, KnownPorts
  <2>. QED  BY <2>1, <2>2 DEF Addressed
<1>2. ASSUME NEW m \in out'
      PROVE  Datagram(m) \in [to : Peer, header : ServerHeader, text : Text]
  <2>1. Datagram(m).text \in Text
    <3>1. CASE m.header = "server_msg"
      <4>1. PICK a \in Address : Answer(a) /\ out' = Send(a, "server_msg")
        BY <3>1 DEF Justified
      <4>. QED  BY <4>1, AnswerFrom
    <3>2. CASE m.header # "server_msg"
      BY <3>2 DEF Datagram, Text
    <3>. QED  BY <3>1, <3>2
  <2>. QED  BY <2>1 DEF Addressed, Datagram
<1>3. ASSUME NEW d \in down'
      PROVE  d \in [to : Peer, header : ServerHeader, text : Text] /\ d.to \in used
  <2>1. CASE d \in down
    BY <2>1 DEF SysInv, NetInv, NetTypes, KnownPorts
  <2>2. ASSUME NEW m \in out', d = Datagram(m) PROVE d.to \in used
    BY <1>1, <2>2 DEF Datagram
  <2>. QED  BY <1>2, <2>1, <2>2
<1>4. NetTypes'
  <2>1. \A a \in Address : Len(rxText'[a]) = Len(rx'[a])
    BY DEF QueueKept
  <2>. QED  BY <1>3, <2>1 DEF SysInv, NetInv, NetTypes
<1>5. backlog["udp"] \in Seq(Request) /\ backlog'["udp"] \in Seq(Request)
  BY DEF SysInv, NetInv, IInv, TypeOK, Listener
<1>6. \A i \in DOMAIN backlog'["udp"] : backlog'["udp"][i].from \in used
  <2>1. CASE Suffix(backlog'["udp"], backlog["udp"])
    BY <1>5, <2>1, SuffixAt DEF SysInv, NetInv, KnownPorts
  <2>2. CASE \E a \in Address : Accepts(a)
    BY <1>5, <2>2, TailAt DEF SysInv, NetInv, KnownPorts, Accepts
  <2>. QED  BY <2>1, <2>2 DEF HandlerEffect
<1>7. \A a \in Address : peer'[a] # NoPeer => peer'[a] \in used
  <2>1. CASE \A a \in Address : SessionKept(a)
    BY <2>1 DEF SysInv, NetInv, KnownPorts, SessionKept
  <2>2. ASSUME NEW a \in Address, Accepts(a), NEW b \in Address, peer'[b] # NoPeer
        PROVE  peer'[b] \in used
    <3>1. peer'[b] = peer[b] \/ peer'[b] = Head(backlog["udp"]).from
      BY <2>2 DEF Accepts, SysInv, NetInv, IInv, TypeOK
    <3>2. Head(backlog["udp"]).from \in used
      BY <1>5, <2>2, TailAt DEF SysInv, NetInv, KnownPorts, Accepts
    <3>. QED  BY <2>2, <3>1, <3>2 DEF SysInv, NetInv, KnownPorts
  <2>. QED  BY <2>1, <2>2 DEF HandlerEffect
<1>8. KnownPorts'
  BY <1>3, <1>6, <1>7 DEF SysInv, NetInv, KnownPorts
<1>9. UdpOnly' /\ C!SessionFitsState'
  BY DEF SysInv, NetInv, UdpOnly, HandlerEffect, C!SessionFitsState
<1>. QED  BY <1>4, <1>8, <1>9

LEMMA ServerRequestOnce ==
    ASSUME SysInv, ServerStep
    PROVE  RequestOnce'
<1>1. IInv' /\ HandlerEffect /\ up' = up
  BY ServerFrame
<1>. QED  BY <1>1, RequestsShrink, RequestAccepted DEF HandlerEffect

\* The answer takes the place of the question.
LEMMA AnswerStep ==
    ASSUME SysInv, ServerStep, copen, NEW a \in Address, Answer(a),
           out' = Send(a, "server_msg"), peer[a] = port
    PROVE  QuestionIsAsked' /\ QuestionOnce'
<1>. DEFINE m == [via |-> a, to |-> peer[a], header |-> "server_msg"]
<1>0. UNCHANGED <<clientVars, portVars, up>> /\ IInv'
  BY ServerFrame
<1>1. copen' = copen /\ port' = port /\ cpc' = cpc /\ casked' = casked /\ cinbox' = cinbox
  BY <1>0 DEF clientVars, portVars
<1>2. out' = {m}
  BY DEF Send
<1>3. /\ Datagram(m).text = rxText[a][1] /\ rx[a] # <<>>
      /\ 1 \in DOMAIN rx[a] /\ rx[a][1].input = "client_msg"
      /\ rx' = [rx EXCEPT ![a] = Tail(@)]
  BY <1>2, AnswerFrom
<1>4. QuestionAt(a, 1)
  BY <1>3 DEF QuestionAt
<1>5. /\ cpc = "answer" /\ rxText[a][1] = casked
      /\ QuestionsUp = {} /\ AnswersDown = {} /\ ~AnswerHere
      /\ \A b \in Address : \A i : QuestionAt(b, i) => a = b /\ i = 1
  BY <1>3, <1>4 DEF SysInv, NetInv, QuestionIsAsked, QuestionOnce, QuestionHeld, QuestionAt
<1>6. QuestionsUp' = {}
  BY <1>0, <1>1, <1>5 DEF QuestionsUp
<1>7. /\ \A i : AnswerAt(i)' <=> AnswerAt(i)
      /\ AnswerHere' <=> AnswerHere
  BY <1>1 DEF AnswerAt, AnswerHere
<1>8. \A i : ~AnswerAt(i)'
  BY <1>5, <1>7 DEF AnswerHere, AnswerAt
<1>9. \A d \in AnswersDown' : d.text = casked
  <2>. SUFFICES ASSUME NEW d \in down', d.to = port', d.header = "server_msg"
                PROVE  d.text = casked
    BY DEF AnswersDown
  <2>1. d \notin down
    BY <1>1, <1>5 DEF AnswersDown
  <2>2. d = Datagram(m)
    BY <1>2, <2>1, ServerFrame
  <2>. QED  BY <1>3, <1>5, <2>2
<1>10. ASSUME NEW b \in Address, NEW i, QuestionAt(b, i)' PROVE FALSE
  <2>1. rx[b] \in Seq(Request) /\ peer' = peer
    BY DEF SysInv, NetInv, IInv, TypeOK, Answer
  <2>2. CASE b # a
    <3>1. rx'[b] = rx[b]
      BY <1>3, <2>2 DEF SysInv, NetInv, IInv, TypeOK
    <3>2. QuestionAt(b, i)
      BY <1>1, <1>10, <2>1, <3>1 DEF QuestionAt
    <3>. QED  BY <1>5, <2>2, <3>2
  <2>3. CASE b = a
    <3>1. rx'[a] = Tail(rx[a])
      BY <1>3 DEF SysInv, NetInv, IInv, TypeOK
    <3>2. i \in 1 .. Len(rx[a]) - 1 /\ i + 1 \in DOMAIN rx[a] /\ rx'[a][i] = rx[a][i + 1]
      BY <1>3, <1>10, <2>1, <2>3, <3>1, TailAt DEF QuestionAt
    <3>3. QuestionAt(a, i + 1)
      BY <1>1, <1>10, <2>1, <2>3, <3>2 DEF QuestionAt
    <3>4. i + 1 = 1
      BY <1>5, <3>3
    <3>. QED  BY <3>2, <3>4, LenProperties, <2>1, <2>3
  <2>. QED  BY <2>2, <2>3
<1>11. ~QuestionHeld'
  BY <1>10 DEF QuestionHeld
<1>12. QuestionIsAsked'
  BY <1>1, <1>5, <1>6, <1>8, <1>9, <1>10 DEF QuestionIsAsked
<1>13. QuestionOnce'
  BY <1>5, <1>6, <1>7, <1>8, <1>10, <1>11 DEF QuestionOnce
<1>. QED  BY <1>12, <1>13

LEMMA ServerQuestions ==
    ASSUME SysInv, ServerStep
    PROVE  QuestionIsAsked' /\ QuestionOnce'
<1>0. UNCHANGED <<clientVars, portVars, up>> /\ IInv' /\ \A a \in Address : QueueKept(a)
  BY ServerFrame
<1>1. UNCHANGED <<copen, port, cpc, casked, cinbox>>
  BY <1>0 DEF clientVars, portVars
<1>2. CASE \E m \in out' : copen /\ m.header = "server_msg" /\ m.to = port
  <2>1. PICK m \in out' : copen /\ m.header = "server_msg" /\ m.to = port
    BY <1>2
  <2>2. PICK a \in Address : Answer(a) /\ out' = Send(a, "server_msg")
    BY <2>1, ServerFrame DEF Justified
  <2>3. peer[a] = port
    BY <2>1, <2>2 DEF Send
  <2>. QED  BY <2>1, <2>2, <2>3, AnswerStep
<1>3. CASE ~\E m \in out' : copen /\ m.header = "server_msg" /\ m.to = port
  <2>1. ASSUME copen PROVE AnswersDown' \subseteq AnswersDown
    <3>. SUFFICES ASSUME NEW d \in down', d.to = port', d.header = "server_msg"
                  PROVE  d \in down
      BY <1>1 DEF AnswersDown
    <3>1. ASSUME NEW m \in out', d = Datagram(m) PROVE FALSE
      BY <1>1, <1>3, <2>1, <3>1 DEF Datagram
    <3>. QED  BY <3>1, ServerFrame
  <2>. QED  BY <1>0, <1>1, <2>1, QuestionsShrink
<1>. QED  BY <1>2, <1>3

LEMMA ServerNetStep == ASSUME SysInv, ServerStep PROVE SysInv'
<1>1. IInv'
  BY ServerFrame
<1>. QED  BY <1>1, ServerNetTypes, ServerRequestOnce, ServerQuestions DEF SysInv, NetInv

-----------------------------------------------------------------------------
(* Arrivals at the client *)

LEMMA DeliverFrame ==
    ASSUME SysInv, ServerRests, UNCHANGED portVars, up' \subseteq up, down' \subseteq down,
           NEW m \in [header : C!Received, text : Text], C!Deliver(m)
    PROVE  /\ IInv' /\ C!SessionFitsState' /\ NetTypes' /\ KnownPorts' /\ UdpOnly' /\ RequestOnce'
           /\ copen /\ UNCHANGED <<copen, port, cpc, casked, peer, rx, rxText>>
           /\ cinbox \in Seq([header : C!Received, text : Text])
           /\ \/ cinbox' = Append(cinbox, m)
              \/ m.header = "error" /\ cinbox' = <<m>> \o cinbox
<1>. DEFINE S == [header : C!Received, text : Text]
<1>1. /\ copen /\ UNCHANGED <<cpc, cstate, csession, copen, cwatched, casked>>
      /\ \/ cinbox' = Append(cinbox, m)
         \/ m.header = "error" /\ cinbox' = <<m>> \o cinbox
  BY DEF C!Deliver, C!sessionVars, C!userVars
<1>2. UNCHANGED <<port, used, backlog, peer, rx, rxText>>
  BY DEF ServerRests, portVars, serverVars, masterVars, sessionVars
<1>3. IInv'
  BY ServerRestsStep DEF SysInv, NetInv
<1>4. cinbox \in Seq(S)
  BY DEF SysInv, NetInv, NetTypes
<1>5. Append(cinbox, m) \in Seq(S) /\ <<m>> \o cinbox \in Seq(S)
  <2>. HIDE DEF S
  <2>. QED  BY <1>4, AppendProperties, ConsAt DEF S
<1>6. C!SessionFitsState' /\ UdpOnly'
  BY <1>1, <1>2 DEF SysInv, NetInv, C!SessionFitsState, UdpOnly
<1>7. NetTypes'
  BY <1>1, <1>2, <1>5 DEF SysInv, NetInv, NetTypes
<1>8. KnownPorts'
  BY <1>1, <1>2 DEF SysInv, NetInv, KnownPorts
<1>9. RequestOnce'
  BY <1>2, <1>3, QueuesStay, QueueStays, RequestsShrink DEF SysInv, NetInv
<1>. QED  BY <1>1, <1>2, <1>3, <1>4, <1>6, <1>7, <1>8, <1>9

\* Anything but an answer only moves the answers in the queue.
LEMMA OtherDelivered ==
    ASSUME SysInv, ServerRests, UNCHANGED portVars, up' \subseteq up, down' \subseteq down,
           NEW m \in [header : C!Received, text : Text], C!Deliver(m),
           m.header # "server_msg"
    PROVE  SysInv'
<1>. DEFINE S == [header : C!Received, text : Text]
<1>0. /\ IInv' /\ C!SessionFitsState' /\ NetTypes' /\ KnownPorts' /\ UdpOnly' /\ RequestOnce'
      /\ copen /\ UNCHANGED <<copen, port, cpc, casked, peer, rx, rxText>>
      /\ cinbox \in Seq(S)
      /\ \/ cinbox' = Append(cinbox, m)
         \/ m.header = "error" /\ cinbox' = <<m>> \o cinbox
  BY DeliverFrame
<1>1. \E k \in {0, 1} : \A i : AnswerAt(i)' =>
        i \in Int /\ AnswerAt(i - k) /\ cinbox'[i] = cinbox[i - k]
  <2>. HIDE DEF S
  <2>1. CASE cinbox' = Append(cinbox, m)
    <3>1. \A i : AnswerAt(i)' => i \in DOMAIN cinbox /\ cinbox'[i] = cinbox[i] /\ i \in Int
      BY <1>0, <2>1, AppendAt DEF AnswerAt, S
    <3>2. \A i : AnswerAt(i)' => i \in Int /\ AnswerAt(i - 0) /\ cinbox'[i] = cinbox[i - 0]
      BY <3>1 DEF AnswerAt
    <3>. QED  BY <3>2
  <2>2. CASE cinbox' = <<m>> \o cinbox
    <3>1. /\ DOMAIN cinbox' = 1 .. Len(cinbox) + 1 /\ cinbox'[1] = m
          /\ \A i \in 2 .. Len(cinbox) + 1 : cinbox'[i] = cinbox[i - 1]
          /\ DOMAIN cinbox = 1 .. Len(cinbox) /\ Len(cinbox) \in Nat
      BY <1>0, <2>2, ConsAt DEF S
    <3>2. \A i : AnswerAt(i)' => i \in 2 .. Len(cinbox) + 1
      BY <3>1 DEF AnswerAt
    <3>3. \A i : AnswerAt(i)' => i \in Int /\ AnswerAt(i - 1) /\ cinbox'[i] = cinbox[i - 1]
      BY <3>1, <3>2 DEF AnswerAt
    <3>. QED  BY <3>3
  <2>. QED  BY <1>0, <2>1, <2>2
<1>2. PICK k \in {0, 1} : \A i : AnswerAt(i)' =>
        i \in Int /\ AnswerAt(i - k) /\ cinbox'[i] = cinbox[i - k]
  BY <1>1
<1>3. QuestionsUp' \subseteq QuestionsUp /\ AnswersDown' \subseteq AnswersDown
  BY <1>0 DEF QuestionsUp, AnswersDown
<1>4. /\ \A a, i : QuestionAt(a, i)' <=> QuestionAt(a, i)
      /\ QuestionHeld' <=> QuestionHeld
      /\ AnswerHere' => AnswerHere
  BY <1>0, <1>2 DEF QuestionAt, QuestionHeld, AnswerHere, AnswerAt
<1>5. QuestionIsAsked'
  <2>1. \A i \in DOMAIN cinbox' : AnswerAt(i)' => cpc' = "answer" /\ cinbox'[i].text = casked'
    BY <1>0, <1>2 DEF SysInv, NetInv, QuestionIsAsked, AnswerAt
  <2>. QED  BY <1>0, <1>3, <1>4, <2>1 DEF SysInv, NetInv, QuestionIsAsked
<1>6. QuestionOnce'
  <2>1. ASSUME NEW i, NEW j, AnswerAt(i)', AnswerAt(j)' PROVE i = j
    <3>1. i - k = j - k
      BY <1>0, <1>2, <2>1 DEF SysInv, NetInv, QuestionOnce, AnswerAt
    <3>. QED  BY <1>2, <2>1, <3>1
  <2>. QED  BY <1>0, <1>3, <1>4, <2>1 DEF SysInv, NetInv, QuestionOnce
<1>. QED  BY <1>0, <1>5, <1>6 DEF SysInv, NetInv

\* The answer takes the place of the datagram.
LEMMA AnswerDelivered ==
    ASSUME SysInv, ServerRests, UNCHANGED portVars, up' = up, NEW d \in down,
           down' = down \ {d}, d.to = port, d.header = "server_msg",
           C!Deliver([header |-> d.header, text |-> d.text])
    PROVE  SysInv'
<1>. DEFINE S == [header : C!Received, text : Text]
            m == [header |-> d.header, text |-> d.text]
<1>1. d \in [to : Peer, header : ServerHeader, text : Text]
  BY DEF SysInv, NetInv, NetTypes
<1>2. m \in S
  BY <1>1 DEF C!Received, C!ServerHeader, ServerHeader
<1>3. /\ IInv' /\ C!SessionFitsState' /\ NetTypes' /\ KnownPorts' /\ UdpOnly' /\ RequestOnce'
      /\ copen /\ UNCHANGED <<copen, port, cpc, casked, peer, rx, rxText>>
      /\ cinbox \in Seq(S)
      /\ \/ cinbox' = Append(cinbox, m)
         \/ m.header = "error" /\ cinbox' = <<m>> \o cinbox
  <2>1. up' \subseteq up /\ down' \subseteq down /\ C!Deliver(m)
    OBVIOUS
  <2>. HIDE DEF S, m
  <2>. QED  BY <1>2, <2>1, DeliverFrame DEF S
<1>4. /\ cpc = "answer" /\ d.text = casked
      /\ QuestionsUp = {} /\ ~QuestionHeld /\ ~AnswerHere
  BY <1>3 DEF SysInv, NetInv, QuestionIsAsked, QuestionOnce, AnswersDown
<1>5. AnswersDown' = {}
  <2>. SUFFICES ASSUME NEW e \in down', e.to = port, e.header = "server_msg" PROVE FALSE
    BY <1>3 DEF AnswersDown
  <2>1. e \in down /\ e # d
    OBVIOUS
  <2>2. e.text = casked
    BY <1>3, <2>1 DEF SysInv, NetInv, QuestionIsAsked, AnswersDown
  <2>3. e \in [to : Peer, header : ServerHeader, text : Text]
    BY <2>1 DEF SysInv, NetInv, NetTypes
  <2>. QED  BY <1>1, <1>4, <2>1, <2>2, <2>3
<1>6. QuestionsUp' = {}
  BY <1>3, <1>4 DEF QuestionsUp
<1>7. \A a \in Address : \A i : ~QuestionAt(a, i)'
  BY <1>3, <1>4 DEF QuestionHeld, QuestionAt
<1>8. cinbox' = Append(cinbox, m)
  BY <1>3
<1>9. \A i : AnswerAt(i)' => i = Len(cinbox) + 1 /\ cinbox'[i] = m
  <2>1. /\ DOMAIN cinbox' = 1 .. Len(cinbox) + 1
        /\ \A i \in DOMAIN cinbox : cinbox'[i] = cinbox[i]
        /\ cinbox'[Len(cinbox) + 1] = m
        /\ DOMAIN cinbox = 1 .. Len(cinbox) /\ Len(cinbox) \in Nat
    <3>. HIDE DEF S, m
    <3>. QED  BY <1>2, <1>3, <1>8, AppendAt
  <2>2. \A i : ~AnswerAt(i)
    BY <1>4 DEF AnswerHere, AnswerAt
  <2>3. \A i : AnswerAt(i)' => i \notin DOMAIN cinbox
    BY <2>1, <2>2 DEF AnswerAt
  <2>. QED  BY <2>1, <2>3 DEF AnswerAt
<1>10. QuestionIsAsked'
  BY <1>3, <1>4, <1>5, <1>6, <1>7, <1>9 DEF QuestionIsAsked
<1>11. QuestionOnce'
  BY <1>5, <1>6, <1>7, <1>9 DEF QuestionOnce, QuestionHeld
<1>. QED  BY <1>3, <1>10, <1>11 DEF SysInv, NetInv

LEMMA ToClientStep ==
    ASSUME SysInv, NEW d \in down, ToClient(d)
    PROVE  SysInv'
<1>0. /\ d \in [to : Peer, header : ServerHeader, text : Text]
      /\ up' = up /\ down' = down \ {d}
  BY DEF SysInv, NetInv, NetTypes, ToClient
<1>1. CASE AtClient(d.to) /\ C!Deliver([header |-> d.header, text |-> d.text])
           /\ UNCHANGED portVars /\ ServerRests
  <2>1. CASE d.header = "server_msg"
    BY <1>0, <1>1, <2>1, AnswerDelivered DEF AtClient
  <2>2. CASE d.header # "server_msg"
    <3>. DEFINE m == [header |-> d.header, text |-> d.text]
    <3>1. m \in [header : C!Received, text : Text] /\ m.header # "server_msg"
      BY <1>0, <2>2 DEF C!Received, C!ServerHeader, ServerHeader
    <3>2. up' \subseteq up /\ down' \subseteq down /\ C!Deliver(m)
      BY <1>0, <1>1
    <3>. HIDE DEF m
    <3>. QED  BY <1>1, <3>1, <3>2, OtherDelivered
  <2>. QED  BY <2>1, <2>2
<1>2. ASSUME NEW a \in Connected(d.to), SocketError(a), ClientRests,
             rxText' = [rxText EXCEPT ![a] = <<"none">> \o @]
      PROVE  SysInv'
  <2>. DEFINE e == [from |-> peer[a], input |-> "error"]
  <2>1. a \in Address /\ kind[a] = "udp" /\ peer[a] = d.to /\ d.to \in Peer
    BY <1>0 DEF Connected
  <2>2. /\ rx' = [rx EXCEPT ![a] = <<e>> \o @]
        /\ UNCHANGED <<backlog, peer>>
    BY <1>2, <2>1 DEF SocketError, masterVars
  <2>3. UNCHANGED <<clientVars, portVars>>
    BY <1>2 DEF ClientRests
  <2>. USE DEF clientVars, portVars
  <2>4. IInv'
    BY <1>2, <2>1, EnvStep DEF SysInv, NetInv, EnvNext
  <2>5. /\ rx \in [Address -> Seq(Request)] /\ rxText \in [Address -> Seq(Text)]
        /\ Len(rxText[a]) = Len(rx[a]) /\ e \in Request /\ "none" \in Text
    BY <2>1 DEF SysInv, NetInv, IInv, TypeOK, NetTypes, Request, Input, Text
  <2>6. /\ rx'[a] = <<e>> \o rx[a] /\ rxText'[a] = <<"none">> \o rxText[a]
        /\ \A b \in Address : b # a => rx'[b] = rx[b] /\ rxText'[b] = rxText[b]
    BY <1>2, <2>1, <2>2, <2>5
  <2>7. /\ Len(rx'[a]) = Len(rx[a]) + 1
        /\ DOMAIN rx'[a] = 1 .. Len(rx[a]) + 1 /\ rx'[a][1] = e
        /\ \A i \in 2 .. Len(rx[a]) + 1 : rx'[a][i] = rx[a][i - 1]
        /\ DOMAIN rx[a] = 1 .. Len(rx[a]) /\ Len(rx[a]) \in Nat
    <3>. HIDE DEF e
    <3>1. rx[a] \in Seq(Request)  BY <2>1, <2>5
    <3>. QED  BY <2>5, <2>6, <3>1, ConsAt
  <2>8. /\ rxText'[a] \in Seq(Text) /\ Len(rxText'[a]) = Len(rx[a]) + 1
        /\ \A i \in 2 .. Len(rx[a]) + 1 : rxText'[a][i] = rxText[a][i - 1]
    <3>1. rxText[a] \in Seq(Text)  BY <2>1, <2>5
    <3>. QED  BY <2>5, <2>6, <3>1, ConsAt
  <2>9. NetTypes'
    <3>1. rxText' \in [Address -> Seq(Text)]
      BY <1>2, <2>1, <2>5, <2>6, <2>8
    <3>2. \A b \in Address : Len(rxText'[b]) = Len(rx'[b])
      BY <2>6, <2>7, <2>8 DEF SysInv, NetInv, NetTypes
    <3>. QED  BY <1>0, <2>3, <3>1, <3>2 DEF SysInv, NetInv, NetTypes
  <2>10. KnownPorts' /\ UdpOnly' /\ C!SessionFitsState'
    BY <1>0, <2>2, <2>3 DEF SysInv, NetInv, KnownPorts, UdpOnly, C!SessionFitsState
  <2>11. ASSUME NEW b \in Address, NEW i \in DOMAIN rx'[b]
         PROVE  rx'[b][i].input \in (ClientHeader \cup {"error"}) \ {"req_connstart"}
    <3>1. CASE b # a
      BY <2>6, <3>1 DEF SysInv, NetInv, RequestOnce
    <3>2. CASE b = a /\ i = 1
      BY <2>7, <3>2
    <3>3. CASE b = a /\ i # 1
      <4>1. i \in 2 .. Len(rx[a]) + 1 /\ i - 1 \in DOMAIN rx[a]
        BY <2>7, <3>3
      <4>2. rx'[b][i] = rx[a][i - 1]
        BY <2>7, <3>3, <4>1
      <4>. QED  BY <2>1, <4>1, <4>2 DEF SysInv, NetInv, RequestOnce
    <3>. QED  BY <3>1, <3>2, <3>3
  <2>12. RequestOnce'
    BY <1>0, <2>2, <2>11, RequestsStay DEF SysInv, NetInv
  <2>13. QuestionIsAsked' /\ QuestionOnce'
    <3>. DEFINE shift == [b \in Address |-> IF b = a THEN -1 ELSE 0]
    <3>1. shift \in [Address -> Int]
      OBVIOUS
    <3>2. AnswersDown' \subseteq AnswersDown
      BY <1>0, <2>3 DEF AnswersDown
    <3>3. ASSUME NEW b \in Address, NEW i, QuestionAt(b, i)'
          PROVE  /\ i \in Int /\ QuestionAt(b, i + shift[b])
                 /\ rxText'[b][i] = rxText[b][i + shift[b]]
      <4>1. CASE b # a
        <5>1. QuestionAt(b, i) /\ rxText'[b][i] = rxText[b][i]
          BY <2>2, <2>3, <2>6, <3>3, <4>1 DEF QuestionAt
        <5>2. rx[b] \in Seq(Request) /\ i \in DOMAIN rx[b]
          BY <2>5, <5>1 DEF QuestionAt
        <5>3. i \in Int /\ i + shift[b] = i
          BY <4>1, <5>2, LenProperties
        <5>. QED  BY <5>1, <5>3
      <4>2. CASE b = a
        <5>1. i \in 2 .. Len(rx[a]) + 1
          BY <2>7, <3>3, <4>2 DEF QuestionAt
        <5>2. i + shift[b] = i - 1 /\ i - 1 \in DOMAIN rx[a]
          BY <2>7, <4>2, <5>1
        <5>3. QuestionAt(a, i - 1) /\ rxText'[a][i] = rxText[a][i - 1]
          BY <2>2, <2>3, <2>7, <2>8, <3>3, <4>2, <5>1, <5>2 DEF QuestionAt
        <5>. QED  BY <4>2, <5>1, <5>2, <5>3
      <4>. QED  BY <4>1, <4>2
    <3>. HIDE DEF shift
    <3>. QED  BY <1>0, <2>3, <3>1, <3>2, <3>3, QuestionsMove
  <2>. QED  BY <2>4, <2>9, <2>10, <2>12, <2>13 DEF SysInv, NetInv
<1>. QED  BY <1>1, <1>2 DEF ToClient

-----------------------------------------------------------------------------
(* Arrivals at the server *)

\* Of a question or a request there is only one datagram.
LEMMA UpIsUnique ==
    ASSUME SysInv, NEW d \in up, NEW c \in up, c.from = d.from, c.header = d.header,
           \/ d.header = "req_connstart"
           \/ d.header = "client_msg" /\ copen /\ d.from = port
    PROVE  c = d
<1>1. /\ c \in [from : Peer, header : ClientHeader, text : Text]
      /\ d \in [from : Peer, header : ClientHeader, text : Text]
  BY DEF SysInv, NetInv, NetTypes
<1>2. c.text = d.text
  BY DEF SysInv, NetInv, NetTypes, QuestionIsAsked, QuestionsUp
<1>. QED  BY <1>1, <1>2

LEMMA ArriveStep ==
    ASSUME SysInv, ~Strays, NEW d \in up, up' = up \ {d}, UNCHANGED down, ClientRests,
           NEW a \in Address, UdpArrives(d.from, d.header, a), peer[a] = d.from \/ Strays,
           rxText' = [rxText EXCEPT ![a] = Append(@, d.text)]
    PROVE  SysInv'
<1>. DEFINE r == [from |-> d.from, input |-> d.header]
            n == Len(rx[a]) + 1
<1>1. /\ d \in [from : Peer, header : ClientHeader, text : Text] /\ peer[a] = d.from
      /\ UNCHANGED <<clientVars, portVars, backlog, peer>>
      /\ rx' = [rx EXCEPT ![a] = Append(@, r)]
  BY DEF SysInv, NetInv, NetTypes, UdpArrives, ClientRests, masterVars
<1>. USE DEF clientVars, portVars
<1>2. r \in Request
  BY <1>1 DEF Request, Input, UdpInput
<1>3. /\ rx \in [Address -> Seq(Request)] /\ rxText \in [Address -> Seq(Text)]
      /\ Len(rxText[a]) = Len(rx[a])
  BY DEF SysInv, NetInv, IInv, TypeOK, NetTypes
<1>4. /\ rx'[a] = Append(rx[a], r) /\ rxText'[a] = Append(rxText[a], d.text)
      /\ \A b \in Address : b # a => rx'[b] = rx[b] /\ rxText'[b] = rxText[b]
  BY <1>1, <1>3
<1>5. /\ DOMAIN rx'[a] = 1 .. n /\ rx'[a][n] = r
      /\ \A i \in DOMAIN rx[a] : rx'[a][i] = rx[a][i]
      /\ DOMAIN rx[a] = 1 .. Len(rx[a]) /\ Len(rx[a]) \in Nat
      /\ rx'[a] \in Seq(Request) /\ Len(rx'[a]) = n
  <2>. HIDE DEF r
  <2>1. rx[a] \in Seq(Request)  BY <1>3
  <2>. QED  BY <1>2, <1>4, <2>1, AppendAt, AppendProperties
<1>6. /\ rxText'[a][n] = d.text
      /\ \A i \in DOMAIN rx[a] : rxText'[a][i] = rxText[a][i]
      /\ rxText'[a] \in Seq(Text) /\ Len(rxText'[a]) = n
  <2>1. rxText[a] \in Seq(Text) /\ d.text \in Text  BY <1>1, <1>3
  <2>2. /\ rxText'[a][Len(rxText[a]) + 1] = d.text
        /\ \A i \in DOMAIN rxText[a] : rxText'[a][i] = rxText[a][i]
        /\ DOMAIN rxText[a] = 1 .. Len(rxText[a])
        /\ rxText'[a] \in Seq(Text) /\ Len(rxText'[a]) = Len(rxText[a]) + 1
    BY <1>4, <2>1, AppendAt, AppendProperties
  <2>. QED  BY <1>3, <1>5, <2>2
<1>7. IInv'
  <2>1. sock[a] # "none" /\ rx'[a] # <<>> /\ rx' = [rx EXCEPT ![a] = rx'[a]]
    BY <1>3, <1>5, <1>1 DEF UdpArrives, Connected
  <2>. QED  BY <1>5, <2>1, ArrivalStep DEF SysInv, NetInv, UdpArrives
<1>8. NetTypes'
  <2>1. rxText' \in [Address -> Seq(Text)]
    BY <1>3, <1>6
  <2>2. \A b \in Address : Len(rxText'[b]) = Len(rx'[b])
    BY <1>4, <1>5, <1>6 DEF SysInv, NetInv, NetTypes
  <2>. QED  BY <1>1, <2>1, <2>2 DEF SysInv, NetInv, NetTypes
<1>9. KnownPorts' /\ UdpOnly' /\ C!SessionFitsState'
  BY <1>1 DEF SysInv, NetInv, KnownPorts, UdpOnly, C!SessionFitsState
<1>10. RequestOnce'
  <2>1. d.header # "req_connstart"
    BY <1>1 DEF SysInv, NetInv, RequestOnce, RequestUp, HasSession
  <2>2. ASSUME NEW b \in Address, NEW i \in DOMAIN rx'[b]
        PROVE  rx'[b][i].input \in (ClientHeader \cup {"error"}) \ {"req_connstart"}
    <3>1. CASE b # a
      BY <1>4, <3>1 DEF SysInv, NetInv, RequestOnce
    <3>2. CASE b = a /\ i = n
      BY <1>1, <1>5, <2>1, <3>2
    <3>3. CASE b = a /\ i # n
      <4>1. i \in DOMAIN rx[a] /\ rx'[b][i] = rx[a][i]
        BY <1>5, <3>3
      <4>. QED  BY <4>1 DEF SysInv, NetInv, RequestOnce
    <3>. QED  BY <3>1, <3>2, <3>3
  <2>. QED  BY <1>1, <2>2, RequestsStay DEF SysInv, NetInv
<1>11. ASSUME NEW b \in Address, NEW i, QuestionAt(b, i)'
       PROVE  \/ QuestionAt(b, i) /\ rxText'[b][i] = rxText[b][i] /\ i \in Int
              \/ b = a /\ i = n /\ d.header = "client_msg" /\ d.from = port
  <2>1. CASE b # a
    <3>1. QuestionAt(b, i) /\ rxText'[b][i] = rxText[b][i]
      BY <1>1, <1>4, <1>11, <2>1 DEF QuestionAt
    <3>2. rx[b] \in Seq(Request) /\ i \in DOMAIN rx[b]
      BY <1>3, <3>1 DEF QuestionAt
    <3>3. i \in Int
      BY <3>2, LenProperties
    <3>. QED  BY <3>1, <3>3
  <2>2. CASE b = a /\ i # n
    <3>1. i \in DOMAIN rx[a] /\ i \in Int
      BY <1>5, <1>11, <2>2 DEF QuestionAt
    <3>. QED  BY <1>1, <1>5, <1>6, <1>11, <2>2, <3>1 DEF QuestionAt
  <2>3. CASE b = a /\ i = n
    BY <1>1, <1>5, <1>11, <2>3 DEF QuestionAt
  <2>. QED  BY <2>1, <2>2, <2>3
<1>12. QuestionIsAsked' /\ QuestionOnce'
  <2>1. CASE copen /\ d.header = "client_msg" /\ d.from = port
    <3>1. d \in QuestionsUp
      BY <2>1 DEF QuestionsUp
    <3>2. cpc = "answer" /\ d.text = casked
      BY <2>1, <3>1 DEF SysInv, NetInv, QuestionIsAsked
    <3>3. ~QuestionHeld /\ AnswersDown = {} /\ ~AnswerHere
      BY <2>1, <3>1 DEF SysInv, NetInv, QuestionOnce
    <3>4. QuestionsUp' = {}
      BY <1>1, <2>1, UpIsUnique DEF QuestionsUp
    <3>5. AnswersDown' = {}
      BY <1>1, <3>3 DEF AnswersDown
    <3>6. \A i : ~AnswerAt(i)'
      BY <1>1, <3>3 DEF AnswerHere, AnswerAt
    <3>7. \A b \in Address : \A i : QuestionAt(b, i)' => b = a /\ i = n
      BY <1>11, <3>3 DEF QuestionHeld, QuestionAt
    <3>8. QuestionIsAsked'
      BY <1>1, <1>6, <3>2, <3>4, <3>5, <3>6, <3>7 DEF QuestionIsAsked
    <3>9. QuestionOnce'
      BY <3>4, <3>5, <3>6, <3>7 DEF QuestionOnce, AnswerHere
    <3>. QED  BY <3>8, <3>9
  <2>2. CASE ~copen
    BY <1>1, <2>2 DEF QuestionIsAsked, QuestionOnce
  <2>3. CASE ~(d.header = "client_msg" /\ d.from = port)
    <3>. DEFINE shift == [b \in Address |-> 0]
    <3>1. shift \in [Address -> Int]
      OBVIOUS
    <3>2. \A b \in Address : \A i : QuestionAt(b, i)' =>
            /\ i \in Int /\ QuestionAt(b, i + shift[b])
            /\ rxText'[b][i] = rxText[b][i + shift[b]]
      <4>1. \A b \in Address : \A i \in Int : i + shift[b] = i
        OBVIOUS
      <4>. HIDE DEF shift
      <4>. QED  BY <1>11, <2>3, <4>1
    <3>3. AnswersDown' \subseteq AnswersDown
      BY <1>1 DEF AnswersDown
    <3>. HIDE DEF shift
    <3>. QED  BY <1>1, <3>1, <3>2, <3>3, QuestionsMove
  <2>. QED  BY <2>1, <2>2, <2>3
<1>. QED  BY <1>7, <1>8, <1>9, <1>10, <1>12 DEF SysInv, NetInv

LEMMA QueueStep ==
    ASSUME SysInv, NEW d \in up, up' = up \ {d}, UNCHANGED <<down, rxText>>, ClientRests,
           UdpArrivesAtMaster(d.from, d.header)
    PROVE  SysInv'
<1>. DEFINE q == backlog["udp"]
            r == [from |-> d.from, input |-> d.header]
            n == Len(q) + 1
<1>1. /\ d \in [from : Peer, header : ClientHeader, text : Text] /\ d.from \in used
      /\ UNCHANGED <<clientVars, portVars, rx, peer, rxText>>
      /\ Enqueue("udp", r)
  BY DEF SysInv, NetInv, NetTypes, KnownPorts, UdpArrivesAtMaster, Enqueue, ClientRests, sessionVars
<1>. USE DEF clientVars, portVars
<1>2. r \in Request
  BY <1>1 DEF Request, Input, UdpInput
<1>3. backlog \in [Listener -> Seq(Request)] /\ "udp" \in Listener /\ "tcp" \in Listener
  BY DEF SysInv, NetInv, IInv, TypeOK, Listener
<1>4. backlog'["udp"] = Append(q, r) /\ backlog'["tcp"] = backlog["tcp"]
  BY <1>1, <1>3 DEF Enqueue
<1>5. /\ DOMAIN backlog'["udp"] = 1 .. n /\ backlog'["udp"][n] = r
      /\ \A i \in DOMAIN q : backlog'["udp"][i] = q[i]
      /\ DOMAIN q = 1 .. Len(q) /\ Len(q) \in Nat
  <2>. HIDE DEF r
  <2>1. q \in Seq(Request)  BY <1>3
  <2>. QED  BY <1>2, <1>4, <2>1, AppendAt
<1>6. IInv'
  <2>. HIDE DEF r
  <2>. QED  BY <1>1, <1>2, <1>3, EnqueueStep DEF SysInv, NetInv
<1>7. NetTypes' /\ UdpOnly' /\ C!SessionFitsState'
  BY <1>1, <1>4 DEF SysInv, NetInv, NetTypes, UdpOnly, C!SessionFitsState
<1>8. KnownPorts'
  <2>1. \A i \in DOMAIN backlog'["udp"] : backlog'["udp"][i].from \in used
    BY <1>1, <1>5 DEF SysInv, NetInv, KnownPorts
  <2>. QED  BY <1>1, <2>1 DEF SysInv, NetInv, KnownPorts
<1>9. AnswersDown' \subseteq AnswersDown
  BY <1>1 DEF AnswersDown
<1>10. QuestionIsAsked' /\ QuestionOnce'
  BY <1>1, <1>6, <1>9, QueuesStay, QuestionsShrink
<1>11. RequestOnce'
  <2>0. RequestOnce
    BY DEF SysInv, NetInv
  <2>1. \A i, p : /\ i \in DOMAIN backlog'["udp"] /\ RequestAt(i, p)'
                  => \/ i \in DOMAIN q /\ RequestAt(i, p)
                     \/ i = n /\ p = d.from /\ d.header = "req_connstart"
    BY <1>5 DEF RequestAt
  <2>2. \A p : RequestUp(p)' => RequestUp(p)
    BY DEF RequestUp
  <2>3. d.header = "req_connstart" => RequestUp(d.from) /\ ~RequestUp(d.from)'
    BY UpIsUnique DEF RequestUp
  <2>4. \A p : HasSession(p)' <=> HasSession(p)
    BY <1>1 DEF HasSession
  <2>5. \A p : RequestQueued(p)' =>
          RequestQueued(p) \/ (p = d.from /\ d.header = "req_connstart")
    BY <2>1 DEF RequestQueued
  <2>6. \A p \in Peer :
          /\ ~(RequestUp(p)' /\ RequestQueued(p)')
          /\ ~(RequestUp(p)' /\ HasSession(p)')
          /\ ~(RequestQueued(p)' /\ HasSession(p)')
    BY <2>0, <2>2, <2>3, <2>4, <2>5 DEF RequestOnce
  <2>7. ASSUME NEW p \in Peer, NEW i \in DOMAIN backlog'["udp"],
               NEW j \in DOMAIN backlog'["udp"], RequestAt(i, p)', RequestAt(j, p)'
        PROVE  i = j
    <3>1. CASE i \in DOMAIN q /\ RequestAt(i, p) /\ j \in DOMAIN q /\ RequestAt(j, p)
      BY <2>0, <3>1 DEF RequestOnce
    <3>2. CASE p = d.from /\ d.header = "req_connstart"
      <4>1. ~RequestQueued(p)
        BY <2>0, <2>3, <2>7, <3>2 DEF RequestOnce
      <4>. QED  BY <2>1, <2>7, <4>1 DEF RequestQueued
    <3>. QED  BY <2>1, <2>7, <3>1, <3>2
  <2>8. \A p \in Peer : \A a, b \in Address : peer'[a] = p /\ peer'[b] = p => a = b
    BY <1>1, <2>0 DEF RequestOnce
  <2>9. \A a \in Address : \A i \in DOMAIN rx'[a] :
          rx'[a][i].input \in (ClientHeader \cup {"error"}) \ {"req_connstart"}
    BY <1>1, <2>0 DEF RequestOnce
  <2>. QED  BY <2>6, <2>7, <2>8, <2>9 DEF RequestOnce
<1>. QED  BY <1>6, <1>7, <1>8, <1>10, <1>11 DEF SysInv, NetInv

LEMMA ToServerStep ==
    ASSUME SysInv, ~Strays, NEW d \in up, ToServer(d)
    PROVE  SysInv'
<1>0. up' = up \ {d} /\ down' = down
  BY DEF ToServer
<1>1. ASSUME NEW a \in Address, UdpArrives(d.from, d.header, a), peer[a] = d.from \/ Strays,
             rxText' = [rxText EXCEPT ![a] = Append(@, d.text)], ClientRests
      PROVE  SysInv'
  BY <1>0, <1>1, ArriveStep
<1>2. CASE UdpArrivesAtMaster(d.from, d.header) /\ UNCHANGED rxText /\ ClientRests
  BY <1>0, <1>2, QueueStep
<1>3. CASE C!Deliver([header |-> "error", text |-> "none"]) /\ UNCHANGED portVars /\ ServerRests
  <2>. DEFINE m == [header |-> "error", text |-> "none"]
  <2>1. m \in [header : C!Received, text : Text] /\ m.header # "server_msg"
    BY DEF C!Received, Text
  <2>2. up' \subseteq up /\ down' \subseteq down /\ C!Deliver(m)
    BY <1>0, <1>3
  <2>. HIDE DEF m
  <2>. QED  BY <1>3, <2>1, <2>2, OtherDelivered
<1>. QED  BY <1>1, <1>2, <1>3 DEF ToServer

-----------------------------------------------------------------------------
(* The theorems *)

LEMMA SysInitInv == SysInit => SysInv
<1>. SUFFICES ASSUME SysInit PROVE SysInv  OBVIOUS
<1>1. IInv
  BY InitIInv DEF SysInit
<1>2. /\ backlog["udp"] = <<>> /\ backlog["tcp"] = <<>>
      /\ peer = [a \in Address |-> NoPeer] /\ rx = [a \in Address |-> <<>>]
      /\ rxText = [a \in Address |-> <<>>] /\ up = {} /\ down = {} /\ port = NoPeer /\ used = {}
  BY DEF SysInit, Init, Listener
<1>3. /\ cpc = "select" /\ cstate = "protocol_selection" /\ csession = "none" /\ copen = FALSE
      /\ cwatched = FALSE /\ casked = "none" /\ cinbox = <<>>
  BY DEF SysInit, C!Init
<1>4. C!SessionFitsState
  BY <1>3 DEF C!SessionFitsState
<1>5. NetTypes
  BY <1>2, <1>3 DEF NetTypes, Text
<1>6. KnownPorts /\ UdpOnly
  BY <1>2, <1>3 DEF KnownPorts, UdpOnly
<1>7. RequestOnce
  BY <1>2, PeerAssumption DEF RequestOnce, RequestUp, RequestQueued, RequestAt, HasSession
<1>8. QuestionIsAsked /\ QuestionOnce
  BY <1>3 DEF QuestionIsAsked, QuestionOnce
<1>. QED  BY <1>1, <1>4, <1>5, <1>6, <1>7, <1>8 DEF SysInv, NetInv

LEMMA SysStutterStep ==
    ASSUME SysInv, UNCHANGED sysVars
    PROVE  SysInv'
<1>1. IInv'
  BY StutterStep DEF SysInv, NetInv, sysVars
<1>2. /\ UNCHANGED <<clientVars, portVars, backlog, rx, rxText, peer>>
      /\ up' \subseteq up /\ down' \subseteq down
  BY DEF sysVars, vars, masterVars, sessionVars, clientVars, C!vars, C!sessionVars, C!userVars
<1>. QED  BY <1>1, <1>2, FewerDatagrams

LEMMA SysNextStep ==
    ASSUME SysInv, ~Strays, SysNext
    PROVE  SysInv'
<1>1. CASE ClientProgram \/ ClientUser
  BY <1>1, ClientNetStep DEF ClientProgram, ClientUser, C!ClientNext
<1>2. CASE ServerStep  BY <1>2, ServerNetStep
<1>3. CASE Interrupt \/ \E a \in Address : TimeGoesBy(a)  BY <1>3, TimeStep
<1>4. CASE Restart  BY <1>4, RestartNetStep
<1>5. CASE Network
  BY <1>5, LoseStep, ToServerStep, ToClientStep DEF Network
<1>. QED  BY <1>1, <1>2, <1>3, <1>4, <1>5 DEF SysNext

\* Every reachable state of the client, the network and the server satisfies
\* the inductive invariant, for any number of ports and sessions.
THEOREM SystemInvariant == ~Strays => (SysSpec => []SysInv)
<1>. SUFFICES ASSUME ~Strays PROVE SysSpec => []SysInv  OBVIOUS
<1>1. SysInit => SysInv  BY SysInitInv
<1>2. SysInv /\ [SysNext]_sysVars => SysInv'
  BY SysNextStep, SysStutterStep
<1>. QED  BY <1>1, <1>2, PTL DEF SysSpec

\* What relates the two programs, of which the answers' going to their
\* questions is the most important consequence: a port asks for a session once,
\* and a question or its answer is in one place.
THEOREM ProgramsAgree == ~Strays => (SysSpec => []NetInv)
<1>. SUFFICES ASSUME ~Strays PROVE SysSpec => []NetInv  OBVIOUS
<1>1. SysInv => NetInv  BY DEF SysInv
<1>. QED  BY <1>1, SystemInvariant, PTL

\* An answer can be taken only by the client that waits for it.
LEMMA AnsweredStep ==
    ASSUME SysInv, C!Answered, csaid' = "proceed_msg"
    PROVE  Head(cinbox).text = casked
<1>1. cinbox # <<>> /\ cpc = "answer" /\ copen
  BY DEF C!Answered, SysInv, NetInv, C!SessionFitsState
<1>2. Head(cinbox).header = "server_msg"
  BY DEF C!Answered, C!AnswerStatus, C!Leave, C!Reply
<1>3. cinbox \in Seq([header : C!Received, text : Text])
  BY DEF SysInv, NetInv, NetTypes
<1>4. 1 \in DOMAIN cinbox /\ Head(cinbox) = cinbox[1]
  BY <1>1, <1>3, TailAt
<1>. QED  BY <1>1, <1>2, <1>4 DEF SysInv, NetInv, QuestionIsAsked, AnswerAt

\* The answer the client shows is the answer to what it has just asked,
\* although no datagram says which question it answers.
THEOREM AnswersAreOwn == ~Strays => (SysSpec => AnswerIsOwn)
<1>. SUFFICES ASSUME ~Strays PROVE SysSpec => AnswerIsOwn  OBVIOUS
<1>1. SysInv => [C!Answered /\ csaid' = "proceed_msg" => Head(cinbox).text = casked]_sysVars
  BY AnsweredStep
<1>. QED  BY <1>1, SystemInvariant, PTL DEF SysSpec, AnswerIsOwn

\* No session ever finds a request or anything malformed in its queue.
LEMMA NoComplaint ==
    ASSUME SysInv, NEW a \in Address
    PROVE  ~Complain(a)
<1>. SUFFICES ASSUME Complain(a) PROVE FALSE  OBVIOUS
<1>1. rx[a] # <<>> /\ Head(rx[a]).input \in {"malformed", "req_connstart"}
  BY DEF Complain, Receive, Incorrect
<1>2. rx[a] \in Seq(Request)
  BY DEF SysInv, NetInv, IInv, TypeOK
<1>3. 1 \in DOMAIN rx[a] /\ Head(rx[a]) = rx[a][1]
  BY <1>1, <1>2, TailAt
<1>. QED  BY <1>1, <1>3 DEF SysInv, NetInv, RequestOnce, ClientHeader

LEMMA BlameStep ==
    ASSUME SysInv, SysNext, NEW m \in out', m.header = "incorrect_msg"
    PROVE  FALSE
<1>1. CASE ServerStep
  <2>1. Justified(m)
    BY <1>1, HandlerSends DEF SysInv, NetInv, ServerStep
  <2>. QED  BY <2>1, NoComplaint DEF Justified
<1>2. CASE ClientProgram \/ ClientUser \/ Restart \/ Interrupt \/ \E a \in Address : TimeGoesBy(a)
  BY <1>2 DEF ClientProgram, ClientUser, ClientSends, ServerRests, Restart, Interrupt, RaiseStop,
              TimeGoesBy, TimerExpires
<1>3. CASE Network
  BY <1>3 DEF Network, Lose, ToServer, ToClient, ServerRests, UdpArrives, UdpArrivesAtMaster,
              Enqueue, SocketError
<1>. QED  BY <1>1, <1>2, <1>3 DEF SysNext

\* The server never judges incorrect what the client has sent, in whatever order
\* it arrives and however often the two have lost each other.
THEOREM ProperClientIsNotBlamed == ~Strays => (SysSpec => ProperClientNotBlamed)
<1>. SUFFICES ASSUME ~Strays PROVE SysSpec => ProperClientNotBlamed  OBVIOUS
<1>1. SysInv /\ [SysNext]_sysVars =>
        [\A m \in out' : m.header = "incorrect_msg" => ~AtClient(m.to)]_sysVars
  BY BlameStep
<1>. QED  BY <1>1, SystemInvariant, PTL DEF SysSpec, ProperClientNotBlamed
=============================================================================
