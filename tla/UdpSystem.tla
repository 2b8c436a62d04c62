----------------------------- MODULE UdpSystem -----------------------------
(***************************************************************************)
(* One client and the server over UDP.  Server is this module's own state; *)
(* the variables of Client are those with a c.  Between them a network     *)
(* that loses and reorders datagrams.                                      *)
(*                                                                         *)
(* A peer is the client's address and port.  connect of a new socket takes *)
(* a port nobody has had before.  The server may be started again whenever *)
(* it has ended.  The client, too: a program that starts and a menu that   *)
(* has been returned to are the same state.                                *)
(***************************************************************************)
EXTENDS Server

CONSTANTS
    Line,        \* what the user may type
    MaxInbox,    \* bound on the client socket's receive queue
    MaxNet,      \* bound on the datagrams under way in one direction
    Strays       \* one of another peer may arrive between bind and connect

ASSUME NetAssumption ==
    MaxNet \in Nat /\ MaxInbox \in Nat /\ Strays \in BOOLEAN

\* The user does not choose TCP.
ASSUME LineAssumption == Line \subseteq {"", "u", "address", "text", "long"}

VARIABLES
    cpc, cstate, csession, copen, cwatched, casked, cbreakIn, ceof, cinbox,
    csent, csaid,
    port,    \* the peer the client's socket is
    used,    \* the ports sockets have had
    up,      \* datagrams on their way to the server
    down,    \* ... and to the client
    rxText   \* address -> the texts of the datagrams in rx

C == INSTANCE Client
       WITH pc <- cpc, state <- cstate, session <- csession, open <- copen,
            watched <- cwatched, asked <- casked, breakIn <- cbreakIn,
            eof <- ceof, inbox <- cinbox, sent <- csent, said <- csaid

serverVars == <<pc, loopVars, masterVars, epfd, epoll, events, ownerVars, sessionVars>>
clientVars == <<cpc, cstate, csession, copen, cwatched, casked, cbreakIn, ceof, cinbox>>
portVars   == <<port, used>>
sysVars == <<vars, C!vars, portVars, up, down, rxText>>

\* The other side's step: nothing is sent from here.
ServerRests == UNCHANGED <<serverVars, rxText>> /\ out' = {}
ClientRests == UNCHANGED <<clientVars, portVars>> /\ csent' = {} /\ csaid' = "none"

SysInit ==
    /\ Init
    /\ C!Init
    /\ port = NoPeer /\ used = {}
    /\ up = {} /\ down = {}
    /\ rxText = [a \in Address |-> <<>>]

-----------------------------------------------------------------------------
(* The network *)

\* What is sent joins what is under way, unless that is too much already.
Carry(net, new) == IF Cardinality(net \cup new) <= MaxNet THEN net \cup new ELSE net

Lose ==
    /\ \/ \E d \in up : up' = up \ {d} /\ UNCHANGED down
       \/ \E d \in down : down' = down \ {d} /\ UNCHANGED up
    /\ ServerRests /\ ClientRests

-----------------------------------------------------------------------------
(* Steps of the client *)

\* A socket that is opened gets its port; what is sent comes from there.
ClientSends ==
    /\ IF copen' /\ ~copen
         THEN /\ port' \in Peer \ used
              /\ used' = used \cup {port'}
         ELSE UNCHANGED portVars
    /\ up' = Carry(up, {[from |-> port', header |-> m.header, text |-> m.text]
                          : m \in csent'})
    /\ UNCHANGED down
    /\ ServerRests

ClientProgram == C!ProgramNext /\ ClientSends
ClientPauses  == C!Idle /\ ClientSends
ClientUser    == C!UserNext /\ ClientSends

AtClient(p) == copen /\ port = p

\* A datagram reaches the client.  Where no socket is, the host of the client
\* says so to the session that has sent it.
ToClient(d) ==
    /\ down' = down \ {d}
    /\ UNCHANGED up
    /\ \/ /\ AtClient(d.to)
          /\ C!Deliver([header |-> d.header, text |-> d.text])
          /\ UNCHANGED portVars
          /\ ServerRests
       \/ /\ ~AtClient(d.to)
          /\ \E a \in Connected(d.to) :
               /\ SocketError(a)
               /\ rxText' = [rxText EXCEPT ![a] = <<"none">> \o @]
          /\ ClientRests

-----------------------------------------------------------------------------
(* Steps of the server *)

\* The text of an answer is that of the question, which the handler takes from
\* the front of rx.
ServerStep ==
    /\ ServerNext
    /\ rxText' = [a \in Address |->
          SubSeq(rxText[a], 1 + Len(rx[a]) - Len(rx'[a]), Len(rx[a]))]
    /\ down' = Carry(down,
          {[to |-> m.to, header |-> m.header,
            text |-> IF m.header = "server_msg" THEN Head(rxText[m.via]) ELSE "none"]
             : m \in out'})
    /\ UNCHANGED up
    /\ ClientRests

TimeGoesBy(a) == TimerExpires(a) /\ UNCHANGED <<rxText, up, down>> /\ ClientRests
Interrupt     == RaiseStop /\ UNCHANGED <<rxText, up, down>> /\ ClientRests

\* The operator starts the server again: Init', written so that TLC can take it.
Restart ==
    /\ ~Running
    /\ pc' = "create"
    /\ stopRaised' = FALSE /\ stopping' = FALSE /\ epfd' = FALSE
    /\ master' = [m \in Listener |-> FALSE]
    /\ backlog' = [m \in Listener |-> <<>>]
    /\ edge' = {} /\ epoll' = {} /\ events' = {} /\ slaves' = {} /\ remove' = {}
    /\ kind' = [a \in Address |-> "free"] /\ sock' = [a \in Address |-> "none"]
    /\ peer' = [a \in Address |-> NoPeer] /\ timer' = [a \in Address |-> "none"]
    /\ rx' = [a \in Address |-> <<>>] /\ rxText' = [a \in Address |-> <<>>]
    /\ isTimeout' = [a \in Address |-> FALSE]
    /\ out' = {}
    /\ UNCHANGED <<up, down>>
    /\ ClientRests

\* No socket of the server would take a datagram from p.
Closed(p) ==
    /\ ~master["udp"] \/ ~Running
    /\ ~Running \/ (Connected(p) = {} /\ \A a \in Address : sock[a] # "bound")

\* A datagram reaches the server, or its host says that nobody is there.
ToServer(d) ==
    /\ up' = up \ {d}
    /\ UNCHANGED down
    /\ \/ /\ \E a \in Address :
               /\ UdpArrives(d.from, d.header, a)
               /\ peer[a] = d.from \/ Strays
               /\ rxText' = [rxText EXCEPT ![a] = Append(@, d.text)]
          /\ ClientRests
       \/ /\ UdpArrivesAtMaster(d.from, d.header)
          /\ UNCHANGED rxText
          /\ ClientRests
       \/ /\ Closed(d.from) /\ AtClient(d.from)
          /\ C!Deliver([header |-> "error", text |-> "none"])
          /\ UNCHANGED portVars
          /\ ServerRests

-----------------------------------------------------------------------------
Network ==
    \/ Lose
    \/ \E d \in up : ToServer(d)
    \/ \E d \in down : ToClient(d)

SysNext ==
    \/ ClientProgram \/ ClientUser
    \/ ServerStep \/ Interrupt \/ Restart
    \/ \E a \in Address : TimeGoesBy(a)
    \/ Network

SysSpec == SysInit /\ [][SysNext]_sysVars

\* Both programs are scheduled, and every wait of the client ends.  The network
\* and the user owe nothing, and the server need not be started again.
SysFairSpec == SysSpec /\ WF_sysVars(ClientProgram) /\ WF_sysVars(ServerStep)

-----------------------------------------------------------------------------
(* Properties *)

\* The answer the client shows is the answer to the message it has just sent:
\* "Server handles text messages from client.  If message contains numbers then
\* server returns sum of that numbers, otherwise it returns the same message"
\* (README.MD:24).  recv takes the next datagram, whatever it answers
\* (SessionClient.cpp:98); late answers die with the socket of a question that
\* was given up.
AnswerIsOwn ==
    [][ C!Answered /\ csaid' = "proceed_msg" => Head(cinbox).text = casked ]_sysVars

\* Nothing the client sends is judged incorrect ("Error in client message",
\* common.h:52), in whatever order it arrives and whatever is left over from an
\* earlier connection: the client never asks twice for a session and never
\* speaks before it has one.
ProperClientNotBlamed ==
    [][ \A m \in out' : m.header = "incorrect_msg" => ~AtClient(m.to) ]_sysVars

ServerHolds(p) == Connected(p) # {}

Stranded == csession = "udp" /\ cwatched /\ ~ServerHolds(port)

\* A client whose server has stopped, has been started again or has dropped the
\* session does not stay connected to nobody, if its user pauses for five
\* seconds now and then.
GoneServerIsNoticed ==
    (WF_sysVars(ClientPauses) /\ <>[]~ceof) => (Stranded ~> ~Stranded)

\* A session whose client is gone is destroyed in the end, although the farewell
\* may be lost and late datagrams may still restart its timer.
LostClientIsReaped ==
    (\A a \in Address : WF_sysVars(TimeGoesBy(a))) =>
        \A a \in Address :
            kind[a] = "udp" ~> kind[a] = "free" \/ AtClient(peer[a]) \/ pc = "abort"
=============================================================================
