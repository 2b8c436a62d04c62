------------------------- MODULE UdpSystemInductive -------------------------
(***************************************************************************)
(* The inductive invariant of UdpSystem.  Nothing in a datagram says what  *)
(* it answers; that answers are never mixed up rests on where the one      *)
(* question of the current connection, or its one answer, can be.  It      *)
(* holds where no stray lands between bind and connect (Strays = FALSE).   *)
(***************************************************************************)
EXTENDS UdpSystem, ServerInductive

Text == Line \cup {"none"}

\* What is under way, what has arrived, and the texts of what the sessions have
\* received.
NetTypes ==
    /\ port \in Peer \cup {NoPeer} /\ used \in SUBSET Peer
    /\ up \in SUBSET [from : Peer, header : ClientHeader, text : Text]
    /\ \A d \in up : d.header # "client_msg" => d.text = "none"
    /\ down \in SUBSET [to : Peer, header : ServerHeader, text : Text]
    /\ rxText \in [Address -> Seq(Text)]
    /\ \A a \in Address : Len(rxText[a]) = Len(rx[a])
    /\ casked \in Text /\ cinbox \in Seq([header : C!Received, text : Text])

\* Only a port that a socket has had occurs anywhere, so that nothing waits for
\* a new one.
KnownPorts ==
    /\ copen => port \in used
    /\ \A d \in up : d.from \in used
    /\ \A d \in down : d.to \in used
    /\ \A i \in DOMAIN backlog["udp"] : backlog["udp"][i].from \in used
    /\ \A a \in Address : peer[a] # NoPeer => peer[a] \in used

\* Nothing of TCP, and nothing waits in a socket that is closed.
UdpOnly ==
    /\ csession # "tcp" /\ cpc # "connect" /\ backlog["tcp"] = <<>>
    /\ ~copen => cinbox = <<>>

-----------------------------------------------------------------------------
(* Requests *)

RequestUp(p) == \E d \in up : d.from = p /\ d.header = "req_connstart"

RequestAt(i, p) ==
    backlog["udp"][i].from = p /\ backlog["udp"][i].input = "req_connstart"

RequestQueued(p) == \E i \in DOMAIN backlog["udp"] : RequestAt(i, p)

HasSession(p) == \E a \in Address : peer[a] = p

\* A port asks for a session once: its request is under way, or queued at the
\* server, or has led to the one session it will ever have.  No request reaches
\* a session (where it would be judged incorrect), and no port has two.
RequestOnce ==
    /\ \A p \in Peer :
         /\ ~(RequestUp(p) /\ RequestQueued(p))
         /\ ~(RequestUp(p) /\ HasSession(p))
         /\ ~(RequestQueued(p) /\ HasSession(p))
         /\ \A i, j \in DOMAIN backlog["udp"] : RequestAt(i, p) /\ RequestAt(j, p) => i = j
         /\ \A a, b \in Address : peer[a] = p /\ peer[b] = p => a = b
    /\ \A a \in Address : \A i \in DOMAIN rx[a] :
         rx[a][i].input \in (ClientHeader \cup {"error"}) \ {"req_connstart"}

-----------------------------------------------------------------------------
(* Questions *)

\* Where the question of the current connection can be, and its answer.
QuestionsUp == {d \in up : d.from = port /\ d.header = "client_msg"}
QuestionAt(a, i) == peer[a] = port /\ i \in DOMAIN rx[a] /\ rx[a][i].input = "client_msg"
QuestionHeld == \E a \in Address : \E i \in DOMAIN rx[a] : QuestionAt(a, i)
AnswersDown == {d \in down : d.to = port /\ d.header = "server_msg"}
AnswerAt(i) == i \in DOMAIN cinbox /\ cinbox[i].header = "server_msg"
AnswerHere  == \E i \in DOMAIN cinbox : AnswerAt(i)

\* They all carry the text the client has asked, and while it asks nothing there
\* are none.
QuestionIsAsked ==
    copen =>
      /\ \A d \in QuestionsUp : cpc = "answer" /\ d.text = casked
      /\ \A a \in Address : \A i \in DOMAIN rx[a] :
           QuestionAt(a, i) => cpc = "answer" /\ rxText[a][i] = casked
      /\ \A d \in AnswersDown : cpc = "answer" /\ d.text = casked
      /\ \A i \in DOMAIN cinbox : AnswerAt(i) => cpc = "answer" /\ cinbox[i].text = casked

\* There is at most one of them, in one place.
QuestionOnce ==
    copen =>
      /\ QuestionsUp # {} => ~QuestionHeld /\ AnswersDown = {} /\ ~AnswerHere
      /\ QuestionHeld => AnswersDown = {} /\ ~AnswerHere
      /\ AnswersDown # {} => ~AnswerHere
      /\ \A a, b \in Address : \A i \in DOMAIN rx[a], j \in DOMAIN rx[b] :
           QuestionAt(a, i) /\ QuestionAt(b, j) => a = b /\ i = j
      /\ \A i, j \in DOMAIN cinbox : AnswerAt(i) /\ AnswerAt(j) => i = j

-----------------------------------------------------------------------------
\* What relates the two programs: neither knows it of itself.
NetInv ==
    /\ NetTypes
    /\ KnownPorts
    /\ UdpOnly
    /\ RequestOnce
    /\ QuestionIsAsked
    /\ QuestionOnce

\* With what each program keeps by itself, NetInv is inductive.
SysInv ==
    /\ IInv
    /\ C!SessionFitsState
    /\ NetInv
=============================================================================
