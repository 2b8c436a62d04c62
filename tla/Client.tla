------------------------------- MODULE Client -------------------------------
(***************************************************************************)
(* The console client: one thread in MainConsole::consoleLoop, the one     *)
(* session it may hold, the user and SIGINT.                               *)
(*                                                                         *)
(* One pass through the loop is one action, up to a call that blocks:      *)
(* connect of a stream, or recv of an answer.  There the pass is cut in    *)
(* two, and pc says what is awaited, since Ctrl+C and datagrams arrive     *)
(* meanwhile.  What select finds is looked at in the code's order: the     *)
(* break event, then the session's socket, then stdin; Idle is its five    *)
(* second timeout.  The line the user types is chosen when it is read.     *)
(***************************************************************************)
EXTENDS Protocol, Naturals, Sequences

CONSTANTS
    Line,       \* what the user may type
    MaxInbox    \* bound on the socket's receive queue

\* "" is the empty line; "long" one that does not fit the buffer of sendMessage.
Command == {"", "u", "t", "address"}

ASSUME LineAssumption  == Line \subseteq Command \cup {"text", "long"}
ASSUME InboxAssumption == MaxInbox \in Nat

VARIABLES
    pc,       \* where the thread is: in select, in a blocking call, or gone
    state,    \* currentState
    session,  \* what currentSession points to
    open,     \* its _socket is open
    watched,  \* the loop's copy sessionSocket is not -1
    asked,    \* the message whose answer is awaited
    breakIn,  \* where the pending Ctrl+C was pressed: in which state of the menu, or
              \* during a blocking call; "none": none pending
    eof,      \* stdin has ended
    inbox,    \* the socket's receive queue
    sent,     \* what the current step sends
    said      \* the session_status the current step reports

sessionVars == <<state, session, open, watched>>
userVars    == <<breakIn, eof>>
vars == <<pc, sessionVars, asked, userVars, inbox, sent, said>>

\* The blocking calls.
Waiting == {"connect", "init", "connup", "answer"}

\* What recv can yield: a server's message, the end of a stream, an error.
Received == ServerHeader \cup {"fin", "error"}
Arrival  == [header : Received, text : Line \cup {"none"}]

\* What it hands to send.
Departure == [header : ClientHeader, text : Line \cup {"none"}]

\* session_status, without the values nothing in the client returns.
Status ==
    {"init_success", "init_socket_fail", "init_connection_fail",
     "init_udp_send_up_fail", "init_udp_recv_up_fail", "proceed_disconnect",
     "proceed_server_timeout", "proceed_server_error", "proceed_msg",
     "proceed_msg_send_fail", "proceed_msg_recv_fail", "recv_wrong_length",
     "recv_wrong_header", "connup_up", "connup_timeout", "server_error",
     "unknown_status"}

Init ==
    /\ pc = "select"
    /\ state = "protocol_selection"
    /\ session = "none"
    /\ open = FALSE
    /\ watched = FALSE
    /\ asked = "none"
    /\ breakIn = "none"
    /\ eof = FALSE
    /\ inbox = <<>>
    /\ sent = {}
    /\ said = "none"

-----------------------------------------------------------------------------
(* Sessions *)

Message(header, text) == {[header |-> header, text |-> text]}

\* Mutant: sessionSocket is not reset.
DropKeepsCopy(farewell) ==
    /\ session' = "none"
    /\ open' = FALSE
    /\ asked' = "none"
    /\ inbox' = <<>>
    /\ sent' = farewell
    /\ UNCHANGED watched

\* delete currentSession and the resets beside it.
Drop(farewell) ==
    /\ session' = "none"
    /\ open' = FALSE
    /\ watched' = (IF session = "none" THEN watched ELSE FALSE)
    /\ asked' = "none"
    /\ inbox' = <<>>
    /\ sent' = farewell

\* Mutant: the header of the other side.
FarewellOfServer ==
    IF session = "udp" /\ open THEN Message("server_conndown", "none") ELSE {}

\* Mutant: a session that gets no answer is closed before it is deleted.
FarewellIfAnswered ==
    IF session = "udp" /\ open /\ pc = "select"
    THEN Message("client_conndown", "none") ELSE {}

\* ~SessionUdp: a socket still open says goodbye.
Farewell ==
    IF session = "udp" /\ open THEN Message("client_conndown", "none") ELSE {}

\* switchState(protocol_selection) after a report.
Leave(farewell, report) ==
    /\ Drop(farewell)
    /\ pc' = "select"
    /\ state' = "protocol_selection"
    /\ said' = report

\* switchState(connected) once init has succeeded.
Connect ==
    /\ pc' = "select"
    /\ state' = "connected"
    /\ watched' = open
    /\ sent' = {}
    /\ said' = "init_success"

Receive ==
    /\ inbox # <<>>
    /\ inbox' = Tail(inbox)

Reply == Head(inbox).header

-----------------------------------------------------------------------------
(* The loop *)

\* Mutant: the break event is handled when nothing else is ready.
BreakLast ==
    /\ pc = "select"
    /\ breakIn # "none"
    /\ inbox = <<>> /\ ~eof
    /\ breakIn' = "none"
    /\ IF state = "protocol_selection"
         THEN pc' = "exit" /\ sent' = {} /\ said' = "none"
              /\ UNCHANGED <<sessionVars, asked, inbox>>
         ELSE Leave(Farewell, "none")
    /\ UNCHANGED eof

\* Mutant: the break event is not read.
BreakStays ==
    /\ pc = "select"
    /\ breakIn # "none"
    /\ IF state = "protocol_selection"
         THEN pc' = "exit" /\ sent' = {} /\ said' = "none"
              /\ UNCHANGED <<sessionVars, asked, inbox>>
         ELSE Leave(Farewell, "none")
    /\ UNCHANGED userVars

\* The break event; also select's EINTR, which leaves every descriptor set.
Break ==
    /\ pc = "select"
    /\ breakIn # "none"
    /\ breakIn' = "none"
    /\ IF state = "protocol_selection"
         THEN pc' = "exit" /\ sent' = {} /\ said' = "none"
              /\ UNCHANGED <<sessionVars, asked, inbox>>
         ELSE Leave(Farewell, "none")
    /\ UNCHANGED eof

\* select fails for another reason than a signal.
SelectFails ==
    /\ pc = "select"
    /\ pc' = "exit"
    /\ Drop(Farewell)
    /\ said' = "select_failed"
    /\ UNCHANGED <<state, userVars>>

\* Something arrives that nobody has asked for: whatever it is, the session
\* ends.  proceed() reads two bytes, so an answer with a text is too long.
UnsolicitedStatus(header) ==
    CASE header \in {"server_conndown", "fin"} -> "proceed_disconnect"
      [] header = "server_session_err"         -> "proceed_server_error"
      [] header = "server_timeout"             -> "proceed_server_timeout"
      [] header = "server_msg"                 -> "recv_wrong_length"
      [] header = "error"                      -> "proceed_msg_recv_fail"
      [] OTHER                                 -> "unknown_status"

Unsolicited ==
    /\ pc = "select" /\ breakIn = "none"
    /\ state = "connected"
    /\ inbox # <<>>
    /\ Leave(Farewell, UnsolicitedStatus(Reply))
    /\ UNCHANGED userVars

\* Five seconds without input: a UDP session asks for a sign of life.  Nothing
\* happens in another state, or for TCP (connup_not_req).  A stdin that has
\* ended is always readable.
Idle ==
    /\ pc = "select" /\ breakIn = "none"
    /\ inbox = <<>> /\ ~eof
    /\ state = "connected" /\ session = "udp"
    /\ \/ /\ pc' = "connup"
          /\ sent' = Message("client_connup", "none")
          /\ said' = "none"
          /\ UNCHANGED <<sessionVars, asked, inbox>>
       \/ Leave(Farewell, "proceed_msg_send_fail")
    /\ UNCHANGED userVars

\* select reports stdin, and nothing before it, readable.
Reads(line) ==
    /\ pc = "select" /\ breakIn = "none"
    /\ state = "connected" => inbox = <<>>
    /\ line \in (IF eof THEN {""} ELSE Line)

SelectProtocol(line) ==
    /\ Reads(line)
    /\ state = "protocol_selection"
    /\ line \in {"u", "t"}
    /\ state' = "address_input"
    /\ session' = (IF line = "u" THEN "udp" ELSE "tcp")
    /\ sent' = {} /\ said' = "none"
    /\ UNCHANGED <<pc, open, watched, asked, userVars, inbox>>

\* An empty line, or one the state does not take.
RejectLine(line) ==
    /\ Reads(line)
    /\ \/ line = ""
       \/ state = "protocol_selection" /\ line \notin {"u", "t"}
       \/ state = "address_input" /\ line # "address"
    /\ sent' = {} /\ said' = "none"
    /\ UNCHANGED <<pc, sessionVars, asked, userVars, inbox>>

\* What can fail before the first wait; the connect of a stream is one.
InitFailure == [tcp |-> {"init_socket_fail"},
                udp |-> {"init_socket_fail", "init_connection_fail",
                         "init_udp_send_up_fail"}]

\* connectSocket, and for UDP the request.
EnterAddress(line) ==
    /\ Reads(line)
    /\ state = "address_input" /\ line = "address"
    /\ \/ /\ session = "tcp"
          /\ pc' = "connect"
          /\ sent' = {} /\ said' = "none"
          /\ UNCHANGED <<sessionVars, asked, inbox>>
       \/ /\ session = "udp"
          /\ pc' = "init"
          /\ open' = TRUE
          /\ sent' = Message("req_connstart", "none")
          /\ said' = "none"
          /\ UNCHANGED <<state, session, watched, asked, inbox>>
       \/ \E report \in InitFailure[session] : Leave({}, report)
    /\ UNCHANGED userVars

\* connect of the stream returns.
Connected ==
    /\ pc = "connect"
    /\ \/ /\ pc' = "select"
          /\ state' = "connected"
          /\ open' = TRUE /\ watched' = TRUE
          /\ sent' = {} /\ said' = "init_success"
          /\ UNCHANGED <<session, asked, inbox>>
       \/ Leave({}, "init_connection_fail")
    /\ UNCHANGED userVars

\* A message goes out, or send fails.
Ask(line) ==
    /\ Reads(line)
    /\ state = "connected" /\ line # ""
    /\ \/ /\ pc' = "answer"
          /\ asked' = line
          /\ sent' = Message("client_msg", line)
          /\ said' = "none"
          /\ UNCHANGED <<sessionVars, inbox>>
       \/ Leave(Farewell, "proceed_msg_send_fail")
    /\ UNCHANGED userVars

\* sendMessage copies the line over the end of its buffer.  That is undefined:
\* here the process dies, in Ask it goes on.
Overrun(line) ==
    /\ Reads(line)
    /\ state = "connected" /\ line = "long"
    /\ pc' = "abort"
    /\ sent' = {} /\ said' = "none"
    /\ UNCHANGED <<sessionVars, asked, userVars, inbox>>

-----------------------------------------------------------------------------
(* Answers: the second half of init, sendConnup and proceed *)

\* SessionUdp::init closes the socket itself when it fails: no goodbye.
InitStatus(header) ==
    CASE header = "accept_connstart" -> "init_success"
      [] header = "err_connstart"    -> "server_error"
      [] header = "server_msg"       -> "recv_wrong_length"
      [] header = "error"            -> "init_udp_recv_up_fail"
      [] OTHER                       -> "recv_wrong_header"

InitAnswered ==
    /\ pc = "init"
    /\ inbox # <<>>
    /\ IF InitStatus(Reply) = "init_success"
         THEN Connect /\ Receive /\ UNCHANGED <<session, open, asked>>
         ELSE Leave({}, InitStatus(Reply))
    /\ UNCHANGED userVars

ConnupStatus(header) ==
    CASE header = "server_connup" -> "connup_up"
      [] header = "server_msg"    -> "recv_wrong_length"
      [] header = "error"         -> "connup_timeout"
      [] OTHER                    -> "recv_wrong_header"

\* Mutant: any answer is taken for a sign of life.
ConnupIfAny ==
    /\ pc = "connup"
    /\ Receive
    /\ pc' = "select"
    /\ sent' = {} /\ said' = "connup_up"
    /\ UNCHANGED <<sessionVars, asked, userVars>>

ConnupAnswered ==
    /\ pc = "connup"
    /\ inbox # <<>>
    /\ IF ConnupStatus(Reply) = "connup_up"
         THEN /\ Receive
              /\ pc' = "select"
              /\ sent' = {} /\ said' = "connup_up"
              /\ UNCHANGED <<sessionVars, asked>>
         ELSE Leave(Farewell, ConnupStatus(Reply))
    /\ UNCHANGED userVars

\* Every message but server_msg is one byte long.
AnswerStatus(header) ==
    CASE header = "server_msg" -> "proceed_msg"
      [] header = "error"      -> "proceed_msg_recv_fail"
      [] OTHER                 -> "recv_wrong_length"

Answered ==
    /\ pc = "answer"
    /\ inbox # <<>>
    /\ IF AnswerStatus(Reply) = "proceed_msg"
         THEN /\ Receive
              /\ pc' = "select"
              /\ asked' = "none"
              /\ sent' = {} /\ said' = "proceed_msg"
              /\ UNCHANGED sessionVars
         ELSE Leave(Farewell, AnswerStatus(Reply))
    /\ UNCHANGED userVars

\* Mutant: a question without an answer does not end the session.
WaitFailsStays ==
    /\ pc \in {"init", "connup", "answer"}
    /\ inbox = <<>>
    /\ IF pc = "answer"
         THEN /\ pc' = "select" /\ asked' = "none" /\ sent' = {}
              /\ said' = "proceed_msg_recv_fail"
              /\ UNCHANGED <<sessionVars, inbox>>
         ELSE Leave(IF pc = "init" THEN {} ELSE Farewell, "connup_timeout")
    /\ UNCHANGED userVars

\* Mutant: an unanswered request is sent again.
WaitFailsRetries ==
    /\ pc \in {"init", "connup", "answer"}
    /\ inbox = <<>>
    /\ IF pc = "init"
         THEN /\ sent' = Message("req_connstart", "none") /\ said' = "none"
              /\ UNCHANGED <<pc, sessionVars, asked, inbox>>
         ELSE Leave(Farewell, "proceed_msg_recv_fail")
    /\ UNCHANGED userVars

\* recv returns -1: 15 seconds are over, or a signal has interrupted it.
WaitFails ==
    /\ pc \in {"init", "connup", "answer"}
    /\ inbox = <<>>
    /\ Leave(IF pc = "init" THEN {} ELSE Farewell,
             CASE pc = "init"   -> "init_udp_recv_up_fail"
               [] pc = "connup" -> "connup_timeout"
               [] pc = "answer" -> "proceed_msg_recv_fail")
    /\ UNCHANGED userVars

-----------------------------------------------------------------------------
(* The environment *)

\* SIGINT: onBreak writes to breakEventFd.  A second Ctrl+C before the first is
\* handled adds to the same counter.
RaiseBreak ==
    /\ pc \notin {"exit", "abort"}
    /\ breakIn' = (IF pc = "select" THEN state ELSE "call")
    /\ sent' = {} /\ said' = "none"
    /\ UNCHANGED <<pc, sessionVars, asked, eof, inbox>>

EndInput ==
    /\ ~eof /\ pc \notin {"exit", "abort"}
    /\ eof' = TRUE
    /\ sent' = {} /\ said' = "none"
    /\ UNCHANGED <<pc, sessionVars, asked, breakIn, inbox>>

\* Something reaches the socket; a full queue drops it.  A datagram socket
\* reports a pending error first.
Deliver(m) ==
    /\ open
    /\ Len(inbox) < MaxInbox
    /\ inbox' = IF session = "udp" /\ m.header = "error" THEN <<m>> \o inbox
                ELSE Append(inbox, m)
    /\ sent' = {} /\ said' = "none"
    /\ UNCHANGED <<pc, sessionVars, asked, userVars>>

\* What a socket of the session's kind can yield.
Possible == IF session = "udp" THEN ServerHeader \cup {"error"}
            ELSE {"server_msg", "incorrect_msg", "fin", "error"}

-----------------------------------------------------------------------------
\* Steps the program takes by itself ...
ProgramNext ==
    \/ Break \/ Unsolicited
    \/ Connected \/ InitAnswered \/ ConnupAnswered \/ Answered \/ WaitFails

\* ... and those that wait for the user, for his pausing, or for a failure.
UserNext ==
    \/ Idle \/ SelectFails \/ RaiseBreak \/ EndInput
    \/ \E line \in Line \cup {""} :
         \/ SelectProtocol(line) \/ RejectLine(line) \/ EnterAddress(line)
         \/ Ask(line) \/ Overrun(line)

ClientNext == ProgramNext \/ UserNext

Next ==
    \/ ClientNext
    \/ \E h \in Possible : Deliver([header |-> h, text |-> "none"])

Spec == Init /\ [][Next]_vars

\* The thread is scheduled, and every blocking call has a timeout of 15 seconds
\* (SO_RCVTIMEO, SO_SNDTIMEO).
FairSpec == Spec /\ WF_vars(ProgramNext)

-----------------------------------------------------------------------------
(* Properties *)

TypeOK ==
    /\ pc \in Waiting \cup {"select", "exit", "abort"}
    /\ state \in {"protocol_selection", "address_input", "connected"}
    /\ session \in {"none", "udp", "tcp"}
    /\ open \in BOOLEAN /\ watched \in BOOLEAN /\ eof \in BOOLEAN
    /\ asked \in Line \cup {"none"}
    /\ breakIn \in {"none", "protocol_selection", "address_input", "connected", "call"}
    /\ inbox \in Seq(Arrival)
    /\ sent \in SUBSET Departure
    /\ said \in Status \cup {"none", "select_failed"}

\* currentState, currentSession, its _socket and the loop's copy of it, kept by
\* four pieces of code, agree whenever one of them is used: select watches a
\* socket exactly in a connected session, where it is open; recv and send never
\* run on -1; the menu never loses a session.
SessionFitsState ==
    pc \notin {"exit", "abort"} =>
        /\ session = "none" <=> state = "protocol_selection"
        /\ watched <=> state = "connected"
        /\ open <=> state = "connected" \/ pc = "init"
        /\ pc \in {"connect", "init"} => state = "address_input"
        /\ pc \in {"connup", "answer"} => state = "connected"
        /\ asked # "none" <=> pc = "answer"

\* client_conndown is said exactly when a connected UDP session ends, whichever
\* of the exits of consoleLoop it ends by: the server need not wait for its
\* timer, and no session it never accepted is closed.
FarewellSaid ==
    session = "udp" /\ watched /\ session' = "none"
        <=> \E m \in sent' : m.header = "client_conndown"
FarewellExactly == [][FarewellSaid]_vars

\* One Ctrl+C does one thing: pressed while select waits in a connection it sets a
\* new one, and only in the menu it ends the program ("Press Ctrl+C to exit or set
\* new connection", client/main.cpp:24).  Pressed during a blocking call it does
\* both: it fails the call, which leads to the menu, and is still pending there.
ExitIsChosen ==
    [][ Break /\ pc' = "exit" => breakIn \in {"protocol_selection", "call"} ]_vars

\* Ctrl+C is handled in the end, whatever is awaited and whatever the server or
\* stdin keep sending, and the session is over then.
BreakIsHeard ==
    breakIn # "none" ~> \/ session = "none" /\ breakIn = "none"
                        \/ pc \in {"exit", "abort"}

\* Once the server stays silent and the user pauses, a UDP session ends: a dead
\* server is noticed by a question that gets no answer.
SilenceIsNoticed ==
    (WF_vars(Idle) /\ <>[]~eof /\ <>[][~\E m \in Arrival : Deliver(m)]_vars) =>
        (session = "udp" /\ watched ~> session = "none" \/ pc = "abort")
=============================================================================
