---------------------------- MODULE ClientProof ----------------------------
(***************************************************************************)
(* TLAPS proofs about Client, for every set of lines and every length of   *)
(* the receive queue.                                                      *)
(***************************************************************************)
EXTENDS Client, SequenceTheorems, TLAPS

\* The inductive invariant: the two state properties support each other.
Inv == TypeOK /\ SessionFitsState

\* The process exists.
Alive == pc \notin {"exit", "abort"}

-----------------------------------------------------------------------------
(* What the actions have in common *)

LEMMA EmptySeqType == <<>> \in Seq(Arrival)
OBVIOUS

\* The four pieces of state that belong to a session are given up together.
LEMMA LeaveKeeps ==
    ASSUME Inv, Alive, session # "none",
           NEW farewell \in SUBSET Departure, NEW report \in Status \cup {"none"},
           Leave(farewell, report),
           eof' \in BOOLEAN,
           breakIn' \in {"none", "protocol_selection", "address_input", "connected", "call"}
    PROVE  Inv'
<1>1. TypeOK'
  <2>1. inbox' \in Seq(Arrival)
    BY EmptySeqType DEF Leave, Drop
  <2>2. watched' \in BOOLEAN
    BY DEF Leave, Drop
  <2>3. sent' \in SUBSET Departure
    BY DEF Leave, Drop
  <2>. QED  BY <2>1, <2>2, <2>3 DEF Inv, TypeOK, Leave, Drop
<1>2. SessionFitsState'
  BY DEF Inv, SessionFitsState, Leave, Drop, Alive
<1>. QED  BY <1>1, <1>2 DEF Inv

\* The destructor says goodbye for a UDP socket that is open, and nothing else.
LEMMA FarewellIs ==
    /\ Farewell \in SUBSET Departure
    /\ (\E m \in Farewell : m.header = "client_conndown") <=> session = "udp" /\ open
<1>1. CASE session = "udp" /\ open
  <2>1. Farewell = {[header |-> "client_conndown", text |-> "none"]}
    BY <1>1 DEF Farewell, Message
  <2>2. [header |-> "client_conndown", text |-> "none"] \in Departure
    BY DEF Departure, ClientHeader
  <2>. QED  BY <1>1, <2>1, <2>2
<1>2. CASE ~(session = "udp" /\ open)
  BY <1>2 DEF Farewell
<1>. QED  BY <1>1, <1>2

\* Giving up with that farewell, outside of a handshake ...
LEMMA DropSays ==
    ASSUME Inv, Alive, pc # "init", Drop(Farewell)
    PROVE  FarewellSaid
BY FarewellIs DEF Inv, SessionFitsState, Alive, Drop, FarewellSaid

\* ... and without it, when no session was accepted.
LEMMA DropSilent ==
    ASSUME Inv, Alive, state = "address_input", Drop({})
    PROVE  FarewellSaid
BY DEF Inv, SessionFitsState, Alive, Drop, FarewellSaid

\* A step that keeps the session says no goodbye.
LEMMA KeepSays ==
    ASSUME session' = session \/ session = "none",
           \A m \in sent' : m.header # "client_conndown"
    PROVE  FarewellSaid
BY DEF FarewellSaid

LEMMA MessageIs ==
    ASSUME NEW header \in ClientHeader, NEW text \in Line \cup {"none"}
    PROVE  /\ Message(header, text) \in SUBSET Departure
           /\ \A m \in Message(header, text) : m.header = header
BY DEF Message, Departure

\* recv takes the first entry of the queue.
LEMMA ReplyIs ==
    ASSUME TypeOK, inbox # <<>>
    PROVE  Reply \in Received /\ Tail(inbox) \in Seq(Arrival)
<1>1. inbox \in Seq(Arrival) /\ inbox # <<>>
  BY DEF TypeOK
<1>2. Head(inbox) \in Arrival /\ Tail(inbox) \in Seq(Arrival)
  BY <1>1
<1>. QED  BY <1>2 DEF Reply, Arrival

-----------------------------------------------------------------------------
(* The loop *)

LEMMA BreakStep == ASSUME Inv, Break PROVE Inv' /\ FarewellSaid
<1>1. CASE state = "protocol_selection"
  <2>1. Inv'
    BY <1>1 DEF Break, Inv, TypeOK, SessionFitsState, sessionVars
  <2>2. FarewellSaid
    BY <1>1, KeepSays DEF Break, sessionVars
  <2>. QED  BY <2>1, <2>2
<1>2. CASE state # "protocol_selection"
  <2>1. session # "none" /\ Alive /\ Leave(Farewell, "none")
    BY <1>2 DEF Break, Inv, SessionFitsState, Alive
  <2>2. Inv'  BY <2>1, FarewellIs, LeaveKeeps DEF Break, Inv, TypeOK
  <2>3. FarewellSaid  BY <2>1, DropSays DEF Break, Leave
  <2>. QED  BY <2>2, <2>3
<1>. QED  BY <1>1, <1>2

LEMMA SelectFailsStep == ASSUME Inv, SelectFails PROVE Inv' /\ FarewellSaid
<1>1. Inv'
  BY FarewellIs, EmptySeqType DEF SelectFails, Drop, Inv, TypeOK, SessionFitsState, userVars
<1>2. FarewellSaid
  BY DropSays DEF SelectFails, Alive
<1>. QED  BY <1>1, <1>2

LEMMA UnsolicitedStep == ASSUME Inv, Unsolicited PROVE Inv' /\ FarewellSaid
<1>1. Alive /\ session # "none" /\ Leave(Farewell, UnsolicitedStatus(Reply))
  BY DEF Unsolicited, Inv, SessionFitsState, Alive
<1>2. UnsolicitedStatus(Reply) \in Status
  BY DEF UnsolicitedStatus, Status
<1>3. Inv'
  BY <1>1, <1>2, FarewellIs, LeaveKeeps DEF Unsolicited, Inv, TypeOK, userVars
<1>4. FarewellSaid
  BY <1>1, DropSays DEF Unsolicited, Leave
<1>. QED  BY <1>3, <1>4

LEMMA IdleStep == ASSUME Inv, Idle PROVE Inv' /\ FarewellSaid
<1>1. Alive /\ session # "none"
  BY DEF Idle, Alive
<1>2. CASE pc' = "connup"
  <2>1. /\ sent' = Message("client_connup", "none") /\ said' = "none"
        /\ UNCHANGED <<sessionVars, asked, inbox>>
    BY <1>2 DEF Idle, Leave
  <2>2. sent' \in SUBSET Departure /\ \A m \in sent' : m.header = "client_connup"
    BY <2>1, MessageIs DEF ClientHeader
  <2>3. Inv'
    BY <1>2, <2>1, <2>2 DEF Idle, Inv, TypeOK, SessionFitsState, Waiting, sessionVars, userVars
  <2>4. FarewellSaid
    BY <2>1, <2>2, KeepSays DEF sessionVars
  <2>. QED  BY <2>3, <2>4
<1>3. CASE Leave(Farewell, "proceed_msg_send_fail")
  <2>1. Inv'
    BY <1>1, <1>3, FarewellIs, LeaveKeeps DEF Idle, Inv, TypeOK, Status, userVars
  <2>2. FarewellSaid
    BY <1>1, <1>3, DropSays DEF Idle, Leave
  <2>. QED  BY <2>1, <2>2
<1>. QED  BY <1>2, <1>3 DEF Idle

LEMMA SelectProtocolStep ==
    ASSUME Inv, NEW line, SelectProtocol(line) PROVE Inv' /\ FarewellSaid
<1>1. Inv'
  BY DEF SelectProtocol, Reads, Inv, TypeOK, SessionFitsState, userVars
<1>2. FarewellSaid
  BY KeepSays DEF SelectProtocol, Reads, Inv, SessionFitsState
<1>. QED  BY <1>1, <1>2

LEMMA RejectLineStep ==
    ASSUME Inv, NEW line, RejectLine(line) PROVE Inv' /\ FarewellSaid
<1>1. Inv'
  BY DEF RejectLine, Reads, Inv, TypeOK, SessionFitsState, sessionVars, userVars
<1>2. FarewellSaid
  BY KeepSays DEF RejectLine, sessionVars
<1>. QED  BY <1>1, <1>2

LEMMA EnterAddressStep ==
    ASSUME Inv, NEW line, EnterAddress(line) PROVE Inv' /\ FarewellSaid
<1>1. Alive /\ session # "none" /\ session \in {"udp", "tcp"}
  BY DEF EnterAddress, Reads, Inv, TypeOK, SessionFitsState, Alive
<1>2. CASE session = "tcp" /\ pc' = "connect" /\ sent' = {} /\ said' = "none"
           /\ UNCHANGED <<sessionVars, asked, inbox>>
  <2>1. Inv'
    BY <1>2 DEF EnterAddress, Reads, Inv, TypeOK, SessionFitsState, Waiting, sessionVars, userVars
  <2>2. FarewellSaid
    BY <1>2, KeepSays DEF sessionVars
  <2>. QED  BY <2>1, <2>2
<1>3. CASE session = "udp" /\ pc' = "init" /\ open' = TRUE
           /\ sent' = Message("req_connstart", "none") /\ said' = "none"
           /\ UNCHANGED <<state, session, watched, asked, inbox>>
  <2>1. sent' \in SUBSET Departure /\ \A m \in sent' : m.header = "req_connstart"
    BY <1>3, MessageIs DEF ClientHeader
  <2>2. Inv'
    BY <1>3, <2>1 DEF EnterAddress, Reads, Inv, TypeOK, SessionFitsState, Waiting, userVars
  <2>3. FarewellSaid
    BY <1>3, <2>1, KeepSays
  <2>. QED  BY <2>2, <2>3
<1>4. ASSUME NEW report \in InitFailure[session], Leave({}, report)
      PROVE  Inv' /\ FarewellSaid
  <2>1. report \in Status
    BY <1>1, <1>4 DEF InitFailure, Status
  <2>2. Inv'
    BY <1>1, <1>4, <2>1, LeaveKeeps DEF EnterAddress, Inv, TypeOK, userVars
  <2>3. FarewellSaid
    BY <1>1, <1>4, DropSilent DEF EnterAddress, Leave
  <2>. QED  BY <2>2, <2>3
<1>. QED  BY <1>2, <1>3, <1>4 DEF EnterAddress

LEMMA AskStep ==
    ASSUME Inv, NEW line \in Line \cup {""}, Ask(line) PROVE Inv' /\ FarewellSaid
<1>1. Alive /\ session # "none" /\ pc = "select" /\ line \in Line
  BY DEF Ask, Reads, Inv, SessionFitsState, Alive
<1>2. CASE pc' = "answer"
  <2>1. /\ asked' = line /\ sent' = Message("client_msg", line) /\ said' = "none"
        /\ UNCHANGED <<sessionVars, inbox>>
    BY <1>2 DEF Ask, Leave
  <2>2. sent' \in SUBSET Departure /\ \A m \in sent' : m.header = "client_msg"
    BY <1>1, <2>1, MessageIs DEF ClientHeader
  <2>3. line # "none"
    BY <1>1, LineAssumption DEF Command
  <2>4. Inv'
    BY <1>1, <1>2, <2>1, <2>2, <2>3
    DEF Ask, Inv, TypeOK, SessionFitsState, Waiting, sessionVars, userVars
  <2>5. FarewellSaid
    BY <2>1, <2>2, KeepSays DEF sessionVars
  <2>. QED  BY <2>4, <2>5
<1>3. CASE Leave(Farewell, "proceed_msg_send_fail")
  <2>1. Inv'
    BY <1>1, <1>3, FarewellIs, LeaveKeeps DEF Ask, Inv, TypeOK, Status, userVars
  <2>2. FarewellSaid
    BY <1>1, <1>3, DropSays DEF Leave
  <2>. QED  BY <2>1, <2>2
<1>. QED  BY <1>2, <1>3 DEF Ask

LEMMA OverrunStep == ASSUME Inv, NEW line, Overrun(line) PROVE Inv' /\ FarewellSaid
<1>1. Inv'
  BY DEF Overrun, Inv, TypeOK, SessionFitsState, sessionVars, userVars
<1>2. FarewellSaid
  BY KeepSays DEF Overrun, sessionVars
<1>. QED  BY <1>1, <1>2

-----------------------------------------------------------------------------
(* The end of a wait *)

LEMMA ConnectedStep == ASSUME Inv, Connected PROVE Inv' /\ FarewellSaid
<1>1. Alive /\ session # "none" /\ state = "address_input"
  BY DEF Connected, Inv, SessionFitsState, Alive
<1>2. CASE Leave({}, "init_connection_fail")
  <2>1. Inv'
    BY <1>1, <1>2, LeaveKeeps DEF Connected, Inv, TypeOK, Status, userVars
  <2>2. FarewellSaid
    BY <1>1, <1>2, DropSilent DEF Leave
  <2>. QED  BY <2>1, <2>2
<1>3. CASE ~Leave({}, "init_connection_fail")
  <2>1. Inv'
    BY <1>1, <1>3 DEF Connected, Inv, TypeOK, SessionFitsState, Status, userVars
  <2>2. FarewellSaid
    BY <1>3, KeepSays DEF Connected
  <2>. QED  BY <2>1, <2>2
<1>. QED  BY <1>2, <1>3

LEMMA InitAnsweredStep == ASSUME Inv, InitAnswered PROVE Inv' /\ FarewellSaid
<1>1. Alive /\ session # "none" /\ state = "address_input" /\ open
  BY DEF InitAnswered, Inv, SessionFitsState, Alive
<1>2. CASE InitStatus(Reply) = "init_success"
  <2>1. Connect /\ Receive /\ UNCHANGED <<session, open, asked>> /\ UNCHANGED userVars
    BY <1>2 DEF InitAnswered
  <2>2. Inv'
    BY <1>1, <2>1, ReplyIs
    DEF InitAnswered, Connect, Receive, Inv, TypeOK, SessionFitsState, Status, userVars
  <2>3. FarewellSaid
    BY <2>1, KeepSays DEF Connect
  <2>. QED  BY <2>2, <2>3
<1>3. CASE InitStatus(Reply) # "init_success"
  <2>1. Leave({}, InitStatus(Reply))
    BY <1>3 DEF InitAnswered
  <2>2. InitStatus(Reply) \in Status
    BY DEF InitStatus, Status
  <2>3. Inv'
    BY <1>1, <2>1, <2>2, LeaveKeeps DEF InitAnswered, Inv, TypeOK, userVars
  <2>4. FarewellSaid
    BY <1>1, <2>1, DropSilent DEF Leave
  <2>. QED  BY <2>3, <2>4
<1>. QED  BY <1>2, <1>3

LEMMA ConnupAnsweredStep == ASSUME Inv, ConnupAnswered PROVE Inv' /\ FarewellSaid
<1>1. Alive /\ session # "none" /\ state = "connected" /\ pc = "connup"
  BY DEF ConnupAnswered, Inv, SessionFitsState, Alive
<1>2. CASE ConnupStatus(Reply) = "connup_up"
  <2>1. /\ Receive /\ pc' = "select" /\ sent' = {} /\ said' = "connup_up"
        /\ UNCHANGED <<sessionVars, asked>> /\ UNCHANGED userVars
    BY <1>2 DEF ConnupAnswered
  <2>2. Inv'
    BY <1>1, <2>1, ReplyIs
    DEF Receive, Inv, TypeOK, SessionFitsState, Status, sessionVars, userVars
  <2>3. FarewellSaid
    BY <2>1, KeepSays DEF sessionVars
  <2>. QED  BY <2>2, <2>3
<1>3. CASE ConnupStatus(Reply) # "connup_up"
  <2>1. Leave(Farewell, ConnupStatus(Reply))
    BY <1>3 DEF ConnupAnswered
  <2>2. ConnupStatus(Reply) \in Status
    BY DEF ConnupStatus, Status
  <2>3. Inv'
    BY <1>1, <2>1, <2>2, FarewellIs, LeaveKeeps DEF ConnupAnswered, Inv, TypeOK, userVars
  <2>4. FarewellSaid
    BY <1>1, <2>1, DropSays DEF Leave
  <2>. QED  BY <2>3, <2>4
<1>. QED  BY <1>2, <1>3

LEMMA AnsweredStep == ASSUME Inv, Answered PROVE Inv' /\ FarewellSaid
<1>1. Alive /\ session # "none" /\ state = "connected" /\ pc = "answer"
  BY DEF Answered, Inv, SessionFitsState, Alive
<1>2. CASE AnswerStatus(Reply) = "proceed_msg"
  <2>1. /\ Receive /\ pc' = "select" /\ asked' = "none" /\ sent' = {} /\ said' = "proceed_msg"
        /\ UNCHANGED sessionVars /\ UNCHANGED userVars
    BY <1>2 DEF Answered
  <2>2. Inv'
    BY <1>1, <2>1, ReplyIs
    DEF Receive, Inv, TypeOK, SessionFitsState, Status, sessionVars, userVars
  <2>3. FarewellSaid
    BY <2>1, KeepSays DEF sessionVars
  <2>. QED  BY <2>2, <2>3
<1>3. CASE AnswerStatus(Reply) # "proceed_msg"
  <2>1. Leave(Farewell, AnswerStatus(Reply))
    BY <1>3 DEF Answered
  <2>2. AnswerStatus(Reply) \in Status
    BY DEF AnswerStatus, Status
  <2>3. Inv'
    BY <1>1, <2>1, <2>2, FarewellIs, LeaveKeeps DEF Answered, Inv, TypeOK, userVars
  <2>4. FarewellSaid
    BY <1>1, <2>1, DropSays DEF Leave
  <2>. QED  BY <2>3, <2>4
<1>. QED  BY <1>2, <1>3

LEMMA WaitFailsStep == ASSUME Inv, WaitFails PROVE Inv' /\ FarewellSaid
<1>1. Alive /\ session # "none"
  BY DEF WaitFails, Inv, SessionFitsState, Alive
<1>2. CASE pc = "init"
  <2>1. Leave({}, "init_udp_recv_up_fail") /\ state = "address_input"
    BY <1>2 DEF WaitFails, Inv, SessionFitsState
  <2>2. Inv'
    BY <1>1, <2>1, LeaveKeeps DEF WaitFails, Inv, TypeOK, Status, userVars
  <2>3. FarewellSaid
    BY <1>1, <2>1, DropSilent DEF Leave
  <2>. QED  BY <2>2, <2>3
<1>3. CASE pc # "init"
  <2>1. PICK report \in Status : Leave(Farewell, report)
    BY <1>3 DEF WaitFails, Status
  <2>2. Inv'
    BY <1>1, <2>1, FarewellIs, LeaveKeeps DEF WaitFails, Inv, TypeOK, userVars
  <2>3. FarewellSaid
    BY <1>1, <1>3, <2>1, DropSays DEF Leave
  <2>. QED  BY <2>2, <2>3
<1>. QED  BY <1>2, <1>3

-----------------------------------------------------------------------------
(* The environment *)

LEMMA UserStep == ASSUME Inv, RaiseBreak \/ EndInput PROVE Inv' /\ FarewellSaid
<1>1. CASE RaiseBreak
  <2>1. breakIn' = (IF pc = "select" THEN state ELSE "call") /\ UNCHANGED <<pc, sessionVars, asked, eof, inbox>>
        /\ sent' = {} /\ said' = "none"
    BY <1>1 DEF RaiseBreak
  <2>2. TypeOK' /\ SessionFitsState'
    BY <2>1 DEF Inv, TypeOK, SessionFitsState, sessionVars
  <2>. QED  BY <2>1, <2>2, KeepSays DEF Inv, sessionVars
<1>2. CASE EndInput
  <2>1. eof' = TRUE /\ UNCHANGED <<pc, sessionVars, asked, breakIn, inbox>>
        /\ sent' = {} /\ said' = "none"
    BY <1>2 DEF EndInput
  <2>2. TypeOK' /\ SessionFitsState'
    BY <2>1 DEF Inv, TypeOK, SessionFitsState, sessionVars
  <2>. QED  BY <2>1, <2>2, KeepSays DEF Inv, sessionVars
<1>. QED  BY <1>1, <1>2

LEMMA DeliverStep ==
    ASSUME Inv, NEW m \in Arrival, Deliver(m) PROVE Inv' /\ FarewellSaid
<1>1. inbox \in Seq(Arrival) /\ (inbox' = <<m>> \o inbox \/ inbox' = Append(inbox, m))
  BY DEF Deliver, Inv, TypeOK
<1>2. inbox' \in Seq(Arrival)
  <2>1. CASE inbox' = <<m>> \o inbox
    BY <1>1, <2>1, <<m>> \in Seq(Arrival), ConcatProperties
  <2>2. CASE inbox' = Append(inbox, m)
    BY <1>1, <2>2, AppendProperties
  <2>. QED  BY <1>1, <2>1, <2>2
<1>3. UNCHANGED <<pc, sessionVars, asked, userVars>> /\ sent' = {} /\ said' = "none"
  BY DEF Deliver
<1>4. TypeOK' /\ SessionFitsState'
  BY <1>2, <1>3 DEF Inv, TypeOK, SessionFitsState, sessionVars, userVars
<1>. QED  BY <1>3, <1>4, KeepSays DEF Inv, sessionVars

-----------------------------------------------------------------------------
LEMMA InitHolds == Init => Inv
BY EmptySeqType DEF Init, Inv, TypeOK, SessionFitsState

LEMMA StepHolds == Inv /\ Next => Inv' /\ FarewellSaid
<1> SUFFICES ASSUME Inv, Next PROVE Inv' /\ FarewellSaid
  OBVIOUS
<1>1. CASE ProgramNext
  BY <1>1, BreakStep, UnsolicitedStep, ConnectedStep, InitAnsweredStep,
     ConnupAnsweredStep, AnsweredStep, WaitFailsStep DEF ProgramNext
<1>2. CASE UserNext
  BY <1>2, IdleStep, SelectFailsStep, UserStep, SelectProtocolStep, RejectLineStep,
     EnterAddressStep, AskStep, OverrunStep DEF UserNext
<1>3. ASSUME NEW h \in Possible, Deliver([header |-> h, text |-> "none"])
      PROVE  Inv' /\ FarewellSaid
  <2>1. [header |-> h, text |-> "none"] \in Arrival
    BY DEF Possible, Arrival, Received, ServerHeader
  <2>. QED  BY <1>3, <2>1, DeliverStep
<1>. QED  BY <1>1, <1>2, <1>3 DEF Next, ClientNext

\* A step that changes nothing keeps everything.
LEMMA StutterHolds == Inv /\ UNCHANGED vars => Inv'
BY DEF Inv, TypeOK, SessionFitsState, vars, sessionVars, userVars

LEMMA InvHolds == Spec => []Inv
<1>1. Inv /\ [Next]_vars => Inv'
  BY StepHolds, StutterHolds
<1>. QED  BY <1>1, InitHolds, PTL DEF Spec

\* A Ctrl+C that was pressed while select waited in a connection is still pending
\* there: nothing is done before it.
Pending ==
    breakIn \in {"address_input", "connected"} =>
        state = breakIn /\ pc \in {"select", "exit", "abort"}

LEMMA PendingStep == ASSUME Inv, Pending, Next PROVE Pending'
<1>1. CASE ProgramNext
  BY <1>1 DEF ProgramNext, Break, Unsolicited, Connected, InitAnswered, ConnupAnswered,
     Answered, WaitFails, Pending, Waiting, userVars
<1>2. CASE RaiseBreak
  BY <1>2 DEF RaiseBreak, Pending, sessionVars
<1>3. CASE SelectFails \/ EndInput
  BY <1>3 DEF SelectFails, EndInput, Pending, sessionVars, userVars
<1>4. CASE Idle
  BY <1>4 DEF Idle, Pending, userVars
<1>5. ASSUME NEW line,
             SelectProtocol(line) \/ RejectLine(line) \/ EnterAddress(line)
               \/ Ask(line) \/ Overrun(line)
      PROVE  Pending'
  BY <1>5 DEF SelectProtocol, RejectLine, EnterAddress, Ask, Overrun, Reads, Pending, userVars
<1>6. ASSUME NEW m, Deliver(m) PROVE Pending'
  BY <1>6 DEF Deliver, Pending, sessionVars, userVars
<1>. QED  BY <1>1, <1>2, <1>3, <1>4, <1>5, <1>6 DEF Next, ClientNext, UserNext

LEMMA ExitStep ==
    ASSUME Inv, Pending, Break, pc' = "exit"
    PROVE  breakIn \in {"protocol_selection", "call"}
<1>1. state = "protocol_selection"
  BY DEF Break, Leave
<1>2. breakIn # "none"
  BY DEF Break
<1>. QED  BY <1>1, <1>2 DEF Pending, Inv, TypeOK

LEMMA PendingHolds == Spec => []Pending
<1>1. Init => Pending
  BY DEF Init, Pending
<1>2. Pending /\ UNCHANGED vars => Pending'
  BY DEF Pending, vars, sessionVars, userVars
<1>3. Inv /\ Pending /\ [Next]_vars => Pending'
  BY <1>2, PendingStep
<1>. QED  BY <1>1, <1>3, InvHolds, PTL DEF Spec

-----------------------------------------------------------------------------
\* The variables of the console keep their types.
THEOREM ClientTypes == Spec => []TypeOK
<1>1. Inv => TypeOK
  BY DEF Inv
<1>. QED  BY <1>1, InvHolds, PTL

\* Menu state, session, socket and the loop's copy of the socket never
\* disagree, whatever arrives, fails or is typed and whenever Ctrl+C comes.
THEOREM StateAndSessionAgree == Spec => []SessionFitsState
<1>1. Inv => SessionFitsState
  BY DEF Inv
<1>. QED  BY <1>1, InvHolds, PTL

\* The server is told of the end of exactly those sessions it has accepted.
THEOREM FarewellsAreExact == Spec => FarewellExactly
<1>1. Inv /\ [Next]_vars => [FarewellSaid]_vars
  BY StepHolds
<1>. QED  BY <1>1, InvHolds, PTL DEF Spec, FarewellExactly

\* One Ctrl+C does one thing, unless it is pressed during a blocking call.
THEOREM BreakDoesOneThing == Spec => ExitIsChosen
<1>1. Inv /\ Pending /\ [Next]_vars
        => [Break /\ pc' = "exit" => breakIn \in {"protocol_selection", "call"}]_vars
  BY ExitStep
<1>. QED  BY <1>1, InvHolds, PendingHolds, PTL DEF Spec, ExitIsChosen
=============================================================================
