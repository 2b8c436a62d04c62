# A verification of Simple_ClientServer

TLA+ modules that model the server, the client, the two of them over a network,
and the computation of the answers; TLC configurations that check them on small
instances; and TLAPS proofs for every number of sessions, peers, ports and lines, every text
and every duration. File and line numbers refer to `src/`.

## 1. The system

The program is a console client and an event-driven server that exchange text
messages over TCP or UDP (port 35830). For a text with numbers the server
returns their sum, otherwise the text itself.

### Components

| Component | Code | State | Operations | Correct when |
|---|---|---|---|---|
| Event loop | `server/Server.cpp` | master sockets, epoll, `slaveSocketsMap`, `slavesForRemove`, `stopEventHappened` | start-up, `epoll_wait`, stop event, `initSession`, `proceed` and the switch over its status, deferred deletion, shutdown | no event reaches a destroyed session; every session is owned, watched and finally destroyed; nothing leaks; it never blocks on one peer; SIGINT ends it |
| UDP session | `server/SessionUdp.cpp` | `_socket`, `timerfd`, `isTimeout` | `init` (timer, bind, connect), `proceed`, `timerReset`, destructor | a silent client is dropped after 15 s and a live one is not; the client hears how its session ended |
| TCP session | `server/SessionTcp.cpp` | `_socket` | `init`, `proceed` | every message gets an answer; the end of the stream ends the session |
| Session bases | `simple_lib/src/Session.cpp`, `server/SessionServer.cpp` | `_socket`, `epollfd` | `sessionClose`, `sendMessage` | a closed socket has left epoll; the message fits its buffer |
| Headers, statuses | `simple_lib/common.h`, `server/session_result.h` | – | – | both sides agree on them |
| Answer | `server/message.cpp` | – | `proceedMsg` | the sum is right, or an error is reported |
| Server process | `server/main.cpp` | `stopEventFd` | `initStop`, `raiseStop` from the SIGINT handler | a signal at any moment stops the server once |
| `set_nonblock` | `simple_lib/src/common.cpp` | – | – | the descriptor does not block |
| Client console | `client/MainConsole.cpp` | `currentState`, `currentSession`, `breakEventFd` | the `select` loop, `switchState` | each state uses a live session; Ctrl+C does one thing |
| Client sessions | `client/Session*.cpp` | `_socket` | `init`, `proceed`, `sendConnup` | an answer belongs to its question |
| Client process | `client/main.cpp` | – | SIGINT handler | – |

### Interaction

- The loop owns the sessions through `slaveSocketsMap` and calls `init`,
  `proceed` and the destructor. A session answers with a `session_status`; only
  the loop's switch (`Server.cpp:358-435`) turns it into a mark in
  `slavesForRemove`, and only after the batch is a marked session deleted (448).
- Sessions put themselves into the loop's epoll: the socket of both kinds and,
  for UDP, the timer, all level-triggered, with the session's address as
  `data.ptr`. One session can therefore have two events in one batch. The master
  sockets are edge-triggered.
- The UDP master and all UDP session sockets share one port. The kernel gives a
  datagram to the socket connected to its sender, else to an unconnected one.
- SIGINT writes to `stopEventFd`, which epoll reports like any other event.
- The client polls its one session with `select`, keeps a UDP session alive with
  `client_connup` every idle 5 seconds, and waits for answers in a blocking
  `recv` of at most 15 seconds.

### What is hard

There are no threads, so the hard part is the order of events: what is in one
batch together, what arrives between `epoll_wait` and the handler or between
`bind` and `connect`, what expires while something else is queued, which step of
a handshake or of start-up fails, and at which of these moments SIGINT arrives.
`PROJECT.json` lists the hazards one by one, each at its line, with the
properties that would catch it.

## 2. The modules

| Module | What it is |
|---|---|
| `Protocol` | headers, classes of input, the groups of `session_status`, the farewell of `~SessionUdp` |
| `Server` | the server's state machine: loop, sessions, kernel objects, environment; its properties |
| `ServerInductive` | the inductive invariant `IInv`, in named parts |
| `SessionContract` | abstract specification: what the server promises about sessions |
| `ServerRefinement` | the refinement mapping and `ImplementsContract` |
| `Client` | the console's state machine: the `select` loop, its one session, the user, Ctrl+C |
| `UdpSystem` | `Server` and `Client` over a network that loses and reorders |
| `UdpSystemInductive` | the inductive invariant `SysInv`; its part `NetInv` is what relates the two programs |
| `KeepAlive` | the clocks of one UDP session: the server's timer against the client's `select` |
| `Message` | `proceedMsg`: the search, `std::stoi`, the sum in an `int` |
| `TcpStream` | a client and its session on a byte stream that may be cut anywhere |
| `MCServer`, `MCClient`, `MCUdpSystem`, `MCMessage`, `MCTcpStream` | choices of traffic, lines, texts, symmetry and constraints for TLC |
| `ServerProof`, `ServerRefinementProof`, `ClientProof`, `UdpSystemProof`, `KeepAliveProof`, `MessageProof`, `TcpStreamProof` | the proofs |

### How `Server` corresponds to the code

- **Atomicity.** The process has one thread, so each handler (one pass through
  the `for` loop at `Server.cpp:316`) is one action. The exception is the UDP
  handshake: `AcceptUdp`, `BindUdp`, `ConnectUdp` are three actions, because the
  kernel delivers to a socket that is bound and not yet connected.
- **The loop.** `pc` is the loop's position. `WaitEvents` takes a batch of ready
  descriptors; the events of a batch are then handled in any order, since epoll
  promises none. With more ready descriptors than `MaxEvents` any subset of
  that size is the batch.
- **Sessions.** An `Address` is a heap address: `kind[a]` says what lives there.
  After `delete` the address is free and may be used again by another session,
  so stale pointers are visible. The number of addresses stands for the limit
  on descriptors and memory.
- **`slaves` and `remove`** are `slaveSocketsMap` and `slavesForRemove`.
- **`epoll`, `edge`, `events`** are the interest list, the pending edges of the
  masters and the rest of the current batch. `Ready` is the kernel's rule.
- **`rx`, `backlog`** are the kernel's queues, each entry with its sender and
  the class of its content. `out` is what the current step hands to `send`; it
  is kept for the properties. A status that depends on the outcome of `send`
  (`Answer`, `ConnupUdp`) has both outcomes.
- **Timers.** `armed` and `expired`; a timer expires at any time after it has
  been armed, and `client_connup` (`SessionUdp.cpp:236`) is the only thing that
  arms it again. An action that checks the timer reads it, as the code does
  with `timerfd_gettime`.
- **Failures.** Every system call whose failure the code handles can fail: the
  start-up steps (`CreateSockets`, `SetupFails`, `SetupEpoll`), `accept` and
  `recvfrom` (`ListenerFails`), the steps of a handshake (`DropTcp`,
  `RefuseUdp`, `AbandonUdp`), `timerfd_gettime` (`TimerFails`), `recv`
  (`RecvFails`, `SocketError`), `send`.
- **The end of a stream** is the last entry of `rx`, behind what the peer has
  still said. After an orderly end (`fin`) `recv` returns 0 and `send` still
  succeeds. A reset (`TcpResets`) is reported once, as `ECONNRESET`, by the first
  `recv` or `send` that meets it (`ReportReset`: logged, the session stays). What is
  left is a dead connection, and so is a stream that is reset after its orderly end:
  `recv` returns 0, `send` raises `SIGPIPE` (`BrokenPipe`).
- **Peers** are arbitrary: any of them may send anything in the traffic sets at
  any time, in any order and number. That includes lost, repeated and reordered
  datagrams of a proper client.
- `Throw` and `BrokenPipe` are the death of the process inside a handler: the
  exception of `std::stoi` that nobody catches, and `SIGPIPE`.

### How `Client` corresponds to the code

- **Atomicity.** One thread. A pass through the `while` loop of `consoleLoop` is
  one action, except where it blocks: `connect` of a stream and the three
  `recv`s (`init`, `sendConnup`, `proceed`). There the pass is cut in two and
  `pc` says what is awaited, because Ctrl+C and arrivals happen meanwhile.
- **What select finds** is looked at in the code's order: `Break` first
  (`MainConsole.cpp:125`, which is also where `EINTR` leads, the descriptor sets
  being unchanged), then the socket (`Unsolicited`, 169), then stdin
  (`Reads`, 210). `Idle` is select's timeout (144), possible only while nothing
  is readable.
- **Four copies of one fact.** `state`, `session`, `open` (`_socket`) and
  `watched` (`sessionSocket`) are `currentState`, `currentSession`, the
  session's descriptor and the loop's copy of it. `Leave` is
  `switchState(protocol_selection)` with the destructor inside it.
- **The user.** `breakIn` is `breakEventFd` together with where Ctrl+C was
  pressed; `eof` is a stdin that yields empty lines at once for ever. A line is
  one of the kinds the loop tells apart.
- **Output.** `sent` is what a step hands to `send`, `said` the
  `session_status` it reports.

### How `UdpSystem` composes them

`UdpSystem` extends `Server` and instantiates `Client`. `up` and `down` are the
datagrams under way; any of them may be lost (`Lose`) or be the next to arrive.
A step of the client or of the server leaves the other alone; delivery is a step
of the network together with `UdpArrives`, `UdpArrivesAtMaster` or `Deliver`.
Where no socket takes a datagram, its sender's socket gets an error, as
`ECONNREFUSED` does. A peer is a port: a new socket has one that nobody has had
before. The server may end and be started again at any time (`Restart`). With
`Strays` a datagram of another peer may land in a session socket between `bind`
and `connect`.

### `KeepAlive`, `Message`, `TcpStream`

- In `Server` and `Client` timers expire at any moment. `KeepAlive` has a
  discrete clock instead: the server's timer (`SessionUdp.cpp:200`, restarted at
  236 only), the wait of the client's `select` (`MainConsole.cpp:112`, started
  afresh after every line), a delay of at most `Delay` for a datagram each way,
  and at most `Burst` lines between two pauses of the user. The client may vanish
  without a word (`Vanish`); a session is to be dropped in that case only.
- `Message` is the `for` loop of `message.cpp:19`, one round per step, on texts
  of signs, the ten digits and `"x"` for any other character, with an `int` that
  reaches from `-Half` to `Half - 1`. Its properties use `Runs`, `Meaning` and
  `Sum`, which say what the numbers of a text are without a search, and read them
  from the right where `std::stoi` (`Value`) reads from the left.
- `TcpStream` keeps the bytes and forgets the calls of `send`, as TCP does. One
  of the bytes of a text is `0x48`, which is also the header `client_msg`, so
  that a remainder can look like a message.

## 3. The runs

| Run | Instance | Checks | Shows |
|---|---|---|---|
| `server_safe` | 2 addresses, 1 peer, both transports, 2 requests per listener | `TypeOK`, `EventsAreLive`, `NeverWaits`, `ClosedIsMarked`, `Watched`, `NoOrphan`, `NoLeakAtExit`, `IInv`, `MarkedIsFinal`, `ConndownOnlyAtStop`, `TimeoutIsReal`, `ImplementsContract` | ownership, marks, farewells and the contract survive every order of events |
| `server_live` | 2 addresses, 1 peer, `FairSpec` | `ExpiredReaped`, `InputIsRead`, `StopTerminates` | the server's progress |
| `server_wakes` | queues of 2, `FairSpec` | `WakesForRequests` (violated) | finding 1 |
| `server_aborts` | 1 address, TCP | `NeverAborts` (violated) | finding 2 |
| `client` | every kind of line, queue of 2, `FairSpec` | `TypeOK`, `SessionFitsState`, `FarewellExactly`, `ExitIsChosen`, `BreakIsHeard`, `SilenceIsNoticed` | the console is consistent, against a server that sends anything |
| `udp_safe` | 2 ports, 1 address, 2 datagrams each way | `NetInv`, `AnswerIsOwn`, `ProperClientNotBlamed` | answers belong to questions across reconnects and restarts, and why |
| `udp_live` | 2 ports, 1 address, 1 datagram each way, `SysFairSpec` | `GoneServerIsNoticed`, `LostClientIsReaped` | neither side stays alone in a session |
| `udp_stray` | as `udp_safe`, `Strays` | `AnswerIsOwn` (violated) | finding 3 |
| `keepalive_pause` | 5 s, 15 s, delay 1 s, 1 line between pauses | `Clock`, `ActiveIsKept` | only a client that is gone is dropped |
| `message_texts` | all texts of up to 5 characters, `int` up to 15 | `TypeOK`, `LoopInv`, `SumOfNumbers`, `EchoWithoutNumbers`, `ThrowsOnlyForNoInt` | the answer, for every way numbers can stand in a text |
| `message_sum` | the same | `AnswerIsTrueSum` (violated) | finding 4 |
| `tcp_stream` | all texts of up to 3 bytes, 5 bytes under way each way | `InStep`, `AnswerIsWhole` | what TCP clients may rely on |

Deadlock is not checked, since the programs really stop: the
server on SIGINT, the client on Ctrl+C, `proceedMsg` when it returns, a dropped
session.

### The bounds, and why they are enough

- *Two addresses* give two sessions in one batch, an address used again while
  the other session lives, and a full server. Each property is about one
  session, or one session and the loop. The proofs need no bound.
- *One peer* (`server_safe`, `server_live`): these properties do not tell peers
  apart, and the proofs are for any number. Two entries in the master's queue let
  one peer have two sessions.
- *`MaxEvents`* 3 makes batches smaller than the ready set happen; 7 in
  `server_live` is the number of descriptors, like `MAX_EVENTS_BUFFER` (10000)
  in practice: with a smaller buffer nothing would be promised about who is
  served.
- *`MaxRx`, `MaxBacklog`, `MaxInbox`* bound the kernel's queues; a full queue
  drops. An edge shared by two entries, which `NeverWaits` and
  `WakesForRequests` are about, needs a backlog of 2.
- *`MaxRx`* bounds what a peer says, not the end of its stream, so that a queue of
  1 can hold a message with the end behind it. `InputIsRead` is meant for `MaxRx`
  1: a queue of more would have to be found empty between two arrivals.
- The *traffic sets* hold the inputs a run's properties depend on; together the
  runs use all headers a client sends. `overflow_msg` is in `server_live`: both
  deaths of the process are steps of passing runs, and no property is excused by
  one, except the three of `server_live`, which say so.
- *`Line`* has one line of each kind: empty, `u`, `t`, an address, another text,
  and one that does not fit the buffer. In `UdpSystem` two of them double as
  messages with different texts.
- *Two ports, `MaxNet`*: a question from the first socket can be under way while
  the second socket asks, which is what a late answer needs; 2 datagrams each
  way let one overtake another. The server of these runs has one address, so
  that a session that has lost its client keeps the next one out until it is gone;
  the proofs are for any number, the old session beside the new one included.
- *Constraints of `UdpSystem`*. `Explored` stops where stdin has ended, where the
  client's Ctrl+C is pressed in the menu or during a blocking call, where the
  server's SIGINT comes anywhere but during `epoll_wait` or an event of its batch,
  and where the server has a UDP socket but no TCP socket, which nobody here would use;
  these moments are explored by `client` and `server_safe`. (A call that Ctrl+C
  interrupts fails, as it also does without; the program that ends next is, for the
  network, the menu.) `ExploredLive` also leaves out the
  client's Ctrl+C, which ends a session as a failed `recv` does. `View` leaves
  out the outputs `out`, `csent`, `csaid`, which no step reads; action
  properties are still evaluated on every step. `SymPeer` is sound because no
  action tells ports apart and the run has no liveness property.
- *`Half` 16*: an `int` ends at 15, so that of the digits 0, 1, 9 some
  one-digit sums and some two-digit numbers are too large and others are not.
  Five characters hold two numbers with a sign and a separator. The proofs are
  for all ten digits, all lengths and every `Half`.
- *`KeepAlive`* is proved for all durations; the run is one instance that
  satisfies `Timely` as tightly as the delays allow (14 < 15).

### Fairness

`FairSpec` of `Server` assumes weak fairness of `ServerNext` as a whole and
nothing else. The loop is the only thread of the process, and `NeverWaits`
(model-checked and proved) says that no handler can block on a receive, so it
keeps taking steps whenever it can. There is no fairness for a particular event:
`epoll_wait` may choose the order, and that it serves every ready descriptor in a
batch is what `InputIsRead` needs and the buffer size gives. The environment owes
nothing: peers may fall silent, the timer of a session need not expire
(`ExpiredReaped` speaks of those that have).

`FairSpec` of `Client` assumes weak fairness of `ProgramNext` as a whole: the
thread is scheduled, and every blocking call ends, by `SO_RCVTIMEO` and
`SO_SNDTIMEO` (`SessionClient.cpp:33-37`) at the latest. What depends on the user
is stated where it is needed: `SilenceIsNoticed` and `GoneServerIsNoticed` hold
for a user who pauses for five seconds again and again (`WF` of `Idle`, of
`ClientPauses`) and whose stdin lasts (`<>[]~eof`). `LostClientIsReaped` holds
if time goes by (`WF` of `TimeGoesBy`). `SysFairSpec` is the fairness of the two
programs; the network and the operator owe nothing.

### Findings

1. **Requests wait for the next request** (`server_wakes`, `Server.cpp:194`).
   The masters are edge-triggered and `initSession` takes one request per event.
   Two requests that arrive before one `epoll_wait` share an event; the second
   stays queued while the loop sleeps, until someone else's request arrives, and
   from then on each request is served one arrival late.
2. **A number ends the server** (`server_aborts`, `message.cpp:25`). `std::stoi`
   throws `std::out_of_range` for a number that is no `int` (`99999999999`), and
   nothing catches it: all sessions are gone. The other way to the same state is
   `BrokenPipe` (`Session.cpp:41`): `send` without `MSG_NOSIGNAL` on a dead
   connection. With `TcpStreams` as its traffic the run ends there: a message, the
   orderly end and a reset are queued together, and the answer raises `SIGPIPE`. With
   messages only and `MaxRx` 2 it takes two messages before a reset; the first
   answer gets `ECONNRESET`, the second the signal.
3. **An answer to somebody else's message** (`udp_stray`, `SessionUdp.cpp:142`).
   Between `bind` and `connect` the session socket receives from anyone and keeps
   what it got. A late message of the client's previous socket is answered to
   the new one, which shows it as the answer to its first message. In the same
   window a stranger's request is answered with `incorrect_msg` to the client.
4. **A sum that is not the sum** (`message_sum`, `message.cpp:25`). `proceedMsg`
   adds in an `int`: `2147483647 1` is answered with `-2147483648`. The addition is
   undefined in C++ and wraps around in the build. `SumOfNumbers` therefore speaks of
   texts whose sums, from left to right, are ints, and for these the answer is right.

Other behaviour a reader of the code should know, met while modelling:

- Only `client_connup` restarts a session's timer (`SessionUdp.cpp:236`), and the
  client sends it only after five seconds without input (`MainConsole.cpp:144`): a
  user who types a line, empty or not, every four seconds is dropped after 15.
  `PausesKeepTheSession` says how busy a client may be.
- A line of more than 999 characters is copied over the end of the buffer of
  `sendMessage` (`Session.cpp:40`); a line of 1500 ends the client with SIGSEGV
  (`Overrun`).
- Ctrl+C during a blocking call fails the call, which leads to the menu, and is
  then found pending there, which ends the program; `ExitIsChosen` says that it
  does only one of the two everywhere else.
- `MainConsole.cpp:151` tests `connup_timeout` a second time; the message about
  the server's timeout is never printed, and `sendConnup` reports
  `recv_wrong_header` for it.
- A datagram that the network delivers twice shifts every later answer by one:
  nothing in an answer says what it answers (`SessionClient.cpp:98`).
- A client that comes back on the same port while the server still holds its
  session is told `incorrect_msg`; `UdpSystem` gives every socket a new port.
- A TCP message that arrives in two parts is answered as two
  (`SessionTcp.cpp:72`): `AnswerIsWhole` holds only until a message is cut.
- When stdin ends, or a writer delivers half a line to it (it is not blocking),
  `getline` returns an empty line at once for ever, `select` never times out and
  no sign of life is sent any more.
- `Server.cpp:474` shuts down the TCP master where the UDP one is meant
  (harmless, the descriptor is closed or -1 by then). With glibc `O_NONBLOCK` is
  not defined where `common.cpp` tests it, so the `ioctl` branch is compiled;
  where it is defined `set_nonblock` would set nothing.

## 4. What is proved

With TLAPS, for all values of the constants under their named assumptions:

- `Server`: `"main"` is no address (`AddressAssumption`), `NoPeer` is no peer
  (`PeerAssumption`), the traffic consists of inputs (`TrafficAssumption`), the
  bounds are natural numbers (`BoundAssumption`); the sets of addresses and peers
  need not even be finite.
- `Client`: lines are of the kinds the loop tells apart (`LineAssumption`).
- `UdpSystem`: those of `Server`; the bounds of the network are natural numbers
  (`NetAssumption`); the user does not choose TCP (`LineAssumption`: the module is
  about UDP). Its theorems have the hypothesis `~Strays`; without it
  `AnswerIsOwn` is false, which `udp_stray` shows.
- `KeepAlive`: durations are natural numbers (`TimeAssumption`).
- `TcpStream`: a text is not empty and holds no byte that is a server's header
  (`TextAssumption`).
- `Message`: an `int` has at least one negative value, and texts are sequences of
  characters (`MessageAssumption`).

| Module | Theorem | Says |
|---|---|---|
| `ServerProof` | `InductiveInvariant` | `Spec => []IInv` |
| | `TypeCorrectness`, `EventsStayLive`, `LoopNeverWaits`, `ClosedStaysMarked`, `KeptIsWatched`, `NoOrphanEver`, `ExitIsClean` | the server's state properties |
| | `MarksAreFinal`, `ConndownMeansStop`, `TimeoutsAreReal` | its action properties |
| `ServerRefinementProof` | `Refinement` | `Spec => ImplementsContract` |
| `ClientProof` | `ClientTypes`, `StateAndSessionAgree` | the client's state properties |
| | `FarewellsAreExact` | `client_conndown` exactly when a connected UDP session ends |
| | `BreakDoesOneThing` | Ctrl+C pressed while `select` waits in a connection leads to the menu and not out of the program (`ExitIsChosen`) |
| `UdpSystemProof` | `SystemInvariant` | `~Strays => (SysSpec => []SysInv)` |
| | `ProgramsAgree` | its part `NetInv`: a port asks for a session once, the question or its answer is in one place |
| | `AnswersAreOwn` | the answer shown is the answer to the message just sent |
| | `ProperClientIsNotBlamed` | the server never sends `incorrect_msg` to the client |
| `KeepAliveProof` | `ClockHolds` | the bound on the server's timer in every phase |
| | `PausesKeepTheSession` | `Timely => (Spec => []ActiveIsKept)` |
| `MessageProof` | `LoopInvariant` | `Spec => []LoopInv` |
| | `MessageTypes`, `AnswerIsTheSum`, `EchoIsExact`, `ThrowIsForNoInt` | what `proceedMsg` answers, for every text |
| `TcpStreamProof` | `StaysInStep`, `AnswersAreWhole` | until a message is cut, nothing is left over between messages, and every answer is the answer to the whole question |

**The argument for the server.** No safety property is inductive by itself. That an event of the
batch points at a live session (`EventsAreLive`) needs that epoll holds only
descriptors of live sessions, which needs that a socket is registered exactly
while it is connected (`SocketIsWatched`), a timer exactly while its session
exists (`TimerIsSessions`), and that the only session outside `slaveSocketsMap`
is the one `initSession` is working on, which exists only between two handlers
(`FreshInInit`). That a mark is never taken back (`MarkedIsFinal`) needs to know
*why* a session is marked: its socket is closed, and then every later event is
ignored (`SessionUdp.cpp:183`), or it has timed out, and then every later event
sees the expired timer before it reaches `recv` and the `erase` at
`Server.cpp:363` is out of reach (`MarkedHasReason`, `TimeoutIsMarked`). That no
handler meets an empty queue needs a count: a pending edge and an undelivered
event of the same master stand for two entries (`EdgesAreBacked`).
`server_safe` checks the conjunction; each part is proved in `ServerProof`
action by action.

**The refinement.** A session of the contract is an address in `slaves`; it is
serving until it is in `remove`, leaving from then on, and late while it is
leaving with its socket open. The mapping needs no history variables. Every
handler maps to one step: `AcceptTcp` and `ConnectUdp` admit, the ending statuses
dismiss or expire, `TimerFails` on a session that has already timed out is
`FailLate`, `EndBatch` settles, `CloseSessions` shuts down, `Throw` and `BrokenPipe`
crash, and everything else serves. The proof uses `IInv` and one lemma per kind of step.

**The argument for the client.** `TypeOK` and `SessionFitsState` support each
other and are inductive together. The steps are of three kinds, and each kind has
its lemmas: those that leave a session (`LeaveKeeps`, `DropSays`), those that
fail before there is one to take leave of (`DropSilent`), and those that keep it
(`KeepSays`). `FarewellExactly` follows step by step from the invariant: the
destructor finds the socket open exactly in a connected session or in a request
under way, and `init` closes the latter itself. `ExitIsChosen` relates the end of
the program to the moment Ctrl+C was pressed, so it needs `Pending`: a break that was
pressed while `select` waits in a connection is still pending there, nothing is done
before it.

**The argument for `UdpSystem`.** A datagram does not say what it answers
(`AnswerIsOwn`), so the proof is about where things can be.
A new socket has a port that nobody knows (`KnownPorts`), hence nothing under way
or queued can be meant for it. From then on its one request is under way, or in
the master's queue, or has become the one session the port will ever have
(`RequestOnce`); that a session never finds a request in its queue is also why
nothing is ever judged incorrect (`ProperClientNotBlamed`). The one question of the
connection, or its one answer, is in at most one of four places: under way, in a
session's queue, under way back, in the client's queue (`QuestionOnce`), and
carries the text that was asked (`QuestionIsAsked`). The client gives up a
question only together with the socket, so an answer that comes late meets a port
that is no more.

`udp_safe` checks `NetInv`; the other two parts of `SysInv`, what each program keeps
by itself, are checked by `server_safe` and `client`.

The steps of the client fall into five effects (it opens a socket, asks, takes the
answer, goes on, closes), and those of the server into three (a queue shrinks from
its front, a request becomes a session, a question becomes its answer); each
effect has its lemmas, the actions are only sorted into them. The steps of the
server are steps of `Server`, so `IInv` is taken over from `ServerProof`; that
`SessionFitsState` holds in the composition is proved again, because tlapm does not
use the theorems of an instance. The queues keep order but drop when full, and the
network loses and reorders; neither adds anything, which is all the proof needs.

**The argument for `proceedMsg`.** `LoopInv` says that the numbers before the
iterator, and nothing else, have been summed, and that the iterator cuts no number
in two. A round keeps it because a match that begins at the start or behind a run of
digits is the next maximal run, with the sign before it if there is one (`MatchIs`);
because reading digits from the left and adding up powers of ten from the right
give the same (`HornerIs`); and because reducing to an `int` after every addition
gives the same as doing it once, and nothing where the sum is one (`ToIntIs`).
That is how `SumOfNumbers` follows. This needs induction over the length
of a text. The prover cannot instantiate the library's induction theorems, which
take an operator; `MessageProof` derives from well-foundedness a first-order form of
them (`Induction`: a set of numbers that contains 0 and every successor is `Nat`;
`Recursion`: a function that is defined by recursion exists).

**The argument for the keep-alive.** `ActiveIsKept` is not inductive; `Clock`
bounds the timer in each phase by `typed * Round` and the age of the phase.
A line costs at most one round: the wait before it, its way to the server and
the answer's way back. Under `Timely` every bound lies below `Timeout`, so
`Expire` is not enabled while the client is there. The products are kept behind three lemmas, the rest
is linear.

**The argument for the TCP stream.** Until a message is cut, at most one is under
way, whole: the question or its answer (`Idle`, `Asking`, `Answered`). A `recv` that
takes less than what is there is a cut, so until then each one takes exactly one
message, and the facts needed are about a header in front of a text (`Framed`).

**Only model-checked:** the liveness properties (fairness and `ENABLED` are
outside the prover's reach), those of `UdpSystem` included, and the refuted
statements. Every safety property that a passing run checks is also proved.

## 5. What is not modelled

- Repeated datagrams, and a port used again by the client (see the findings):
  `AnswerIsOwn` and `ProperClientNotBlamed` need that neither happens.
- Several clients in `UdpSystem`, and a TCP client together with the whole
  server: the server's properties are for arbitrary peers, and sessions share
  only the loop.
- What a message that arrives damaged does to the client beyond ending its
  session; what follows after `sendMessage` has overwritten the stack.
- Real time other than in `KeepAlive`; log output, errno values, terminal
  attributes, address formatting, build files.
- `initStop`, `initBreak` and the set-up in both `main.cpp`: they run before
  anything concurrent and end the process when they fail.
- `epoll_wait` returning -1: the iteration changes nothing.
- The end of idle TCP sessions: there is none in the code.

## 6. Plan

Done, in this order: `Protocol`, `Server` with its safety and liveness runs,
`ServerInductive` and `ServerProof`, `SessionContract`, `ServerRefinement` and
`ServerRefinementProof`; `Client` and `ClientProof`, `UdpSystem`, `KeepAlive` and
`KeepAliveProof`, `Message`, `TcpStream` and `TcpStreamProof`;
`UdpSystemInductive` and `UdpSystemProof`, `MessageProof`. Worth doing next:

1. An abstract request/answer service that `UdpSystem` implements under fresh
   ports: a mapping that needs no more than `SysInv`.
2. `UdpSystem` with two clients; `KnownPorts` and `RequestOnce` already speak of
   every port.
