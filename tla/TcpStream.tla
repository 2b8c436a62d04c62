----------------------------- MODULE TcpStream -----------------------------
(***************************************************************************)
(* One client and its session over TCP.  A message has no length: it is    *)
(* what one recv returns, on either side.  TCP keeps bytes and their       *)
(* order, not the cuts between calls of send: recv may return the first    *)
(* part of what was sent, and what follows comes later.  cut says that it  *)
(* has happened, and the properties say what holds until it does.          *)
(*                                                                         *)
(* A text is a sequence of bytes without numbers, so its answer is the     *)
(* text itself (see Message for the others).  One of the bytes is 0x48,    *)
(* "H", which is also the header client_msg.                               *)
(***************************************************************************)
EXTENDS Naturals, Sequences

CONSTANTS
    Text,      \* what the user types
    MaxStream  \* bound on the bytes under way in one direction

\* The headers client_msg, server_msg and incorrect_msg, as bytes: 0x48, 0x28
\* and 0xA8, which is no letter.
Client == "H"
Server == "("
Wrong  == "0xA8"

ASSUME TextAssumption == MaxStream \in Nat /\ \A t \in Text : t \in Seq({Client, "x"}) /\ t # <<>>

VARIABLES
    asked,     \* the text whose answer is awaited; <<>>: the client is in select
    up, down,  \* the bytes under way
    shown,     \* the answer the client has just printed
    open,      \* the session exists
    cut        \* some recv has left part of the stream behind

vars == <<asked, up, down, shown, open, cut>>

Init ==
    /\ asked = <<>>
    /\ up = <<>> /\ down = <<>>
    /\ shown = <<>>
    /\ open = TRUE
    /\ cut = FALSE

\* What one recv may take from a stream.
Chunk(stream) == {SubSeq(stream, 1, n) : n \in 1 .. Len(stream)}

Rest(stream, chunk) == SubSeq(stream, Len(chunk) + 1, Len(stream))

\* Mutant: the answer carries the header of the message.
ReplyWithHeader(chunk) ==
    IF Len(chunk) <= 1 THEN <<Wrong>>
    ELSE IF chunk[1] # Client THEN <<Wrong>>
    ELSE <<Server>> \o chunk

\* What SessionTcp::proceed answers to a chunk.
Reply(chunk) ==
    IF Len(chunk) <= 1 THEN <<Wrong>>
    ELSE IF chunk[1] # Client THEN <<Wrong>>
    ELSE <<Server>> \o Tail(chunk)

\* select has seen nothing of what is under way and takes the user's line;
\* MaxStream bounds the streams, here and in Serve.
Ask(t) ==
    /\ open /\ asked = <<>>
    /\ Len(up) + 1 + Len(t) <= MaxStream
    /\ asked' = t
    /\ up' = up \o <<Client>> \o t
    /\ UNCHANGED <<down, shown, open, cut>>

Serve ==
    /\ \E chunk \in Chunk(up) :
         /\ Len(down) + Len(Reply(chunk)) <= MaxStream
         /\ up' = Rest(up, chunk)
         /\ down' = down \o Reply(chunk)
         /\ cut' = (cut \/ chunk # up)
    /\ UNCHANGED <<asked, shown, open>>

\* The client's recv.  An awaited answer has at least one byte behind the header
\* server_msg; anything else, awaited or not, ends the session.
Recv ==
    /\ open
    /\ \E chunk \in Chunk(down) :
         /\ down' = Rest(down, chunk)
         /\ cut' = (cut \/ chunk # down)
         /\ IF asked # <<>> /\ Len(chunk) > 1 /\ chunk[1] = Server
              THEN shown' = Tail(chunk) /\ asked' = <<>> /\ UNCHANGED open
              ELSE open' = FALSE /\ UNCHANGED <<asked, shown>>
    /\ UNCHANGED up

\* Mutant: a question without an answer does not end the session.
GiveUpStays ==
    /\ open /\ asked # <<>>
    /\ asked' = <<>>
    /\ UNCHANGED <<open, up, down, shown, cut>>

\* The answer takes longer than 15 seconds, even if it is under way by then.
GiveUp ==
    /\ open /\ asked # <<>>
    /\ open' = FALSE
    /\ UNCHANGED <<asked, up, down, shown, cut>>

Next ==
    \/ \E t \in Text : Ask(t)
    \/ Serve \/ Recv \/ GiveUp

Spec == Init /\ [][Next]_vars

-----------------------------------------------------------------------------
(* Properties *)

\* Until a message is cut, the answer the client prints is the answer to the whole
\* of what the user has typed: "otherwise it returns the same message"
\* (README.MD:24).  No question meets a remainder, no two share an answer.
AnswerIsWhole ==
    [][ asked # <<>> /\ asked' = <<>> /\ ~cut' => shown' = asked ]_vars

\* Until then, a client that is ready for the next message has left nothing of the
\* last one in the stream: no remainder of a question can meet the server, and no
\* remainder of an answer the client, as if it were a message.
InStep == open /\ asked = <<>> /\ ~cut => up = <<>> /\ down = <<>>
=============================================================================
