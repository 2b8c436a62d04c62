--------------------------- MODULE TcpStreamProof ---------------------------
(***************************************************************************)
(* TLAPS proofs about TcpStream, for all texts.                            *)
(***************************************************************************)
EXTENDS TcpStream, SequenceTheorems, TLAPS

Byte == {Client, Server, Wrong, "x"}

\* The inductive invariant: until a message is cut, at most one is under way, and
\* it is the question or its answer.
Idle     == asked = <<>> /\ up = <<>> /\ down = <<>>
Asking   == asked \in Text /\ up = <<Client>> \o asked /\ down = <<>>
Answered == asked \in Text /\ up = <<>> /\ down = <<Server>> \o asked
Inv == cut \in BOOLEAN /\ (~cut => Idle \/ Asking \/ Answered)

-----------------------------------------------------------------------------
(* Streams *)

LEMMA TextIs == ASSUME NEW t \in Text PROVE t \in Seq(Byte) /\ t # <<>> /\ Len(t) \in Nat \ {0}
<1>1. t \in Seq({Client, "x"}) /\ t # <<>>
  BY TextAssumption
<1>2. t \in Seq(Byte)
  BY <1>1 DEF Byte
<1>. QED  BY <1>1, <1>2, EmptySeq

\* A header and a text behind it.
LEMMA Framed ==
    ASSUME NEW h \in Byte, NEW t \in Text
    PROVE  LET s == <<h>> \o t
           IN /\ s \in Seq(Byte) /\ s # <<>> /\ Len(s) > 1
              /\ s[1] = h /\ Tail(s) = t
<1>. DEFINE s == <<h>> \o t
<1>1. t \in Seq(Byte) /\ Len(t) \in Nat \ {0} /\ <<h>> \in Seq(Byte) /\ Len(<<h>>) = 1
  BY TextIs
<1>2. /\ s \in Seq(Byte) /\ Len(s) = 1 + Len(t)
      /\ \A i \in 1 .. 1 + Len(t) : s[i] = IF i <= 1 THEN <<h>>[i] ELSE t[i - 1]
  BY <1>1, ConcatProperties
<1>3. s # <<>>
  BY <1>1, <1>2, EmptySeq
<1>4. /\ Tail(s) \in Seq(Byte) /\ Len(Tail(s)) = Len(s) - 1
      /\ \A i \in 1 .. Len(Tail(s)) : Tail(s)[i] = s[i + 1]
  BY <1>2, <1>3, HeadTailProperties
<1>5. \A i \in 1 .. Len(t) : Tail(s)[i] = t[i]
  BY <1>1, <1>2, <1>4
<1>6. Tail(s) = t
  BY <1>1, <1>2, <1>4, <1>5, SeqEqual
<1>. QED  BY <1>1, <1>2, <1>3, <1>6

\* A recv that leaves nothing behind.
LEMMA RestOfAll == ASSUME NEW s \in Seq(Byte) PROVE Rest(s, s) = <<>>
<1>1. Len(s) \in Nat /\ Len(s) + 1 > Len(s)
  OBVIOUS
<1>2. SubSeq(s, Len(s) + 1, Len(s)) = <<>>
  BY <1>1, SubSeqEmpty
<1>. QED  BY <1>2 DEF Rest

LEMMA ReplyToQuestion ==
    ASSUME NEW t \in Text PROVE Reply(<<Client>> \o t) = <<Server>> \o t
<1>1. Client \in Byte
  BY DEF Byte
<1>. QED  BY <1>1, Framed DEF Reply

-----------------------------------------------------------------------------
(* The steps *)

Shown == asked # <<>> /\ asked' = <<>> /\ ~cut' => shown' = asked

LEMMA AskStep == ASSUME Inv, NEW t \in Text, Ask(t) PROVE Inv' /\ Shown
<1>1. asked' = t /\ t # <<>> /\ asked = <<>> /\ down' = down /\ cut' = cut /\ up' = up \o <<Client>> \o t
  BY TextIs DEF Ask
<1>2. ASSUME ~cut PROVE Asking'
  <2>1. Idle
    BY <1>1, <1>2, TextIs DEF Inv, Asking, Answered
  <2>2. <<>> \o <<Client>> = <<Client>>
    <3>1. Client \in Byte
      BY DEF Byte
    <3>. QED  BY <3>1, <<Client>> \in Seq(Byte), ConcatEmptySeq
  <2>. QED  BY <1>1, <2>1, <2>2 DEF Idle, Asking
<1>. QED  BY <1>1, <1>2 DEF Inv, Shown

LEMMA ServeStep == ASSUME Inv, Serve PROVE Inv' /\ Shown
<1>1. PICK chunk \in Chunk(up) :
        /\ up' = Rest(up, chunk)
        /\ down' = down \o Reply(chunk)
        /\ cut' = (cut \/ chunk # up)
  BY DEF Serve
<1>2. asked' = asked
  BY DEF Serve
<1>3. ASSUME ~cut' PROVE Answered'
  <2>1. ~cut /\ chunk = up
    BY <1>1, <1>3
  <2>2. up # <<>>
    BY <1>1 DEF Chunk
  <2>3. Asking
    BY <2>1, <2>2 DEF Inv, Idle, Answered
  <2>4. Client \in Byte /\ Server \in Byte
    BY DEF Byte
  <2>5. up \in Seq(Byte) /\ <<Server>> \o asked \in Seq(Byte)
    BY <2>3, <2>4, Framed DEF Asking
  <2>6. up' = <<>>
    BY <1>1, <2>1, <2>5, RestOfAll
  <2>7. Reply(chunk) = <<Server>> \o asked
    BY <2>1, <2>3, ReplyToQuestion DEF Asking
  <2>8. down' = <<Server>> \o asked
    BY <1>1, <2>3, <2>5, <2>7, ConcatEmptySeq DEF Asking
  <2>. QED  BY <1>2, <2>3, <2>6, <2>8 DEF Asking, Answered
<1>4. cut' \in BOOLEAN
  BY <1>1
<1>. QED  BY <1>2, <1>3, <1>4 DEF Inv, Shown

LEMMA RecvStep == ASSUME Inv, Recv PROVE Inv' /\ Shown
<1>1. PICK chunk \in Chunk(down) :
        /\ down' = Rest(down, chunk)
        /\ cut' = (cut \/ chunk # down)
        /\ IF asked # <<>> /\ Len(chunk) > 1 /\ chunk[1] = Server
             THEN shown' = Tail(chunk) /\ asked' = <<>> /\ UNCHANGED open
             ELSE open' = FALSE /\ UNCHANGED <<asked, shown>>
  BY DEF Recv
<1>2. up' = up
  BY DEF Recv
<1>3. ASSUME ~cut' PROVE Idle' /\ shown' = asked
  <2>1. ~cut /\ chunk = down
    BY <1>1, <1>3
  <2>2. down # <<>>
    BY <1>1 DEF Chunk
  <2>3. Answered
    BY <2>1, <2>2 DEF Inv, Idle, Asking
  <2>4. /\ down \in Seq(Byte) /\ Len(down) > 1 /\ down[1] = Server /\ Tail(down) = asked
        /\ asked # <<>>
    BY <2>3, Framed, TextIs DEF Answered, Byte
  <2>5. down' = <<>>
    BY <1>1, <2>1, <2>4, RestOfAll
  <2>. QED  BY <1>1, <1>2, <2>1, <2>3, <2>4, <2>5 DEF Answered, Idle
<1>4. cut' \in BOOLEAN
  BY <1>1
<1>. QED  BY <1>3, <1>4 DEF Inv, Shown

LEMMA StepHolds == Inv /\ [Next]_vars => Inv' /\ [Shown]_vars
<1> SUFFICES ASSUME Inv, [Next]_vars PROVE Inv' /\ [Shown]_vars
  OBVIOUS
<1>1. CASE GiveUp
  BY <1>1 DEF GiveUp, Inv, Idle, Asking, Answered, Shown
<1>2. CASE UNCHANGED vars
  BY <1>2 DEF vars, Inv, Idle, Asking, Answered
<1>. QED  BY <1>1, <1>2, AskStep, ServeStep, RecvStep DEF Next

LEMMA InvHolds == Spec => []Inv
<1>1. Init => Inv
  BY DEF Init, Inv, Idle
<1>. QED  BY <1>1, StepHolds, PTL DEF Spec

\* Until a message is cut, a client that may ask again has left nothing behind.
THEOREM StaysInStep == Spec => []InStep
<1>1. Inv => InStep
  BY TextIs DEF Inv, Idle, Asking, Answered, InStep
<1>. QED  BY <1>1, InvHolds, PTL

\* Until a message is cut, every answer is the answer to the whole question.
THEOREM AnswersAreWhole == Spec => AnswerIsWhole
<1>1. [Shown]_vars => [asked # <<>> /\ asked' = <<>> /\ ~cut' => shown' = asked]_vars
  BY DEF Shown
<1>. QED  BY <1>1, StepHolds, InvHolds, PTL DEF Spec, AnswerIsWhole
=============================================================================
