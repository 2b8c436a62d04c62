--------------------------- MODULE KeepAliveProof ---------------------------
(***************************************************************************)
(* TLAPS proofs about KeepAlive, for all durations.                        *)
(***************************************************************************)
EXTENDS KeepAlive, TLAPS

-----------------------------------------------------------------------------
(* The products of the invariant, and the arithmetic they need *)

LEMMA RoundIs == Round \in Nat /\ Round = IdleTime + 2 * Delay
BY TimeAssumption DEF Round

LEMMA NoRounds == 0 * Round = 0
BY RoundIs

LEMMA OneMoreRound ==
    ASSUME NEW n \in Nat PROVE n * Round \in Nat /\ (n + 1) * Round = n * Round + Round
<1>1. \A r \in Nat : n * r \in Nat /\ (n + 1) * r = n * r + r
  OBVIOUS
<1>. QED  BY <1>1, RoundIs

\* Fewer lines, fewer rounds.
LEMMA RoundsGrow ==
    ASSUME NEW n \in Nat, NEW b \in Nat, n <= b PROVE n * Round <= b * Round
<1>1. \A r \in Nat : n * r <= b * r
  OBVIOUS
<1>. QED  BY <1>1, RoundIs

-----------------------------------------------------------------------------
LEMMA ClockInit == Init => Clock
<1> SUFFICES ASSUME Init PROVE Clock
  OBVIOUS
<1>1. TypeOK /\ typed <= Burst
  <2>1. gone \in BOOLEAN
    BY Zenon DEF Init
  <2>2. phase \in Phase /\ age = 0 /\ timer = 0 /\ typed = 0
    BY DEF Init, Phase
  <2>. QED  BY <2>1, <2>2, TimeAssumption DEF TypeOK
<1>2. phase = "connup_down" /\ age <= Limit /\ timer <= age /\ typed = 0
  BY TimeAssumption DEF Init, Limit
<1>. QED  BY <1>1, <1>2 DEF Clock

LEMMA ClockStep == Clock /\ [Next]_vars => Clock'
<1> SUFFICES ASSUME Clock, [Next]_vars PROVE Clock'
  OBVIOUS
<1>. DEFINE rounds == typed * Round
<1>0. /\ rounds \in Nat /\ age \in Nat /\ timer \in Nat /\ typed \in Nat
      /\ IdleTime \in Nat /\ Delay \in Nat /\ Burst \in Nat /\ Timeout \in Nat
  BY OneMoreRound, TimeAssumption DEF Clock, TypeOK
<1>. HIDE DEF rounds
<1>1. CASE Tick
  <2>1. rounds' = rounds
    BY <1>1 DEF Tick, rounds, Round
  <2>. QED  BY <1>0, <1>1, <2>1 DEF Tick, Clock, TypeOK, Limit, rounds
<1>2. CASE Expire
  BY <1>0, <1>2 DEF Expire, Enter, Clock, TypeOK, Phase
<1>v. CASE Vanish
  BY <1>v DEF Vanish, Clock, TypeOK
<1>3. CASE SendConnup
  <2>1. rounds' = rounds
    BY <1>3 DEF SendConnup, rounds, Round
  <2>. QED  BY <1>0, <1>3, <2>1 DEF SendConnup, Enter, Clock, TypeOK, Phase, Limit, rounds
<1>4. CASE SendMessage
  <2>1. rounds' = rounds + IdleTime + 2 * Delay
    BY <1>0, <1>4, OneMoreRound, RoundIs DEF SendMessage, rounds, Round
  <2>. QED  BY <1>0, <1>4, <2>1 DEF SendMessage, Enter, Clock, TypeOK, Phase, Limit, rounds
<1>5. CASE EmptyLine
  <2>1. rounds' = rounds + IdleTime + 2 * Delay
    BY <1>0, <1>5, OneMoreRound, RoundIs DEF EmptyLine, rounds, Round
  <2>. QED  BY <1>0, <1>5, <2>1 DEF EmptyLine, Enter, Clock, TypeOK, Phase, Limit, rounds
<1>6. CASE ServeConnup
  BY <1>0, <1>6 DEF ServeConnup, Enter, Clock, TypeOK, Phase, Limit
<1>7. CASE ServeMessage
  <2>1. rounds' = rounds
    BY <1>7 DEF ServeMessage, rounds, Round
  <2>. QED  BY <1>0, <1>7, <2>1 DEF ServeMessage, Enter, Clock, TypeOK, Phase, Limit, rounds
<1>8. CASE TakeAnswer
  <2>1. rounds' = rounds
    BY <1>8 DEF TakeAnswer, rounds, Round
  <2>. QED  BY <1>0, <1>8, <2>1, NoRounds DEF TakeAnswer, Enter, Clock, TypeOK, Phase, Limit, rounds
<1>9. CASE UNCHANGED vars
  BY <1>9 DEF vars, Clock, TypeOK, Limit, Round
<1>. QED  BY <1>1, <1>2, <1>v, <1>3, <1>4, <1>5, <1>6, <1>7, <1>8, <1>9 DEF Next

\* How long ago the server's timer was started is bounded, in every phase, by
\* the lines typed since: the client's select starts its wait afresh after
\* every line, and each costs at most one round (MainConsole.cpp:112).
THEOREM ClockHolds == Spec => []Clock
BY ClockInit, ClockStep, PTL DEF Spec

\* No round that the clock allows reaches the timeout.
LEMMA TimerIsEarly == Timely /\ Clock /\ ~gone /\ phase # "expired" => timer < Timeout
<1> SUFFICES ASSUME Timely, Clock, ~gone, phase # "expired" PROVE timer < Timeout
  OBVIOUS
<1>1. /\ Round \in Nat /\ Round = IdleTime + 2 * Delay
      /\ IdleTime \in Nat /\ Delay \in Nat /\ Burst \in Nat /\ Timeout \in Nat
  BY RoundIs, TimeAssumption
<1>2. typed \in Nat /\ age \in Nat /\ timer \in Nat /\ typed <= Burst /\ age <= Limit
  BY DEF Clock, TypeOK
<1>. DEFINE rounds == typed * Round
            most == Burst * Round
<1>3. rounds \in Nat /\ most \in Nat /\ rounds <= most /\ most + Round < Timeout
  BY <1>1, <1>2, OneMoreRound, RoundsGrow DEF Timely
<1>4. /\ phase = "select" => timer <= rounds + Delay + age
      /\ phase = "connup_up" => timer <= rounds + Delay + IdleTime + age
      /\ phase = "connup_down" => timer <= age
      /\ phase = "msg_up" => timer + Delay <= rounds + age
      /\ phase = "msg_down" => timer <= rounds + age
  BY DEF Clock
<1>. HIDE DEF rounds, most
<1>5. phase \in Phase
  BY DEF Clock, TypeOK
<1>. QED  BY <1>1, <1>2, <1>3, <1>4, <1>5 DEF Limit, Phase

\* A user who leaves the client alone for IdleTime after at most Burst lines,
\* early enough, is not dropped while it is there (SessionUdp.cpp:236 restarts the timer in time).
THEOREM PausesKeepTheSession == Timely => (Spec => []ActiveIsKept)
<1> SUFFICES ASSUME Timely PROVE Spec => []ActiveIsKept
  OBVIOUS
<1>1. Init => ActiveIsKept
  BY DEF Init, ActiveIsKept
<1>2. Clock /\ ActiveIsKept /\ [Next]_vars => ActiveIsKept'
  <2> SUFFICES ASSUME Clock, ActiveIsKept, [Next]_vars PROVE ActiveIsKept'
    OBVIOUS
  <2>1. ~gone /\ phase # "expired" => timer < Timeout
    BY TimerIsEarly
  <2>2. Expire => gone
    BY <2>1, TimeAssumption DEF Expire, Clock, TypeOK
  <2>. QED
    BY <2>2 DEF ActiveIsKept, Next, vars, Tick, Expire, Vanish, SendConnup, SendMessage,
       EmptyLine, ServeConnup, ServeMessage, TakeAnswer, Enter
<1>. QED  BY <1>1, <1>2, ClockHolds, PTL DEF Spec
=============================================================================
