----------------------------- MODULE MCMessage -----------------------------
(***************************************************************************)
(* All texts of up to five characters; three digits stand for the ten.     *)
(* An int ends at 15: 19 is too much, and so is 9+9.                       *)
(***************************************************************************)
EXTENDS Message

SomeChar == Sign \cup {"0", "1", "9", "x"}
Texts == UNION {[1 .. n -> SomeChar] : n \in 1 .. 5}
=============================================================================
