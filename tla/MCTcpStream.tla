---------------------------- MODULE MCTcpStream ----------------------------
(***************************************************************************)
(* All texts of up to three bytes.                                         *)
(***************************************************************************)
EXTENDS TcpStream

Texts == UNION {[1 .. n -> {Client, "x"}] : n \in 1 .. 3}
=============================================================================
