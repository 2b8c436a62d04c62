------------------------------ MODULE MCClient ------------------------------
(***************************************************************************)
(* Client against a server that sends anything at any time.                *)
(***************************************************************************)
EXTENDS Client

\* One line of every kind the loop tells apart.
EveryLine == Command \cup {"text", "long"}
=============================================================================
