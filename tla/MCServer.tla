------------------------------ MODULE MCServer ------------------------------
(***************************************************************************)
(* Server on small instances.  The .cfg files choose the traffic and the   *)
(* bounds of each run; the operators below name the choices.               *)
(***************************************************************************)
EXTENDS ServerRefinement, TLC

CONSTANTS a1, a2, p1

\* The loop treats addresses alike.  Safety runs only.
SymAddress == Permutations({a1, a2})

NoTraffic    == {}
UdpKeepAlive == {"req_connstart", "client_connup"}
UdpMixed     == {"req_connstart", "client_connup", "client_timeout"}
TcpText      == {"client_msg", "overflow_msg"}
TcpStreams   == {"client_msg", "fin"}
=============================================================================
