------------------------------ MODULE Protocol ------------------------------
(***************************************************************************)
(* The vocabulary the client and the server share: the one-byte headers of *)
(* simple_lib/common.h, what one successful or failed receive can yield,   *)
(* and the session_status values the server's event loop acts on.          *)
(*                                                                         *)
(* A datagram (or the chunk one TCP recv returns) is abstracted to the     *)
(* class the code tells apart.  "malformed" is every byte string that is   *)
(* answered with incorrect_msg: a header without the sender_client flag, a *)
(* header nobody handles, or a length that does not fit its header.        *)
(* "overflow_msg" is a client_msg whose text holds a number std::stoi      *)
(* cannot represent.                                                       *)
(***************************************************************************)

ClientHeader == {"req_connstart", "client_connup", "client_conndown",
                 "client_timeout", "client_msg"}

ServerHeader == {"accept_connstart", "err_connstart", "server_connup",
                 "server_conndown", "server_session_err", "server_timeout",
                 "server_msg", "incorrect_msg"}

\* What a datagram from a peer can hold.
UdpInput == ClientHeader \cup {"overflow_msg", "malformed", "empty"}

\* What a peer can put into a stream; "fin" is its orderly end.
TcpInput == {"client_msg", "overflow_msg", "malformed", "fin"}

\* What is left of a stream whose connection is no more: a reset still to be
\* reported (ECONNRESET), and one that has been or that came after the orderly
\* end (recv returns 0, send raises SIGPIPE).
StreamLoss == {"reset", "dead"}

\* "error" is a pending error of a UDP socket (ECONNREFUSED): it makes the
\* socket readable and the next recv return -1.
Input == UdpInput \cup TcpInput \cup StreamLoss \cup {"error"}

-----------------------------------------------------------------------------
\* Mutants: a case label of the switch is lost.
EndingWithoutClientTimeout == {"proceed_disconnect", "proceed_recv_timeout",
                               "proceed_udp_timer_fail"}
EndingWithoutTimeout == {"proceed_disconnect", "proceed_udp_client_timeout",
                         "proceed_udp_timer_fail"}

\* proceed() results after which the loop inserts the session into
\* slavesForRemove ...
EndingStatus == {"proceed_disconnect", "proceed_recv_timeout",
                 "proceed_udp_client_timeout", "proceed_udp_timer_fail"}

\* ... and those after which it erases the session from it.
LiveStatus == {"proceed_msg_send", "proceed_udp_connup"}

\* The remaining results only produce a line of log.
LoggedStatus == {"proceed_recv_fail", "proceed_send_fail",
                 "proceed_wrong_header", "proceed_tcp_wrong_size",
                 "proceed_udp_socket_was_closed"}

\* Mutants: the client's header, and a destructor that ignores isTimeout.
NoticeOfClient(timedOut) == IF timedOut THEN "client_timeout" ELSE "server_conndown"
NoticeAlwaysConndown(timedOut) == "server_conndown"

\* What ~SessionUdp tells the peer of a session whose socket is still open.
Notice(timedOut) == IF timedOut THEN "server_timeout" ELSE "server_conndown"
=============================================================================
