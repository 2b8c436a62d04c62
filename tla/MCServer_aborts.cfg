SPECIFICATION Spec
CONSTANTS
  a1 = a1
  a2 = a2
  p1 = p1
  NoPeer = NoPeer
  Address = {a1}
  Peer = {p1}
  UdpTraffic <- NoTraffic
  TcpTraffic <- TcpText
  MaxRx = 1
  MaxBacklog = 1
  MaxEvents = 7
INVARIANTS
  NeverAborts
\* The server stops on SIGINT and dies in Throw or BrokenPipe; nothing happens afterwards.
CHECK_DEADLOCK FALSE
