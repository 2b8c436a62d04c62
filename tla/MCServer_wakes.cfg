SPECIFICATION FairSpec
CONSTANTS
  a1 = a1
  a2 = a2
  p1 = p1
  NoPeer = NoPeer
  Address = {a1, a2}
  Peer = {p1}
  UdpTraffic <- NoTraffic
  TcpTraffic <- NoTraffic
  MaxRx = 1
  MaxBacklog = 2
  MaxEvents = 7
PROPERTIES
  WakesForRequests
\* The server stops on SIGINT and dies in Throw or BrokenPipe; nothing happens afterwards.
CHECK_DEADLOCK FALSE
