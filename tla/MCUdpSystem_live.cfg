SPECIFICATION SysFairSpec
CONSTANTS
  a1 = a1
  a2 = a2
  p1 = p1
  p2 = p2
  NoPeer = NoPeer
  Address = {a1}
  Peer = {p1, p2}
  UdpTraffic <- NoTraffic
  TcpTraffic <- NoTraffic
  MaxRx = 1
  MaxBacklog = 1
  MaxEvents = 4
  Line <- TwoMessages
  MaxInbox = 1
  MaxNet = 1
  Strays = FALSE
PROPERTIES
  GoneServerIsNoticed
  LostClientIsReaped
CONSTRAINT ExploredLive
\* Both programs may end and, in the model, need not be started again.
CHECK_DEADLOCK FALSE
