SPECIFICATION Spec
CONSTANTS
  a1 = a1
  a2 = a2
  p1 = p1
  NoPeer = NoPeer
  Address = {a1, a2}
  Peer = {p1}
  UdpTraffic <- UdpMixed
  TcpTraffic <- TcpStreams
  MaxRx = 1
  MaxBacklog = 2
  MaxEvents = 3
SYMMETRY SymAddress
INVARIANTS
  TypeOK
  EventsAreLive
  NeverWaits
  ClosedIsMarked
  Watched
  NoOrphan
  NoLeakAtExit
  IInv
PROPERTIES
  MarkedIsFinal
  ConndownOnlyAtStop
  TimeoutIsReal
  ImplementsContract
\* The server stops on SIGINT and dies in Throw or BrokenPipe; nothing happens afterwards.
CHECK_DEADLOCK FALSE
