SPECIFICATION Spec
CONSTANTS
  IdleTime = 5
  Timeout = 15
  Delay = 1
  Burst = 1
INVARIANTS
  Clock
  ActiveIsKept
\* Nothing happens after the session has been dropped.
CHECK_DEADLOCK FALSE
