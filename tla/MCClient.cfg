SPECIFICATION FairSpec
CONSTANTS
  Line <- EveryLine
  MaxInbox = 2
INVARIANTS
  TypeOK
  SessionFitsState
PROPERTIES
  FarewellExactly
  ExitIsChosen
  BreakIsHeard
  SilenceIsNoticed
\* The client ends on Ctrl+C or dies in Overrun; nothing happens afterwards.
CHECK_DEADLOCK FALSE
