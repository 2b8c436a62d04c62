SPECIFICATION Spec
CONSTANTS
  Text <- Texts
  MaxStream = 5
INVARIANTS
  InStep
PROPERTIES
  AnswerIsWhole
\* Nothing happens once the client has closed the session.
CHECK_DEADLOCK FALSE
