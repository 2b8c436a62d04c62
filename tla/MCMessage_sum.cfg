SPECIFICATION Spec
CONSTANTS
  Text <- Texts
  Half = 16
INVARIANTS
  AnswerIsTrueSum
\* The loop ends.
CHECK_DEADLOCK FALSE
