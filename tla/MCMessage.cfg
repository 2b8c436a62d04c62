SPECIFICATION Spec
CONSTANTS
  Text <- Texts
  Half = 16
INVARIANTS
  TypeOK
  LoopInv
  SumOfNumbers
  EchoWithoutNumbers
  ThrowsOnlyForNoInt
\* The loop ends.
CHECK_DEADLOCK FALSE
