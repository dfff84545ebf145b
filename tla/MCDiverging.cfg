SPECIFICATION Spec
CONSTANTS
  Classes <- Types
  Arrays <- Lists
  Pointee <- Refs
  Enums <- Variants
  LeastWord <- Least
  Word = 5
  Byte = 3
  MaxTicks = 1000
  Menu <- Diverging
  Questions <- Inputs
  MaxFuel = 6
INVARIANTS AcceptedVerifies
CHECK_DEADLOCK FALSE
