SPECIFICATION Spec
CONSTANTS
  Classes <- Types
  Arrays <- Lists
  Pointee <- Refs
  Enums <- Variants
  LeastWord <- Least
  Word = 5
  Byte = 3
  MaxTicks = 1000
  Menu <- Programs
  Questions <- Inputs
  MaxFuel = 6
INVARIANTS SameMeaning NoFault NothingLeaks AcceptedVerifies
PROPERTIES PassesShrink
CHECK_DEADLOCK FALSE
