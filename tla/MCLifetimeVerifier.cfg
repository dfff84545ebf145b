SPECIFICATION FairSpec
CONSTANTS
  a = a
  b = b
  z = z
  loc = loc
  pin = pin
  NoSlot = NoSlot
  None = None
  Reg = {a, b, z}
  Zero = {z}
  Slot = {loc, pin}
  Owner = {loc, pin}
  Temporary = {pin}
  Shell = {}
  View = {}
  Fields = 1
  Recipe <- MCRecipe
  Pins <- MCPins
  Source <- MCSource
  Borrowed = {}
  Shared = {}
  Block = {1, 2, 3}
  Entry = 1
  Programs <- MCPrograms
  Params = {a}
  MaxRounds = 93
CHECK_DEADLOCK FALSE
INVARIANTS
  WalkSafe
  WalkForeseen
  LeastSolution
  NoLostBlock
PROPERTIES
  Answers
