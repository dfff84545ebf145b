SPECIFICATION Spec
CONSTANTS
  p = p
  a = a
  b = b
  z = z
  loc = loc
  pin = pin
  agg = agg
  out = out
  o1 = o1
  o2 = o2
  o3 = o3
  NoSlot = NoSlot
  Null = Null
  Undef = Undef
  Reg = {a, b}
  Zero = {}
  Slot = {loc, out}
  Owner = {loc}
  Temporary = {}
  Shell = {}
  View = {}
  Fields = 1
  Recipe <- MCNoRecipe
  Pins <- MCPins
  Source <- MCSource
  Borrowed = {}
  Shared = {}
  Obj = {o1, o2}
  Params = {a}
  MaxJoins = 0
  MaxArgs = 1
  Loops = FALSE
  Disciplined = FALSE
SYMMETRY Symmetry
CHECK_DEADLOCK FALSE
PROPERTIES
  TransferHandsBack
