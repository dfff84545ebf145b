SPECIFICATION Spec
CONSTANTS
  p = p
  a = a
  b = b
  z = z
  loc = loc
  pin = pin
  agg = agg
  out = out
  o1 = o1
  o2 = o2
  o3 = o3
  NoSlot = NoSlot
  Null = Null
  Undef = Undef
  Reg = {a, b, z}
  Zero = {z}
  Slot = {loc, pin, out}
  Owner = {loc, pin}
  Temporary = {pin}
  Shell = {}
  View = {}
  Fields = 1
  Recipe <- MCNoRecipe
  Pins <- MCPins
  Source <- MCSource
  Borrowed = {}
  Shared = {a, b}
  Obj = {o1, o2}
  Params = {a}
  MaxJoins = 0
  MaxArgs = 1
  Loops = TRUE
  Disciplined = TRUE
SYMMETRY Symmetry
CHECK_DEADLOCK FALSE
INVARIANTS
  CountsExact
  LeasesSound
PROPERTIES
  LeaseNeverOwns
