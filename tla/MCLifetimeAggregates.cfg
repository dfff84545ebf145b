SPECIFICATION Spec
CONSTANTS
  p = p
  a = a
  b = b
  z = z
  loc = loc
  pin = pin
  agg = agg
  out = out
  o1 = o1
  o2 = o2
  o3 = o3
  NoSlot = NoSlot
  Null = Null
  Undef = Undef
  Reg = {a, b, z}
  Zero = {z}
  Slot = {agg, loc, out}
  Owner = {agg, loc}
  Temporary = {}
  Shell = {agg}
  View = {}
  Fields = 2
  Recipe <- MCRecipe
  Pins <- MCPinsAgg
  Source <- MCSourceOut
  Borrowed = {a}
  Shared = {}
  Obj = {o1, o2}
  Params = {b}
  MaxJoins = 1
  MaxArgs = 2
  Loops = TRUE
  Disciplined = TRUE
SYMMETRY Symmetry
CHECK_DEADLOCK FALSE
INVARIANTS
  TypeOK
  SlotsResolved
  LedgerSound
  NoTrap
  NothingLeft
