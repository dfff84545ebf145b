SPECIFICATION Spec
CONSTANTS
  x = x
  y = y
  g = g
  h = h
  ra = ra
  q = q
  ma = ma
  pa = pa
  f = f
  v = v
  ext1 = ext1
  ext2 = ext2
  ext3 = ext3
  ext4 = ext4
  Outside = Outside
  NoValue = NoValue
  StaticPlace = StaticPlace
  Binding <- MCBinding
  Scope <- MCScope
  MaxPath = 3
  Type <- MCType
  Captures <- MCCaptures
  Callee <- MCCallee
  Menu <- MCArmsMenu
  Repertoire <- MCArmsRepertoire
  Mutable = {x, ra, g, pa, h}
  Globals = {g}
  Readonly = {f}
  Captured = {}
  External = {ext1, ext2, ext3, ext4}
  OriginOf <- MCOriginOf
  Oracle <- MCOracle
  MaxSteps = 6
  MaxDepth = 2
CHECK_DEADLOCK FALSE
INVARIANT
  HeldReferencesValid
