SPECIFICATION Spec
CONSTANTS
  x = x
  y = y
  g = g
  ra = ra
  q = q
  pa = pa
  ma = ma
  mb = mb
  f = f
  Outside = Outside
  NoValue = NoValue
  Binding <- MCBinding
  Scope <- MCScope
  MaxPath = 3
  Type <- MCType
  Captures = {}
  Callee <- MCCallee
  Plan <- MCPlan
  Mutable = {x, ra, ma, mb, f}
  Globals = {g}
  Readonly = {}
  Captured = {}
  PathBlocks = 7
INVARIANTS
  NoGrowthForgotten
  ContractsAgree
  MovesReported
  OrderIrrelevant
  PathsReported
PROPERTIES
  SummariesSettle
