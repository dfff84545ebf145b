SPECIFICATION FairSpec
CONSTANTS
  main = main
  left = left
  right = right
  x = x
  y = y
  print = print
  Missing = Missing
  Unreadable = Unreadable
  None = None
  Path = {main, left, right}
  Root = main
  Name <- MCName
  Reserved <- MCReserved
  Prelude <- MCPrelude
  Worlds <- MCWorlds
  MaxDepth = 4
CHECK_DEADLOCK FALSE
INVARIANTS
  LoadingIsStack
  EmittedOnce
  References
  UniqueSymbols
  DependenciesFirst
PROPERTIES
  LoaderEnds
