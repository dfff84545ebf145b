CONSTANTS
    Var = {x1, x2}
    Obj = {o1, o2, o3, o4}
    Buffer = {b1, b2}
    Null = Null
    Junk = Junk
    Freed = Freed
    MaxCells = 2
    MaxCount = 2
    MaxWord = 7
    ElementSize = 2
    FirstCapacity = 1
SYMMETRY Symmetry
SPECIFICATION Spec
INVARIANTS
    CountsSound
    AllReclaimed
    VecSound
PROPERTIES
    Implements
