-------------------------- MODULE MCLifetimePath --------------------------
(* Small instances of LifetimePath.                                        *)
EXTENDS LifetimePath, TLC
CONSTANTS p, a, b, z, loc, pin, agg, out, o1, o2, o3

MCPins == [s \in Slot |-> IF s = pin THEN {a} ELSE Reg]
MCPinsAgg == [s \in Slot |-> IF s = agg THEN {a} ELSE Reg]
MCSource == [r \in Reg |-> IF r = b THEN loc ELSE IF r = a THEN out ELSE NoSlot]
MCSourceOut == [r \in Reg |-> IF r = b THEN out ELSE NoSlot]
MCSourceBorrow == [r \in Reg |-> IF r = p THEN loc ELSE NoSlot]
MCRecipe == agg :> {0}
MCNoRecipe == [s \in {} |-> {}]
Symmetry == Permutations(Obj)
=============================================================================
