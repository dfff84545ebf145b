------------------------ MODULE MCLifetimeVerifier ------------------------
(* Functions of three blocks: a conditional, a loop with a test, a loop    *)
(* that ends in its own block; every body is drawn from MCInstr.           *)
EXTENDS LifetimeVerifier
CONSTANTS a, b, z, loc, pin

MCPins == [s \in Slot |-> IF s = pin THEN {a} ELSE {a, b}]
MCSource == [r \in Reg |-> IF r = b THEN loc ELSE NoSlot]
MCRecipe == [s \in {} |-> {}]

MCInstr ==
  {[op |-> "StoreOwned", s |-> loc, v |-> a],
   [op |-> "Move", d |-> b, s |-> loc],
   [op |-> "StoreOwned", s |-> pin, v |-> a],
   [op |-> "TransferSlot", s |-> pin, v |-> a],
   [op |-> "DropSlot", s |-> loc],
   [op |-> "DropValue", v |-> a, recipe |-> "Temporary"],
   [op |-> "DropValue", v |-> b, recipe |-> "Managed"],
   [op |-> "Call", d |-> b, args |-> <<a>>],
   [op |-> "Alloc", d |-> a],
   [op |-> "Acquire", v |-> a, kind |-> "Evaluation"]}
MCRet == {[op |-> "Ret", v |-> z], [op |-> "Ret", v |-> b]}
Upto(n, S) == UNION {[1..k -> S] : k \in 0..n}
MCSucc == {<<<<2, 3>>, <<3>>, <<>>>>,
           <<<<2, 3>>, <<1>>, <<>>>>,
           <<<<2>>, <<2, 3>>, <<>>>>}
MCPrograms ==
  {[code |-> <<c1, c2, Append(c3, r)>>, succ |-> succ] :
     c1 \in Upto(1, MCInstr), c2 \in Upto(2, MCInstr), c3 \in Upto(1, MCInstr),
     r \in MCRet, succ \in MCSucc}
=============================================================================
