----------------------------- MODULE IrLowering -----------------------------
(***************************************************************************)
(* physical_ownership.rs, lower_unchecked: every ownership operation       *)
(* becomes loads, stores, retains and releases.  A guarded drop of a slot  *)
(* splits its block; registers and blocks are fresh in the whole module.   *)
(***************************************************************************)
EXTENDS Ir

\* The state of the pass: next register, next block, the function's blocks so
\* far and the block being filled.
Out(a, op, dest, args, ty, x) == [a EXCEPT !.code = Append(@, Instr(op, dest, args, ty, x))]
Fresh(a)    == [a EXCEPT !.reg = @ + 1]
\* A mutant: what moved out stays where it was.
ClearNothing(a, slot, ty) == a
Clear(a, slot, ty) ==
    Out(Out(Fresh(a), "const", a.reg, <<>>, "i64", 0), "store", NoReg, <<slot, a.reg>>, ty, 0)

DropSlot(a, i) ==
    LET slot  == i.args[1]
        value == a.reg
        load  == Out(Fresh(a), "load", value, <<slot>>, i.ty, 0)
        zero  == Out(Fresh(load), "const", value + 1, <<>>, "i64", 0)
        null  == Out(Fresh(zero), "cast", value + 2, <<value + 1>>, i.ty, 0)
        empty == Out(null, "store", NoReg, <<slot, value + 2>>, i.ty, 0)
        test  == Out(Fresh(empty), "cmpneq", value + 3, <<value, value + 1>>, "i64", 0)
        fork  == Out(test, "condbr", NoReg, <<value + 3>>, "void", <<a.block, a.block + 1>>)
        free  == <<Instr("release", NoReg, <<value>>, "ptr", 0), Instr("br", NoReg, <<>>, "void", <<a.block + 1>>)>>
    IN  IF ~i.x THEN Out(empty, "release", NoReg, <<value>>, "ptr", 0)
        ELSE [fork EXCEPT !.done = @ \o <<Block(a.id, fork.code), Block(a.block, free)>>,
                          !.id = a.block + 1, !.code = <<>>, !.block = @ + 2]

LowerOne(a, i) ==
    CASE i.op \in {"ownerslot", "viewslot"} -> a
      [] i.op = "read"     ->
            LET load == Out(a, "load", i.dest, i.args, i.ty, 0)
            IN  IF i.x = "move" THEN Clear(load, i.args[1], i.ty) ELSE load
      [] i.op = "borrow"   -> Out(a, "cast", i.dest, i.args, i.ty, 0)
      [] i.op = "ownedcast" -> Out(a, "cast", i.dest, i.args, i.ty, 0)
      [] i.op = "transfer" -> Clear(a, i.args[1], i.ty)
      [] i.op = "acquire"  -> Out(a, "retain", NoReg, i.args, "ptr", 0)
      [] i.op = "dropvalue" -> Out(a, "release", NoReg, i.args, "ptr", 0)
      [] i.op = "swap"     -> Out(Out(a, "load", i.dest, <<i.args[1]>>, i.ty, 0), "store", NoReg, i.args, i.ty, 0)
      [] i.op = "dropslot" -> DropSlot(a, i)
      [] OTHER             -> [a EXCEPT !.code = Append(@, i)]

LowerBlock(a, b) ==
    LET filled == Pass(LowerOne, [a EXCEPT !.id = b.id, !.code = <<>>], b.code)
    IN  [filled EXCEPT !.done = Append(@, Block(filled.id, filled.code))]

\* acc is the pass and the functions it has left behind.
LowerFunction(acc, f) ==
    LET a == Pass(LowerBlock, [acc[1] EXCEPT !.done = <<>>], f.blocks)
    IN  <<a, Append(acc[2], [f EXCEPT !.blocks = a.done])>>

LowerOwnership(m) ==
    LET start == [reg |-> NextReg(m), block |-> NextBlock(m), id |-> 0, code |-> <<>>, done |-> <<>>]
    IN  [m EXCEPT !.functions = Pass(LowerFunction, <<start, <<>>>>, @)[2]]
=============================================================================
