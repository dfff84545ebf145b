-------------------------------- MODULE Ir --------------------------------
(***************************************************************************)
(* The intermediate representation of ir.rs: register based instructions   *)
(* in basic blocks, functions and modules.  One record shape stands for    *)
(* every variant of the Rust enum, so what an instruction reads and what   *)
(* it defines are two of its fields.                                       *)
(***************************************************************************)
EXTENDS Integers, Sequences, FiniteSets, SequencesExt, FiniteSetsExt, TLC

CONSTANTS
    Classes,     \* the managed struct types: name |-> types of the fields
    Arrays,      \* the managed array types: name |-> type of the elements
    Enums,       \* the managed enum types: name |-> variants in order of their tags,
                 \* each with its name and the class that lays out tag and payload
    Pointee      \* the reference types: name |-> the type referred to, one for a type

NoReg == -1

\* A pass over a sequence: FoldLeft in halves, the left half before the right
\* one is begun, so that a long sequence does not nest deeply.
RECURSIVE Pass(_, _, _)
Pass(Op(_, _), acc, s) ==
    IF s = <<>> THEN acc
    ELSE IF Len(s) = 1 THEN Op(acc, s[1])
    ELSE LET mid == Len(s) \div 2
         IN  CHOOSE r \in {Pass(Op, left, SubSeq(s, mid + 1, Len(s)))
                              : left \in {Pass(Op, acc, SubSeq(s, 1, mid))}} : TRUE

\* The integer types, the narrow ones and the signed ones among them.
Signed   == {"i64"}
Unsigned == {"u64", "u8"}
Narrow   == {"u8", "bool"}
Scalars  == Signed \cup Unsigned \cup {"bool"}
Managed(ty) == ty \in DOMAIN Classes \cup DOMAIN Arrays
IsRef(ty)   == ty \in DOMAIN Pointee
Behind(ty)  == IF IsRef(ty) THEN Pointee[ty] ELSE ty
RefTo(ty)   == CHOOSE r \in DOMAIN Pointee : Pointee[r] = ty

\* An instruction: what it does, the register it defines, the registers it
\* reads, its type, and what else the variant carries: a literal, the name of
\* a callee or of a class, a mode, or the blocks it branches to.
Instr(op, dest, args, ty, x) ==
    [op |-> op, dest |-> dest, args |-> args, ty |-> ty, x |-> x]

Destination(i) == i.dest
Operands(i)    == i.args
Terminators    == {"br", "condbr", "ret", "unreachable"}
IsTerminator(i) == i.op \in Terminators
Targets(i) == IF i.op \in {"br", "condbr"} THEN i.x ELSE <<>>

\* Operators without effects, whose value depends on their operands alone.
Ordering    == {"cmplt", "cmple", "cmpgt", "cmpge"}
Comparisons == Ordering \cup {"cmpeq", "cmpneq"}
Divisions   == {"div", "mod"}
Arithmetic  == {"add", "sub", "mul", "bitand", "bitor"} \cup Divisions \cup Comparisons

Block(id, code) == [id |-> id, code |-> code]
FunctionIr(name, ret, params, blocks) ==
    [name |-> name, ret |-> ret, params |-> params, blocks |-> blocks]

\* What a block, a function and a module say.
Last1(s)       == s[Len(s)]
Ascending(S)   == [k \in 1 .. Cardinality(S) |-> CHOOSE n \in S : Cardinality({o \in S : o < n}) = k - 1]
Terminator(b)  == IF b.code = <<>> THEN Instr("none", NoReg, <<>>, "void", 0) ELSE Last1(b.code)
Successors(b)  == ToSet(Targets(Terminator(b)))
Code(f)        == FlattenSeq([k \in DOMAIN f.blocks |-> f.blocks[k].code])
BlockIds(f)    == {f.blocks[k].id : k \in DOMAIN f.blocks}
BlockIndex(f, id) == CHOOSE k \in DOMAIN f.blocks : f.blocks[k].id = id
ParamRegs(f)   == [k \in DOMAIN f.params |-> f.params[k][1]]
Defined(f)     == LET code == Code(f) IN {code[k].dest : k \in DOMAIN code} \ {NoReg}
Names(m)       == {m.functions[k].name : k \in DOMAIN m.functions}
FunctionIndex(m, name) == CHOOSE k \in DOMAIN m.functions : m.functions[k].name = name
Callees(f)     == LET code == Code(f) IN {code[k].x : k \in {j \in DOMAIN code : code[j].op = "call"}}

\* The first register and the first block no function of the module uses.
NextReg(m) ==
    Max({0} \cup {m.globals[k][1] + 1 : k \in DOMAIN m.globals}
            \cup UNION {{r + 1 : r \in Defined(m.functions[k]) \cup ToSet(ParamRegs(m.functions[k]))}
                            : k \in DOMAIN m.functions})
NextBlock(m) ==
    Max({0} \cup UNION {{id + 1 : id \in BlockIds(m.functions[k])} : k \in DOMAIN m.functions})

\* The blocks that control can reach from some, leaving one out.
RECURSIVE Spread(_, _, _)
Spread(succ, seen, front) ==
    IF front = {} THEN seen
    ELSE LET next == (UNION {succ[id] : id \in front}) \ seen IN Spread(succ, seen \cup next, next)
Graph(f) == [id \in BlockIds(f) |-> Successors(f.blocks[BlockIndex(f, id)])]
ReachAvoiding(f, id) ==
    LET from == {f.blocks[1].id} \ {id}
    IN  Spread(Graph(f), from \cup {id}, from) \ {id}
Reachable(f) == ReachAvoiding(f, -1)
=============================================================================
