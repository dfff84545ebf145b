------------------------------ MODULE IrVerify ------------------------------
(***************************************************************************)
(* ir_verify.rs: what every module must satisfy, structure first, then     *)
(* dominance, then - once ownership is lowered - the types of registers    *)
(* and cells.  An explicit module must also verify after lowering; that    *)
(* its ownership operations are balanced is the subject of                 *)
(* LifetimeVerifier.                                                       *)
(***************************************************************************)
EXTENDS IrLowering

OwnershipOps == {"ownerslot", "viewslot", "read", "borrow", "ownedcast", "transfer", "acquire",
                 "dropvalue", "swap", "dropslot"}
Lowered(m) == \A k \in DOMAIN m.functions :
                LET code == Code(m.functions[k]) IN \A j \in DOMAIN code : code[j].op \notin OwnershipOps

GlobalRegs(m) == {m.globals[k][1] : k \in DOMAIN m.globals}
CalleeOf(m, name) == m.functions[FunctionIndex(m, name)]

ParametersOk(m, f) ==
    /\ Cardinality(ToSet(ParamRegs(f))) = Len(f.params)
    /\ \A k \in DOMAIN f.params : f.params[k][1] \notin GlobalRegs(m) /\ f.params[k][2] # "void"

\* A block ends with its only terminator, and control goes to known blocks.
BlocksOk(f) ==
    /\ Cardinality(BlockIds(f)) = Len(f.blocks)
    /\ \A k \in DOMAIN f.blocks :
        LET code == f.blocks[k].code
        IN  /\ code # <<>>
            /\ \A j \in DOMAIN code : IsTerminator(code[j]) <=> j = Len(code)
            /\ Successors(f.blocks[k]) \subseteq BlockIds(f)

\* A register has one definition, and neither a parameter nor a global has one;
\* only the initializer names the cells of the globals.
DefinitionsOk(m, f) ==
    LET code == Code(f)
        defs == {k \in DOMAIN code : code[k].dest # NoReg}
    IN  /\ Cardinality({code[k].dest : k \in defs}) = Cardinality(defs)
        /\ \A k \in defs :
            /\ code[k].dest \notin ToSet(ParamRegs(f))
            /\ code[k].dest \in GlobalRegs(m) => f.name = "global_init" /\ code[k].op = "alloca"

CallsOk(m, f) ==
    LET code == Code(f)
    IN  \A k \in DOMAIN code :
            /\ code[k].op = "call" =>
                /\ code[k].x \in Names(m)
                /\ Len(code[k].args) = Len(CalleeOf(m, code[k].x).params)
            /\ code[k].op = "ret" => (code[k].args = <<>> <=> f.ret = "void")

\* Every use has a definition, and in a block control can reach the definition
\* dominates it: earlier in the block, or in a block no path leaves out.  The
\* code computes the dominators of all blocks as a greatest fixed point.
UsesOk(m, f) ==
    LET home(r) == CHOOSE k \in DOMAIN f.blocks : \E j \in DOMAIN f.blocks[k].code : f.blocks[k].code[j].dest = r
        given   == GlobalRegs(m) \cup ToSet(ParamRegs(f))
        defined == Defined(f)
        here    == [k \in DOMAIN f.blocks |->
                       [r \in {f.blocks[k].code[j].dest : j \in DOMAIN f.blocks[k].code} \ {NoReg} |->
                            CHOOSE j \in DOMAIN f.blocks[k].code : f.blocks[k].code[j].dest = r]]
        uses    == [k \in DOMAIN f.blocks |->
                       UNION {ToSet(f.blocks[k].code[j].args) : j \in DOMAIN f.blocks[k].code} \ given]
        live    == Reachable(f)
        afar    == UNION {uses[k] \ DOMAIN here[k] : k \in {j \in DOMAIN f.blocks : f.blocks[j].id \in live}}
        without == [k \in {home(r) : r \in afar} |-> ReachAvoiding(f, f.blocks[k].id)]
    IN  /\ \A k \in DOMAIN f.blocks : uses[k] \subseteq defined
        /\ \A k \in DOMAIN f.blocks :
            LET code == f.blocks[k].code
            IN  f.blocks[k].id \in live =>
                    /\ \A j \in DOMAIN code : \A n \in DOMAIN code[j].args :
                            code[j].args[n] \in DOMAIN here[k] => here[k][code[j].args[n]] < j
                    /\ \A r \in uses[k] \ DOMAIN here[k] : f.blocks[k].id \notin without[home(r)]
-----------------------------------------------------------------------------
(* Types.  [p, t]: the value of a type t, or the address of a cell of t.    *)

Value(t)   == [p |-> FALSE, t |-> t]
Cell(t)    == [p |-> TRUE, t |-> t]
AsType(ty) == IF IsRef(ty) THEN Cell(Pointee[ty]) ELSE Value(ty)
IsInteger(t) == ~t.p /\ t.t \in Scalars
IsAddress(t) == t.p \/ Managed(t.t) \/ t.t = "ptr"

\* A variant and its enum are the same handle.
Nominal(ty) ==
    IF \E e \in DOMAIN Enums : \E k \in DOMAIN Enums[e] : Enums[e][k].class = ty
    THEN CHOOSE e \in DOMAIN Enums : \E k \in DOMAIN Enums[e] : Enums[e][k].class = ty
    ELSE ty
SameStorage(actual, expected) ==
    \/ AsType(actual) = AsType(expected)
    \/ Nominal(actual) = Nominal(expected)
Compatible(actual, expected) ==
    \/ expected = Value("ptr") /\ IsAddress(actual)
    \/ IsInteger(actual) /\ IsInteger(expected)
    \/ actual = expected
    \/ ~actual.p /\ ~expected.p /\ Nominal(actual.t) = Nominal(expected.t)

TypeOf(m, consts, i) ==
    CASE i.op = "alloca"      -> Cell(i.ty)
      [] i.op = "allocarray"  -> Value(CHOOSE arr \in DOMAIN Arrays : Arrays[arr] = i.ty)
      [] i.op = "allocstruct" -> Value(i.x)
      [] i.op \in Comparisons \cup {"constbool"} -> Value("bool")
      [] i.op = "conststring" -> Value("ptr")
      [] i.op \in {"load", "cast"} -> AsType(i.ty)
      [] i.op \in Divisions -> Value(i.ty)
      [] i.op = "call" -> AsType(CalleeOf(m, i.x).ret)
      [] i.op = "gep"  -> Cell(IF i.x = "field" THEN Classes[i.ty][consts[i.args[2]] + 1] ELSE i.ty)
      [] OTHER         -> Value("i64")

\* The constants and the types of a function's registers.
Constants(f) ==
    LET code == Code(f)
    IN  [r \in {code[k].dest : k \in {j \in DOMAIN code : code[j].op = "const"}} |->
            code[CHOOSE k \in DOMAIN code : code[k].dest = r].x]
RegisterTypes(m, f) ==
    LET code == Code(f)
        consts == Constants(f)
        defs == {k \in DOMAIN code : code[k].dest # NoReg}
    IN  [r \in {code[k].dest : k \in defs} |-> TypeOf(m, consts, code[CHOOSE k \in defs : code[k].dest = r])]
        @@ [r \in GlobalRegs(m) |-> Cell(m.globals[CHOOSE k \in DOMAIN m.globals : m.globals[k][1] = r][2])]
        @@ [r \in ToSet(ParamRegs(f)) |-> AsType(f.params[CHOOSE k \in DOMAIN f.params : f.params[k][1] = r][2])]

\* What the rules look at: the types, the constants, the addresses whose view
\* of the memory is known.
Typing(m, f) ==
    LET code == Code(f)
    IN  [types |-> RegisterTypes(m, f), consts |-> Constants(f),
         cells |-> {code[k].dest : k \in {j \in DOMAIN code : code[j].op \in {"alloca", "gep"}}} \cup GlobalRegs(m)]
Zero(t, r)         == r \in DOMAIN t.consts /\ t.consts[r] = 0
Transfer(t, r, ty) == t.types[r] # Value("void") /\ (Zero(t, r) \/ Compatible(t.types[r], AsType(ty)))
Pointer(t, r)      == IsAddress(t.types[r]) \/ Zero(t, r)
Memory(t, r, ty)   == r \in t.cells => SameStorage(t.types[r].t, ty)

\* A field is chosen by a constant that the layout of its struct knows.
FieldOk(t, i) ==
    i.op = "gep" /\ i.x = "field" =>
        /\ i.args[2] \in DOMAIN t.consts
        /\ t.consts[i.args[2]] + 1 \in DOMAIN Classes[i.ty]
AllocationOk(t, i) ==
    IF i.op = "allocstruct" THEN i.x \in DOMAIN Classes
    ELSE i.ty # "void" /\ \A n \in DOMAIN i.args : IsInteger(t.types[i.args[n]])
AccessOk(t, i) ==
    /\ Pointer(t, i.args[1])
    /\ i.op \in {"load", "store"} => i.ty # "void" /\ Memory(t, i.args[1], i.ty)
    /\ i.op = "store" => Transfer(t, i.args[2], i.ty)
    /\ i.op = "gep"   => IsInteger(t.types[i.args[2]])
ControlOk(m, f, t, i) ==
    CASE i.op = "call"   -> \A n \in DOMAIN i.args : Transfer(t, i.args[n], CalleeOf(m, i.x).params[n][2])
      [] i.op = "ret"    -> \A n \in DOMAIN i.args : Transfer(t, i.args[n], f.ret)
      [] i.op = "condbr" -> IsInteger(t.types[i.args[1]])
OperatorOk(t, i) ==
    LET l == t.types[i.args[1]]
        r == t.types[i.args[2]]
    IN  CASE i.op \in Divisions \cup Ordering ->
                i.ty \in Scalars /\ Transfer(t, i.args[1], i.ty) /\ Transfer(t, i.args[2], i.ty)
          [] i.op \in {"cmpeq", "cmpneq"} ->
                /\ Value("void") \notin {l, r}
                /\ Compatible(l, r) \/ Zero(t, i.args[1]) \/ Zero(t, i.args[2])
          [] OTHER -> IsInteger(l) /\ IsInteger(r)
CastOk(t, i) == t.types[i.args[1]] # Value("void") /\ i.ty # "void"

InstructionOk(m, f, t, i) ==
    /\ FieldOk(t, i)
    /\ CASE i.op \in {"alloca", "allocarray", "allocstruct"}           -> AllocationOk(t, i)
         [] i.op \in {"load", "store", "gep", "retain", "release"}     -> AccessOk(t, i)
         [] i.op \in {"call", "ret", "condbr"}                         -> ControlOk(m, f, t, i)
         [] i.op \in Arithmetic                                        -> OperatorOk(t, i)
         [] i.op = "cast"                                              -> CastOk(t, i)
         [] OTHER                                                      -> TRUE
EachOk(m, f, t, code) == \A k \in DOMAIN code : InstructionOk(m, f, t, code[k])
TypesOk(m, f) == EachOk(m, f, Typing(m, f), Code(f))
-----------------------------------------------------------------------------
StructureOk(m) ==
    /\ Cardinality(Names(m)) = Len(m.functions)
    /\ \A k \in DOMAIN m.functions :
        LET f == m.functions[k]
        IN  /\ ParametersOk(m, f)
            /\ f.blocks # <<>> => BlocksOk(f) /\ DefinitionsOk(m, f) /\ CallsOk(m, f) /\ UsesOk(m, f)

VerifyLowered(m) ==
    StructureOk(m) /\ \A k \in DOMAIN m.functions : m.functions[k].blocks # <<>> => TypesOk(m, m.functions[k])
Verify(m) == IF Lowered(m) THEN VerifyLowered(m) ELSE StructureOk(m) /\ VerifyLowered(LowerOwnership(m))
=============================================================================
