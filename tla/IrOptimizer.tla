----------------------------- MODULE IrOptimizer -----------------------------
(***************************************************************************)
(* ir_optimizer.rs: inlining, the peephole passes and the removal of dead  *)
(* functions, on a module whose ownership operations are lowered.  Every   *)
(* pass takes a function and says what becomes of it and whether it claims *)
(* to have changed it: [f, changed].                                       *)
(***************************************************************************)
EXTENDS IrMachine

Result(f, changed) == [f |-> f, changed |-> changed]
MapBlocks(f, Op(_)) == [f EXCEPT !.blocks = [k \in DOMAIN @ |-> [@[k] EXCEPT !.code = Op(@)]]]
EmptyMap == [r \in {} |-> NoReg]
-----------------------------------------------------------------------------
(* fold_constants: literals of a block meet in its operators and branches.  *)

\* The literals two operands have, as the one value the operator gives, or
\* none: a division that traps is left for the program to reach.
FoldedValue(i, l, r) ==
    LET a == IF i.ty = "u64" THEN AsUnsigned(l) ELSE l
        b == IF i.ty = "u64" THEN AsUnsigned(r) ELSE r
    IN  CASE i.op = "add"    -> {Wrap(l + r)}
          [] i.op = "sub"    -> {Wrap(l - r)}
          [] i.op = "mul"    -> {Wrap(l * r)}
          [] i.op = "bitand" -> {OfBits(BitsOf(l) \cap BitsOf(r))}
          [] i.op = "bitor"  -> {OfBits(BitsOf(l) \cup BitsOf(r))}
          [] i.op \in Divisions /\ i.ty \in {"i64", "u64"} ->
                IF r = 0 \/ (i.ty = "i64" /\ l = MinWord /\ r = -1) THEN {}
                ELSE {IF i.op = "div" THEN Wrap(Quotient(a, b)) ELSE Wrap(a - b * Quotient(a, b))}
          [] OTHER -> {}

\* acc is what is known of integers and truth values, and the code so far.
FoldOne(acc, i) ==
    LET value == IF Len(i.args) = 2 /\ ToSet(i.args) \subseteq DOMAIN acc.ints
                 THEN FoldedValue(i, acc.ints[i.args[1]], acc.ints[i.args[2]]) ELSE {}
        known == i.op = "condbr" /\ i.args[1] \in DOMAIN acc.bools
        new   == IF value # {} THEN Instr("const", i.dest, <<>>, "i64", CHOOSE v \in value : TRUE)
                 ELSE IF known
                 THEN Instr("br", NoReg, <<>>, "void", <<i.x[IF acc.bools[i.args[1]] = 1 THEN 1 ELSE 2]>>)
                 ELSE i
    IN  [ints    |-> IF new.op = "const" THEN (new.dest :> new.x) @@ acc.ints ELSE acc.ints,
         bools   |-> IF new.op = "constbool" THEN (new.dest :> new.x) @@ acc.bools ELSE acc.bools,
         changed |-> acc.changed \/ value # {} \/ known,
         code    |-> Append(acc.code, new)]

FoldBlock(acc, b) ==
    LET done == Pass(FoldOne, [ints |-> EmptyMap, bools |-> EmptyMap, changed |-> acc.changed, code |-> <<>>], b.code)
    IN  [changed |-> done.changed, blocks |-> Append(acc.blocks, Block(b.id, done.code))]
FoldConstants(f) ==
    LET done == Pass(FoldBlock, [changed |-> FALSE, blocks |-> <<>>], f.blocks)
    IN  Result([f EXCEPT !.blocks = done.blocks], done.changed)

\* simplify_branches: a choice between one block and itself.
SimplifyBranches(f) ==
    LET Same(i) == i.op = "condbr" /\ i.x[1] = i.x[2]
        new == MapBlocks(f, LAMBDA code : [k \in DOMAIN code |->
                    IF Same(code[k]) THEN Instr("br", NoReg, <<>>, "void", <<code[k].x[1]>>) ELSE code[k]])
    IN  Result(new, new # f)
-----------------------------------------------------------------------------
(* Aliases: registers that always hold what another one holds.              *)

RECURSIVE ResolveAlias(_, _)
ResolveAlias(aliases, r) == IF r \in DOMAIN aliases THEN ResolveAlias(aliases, aliases[r]) ELSE r
RemapOperands(i, aliases) == [i EXCEPT !.args = [k \in DOMAIN @ |-> ResolveAlias(aliases, @[k])]]

\* A mutant: the uses are renamed and the definitions stay.
ApplyAliasesKeeping(f, aliases) ==
    Result(MapBlocks(f, LAMBDA code : [k \in DOMAIN code |-> RemapOperands(code[k], aliases)]), aliases # EmptyMap)

\* apply_aliases: their definitions go, their uses read the register they stand for.
ApplyAliases(f, aliases) ==
    Result(MapBlocks(f, LAMBDA code :
               LET kept == SelectSeq(code, LAMBDA i : i.dest \notin DOMAIN aliases)
               IN  [k \in DOMAIN kept |-> RemapOperands(kept[k], aliases)]),
           aliases # EmptyMap)

\* infer_register_type: no answer for parameters, calls and arithmetic.
InferRegisterType(code, r) ==
    LET at == {k \in DOMAIN code : code[k].dest = r}
        i  == code[Min(at)]
    IN  IF at = {} THEN "none"
        ELSE CASE i.op \in {"load", "cast"} -> i.ty
               [] i.op = "const"            -> "i64"
               [] i.op \in Comparisons \cup {"constbool"} -> "bool"
               [] i.op \in {"alloca", "allocarray", "allocstruct", "gep", "conststring"} -> "ptr"
               [] OTHER -> "none"

\* The operand that an operator leaves as it is: adding nothing, taking
\* nothing away, multiplying by one.  A mutant: also taking from nothing.
NeutralOnTheLeft(i, ints) == IF i.op = "sub" /\ i.args[1] \in ints[0] THEN {i.args[2]} ELSE {}
Neutral(i, ints) ==
    CASE i.op = "add" /\ i.args[2] \in ints[0] -> {i.args[1]}
      [] i.op = "add" /\ i.args[1] \in ints[0] -> {i.args[2]}
      [] i.op = "sub" /\ i.args[2] \in ints[0] -> {i.args[1]}
      [] i.op = "mul" /\ i.args[2] \in ints[1] -> {i.args[1]}
      [] i.op = "mul" /\ i.args[1] \in ints[1] -> {i.args[2]}
      [] OTHER -> {}
SimplifyArithmetics(f) ==
    LET code == Code(f)
        ints == [n \in {0, 1} |-> {code[k].dest : k \in {j \in DOMAIN code : code[j].op = "const" /\ code[j].x = n}}]
        found == {k \in DOMAIN code : \E r \in Neutral(code[k], ints) : InferRegisterType(code, r) \in {"i64", "u64"}}
    IN  ApplyAliases(f, [d \in {code[k].dest : k \in found} |->
            CHOOSE r \in Neutral(code[CHOOSE k \in found : code[k].dest = d], ints) : TRUE])

\* eliminate_common_subexpressions: within a block, by operator, operands as
\* they read after the aliases found so far, and type where the operator has one.
Expression(i, aliases) ==
    <<i.op, RemapOperands(i, aliases).args, IF i.op \in Divisions \cup Ordering THEN i.ty ELSE "">>
CommonOne(acc, i) ==
    LET key == Expression(i, acc.aliases)
    IN  IF i.op \notin Arithmetic THEN acc
        ELSE IF key \in DOMAIN acc.seen THEN [acc EXCEPT !.aliases = (i.dest :> acc.seen[key]) @@ @]
        ELSE [acc EXCEPT !.seen = (key :> i.dest) @@ @]
CommonBlock(acc, b) == Pass(CommonOne, [acc EXCEPT !.seen = EmptyMap], b.code)
EliminateCommonSubexpressions(f) ==
    ApplyAliases(f, Pass(CommonBlock, [aliases |-> EmptyMap, seen |-> EmptyMap], f.blocks).aliases)

\* simplify_identity_casts: of a cast to the same type, or of a literal to its own.
SimplifyIdentityCasts(f) ==
    LET code == Code(f)
        Physical(r) == {IF i.op = "const" THEN "i64" ELSE i.ty : i \in {code[k] : k \in
                            {j \in DOMAIN code : code[j].dest = r /\ code[j].op \in {"cast", "const"}}}}
        found == {k \in DOMAIN code : code[k].op = "cast" /\ code[k].ty \in Physical(code[k].args[1])}
    IN  ApplyAliases(f, [d \in {code[k].dest : k \in found} |->
            code[CHOOSE k \in found : code[k].dest = d].args[1]])
-----------------------------------------------------------------------------
(* Blocks.                                                                  *)

Predecessors(f, id) == [n \in DOMAIN f.blocks |->
    Cardinality({k \in DOMAIN Targets(Terminator(f.blocks[n])) : Targets(Terminator(f.blocks[n]))[k] = id})]
PredecessorCount(f, id) == FoldFunction(+, 0, Predecessors(f, id))

\* merge_blocks: a block and the only one it leads to, when nothing else does.
RECURSIVE MergeBlocks(_)
MergeBlocks(f) ==
    LET Goal(k) == Terminator(f.blocks[k]).x[1]
        found == {k \in DOMAIN f.blocks : Terminator(f.blocks[k]).op = "br"
                     /\ Goal(k) \notin {f.blocks[k].id, f.blocks[1].id}
                     /\ PredecessorCount(f, Goal(k)) = 1}
        k    == Min(found)
        goal == BlockIndex(f, Goal(k))
        both == [f EXCEPT !.blocks[k].code = Front(@) \o f.blocks[goal].code]
    IN  IF found = {} THEN Result(f, FALSE)
        ELSE Result(MergeBlocks([both EXCEPT !.blocks = RemoveAt(@, goal)]).f, TRUE)

\* eliminate_empty_branches: a block that only leads on, never the entry.
ReplaceTarget(f, from, to) ==
    MapBlocks(f, LAMBDA code : [k \in DOMAIN code |->
        IF Targets(code[k]) = <<>> THEN code[k]
        ELSE [code[k] EXCEPT !.x = [n \in DOMAIN @ |-> IF @[n] = from THEN to ELSE @[n]]]])
RECURSIVE EliminateEmptyBranches(_)
EliminateEmptyBranches(f) ==
    LET found == {k \in DOMAIN f.blocks : k > 1 /\ Len(f.blocks[k].code) = 1
                     /\ f.blocks[k].code[1].op = "br" /\ f.blocks[k].code[1].x[1] # f.blocks[k].id}
        b == f.blocks[Min(found)]
    IN  IF found = {} THEN Result(f, FALSE)
        ELSE Result(EliminateEmptyBranches(
                        ReplaceTarget([f EXCEPT !.blocks = RemoveAt(@, Min(found))], b.id, b.code[1].x[1])).f, TRUE)

\* eliminate_dead_code: blocks nothing leads to, values nothing reads.  Loads,
\* allocations, calls and stores stay.
Pure == Arithmetic \cup {"const", "constbool", "conststring", "cast", "gep"}
EliminateDeadCode(f) ==
    LET reach == Reachable(f)
        live  == [f EXCEPT !.blocks = SelectSeq(@, LAMBDA b : b.id \in reach)]
        code  == Code(live)
        uses  == UNION {ToSet(Operands(code[k])) : k \in DOMAIN code}
        new   == MapBlocks(live, LAMBDA c : SelectSeq(c, LAMBDA i : i.op \notin Pure \/ i.dest \in uses))
    IN  IF f.blocks = <<>> THEN Result(f, FALSE) ELSE Result(new, new # f)

\* The passes in the order of a round.
Passes == <<"fold", "branches", "arithmetics", "common", "casts", "merge", "empty", "dead">>
Peephole(pass, f) ==
    CASE pass = "fold"        -> FoldConstants(f)
      [] pass = "branches"    -> SimplifyBranches(f)
      [] pass = "arithmetics" -> SimplifyArithmetics(f)
      [] pass = "common"      -> EliminateCommonSubexpressions(f)
      [] pass = "casts"       -> SimplifyIdentityCasts(f)
      [] pass = "merge"       -> MergeBlocks(f)
      [] pass = "empty"       -> EliminateEmptyBranches(f)
      [] pass = "dead"        -> EliminateDeadCode(f)
-----------------------------------------------------------------------------
(* Inlining.                                                                *)

InlineTinyThreshold  == 8
InlineSmallThreshold == 30
InlineMaxExpansion   == 60

CallCount(m, name) ==
    FoldFunction(+, 0, [k \in DOMAIN m.functions |->
        LET code == Code(m.functions[k])
        IN  Cardinality({j \in DOMAIN code : code[j].op = "call" /\ code[j].x = name})])
ShouldInline(f, calls) ==
    LET size == Len(Code(f))
    IN  /\ f.name # "global_init"
        /\ f.name \notin Callees(f)
        /\ \/ size <= InlineTinyThreshold
           \/ size <= InlineSmallThreshold /\ (calls <= 1 \/ (calls - 1) * size <= InlineMaxExpansion)

\* The functions that the calls of some can reach, those included.
CallGraph(m) == [name \in Names(m) |-> Callees(m.functions[FunctionIndex(m, name)]) \cap Names(m)]
RecursiveFunctions(m) ==
    LET calls == CallGraph(m) IN {name \in DOMAIN calls : name \in Spread(calls, calls[name], calls[name])}

\* A mutant: the copies define the registers of the callee again.
InlineRegistersKept(target, args, reg) ==
    [map |-> [r \in ToSet(ParamRegs(target)) |-> args[SelectInSeq(ParamRegs(target), LAMBDA p : p = r)]], reg |-> reg]

\* Parameters become the arguments, everything the callee defines is new.
InlineRegisters(target, args, reg) ==
    LET code  == Code(target)
        dests == SelectSeq([k \in DOMAIN code |-> code[k].dest], LAMBDA r : r # NoReg)
        param == ParamRegs(target)
    IN  [map |-> [r \in ToSet(dests) |-> reg + SelectInSeq(dests, LAMBDA d : d = r) - 1]
                 @@ [r \in ToSet(param) |-> args[SelectInSeq(param, LAMBDA p : p = r)]],
         reg |-> reg + Len(dests)]
Mapped(map, r) == IF r \in DOMAIN map THEN map[r] ELSE r
RemapCallee(i, regs, blocks) ==
    [i EXCEPT !.dest = Mapped(regs, @), !.args = [k \in DOMAIN @ |-> Mapped(regs, @[k])],
              !.x = IF Targets(i) = <<>> THEN @ ELSE [k \in DOMAIN @ |-> Mapped(blocks, @[k])]]

Inlinable(a, i, name) == i.op = "call" /\ i.x # name /\ i.x \in DOMAIN a.inlinables

\* A callee of one block is copied in place; its return becomes a cast.  After
\* one that does not return, the rest of the block is dropped.
InlineInPlace(name, a, i) ==
    LET target == a.inlinables[i.x]
        r      == InlineRegisters(target, i.args, a.reg)
        One(acc, t) ==
            IF t.op # "ret" THEN Append(acc, RemapCallee(t, r.map, EmptyMap))
            ELSE IF t.args = <<>> \/ target.ret = "void" THEN acc
            ELSE Append(acc, Instr("cast", i.dest, <<Mapped(r.map, t.args[1])>>, target.ret, 0))
        code   == Pass(One, a.code, target.blocks[1].code)
    IN  IF a.stop THEN a
        ELSE IF ~Inlinable(a, i, name) \/ Len(a.inlinables[i.x].blocks) # 1
        THEN [a EXCEPT !.code = Append(@, i)]
        ELSE [a EXCEPT !.reg = r.reg, !.code = code, !.stop = code # <<>> /\ Last1(code).op = "unreachable"]
InlineBlock(name, a, b) ==
    LET done == Pass(LAMBDA acc, i : InlineInPlace(name, acc, i), [a EXCEPT !.code = <<>>, !.stop = FALSE], b.code)
    IN  [done EXCEPT !.blocks = Append(@, Block(b.id, done.code))]

\* A callee of several blocks splits the block of its call, one call at a time.
RECURSIVE InlineSplit(_, _)
InlineSplit(name, a) ==
    LET Calls(b) == {n \in DOMAIN b.code : Inlinable(a, b.code[n], name) /\ Len(a.inlinables[b.code[n].x].blocks) > 1}
        found  == {k \in DOMAIN a.blocks : Calls(a.blocks[k]) # {}}
        k      == Min(found)
        b      == a.blocks[k]
        n      == Min(Calls(b))
        call   == b.code[n]
        target == a.inlinables[call.x]
        r      == InlineRegisters(target, call.args, a.reg)
        count  == Len(target.blocks)
        blocks == [id \in BlockIds(target) |-> a.block + BlockIndex(target, id) - 1]
        cont   == a.block + count
        void   == target.ret = "void"
        One(t) == IF t.op # "ret" THEN <<RemapCallee(t, r.map, blocks)>>
                  ELSE (IF void \/ t.args = <<>> THEN <<>>
                        ELSE <<Instr("store", NoReg, <<r.reg, Mapped(r.map, t.args[1])>>, target.ret, 0)>>)
                       \o <<Instr("br", NoReg, <<>>, "void", <<cont>>)>>
        copied == [j \in 1 .. count |->
                     Block(a.block + j - 1, FlattenSeq([c \in DOMAIN target.blocks[j].code |-> One(target.blocks[j].code[c])]))]
        before == SubSeq(b.code, 1, n - 1)
                  \o (IF void THEN <<>> ELSE <<Instr("alloca", r.reg, <<>>, target.ret, 0)>>)
                  \o <<Instr("br", NoReg, <<>>, "void", <<a.block>>)>>
        after  == (IF void THEN <<>> ELSE <<Instr("load", call.dest, <<r.reg>>, target.ret, 0)>>)
                  \o SubSeq(b.code, n + 1, Len(b.code))
    IN  IF found = {} THEN a
        ELSE InlineSplit(name,
                [a EXCEPT !.reg = IF void THEN r.reg ELSE r.reg + 1, !.block = cont + 1,
                          !.blocks = SubSeq(@, 1, k - 1) \o <<Block(b.id, before)>> \o copied
                                     \o <<Block(cont, after)>> \o SubSeq(@, k + 1, Len(@))])

InlineFunction(a, f) ==
    LET flat == Pass(LAMBDA acc, b : InlineBlock(f.name, acc, b), [a EXCEPT !.blocks = <<>>], f.blocks)
        done == InlineSplit(f.name, flat)
    IN  [done EXCEPT !.functions = Append(@, [f EXCEPT !.blocks = done.blocks])]

\* What is copied is what the functions were before any of them changed.
InlineFunctions(m) ==
    LET never  == RecursiveFunctions(m)
        chosen == {k \in DOMAIN m.functions : LET f == m.functions[k]
                      IN  f.name \notin never /\ ShouldInline(f, CallCount(m, f.name))}
        start  == [reg |-> NextReg(m), block |-> NextBlock(m), blocks |-> <<>>, code |-> <<>>, stop |-> FALSE,
                   inlinables |-> [name \in {m.functions[k].name : k \in chosen} |-> m.functions[FunctionIndex(m, name)]],
                   functions |-> <<>>]
    IN  [m EXCEPT !.functions = Pass(InlineFunction, start, @).functions]
-----------------------------------------------------------------------------
\* eliminate_dead_functions: what main and the initializer can call stays, and
\* the functions of the runtime that end the program.
EliminateDeadFunctions(m) ==
    LET roots == {"main", "global_init"} \cap Names(m)
        live  == Spread(CallGraph(m), roots, roots) \cup {"panic", "exit"}
    IN  [m EXCEPT !.functions = SelectSeq(@, LAMBDA f : f.name \in live)]
=============================================================================
