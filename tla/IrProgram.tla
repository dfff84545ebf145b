----------------------------- MODULE IrProgram -----------------------------
(***************************************************************************)
(* The end of ir_builder.rs: functions and the module with its             *)
(* initializer, its cleanup and its exit.                                  *)
(*                                                                         *)
(* A program is a sequence of declarations: global variables (statements), *)
(* functions [k, name, ret, params, body] without a body when they are     *)
(* external, and enums [k, name].                                          *)
(***************************************************************************)
EXTENDS IrTree

BlocksOf(b) ==
    LET ids == Ascending(DOMAIN b.blocks)
    IN  [k \in DOMAIN ids |-> Block(ids[k], b.blocks[ids[k]])]

\* A function starts with fresh blocks and scopes and leaves the registers and
\* the block numbers it took.
Opened(b, name) ==
    [b EXCEPT !.blocks = (b.block :> <<>>), !.cur = b.block, !.block = @ + 1, !.fn = name]
Closed(b, f) == [f EXCEPT !.blocks = b.blocks, !.cur = b.cur, !.scopes = b.scopes, !.fn = b.fn]
Params(b, types) == [k \in DOMAIN types |-> <<b.reg + k - 1, types[k]>>]

GlobalScope(b) == [k \in DOMAIN b.globals |->
    Entry(b.names[k], b.globals[k][1], b.globals[k][2], Managed(b.globals[k][2]), NoReg)]

Parameter(b, name, param) ==
    LET slot  == Slot(b, param[2])
        kept  == Store(slot.b, param[2], slot.v, param[1])
        owner == IF Managed(param[2]) THEN Do(kept, "ownerslot", <<slot.v>>, param[2], "local") ELSE kept
    IN  Declare(owner, Entry(name, slot.v, param[2], Managed(param[2]), NoReg))

\* A declared function: [state, function].  main initializes the globals first
\* and leaves through the exit.
FunctionBody(b, d, ps) ==
    LET open  == [Opened([b EXCEPT !.reg = @ + Len(ps)], d.name) EXCEPT !.scopes = <<GlobalScope(b), <<>>>>]
        start == IF d.name = "main" THEN Def(open, "call", <<>>, "void", "global_init").b ELSE open
        bound == Pass(LAMBDA acc, k : Parameter(acc, d.params[k], ps[k]), start, [k \in DOMAIN ps |-> k])
    IN  EndScope(Several(bound, d.body))
FunctionEnd(body) ==
    LET exit == IF body.fn = "main" THEN Def(body, "call", <<>>, "void", "program_exit").b ELSE body
    IN  IF Diverged(body) THEN body ELSE Do(exit, "ret", <<>>, "void", 0)
Finished(b, d, ps, done) == <<Closed(b, done), FunctionIr(d.name, d.ret, ps, BlocksOf(done))>>
Function(b, d) == Finished(b, d, Params(b, d.types), FunctionEnd(FunctionBody(b, d, Params(b, d.types))))

\* An enum: one constructor for each variant, the tag first and the payload
\* behind it.
Constructor(b, ty, k) ==
    LET v     == Enums[ty][k]
        ps    == Params(b, Tail(Classes[v.class]))
        open  == Opened([b EXCEPT !.reg = @ + Len(ps)], v.name)
        shell == Def(open, "allocstruct", <<>>, ty, v.class)
        tag   == Const(shell.b, k - 1)
        at    == FieldAddress(tag.b, shell.v, v.class, 0)
        One(acc, n) == LET to == FieldAddress(acc, shell.v, v.class, n) IN Store(to.b, ps[n][2], to.v, ps[n][1])
        full  == Pass(One, Store(at.b, "i64", at.v, tag.v), [n \in DOMAIN ps |-> n])
        done  == Do(full, "ret", <<shell.v>>, "void", 0)
    IN  <<Closed(b, done), FunctionIr(v.name, ty, ps, BlocksOf(done))>>

\* One declaration after another; acc is <<state of the initializer, functions>>.
Added(acc, made) == <<made[1], Append(acc[2], made[2])>>
Foreign(acc, d) ==
    Added(acc, <<[acc[1] EXCEPT !.reg = @ + Len(d.types)], FunctionIr(d.name, d.ret, Params(acc[1], d.types), <<>>)>>)
Declaration(acc, d) ==
    LET b == acc[1]
        g == b.globals[CHOOSE k \in DOMAIN b.names : b.names[k] = d.name]
    IN  CASE d.k = "function" -> Added(acc, Function(b, d))
          [] d.k = "extern"   -> Foreign(acc, d)
          [] d.k = "enum"     -> Pass(LAMBDA a, k : Added(a, Constructor(a[1], d.name, k)), acc,
                                      [k \in DOMAIN Enums[d.name] |-> k])
          [] d.k = "var"      -> <<IF Diverged(b) THEN b ELSE Var(b, d, g[1]), acc[2]>>

\* Normal exits of main drop the globals, the last initialized first.
Cleanup(b) ==
    LET drops == [k \in DOMAIN b.globals |-> b.globals[Len(b.globals) + 1 - k]]
        owned == SelectSeq(drops, LAMBDA g : Managed(g[2]))
    IN  [k \in DOMAIN owned |-> Instr("dropslot", NoReg, <<owned[k][1]>>, owned[k][2], FALSE)]

\* The module: the declarations first, then the initializer they left behind,
\* the cleanup and the exit.
Start(vars) ==
    [reg |-> Len(vars), block |-> 1, cur |-> 0, blocks |-> (0 :> <<>>), scopes |-> <<<<>>>>, fn |-> "",
     globals |-> [k \in DOMAIN vars |-> <<k - 1, vars[k].ty>>], names |-> [k \in DOMAIN vars |-> vars[k].name]]
Assembled(b, functions) ==
    LET return == Instr("ret", NoReg, <<>>, "void", 0)
        exit   == <<Instr("call", b.reg, <<>>, "void", "global_cleanup"), return>>
    IN  [globals |-> b.globals,
         functions |-> functions \o
            <<FunctionIr("global_init", "void", <<>>, BlocksOf(IF Diverged(b) THEN b ELSE Emit(b, return))),
              FunctionIr("global_cleanup", "void", <<>>, <<Block(b.block, Append(Cleanup(b), return))>>),
              FunctionIr("program_exit", "void", <<>>, <<Block(b.block + 1, exit)>>)>>]
Declared(acc) == Assembled(acc[1], acc[2])
Build(decls) ==
    Declared(Pass(Declaration, <<Start(SelectSeq(decls, LAMBDA d : d.k = "var")), <<>>>>, decls))
=============================================================================
