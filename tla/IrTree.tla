------------------------------- MODULE IrTree -------------------------------
(***************************************************************************)
(* The recursion of ir_builder.rs over the tree: expressions, matches and  *)
(* statements, which contain one another.                                  *)
(*                                                                         *)
(* A statement is [k, name, ty, e, body, orelse]: e holds its expressions  *)
(* (none or one; three of a for loop are in e and body), body and orelse   *)
(* its parts.                                                              *)
(***************************************************************************)
EXTENDS IrBuilder

\* A node of the tree: an expression gives [b, v], a statement the state after it.
RECURSIVE Lower(_, _)

Object(b, e) == Follow(Lower(b, e), e.ty)
IndexBase(b, e) == LoadThrough(Lower(b, e), e.ty)
ElementPlace(base, e, pin) ==
    IF Diverged(base.b) THEN base
    ELSE IndexPlace(base, Lower(PinPlace(base.b, e.kids[1], base.v, pin), e.kids[2]), e, pin)
Place(b, e, pin) ==
    CASE e.k = "var"   -> R(b, Resolve(b, e.x).slot)
      [] e.k = "deref" -> PointerPlace(Lower(b, e.kids[1]), e, pin)
      [] e.k = "index" -> ElementPlace(IndexBase(b, e.kids[1]), e, pin)
      [] e.k = "get"   -> FieldPlace(Object(b, e.kids[1]), e, pin)

\* A produced value whose address is taken lives in a slot of the scope.
BorrowTemporary(b, e) ==
    LET v     == Lower(b, e)
        slot  == Slot(v.b, e.ty)
        kept  == Store(slot.b, e.ty, slot.v, v.v)
        owner == IF Owned(e) THEN Do(kept, "ownerslot", <<slot.v>>, e.ty, "local") ELSE kept
    IN  BorrowAddress(Declare(owner, Entry(<<"#borrow", slot.v>>, slot.v, e.ty, Owned(e), NoReg)),
                      slot.v, e.ty, FALSE)
BorrowPlace(b, e) == Borrowed(Place(b, e, FALSE), e)
-----------------------------------------------------------------------------
(* Expressions.                                                             *)

Assign(b, e) ==
    LET v    == Lower(b, e.kids[1])
        s    == Resolve(v.b, e.x)
        own  == IF s.owning \/ Owned(e.kids[1])
                THEN Do(IF Obliged(e.kids[1]) THEN v.b ELSE Acquire(v.b, v.v),
                        "dropslot", <<s.slot>>, s.ty, TRUE)
                ELSE v.b
    IN  R(Store(own, s.ty, s.slot, v.v), v.v)

Cast(b, e) ==
    LET v == Lower(b, e.kids[1])
    IN  Def(v.b, IF Owned(e.kids[1]) /\ Obliged(e.kids[1]) THEN "ownedcast" ELSE "cast", <<v.v>>, e.ty, 0)
Step1(b, e) == Stepped(Place(BeginScope(b), e.kids[1], TRUE), e)

Negate(b, e) ==
    IF e.kids[1].k = "int" THEN Const(b, -e.kids[1].x)
    ELSE LET v == Lower(b, e.kids[1])
             zero == Const(v.b, 0)
         IN  Def(zero.b, "sub", <<zero.v, v.v>>, "i64", 0)

Not(b, e) ==
    LET v == Lower(b, e.kids[1])
        zero == Const(v.b, 0)
    IN  Def(zero.b, "cmpeq", <<v.v, zero.v>>, "i64", 0)

\* Whether two handles are the same object; what was produced is held.
SameObject(b, e) ==
    LET l  == Lower(BeginScope(b), e.kids[1])
        hl == HoldExpr(l.b, e.kids[1], l.v)
        r  == Lower(hl, e.kids[2])
        hr == HoldExpr(r.b, e.kids[2], r.v)
        d  == Def(hr, e.k, <<l.v, r.v>>, "i64", 0)
    IN  IF Diverged(l.b) THEN R(EndScope(l.b), l.v)
        ELSE IF Diverged(r.b) THEN R(EndScope(r.b), r.v)
        ELSE R(EndScope(d.b), d.v)
RightOperand(l, e) == Operator2(l, Lower(l.b, e.kids[2]), e)
Binary(b, e) == RightOperand(Lower(b, e.kids[1]), e)

Coalesce(b, e) ==
    LET l    == Lower(b, e.kids[1])
        slot == Slot(l.b, e.ty)
        zero == Const(Store(slot.b, e.ty, slot.v, l.v), 0)
        some == Def(zero.b, "cmpneq", <<l.v, zero.v>>, "i64", 0)
        n    == NewBlocks(some.b, 2)
        rhs  == some.b.block
        r    == Lower(At(Branch(n, some.v, rhs + 1, rhs), rhs), e.kids[2])
        end  == At(Jump(Store(r.b, e.ty, slot.v, r.v), rhs + 1), rhs + 1)
    IN  Def(end, "load", <<slot.v>>, e.ty, 0)

\* Logical operators: the right side has a block of its own.
Logical(b, e) ==
    LET slot == Slot(b, "bool")
        l    == Lower(slot.b, e.kids[1])
        n    == NewBlocks(l.b, 2)
        rhs  == l.b.block
        kept == Store(n, "bool", slot.v, l.v)
        r    == Lower(At(IF e.k = "and" THEN Branch(kept, l.v, rhs, rhs + 1)
                                       ELSE Branch(kept, l.v, rhs + 1, rhs), rhs), e.kids[2])
        end  == At(Jump(Store(r.b, "bool", slot.v, r.v), rhs + 1), rhs + 1)
    IN  Def(end, "load", <<slot.v>>, "bool", 0)
-----------------------------------------------------------------------------
(* Calls and aggregates.                                                    *)

\* Arguments from left to right, each held until the call takes it over.
RECURSIVE Arguments(_, _, _)
Arguments(b, es, regs) ==
    IF es = <<>> THEN [b |-> b, v |-> NoReg, regs |-> regs]
    ELSE LET v == Lower(b, Head(es))
         IN  IF Diverged(v.b) THEN [b |-> v.b, v |-> v.v, regs |-> regs]
             ELSE Arguments(HoldExpr(v.b, Head(es), v.v), Tail(es), Append(regs, v.v))

Call(b, e) ==
    LET args == Arguments(BeginScope(b), e.kids, <<>>)
        call == IF e.x \in DOMAIN Classes THEN Construct(args.b, e.x, args.regs)
                ELSE Def(TransferArguments(args.b), "call", args.regs, e.ty, e.x)
        done == EndScope(call.b)
    IN  IF Diverged(args.b) THEN R(EndScope(args.b), args.v)
        ELSE R(IF e.x \in {"panic", "exit"} THEN Do(done, "unreachable", <<>>, "void", 0) ELSE done, call.v)
Get(b, e) == FieldValue(Object(b, e.kids[1]), e)
SetOn(o, e) ==
    IF Diverged(o.b) THEN R(EndScope(o.b), o.v)
    ELSE FieldSet(Lower(NullCheck(HoldExpr(o.b, e.kids[1], o.v), o.v), e.kids[2]), o.v, e)
Set(b, e) == SetOn(Object(BeginScope(b), e.kids[1]), e)

\* Elements: the base is held and checked before the index is evaluated.
Indexed(b, e) ==
    LET base == IndexBase(BeginScope(b), e.kids[1])
        idx  == Lower(NullCheck(HoldExpr(base.b, e.kids[1], base.v), base.v), e.kids[2])
    IN  IF Diverged(base.b) THEN [b |-> base.b, base |-> base.v, v |-> base.v]
        ELSE IF Diverged(idx.b) THEN [b |-> idx.b, base |-> base.v, v |-> idx.v]
        ELSE [b |-> BoundsCheck(idx.b, base.v, idx.v), base |-> base.v, v |-> idx.v]

SubscriptGet(b, e) == ElementValue(Indexed(b, e), e)

ElementSet(i, e) ==
    LET v  == Lower(i.b, e.kids[3])
        at == ElementAddress(v.b, i.base, i.v, Arrays[Behind(e.kids[1].ty)])
    IN  IF Diverged(i.b) THEN R(EndScope(i.b), i.v)
        ELSE IF Diverged(v.b) THEN R(EndScope(v.b), v.v)
        ELSE Replace(at.b, e, e.kids[3], at.v, v.v, Pinned(e.kids[1]))
SubscriptSet(b, e) == ElementSet(Indexed(b, e), e)

\* Parts of a shell, one after the other; a field without one is zero.
RECURSIVE Fill(_, _, _, _, _)
Fill(b, shell, class, types, es) ==
    IF es = <<>> THEN b
    ELSE LET k  == Len(types) - Len(es)
             v  == IF Head(es).k = "default" THEN Const(b, 0) ELSE Lower(b, Head(es))
             at == FieldAddress(Own(v.b, Head(es), v.v), shell, class, k)
         IN  IF Diverged(v.b) THEN v.b
             ELSE Fill(Store(at.b, types[k + 1], at.v, v.v), shell, class, types, Tail(es))

Aggregate(shell, e, types) ==
    LET pin  == BeginConstruction(shell.b, shell.v, e.ty)
        full == Fill(pin.b, shell.v, e.ty, types, e.kids)
    IN  R(IF Diverged(full) THEN EndScope(full) ELSE FinishConstruction(full, pin.v, shell.v, e.ty), shell.v)

StructInit(b, e) ==
    Aggregate(Def(b, "allocstruct", <<>>, e.ty, e.ty), e, Classes[e.ty])
ArrayLiteral(b, e) ==
    LET size == Const(b, Len(e.kids))
    IN  Aggregate(Def(size.b, "allocarray", <<size.v>>, Arrays[e.ty], 0), e,
                  [k \in DOMAIN e.kids |-> Arrays[e.ty]])

Ternary(b, e) ==
    LET slot == ResultSlot(b, e.ty)
        c    == Lower(slot.b, e.kids[1])
        yes  == c.b.block
        fork == Branch(NewBlocks(c.b, 3), c.v, yes, yes + 1)
        Arm(at, k) ==
            LET v == Lower(at, e.kids[k])
            IN  IF Diverged(v.b) THEN v.b ELSE Jump(GiveResult(v.b, e.kids[k], slot.v, e.ty, v.v), yes + 2)
        both == Arm(At(Arm(At(fork, yes), 2), yes + 1), 3)
    IN  TakeResult(At(both, yes + 2), slot.v, e.ty)

Dereference(b, e) ==
    LET p == Lower(b, e.kids[1])
    IN  Def(NullCheck(p.b, p.v), "load", <<p.v>>, e.ty, 0)

DereferenceSet(b, e) ==
    LET p == Lower(b, e.kids[1])
        v == Lower(NullCheck(p.b, p.v), e.kids[2])
    IN  R(Store(ReplaceSlot(v.b, p.v, v.v, e.kids[2], e.ty), e.ty, p.v, v.v), v.v)

\* The memory operations of the library: exchange the value of a cell, and
\* another edge to the object a shared handle keeps.
ReplaceValue(b, e) ==
    LET cell == Lower(b, e.kids[1])
        new  == Lower(cell.b, e.kids[2])
    IN  Def(new.b, "swap", <<cell.v, new.v>>, e.ty, 0)

SharedClone(b, e) ==
    LET cell == Lower(b, e.kids[1])
        v    == Def(cell.b, "load", <<cell.v>>, e.ty, 0)
    IN  R(Do(v.b, "acquire", <<v.v>>, "ptr", "backing"), v.v)
-----------------------------------------------------------------------------
(* Patterns and matches.                                                    *)

\* bind_value: a cell of its own for a name; an owner when the type needs one.
BindValue(b, name, value, ty) ==
    LET slot  == Slot(b, ty)
        kept  == Store(slot.b, ty, slot.v, value)
        owner == IF Managed(ty) THEN Do(kept, "ownerslot", <<slot.v>>, ty, "local") ELSE kept
    IN  Declare(owner, Entry(name, slot.v, ty, Managed(ty), NoReg))

Variant(ty, name) == CHOOSE k \in DOMAIN Enums[ty] : Enums[ty][k].name = name
Payload(ty, name) == Tail(Classes[Enums[ty][Variant(ty, name)].class])

\* test_pattern: without effects on ownership, one way out for failure.
PatternBranch(b, c, fail) ==
    At(Branch(NewBlocks(b, 1), c, b.block, fail), b.block)
TestPattern(b, pat, matched, ty, fail) ==
    CASE pat.p = "variant" ->
            LET tag  == Def(NullCheck(b, matched), "load", <<matched>>, "i64", 0)
                want == Const(tag.b, Variant(ty, pat.name) - 1)
                same == Def(want.b, "cmpeq", <<tag.v, want.v>>, "i64", 0)
            IN  PatternBranch(same.b, same.v, fail)
      [] pat.p = "int" ->
            LET want == Normalize(Const(b, pat.n), ty)
                same == Def(want.b, "cmpeq", <<matched, want.v>>, "i64", 0)
            IN  PatternBranch(same.b, same.v, fail)
      [] OTHER -> b

\* bind_pattern of a variant: a consuming match moves what the payload owns
\* out of its cell, a borrowing one sees it or binds the cell itself.
BindPayload(b, pat, matched, ty, consuming) ==
    LET types == Payload(ty, pat.name)
        One(acc, k) ==
            LET at   == FieldAddress(acc, matched, Enums[ty][Variant(ty, pat.name)].class, k)
                mode == IF consuming /\ Managed(types[k]) THEN "move" ELSE "observe"
                v    == Def(at.b, "read", <<at.v>>, types[k], mode)
            IN  IF IsRef(pat.binds[k].ty) THEN BindValue(at.b, pat.binds[k].name, at.v, pat.binds[k].ty)
                ELSE BindValue(v.b, pat.binds[k].name, v.v, types[k])
    IN  Pass(One, b, [k \in DOMAIN pat.binds |-> k])

\* The scrutinee: what stands behind the references, in a slot that owns it.
MatchInput(b, e) ==
    LET value == e.kids[1]
        input == Lower(BeginScope(b), value)
        seen  == LoadThrough(input, value.ty)
        slot  == Slot(Own(seen.b, value, seen.v), value.ty)
        kept  == Do(Store(slot.b, value.ty, slot.v, seen.v), "ownerslot", <<slot.v>>, value.ty, "local")
        entry == Entry(<<"#match", slot.v>>, slot.v, value.ty, TRUE, NoReg)
    IN  IF Owned(value)
        THEN [b |-> Declare(kept, entry), input |-> input.v, v |-> seen.v, owner |-> slot.v]
        ELSE [b |-> seen.b, input |-> input.v, v |-> seen.v, owner |-> NoReg]

\* The names a pattern binds: a consuming match takes the value over.
BindPattern(b, pat, e, m) ==
    LET from      == e.kids[1].ty
        consuming == ~IsRef(from)
        taken     == IF m.owner = NoReg THEN b ELSE Do(b, "transfer", <<m.owner, m.v>>, from, 0)
    IN  CASE pat.p = "variant"            -> BindPayload(b, pat, m.v, Behind(from), consuming)
          [] pat.p = "bind" /\ consuming  -> BindValue(taken, pat.name, m.v, from)
          [] pat.p = "bind" /\ ~consuming -> BindValue(b, pat.name, m.input, from)
          [] OTHER -> b

\* A guard that fails leaves the scope of the case for the next one.
Guarded(c, scope, next) ==
    LET fork == Branch(NewBlocks(c.b, 2), c.v, c.b.block, c.b.block + 1)
        no   == EmitReleases(At(fork, c.b.block + 1), scope)
    IN  At(Jump(no, next), c.b.block)

\* The last expression of a case is its value.
CaseValue(v, last, slot, ty) == IF Diverged(v.b) THEN v.b ELSE GiveResult(v.b, last, slot, ty, v.v)
CaseBody(b, body, slot, ty) ==
    Pass(LAMBDA acc, k :
            IF Diverged(acc) THEN acc
            ELSE IF k = Len(body) /\ body[k].k = "expr" THEN CaseValue(Lower(acc, body[k].e[1]), body[k].e[1], slot, ty)
            ELSE Lower(acc, body[k]),
         b, [k \in DOMAIN body |-> k])

\* acc is <<state, some case reached the end>>.
CaseLeft(body, next, end, reached) ==
    IF Diverged(body) THEN <<At(body, next), reached>> ELSE <<At(Jump(body, end), next), TRUE>>
CaseRun(bound, c, e, slot, next) ==
    EndScope(CaseBody(IF c.guard = <<>> THEN bound ELSE Guarded(Lower(bound, c.guard[1]), Last1(bound.scopes), next),
                c.body, slot, e.ty))
MatchCase(e, m, slot, end, acc, c) ==
    LET next == acc[1].block
        test == TestPattern(NewBlocks(acc[1], 1), c.pat, m.v, Behind(e.kids[1].ty), next)
    IN  CaseLeft(CaseRun(BindPattern(BeginScope(test), c.pat, e, m), c, e, slot, next), next, end, acc[2])

\* No case left is a panic; a match none of whose cases ends has no value.
MatchEnd(cases, end, slot, ty) ==
    LET after == At(Panic(cases[1], "match"), end)
        value == TakeResult(after, slot, ty)
    IN  IF cases[2] THEN R(EndScope(value.b), value.v)
        ELSE R([Do(after, "unreachable", <<>>, "void", 0) EXCEPT !.scopes = Front(@)], NoReg)
MatchCases(e, m, slot) ==
    MatchEnd(Pass(LAMBDA acc, c : MatchCase(e, m, slot.v, slot.b.block, acc, c),
                  <<NewBlocks(slot.b, 1), FALSE>>, e.x),
             slot.b.block, slot.v, e.ty)
MatchOn(e, m) == MatchCases(e, m, ResultSlot(m.b, e.ty))
Match(b, e)   == MatchOn(e, MatchInput(b, e))
-----------------------------------------------------------------------------
(* lower_expr: how the value is used decides first, then what it is.        *)

LowerExpr(b, e) ==
    CASE e.use = "temporary" -> BorrowTemporary(b, [e EXCEPT !.use = "value"])
      [] e.use \in {"borrow", "borrowmut"} /\ ~IsRef(e.ty) -> BorrowPlace(b, e)
      [] OTHER ->
         CASE e.k = "var"      -> ReadVariable(b, e)
           [] e.k = "array"    -> ArrayLiteral(b, e)
           [] e.k = "struct"   -> StructInit(b, e)
           [] e.k = "get"      -> Normalize(Get(b, e), e.ty)
           [] e.k = "set"      -> Normalize(Set(b, e), e.ty)
           [] e.k = "index"    -> Normalize(SubscriptGet(b, e), e.ty)
           [] e.k = "setindex" -> Normalize(SubscriptSet(b, e), e.ty)
           [] e.k = "int"      -> Normalize(Const(b, e.x), e.ty)
           [] e.k = "bool"     -> Normalize(Def(b, "constbool", <<>>, "bool", e.x), e.ty)
           [] e.k = "text"     -> Def(b, "conststring", <<>>, "ptr", e.x)
           [] e.k = "assign"   -> Normalize(Assign(b, e), e.ty)
           [] e.k = "call"     -> Normalize(Call(b, e), e.ty)
           [] e.k = "ternary"  -> Normalize(Ternary(b, e), e.ty)
           [] e.k = "match"    -> Normalize(Match(b, e), e.ty)
           [] e.k = "deref"    -> Normalize(Dereference(b, e), e.ty)
           [] e.k = "setderef" -> Normalize(DereferenceSet(b, e), e.ty)
           [] e.k = "swap"     -> Normalize(ReplaceValue(b, e), e.ty)
           [] e.k = "clone"    -> SharedClone(b, e)
           [] e.k = "coalesce" -> Coalesce(b, e)
           [] e.k = "cast"     -> Normalize(Cast(b, e), e.ty)
           [] e.k = "neg"      -> Normalize(Negate(b, e), e.ty)
           [] e.k = "not"      -> Normalize(Not(b, e), e.ty)
           [] e.k \in {"incr", "decr"} -> Normalize(Step1(b, e), e.ty)
           [] e.k \in {"and", "or"}    -> Normalize(Logical(b, e), e.ty)
           [] e.k \in {"cmpeq", "cmpneq"} /\ Owned(e.kids[1]) -> Normalize(SameObject(b, e), e.ty)
           [] OTHER            -> Normalize(Binary(b, e), e.ty)
-----------------------------------------------------------------------------
(* Statements.  Nothing is lowered after a terminator.                      *)

Discarded(v, e) ==
    IF ~Diverged(v.b) /\ Owned(e) /\ Obliged(e) THEN DropTemporary(v.b, v.v) ELSE v.b
Discard(b, e) == Discarded(Lower(b, e), e)

\* A slot of a variable owns from its declaration on and is empty first; the
\* name is known only after its initializer.
Kept(v, s, slot) ==
    LET edge == IF Managed(s.ty) /\ ~Obliged(s.e[1]) THEN Acquire(v.b, v.v) ELSE v.b
    IN  IF Diverged(v.b) THEN v.b
        ELSE Declare(Store(edge, s.ty, slot, v.v), Entry(s.name, slot, s.ty, Managed(s.ty), NoReg))
Var(b, s, slot) ==
    LET cell == Emit(b, Instr("alloca", slot, <<>>, s.ty, 0))
        own  == IF Managed(s.ty) THEN Do(cell, "ownerslot", <<slot>>, s.ty, "local") ELSE cell
        zero == Const(own, 0)
    IN  Kept(Lower(Store(zero.b, s.ty, slot, zero.v), s.e[1]), s, slot)

Returned(v, s) ==
    LET left == EmitAllReleases(IF s.e = <<>> THEN v.b ELSE Own(v.b, s.e[1], v.v))
        exit == IF v.b.fn = "main" THEN Def(left, "call", <<>>, "void", "program_exit").b ELSE left
        void == s.e = <<>> \/ s.e[1].ty = "void"
    IN  IF Diverged(v.b) THEN v.b ELSE Do(exit, "ret", IF void THEN <<>> ELSE <<v.v>>, "void", 0)
Return(b, s) == Returned(IF s.e = <<>> THEN R(b, NoReg) ELSE Lower(b, s.e[1]), s)

Several(b, body) == Pass(Lower, b, body)
Scoped(b, body)  == EndScope(Several(BeginScope(b), body))
JumpUnlessDiverged(b, id)    == IF Diverged(b) THEN b ELSE Jump(b, id)

\* Both ways meet behind the statement; nothing does if neither arrives.
IfEnd(then, else, merge) ==
    IF Diverged(then) /\ Diverged(else)
    THEN Do(At(else, merge), "unreachable", <<>>, "void", 0)
    ELSE At(JumpUnlessDiverged(else, merge), merge)
IfElse(then, s, yes) ==
    IF s.orelse = <<>> THEN At(JumpUnlessDiverged(then, yes + 1), yes + 1)
    ELSE IfEnd(then, Several(At(JumpUnlessDiverged(then, yes + 1), yes + 2), s.orelse), yes + 1)
IfFork(c, s) ==
    LET yes == c.b.block
        two == s.orelse # <<>>
    IN  IfElse(Several(At(Branch(NewBlocks(c.b, IF two THEN 3 ELSE 2), c.v, yes,
                                 IF two THEN yes + 2 ELSE yes + 1), yes), s.body), s, yes)
If(b, s) == IfFork(Lower(b, s.e[1]), s)

\* A loop has a test, a body and an end, three blocks from `test` on.
LoopStart(b) == At(Jump(NewBlocks(b, 3), b.block), b.block)
LoopBack(body, test)   == At(JumpUnlessDiverged(body, test), test + 2)
LoopFork(c, test)      == At(Branch(c.b, c.v, test + 1, test + 2), test + 1)
While(b, s) ==
    LoopBack(Several(LoopFork(Lower(LoopStart(b), s.e[1]), b.block), s.body), b.block)

\* for (init; test; step) body: e is <<test, step>> or <<step>> without a test,
\* and without one nothing comes behind the loop.
ForStep(body, s, test) ==
    EndScope(At(IF Diverged(body) THEN body ELSE Jump(Discard(body, Last1(s.e)), test), test + 2))
ForBody(init, s) ==
    Scoped(IF Len(s.e) = 1 THEN At(Jump(LoopStart(init), init.block + 1), init.block + 1)
           ELSE LoopFork(Lower(LoopStart(init), s.e[1]), init.block), s.body)
ForLoop(init, s) == ForStep(ForBody(init, s), s, init.block)
ForEnd(done, s) == IF Len(s.e) = 1 THEN Do(done, "unreachable", <<>>, "void", 0) ELSE done
For(b, s) == ForEnd(ForLoop(Several(BeginScope(b), s.orelse), s), s)

\* for (item in array): the iterator owns what was produced for the loop, the
\* length is read once, a borrowed item binds the address of its element.
Iterator(arr, over) ==
    LET it   == Slot(arr.b, Behind(over.ty))
        kept == Store(it.b, Behind(over.ty), it.v, arr.v)
    IN  Declare(IF Obliged(over) THEN Do(kept, "ownerslot", <<it.v>>, over.ty, "local")
                ELSE Do(kept, "viewslot", <<it.v>>, over.ty, 0),
                Entry(<<"#forin", it.v>>, it.v, over.ty, Obliged(over), NoReg))
ArrayLength(b, base) ==
    LET minus == Const(NullCheck(b, base), -1)
        at    == ElementAddress(minus.b, base, minus.v, "i64")
    IN  Def(at.b, "load", <<at.v>>, "i64", 0)
\* The counter starts at nothing; its block is the test of the loop.
Counter(b) ==
    LET count == Slot(b, "i64")
        zero  == Const(count.b, 0)
    IN  R(Store(zero.b, "i64", count.v, zero.v), count.v)
ForInTest(base, len, count, test) ==
    LET start == Jump(NewBlocks(count.b, 3), test)
        i     == Def(At(start, test), "load", <<count.v>>, "i64", 0)
        more  == Def(i.b, "cmplt", <<i.v, len>>, "i64", 0)
    IN  R(BeginScope(At(Branch(more.b, more.v, test + 1, test + 2), test + 1)), i.v)
ForInItem(in, base, elem, s) ==
    LET at   == ElementAddress(in.b, base, in.v, elem)
        item == Def(at.b, "load", <<at.v>>, elem, 0)
    IN  IF IsRef(s.ty) THEN BindValue(item.b, s.name, at.v, s.ty) ELSE BindValue(item.b, s.name, item.v, elem)
ForInNext(body, count, test) ==
    LET one  == Const(body, 1)
        last == Def(one.b, "load", <<count>>, "i64", 0)
        next == Def(last.b, "add", <<last.v, one.v>>, "i64", 0)
        back == IF Diverged(body) THEN body ELSE Jump(Store(next.b, "i64", count, next.v), test)
    IN  EndScope(At(back, test + 2))
ForInLoop(base, len, count, s) ==
    LET test == count.b.block
        item == ForInItem(ForInTest(base, len, count, test), base, Arrays[Behind(s.e[1].ty)], s)
    IN  ForInNext(EndScope(Several(item, s.body)), count.v, test)
ForInOver(arr, s) ==
    LET len == ArrayLength(Iterator(arr, s.e[1]), arr.v)
    IN  ForInLoop(arr.v, len.v, Counter(len.b), s)
ForIn(b, s) == ForInOver(IndexBase(BeginScope(b), s.e[1]), s)

\* for (n in from..to): the bounds are read once; what counts is a cell apart
\* from the variable, and stops below the end.
RangeCell(hi, lo, ty) ==
    LET cell  == Slot(hi.b, ty)
        limit == Slot(Store(cell.b, ty, cell.v, lo), ty)
        end   == Def(Store(limit.b, ty, limit.v, hi.v), "load", <<limit.v>>, ty, 0)
    IN  [b |-> end.b, cell |-> cell.v, end |-> end.v]
RangeTest(c, ty) ==
    LET test == c.b.block
        now  == Def(At(Jump(NewBlocks(c.b, 3), test), test), "load", <<c.cell>>, ty, 0)
        more == Def(now.b, "cmplt", <<now.v, c.end>>, ty, 0)
    IN  R(BeginScope(At(Branch(more.b, more.v, test + 1, test + 2), test + 1)), now.v)
RangeNext(body, now, cell, test, ty) ==
    LET one  == Const(body, 1)
        next == Def(one.b, "add", <<now, one.v>>, "i64", 0)
        back == IF Diverged(body) THEN body ELSE Jump(Store(next.b, ty, cell, next.v), test)
    IN  EndScope(At(back, test + 2))
RangeBody(in, c, s) ==
    RangeNext(EndScope(Several(BindValue(in.b, s.name, in.v, s.e[1].ty), s.body)), in.v, c.cell, c.b.block, s.e[1].ty)
RangeFrom(c, s) == RangeBody(RangeTest(c, s.e[1].ty), c, s)
RangeTo(lo, s) == RangeFrom(RangeCell(Lower(lo.b, s.e[2]), lo.v, s.e[1].ty), s)
RangeLoop(b, s) == RangeTo(Lower(BeginScope(b), s.e[1]), s)

LowerStmt(b, s) ==
    CASE Diverged(b)     -> b
      [] s.k = "expr"    -> Discard(b, s.e[1])
      [] s.k = "var"     -> Var([b EXCEPT !.reg = @ + 1], s, b.reg)
      [] s.k = "return"  -> Return(b, s)
      [] s.k = "block"   -> Scoped(b, s.body)
      [] s.k = "if"      -> If(b, s)
      [] s.k = "while"   -> While(b, s)
      [] s.k = "for"     -> For(b, s)
      [] s.k = "forin"   -> ForIn(b, s)
      [] s.k = "forrange" -> RangeLoop(b, s)

Lower(b, node) == IF "body" \in DOMAIN node THEN LowerStmt(b, node) ELSE LowerExpr(b, node)
=============================================================================
