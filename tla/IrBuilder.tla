----------------------------- MODULE IrBuilder -----------------------------
(***************************************************************************)
(* ir_builder.rs: from the checked syntax tree, with the annotations of    *)
(* the type checker and of the source ownership plan, to instructions with *)
(* explicit ownership operations.                                          *)
(*                                                                         *)
(* A node of the tree is [k, ty, kids, x, kind, use]: what it is, its      *)
(* checked type, its parts, a name or a literal, the kind of value the     *)
(* plan gives it (copy, observe, move, produced), and how it is used:      *)
(* value, move (the plan consumes the place), borrow and borrowmut (its    *)
(* address is taken), temporary (a produced value whose address is taken). *)
(*                                                                         *)
(* A builder state b is [reg, block, cur, blocks, scopes, fn]; the         *)
(* lowering of an expression is [b, v], the state after it and the         *)
(* register of its value.  This module has the parts that are lowered      *)
(* without looking at another expression; IrTree puts them together.       *)
(***************************************************************************)
EXTENDS Ir

CONSTANTS
    LeastWord    \* the least signed word, which -1 must not divide

Obliged(e)    == e.kind \in {"move", "produced"}      \* has_result_obligation
Owned(e)      == Managed(e.ty)                        \* infer_is_arc
R(b, v)       == [b |-> b, v |-> v]

Diverged(b)   == b.blocks[b.cur] # <<>> /\ IsTerminator(Last1(b.blocks[b.cur]))

\* Emission: an instruction, one that defines a new register, new blocks.
Emit(b, i) == [b EXCEPT !.blocks[b.cur] = Append(@, i)]
Do(b, op, args, ty, x) == Emit(b, Instr(op, NoReg, args, ty, x))
Def(b, op, args, ty, x) ==
    R(Emit([b EXCEPT !.reg = @ + 1], Instr(op, b.reg, args, ty, x)), b.reg)
Const(b, n) == Def(b, "const", <<>>, "i64", n)
NewBlocks(b, n) ==
    [b EXCEPT !.block = @ + n, !.blocks = [id \in b.block .. b.block + n - 1 |-> <<>>] @@ @]
At(b, id)     == [b EXCEPT !.cur = id]
Jump(b, id)   == Do(b, "br", <<>>, "void", <<id>>)
Branch(b, c, yes, no) == Do(b, "condbr", <<c>>, "void", <<yes, no>>)

\* A panic in a block of its own: the message, the call, no way on.
Panic(b, message) ==
    LET text == Def(b, "conststring", <<>>, "ptr", message)
        call == Def(text.b, "call", <<text.v>>, "void", "panic")
    IN  Do(call.b, "unreachable", <<>>, "void", 0)

\* Continue where the condition holds and panic where it does not.
Check(b, c, message) ==
    LET n == NewBlocks(b, 2)
        fail == Panic(At(Branch(n, c, b.block, b.block + 1), b.block + 1), message)
    IN  At(fail, b.block)

NullCheck(b, ptr) ==
    LET zero == Const(b, 0)
        some == Def(zero.b, "cmpneq", <<ptr, zero.v>>, "i64", 0)
    IN  Check(some.b, some.v, "null")

\* The length lies one word before the first element.
BoundsCheck(b, ptr, idx) ==
    LET minus == Const(b, -1)
        at    == Def(minus.b, "gep", <<ptr, minus.v>>, "i64", "element")
        limit == Def(at.b, "load", <<at.v>>, "i64", 0)
        zero  == Const(limit.b, 0)
        upper == Def(zero.b, "cmplt", <<idx, limit.v>>, "i64", 0)
        n     == NewBlocks(upper.b, 3)
        low   == upper.b.block
        low2  == Def(At(Branch(n, upper.v, low, low + 1), low), "cmpge", <<idx, zero.v>>, "i64", 0)
        fail  == Panic(At(Branch(low2.b, low2.v, low + 2, low + 1), low + 1), "bounds")
    IN  At(fail, low + 2)
-----------------------------------------------------------------------------
(* Scopes, owner slots and pins.  A scope lists its slots in the order of   *)
(* their declaration; a pin is a slot the builder made for the value of an  *)
(* expression.                                                              *)

Entry(name, slot, ty, owning, pin) ==
    [name |-> name, slot |-> slot, ty |-> ty, owning |-> owning, pin |-> pin]

BeginScope(b) == [b EXCEPT !.scopes = Append(@, <<>>)]
IsGlobal(b, slot) == \E k \in DOMAIN b.globals : b.globals[k][1] = slot

EmitReleases(b, scope) ==
    Pass(LAMBDA acc, e : IF e.owning /\ ~IsGlobal(b, e.slot)
                             THEN Do(acc, "dropslot", <<e.slot>>, e.ty, TRUE) ELSE acc,
             b, Reverse(scope))

EndScope(b) ==
    LET popped == [b EXCEPT !.scopes = Front(@)]
    IN  IF Diverged(b) THEN popped ELSE EmitReleases(popped, Last1(b.scopes))

\* A mutant: a return leaves the innermost scope only.
EmitInnerReleases(b) == EmitReleases(b, Last1(b.scopes))
\* A return leaves every scope, the innermost first.
EmitAllReleases(b) == Pass(EmitReleases, b, Reverse(b.scopes))

Declare(b, e) == [b EXCEPT !.scopes[Len(b.scopes)] = SelectSeq(@, LAMBDA o : o.name # e.name) \o <<e>>]

Named(scope, name) == {k \in DOMAIN scope : scope[k].name = name}
Bound(b, name)   == \E k \in DOMAIN b.scopes : Named(b.scopes[k], name) # {}
Resolve(b, name) ==
    LET k == Max({n \in DOMAIN b.scopes : Named(b.scopes[n], name) # {}})
    IN  b.scopes[k][CHOOSE n \in Named(b.scopes[k], name) : TRUE]

Slot(b, ty) == Def(b, "alloca", <<>>, ty, 0)
Store(b, ty, ptr, value) == Do(b, "store", <<ptr, value>>, ty, 0)
Acquire(b, value) == Do(b, "acquire", <<value>>, "ptr", "evaluation")
DropTemporary(b, value) == Do(b, "dropvalue", <<value>>, "ptr", "temporary")

\* A value that must stay an edge of its own until the scope ends.
Hold(b, value, ty, kind) ==
    LET slot  == Slot(b, ty)
        owner == Do(Store(slot.b, ty, slot.v, value), "ownerslot", <<slot.v>>, ty, kind)
    IN  R(Declare(owner, Entry(<<"#owner", slot.v>>, slot.v, ty, TRUE, value)), slot.v)

HoldExpr(b, e, value) == IF Owned(e) /\ Obliged(e) THEN Hold(b, value, e.ty, "temporary").b ELSE b

\* The pins of the innermost scope go to the callee.
TransferArguments(b) ==
    Pass(LAMBDA acc, e : IF e.pin # NoReg THEN Do(acc, "transfer", <<e.slot, e.pin>>, e.ty, 0) ELSE acc,
             b, Last1(b.scopes))

\* A shell owns its parts from before the first of them is evaluated.
BeginConstruction(b, value, ty) == Hold(BeginScope(b), value, ty, "construction")
FinishConstruction(b, pin, value, ty) == EndScope(Do(b, "transfer", <<pin, value>>, ty, 0))

\* A value that takes a place in an owner: an edge of its own if it has none.
Own(b, e, value) == IF Owned(e) /\ ~Obliged(e) THEN Acquire(b, value) ELSE b

ReplaceSlot(b, slot, value, e, ty) ==
    IF Managed(ty)
    THEN Do(IF Obliged(e) THEN b ELSE Acquire(b, value), "dropslot", <<slot>>, ty, FALSE)
    ELSE b
-----------------------------------------------------------------------------
(* Places.                                                                  *)

\* lower_object: the object behind a chain of references.
RECURSIVE Follow(_, _)
Follow(r, ty) ==
    IF IsRef(ty) THEN Follow(Def(NullCheck(r.b, r.v), "load", <<r.v>>, Pointee[ty], 0), Pointee[ty]) ELSE r

\* lower_index_base: the same without the checks.
RECURSIVE LoadThrough(_, _)
LoadThrough(r, ty) ==
    IF IsRef(ty) THEN LoadThrough(Def(r.b, "load", <<r.v>>, Pointee[ty], 0), Pointee[ty]) ELSE r

\* Addresses of elements and of fields: base_ty is the element type or the class.
ElementAddress(b, base, index, elem) == Def(b, "gep", <<base, index>>, elem, "element")
FieldAddress(b, base, class, index) ==
    LET i == Const(b, index)
    IN  IF class \in DOMAIN Arrays THEN ElementAddress(i.b, base, i.v, Arrays[class])
        ELSE Def(i.b, "gep", <<base, i.v>>, class, "field")

\* lower_place: with `pin` the owner of the place is held for the operation,
\* without it a produced owner is dropped once the address is known.
PinOrDrop(b, e, value, pin) ==
    IF pin \/ ~(Owned(e) /\ Obliged(e)) THEN b ELSE DropTemporary(b, value)
PinPlace(b, e, value, pin) == IF pin THEN HoldExpr(b, e, value) ELSE b
IndexPlace(base, idx, e, pin) ==
    LET ok == BoundsCheck(NullCheck(idx.b, base.v), base.v, idx.v)
        at == ElementAddress(ok, base.v, idx.v, Arrays[Behind(e.kids[1].ty)])
    IN  IF Diverged(idx.b) THEN idx ELSE R(PinOrDrop(at.b, e.kids[1], base.v, pin), at.v)
FieldPlace(o, e, pin) ==
    LET at == FieldAddress(NullCheck(PinPlace(o.b, e.kids[1], o.v, pin), o.v), o.v, Behind(e.kids[1].ty), e.x)
    IN  IF Diverged(o.b) THEN o ELSE R(PinOrDrop(at.b, e.kids[1], o.v, pin), at.v)
PointerPlace(o, e, pin) == R(IF Diverged(o.b) THEN o.b ELSE PinPlace(o.b, e.kids[1], o.v, pin), o.v)

BorrowAddress(b, source, ty, mutable) == Def(b, "borrow", <<source>>, RefTo(ty), mutable)

Borrowed(at, e) == BorrowAddress(at.b, at.v, e.ty, e.use = "borrowmut")

\* Reading a variable: the plan says whether it is moved, copied or observed.
ReadVariable(b, e) ==
    Def(b, "read", <<Resolve(b, e.x).slot>>, e.ty,
        IF e.use = "move" THEN "move" ELSE IF e.kind = "copy" THEN "copy" ELSE "observe")

\* A scalar result takes its declared width and goes on as a word.
Normalize(r, ty) ==
    IF Diverged(r.b) \/ ty \notin Scalars THEN r
    ELSE LET n == Def(r.b, "cast", <<r.v>>, ty, 0)
         IN  IF ty \in Narrow THEN Def(n.b, "cast", <<n.v>>, "i64", 0) ELSE n

-----------------------------------------------------------------------------
(* Parts of expressions, once their operands are lowered.                   *)

\* ++ and --: the place is read and written in a scope of its own.
Stepped(at, e) ==
    LET old == Def(at.b, "load", <<at.v>>, e.ty, 0)
        one == Const(old.b, 1)
        new == Def(one.b, IF e.k = "incr" THEN "add" ELSE "sub", <<old.v, one.v>>, "i64", 0)
    IN  IF Diverged(at.b) THEN R(EndScope(at.b), at.v)
        ELSE R(EndScope(Store(new.b, e.ty, at.v, new.v)), new.v)

\* Division panics on zero, and on the one signed quotient that overflows.
ZeroCheck(b, r) ==
    LET zero  == Const(b, 0)
        valid == Def(zero.b, "cmpneq", <<r, zero.v>>, "i64", 0)
    IN  Check(valid.b, valid.v, "zero")
OverflowTest(b, l, r) ==
    LET min   == Const(b, LeastWord)
        neg   == Const(min.b, -1)
        ismin == Def(neg.b, "cmpeq", <<l, min.v>>, "i64", 0)
        isneg == Def(ismin.b, "cmpeq", <<r, neg.v>>, "i64", 0)
    IN  Def(isneg.b, "bitand", <<ismin.v, isneg.v>>, "i64", 0)
OverflowCheck(both) ==
    LET n == NewBlocks(both.b, 2)
        fail == At(Branch(n, both.v, both.b.block + 1, both.b.block), both.b.block + 1)
    IN  At(Panic(fail, "overflow"), both.b.block)
DivisionChecks(b, l, r, ty) ==
    IF ty # "i64" THEN ZeroCheck(b, r) ELSE OverflowCheck(OverflowTest(ZeroCheck(b, r), l, r))

Operator2(l, r, e) ==
    LET ty == e.kids[1].ty
    IN  Def(IF e.k \in Divisions THEN DivisionChecks(r.b, l.v, r.v, ty) ELSE r.b, e.k, <<l.v, r.v>>, ty, 0)

\* A class called by its name allocates and stores its fields in order.
Construct(b, class, regs) ==
    LET shell == Def(TransferArguments(b), "allocstruct", <<>>, class, class)
    IN  R(Pass(LAMBDA acc, k : LET at == FieldAddress(acc, shell.v, class, k - 1)
                                   IN  Store(at.b, Classes[class][k], at.v, regs[k]),
                   shell.b, [k \in DOMAIN regs |-> k]),
          shell.v)

\* Reading a field; the owner of a produced object goes once the field is out.
FieldValue(o, e) ==
    LET at == FieldAddress(NullCheck(o.b, o.v), o.v, Behind(e.kids[1].ty), e.x)
        v  == Def(at.b, "load", <<at.v>>, e.ty, 0)
        kept == IF Managed(e.ty) THEN Acquire(v.b, v.v) ELSE v.b
    IN  R(IF Owned(e.kids[1]) /\ Obliged(e.kids[1]) THEN DropTemporary(kept, o.v) ELSE v.b, v.v)

\* Writing a field or an element: the owner first, then the value, then the
\* edge that was there goes and the new one takes its place.
Replace(b, e, value, at, v, pinned) ==
    LET stored == Store(ReplaceSlot(b, at, v, value, e.ty), e.ty, at, v)
    IN  R(EndScope(IF pinned /\ Managed(e.ty) THEN Acquire(stored, v) ELSE stored), v)

Pinned(e) == Owned(e) /\ Obliged(e)

FieldSet(v, o, e) ==
    LET at == FieldAddress(v.b, o, Behind(e.kids[1].ty), e.x)
    IN  IF Diverged(v.b) THEN R(EndScope(v.b), v.v)
        ELSE Replace(at.b, e, e.kids[2], at.v, v.v, Pinned(e.kids[1]))

ElementValue(i, e) ==
    LET at == ElementAddress(i.b, i.base, i.v, Arrays[Behind(e.kids[1].ty)])
        v  == Def(at.b, "load", <<at.v>>, e.ty, 0)
    IN  IF Diverged(i.b) THEN R(EndScope(i.b), i.v)
        ELSE R(EndScope(IF Pinned(e.kids[1]) /\ Managed(e.ty) THEN Acquire(v.b, v.v) ELSE v.b), v.v)

\* A result that several paths produce lives in a slot that owns it meanwhile.
ResultSlot(b, ty) ==
    LET slot == Slot(b, ty)
    IN  IF ty = "void" THEN R(b, NoReg)
        ELSE IF Managed(ty) THEN R(Do(slot.b, "ownerslot", <<slot.v>>, ty, "temporary"), slot.v)
        ELSE slot
TakeResult(b, slot, ty) ==
    IF ty = "void" THEN Const(b, 0)
    ELSE IF Managed(ty) THEN Def(b, "read", <<slot>>, ty, "move") ELSE Def(b, "load", <<slot>>, ty, 0)
GiveResult(b, e, slot, ty, value) ==
    IF ty = "void" THEN Own(b, e, value) ELSE Store(Own(b, e, value), ty, slot, value)
=============================================================================
