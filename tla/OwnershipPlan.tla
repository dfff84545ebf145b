--------------------------- MODULE OwnershipPlan ---------------------------
(***************************************************************************)
(* How the ownership builder (src/src/ownership.rs) elaborates expressions *)
(* and statements into the operations of the ownership analysis, in the    *)
(* order in which they are emitted.                                        *)
(*                                                                         *)
(* Code is a sequence of operations.  Control flow is structured in the    *)
(* language and kept so here: "arms" stands for the blocks of a branch, of *)
(* which one is executed, "loop" for a block that may be executed any      *)
(* number of times.                                                        *)
(*                                                                         *)
(* An expression is a record with its form `e` and an identity `id`.  The  *)
(* context c holds the innermost scope, the number of the statement, which *)
(* makes identities unique, and whether the scope is that of a call.       *)
(* Types are reduced to what ownership distinguishes: a scalar, an owner,  *)
(* a shared and an exclusive reference to an owner, exclusive references   *)
(* to a place that holds one of these, an aggregate and a closure that     *)
(* hold references.                                                        *)
(***************************************************************************)
EXTENDS OwnershipIr

CONSTANTS
  Type,       \* the type of every named binding
  Captured,   \* in the body of a closure: the captured bindings
  Readonly,   \* the closures that are known not to change their captures
  Captures,   \* of a closure binding: the bindings its literal captures
  Callee      \* the contracts of the functions that can be called

IsCopy(t) == t \in {"int", "ref"}
IsReference(t) == t \in {"ref", "mut", "slot", "mut slot"}
ContainsBorrow(t) == IsReference(t) \/ t \in {"holder", "fn"}
Exclusively(t) == t \in {"mut", "slot", "mut slot"}
ContainsExclusive(t) == Exclusively(t) \/ t = "fn"
Pointee(t) == IF t = "slot" THEN "ref" ELSE IF t = "mut slot" THEN "mut" ELSE "own"
KindOf(t) == IF Exclusively(t) THEN "exclusive" ELSE "shared"

RECURSIVE TypeOf(_)
TypeOf(x) ==
  CASE x.e = "var"   -> Type[x.name]
    [] x.e = "deref" -> Pointee(TypeOf(x.of))
    [] x.e \in {"field", "index"} -> IF TypeOf(x.of) = "holder" THEN "ref" ELSE "own"
    [] x.e = "address" -> IF x.kind = "shared" THEN "ref"
                          ELSE IF TypeOf(x.of) = "ref" THEN "slot"
                          ELSE IF TypeOf(x.of) = "mut" THEN "mut slot" ELSE "mut"
    [] x.e = "group" -> TypeOf(x.of)
    [] x.e \in {"raw take", "raw borrow"} -> "ref"
    [] x.e = "choose" -> TypeOf(x.then)
    [] x.e = "make"  -> "holder"
    [] x.e = "lambda" -> "fn"
    [] x.e \in {"fresh", "call", "invoke", "match"} -> x.type
    [] OTHER -> "int"

-----------------------------------------------------------------------------
(* Operations.                                                             *)

Id(c, x) == <<c.base, x.id>>
FreshId(c, x, purpose) == <<c.base, x.id, purpose>>
Within(c, k) == [c EXCEPT !.scope = @ + k]
TempPlace(c) == [WholePlace(Temp(c.scope)) EXCEPT !.writable = FALSE]

OpReject(message) == <<[op |-> "reject", message |-> message]>>
OpDeclare(binding, live) ==
  <<[op |-> "declare", binding |-> binding, initialized |-> live]>>
OpAccess(place, access, id) ==
  <<[op |-> "access", place |-> place, access |-> access, value |-> id]>>
OpBorrow(place, kind, id, c) ==
  <<[op |-> "borrow", place |-> place, kind |-> kind, value |-> id,
     scope |-> c.scope]>>
OpBind(binding, id) == <<[op |-> "bind", binding |-> binding, value |-> id]>>
OpAssign(place, id) == <<[op |-> "assign", place |-> place, value |-> id]>>
OpValue(id, sources) == <<[op |-> "value", value |-> id, sources |-> sources]>>
OpProject(id, source, step) ==
  <<[op |-> "project", value |-> id, source |-> source, step |-> step]>>
OpView(id, source) == <<[op |-> "view", value |-> id, source |-> source]>>
OpContents(id, of) == <<[op |-> "contents", value |-> id, of |-> of]>>
OpStore(destination, id) ==
  <<[op |-> "store", destination |-> destination, value |-> id]>>
OpReturn(id) == <<[op |-> "return", value |-> id]>>
OpEndScope(scope) == <<[op |-> "end scope", scope |-> scope]>>
OpEndLoan(id) == <<[op |-> "end loan", loan |-> id]>>
OpArms(arms) == <<[op |-> "arms", arms |-> arms]>>
OpLoop(body) == <<[op |-> "loop", body |-> body]>>
Bound(binding, id) == OpDeclare(binding, TRUE) \o OpBind(binding, id)

RECURSIVE BasePlace(_, _), ObjectPlace(_, _), Expression(_, _, _), Statement(_, _)
Code(k, id) == [code |-> k, id |-> id]
NoPlace == [found |-> FALSE, code |-> <<>>]
Found(place, k) == [found |-> TRUE, place |-> place, code |-> k]

-----------------------------------------------------------------------------
(* Places.                                                                 *)

\* Going through a reference: its value gives the permission, and only an
\* exclusive one, owned or named, allows writing.
Through(x, place, value, k) ==
  Found([place EXCEPT
           !.through = value, !.path = Append(@, Deref),
           !.writable = /\ Exclusively(TypeOf(x))
                        /\ place.writable \/ place.path = <<>>], k)
Lease(c, place, x) ==
  OpBorrow(place, "shared", FreshId(c, x, "lease"), c)

PartPlace(p, step) ==
  IF p.found THEN Found([p.place EXCEPT !.path = Append(@, step)], p.code) ELSE p
\* The indexed object stays leased while the index is computed.
Leased(c, x, p, k) ==
  IF p.found THEN Found(p.place, p.code \o Lease(c, p.place, x) \o k
                                 \o OpEndLoan(FreshId(c, x, "lease"))) ELSE p
DerefPlace(x, p, v) ==
  IF p.found THEN Through(x, p.place, v.id, p.code \o v.code) ELSE p

\* The place an expression names, if it names one.
BasePlace(c, x) ==
  CASE x.e = "var" -> Found(WholePlace(x.name), <<>>)
    [] x.e = "group" -> BasePlace(c, x.of)
    [] x.e = "field" -> PartPlace(ObjectPlace(c, x.of), Field(1))
    [] x.e = "index" -> PartPlace(Leased(c, x, ObjectPlace(c, x.of),
                                         Expression(c, x.at, "read").code), AnyIndex)
    [] x.e = "deref" -> DerefPlace(x.of, BasePlace(c, x.of),
                                   Expression(c, x.of, "read"))
    [] OTHER -> NoPlace

\* The place of the object of a member access; a reference that is not
\* itself a place is kept in a temporary.
ObjectWith(c, x, p, v) ==
  CASE ~IsReference(TypeOf(x)) -> p
    [] p.found -> DerefPlace(x, p, v)
    [] OTHER -> Through(x, TempPlace(c), v.id,
                        v.code \o Bound(Temp(c.scope), v.id))
ObjectPlace(c, x) == ObjectWith(c, x, BasePlace(c, x), Expression(c, x, "read"))

-----------------------------------------------------------------------------
(* Expressions.  Each gives its code and the identity of its value.        *)

Usage(type) == IF IsReference(type) THEN KindOf(type) ELSE "consume"
MovesOut(x, usage) == usage = "consume" /\ ~IsCopy(TypeOf(x))
RejectIf(condition, message) == IF condition THEN OpReject(message) ELSE <<>>
Condition(c, x) ==
  Expression(Within(c, 1), x, "read").code \o OpEndScope(c.scope + 1)
Produced(c, x, k, sources) == Code(k \o OpValue(Id(c, x), sources), Id(c, x))
Carried(v) == {<<v.id, <<>> >>}

\* A borrow of a temporary is only possible in the arguments of a call.
Unbounded(c, x, operand, kind) ==
  /\ x.e = "address"
  /\ \/ ~c.bounded \/ kind = "exclusive"
     \/ operand.e \in {"field", "index", "deref"}
BorrowTemporary(c, x, operand, kind) ==
  IF Unbounded(c, x, operand, kind) THEN OpReject("temporary storage")
  ELSE Expression(c, operand, "consume").code \o OpDeclare(Temp(c.scope), TRUE)
       \o OpBorrow(TempPlace(c), kind, Id(c, x), c)
Operand(x) == IF x.e = "address" THEN x.of ELSE x
BorrowPlace(c, x, kind, p) ==
  Code(IF p.found THEN p.code \o OpBorrow(p.place, kind, Id(c, x), c)
       ELSE BorrowTemporary(c, x, Operand(x), kind), Id(c, x))
BorrowExpression(c, x, kind) ==
  BorrowPlace(c, x, kind, IF x.e # "address" /\ IsReference(TypeOf(x))
                          THEN ObjectPlace(c, x) ELSE BasePlace(c, Operand(x)))

AccessPlace(c, p, x, usage) ==
  Code(p.code
       \o RejectIf(MovesOut(x, usage) /\ p.place.root \in Captured,
                   "move out of a closure")
       \o OpAccess(p.place, IF MovesOut(x, usage) THEN "consume" ELSE "read",
                   Id(c, x)), Id(c, x))

\* One arm is evaluated; what it yields is the value of the whole.
Yielding(c, x, v) == v.code \o OpValue(Id(c, x), Carried(v))
Choose(c, x, usage) ==
  Code(Condition(c, x.test)
       \o OpArms(<<Yielding(c, x, Expression(c, x.then, usage)),
                  Yielding(c, x, Expression(c, x.else, usage))>>), Id(c, x))
\* The right operand of a logical operator may not be evaluated.
Logical(c, x) ==
  Produced(c, x, Condition(c, x.left) \o OpArms(<< <<>>, Condition(c, x.right)>>), {})
\* A comparison looks at its operands, arithmetic consumes them.
Binary(c, x) ==
  LET usage == IF x.e = "compare" THEN "read" ELSE "consume"
  IN  Produced(c, x, Expression(c, x.left, usage).code
                     \o Expression(c, x.right, usage).code, {})
IncrementPlace(c, x, p) ==
  IF p.found THEN p.code \o OpAccess(p.place, "write", Id(c, x))
  ELSE Expression(c, x.of, "read").code \o OpReject("mutation of a value")
Increment(c, x) == Produced(c, x, IncrementPlace(c, x, BasePlace(c, x.of)), {})

\* A part of a value that is not in a place: it can be copied, not moved.
PartOf(c, x, v, k) ==
  IF x.e = "deref" THEN Produced(c, x, k, Carried(v))
  ELSE Code(k \o OpProject(Id(c, x), v.id,
                           IF x.e = "field" THEN Field(1) ELSE AnyIndex), Id(c, x))
PartOfValue(c, x, usage, v) ==
  PartOf(c, x, v, v.code \o RejectIf(MovesOut(x, usage), "move out of a value"))

\* Constructors and closures carry the provenance of their parts.
Make(c, x, v) == Produced(c, x, v.code, {<<v.id, <<Field(1)>> >>})
Capture(c, x, n) ==
  OpAccess(WholePlace(n), IF IsCopy(Type[n]) THEN "read" ELSE "consume",
           FreshId(c, x, n))
Lambda(c, x) ==
  LET taken == SetToSeq(Captures[x.name])
  IN  Produced(c, x, FlattenSeq([k \in DOMAIN taken |-> Capture(c, x, taken[k])]),
               {<<FreshId(c, x, n), <<Field(1)>> >> : n \in Captures[x.name]})

(* Assignments: first the place, then the value, then the store. *)

SetName(c, x, v) == Produced(c, x, v.code \o OpAssign(WholePlace(x.name), v.id), {})
\* The object stays leased while the value is computed.
SetPart(c, x, p, v) ==
  Produced(c, x,
    IF p.found
    THEN p.code \o Lease(c, p.place, x) \o v.code
         \o OpEndLoan(FreshId(c, x, "lease"))
         \o OpAssign([p.place EXCEPT !.path = Append(@, x.step)], v.id)
    ELSE Expression(c, x.of, "read").code \o v.code
         \o OpReject("mutation of a value"), {})
SetTarget(c, x, t, v) == Produced(c, x, t.code \o v.code \o OpAssign(t.place, v.id), {})

(* A match: the cases are tried in order, each in a scope of its own, in   *)
(* which the payload is bound, by view when the matched value is borrowed. *)

BindPattern(c, x, case, value) ==
  LET id == FreshId(c, x, case.name)
  IN  IF case.name = NoValue THEN <<>>
      ELSE (IF case.view THEN OpView(id, value) ELSE OpProject(id, value, Field(1)))
           \o Bound(case.name, id)
EnterCase(c, x, case, value) ==
  BindPattern(c, x, case, value)
  \o IF case.guard = NoValue THEN <<>> ELSE Condition(c, case.guard)
ChosenCase(c, x, usage, case, value) ==
  EnterCase(c, x, case, value)
  \o Yielding(c, x, Expression(c, case.body, usage)) \o OpEndScope(c.scope)
RefusedCase(c, x, case, value) ==
  IF case.guard = NoValue THEN <<>>
  ELSE OpArms(<< <<>>, EnterCase(c, x, case, value) \o OpEndScope(c.scope)>>)
\* After the last case there is only the abort.
Cases(c, x, usage, value) ==
  LET n == Len(x.cases)
      from[k \in 1..n] ==
        IF k = n THEN ChosenCase(c, x, usage, x.cases[n], value)
        ELSE OpArms(<<ChosenCase(c, x, usage, x.cases[k], value),
                      RefusedCase(c, x, x.cases[k], value) \o from[k + 1]>>)
  IN  from[1]
Guarded(x) == \E k \in DOMAIN x.cases : x.cases[k].guard # NoValue
MatchValue(c, x, usage, v) ==
  Code(v.code \o Cases(Within(c, 1), x, usage, v.id),
       Id(c, x))
Consuming(t) == ~IsReference(t) /\ ~IsCopy(t)
Match(c, x, usage, consuming) ==
  IF consuming /\ Guarded(x)
  THEN Code(OpReject("guarded consuming match"), Id(c, x))
  ELSE MatchValue(c, x, usage,
         Expression(c, x.of, IF consuming THEN "consume" ELSE "read"))

(* Private storage operations of the standard library. *)

\* A value is stored in, taken from or borrowed in raw storage.
RawInitialize(c, x, storage, item) ==
  Produced(c, x, storage.code \o item.code
           \o OpValue(FreshId(c, x, "element"), {<<item.id, <<AnyIndex>> >>})
           \o OpStore(storage.id, FreshId(c, x, "element")), {})
RawTake(c, x, storage) ==
  Code(storage.code \o OpContents(FreshId(c, x, "contents"), storage.id)
       \o OpProject(Id(c, x), FreshId(c, x, "contents"), AnyIndex), Id(c, x))
Memory(c, x, storage) ==
  CASE x.e = "raw initialize" ->
         RawInitialize(c, x, storage, Expression(c, x.value, "consume"))
    [] x.e = "raw take" -> RawTake(c, x, storage)
    [] x.e = "raw borrow" -> Produced(c, x, storage.code, Carried(storage))

-----------------------------------------------------------------------------
(* Calls.  Arguments are evaluated in a scope of the call; a reference in  *)
(* the result is lent to the scope around it.                              *)

InCall(c) == [Within(c, 1) EXCEPT !.bounded = TRUE]
Arguments(c, xs, types) ==
  [k \in DOMAIN xs |-> Expression(c, xs[k], Usage(types[k]))]
CodesOf(vs) == FlattenSeq([k \in DOMAIN vs |-> vs[k].code])
IdsOf(vs) == [k \in DOMAIN vs |-> vs[k].id]
CallRecord(c, x, ids, contract) ==
  [op |-> "call", result |-> Id(c, x), arguments |-> ids,
   target |-> IF x.e = "call" THEN x.name ELSE NoValue,
   summary |-> contract.summary, effects |-> contract.effects,
   referenceEffects |-> contract.stores, effectLoan |-> FreshId(c, x, "effect"),
   effectKind |-> IF \E t \in ToSet(contract.params) :
                       Exclusively(t) /\ ContainsExclusive(Pointee(t))
                  THEN "exclusive" ELSE "shared",
   resultLoan |-> IF ContainsBorrow(x.type) THEN KindOf(x.type) ELSE NoValue,
   scope |-> c.scope]

CallWith(c, x, args, contract) ==
  Code(CodesOf(args) \o <<CallRecord(c, x, IdsOf(args), contract)>>
       \o OpEndScope(c.scope + 1), Id(c, x))
DirectCall(c, x, contract) ==
  CallWith(c, x, Arguments(InCall(c), x.args, contract.params), contract)

\* Calling a value: nothing is known of it but its type, so the result may
\* come from any argument, from what was captured, or from static storage.
UnknownContract(x) ==
  LET n == Len(x.args) + 1
      params == [k \in DOMAIN x.args |-> TypeOf(x.args[k])]
      slots == {k \in DOMAIN params : Exclusively(params[k]) /\ ContainsBorrow(Pointee(params[k]))}
      origins(except) == {Parameter(k, <<>>) : k \in 1..n \ {except}} \cup {Static}
  IN  [params |-> params,
       summary |-> IF ContainsBorrow(x.type) THEN {<<>>} \X origins(0) ELSE {},
       effects |-> {<<g, g \in Mutable>> : g \in Globals},
       stores |-> SetToSeq({[destination |-> Parameter(k, <<>>),
                             sources |-> origins(k)] : k \in slots})]
\* The closure itself is borrowed exclusively: it may change its captures.
CallablePlace(c, x, v, p) ==
  Code(v.code \o p.code
       \o RejectIf(x.name \notin Readonly /\ ~p.place.writable, "stateful callable")
       \o OpBorrow([p.place EXCEPT !.writable = TRUE], "exclusive",
                   FreshId(c, x, "callable"), c), FreshId(c, x, "callable"))
Callable(c, x) == CallablePlace(c, x, Expression(c, x, "read"), BasePlace(c, x))
Invoke(c, x, contract) ==
  CallWith(c, x, Append(Arguments(InCall(c), x.args, contract.params),
                        Callable(InCall(c), x.of)), contract)

Evaluate(c, x, usage) ==
  CASE x.e = "fresh" -> Produced(c, x, <<>>, {})
    [] x.e = "group" -> Code(Yielding(c, x, Expression(c, x.of, usage)), Id(c, x))
    [] x.e = "address" -> Expression(c, x, x.kind)
    [] x.e = "choose" -> Choose(c, x, usage)
    [] x.e = "make" -> Make(c, x, Expression(c, x.of, "consume"))
    [] x.e = "lambda" -> Lambda(c, x)
    [] x.e = "call" -> DirectCall(c, x, Callee[x.name])
    [] x.e = "invoke" -> Invoke(c, x, UnknownContract(x))
    [] x.e = "match" -> Match(c, x, usage, Consuming(TypeOf(x.of)))
    [] x.e = "logical" -> Logical(c, x)
    [] x.e \in {"compare", "combine"} -> Binary(c, x)
    [] x.e = "increment" -> Increment(c, x)
    [] x.e = "set name" -> SetName(c, x, Expression(c, x.value, "consume"))
    [] x.e = "set part" -> SetPart(c, x, ObjectPlace(c, x.of),
                                   Expression(c, x.value, "consume"))
    [] x.e = "set target" -> SetTarget(c, x, ObjectPlace(c, x.of),
                                       Expression(c, x.value, "consume"))
    [] x.e \in {"deref", "field", "index"} ->
         PartOfValue(c, x, usage, Expression(c, x.of, "read"))
    [] OTHER -> Memory(c, x, Expression(c, x.of, "read"))
ExpressionAt(c, x, usage, p) ==
  IF p.found THEN AccessPlace(c, p, x, usage) ELSE Evaluate(c, x, usage)
Scalar(r) == Code(r.code \o OpValue(r.id, {}), r.id)

\* A result that holds no reference has no provenance.
Expression(c, x, usage) ==
  CASE usage \in {"shared", "exclusive"} -> BorrowExpression(c, x, usage)
    [] ContainsBorrow(TypeOf(x)) -> ExpressionAt(c, x, usage, BasePlace(c, x))
    [] OTHER -> Scalar(ExpressionAt(c, x, usage, BasePlace(c, x)))

-----------------------------------------------------------------------------
(* Statements.                                                             *)

\* The value is bound in the enclosing scope before the temporaries of the
\* expression end.
Let(c, s, v) ==
  v.code \o OpDeclare(s.name, FALSE) \o OpBind(s.name, v.id)
  \o OpEndScope(c.scope + 1)
IsAssignment(x) == x.e \in {"set name", "set part", "set target"}
Do(c, x) ==
  Expression(Within(c, 1), x, IF IsAssignment(x) THEN "read" ELSE "consume").code
  \o OpEndScope(c.scope + 1)
ReturnValue(v) == v.code \o OpReturn(v.id)
Statements(c, body) == FlattenSeq([k \in DOMAIN body |-> Statement(c, body[k])])
Block(c, body) == Statements(Within(c, 1), body) \o OpEndScope(c.scope + 1)
Conditional(c, s) ==
  Condition(c, s.test) \o OpArms(<<Block(c, s.then), Block(c, s.else)>>)
\* The test is evaluated once more than the body.
While(c, s, test) == OpLoop(test \o Block(c, s.body)) \o test
\* The increment runs in the scope of the whole loop.
For(c, s, test) ==
  Statement(c, s.init)
  \o OpLoop(test \o Block(c, s.body) \o Expression(c, s.increment, "read").code)
  \o test \o OpEndScope(c.scope)

\* The iterated object is borrowed for the whole loop; the element, when
\* it holds references, may hold any that the object does.
Element(name, view) ==
  IF ContainsBorrow(Type[name]) THEN Bound(name, view) ELSE OpDeclare(name, TRUE)
Iterated(c, p, input) ==
  IF p.found THEN p
  ELSE Found(TempPlace(c), Bound(Temp(c.scope), input.id))
ForIn(c, s, input, object) ==
  input.code \o object.code
  \o OpBorrow(object.place, "shared", FreshId(c, s.over, "view"), c)
  \o OpLoop(Element(s.name, FreshId(c, s.over, "view"))
            \o Statements(Within(c, 1), s.body) \o OpEndScope(c.scope + 1))
  \o OpEndScope(c.scope)
ForInOver(c, s, input) ==
  ForIn(c, s, input, Iterated(c, ObjectPlace(c, s.over), input))

\* A tuple is taken apart into bindings of the current scope.
Destructure(c, s, v) ==
  v.code \o OpProject(FreshId(c, s.init, s.name), v.id, Field(1))
  \o Bound(s.name, FreshId(c, s.init, s.name))

Statement(c, s) ==
  CASE s.s = "let" /\ s.init = NoValue -> OpDeclare(s.name, FALSE)
    [] s.s = "let" -> Let(c, s, Expression(Within(c, 1), s.init, "consume"))
    [] s.s = "do" -> Do(c, s.do)
    [] s.s = "block" -> Block(c, s.body)
    [] s.s = "if" -> Conditional(c, s)
    [] s.s = "while" -> While(c, s, Condition(c, s.test))
    [] s.s = "for" -> For(Within(c, 1), s, Condition(Within(c, 1), s.test))
    [] s.s = "for in" -> ForInOver(Within(c, 1), s,
                                   Expression(Within(c, 1), s.over, "read"))
    [] s.s = "destructure" -> Destructure(c, s, Expression(c, s.init, "consume"))
    [] s.s = "return" -> ReturnValue(Expression(c, s.value, "consume"))

\* Formal parameters: one origin, with a loan, for each component of the
\* type that is a reference.
ParameterPaths(type) ==
  CASE ~ContainsBorrow(type) -> {}
    [] type = "holder" -> {<<Field(1)>>}
    [] OTHER -> {<<>>}
Formal(c, name, k) ==
  LET paths == ParameterPaths(Type[name])
  IN  OpDeclare(name, TRUE)
      \o (IF paths = {} THEN <<>>
          ELSE <<[op |-> "parameter", binding |-> name, scope |-> c.scope,
                  kind |-> IF ContainsExclusive(Type[name])
                           THEN "exclusive" ELSE "shared",
                  origins |-> {<<path, Parameter(k, path)>> : path \in paths}]>>)
Formals(c, names) ==
  FlattenSeq([k \in DOMAIN names |-> Formal(c, names[k], k)])
=============================================================================
