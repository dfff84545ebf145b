-------------------------- MODULE SourceSemantics --------------------------
(***************************************************************************)
(* What a source program means, apart from how it is compiled: values are  *)
(* numbers in the range of their type, objects live for ever, a name       *)
(* stands for a location, the parts of an expression are evaluated from    *)
(* left to right, and a panic or a return ends what is going on.  Nothing  *)
(* here counts references, moves or drops.  The programs are those of      *)
(* IrProgram; kinds and moves are ignored.                                 *)
(*                                                                         *)
(* A state is [mem, next, scopes, trace, input, status, ret, fuel]; an     *)
(* operator given a state that no longer runs returns it as it is.         *)
(***************************************************************************)
EXTENDS Ir

CONSTANTS
    WordBits,    \* bits of i64 and u64
    ByteBits     \* bits of u8

InRange(n, ty) ==
    CASE ty = "i64"  -> ((n + 2 ^ (WordBits - 1)) % 2 ^ WordBits) - 2 ^ (WordBits - 1)
      [] ty = "u64"  -> n % 2 ^ WordBits
      [] ty = "u8"   -> n % 2 ^ ByteBits
      [] OTHER       -> n

Truth(p) == IF p THEN 1 ELSE 0
V(s, v)  == [s |-> s, v |-> v]
Running(s) == s.status = "run"
Stop(s, how) == IF Running(s) THEN [s EXCEPT !.status = how] ELSE s
\* The program ends: a panic, or an exit with a code.
End(s, how, why) == IF Running(s) THEN [s EXCEPT !.status = how, !.trace = Append(@, <<how, why>>)] ELSE s
Fail(s, why) == End(s, "panic", why)
Ensure(s, p, why) == IF p THEN s ELSE Fail(s, why)

Write(s, at, v) == IF Running(s) THEN [s EXCEPT !.mem = (at :> v) @@ @] ELSE s
\* A new location, or n of them in a row behind one that keeps their number.
New(s, v)   == V([s EXCEPT !.mem = (s.next :> v) @@ @, !.next = @ + 1], s.next)
NewRow(s, vs) ==
    V([s EXCEPT !.mem = (s.next :> Len(vs)) @@ [a \in s.next + 1 .. s.next + Len(vs) |-> vs[a - s.next]] @@ @,
                !.next = @ + Len(vs) + 1], s.next + 1)
Read(s, at) == IF Running(s) THEN s.mem[at] ELSE 0

Let1(s, name, v) ==
    LET new == New(s, v)
    IN  IF ~Running(s) THEN s
        ELSE [new.s EXCEPT !.scopes[Len(s.scopes)] = (name :> new.v) @@ @]
Lookup(s, name) == LET k == Max({n \in DOMAIN s.scopes : name \in DOMAIN s.scopes[n]}) IN s.scopes[k][name]
NoNames == [n \in {} |-> 0]
Enter(s) == [s EXCEPT !.scopes = Append(@, NoNames)]
Leave(s) == [s EXCEPT !.scopes = Front(@)]
-----------------------------------------------------------------------------
\* The value behind references.
RECURSIVE Through(_, _, _)
Through(s, v, ty) == IF ty \in DOMAIN Pointee /\ Running(s) THEN Through(s, s.mem[v], Pointee[ty]) ELSE v

\* Several expressions from left to right.
RECURSIVE Values(_, _, _, _)
Values(Expr(_, _), s, es, vs) ==
    IF es = <<>> THEN [s |-> s, vs |-> vs]
    ELSE LET h == IF Head(es).k = "default" THEN V(s, 0) ELSE Expr(s, Head(es))
         IN  Values(Expr, h.s, Tail(es), Append(vs, h.v))

\* Where the part of an object lies: the object first, then the index.
FieldAt(Expr(_, _), s, e) ==
    LET o == Expr(s, e.kids[1])
        at == Through(o.s, o.v, e.kids[1].ty)
    IN  V(Ensure(o.s, at # 0, "null"), at + e.x)
ElementAt(Expr(_, _), s, e) ==
    LET o  == Expr(s, e.kids[1])
        at == Through(o.s, o.v, e.kids[1].ty)
        i  == Expr(Ensure(o.s, at # 0, "null"), e.kids[2])
    IN  V(IF Running(i.s) THEN Ensure(i.s, i.v >= 0 /\ i.v < i.s.mem[at - 1], "bounds") ELSE i.s, at + i.v)
Location(Expr(_, _), s, e) ==
    CASE e.k = "var"   -> V(s, IF Running(s) THEN Lookup(s, e.x) ELSE 0)
      [] e.k = "deref" -> Expr(s, e.kids[1])
      [] e.k = "get"   -> FieldAt(Expr, s, e)
      [] e.k = "index" -> ElementAt(Expr, s, e)

Update(Expr(_, _), at, e, value) ==
    LET v == Expr(at.s, value) IN V(Write(v.s, at.v, v.v), v.v)

Trunc(a, b) == LET q == (IF a < 0 THEN -a ELSE a) \div (IF b < 0 THEN -b ELSE b)
               IN  IF (a < 0) = (b < 0) THEN q ELSE -q

\* The number with the binary digits two numbers have in common.
Both(l, r) == MapThenSumSet(LAMBDA k : 2 ^ k, {k \in 0 .. WordBits - 1 :
                  ((l % 2 ^ WordBits) \div 2 ^ k) % 2 = 1 /\ ((r % 2 ^ WordBits) \div 2 ^ k) % 2 = 1})

Operate(s, e, l, r) ==
    LET ty == e.kids[1].ty
        low == e.k \in Divisions /\ ty = "i64" /\ l = -(2 ^ (WordBits - 1)) /\ r = -1
        ok == IF e.k \in Divisions THEN Ensure(Ensure(s, r # 0, "zero"), ~low, "overflow") ELSE s
    IN  V(ok, IF ~Running(ok) THEN 0
              ELSE CASE e.k = "add" -> InRange(l + r, e.ty)
                     [] e.k = "sub" -> InRange(l - r, e.ty)
                     [] e.k = "mul" -> InRange(l * r, e.ty)
                     [] e.k = "div" -> InRange(Trunc(l, r), e.ty)
                     [] e.k = "mod" -> InRange(l - r * Trunc(l, r), e.ty)
                     [] e.k = "bitand" -> InRange(Both(l, r), e.ty)
                     [] e.k = "bitor"  -> InRange(l + r - Both(l, r), e.ty)
                     [] e.k = "cmpeq"  -> Truth(l = r)
                     [] e.k = "cmpneq" -> Truth(l # r)
                     [] e.k = "cmplt"  -> Truth(l < r)
                     [] e.k = "cmple"  -> Truth(l <= r)
                     [] e.k = "cmpgt"  -> Truth(l > r)
                     [] e.k = "cmpge"  -> Truth(l >= r))
-----------------------------------------------------------------------------
\* A call of a function of the program, of an external one, of a constructor.
Apply(Stmt(_, _), s, e, vs, decls) ==
    LET k    == SelectSeq(decls, LAMBDA d : d.name = e.x)
        f    == k[1]
        hold == s.scopes
        in   == FoldLeft(LAMBDA acc, n : Let1(acc, f.params[n], vs[n]),
                         [s EXCEPT !.scopes = <<s.scopes[1], NoNames>>], [n \in DOMAIN vs |-> n])
        run  == FoldLeft(Stmt, in, f.body)
        out  == [run EXCEPT !.scopes = hold, !.status = IF @ = "return" THEN "run" ELSE @]
        variant == {<<ty, n>> \in UNION {{<<t, j>> : j \in DOMAIN Enums[t]} : t \in DOMAIN Enums} :
                        Enums[ty][n].name = e.x}
    IN  IF ~Running(s) THEN V(s, 0)
        ELSE IF e.x = "show"  THEN V([s EXCEPT !.trace = Append(@, <<"show", vs[1]>>)], 0)
        ELSE IF e.x = "ask"   THEN V([s EXCEPT !.input = Tail(@)], Head(s.input))
        ELSE IF e.x \in {"panic", "exit"} THEN V(End(s, e.x, vs[1]), 0)
        ELSE IF e.x \in DOMAIN Classes THEN NewRow(s, vs)
        ELSE IF variant # {} THEN NewRow(s, <<(CHOOSE v \in variant : TRUE)[2]>> \o vs)
        ELSE V(out, run.ret)

\* The first case whose pattern and guard agree; the value of its body.
Matches(s, pat, v, ty) ==
    CASE pat.p = "variant" -> Enums[ty][s.mem[v]].name = pat.name
      [] pat.p = "int"     -> v = pat.n
      [] OTHER             -> TRUE
Bindings(s, pat, v, input) ==
    CASE pat.p = "variant" ->
            FoldLeft(LAMBDA acc, k : Let1(acc, pat.binds[k].name,
                         IF pat.binds[k].ty \in DOMAIN Pointee THEN v + k ELSE acc.mem[v + k]),
                     s, [k \in DOMAIN pat.binds |-> k])
      [] pat.p = "bind" -> Let1(s, pat.name, input)
      [] OTHER -> s
RECURSIVE Choose1(_, _, _, _, _, _)
Choose1(Expr(_, _), Stmt(_, _), s, e, cases, input) ==
    LET from == e.kids[1].ty
        ty   == IF from \in DOMAIN Pointee THEN Pointee[from] ELSE from
        v    == Through(s, input, from)
        c    == Head(cases)
        in   == Bindings(Enter(s), c.pat, v, input)
        g    == IF c.guard = <<>> THEN V(in, 1) ELSE Expr(in, c.guard[1])
        body == FoldLeft(LAMBDA acc, k : IF k < Len(c.body) \/ c.body[k].k # "expr"
                                         THEN V(Stmt(acc.s, c.body[k]), 0)
                                         ELSE Expr(acc.s, c.body[k].e[1]),
                         V(g.s, 0), [k \in DOMAIN c.body |-> k])
    IN  IF ~Running(s) THEN V(s, 0)
        ELSE IF cases = <<>> THEN V(Fail(s, "match"), 0)
        ELSE IF ~Matches(s, c.pat, v, ty) THEN Choose1(Expr, Stmt, s, e, Tail(cases), input)
        ELSE IF Running(g.s) /\ g.v = 0 THEN Choose1(Expr, Stmt, Leave(g.s), e, Tail(cases), input)
        ELSE V(Leave(body.s), body.v)

Evaluate(Expr(_, _), Stmt(_, _), decls, s, e) ==
    LET a == Expr(s, e.kids[1])
        all == Values(Expr, s, e.kids, <<>>)
        at == Location(Expr, s, e.kids[1])
    IN  IF ~Running(s) THEN V(s, 0)
        ELSE IF e.use = "temporary"
        THEN LET v == Expr(s, [e EXCEPT !.use = "value"]) IN IF Running(v.s) THEN New(v.s, v.v) ELSE v
        ELSE IF e.use \in {"borrow", "borrowmut"} /\ e.ty \notin DOMAIN Pointee
        THEN Location(Expr, s, e)
        ELSE CASE e.k = "var"  -> V(s, s.mem[Lookup(s, e.x)])
               [] e.k \in {"int", "bool", "text"} -> V(s, e.x)
               [] e.k \in {"get", "index"} -> LET p == Location(Expr, s, e) IN V(p.s, Read(p.s, p.v))
               [] e.k = "deref" -> V(a.s, Read(a.s, a.v))
               [] e.k = "set"  -> Update(Expr, FieldAt(Expr, s, e), e, e.kids[2])
               [] e.k = "setindex" -> Update(Expr, ElementAt(Expr, s, e), e, e.kids[3])
               [] e.k = "setderef" -> Update(Expr, a, e, e.kids[2])
               [] e.k = "assign" -> V(IF Running(a.s) THEN Write(a.s, Lookup(a.s, e.x), a.v) ELSE a.s, a.v)
               [] e.k = "call" -> Apply(Stmt, all.s, e, all.vs, decls)
               [] e.k \in {"struct", "array"} -> IF Running(all.s) THEN NewRow(all.s, all.vs) ELSE V(all.s, 0)
               [] e.k = "ternary" -> Expr(a.s, e.kids[IF a.v # 0 THEN 2 ELSE 3])
               [] e.k = "match" -> Choose1(Expr, Stmt, a.s, e, e.x, a.v)
               [] e.k = "and" -> IF a.v = 0 THEN a ELSE Expr(a.s, e.kids[2])
               [] e.k = "or"  -> IF a.v # 0 THEN a ELSE Expr(a.s, e.kids[2])
               [] e.k = "coalesce" -> IF a.v # 0 THEN a ELSE Expr(a.s, e.kids[2])
               [] e.k = "swap" -> LET b == Expr(a.s, e.kids[2]) IN V(Write(b.s, a.v, b.v), Read(b.s, a.v))
               [] e.k = "clone" -> V(a.s, Read(a.s, a.v))
               [] e.k = "cast" -> V(a.s, InRange(a.v, e.ty))
               [] e.k = "neg"  -> V(a.s, InRange(-a.v, e.ty))
               [] e.k = "not"  -> V(a.s, Truth(a.v = 0))
               [] e.k \in {"incr", "decr"} ->
                    LET new == InRange(Read(at.s, at.v) + (IF e.k = "incr" THEN 1 ELSE -1), e.ty)
                    IN  V(Write(at.s, at.v, new), new)
               [] OTHER -> Operate(all.s, e, all.vs[1], all.vs[2])
-----------------------------------------------------------------------------
Block1(Stmt(_, _), s, body) == Leave(FoldLeft(Stmt, Enter(s), body))

\* A loop: test, body, step, until the test fails or the program stops.
RECURSIVE Loop(_, _, _, _, _, _)
Loop(Expr(_, _), Stmt(_, _), s, test, body, step) ==
    LET c == IF test = <<>> THEN V(s, 1) ELSE Expr(s, test[1])
        in == Block1(Stmt, [c.s EXCEPT !.fuel = @ - 1], body)
        on == IF step = <<>> THEN in ELSE Expr(in, step[1]).s
    IN  IF ~Running(c.s) \/ c.v = 0 THEN c.s
        ELSE IF s.fuel = 0 THEN Stop(s, "endless")
        ELSE Loop(Expr, Stmt, on, test, body, step)

\* A loop over the elements first to last, or over numbers from below to above.
Each(Stmt(_, _), s, name, values, body) ==
    FoldLeft(LAMBDA acc, k : IF Running(acc) THEN Leave(FoldLeft(Stmt, Let1(Enter(acc), name, k), body)) ELSE acc,
             s, values)

Execute(Expr(_, _), Stmt(_, _), s, st) ==
    LET v == IF st.e = <<>> THEN V(s, 0) ELSE Expr(s, st.e[1])
        w == Expr(v.s, st.e[2])
        base == Through(v.s, v.v, st.e[1].ty)
        n == IF Running(v.s) THEN v.s.mem[base - 1] ELSE 0
    IN  IF ~Running(s) THEN s
        ELSE CASE st.k = "expr"  -> v.s
               [] st.k = "var"   -> Let1(v.s, st.name, v.v)
               [] st.k = "return" -> Stop([v.s EXCEPT !.ret = v.v], "return")
               [] st.k = "block" -> Block1(Stmt, s, st.body)
               [] st.k = "if"    -> IF ~Running(v.s) THEN v.s
                                    ELSE FoldLeft(Stmt, v.s, IF v.v # 0 THEN st.body ELSE st.orelse)
               [] st.k = "while" -> Loop(Expr, Stmt, s, <<st.e[1]>>, st.body, <<>>)
               [] st.k = "for"   -> Leave(Loop(Expr, Stmt, FoldLeft(Stmt, Enter(s), st.orelse),
                                               Front(st.e), st.body, <<Last1(st.e)>>))
               [] st.k = "forin" ->
                    Each(Stmt, Ensure(v.s, base # 0, "null"), st.name,
                         [k \in 1 .. n |-> IF st.ty \in DOMAIN Pointee THEN base + k - 1 ELSE v.s.mem[base + k - 1]],
                         st.body)
               [] st.k = "forrange" ->
                    Each(Stmt, w.s, st.name, [k \in 1 .. w.v - v.v |-> v.v + k - 1], st.body)

\* The run of a program on an input: what an observer sees.
RECURSIVE Eval(_, _, _)
RECURSIVE Exec(_, _, _)
Eval(decls, s, e)  == Evaluate(LAMBDA t, f : Eval(decls, t, f), LAMBDA t, f : Exec(decls, t, f), decls, s, e)
Exec(decls, s, st) == Execute(LAMBDA t, f : Eval(decls, t, f), LAMBDA t, f : Exec(decls, t, f), s, st)

Meaning(decls, input, fuel) ==
    LET start == [mem |-> <<>>, next |-> 1, scopes |-> <<NoNames>>, trace |-> <<>>, input |-> input,
                  status |-> "run", ret |-> 0, fuel |-> fuel]
        Globals(s, d) == IF d.k = "var" THEN Exec(decls, s, d) ELSE s
        ready == FoldLeft(Globals, start, decls)
        main  == [k |-> "call", ty |-> "void", kids |-> <<>>, x |-> "main", kind |-> "copy", use |-> "value"]
    IN  Eval(decls, ready, main).s
=============================================================================
