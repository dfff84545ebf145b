----------------------------- MODULE MCLowering -----------------------------
(* The programs, the types and the numbers of the runs of Lowering. *)
EXTENDS Lowering

Types    == [Box |-> <<"i64">>, Pair |-> <<"Box", "u8">>, Opt |-> <<"i64">>, Cell |-> <<"i64">>,
             OptSome |-> <<"i64", "Box">>, OptNone |-> <<"i64">>]
Lists    == [Boxes |-> "Box", Nums |-> "i64"]
Refs     == [rBox |-> "Box", rNum |-> "i64", rOpt |-> "Opt", rPair |-> "Pair", rCell |-> "Cell"]
Variants == [Opt |-> <<[name |-> "some", class |-> "OptSome"], [name |-> "none", class |-> "OptNone"]>>]
Least    == MinWord

\* Nodes of the tree.
N(k, ty, kids, x, kind, use) == [k |-> k, ty |-> ty, kids |-> kids, x |-> x, kind |-> kind, use |-> use]
Num(n)       == N("int", "i64", <<>>, n, "copy", "value")
Text(t)      == N("text", "ptr", <<>>, t, "copy", "value")
Name(x, ty)  == N("var", ty, <<>>, x, IF ty \in Scalars \cup DOMAIN Refs THEN "copy" ELSE "observe", "value")
Moved(x, ty) == N("var", ty, <<>>, x, "move", "move")
Ref(e)       == [e EXCEPT !.use = "borrow", !.kind = "observe"]
MutRef(e)    == [e EXCEPT !.use = "borrowmut", !.kind = "observe"]
TempRef(e)   == [e EXCEPT !.use = "temporary", !.kind = "observe"]
Kind(ty)     == IF ty \in Scalars \cup DOMAIN Refs \cup {"void"} THEN "copy" ELSE "produced"
Invoke(f, ty, args) == N("call", ty, args, f, Kind(ty), "value")
Binary1(k, l, r) == N(k, IF k \in Comparisons \cup {"and", "or"} THEN "bool" ELSE l.ty, <<l, r>>, 0, "copy", "value")
As(e, ty)    == N("cast", ty, <<e>>, 0, "copy", "value")
PartKind(e, ty) == IF ty \in Scalars THEN "copy" ELSE IF e.kind = "produced" THEN "produced" ELSE "observe"
Part(e, k, ty) == N("get", ty, <<e>>, k, PartKind(e, ty), "value")
Elem(e, i, ty) == N("index", ty, <<e, i>>, 0, PartKind(e, ty), "value")
Shell(ty, es)  == N("struct", ty, es, 0, "produced", "value")
List(ty, es)   == N("array", ty, es, 0, "produced", "value")
Default        == N("default", "void", <<>>, 0, "produced", "value")
Becomes(x, ty, e) == N("assign", ty, <<e>>, x, "observe", "value")
Cases(e, ty, cases) == N("match", ty, <<e>>, cases, Kind(ty), "value")
When(pat, guard, body) == [pat |-> pat, guard |-> guard, body |-> body]

\* Statements and declarations.
S(k, name, ty, e, body, orelse) == [k |-> k, name |-> name, ty |-> ty, e |-> e, body |-> body, orelse |-> orelse]
Do1(e)        == S("expr", "", "", <<e>>, <<>>, <<>>)
Show(e)       == Do1(Invoke("show", "void", <<e>>))
Let(x, ty, e) == S("var", x, ty, <<e>>, <<>>, <<>>)
Block2(body)  == S("block", "", "", <<>>, body, <<>>)
If1(c, body)  == S("if", "", "", <<c>>, <<Block2(body)>>, <<>>)
If2(c, body, orelse) == S("if", "", "", <<c>>, <<Block2(body)>>, <<Block2(orelse)>>)
Return1(e)    == S("return", "", "", e, <<>>, <<>>)
Fn(name, params, types, ret, body) ==
    [k |-> "function", name |-> name, params |-> params, types |-> types, ret |-> ret, body |-> body]
Extern(name, types, ret) == [k |-> "extern", name |-> name, types |-> types, ret |-> ret]

a == Name("a", "Box")
x == Name("x", "i64")
Make(n) == Invoke("make", "Box", <<Num(n)>>)
Ask == Invoke("ask", "i64", <<>>)
Val(e) == Part(e, 0, "i64")
g == Name("g", "Box")

Flag(n)      == N("bool", "bool", <<>>, n, "copy", "value")
Null1        == N("int", "ptr", <<>>, 0, "copy", "value")
Put(e, k, ty, v)  == N("set", ty, <<e, v>>, k, "observe", "value")
PutAt(e, i, ty, v) == N("setindex", ty, <<e, i, v>>, 0, "observe", "value")
Star(e, ty)  == N("deref", ty, <<e>>, 0, IF ty \in Scalars THEN "copy" ELSE "observe", "value")
PutStar(e, ty, v) == N("setderef", ty, <<e, v>>, 0, "observe", "value")
Pick3(c, l, r, ty) == N("ternary", ty, <<c, l, r>>, 0, Kind(ty), "value")
Unary1(k, e, ty)  == N(k, ty, <<e>>, 0, "copy", "value")
Less(l, r)   == Binary1("cmplt", l, r)
Plus(l, r)   == Binary1("add", l, r)
Minus(l, r)  == Binary1("sub", l, r)
IsZero(e)    == Binary1("cmpeq", e, Num(0))
Byte1(e)     == As(e, "u8")
ForIn1(name, ty, e, body)  == S("forin", name, ty, <<e>>, body, <<>>)
ForTo(name, ty, lo, hi, body) == S("forrange", name, ty, <<lo, hi>>, body, <<>>)
For3(init, test, step, body) == S("for", "", "", <<test, step>>, <<Block2(body)>>, <<init>>)
While1(c, body) == S("while", "", "", <<c>>, <<Block2(body)>>, <<>>)
Bind(name) == [p |-> "bind", name |-> name]
Int1(value) == [p |-> "int", n |-> value]
Case(name, binds) == [p |-> "variant", name |-> name, binds |-> binds]
To(name, ty) == [name |-> name, ty |-> ty]

\* What every program declares; a global variable among it.
Library == <<
    Extern("show", <<"i64">>, "void"), Extern("ask", <<>>, "i64"), Extern("panic", <<"ptr">>, "void"),
    Extern("exit", <<"i64">>, "void"),
    [k |-> "enum", name |-> "Opt"],
    Let("g", "Box", Make(1)),
    Fn("make", <<"v">>, <<"i64">>, "Box", <<Return1(<<Shell("Box", <<Name("v", "i64")>>)>>)>>),
    Fn("take", <<"b">>, <<"Box">>, "i64", <<Return1(<<Val(Name("b", "Box"))>>)>>),
    Fn("peek", <<"r">>, <<"rBox">>, "i64", <<Return1(<<Val(Name("r", "rBox"))>>)>>)>>

\* One of two boxes, by the next answer: a callee of several blocks.
PickFn == Fn("pick", <<"b", "c">>, <<"Box", "Box">>, "Box",
   <<If1(Binary1("cmpneq", Ask, Num(0)), <<Return1(<<Moved("b", "Box")>>)>>), Return1(<<Moved("c", "Box")>>)>>)
Pick(l, r) == Invoke("pick", "Box", <<l, r>>)
CountFn == Fn("count", <<"k">>, <<"i64">>, "i64",
   <<If1(Less(Name("k", "i64"), Num(1)), <<Return1(<<Num(0)>>)>>),
     Return1(<<Plus(Invoke("count", "i64", <<Minus(Name("k", "i64"), Num(1))>>), Num(1))>>)>>)
Half(name, other, at0) == Fn(name, <<"k">>, <<"i64">>, "i64",
   <<If1(IsZero(Name("k", "i64")), <<Return1(<<Num(at0)>>)>>),
     Return1(<<Invoke(other, "i64", <<Minus(Name("k", "i64"), Num(1))>>)>>)>>)
ViewFn == Fn("view", <<"r">>, <<"rOpt">>, "i64",
   <<Return1(<<Cases(Name("r", "rOpt"), "i64",
        <<When(Case("some", <<To("b", "rBox")>>), <<Less(Val(Name("b", "rBox")), Num(2))>>, <<Do1(Num(7))>>),
          When(Case("some", <<To("b", "rBox")>>), <<>>, <<Do1(Val(Name("b", "rBox")))>>),
          When(Case("none", <<>>), <<>>, <<Do1(Num(0))>>)>>)>>)>>)
ResetFn == Fn("reset", <<"r">>, <<"rBox">>, "void", <<Do1(PutStar(Name("r", "rBox"), "Box", Make(6)))>>)
BumpFn  == Fn("bump", <<"r">>, <<"rNum">>, "void",
   <<Do1(PutStar(Name("r", "rNum"), "i64", Plus(Star(Name("r", "rNum"), "i64"), Num(1))))>>)
\* A return from inside the construction of an object that owns already.
BuildFn == Fn("build", <<"k">>, <<"i64">>, "i64",
   <<Let("p", "Pair", Shell("Pair", <<Make(1), Cases(Name("k", "i64"), "u8",
        <<When(Int1(0), <<>>, <<Return1(<<Num(9)>>)>>), When(Bind("y"), <<>>, <<Do1(Byte1(Name("y", "i64")))>>)>>)>>)),
     Return1(<<Plus(Val(Part(Name("p", "Pair"), 0, "Box")), As(Part(Name("p", "Pair"), 1, "u8"), "i64"))>>)>>)

\* A piece of a main function: the functions it needs, its statements.  It may
\* use a, a box of its own, and x, the first answer.
P(needs, body) == [needs |-> needs, body |-> body]
Pp == Name("p", "Pair")
L  == Name("l", "Boxes")
K  == Name("k", "i64")
Two == List("Boxes", <<Make(1), Make(4)>>)
LowestWord == Minus(Unary1("neg", Num(15), "i64"), Num(1))

\* Pieces that leave a to be used again.
Keeping == <<
    P(<<>>, <<Show(Invoke("peek", "i64", <<Ref(a)>>)), Show(Val(g))>>),
    P(<<>>, <<Do1(Becomes("a", "Box", Make(3))), Do1(Becomes("g", "Box", Make(4))), Show(Val(a)), Do1(Make(5))>>),
    P(<<>>, <<Show(Binary1("div", x, Minus(x, Num(1))))>>),
    P(<<>>, <<Show(Binary1("mod", LowestWord, Minus(x, Num(1))))>>),
    P(<<>>, <<Let("k", "u8", Byte1(Num(7))), Show(As(Plus(Name("k", "u8"), Name("k", "u8")), "i64")),
              Show(As(Binary1("div", Byte1(Minus(x, Num(1))), Byte1(Num(2))), "i64"))>>),
    P(<<>>, <<Let("k", "u64", As(Minus(x, Num(1)), "u64")),
              If2(Less(Name("k", "u64"), As(Num(3), "u64")), <<Show(Num(1))>>, <<Show(Num(2))>>),
              Show(As(Binary1("div", Name("k", "u64"), As(Num(2), "u64")), "i64"))>>),
    P(<<>>, <<If2(Less(x, Num(1)), <<Let("b", "Box", Make(5)), Show(Val(Name("b", "Box")))>>, <<Show(Num(2))>>)>>),
    P(<<ViewFn>>, <<Let("o", "Opt", Invoke("some", "Opt", <<Make(2)>>)), Show(Invoke("view", "i64", <<Ref(Name("o", "Opt"))>>)),
                    Show(Invoke("view", "i64", <<TempRef(Invoke("none", "Opt", <<>>))>>)),
                    Show(Invoke("view", "i64", <<TempRef(Invoke("some", "Opt", <<Make(1)>>))>>))>>),
    P(<<>>, <<Show(Cases(x, "i64", <<When(Int1(0), <<>>, <<Do1(Num(5))>>),
                                     When(Bind("y"), <<Less(Ask, Num(1))>>, <<Do1(Name("y", "i64"))>>),
                                     When(Bind("z"), <<>>, <<Show(Num(3)), Do1(Plus(Name("z", "i64"), Num(1)))>>)>>))>>),
    P(<<>>, <<Let("l", "Boxes", Two), Do1(PutAt(L, Plus(x, x), "Box", Make(5))), Show(Val(Elem(L, x, "Box")))>>),
    P(<<>>, <<Show(Val(Elem(Two, x, "Box"))), Show(Val(Make(3)))>>),
    P(<<>>, <<ForIn1("r", "rBox", Two, <<If1(IsZero(x), <<Return1(<<>>)>>), Show(Val(Name("r", "rBox")))>>)>>),
    P(<<BumpFn>>, <<ForIn1("v", "i64", List("Nums", <<Num(3), x>>), <<Show(Name("v", "i64"))>>),
                    Let("k", "i64", x), Do1(Invoke("bump", "void", <<Ref(K)>>)), Show(K)>>),
    P(<<>>, <<Let("k", "i64", Num(0)), While1(Less(K, Num(2)), <<Let("b", "Box", Make(5)), Do1(Becomes("k", "i64", Plus(K, Val(a)))),
                    If1(IsZero(x), <<Return1(<<>>)>>), Show(K)>>)>>),
    P(<<>>, <<For3(Let("k", "i64", Num(0)), Less(K, Num(2)), Unary1("incr", K, "i64"), <<Show(K)>>),
              ForTo("j", "i64", x, Num(2), <<Show(Name("j", "i64"))>>)>>),
    P(<<>>, <<If2(Binary1("and", Less(x, Num(1)), IsZero(Ask)), <<Show(Num(1))>>, <<Show(Num(2))>>),
              If2(Binary1("or", Less(x, Num(1)), IsZero(Ask)), <<Show(Num(1))>>, <<Show(Num(2))>>)>>),
    P(<<>>, <<Do1(Unary1("decr", Val(a), "i64")), Show(Val(a)), Show(Unary1("neg", x, "i64")),
              If1(Unary1("not", Less(x, Num(1)), "bool"), <<Show(Binary1("bitor", Binary1("bitand", Num(6), Num(5)), x))>>)>>),
    P(<<>>, <<Let("p", "Pair", Shell("Pair", <<Make(8), Byte1(Num(3))>>)), Do1(Put(Pp, 0, "Box", Make(9))),
              Do1(Put(Pp, 1, "u8", Byte1(x))), Show(Val(Part(Pp, 0, "Box"))), Show(As(Part(Pp, 1, "u8"), "i64"))>>),
    P(<<>>, <<Show(Val(N("swap", "Box", <<MutRef(a), Make(5)>>, 0, "produced", "value"))), Show(Val(a))>>),
    P(<<ResetFn>>, <<Do1(Invoke("reset", "void", <<MutRef(a)>>)), Show(Val(a))>>),
    P(<<>>, <<If2(Binary1("cmpeq", a, a), <<Show(Num(1))>>, <<Show(Num(2))>>),
              If2(Binary1("cmpneq", Make(2), a), <<Show(Num(1))>>, <<Show(Num(2))>>)>>),
    P(<<>>, <<Let("b", "Box", N("clone", "Box", <<Ref(a)>>, 0, "produced", "value")), Do1(Put(Name("b", "Box"), 0, "i64", Num(4))), Show(Val(a))>>),
    P(<<>>, <<Show(Invoke("peek", "i64", <<TempRef(Make(8))>>)), Show(Pick3(Less(x, Num(1)), Num(4), Ask, "i64"))>>),
    P(<<BuildFn>>, <<Show(Invoke("build", "i64", <<x>>)), Show(Invoke("build", "i64", <<Num(2)>>))>>),
    P(<<>>, <<Let("p", "Pair", Shell("Pair", <<Default, Byte1(x)>>)), Show(As(Part(Pp, 1, "u8"), "i64")), Show(Val(Part(Pp, 0, "Box")))>>),
    P(<<>>, <<Let("b", "Box", Make(5)), If1(IsZero(x), <<Do1(Invoke("exit", "void", <<Val(a)>>)), Show(Num(3))>>), Show(Val(Name("b", "Box")))>>),
    P(<<CountFn>>, <<Show(Invoke("count", "i64", <<Num(2)>>))>>),
    P(<<Half("even", "odd", 1), Half("odd", "even", 0)>>, <<Show(Invoke("even", "i64", <<Num(3)>>))>>),
    P(<<PickFn>>, <<Show(Invoke("take", "i64", <<Pick(Make(1), Invoke("panic", "Box", <<Text("x")>>))>>))>>),
    P(<<PickFn>>, <<Show(Val(Pick(Make(1), Pick(Make(3), Make(4)))))>>),
    P(<<>>, <<Do1(Invoke("panic", "void", <<Binary1("coalesce", Null1, Text("late"))>>))>>),
    P(<<>>, <<Do1(Becomes("x", "i64", Plus(Binary1("mul", x, Num(1)), Num(0)))), Show(Plus(Binary1("mul", x, x), Binary1("mul", x, x)))>>),
    P(<<>>, <<While1(Flag(1), <<If1(Binary1("cmpge", Unary1("incr", x, "i64"), Num(2)), <<Show(x), Return1(<<>>)>>)>>)>>)
  >>

\* Pieces that move a away.
Moving == <<
    P(<<>>, <<Show(Invoke("take", "i64", <<Moved("a", "Box")>>))>>),
    P(<<>>, <<Let("c", "Box", Moved("a", "Box")), Show(Val(Name("c", "Box")))>>),
    P(<<PickFn>>, <<Show(Val(Pick(Make(1), Moved("a", "Box"))))>>),
    P(<<PickFn>>, <<Do1(Becomes("a", "Box", Pick(Moved("a", "Box"), Make(7)))), Show(Val(a))>>),
    P(<<>>, <<Let("o", "Opt", Invoke("some", "Opt", <<Moved("a", "Box")>>)),
      Show(Cases(Moved("o", "Opt"), "i64",
          <<When(Case("some", <<To("b", "Box")>>), <<>>, <<Do1(Invoke("take", "i64", <<Moved("b", "Box")>>))>>),
            When(Case("none", <<>>), <<>>, <<Do1(Num(0))>>)>>))>>),
    P(<<>>, <<Let("b", "Box", Cases(Invoke("some", "Opt", <<Moved("a", "Box")>>), "Box",
          <<When(Case("none", <<>>), <<>>, <<Return1(<<>>)>>),
            When(Case("some", <<To("c", "Box")>>), <<>>, <<Do1(Moved("c", "Box"))>>)>>)), Show(Val(Name("b", "Box")))>>),
    P(<<>>, <<Let("l", "Boxes", List("Boxes", <<Make(1), Moved("a", "Box")>>)), ForIn1("r", "rBox", L, <<Show(Val(Name("r", "rBox")))>>)>>),
    P(<<>>, <<Show(Val(Pick3(Binary1("cmpneq", Ask, Num(0)), Moved("a", "Box"), Make(7), "Box")))>>),
    P(<<>>, <<Let("p", "Pair", Shell("Pair", <<Moved("a", "Box"), Byte1(Num(3))>>)), Do1(Becomes("a", "Box", Make(5))),
              Show(Val(Part(Pp, 0, "Box"))), Show(Val(a))>>),
    P(<<>>, <<Let("c", "Box", Cases(Moved("a", "Box"), "Box", <<When(Bind("w"), <<>>, <<Do1(Moved("w", "Box"))>>)>>)), Show(Val(Name("c", "Box")))>>)
  >>

Main(parts) == Fn("main", <<>>, <<>>, "void", <<Let("a", "Box", Make(2)), Let("x", "i64", Ask)>> \o parts)
Plain(p)  == Library \o p.needs \o <<Main(<<Block2(p.body)>>)>>
InIf(p)   == Library \o p.needs \o <<Main(<<If1(Binary1("cmpneq", Ask, Num(0)), p.body), Show(x)>>)>>
InLoop(p) == Library \o p.needs \o <<Main(<<ForTo("i", "i64", Num(0), Num(2), p.body), Show(x)>>)>>
Programs ==
    [k \in DOMAIN Keeping |-> Plain(Keeping[k])] \o [k \in DOMAIN Keeping |-> InLoop(Keeping[k])]
    \o [k \in DOMAIN Moving |-> Plain(Moving[k])] \o [k \in DOMAIN Moving |-> InIf(Moving[k])]
\* What the type checker lets through although its value never comes.
Never == Invoke("panic", "void", <<Text("no")>>)
Diverging == <<Plain(P(<<>>, <<Show(x), Do1(Becomes("x", "i64", Never)), Show(x)>>)),
               Plain(P(<<>>, <<Do1(Becomes("a", "Box", Never)), Show(Val(a))>>)),
               Plain(P(<<BumpFn>>, <<Let("k", "i64", x), Do1(PutStar(Ref(K), "i64", Never))>>))>>
Inputs == {<<0, 0, 0, 0, 0, 0, 0, 0, 0>>, <<1, 1, 1, 1, 1, 1, 1, 1, 1>>, <<1, 0, 1, 1, 0, 1, 1, 0, 1>>, <<0, 1, 0, 0, 1, 0, 0, 1, 0>>}
=============================================================================
