--------------------------- MODULE MCOwnershipPath ---------------------------
(* Functions over a few bindings: each menu is a set of statements, from    *)
(* which every sequence of MaxSteps statements is built.                    *)
EXTENDS OwnershipPath, OwnershipPlan, TLC
CONSTANTS x, y, g, h, ra, q, ma, pa, f, v, ext1, ext2, ext3, ext4

MCScope == 0..5
MCBinding == {x, y, g, h, ra, q, ma, pa, f, v} \cup {Temp(s) : s \in MCScope}
MCType ==
  [b \in MCBinding |-> CASE b \in {x, y, g} -> "own" [] b \in {ra, q, v} -> "ref"
                         [] b = ma -> "mut" [] b = pa -> "slot" [] b = h -> "holder"
                         [] b = f -> "fn" [] OTHER -> "own"]
MCCaptures == f :> {ra}
P(k) == Parameter(k, <<>>)
MCCallee ==
  [pick  |-> [params |-> <<"ref", "ref">>, summary |-> {<<>>} \X {P(1), P(2)},
              effects |-> {}, stores |-> <<>>],
   eat   |-> [params |-> <<"own">>, summary |-> {}, effects |-> {}, stores |-> <<>>],
   keep  |-> [params |-> <<"slot", "ref">>, summary |-> {}, effects |-> {},
              stores |-> <<[destination |-> P(1), sources |-> {P(2)}]>>],
   load  |-> [params |-> <<"slot">>, summary |-> {<< <<>>, Parameter(1, <<Deref>>)>>},
              effects |-> {}, stores |-> <<>>],
   put   |-> [params |-> <<"slot", "ref">>, summary |-> {<< <<>>, Parameter(1, <<Deref>>)>>},
              effects |-> {},
              stores |-> <<[destination |-> P(1), sources |-> {P(2)}]>>],
   same  |-> [params |-> <<"mut">>, summary |-> {<< <<>>, P(1)>>},
              effects |-> {}, stores |-> <<>>],
   touch |-> [params |-> <<>>, summary |-> {}, effects |-> {<<g, TRUE>>},
              stores |-> <<>>]]

-----------------------------------------------------------------------------
(* Expressions; the first argument is the identity.                        *)
V(i, n) == [e |-> "var", id |-> i, name |-> n]
New(i) == [e |-> "fresh", id |-> i, type |-> "own"]
Lit(i) == [e |-> "fresh", id |-> i, type |-> "int"]
Ref(i, of) == [e |-> "address", id |-> i, kind |-> "shared", of |-> of]
Mut(i, of) == [e |-> "address", id |-> i, kind |-> "exclusive", of |-> of]
At1(i, of) == [e |-> "deref", id |-> i, of |-> of]
Part(i, of) == [e |-> "field", id |-> i, of |-> of]
Hold(i, of) == [e |-> "make", id |-> i, of |-> of]
Ask(i, name, args, t) == [e |-> "call", id |-> i, name |-> name, args |-> args, type |-> t]
Two(i, form, a, b) == [e |-> form, id |-> i, left |-> a, right |-> b]
If(i, a, b) == [e |-> "choose", id |-> i, test |-> Lit(90), then |-> a, else |-> b]
SetV(n, a) == [e |-> "set name", id |-> 1, name |-> n, value |-> a]
SetF(of, a) == [e |-> "set part", id |-> 1, of |-> of, step |-> Field(1), value |-> a]
SetT(of, a) == [e |-> "set target", id |-> 1, of |-> of, value |-> a]
BaseCtx(scope, base) == [scope |-> scope, base |-> base, bounded |-> FALSE]
Elaborated(st) ==
  [needs |-> st.needs, declares |-> st.declares, returns |-> st.s = "return",
   code |-> [scope \in 1..MaxDepth |->
               [base \in 1..8 |-> Statement(BaseCtx(scope, base), st)]]]
LetWith(n, a, needs, more) == [s |-> "let", name |-> n, init |-> a, needs |-> needs,
                               declares |-> {<<n, 0>>} \cup more]
LetS(n, a, needs) == LetWith(n, a, needs, {})
DoS(a, needs) == [s |-> "do", do |-> a, needs |-> needs, declares |-> {}]
RetS(a, needs) == [s |-> "return", value |-> a, needs |-> needs, declares |-> {}]

NoFormals == [formals |-> <<>>, held |-> <<>>, refs |-> <<>>]
F(name, blocks, branches, formals) ==
  [name |-> name, blocks |-> blocks, branches |-> branches,
   entry |-> Formals(BaseCtx(1, 0), formals.formals),
   formals |-> formals.formals, held |-> formals.held, refs |-> formals.refs]

NewX == LetS(x, New(1), {})
NewY == LetS(y, New(1), {})
LateX == LetS(x, NoValue, {})
RefX == LetS(ra, Ref(1, V(2, x)), {x})
MutX == LetS(ma, Mut(1, V(2, x)), {x})
UseX == DoS(Two(1, "compare", V(2, x), Lit(3)), {x})
UseR == DoS(Two(1, "compare", At1(2, V(3, ra)), Lit(4)), {ra})
UseQ == DoS(Two(1, "compare", At1(2, V(3, q)), Lit(4)), {q})
UseV == DoS(Two(1, "compare", At1(2, V(3, v)), Lit(4)), {v})
EatX == DoS(Ask(1, "eat", <<V(2, x)>>, "int"), {x})
RenewX == DoS(SetV(x, New(2)), {x})
SetRX == DoS(SetV(ra, Ref(2, V(3, x))), {ra, x})
SetRY == DoS(SetV(ra, Ref(2, V(3, y))), {ra, y})
SetMNew == DoS(SetT(V(2, ma), New(3)), {ma})

LetMut(n, of, needs) == LetS(n, Mut(1, of), needs)
LetCall(n, name, args, t, needs) == LetS(n, Ask(1, name, args, t), needs)
DoCall(name, args, needs) == DoS(Ask(1, name, args, "int"), needs)
CaseOf(n, view, guard, body) == [name |-> n, view |-> view, guard |-> guard, body |-> body]
Switch(i, of, cases, t) == [e |-> "match", id |-> i, of |-> of, cases |-> cases, type |-> t]
Invoked(i, args, t) == [e |-> "invoke", id |-> i, of |-> V(50, f), name |-> f,
                        args |-> args, type |-> t]
Raw(i, form, of, a) == [e |-> form, id |-> i, of |-> of, value |-> a]
Compound(form, body, more, needs, declares) ==
  [s |-> form, body |-> body, needs |-> needs, declares |-> declares] @@ more

\* Borrows of one owner, reborrows, moves, a closure.
Borrows == {NewX, RefX, MutX, UseX, EatX, RenewX, SetMNew, UseR,
   LetS(q, Ref(1, At1(2, V(3, ma))), {ma}),
   LetS(y, V(1, x), {x}),
   LetCall(q, "pick", <<V(2, ra), Ref(3, V(4, x))>>, "ref", {ra, x}),
   LetS(f, [e |-> "lambda", id |-> 1, name |-> f], {ra}),
   LetS(q, Invoked(1, <<V(2, ra)>>, "ref"), {f, ra})}
\* A reference to a place that holds a reference, and what is stored in it.
Slots == {NewX, NewY, RefX, LetMut(pa, V(2, ra), {ra}), SetRX, SetRY, UseQ,
   DoS(SetT(V(2, pa), Ref(3, V(4, y))), {pa, y}),
   DoCall("keep", <<V(2, pa), Ref(3, V(4, y))>>, {pa, y}),
   DoCall("keep", <<Mut(2, V(3, ra)), Ref(4, V(5, y))>>, {ra, y}),
   LetCall(q, "load", <<V(2, pa)>>, "ref", {pa}),
   LetS(q, At1(1, V(2, pa)), {pa}),
   DoCall("eat", <<V(2, y)>>, {y})}
\* References of the caller's: what is returned and what is left behind.
Caller == {NewX, RetS(V(1, q), {}), RetS(V(1, ra), {ra}), RetS(Lit(1), {}),
   RetS(Ask(1, "load", <<V(2, pa)>>, "ref"), {}),
   RetS(Raw(1, "raw take", V(2, pa), NoValue), {}),
   RetS(Ask(1, "pick", <<V(2, q), Ref(3, At1(4, V(5, ma)))>>, "ref"), {}),
   DoS(SetT(V(2, pa), V(3, q)), {}), DoS(SetT(V(2, pa), Ref(3, V(4, x))), {x}),
   DoCall("keep", <<V(2, pa), Ref(3, At1(4, V(5, ma)))>>, {}),
   DoS(Raw(1, "raw initialize", V(2, pa), V(3, q)), {}),
   LetS(ra, Raw(1, "raw borrow", V(2, pa), NoValue), {}),
   LetS(ra, If(1, V(2, q), Ref(3, At1(4, V(5, ma)))), {})}
\* Branches, loops and conditional evaluation.
Control == {NewX, NewY, LateX, EatX, RenewX, UseX, RefX, UseR, SetRY,
   Compound("while", <<DoCall("eat", <<V(2, x)>>, {x}), DoS(SetV(x, New(2)), {x})>>,
            [test |-> Two(70, "compare", V(71, x), Lit(72))], {x}, {}),
   Compound("while", <<SetRY, SetRX>>, [test |-> Lit(70)], {ra, x, y}, {}),
   Compound("if", <<>>, [test |-> Lit(70), then |-> <<EatX>>, else |-> <<EatX>>], {x}, {}),
   Compound("for", <<EatX>>, [init |-> NewY, test |-> Lit(70),
            increment |-> SetV(x, New(75))], {x}, {<<y, 1>>}),
   LetS(q, If(1, Ref(2, V(3, x)), Ref(4, V(5, y))), {x, y}),
   DoS(Two(1, "logical", Lit(2), Ask(3, "eat", <<V(4, x)>>, "int")), {x})}
\* Aggregates that hold references: fields, patterns, iteration.
Parts == {NewX, NewY, LetS(h, Hold(1, Ref(2, V(3, x))), {x}),
   DoS(SetF(V(2, h), Ref(3, V(4, y))), {h, y}),
   LetS(q, Part(1, V(2, h)), {h}), UseQ, EatX, DoCall("eat", <<V(2, y)>>, {y}),
   LetMut(ma, Part(2, V(3, x)), {x}),
   DoS([e |-> "increment", id |-> 1, of |-> At1(2, V(3, ma))], {ma}),
   [s |-> "destructure", name |-> ra, init |-> V(1, h), needs |-> {h}, declares |-> {<<ra, 0>>}],
   LetWith(ra, Switch(1, V(2, h), <<CaseOf(v, FALSE, NoValue, V(3, v)),
                                   CaseOf(NoValue, FALSE, NoValue, V(4, q))>>, "ref"),
           {h, q}, {<<v, 2>>}),
   Compound("for in", <<UseV>>, [over |-> V(1, h), name |-> v], {h}, {<<v, 2>>})}
\* A borrowed match with a guard, closures that store, and a global.
Shared == {NewX, RefX, UseR, DoCall("touch", <<>>, {}), DoS(SetV(g, New(2)), {}),
   LetS(q, Ref(1, V(2, g)), {}), UseQ,
   LetWith(q, Switch(1, V(2, ra), <<CaseOf(v, TRUE, Lit(3), V(4, v)),
                                   CaseOf(NoValue, TRUE, NoValue, V(5, ra))>>, "ref"),
           {ra}, {<<v, 2>>}),
   LetS(f, [e |-> "lambda", id |-> 1, name |-> f], {ra}),
   LetMut(pa, V(2, ra), {ra}), LetS(ra, Ref(1, V(2, g)), {}),
   DoS(Invoked(1, <<V(2, pa)>>, "int"), {f, pa}),
   LetS(q, Invoked(1, <<>>, "ref"), {f}),
   DoS(Two(1, "combine", Lit(2), Ask(3, "eat", <<V(4, x)>>, "int")), {x}),
   RetS(V(1, q), {q})}
CallerFormals ==
  [formals |-> <<pa, q, ma>>,
    held |-> pa :> {1} @@ ext1 :> {2} @@ q :> {3} @@ ma :> {4},
    refs |-> <<[target |-> ext1, kind |-> "exclusive", above |-> {}, valid |-> TRUE],
               [target |-> ext2, kind |-> "shared", above |-> {}, valid |-> TRUE],
               [target |-> ext3, kind |-> "shared", above |-> {}, valid |-> TRUE],
               [target |-> ext4, kind |-> "exclusive", above |-> {}, valid |-> TRUE]>>]
MCMenu == {F("borrows", TRUE, FALSE, NoFormals), F("slots", TRUE, FALSE, NoFormals),
  F("caller", FALSE, TRUE, CallerFormals), F("control", FALSE, TRUE, NoFormals),
  F("parts", FALSE, FALSE, NoFormals), F("shared", TRUE, FALSE, NoFormals)}
MCStatements == [borrows |-> Borrows, slots |-> Slots, caller |-> Caller,
                 control |-> Control, parts |-> Parts, shared |-> Shared]
MCRepertoire ==
  [k \in DOMAIN MCStatements |-> {Elaborated(st) : st \in MCStatements[k]}]
\* A match whose cases borrow.
MCArms == [arms |-> {NewX, NewY, EatX, UseR,
  LetS(ra, Switch(1, Lit(2), <<CaseOf(NoValue, FALSE, Lit(3), Ref(4, V(5, x))),
                              CaseOf(NoValue, FALSE, NoValue, Ref(6, V(7, y)))>>, "ref"),
       {x, y})}]
MCArmsMenu == {F("arms", FALSE, FALSE, NoFormals)}
MCArmsRepertoire == [k \in DOMAIN MCArms |-> {Elaborated(st) : st \in MCArms[k]}]
\* A call that stores a reference and returns what it stored.
MCPut == [put |-> {NewX, NewY, RefX, LetS(q, Ref(1, V(2, x)), {x}),
  DoS(SetV(q, Ask(2, "put", <<Mut(3, V(4, ra)), Ref(5, V(6, y))>>, "ref")), {q, ra, y}),
  DoCall("eat", <<V(2, y)>>, {y})}]
MCPutMenu == {F("put", TRUE, FALSE, NoFormals)}
MCPutRepertoire == [k \in DOMAIN MCPut |-> {Elaborated(st) : st \in MCPut[k]}]
MCOracle == {[arm |-> 1, pick |-> 1, rounds |-> 0], [arm |-> 2, pick |-> 2, rounds |-> 1],
             [arm |-> 2, pick |-> 1, rounds |-> 2]}
MCOriginOf == [e \in {ext1, ext2, ext3, ext4} |-> CASE e = ext1 -> P(1) [] e = ext2 -> Parameter(1, <<Deref>>)
                 [] e = ext3 -> P(2) [] e = ext4 -> P(3)]
=============================================================================
