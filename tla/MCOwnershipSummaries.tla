------------------------ MODULE MCOwnershipSummaries ------------------------
(* Programs of one function with branches and loops over a few statements, *)
(* and of three functions that call each other.                            *)
EXTENDS OwnershipAnswers, OwnershipPlan, TLC
CONSTANTS x, y, g, ra, q, pa, ma, mb, f

MCScope == 0..4
MCBinding == {x, y, g, ra, q, pa, ma, mb, f} \cup {Temp(s) : s \in MCScope}
MCType == [b \in MCBinding |-> CASE b \in {ra, q} -> "ref" [] b = pa -> "slot"
                                  [] b \in {ma, mb} -> "mut" [] b = f -> "fn" [] OTHER -> "own"]
Unknowing(params) == [params |-> params, summary |-> {}, effects |-> {}, stores |-> <<>>]
\* What the contracts of "eat" and "keep" say is known, the others are functions
\* of the program.
MCCallee == [eat |-> Unknowing(<<"own">>),
             keep |-> [Unknowing(<<"mut slot", "mut">>) EXCEPT !.stores =
                         <<[destination |-> Parameter(1, <<>>), sources |-> {Parameter(2, <<>>)}]>>],
             first |-> Unknowing(<<"slot", "ref">>),
             second |-> Unknowing(<<"slot", "ref">>)]

V(i, n) == [e |-> "var", id |-> i, name |-> n]
New(i) == [e |-> "fresh", id |-> i, type |-> "own"]
Lit(i) == [e |-> "fresh", id |-> i, type |-> "int"]
Ref(i, n) == [e |-> "address", id |-> i, kind |-> "shared", of |-> V(i + 1, n)]
Mut(i, n) == [e |-> "address", id |-> i, kind |-> "exclusive", of |-> V(i + 1, n)]
Load(i, n) == [e |-> "deref", id |-> i, of |-> V(i + 1, n)]
Ask(i, name, args, t) == [e |-> "call", id |-> i, name |-> name, args |-> args, type |-> t]
Same(a, b) == [e |-> "compare", id |-> 1, left |-> a, right |-> b]

LetS(n, a) == <<[s |-> "let", name |-> n, init |-> a]>>
DoS(a) == <<[s |-> "do", do |-> a]>>
SetV(n, a) == DoS([e |-> "set name", id |-> 1, name |-> n, value |-> a])
SetT(n, a) == DoS([e |-> "set target", id |-> 1, of |-> V(2, n), value |-> a])
RetS(a) == <<[s |-> "return", value |-> a]>>
IfS(a, b) == <<[s |-> "if", test |-> Lit(40), then |-> a, else |-> b]>>

\* The blocks of a function, as statements in the scope of the function or, for
\* the body of a loop, in scope 2; each has identities of its own.
B(body, next) == [scope |-> 1, formals |-> <<>>, body |-> body, next |-> next]
Inner(body) == <<[s |-> "block", body |-> body]>>
Test == DoS(Lit(50))
Straight(a) == << B(a, <<>>) >>
Branches(a, b, c, last) ==
  << B(a \o Test, <<2, 3>>), B(Inner(b), <<4>>), B(Inner(c), <<4>>), B(last, <<>>) >>
Loop(a, b, last) ==
  << B(a, <<2>>), B(Test, <<3, 4>>), B(Inner(b), <<2>>), B(last, <<>>) >>
LoopWithIf(a, b, c, last) ==
  << B(a, <<2>>), B(Test, <<3, 4>>), [B(Test, <<5, 6>>) EXCEPT !.scope = 2], B(last, <<>>),
     [B(Inner(b), <<7>>) EXCEPT !.scope = 2], [B(Inner(c), <<7>>) EXCEPT !.scope = 2],
     B(Inner(<<>>), <<2>>) >>

At1(scope, base) == [scope |-> scope, base |-> base, bounded |-> FALSE]
CodeOf(block, base) ==
  (IF block.formals # <<>> THEN Formals(At1(1, 0), block.formals) ELSE <<>>)
  \o Statements(At1(block.scope, base), block.body)
MCFn == [scope |-> [b \in MCBinding |-> IF b \in {Temp(s) : s \in MCScope} THEN b[2]
                                        ELSE IF b = g THEN 0 ELSE 1],
         parent |-> [s \in MCScope |-> IF s = 0 THEN Outside ELSE s - 1]]
Compiled(blocks) ==
  [k \in DOMAIN blocks |->
     [code |-> (IF k = 1 THEN OpDeclare(g, TRUE) ELSE <<>>) \o CodeOf(blocks[k], k),
      next |-> blocks[k].next]]
F(name, formals, blocks) ==
  [name |-> name, blocks |-> [blocks EXCEPT ![1].formals = formals]]

\* One function: what it does with two owners and a reference to one of them.
Owners == LetS(x, New(1)) \o LetS(y, New(1)) \o LetS(ra, Ref(1, y))
Deeds == {<<>>, DoS(Ask(1, "eat", <<V(2, x)>>, "int")), SetV(x, New(2)),
          SetV(ra, Ref(2, x)), SetV(ra, Ref(2, y)), DoS(Same(Load(2, ra), Lit(4))),
          DoS(Ask(1, "eat", <<V(2, y)>>, "int"))}
Endings == {DoS(Same(Load(2, ra), Lit(4))), DoS(Same(V(2, x), Lit(4)))}
Alone ==
  {<<F("alone", <<>>, Loop(Owners \o a, b, last))>> : a, b \in Deeds, last \in Endings}
  \cup {<<F("alone", <<>>, Branches(Owners, a, b, last))>> : a, b \in Deeds, last \in Endings}
  \cup {<<F("alone", <<>>, LoopWithIf(Owners, a, b, last))>> : a, b \in Deeds, last \in Endings}

\* A reference that may be exclusive or, by what is known of a closure, static,
\* is stored where paths of different lengths meet, and in a loop.
Lent == LetS(x, New(1)) \o LetS(y, New(1)) \o LetS(ma, Mut(1, x)) \o LetS(mb, Mut(1, y))
Renewed == SetV(ma, [e |-> "invoke", id |-> 2, of |-> V(5, f), name |-> f, args |-> <<>>, type |-> "mut"])
Kept == DoS(Ask(1, "keep", <<Mut(2, mb), V(4, ma)>>, "int"))
Uneven(a, b, c, last) ==
  << B(a \o Test, <<2, 3>>), B(b, <<5>>), B(c, <<4>>), B(<<>>, <<5>>),
     B(Kept, <<6>>), B(last, <<>>) >>
After == {<<>>, DoS(Same(V(2, x), Lit(4))), DoS(Same(V(2, y), Lit(4))),
          DoS(Ask(1, "eat", <<V(2, x)>>, "int")), DoS(Same(Load(2, mb), Lit(4))),
          DoS(Same(Load(2, ma), Lit(4)))}
Exclusives ==
  {<<F("alone", <<f>>, Uneven(Lent, a, b, c))>> : a, b \in {<<>>, Renewed}, c \in After}
  \cup {<<F("alone", <<f>>, LoopWithIf(Lent, Kept, a, b))>> : a \in {<<>>, Renewed}, b \in After}

\* Three functions: two that may call each other, and their caller.
Pass(name, t) == Ask(10, name, <<V(11, pa), V(12, q)>>, t)
Bodies(other) ==
  {<<>>, SetT(pa, V(3, q)), DoS(Pass(other, "int")), SetV(g, New(2)), SetT(pa, Ref(3, g))}
Results(other) == {V(1, q), Load(1, pa), Pass(other, "ref")}
Partners(name, other) ==
  {F(name, <<pa, q>>, Branches(<<>>, a, <<>>, RetS(r))) : a \in Bodies(other), r \in Results(other)}
Given == LetS(x, New(1)) \o LetS(y, New(1)) \o LetS(ra, Ref(1, x))
         \o LetS(q, Ask(1, "first", <<Mut(2, ra), Ref(4, y)>>, "ref"))
Callers ==
  {F("caller", <<>>, Straight(Given \o a \o b)) :
     a \in {DoS(Ask(1, "eat", <<V(2, x)>>, "int")), DoS(Ask(1, "eat", <<V(2, y)>>, "int")), SetV(g, New(2))},
     b \in {DoS(Same(Load(2, q), Lit(4))), RetS(V(1, q))}}
Together3 ==
  {<<c, a, b>> : c \in Callers, a \in Partners("first", "second"), b \in Partners("second", "first")}
MCPlan ==
  {[k \in DOMAIN p |-> [name |-> p[k].name, fn |-> MCFn, blocks |-> Compiled(p[k].blocks)]] :
     p \in Alone \cup Exclusives \cup Together3}
=============================================================================
