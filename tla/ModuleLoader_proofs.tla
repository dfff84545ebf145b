------------------------ MODULE ModuleLoader_proofs ------------------------
(***************************************************************************)
(* The module loader resolves every module once, along the stack of its    *)
(* imports, compiles every declaration once and after what its module      *)
(* imports, and gives every reference the meaning that the text has.       *)
(*                                                                         *)
(* The argument follows the places of the statements: each has its place   *)
(* in some frame long before the output exists, and what happens at the    *)
(* end of a module keeps the order of the places.                          *)
(***************************************************************************)
EXTENDS ModuleLoader, SequenceTheorems, WellFoundedInduction, TLAPS

-----------------------------------------------------------------------------
(* Flattening.                                                             *)

\* Every set of numbers that is not empty has a least member.
LEMMA Least ==
  ASSUME NEW T, T \subseteq Nat, T # {}
  PROVE  \E n \in T : \A m \in T : ~(m < n)
<1> DEFINE R == {ss \in Nat \X Nat : ss[1] < ss[2]}
<1>1. \A m, n \in Nat : <<m, n>> \in R <=> m < n
  OBVIOUS
<1>2. IsWellFoundedOn(R, Nat)
  BY NatLessThanWellFounded DEF OpToRel
<1> HIDE DEF R
<1>3. \E n \in T : \A m \in T : ~(<<m, n>> \in R)
  BY <1>2, WFMin
<1> QED  BY <1>1, <1>3

\* The concatenations of the first members, which FlattenSeq computes.
FirstMembers(E, ss, g, n) ==
  /\ g \in [1..n -> Seq(E)]
  /\ n > 0 => g[1] = ss[1]
  /\ \A i \in 2..n : g[i] = g[i - 1] \o ss[i]

LEMMA FirstMembersExist ==
  ASSUME NEW E, NEW ss \in Seq(Seq(E))
  PROVE  \E g : FirstMembers(E, ss, g, Len(ss))
<1> DEFINE T == {n \in 0..Len(ss) : ~\E g : FirstMembers(E, ss, g, n)}
<1>1. Len(ss) \in Nat /\ Len(ss) \in 0..Len(ss)
  OBVIOUS
<1> SUFFICES ASSUME T # {} PROVE FALSE
  BY <1>1
<1>2. T \subseteq Nat
  OBVIOUS
<1>3. PICK n \in T : \A m \in T : ~(m < n)
  BY <1>2, Least
<1>4. n \in 0..Len(ss) /\ ~\E g : FirstMembers(E, ss, g, n)
  OBVIOUS
<1>5. \A m \in 0..Len(ss) : m < n => \E g : FirstMembers(E, ss, g, m)
  BY <1>3
<1> HIDE DEF T
<1>6. CASE n = 0
  <2>1. FirstMembers(E, ss, [i \in 1..0 |-> <<>>], 0)
    BY DEF FirstMembers
  <2> QED  BY <1>4, <1>6, <2>1
<1>7. CASE n > 0
  <2>1. n \in Nat /\ n <= Len(ss) /\ n - 1 \in 0..Len(ss) /\ n - 1 < n
    BY <1>1, <1>4, <1>7
  <2>2. PICK g : FirstMembers(E, ss, g, n - 1)
    BY <1>5, <2>1
  <2> DEFINE h == [i \in 1..n |-> IF i < n THEN g[i] ELSE IF n = 1 THEN ss[1] ELSE g[n - 1] \o ss[n]]
  <2>3. ss[n] \in Seq(E)
    BY <1>7, <2>1
  <2>4. h \in [1..n -> Seq(E)]
    <3> SUFFICES ASSUME NEW i \in 1..n PROVE h[i] \in Seq(E)
      OBVIOUS
    <3>1. CASE i < n
      BY <2>1, <2>2, <3>1 DEF FirstMembers
    <3>2. CASE i = n /\ n = 1
      BY <2>3, <3>2
    <3>3. CASE i = n /\ n > 1
      <4>1. g[n - 1] \in Seq(E)
        BY <2>1, <2>2, <3>3 DEF FirstMembers
      <4> QED  BY <2>3, <3>3, <4>1
    <3> QED  BY <2>1, <3>1, <3>2, <3>3
  <2>5. h[1] = ss[1]
    BY <1>7, <2>1, <2>2 DEF FirstMembers
  <2>6. ASSUME NEW i \in 2..n PROVE h[i] = h[i - 1] \o ss[i]
    <3>1. CASE i < n
      <4>1. i \in 2..n - 1 /\ i - 1 < n /\ i \in 1..n /\ i - 1 \in 1..n
        BY <2>1, <3>1
      <4> QED  BY <2>2, <3>1, <4>1 DEF FirstMembers
    <3>2. CASE i = n
      <4>0. n # 1 /\ n \in 1..n /\ ~(n < n)
        BY <2>1, <3>2
      <4>1. h[n] = g[n - 1] \o ss[n]
        BY <4>0
      <4>2. h[n - 1] = g[n - 1]
        BY <2>1, <3>2
      <4> QED  BY <3>2, <4>1, <4>2
    <3>3. i < n \/ i = n
      BY <2>1
    <3> HIDE DEF h
    <3> QED  BY <3>1, <3>2, <3>3
  <2>7. FirstMembers(E, ss, h, n)
    <3> HIDE DEF h
    <3> QED  BY <2>4, <2>5, <2>6 DEF FirstMembers
  <2> QED  BY <1>4, <2>7
<1> QED  BY <1>4, <1>6, <1>7

LEMMA FlattenIs ==
  ASSUME NEW E, NEW ss \in Seq(Seq(E)), NEW g, FirstMembers(E, ss, g, Len(ss)), Len(ss) > 0
  PROVE  FlattenSeq(ss) = g[Len(ss)]
<1> DEFINE L == Len(ss)
           Eq(f) == f = [i \in 1..L |-> IF i = 1 THEN ss[i] ELSE f[i - 1] \o ss[i]]
           fl == CHOOSE f : Eq(f)
<1>a. L \in Nat /\ L > 0 /\ 1 \in 1..L
  OBVIOUS
<1>b. g \in [1..L -> Seq(E)] /\ g[1] = ss[1] /\ \A i \in 2..L : g[i] = g[i - 1] \o ss[i]
  BY DEF FirstMembers
<1>c. FlattenSeq(ss) = fl[L]
  BY DEF FlattenSeq
<1>d. \A i \in 1..L : i = 1 \/ i \in 2..L
  BY <1>a
<1> HIDE DEF L
<1>1. Eq(g)
  <2>1. \A i \in 1..L : g[i] = IF i = 1 THEN ss[i] ELSE g[i - 1] \o ss[i]
    BY <1>b, <1>d
  <2> QED  BY <1>b, <2>1
<1>2. Eq(fl)
  BY <1>1
<1>3. \A i \in 1..L : fl[i] = IF i = 1 THEN ss[i] ELSE fl[i - 1] \o ss[i]
  <2> HIDE DEF fl
  <2> QED  BY <1>2
<1> HIDE DEF fl, Eq
<1> DEFINE T == {i \in 1..L : fl[i] # g[i]}
<1>4. T = {}
  <2> SUFFICES ASSUME T # {} PROVE FALSE
    OBVIOUS
  <2>1. T \subseteq Nat
    BY <1>a
  <2>2. PICK n \in T : \A m \in T : ~(m < n)
    BY <2>1, Least
  <2>3. n \in 1..L /\ fl[n] # g[n]
    OBVIOUS
  <2>4. n # 1
    BY <1>3, <1>b, <1>a, <2>3
  <2>5. n \in 2..L /\ n - 1 \in 1..L /\ n - 1 < n
    BY <1>a, <2>3, <2>4
  <2>6. n - 1 \notin T
    BY <2>2, <2>5
  <2>7. fl[n - 1] = g[n - 1]
    BY <2>5, <2>6
  <2>8. fl[n] = fl[n - 1] \o ss[n]
    BY <1>3, <2>3, <2>4
  <2> QED  BY <1>b, <2>3, <2>5, <2>7, <2>8
<1> QED  BY <1>a, <1>c, <1>4 DEF L

\* Where the members of a sequence of sequences begin in its concatenation.
Offsets(ss, n, off, s) ==
  /\ \A k \in 1..n : off[k] \in Nat
  /\ \A k \in 1..n : \A i \in DOMAIN ss[k] : off[k] + i \in DOMAIN s /\ s[off[k] + i] = ss[k][i]
  /\ \A m \in DOMAIN s : \E k \in 1..n : \E i \in DOMAIN ss[k] : m = off[k] + i
  /\ \A k \in 1..n : off[k] + Len(ss[k]) <= Len(s)
  /\ \A j, k \in 1..n : j < k => off[j] + Len(ss[j]) <= off[k]

LEMMA OffsetsStep ==
  ASSUME NEW E, NEW ss \in Seq(Seq(E)), NEW n \in Nat, n + 1 <= Len(ss),
         NEW off, NEW s \in Seq(E), Offsets(ss, n, off, s),
         NEW new, new = [k \in 1..n + 1 |-> IF k = n + 1 THEN Len(s) ELSE off[k]]
  PROVE  Offsets(ss, n + 1, new, s \o ss[n + 1])
<1> DEFINE t == ss[n + 1]
<1>1. t \in Seq(E) /\ Len(t) \in Nat /\ Len(s) \in Nat /\ DOMAIN t = 1..Len(t) /\ DOMAIN s = 1..Len(s)
  OBVIOUS
<1>2. /\ Len(s \o t) = Len(s) + Len(t) /\ DOMAIN (s \o t) = 1..Len(s) + Len(t)
      /\ \A m \in 1..Len(s) : (s \o t)[m] = s[m]
      /\ \A i \in 1..Len(t) : (s \o t)[Len(s) + i] = t[i]
  BY <1>1
<1>3. \A k \in 1..n + 1 : k = n + 1 \/ (k \in 1..n /\ k # n + 1)
  OBVIOUS
<1>4. new[n + 1] = Len(s) /\ \A k \in 1..n : new[k] = off[k]
  OBVIOUS
<1>o. /\ \A k \in 1..n : off[k] \in Nat
      /\ \A k \in 1..n : \A i \in DOMAIN ss[k] : off[k] + i \in DOMAIN s /\ s[off[k] + i] = ss[k][i]
      /\ \A m \in DOMAIN s : \E k \in 1..n : \E i \in DOMAIN ss[k] : m = off[k] + i
      /\ \A k \in 1..n : off[k] + Len(ss[k]) <= Len(s)
      /\ \A j, k \in 1..n : j < k => off[j] + Len(ss[j]) <= off[k]
  BY DEF Offsets
<1>p. \A k \in 1..n : ss[k] \in Seq(E) /\ Len(ss[k]) \in Nat
  OBVIOUS
<1>q. n + 1 \in 1..n + 1 /\ \A k \in 1..n : k \in 1..n + 1
  OBVIOUS
<1> DEFINE u == s \o t
<1> HIDE DEF t, u
<1>5. \A k \in 1..n + 1 : new[k] \in Nat
  BY <1>1, <1>3, <1>4, <1>o
<1>6. ASSUME NEW k \in 1..n + 1, NEW i \in DOMAIN ss[k]
      PROVE  new[k] + i \in DOMAIN u /\ u[new[k] + i] = ss[k][i]
  <2>1. CASE k = n + 1
    BY <1>1, <1>2, <1>4, <2>1 DEF t, u
  <2>2. CASE k \in 1..n
    <3>1. off[k] + i \in 1..Len(s) /\ s[off[k] + i] = ss[k][i] /\ new[k] = off[k]
      BY <1>1, <1>4, <1>o, <2>2
    <3>2. off[k] + i \in 1..Len(s) + Len(t)
      BY <1>1, <3>1
    <3> QED  BY <1>2, <3>1, <3>2 DEF u
  <2> QED  BY <1>3, <2>1, <2>2
<1>7. ASSUME NEW m \in DOMAIN u PROVE \E k \in 1..n + 1 : \E i \in DOMAIN ss[k] : m = new[k] + i
  <2>1. m \in 1..Len(s) + Len(t)
    BY <1>2 DEF u
  <2>2. CASE m \in DOMAIN s
    <3>1. PICK k \in 1..n : \E i \in DOMAIN ss[k] : m = off[k] + i
      BY <1>o, <2>2
    <3> QED  BY <1>4, <1>q, <3>1
  <2>3. CASE m \notin DOMAIN s
    <3>1. m - Len(s) \in DOMAIN t /\ m = Len(s) + (m - Len(s))
      BY <1>1, <2>1, <2>3
    <3>2. m - Len(s) \in DOMAIN ss[n + 1] /\ m = new[n + 1] + (m - Len(s))
      BY <1>4, <3>1 DEF t
    <3> QED  BY <1>q, <3>2
  <2> QED  BY <2>2, <2>3
<1>8. ASSUME NEW k \in 1..n + 1 PROVE new[k] + Len(ss[k]) <= Len(u)
  <2>1. CASE k = n + 1
    BY <1>1, <1>2, <1>4, <2>1 DEF t, u
  <2>2. CASE k \in 1..n
    <3>1. off[k] + Len(ss[k]) <= Len(s) /\ new[k] = off[k] /\ off[k] + Len(ss[k]) \in Nat
      BY <1>4, <1>o, <1>p, <2>2
    <3> QED  BY <1>1, <1>2, <3>1 DEF u
  <2> QED  BY <1>3, <2>1, <2>2
<1>9. ASSUME NEW j \in 1..n + 1, NEW k \in 1..n + 1, j < k PROVE new[j] + Len(ss[j]) <= new[k]
  <2>1. j \in 1..n
    BY <1>9
  <2>2. CASE k = n + 1
    BY <1>4, <1>o, <2>1, <2>2
  <2>3. CASE k \in 1..n
    BY <1>4, <1>o, <1>9, <2>1, <2>3
  <2> QED  BY <1>3, <2>2, <2>3
<1>10. Offsets(ss, n + 1, new, u)
  BY <1>5, <1>6, <1>7, <1>8, <1>9 DEF Offsets
<1> QED  BY <1>10 DEF t, u

\* The concatenation contains every member, in order, and nothing else.
LEMMA Flattened ==
  ASSUME NEW E, NEW ss \in Seq(Seq(E))
  PROVE  /\ FlattenSeq(ss) \in Seq(E)
         /\ \E off : Offsets(ss, Len(ss), off, FlattenSeq(ss))
<1>1. CASE Len(ss) = 0
  <2>1. FlattenSeq(ss) = ss
    BY <1>1 DEF FlattenSeq
  <2>2. ss = <<>>
    BY <1>1
  <2>3. Offsets(<<>>, 0, <<>>, <<>>)
    BY DEF Offsets
  <2> QED  BY <1>1, <2>1, <2>2, <2>3
<1>2. CASE Len(ss) > 0
  <2>1. PICK g : FirstMembers(E, ss, g, Len(ss))
    BY FirstMembersExist
  <2>2. FlattenSeq(ss) = g[Len(ss)]
    BY <1>2, <2>1, FlattenIs
  <2>0. Len(ss) \in Nat /\ Len(ss) \in 1..Len(ss)
    BY <1>2
  <2>3. g \in [1..Len(ss) -> Seq(E)] /\ g[1] = ss[1]
        /\ \A i \in 2..Len(ss) : g[i] = g[i - 1] \o ss[i]
    <3> DEFINE L == Len(ss)
    <3>1. L > 0 /\ FirstMembers(E, ss, g, L)
      BY <1>2, <2>1
    <3> HIDE DEF L
    <3>2. g \in [1..L -> Seq(E)] /\ g[1] = ss[1] /\ \A i \in 2..L : g[i] = g[i - 1] \o ss[i]
      BY <3>1 DEF FirstMembers
    <3> QED  BY <3>2 DEF L
  <2> DEFINE T == {n \in 1..Len(ss) : ~\E off : Offsets(ss, n, off, g[n])}
  <2>4. T = {}
    <3> SUFFICES ASSUME T # {} PROVE FALSE
      OBVIOUS
    <3>1. T \subseteq Nat
      OBVIOUS
    <3>2. PICK n \in T : \A m \in T : ~(m < n)
      BY <3>1, Least
    <3>3. n \in 1..Len(ss) /\ ~\E off : Offsets(ss, n, off, g[n])
      OBVIOUS
    <3>4. \A m \in 1..Len(ss) : m < n => \E off : Offsets(ss, m, off, g[m])
      BY <3>2
    <3> HIDE DEF T
    <3>5. CASE n = 1
      <4>1. ss[1] \in Seq(E) /\ DOMAIN ss[1] = 1..Len(ss[1]) /\ Len(ss[1]) \in Nat
        BY <1>2
      <4> DEFINE zero == [k \in {1} |-> 0]
      <4>2. \A k \in 1..1 : k = 1 /\ zero[k] = 0
        OBVIOUS
      <4>3. 1 \in 1..1 /\ zero[1] = 0
        OBVIOUS
      <4> HIDE DEF zero
      <4> DEFINE t == ss[1]
      <4>a. \A i \in DOMAIN t : 0 + i \in DOMAIN t /\ t[0 + i] = t[i] /\ i = 0 + i
        BY <4>1
      <4>b. 0 + Len(t) <= Len(t)
        BY <4>1
      <4>c. \A j, k \in 1..1 : ~(j < k)
        OBVIOUS
      <4>d. \A k \in 1..1 : ss[k] = t
        BY <4>2
      <4> HIDE DEF t
      <4>4. Offsets(ss, 1, zero, t)
        BY <4>2, <4>3, <4>a, <4>b, <4>c, <4>d DEF Offsets
      <4> QED  BY <2>3, <3>3, <3>5, <4>4 DEF t
    <3>6. CASE n # 1
      <4> DEFINE m == n - 1
      <4>1. m \in Nat /\ m + 1 = n /\ m \in 1..Len(ss) /\ m < n /\ m + 1 <= Len(ss) /\ n \in 2..Len(ss)
        BY <2>0, <3>3, <3>6
      <4>2. PICK off : Offsets(ss, m, off, g[m])
        BY <3>4, <4>1
      <4>3. g[m] \in Seq(E) /\ g[n] = g[m] \o ss[n]
        BY <2>3, <4>1
      <4> DEFINE new == [k \in 1..m + 1 |-> IF k = m + 1 THEN Len(g[m]) ELSE off[k]]
      <4> HIDE DEF m
      <4>4. Offsets(ss, m + 1, new, g[m] \o ss[m + 1])
        <5>1. new = [k \in 1..m + 1 |-> IF k = m + 1 THEN Len(g[m]) ELSE off[k]]
          OBVIOUS
        <5> HIDE DEF new
        <5> QED  BY <4>1, <4>2, <4>3, <5>1, OffsetsStep
      <4> QED  BY <3>3, <4>1, <4>3, <4>4
    <3> QED  BY <3>5, <3>6
  <2>5. \E off : Offsets(ss, Len(ss), off, g[Len(ss)])
    BY <2>0, <2>4
  <2>6. g[Len(ss)] \in Seq(E)
    BY <2>0, <2>3
  <2> QED  BY <2>2, <2>5, <2>6
<1> QED  BY <1>1, <1>2

-----------------------------------------------------------------------------
(* The invariant.  Its parts are stated with operators of the values of    *)
(* the variables, so that they read the same before and after a step.      *)

Decls(t) == {k \in DOMAIN t : t[k].kind = "declaration"}
Uses(t) == {k \in DOMAIN t : t[k].kind = "using"}
NamesIn(t) == {t[k].name : k \in Decls(t)}
ExportsIn(t) == {n \in NamesIn(t) : \E k \in Decls(t) : t[k].name = n /\ t[k].exported}
ReadIn(w, em) == {p \in em : w[p] # Unreadable}
\* The modules whose statements are among those assembled so far.
FinishedIn(w, em, lo) == ReadIn(w, em) \ lo

Renaming == UNION {[D -> Symbols] : D \in SUBSET Name}
Statement == [path : Path, at : Nat, symbol : Symbols, refs : Renaming]
Frames ==
  [path : Path, id : Nat, at : Nat, bindings : Renaming,
   pending : UNION {[D -> Seq(Statement)] : D \in SUBSET Nat}]
\* What a frame is besides: of a module that could be read, within its text.
Placeable(w, f) ==
  /\ w[f.path] # Unreadable
  /\ DOMAIN f.pending = Uses(w[f.path])
  /\ f.at \in 1..Len(w[f.path]) + 1
  \* What is not reached yet has brought nothing.
  /\ \A k \in Uses(w[f.path]) : k >= f.at => f.pending[k] = <<>>

Typed ==
  /\ world \in Worlds
  /\ loading \subseteq ReadIn(world, emitted) /\ emitted \subseteq Path
  /\ next_module \in Nat \ {0}
  /\ stack \in Seq(Frames)
  /\ \A j \in DOMAIN stack : Placeable(world, stack[j]) /\ stack[j].id < next_module
  /\ IF stack = <<>> THEN output \in Seq(Statement) ELSE output = None

\* loading is the stack, which is a chain of imports.
Chained ==
  /\ loading = {stack[j].path : j \in DOMAIN stack}
  /\ \A i, j \in DOMAIN stack : stack[i].path = stack[j].path => i = j
  /\ \A j \in DOMAIN stack : j < Len(stack) =>
       /\ stack[j].at \in Uses(world[stack[j].path])
       /\ world[stack[j].path][stack[j].at].from = stack[j + 1].path

\* A module has published its names from the moment it is entered, with symbols
\* of its own number.
Publication(w, d, next, p) ==
  /\ d[p] \in [NamesIn(w[p]) -> [symbol : Symbols, exported : BOOLEAN]]
  /\ \A n \in NamesIn(w[p]) :
       /\ d[p][n].exported <=> n \in ExportsIn(w[p])
       /\ \E id \in Nat : id < next /\ d[p][n].symbol = SymbolOf(id, n)
Published ==
  /\ DOMAIN declarations = Path
  /\ \A p \in ReadIn(world, emitted) : Publication(world, declarations, next_module, p)
  /\ \A p \in Path \ ReadIn(world, emitted) : declarations[p] = None
Distinct ==
  \A p, q \in ReadIn(world, emitted) : p # q =>
    \A n \in NamesIn(world[p]) \ Reserved, m \in NamesIn(world[q]) \ Reserved :
      declarations[p][n].symbol # declarations[q][m].symbol

\* Where the statements of finished modules are: the i-th of the contents that
\* the import k of frame j brought, in the end the i-th of the output.  The order
\* of the places is the order that the statements have in the output.
Spots(w, st, out) ==
  IF st = <<>> THEN {<<0, 0, i>> : i \in DOMAIN out}
  ELSE {x \in Nat \X Nat \X Nat :
          x[1] \in DOMAIN st /\ x[2] \in Uses(w[st[x[1]].path]) /\ x[3] \in DOMAIN st[x[1]].pending[x[2]]}
Item(st, out, x) == IF st = <<>> THEN out[x[3]] ELSE st[x[1]].pending[x[2]][x[3]]
Precedes(x, y) ==
  \/ x[1] < y[1]
  \/ x[1] = y[1] /\ x[2] < y[2]
  \/ x[1] = y[1] /\ x[2] = y[2] /\ x[3] < y[3]

\* Every declaration of every finished module has one place, in order.
PlacedIn(w, st, out, fin) ==
  /\ \A x \in Spots(w, st, out) :
       Item(st, out, x).path \in fin /\ Item(st, out, x).at \in Decls(w[Item(st, out, x).path])
  /\ \A p \in fin : \A k \in Decls(w[p]) :
       \E x \in Spots(w, st, out) : Item(st, out, x).path = p /\ Item(st, out, x).at = k
  /\ \A x, y \in Spots(w, st, out) :
       Item(st, out, x).path = Item(st, out, y).path /\ Item(st, out, x).at <= Item(st, out, y).at
         => x = y \/ Precedes(x, y)
Placed == PlacedIn(world, stack, output, FinishedIn(world, emitted, loading))

FollowIn(w, S) ==
  S \cup {q \in Path : \E p \in S : w[p] # Unreadable /\ \E k \in Uses(w[p]) : w[p][k].from = q}
ReachIn(w, p) == {q \in Path : \A S \in SUBSET Path : p \in S /\ FollowIn(w, S) \subseteq S => q \in S}
\* What is known of an import that was dealt with.
Met(w, em, lo, p, k) ==
  w[p][k].from # Missing =>
    w[p][k].from \in em /\ (w[p][k].from \in lo => p \in ReachIn(w, w[p][k].from))
Dealt ==
  /\ \A p \in FinishedIn(world, emitted, loading) : \A k \in Uses(world[p]) :
       Met(world, emitted, loading, p, k)
  /\ \A j \in DOMAIN stack : \A k \in Uses(world[stack[j].path]) :
       k < stack[j].at => Met(world, emitted, loading, stack[j].path, k)
\* An import comes before what follows it, unless it is circular.
After(w, p, k, q) == w[p][k].from = q /\ p \notin ReachIn(w, q)
OrderlyIn(w, st, out) ==
  /\ \A x, y \in Spots(w, st, out) : \A k \in Uses(w[Item(st, out, y).path]) :
       After(w, Item(st, out, y).path, k, Item(st, out, x).path) /\ k < Item(st, out, y).at
         => Precedes(x, y)
  /\ \A j \in DOMAIN st : \A k \in Uses(w[st[j].path]) : \A x \in Spots(w, st, out) :
       k < st[j].at /\ After(w, st[j].path, k, Item(st, out, x).path)
         => x[1] < j \/ (x[1] = j /\ x[2] <= k)
Orderly == OrderlyIn(world, stack, output)

\* The symbol of a statement is the published one, whatever errors there are.
Symbolic(w, d, s) == s.symbol = d[s.path][w[s.path][s.at].name].symbol
Owns(w, d, f) ==
  /\ NamesIn(w[f.path]) \subseteq DOMAIN f.bindings
  /\ \A n \in NamesIn(w[f.path]) : f.bindings[n] = d[f.path][n].symbol
Named ==
  /\ \A j \in DOMAIN stack : Owns(world, declarations, stack[j])
  /\ \A x \in Spots(world, stack, output) : Symbolic(world, declarations, Item(stack, output, x))

\* What the import k of p asks for is there and exported.
Granted(w, em, p, k) ==
  w[p][k].from \in ReadIn(w, em) /\ ToSet(w[p][k].names) \subseteq ExportsIn(w[w[p][k].from])
MeaningIn(w, d, p, n) ==
  {d[p][n].symbol : m \in NamesIn(w[p]) \cap {n}}
  \cup {d[w[p][k].from][n].symbol : k \in {k \in Uses(w[p]) : n \in ToSet(w[p][k].names)}}
\* A reference means what the text says, or nothing that is declared.
Resolved(w, d, s) ==
  \A n \in DOMAIN s.refs :
    /\ MeaningIn(w, d, s.path, n) \subseteq {s.refs[n]}
    /\ MeaningIn(w, d, s.path, n) = {} =>
         IF n \in Prelude THEN s.refs[n] = n
         ELSE s.refs[n] \in {"hidden"} \X Nat \X Name
Served(w, f) == {k \in Uses(w[f.path]) : k < f.at}
\* The bindings of a frame are its own names and those imported so far.
Bindings(w, d, em, f) ==
  /\ \A n \in DOMAIN f.bindings :
       n \in NamesIn(w[f.path]) \/ \E k \in Served(w, f) : n \in ToSet(w[f.path][k].names)
  /\ \A k \in Served(w, f) :
       /\ Granted(w, em, f.path, k)
       /\ \A n \in ToSet(w[f.path][k].names) :
            n \in DOMAIN f.bindings /\ f.bindings[n] = d[w[f.path][k].from][n].symbol
FaultlessIn(w, d, em, lo, st, out) ==
  /\ \A p \in ReadIn(w, em) : NamesIn(w[p]) \cap Reserved = {}
  \* Everything asked for could be read.
  /\ em = ReadIn(w, em)
  /\ \A j \in DOMAIN st : Bindings(w, d, em, st[j])
  /\ \A p \in FinishedIn(w, em, lo) : \A k \in Uses(w[p]) : Granted(w, em, p, k)
  /\ \A x \in Spots(w, st, out) : Resolved(w, d, Item(st, out, x))
Faultless ==
  errors = {} => FaultlessIn(world, declarations, emitted, loading, stack, output)

LoaderInv ==
  /\ Typed /\ Chained /\ Published /\ Distinct /\ Placed /\ Dealt /\ Orderly /\ Named /\ Faultless

-----------------------------------------------------------------------------
(* Texts, frames and what is assembled from them.                          *)

\* What the files contain, statement by statement.
LEMMA TextTyped ==
  ASSUME NEW w \in Worlds, NEW p \in Path, w[p] # Unreadable
  PROVE  /\ Len(w[p]) \in Nat /\ DOMAIN w[p] = 1..Len(w[p])
         /\ \A k \in DOMAIN w[p] : k \in Decls(w[p]) \/ k \in Uses(w[p])
         /\ \A k \in Decls(w[p]) : k \in DOMAIN w[p] /\ k \notin Uses(w[p])
         /\ \A k \in Uses(w[p]) : k \in DOMAIN w[p] /\ k \notin Decls(w[p])
         /\ \A k \in Decls(w[p]) : w[p][k].name \in Name /\ w[p][k].refs \in SUBSET Name
         /\ \A k \in Uses(w[p]) : w[p][k].from \in Path \cup {Missing} /\ w[p][k].names \in Seq(Name)
         /\ NamesIn(w[p]) \subseteq Name
<1>1. w[p] \in Seq(Stmt)
  BY LoaderAssumption
<1> DEFINE t == w[p]
<1>2. t \in Seq(Stmt)
  BY <1>1
<1> HIDE DEF t
<1>3. Len(t) \in Nat /\ DOMAIN t = 1..Len(t) /\ \A k \in DOMAIN t : t[k] \in Declaration \cup Using
  BY <1>2 DEF Stmt
<1>4. \A s \in Declaration : s.kind = "declaration" /\ s.name \in Name /\ s.refs \in SUBSET Name
  BY DEF Declaration
<1>5. \A s \in Using : s.kind = "using" /\ s.from \in Path \cup {Missing} /\ s.names \in Seq(Name)
  BY DEF Using
<1>6. \A k \in DOMAIN t : k \in Decls(t) <=> t[k] \in Declaration
  BY <1>3, <1>4, <1>5 DEF Decls
<1>7. \A k \in DOMAIN t : k \in Uses(t) <=> t[k] \in Using
  BY <1>3, <1>4, <1>5 DEF Uses
<1>8. Decls(t) \subseteq DOMAIN t /\ Uses(t) \subseteq DOMAIN t
  BY DEF Decls, Uses
<1>9. \A k \in DOMAIN t : ~(k \in Decls(t) /\ k \in Uses(t))
  BY DEF Decls, Uses
<1>10. NamesIn(t) \subseteq Name
  BY <1>4, <1>6, <1>8 DEF NamesIn
<1> QED  BY <1>3, <1>4, <1>5, <1>6, <1>7, <1>8, <1>9, <1>10 DEF t

\* The components of a frame.
LEMMA FrameParts ==
  ASSUME NEW f \in Frames
  PROVE  /\ f.path \in Path /\ f.id \in Nat /\ f.at \in Nat
         /\ DOMAIN f.bindings \subseteq Name
         /\ \A n \in DOMAIN f.bindings : f.bindings[n] \in Symbols
         /\ \A k \in DOMAIN f.pending : f.pending[k] \in Seq(Statement)
<1>1. f.path \in Path /\ f.id \in Nat /\ f.at \in Nat /\ f.bindings \in Renaming
      /\ f.pending \in UNION {[D -> Seq(Statement)] : D \in SUBSET Nat}
  BY DEF Frames
<1>2. PICK D \in SUBSET Name : f.bindings \in [D -> Symbols]
  BY <1>1 DEF Renaming
<1>3. PICK K \in SUBSET Nat : f.pending \in [K -> Seq(Statement)]
  BY <1>1
<1> QED  BY <1>1, <1>2, <1>3

\* What a frame makes of the statement k of its text, and of all of them.
EntryOf(t, f, k) ==
  [path |-> f.path, at |-> k, symbol |-> Global(f, t[k].name),
   refs |-> [n \in t[k].refs |-> Global(f, n)]]
PartsOf(t, f) ==
  [k \in DOMAIN t |-> IF k \in Uses(t) THEN f.pending[k] ELSE <<EntryOf(t, f, k)>>]

LEMMA AssembleIs ==
  ASSUME NEW f
  PROVE  Assemble(f) = FlattenSeq(PartsOf(world[f.path], f))
BY DEF Assemble, PartsOf, Entry, EntryOf, Imports, Uses, Text

LEMMA GlobalTyped ==
  ASSUME NEW f \in Frames, NEW n \in Name
  PROVE  Global(f, n) \in Symbols
<1>1. CASE n \in DOMAIN f.bindings
  BY <1>1, FrameParts DEF Global
<1>2. CASE n \notin DOMAIN f.bindings
  BY <1>2, FrameParts DEF Global, Symbols, Generated, Hidden
<1> QED  BY <1>1, <1>2

LEMMA EntryTyped ==
  ASSUME NEW w \in Worlds, NEW f \in Frames, w[f.path] # Unreadable, NEW k \in Decls(w[f.path])
  PROVE  EntryOf(w[f.path], f, k) \in Statement
<1> DEFINE t == w[f.path]
<1>1. f.path \in Path
  BY FrameParts
<1>2. k \in Nat /\ t[k].name \in Name /\ t[k].refs \in SUBSET Name
  <2>1. DOMAIN t = 1..Len(t) /\ Len(t) \in Nat /\ k \in DOMAIN t
    BY <1>1, TextTyped
  <2> QED  BY <1>1, <2>1, TextTyped
<1> HIDE DEF t
<1>3. Global(f, t[k].name) \in Symbols
  BY <1>2, GlobalTyped
<1>4. [n \in t[k].refs |-> Global(f, n)] \in Renaming
  <2>1. [n \in t[k].refs |-> Global(f, n)] \in [t[k].refs -> Symbols]
    BY <1>2, GlobalTyped
  <2> QED  BY <1>2, <2>1 DEF Renaming
<1>5. EntryOf(t, f, k) \in Statement
  BY <1>1, <1>2, <1>3, <1>4 DEF EntryOf, Statement
<1> QED  BY <1>5 DEF t

\* The places, in what the frame f assembles, of its own statements and of those
\* that its imports brought.
Layout(t, f, off, s) ==
  /\ \A k \in DOMAIN t : off[k] \in Nat
  /\ \A k \in Uses(t) : \A i \in DOMAIN f.pending[k] :
       off[k] + i \in DOMAIN s /\ s[off[k] + i] = f.pending[k][i]
  /\ \A k \in Decls(t) : off[k] + 1 \in DOMAIN s /\ s[off[k] + 1] = EntryOf(t, f, k)
  /\ \A m \in DOMAIN s :
       \/ \E k \in Uses(t) : \E i \in DOMAIN f.pending[k] : m = off[k] + i
       \/ \E k \in Decls(t) : m = off[k] + 1
  /\ \A j \in Uses(t), k \in DOMAIN t : j < k =>
       \A i \in DOMAIN f.pending[j] : off[j] + i <= off[k]
  /\ \A j \in Decls(t), k \in DOMAIN t : j < k => off[j] + 1 <= off[k]

LEMMA Assembled ==
  ASSUME NEW w \in Worlds, NEW f \in Frames, Placeable(w, f),
         NEW s, s = FlattenSeq(PartsOf(w[f.path], f))
  PROVE  s \in Seq(Statement) /\ \E off : Layout(w[f.path], f, off, s)
<1> DEFINE t == w[f.path]
           ss == PartsOf(t, f)
<1>1. /\ f.path \in Path /\ w[f.path] # Unreadable /\ DOMAIN f.pending = Uses(t)
      /\ \A k \in DOMAIN f.pending : f.pending[k] \in Seq(Statement)
  BY FrameParts DEF Placeable
<1>2. /\ Len(t) \in Nat /\ DOMAIN t = 1..Len(t)
      /\ \A k \in DOMAIN t : k \in Decls(t) \/ k \in Uses(t)
      /\ \A k \in Decls(t) : k \in DOMAIN t /\ k \notin Uses(t)
      /\ \A k \in Uses(t) : k \in DOMAIN t /\ k \notin Decls(t)
  BY <1>1, TextTyped
<1>3. \A k \in Decls(t) : EntryOf(t, f, k) \in Statement
  BY <1>1, EntryTyped
<1> HIDE DEF t
<1>4. \A k \in Uses(t) : ss[k] = f.pending[k]
  BY <1>2 DEF PartsOf
<1>5. \A k \in Decls(t) : ss[k] = <<EntryOf(t, f, k)>>
  BY <1>2 DEF PartsOf
<1>6. DOMAIN ss = 1..Len(t) /\ ss = [k \in 1..Len(t) |-> ss[k]]
  BY <1>2 DEF PartsOf
<1>7. \A k \in 1..Len(t) : ss[k] \in Seq(Statement)
  <2> SUFFICES ASSUME NEW k \in 1..Len(t) PROVE ss[k] \in Seq(Statement)
    OBVIOUS
  <2>1. CASE k \in Uses(t)
    BY <1>1, <1>4, <2>1
  <2>2. CASE k \in Decls(t)
    <3>1. \A e \in Statement : <<e>> \in Seq(Statement)
      OBVIOUS
    <3> QED  BY <1>3, <1>5, <2>2, <3>1
  <2> QED  BY <1>2, <2>1, <2>2
<1> HIDE DEF ss
<1>8. ss \in Seq(Seq(Statement)) /\ Len(ss) = Len(t)
  BY <1>2, <1>6, <1>7
<1>9. s = FlattenSeq(ss)
  BY DEF ss, t
<1>10. s \in Seq(Statement)
  BY <1>8, <1>9, Flattened
<1>11. PICK off : Offsets(ss, Len(ss), off, s)
  BY <1>8, <1>9, Flattened
<1>12. /\ \A k \in DOMAIN t : off[k] \in Nat
       /\ \A k \in DOMAIN t : \A i \in DOMAIN ss[k] : off[k] + i \in DOMAIN s /\ s[off[k] + i] = ss[k][i]
       /\ \A m \in DOMAIN s : \E k \in DOMAIN t : \E i \in DOMAIN ss[k] : m = off[k] + i
       /\ \A j, k \in DOMAIN t : j < k => off[j] + Len(ss[j]) <= off[k]
  BY <1>2, <1>8, <1>11 DEF Offsets
<1>13. \A k \in Decls(t) : DOMAIN ss[k] = {1} /\ ss[k][1] = EntryOf(t, f, k) /\ Len(ss[k]) = 1
  BY <1>5
<1>14. ASSUME NEW j \in Uses(t), NEW k \in DOMAIN t, j < k, NEW i \in DOMAIN f.pending[j]
       PROVE  off[j] + i <= off[k]
  <2>1. off[j] + Len(ss[j]) <= off[k] /\ off[j] \in Nat /\ off[k] \in Nat
    BY <1>2, <1>12, <1>14
  <2>2. ss[j] \in Seq(Statement) /\ ss[j] = f.pending[j]
    BY <1>2, <1>4, <1>7
  <2>3. i \in 1..Len(ss[j]) /\ Len(ss[j]) \in Nat
    BY <2>2
  <2> QED  BY <2>1, <2>3
<1>15. \A j \in Decls(t), k \in DOMAIN t : j < k => off[j] + 1 <= off[k]
  BY <1>2, <1>12, <1>13
<1>16. ASSUME NEW m \in DOMAIN s
       PROVE  \/ \E k \in Uses(t) : \E i \in DOMAIN f.pending[k] : m = off[k] + i
              \/ \E k \in Decls(t) : m = off[k] + 1
  <2>1. PICK k \in DOMAIN t : \E i \in DOMAIN ss[k] : m = off[k] + i
    BY <1>12
  <2>2. PICK i \in DOMAIN ss[k] : m = off[k] + i
    BY <2>1
  <2>3. CASE k \in Uses(t)
    BY <1>4, <2>2, <2>3
  <2>4. CASE k \in Decls(t)
    BY <1>13, <2>2, <2>4
  <2> QED  BY <1>2, <2>3, <2>4
<1>17. \A k \in Decls(t) : off[k] + 1 \in DOMAIN s /\ s[off[k] + 1] = EntryOf(t, f, k)
  BY <1>2, <1>12, <1>13
<1>18. \A k \in Uses(t) : \A i \in DOMAIN f.pending[k] :
         off[k] + i \in DOMAIN s /\ s[off[k] + i] = f.pending[k][i]
  BY <1>2, <1>4, <1>12
<1>19. Layout(t, f, off, s)
  BY <1>12, <1>14, <1>15, <1>16, <1>17, <1>18 DEF Layout
<1> QED  BY <1>10, <1>19 DEF t

-----------------------------------------------------------------------------
(* The places of statements.                                               *)

LEMMA SpotParts ==
  ASSUME NEW w, NEW st, NEW out, st # <<>>
  PROVE  /\ \A x \in Spots(w, st, out) :
              /\ x = <<x[1], x[2], x[3]>> /\ x[1] \in Nat /\ x[2] \in Nat /\ x[3] \in Nat
              /\ x[1] \in DOMAIN st /\ x[2] \in Uses(w[st[x[1]].path])
              /\ x[3] \in DOMAIN st[x[1]].pending[x[2]]
              /\ Item(st, out, x) = st[x[1]].pending[x[2]][x[3]]
         /\ \A j \in Nat, k \in Nat, i \in Nat :
              j \in DOMAIN st /\ k \in Uses(w[st[j].path]) /\ i \in DOMAIN st[j].pending[k]
                => <<j, k, i>> \in Spots(w, st, out)
BY DEF Spots, Item

\* The contents of the frame on the top of the stack are brought to the place
\* <<to, a>>: mv says where the statements go that were placed before, fr where
\* those of the module itself are.
Carried(w, st, out, st2, out2, top, to, a, mv, fr) ==
  /\ \A x \in Spots(w, st, out) :
       mv[x] \in Spots(w, st2, out2) /\ Item(st2, out2, mv[x]) = Item(st, out, x)
  /\ \A x \in Spots(w, st, out) : x[1] < Len(st) => mv[x] = x
  /\ \A k \in Decls(w[top.path]) :
       fr[k] \in Spots(w, st2, out2) /\ Item(st2, out2, fr[k]) = EntryOf(w[top.path], top, k)
  /\ \A y \in Spots(w, st2, out2) :
       \/ \E x \in Spots(w, st, out) : y = mv[x]
       \/ \E k \in Decls(w[top.path]) : y = fr[k]
  /\ \A x, y \in Spots(w, st, out) : Precedes(x, y) => Precedes(mv[x], mv[y])
  /\ \A j, k \in Decls(w[top.path]) : j < k => Precedes(fr[j], fr[k])
  /\ \A x \in Spots(w, st, out), k \in Decls(w[top.path]) :
       x[1] < Len(st) \/ x[2] < k => Precedes(mv[x], fr[k])
  /\ \A y \in Spots(w, st2, out2) : y[1] < to \/ (y[1] = to /\ y[2] <= a)

LEMMA Carrying ==
  ASSUME NEW w \in Worlds, NEW st \in Seq(Frames), NEW out, st # <<>>,
         \A j \in DOMAIN st : Placeable(w, st[j]),
         NEW top, top = st[Len(st)],
         NEW off, NEW s, Layout(w[top.path], top, off, s),
         NEW to \in Nat, NEW a \in Nat, NEW st2, NEW out2,
         \A y : y \in Spots(w, st2, out2) <=>
                  \/ y \in Spots(w, st, out) /\ y[1] < Len(st)
                  \/ \E i \in DOMAIN s : y = <<to, a, i>>,
         \A y \in Spots(w, st, out) : y[1] < Len(st) => Item(st2, out2, y) = Item(st, out, y),
         \A i \in DOMAIN s : Item(st2, out2, <<to, a, i>>) = s[i],
         \A y \in Spots(w, st, out) : y[1] < Len(st) => y[1] < to \/ (y[1] = to /\ y[2] < a)
  PROVE  \E mv, fr : Carried(w, st, out, st2, out2, top, to, a, mv, fr)
<1> DEFINE t == w[top.path]
           S == Spots(w, st, out)
           S2 == Spots(w, st2, out2)
           L == Len(st)
           mv == [x \in S |-> IF x[1] < L THEN x ELSE <<to, a, off[x[2]] + x[3]>>]
           fr == [k \in Decls(t) |-> <<to, a, off[k] + 1>>]
<1>1. L \in Nat /\ L \in DOMAIN st /\ DOMAIN st = 1..L /\ top \in Frames /\ Placeable(w, top)
  BY EmptySeq
<1>2. /\ \A x \in S :
           /\ x = <<x[1], x[2], x[3]>> /\ x[1] \in Nat /\ x[2] \in Nat /\ x[3] \in Nat
           /\ x[1] \in 1..L /\ x[2] \in Uses(w[st[x[1]].path])
           /\ x[3] \in DOMAIN st[x[1]].pending[x[2]]
           /\ Item(st, out, x) = st[x[1]].pending[x[2]][x[3]]
  BY <1>1, SpotParts
<1>3. /\ Len(t) \in Nat /\ DOMAIN t = 1..Len(t)
      /\ \A k \in Decls(t) : k \in DOMAIN t /\ k \notin Uses(t)
      /\ \A k \in Uses(t) : k \in DOMAIN t /\ k \notin Decls(t)
  BY <1>1, TextTyped, FrameParts DEF Placeable
<1>4. /\ \A k \in DOMAIN t : off[k] \in Nat
      /\ \A k \in Uses(t) : \A i \in DOMAIN top.pending[k] :
           off[k] + i \in DOMAIN s /\ s[off[k] + i] = top.pending[k][i]
      /\ \A k \in Decls(t) : off[k] + 1 \in DOMAIN s /\ s[off[k] + 1] = EntryOf(t, top, k)
      /\ \A m \in DOMAIN s :
           \/ \E k \in Uses(t) : \E i \in DOMAIN top.pending[k] : m = off[k] + i
           \/ \E k \in Decls(t) : m = off[k] + 1
      /\ \A j \in Uses(t), k \in DOMAIN t : j < k =>
           \A i \in DOMAIN top.pending[j] : off[j] + i <= off[k]
      /\ \A j \in Decls(t), k \in DOMAIN t : j < k => off[j] + 1 <= off[k]
  BY DEF Layout
<1>5. \A x \in S : ~(x[1] < L) =>
        /\ x[1] = L /\ x[2] \in Uses(t) /\ x[3] \in DOMAIN top.pending[x[2]]
        /\ Item(st, out, x) = top.pending[x[2]][x[3]]
  <2> SUFFICES ASSUME NEW x \in S, ~(x[1] < L)
               PROVE  /\ x[1] = L /\ x[2] \in Uses(t) /\ x[3] \in DOMAIN top.pending[x[2]]
                      /\ Item(st, out, x) = top.pending[x[2]][x[3]]
    OBVIOUS
  <2>1. x[1] \in 1..L
    BY <1>2
  <2> HIDE DEF S, L
  <2>2. x[1] = L
    BY <1>1, <2>1
  <2>3. st[x[1]] = top
    BY <2>2 DEF L
  <2>4. w[st[x[1]].path] = t /\ st[x[1]].pending[x[2]] = top.pending[x[2]]
    BY <2>3
  <2>5. /\ x[2] \in Uses(w[st[x[1]].path]) /\ x[3] \in DOMAIN st[x[1]].pending[x[2]]
        /\ Item(st, out, x) = st[x[1]].pending[x[2]][x[3]]
    BY <1>2
  <2> HIDE DEF t
  <2> QED  BY <2>2, <2>4, <2>5
<1>6. \A k \in Uses(t) : \A i \in DOMAIN top.pending[k] : <<L, k, i>> \in S
  <2> SUFFICES ASSUME NEW k \in Uses(t), NEW i \in DOMAIN top.pending[k] PROVE <<L, k, i>> \in S
    OBVIOUS
  <2>1. k \in Nat /\ top.pending[k] \in Seq(Statement)
    BY <1>1, <1>3, FrameParts DEF Placeable
  <2>2. i \in Nat
    BY <2>1
  <2> QED  BY <1>1, <2>1, <2>2, SpotParts
<1>7. /\ \A y : y \in S2 <=> (y \in S /\ y[1] < L) \/ \E i \in DOMAIN s : y = <<to, a, i>>
      /\ \A y \in S : y[1] < L => Item(st2, out2, y) = Item(st, out, y)
      /\ \A i \in DOMAIN s : Item(st2, out2, <<to, a, i>>) = s[i]
      /\ \A y \in S : y[1] < L => y[1] < to \/ (y[1] = to /\ y[2] < a)
  OBVIOUS
<1>a. \A x \in S : x[1] < L => mv[x] = x
  OBVIOUS
<1>b. \A x \in S : ~(x[1] < L) => mv[x] = <<to, a, off[x[2]] + x[3]>> /\ off[x[2]] + x[3] \in DOMAIN s
  BY <1>4, <1>5
<1>c. \A k \in Decls(t) : fr[k] = <<to, a, off[k] + 1>> /\ off[k] + 1 \in DOMAIN s
  BY <1>4
<1> HIDE DEF t, S, S2, mv, fr, L
<1>8. \A x \in S : mv[x] \in S2 /\ Item(st2, out2, mv[x]) = Item(st, out, x)
  <2> SUFFICES ASSUME NEW x \in S PROVE mv[x] \in S2 /\ Item(st2, out2, mv[x]) = Item(st, out, x)
    OBVIOUS
  <2>1. CASE x[1] < L
    BY <1>7, <1>a, <2>1
  <2>2. CASE ~(x[1] < L)
    <3>1. x[2] \in Uses(t) /\ x[3] \in DOMAIN top.pending[x[2]]
          /\ Item(st, out, x) = top.pending[x[2]][x[3]]
      BY <1>5, <2>2
    <3> DEFINE i == off[x[2]] + x[3]
    <3>2. i \in DOMAIN s /\ s[i] = top.pending[x[2]][x[3]] /\ mv[x] = <<to, a, i>>
      BY <1>4, <1>b, <2>2, <3>1
    <3> HIDE DEF i
    <3> QED  BY <1>7, <3>1, <3>2
  <2> QED  BY <2>1, <2>2
<1>9. \A k \in Decls(t) : fr[k] \in S2 /\ Item(st2, out2, fr[k]) = EntryOf(t, top, k)
  BY <1>4, <1>7, <1>c
<1>10. ASSUME NEW y \in S2 PROVE (\E x \in S : y = mv[x]) \/ (\E k \in Decls(t) : y = fr[k])
  <2>1. CASE y \in S /\ y[1] < L
    BY <1>a, <2>1
  <2>2. CASE \E i \in DOMAIN s : y = <<to, a, i>>
    <3>1. PICK m \in DOMAIN s : y = <<to, a, m>>
      BY <2>2
    <3>2. CASE \E k \in Uses(t) : \E i \in DOMAIN top.pending[k] : m = off[k] + i
      <4>0. PICK k \in Uses(t) : \E i \in DOMAIN top.pending[k] : m = off[k] + i
        BY <3>2
      <4>1. PICK i \in DOMAIN top.pending[k] : m = off[k] + i
        BY <4>0
      <4>2. <<L, k, i>> \in S /\ ~(<<L, k, i>>[1] < L)
        BY <1>1, <1>6
      <4>3. mv[<<L, k, i>>] = <<to, a, off[k] + i>>
        BY <1>b, <4>2
      <4> QED  BY <3>1, <4>1, <4>2, <4>3
    <3>3. CASE \E k \in Decls(t) : m = off[k] + 1
      BY <1>c, <3>1, <3>3
    <3> QED  BY <1>4, <3>2, <3>3
  <2> QED  BY <1>7, <2>1, <2>2
<1>11. \A y \in S2 : y[1] < to \/ (y[1] = to /\ y[2] <= a)
  <2> SUFFICES ASSUME NEW y \in S2 PROVE y[1] < to \/ (y[1] = to /\ y[2] <= a)
    OBVIOUS
  <2>1. CASE y \in S /\ y[1] < L
    BY <1>2, <1>7, <2>1
  <2>2. CASE \E i \in DOMAIN s : y = <<to, a, i>>
    BY <2>2
  <2> QED  BY <1>7, <2>1, <2>2
<1>12. ASSUME NEW x \in S, x[1] < L, NEW i PROVE Precedes(mv[x], <<to, a, i>>)
  <2>1. mv[x] = x /\ (x[1] < to \/ (x[1] = to /\ x[2] < a))
    BY <1>7, <1>a, <1>12
  <2> QED  BY <2>1 DEF Precedes
<1>13. \A m, i \in Nat : m < i => Precedes(<<to, a, m>>, <<to, a, i>>)
  BY DEF Precedes
<1>14. ASSUME NEW x \in S, NEW y \in S, Precedes(x, y) PROVE Precedes(mv[x], mv[y])
  <2>1. CASE x[1] < L /\ y[1] < L
    BY <1>a, <1>14, <2>1
  <2>2. CASE x[1] < L /\ ~(y[1] < L)
    BY <1>12, <1>b, <2>2
  <2>3. CASE ~(x[1] < L)
    <3>1. x[1] = L /\ x[2] \in Uses(t) /\ x[3] \in DOMAIN top.pending[x[2]]
      BY <1>5, <2>3
    <3>2. x[1] \in Nat /\ x[2] \in Nat /\ x[3] \in Nat /\ y[1] \in Nat /\ y[2] \in Nat /\ y[3] \in Nat /\ y[1] <= L
      BY <1>1, <1>2
    <3>3. ~(y[1] < L) /\ (x[2] < y[2] \/ (x[2] = y[2] /\ x[3] < y[3]))
      BY <1>1, <1>14, <3>1, <3>2 DEF Precedes
    <3>4. y[2] \in Uses(t) /\ y[3] \in DOMAIN top.pending[y[2]]
      BY <1>5, <3>3
    <3>5. off[x[2]] \in Nat /\ off[y[2]] \in Nat
      BY <1>3, <1>4, <3>1, <3>4
    <3>5a. y[3] > 0
      <4>1. top.pending[y[2]] \in Seq(Statement)
        BY <1>1, <1>3, <3>4, FrameParts DEF Placeable, t
      <4> QED  BY <3>4, <4>1
    <3>6. off[x[2]] + x[3] < off[y[2]] + y[3]
      <4>1. CASE x[2] < y[2]
        <5>1. off[x[2]] + x[3] <= off[y[2]]
          BY <1>3, <1>4, <3>1, <3>4, <4>1
        <5> QED  BY <3>2, <3>5, <3>5a, <5>1
      <4>2. CASE x[2] = y[2] /\ x[3] < y[3]
        BY <3>2, <3>5, <4>2
      <4> QED  BY <3>3, <4>1, <4>2
    <3> DEFINE m == off[x[2]] + x[3]
               i == off[y[2]] + y[3]
    <3>7. m \in Nat /\ i \in Nat /\ m < i
      BY SMTT(30), <3>2, <3>5, <3>6
    <3>8. mv[x] = <<to, a, m>> /\ mv[y] = <<to, a, i>>
      BY <1>b, <2>3, <3>3
    <3> HIDE DEF m, i
    <3> QED  BY <1>13, <3>7, <3>8
  <2> QED  BY <2>1, <2>2, <2>3
<1>15. ASSUME NEW j \in Decls(t), NEW k \in Decls(t), j < k PROVE Precedes(fr[j], fr[k])
  <2>1. off[j] + 1 <= off[k] /\ off[j] \in Nat /\ off[k] \in Nat
    BY <1>3, <1>4, <1>15
  <2> DEFINE m == off[j] + 1
             i == off[k] + 1
  <2>2. m \in Nat /\ i \in Nat /\ m < i
    BY <2>1
  <2>3. fr[j] = <<to, a, m>> /\ fr[k] = <<to, a, i>>
    BY <1>c
  <2> HIDE DEF m, i
  <2> QED  BY <1>13, <2>2, <2>3
<1>16. ASSUME NEW x \in S, NEW k \in Decls(t), x[1] < L \/ x[2] < k PROVE Precedes(mv[x], fr[k])
  <2>1. CASE x[1] < L
    BY <1>12, <1>c, <2>1
  <2>2. CASE ~(x[1] < L)
    <3>1. x[2] \in Uses(t) /\ x[3] \in DOMAIN top.pending[x[2]] /\ x[2] < k
      BY <1>5, <1>16, <2>2
    <3>2. off[x[2]] + x[3] <= off[k] /\ off[x[2]] \in Nat /\ off[k] \in Nat /\ x[3] \in Nat
      BY <1>2, <1>3, <1>4, <3>1
    <3> DEFINE m == off[x[2]] + x[3]
               i == off[k] + 1
    <3>3. m \in Nat /\ i \in Nat /\ m < i
      BY <3>2
    <3>4. mv[x] = <<to, a, m>> /\ fr[k] = <<to, a, i>>
      BY <1>b, <1>c, <2>2
    <3> HIDE DEF m, i
    <3> QED  BY <1>13, <3>3, <3>4
  <2> QED  BY <2>1, <2>2
<1>17. Carried(w, st, out, st2, out2, top, to, a, mv, fr)
  BY <1>8, <1>9, <1>10, <1>11, <1>14, <1>15, <1>16, <1>a DEF Carried, t, S, S2, L
<1> QED  BY <1>17

LEMMA EntryParts ==
  ASSUME NEW t, NEW f, NEW k
  PROVE  /\ EntryOf(t, f, k).path = f.path /\ EntryOf(t, f, k).at = k
         /\ EntryOf(t, f, k).symbol = Global(f, t[k].name)
         /\ EntryOf(t, f, k).refs = [n \in t[k].refs |-> Global(f, n)]
BY DEF EntryOf

LEMMA ReachSelf ==
  ASSUME NEW w, NEW p \in Path
  PROVE  p \in ReachIn(w, p)
BY DEF ReachIn

\* What is further up in a chain of imports is reached from below.
LEMMA ReachChain ==
  ASSUME NEW w, NEW st \in Seq(Frames),
         \A j \in DOMAIN st : w[st[j].path] # Unreadable,
         \A j \in DOMAIN st : j < Len(st) =>
           /\ st[j].at \in Uses(w[st[j].path])
           /\ w[st[j].path][st[j].at].from = st[j + 1].path,
         NEW i \in DOMAIN st, NEW j \in DOMAIN st, i <= j
  PROVE  st[j].path \in ReachIn(w, st[i].path)
<1>1. Len(st) \in Nat /\ DOMAIN st = 1..Len(st) /\ \A m \in DOMAIN st : st[m].path \in Path
  BY FrameParts
<1> SUFFICES ASSUME NEW S \in SUBSET Path, st[i].path \in S, FollowIn(w, S) \subseteq S
             PROVE  st[j].path \in S
  BY <1>1 DEF ReachIn
<1> DEFINE T == {m \in i..j : st[m].path \notin S}
<1>2. CASE T # {}
  <2>1. T \subseteq Nat
    BY <1>1
  <2>2. PICK n \in T : \A m \in T : ~(m < n)
    BY <1>2, <2>1, Least
  <2>3. n \in i..j /\ st[n].path \notin S
    OBVIOUS
  <2>4. n # i
    BY <2>3
  <2> DEFINE m == n - 1
  <2>5. m \in i..j /\ m \in DOMAIN st /\ m < Len(st) /\ m + 1 = n /\ m < n
    BY <1>1, <2>3, <2>4
  <2>6. m \notin T
    BY <2>2, <2>5
  <2>7. st[m].path \in S
    BY <2>5, <2>6
  <2> HIDE DEF m, T
  <2>8. st[m].at \in Uses(w[st[m].path]) /\ w[st[m].path][st[m].at].from = st[n].path
    BY <2>5
  <2>9. st[n].path \in Path
    BY <1>1, <2>3
  <2>10. st[n].path \in FollowIn(w, S)
    BY <2>5, <2>7, <2>8, <2>9 DEF FollowIn
  <2> QED  BY <2>3, <2>10
<1>3. CASE T = {}
  BY <1>1, <1>3
<1> QED  BY <1>2, <1>3

\* While nothing is assembled the places stay what they are, and an import that
\* was dealt with comes after all of them.
LEMMA Unmoved ==
  ASSUME NEW w, NEW st, NEW out, NEW st2, NEW out2,
         Spots(w, st2, out2) = Spots(w, st, out),
         \A x \in Spots(w, st, out) : Item(st2, out2, x) = Item(st, out, x),
         OrderlyIn(w, st, out),
         \A j \in DOMAIN st2 : \A k \in Uses(w[st2[j].path]) : k < st2[j].at =>
           \/ j \in DOMAIN st /\ st2[j].path = st[j].path /\ k < st[j].at
           \/ \A x \in Spots(w, st, out) : x[1] < j \/ (x[1] = j /\ x[2] <= k)
  PROVE  /\ OrderlyIn(w, st2, out2)
         /\ \A fin : PlacedIn(w, st, out, fin) => PlacedIn(w, st2, out2, fin)
<1> DEFINE S == Spots(w, st, out)
<1>1. Spots(w, st2, out2) = S /\ \A x \in S : Item(st2, out2, x) = Item(st, out, x)
  OBVIOUS
<1>2. ASSUME NEW x \in S, NEW y \in S, NEW k \in Uses(w[Item(st, out, y).path]),
             After(w, Item(st, out, y).path, k, Item(st, out, x).path), k < Item(st, out, y).at
      PROVE  Precedes(x, y)
  BY <1>2 DEF OrderlyIn
<1>3. ASSUME NEW j \in DOMAIN st2, NEW k \in Uses(w[st2[j].path]), NEW x \in S,
             k < st2[j].at, After(w, st2[j].path, k, Item(st, out, x).path)
      PROVE  x[1] < j \/ (x[1] = j /\ x[2] <= k)
  <2>1. CASE j \in DOMAIN st /\ st2[j].path = st[j].path /\ k < st[j].at
    BY <1>3, <2>1 DEF OrderlyIn
  <2> QED  BY <1>3, <2>1
<1> HIDE DEF S
<1>4. OrderlyIn(w, st2, out2)
  BY <1>1, <1>2, <1>3 DEF OrderlyIn
<1>5. ASSUME NEW fin, PlacedIn(w, st, out, fin) PROVE PlacedIn(w, st2, out2, fin)
  <2>1. /\ \A x \in S : Item(st, out, x).path \in fin /\ Item(st, out, x).at \in Decls(w[Item(st, out, x).path])
        /\ \A p \in fin : \A k \in Decls(w[p]) : \E x \in S : Item(st, out, x).path = p /\ Item(st, out, x).at = k
        /\ \A x, y \in S : Item(st, out, x).path = Item(st, out, y).path /\ Item(st, out, x).at <= Item(st, out, y).at
             => x = y \/ Precedes(x, y)
    BY <1>5 DEF PlacedIn, S
  <2> QED  BY <1>1, <2>1 DEF PlacedIn
<1> QED  BY <1>4, <1>5

\* The unit on the top of the stack is at its end; what imports it already is
\* in a circle with it, and the frame <<to>> under it passes its import a.
Closing(w, st, st2, top, to, a, fin) ==
  /\ top = st[Len(st)] /\ top.at > Len(w[top.path]) /\ top.path \notin fin
  /\ \A j \in DOMAIN st2 :
       /\ j \in DOMAIN st /\ j < Len(st) /\ st2[j].path = st[j].path
       /\ \A k \in Uses(w[st[j].path]) : k < st2[j].at => k < st[j].at \/ (j = to /\ k = a)
  /\ \A p \in fin : \A k \in Uses(w[p]) : w[p][k].from = top.path => p \in ReachIn(w, top.path)
  /\ \A j \in DOMAIN st : \A k \in Uses(w[st[j].path]) :
       k < st[j].at /\ w[st[j].path][k].from = top.path => st[j].path \in ReachIn(w, top.path)

\* The end of a module keeps what is known of the places.
LEMMA FinishPlaces ==
  ASSUME NEW w \in Worlds, NEW st \in Seq(Frames), NEW out, st # <<>>,
         \A j \in DOMAIN st : Placeable(w, st[j]),
         NEW top, NEW st2, NEW out2, NEW to, NEW a, NEW mv, NEW fr, NEW fin,
         Carried(w, st, out, st2, out2, top, to, a, mv, fr), Closing(w, st, st2, top, to, a, fin),
         PlacedIn(w, st, out, fin), OrderlyIn(w, st, out)
  PROVE  PlacedIn(w, st2, out2, fin \cup {top.path}) /\ OrderlyIn(w, st2, out2)
<1> DEFINE t == w[top.path]
           S == Spots(w, st, out)
           S2 == Spots(w, st2, out2)
           L == Len(st)
           It(x) == Item(st, out, x)
           It2(x) == Item(st2, out2, x)
<1>0. /\ top = st[Len(st)] /\ top.at > Len(t) /\ top.path \notin fin
      /\ \A j \in DOMAIN st2 :
           /\ j \in DOMAIN st /\ j < L /\ st2[j].path = st[j].path
           /\ \A k \in Uses(w[st[j].path]) : k < st2[j].at => k < st[j].at \/ (j = to /\ k = a)
      /\ \A p \in fin : \A k \in Uses(w[p]) : w[p][k].from = top.path => p \in ReachIn(w, top.path)
      /\ \A j \in DOMAIN st : \A k \in Uses(w[st[j].path]) :
           k < st[j].at /\ w[st[j].path][k].from = top.path => st[j].path \in ReachIn(w, top.path)
  BY DEF Closing
<1>1. L \in Nat /\ L \in DOMAIN st /\ DOMAIN st = 1..L /\ top \in Frames /\ Placeable(w, top)
  BY <1>0, EmptySeq
<1>2. top.path \in Path /\ w[top.path] # Unreadable
  BY <1>1, FrameParts DEF Placeable
<1>3. /\ Len(t) \in Nat /\ DOMAIN t = 1..Len(t)
      /\ \A k \in Decls(t) : k \in DOMAIN t
      /\ \A k \in Uses(t) : k \in DOMAIN t
  BY <1>2, TextTyped
<1>4. /\ \A x \in S : mv[x] \in S2 /\ It2(mv[x]) = It(x)
      /\ \A x \in S : x[1] < L => mv[x] = x
      /\ \A k \in Decls(t) : fr[k] \in S2 /\ It2(fr[k]).path = top.path /\ It2(fr[k]).at = k
      /\ \A y \in S2 : (\E x \in S : y = mv[x]) \/ (\E k \in Decls(t) : y = fr[k])
      /\ \A x, y \in S : Precedes(x, y) => Precedes(mv[x], mv[y])
      /\ \A j, k \in Decls(t) : j < k => Precedes(fr[j], fr[k])
      /\ \A x \in S, k \in Decls(t) : x[1] < L \/ x[2] < k => Precedes(mv[x], fr[k])
      /\ \A y \in S2 : y[1] < to \/ (y[1] = to /\ y[2] <= a)
  <2>1. \A k : EntryOf(t, top, k).path = top.path /\ EntryOf(t, top, k).at = k
    BY DEF EntryOf
  <2> QED  BY <2>1 DEF Carried
<1>5. /\ \A x \in S : It(x).path \in fin /\ It(x).at \in Decls(w[It(x).path])
      /\ \A p \in fin : \A k \in Decls(w[p]) : \E x \in S : It(x).path = p /\ It(x).at = k
      /\ \A x, y \in S : It(x).path = It(y).path /\ It(x).at <= It(y).at => x = y \/ Precedes(x, y)
  BY DEF PlacedIn
<1>6. /\ \A x, y \in S : \A k \in Uses(w[It(y).path]) :
           After(w, It(y).path, k, It(x).path) /\ k < It(y).at => Precedes(x, y)
      /\ \A j \in DOMAIN st : \A k \in Uses(w[st[j].path]) : \A x \in S :
           k < st[j].at /\ After(w, st[j].path, k, It(x).path)
             => x[1] < j \/ (x[1] = j /\ x[2] <= k)
  BY DEF OrderlyIn
<1>7. \A x \in S : x[1] \in 1..L /\ x[2] \in Nat
  BY <1>1, SpotParts
<1>8. top.path \in ReachIn(w, top.path)
  BY <1>2, ReachSelf
<1>b. st[L] = top /\ DOMAIN st = 1..L
  BY <1>0, <1>1
<1> HIDE DEF t, S, S2, It, It2, L
<1>9. \A y \in S2 : It2(y).path \in fin \cup {top.path} /\ It2(y).at \in Decls(w[It2(y).path])
  BY <1>4, <1>5 DEF t
<1>10. ASSUME NEW p \in fin \cup {top.path}, NEW k \in Decls(w[p])
       PROVE  \E y \in S2 : It2(y).path = p /\ It2(y).at = k
  <2>1. CASE p \in fin
    <3>1. PICK x \in S : It(x).path = p /\ It(x).at = k
      BY <1>5, <2>1
    <3> QED  BY <1>4, <3>1
  <2>2. CASE p = top.path
    BY <1>4, <2>2 DEF t
  <2> QED  BY <2>1, <2>2
<1>11. ASSUME NEW u \in S2, NEW v \in S2, It2(u).path = It2(v).path, It2(u).at <= It2(v).at
       PROVE  u = v \/ Precedes(u, v)
  <2>1. CASE \E x \in S : u = mv[x]
    <3>1. PICK x \in S : u = mv[x]
      BY <2>1
    <3>2. PICK y \in S : v = mv[y]
      BY <1>0, <1>4, <1>5, <1>11, <3>1
    <3>3. x = y \/ Precedes(x, y)
      BY <1>0, <1>4, <1>5, <1>11, <3>1, <3>2
    <3> QED  BY <1>4, <3>1, <3>2, <3>3
  <2>2. CASE \E k \in Decls(t) : u = fr[k]
    <3>1. PICK j \in Decls(t) : u = fr[j]
      BY <2>2
    <3>2. PICK k \in Decls(t) : v = fr[k]
      BY <1>0, <1>4, <1>5, <1>11, <3>1
    <3>3. j <= k
      BY <1>4, <1>11, <3>1, <3>2
    <3>4. j = k \/ j < k
      BY <1>3, <3>3
    <3> QED  BY <1>4, <3>1, <3>2, <3>4
  <2> QED  BY <1>4, <2>1, <2>2
<1>12. ASSUME NEW u \in S2, NEW v \in S2, NEW k \in Uses(w[It2(v).path]),
              After(w, It2(v).path, k, It2(u).path), k < It2(v).at
       PROVE  Precedes(u, v)
  <2>1. CASE \E y \in S : v = mv[y]
    <3>1. PICK y \in S : v = mv[y]
      BY <2>1
    <3>2. It2(v) = It(y) /\ It(y).path \in fin
      BY <1>4, <1>5, <3>1
    <3>3. It2(u).path # top.path
      BY <1>0, <1>5, <1>12, <3>2 DEF After
    <3>4. PICK x \in S : u = mv[x]
      BY <1>4, <3>3
    <3>5. Precedes(x, y)
      BY <1>4, <1>6, <1>12, <3>2, <3>4
    <3> QED  BY <1>4, <3>1, <3>4, <3>5
  <2>2. CASE \E j \in Decls(t) : v = fr[j]
    <3>1. PICK j \in Decls(t) : v = fr[j]
      BY <2>2
    <3>2. It2(v).path = top.path /\ It2(v).at = j
      BY <1>4, <3>1
    <3>3. It2(u).path # top.path
      BY <1>8, <1>12, <3>2 DEF After
    <3>4. PICK x \in S : u = mv[x]
      BY <1>4, <3>3
    <3>5. k \in Uses(w[st[L].path]) /\ k < st[L].at /\ L \in DOMAIN st
      <4>1. k \in 1..Len(t)
        BY <1>3, <1>12, <3>2 DEF t
      <4>2. top.at \in Nat
        BY <1>1, FrameParts
      <4>3. k < top.at
        BY <1>0, <1>3, <4>1, <4>2
      <4> QED  BY <1>1, <1>12, <1>b, <3>2, <4>3
    <3>6. After(w, st[L].path, k, It(x).path)
      BY <1>4, <1>12, <1>b, <3>2, <3>4
    <3>7. x[1] < L \/ (x[1] = L /\ x[2] <= k)
      BY <1>6, <3>5, <3>6
    <3>8. x[1] < L \/ x[2] < j
      <4>1. k < j /\ k \in Nat /\ j \in Nat /\ x[2] \in Nat
        BY <1>3, <1>7, <1>12, <3>2 DEF t
      <4> QED  BY <3>7, <4>1
    <3> QED  BY <1>4, <3>1, <3>4, <3>8
  <2> QED  BY <1>4, <2>1, <2>2
<1>13. ASSUME NEW j \in DOMAIN st2, NEW k \in Uses(w[st2[j].path]), NEW u \in S2,
              k < st2[j].at, After(w, st2[j].path, k, It2(u).path)
       PROVE  u[1] < j \/ (u[1] = j /\ u[2] <= k)
  <2>1. j \in DOMAIN st /\ j < L /\ st2[j].path = st[j].path /\ k \in Uses(w[st[j].path])
    BY <1>0, <1>13
  <2>2. k < st[j].at \/ (j = to /\ k = a)
    BY <1>0, <1>13, <2>1
  <2>3. CASE j = to /\ k = a
    BY <1>4, <2>3
  <2>4. CASE k < st[j].at
    <3>1. It2(u).path # top.path
      BY <1>0, <1>13, <2>1, <2>4 DEF After
    <3>2. PICK x \in S : u = mv[x]
      BY <1>4, <3>1
    <3>3. x[1] < j \/ (x[1] = j /\ x[2] <= k)
      BY <1>4, <1>6, <1>13, <2>1, <2>4, <3>2
    <3>4. x[1] < L
      <4>1. x[1] \in 1..L /\ j \in 1..L
        BY <1>7, <1>b, <2>1
      <4> QED  BY <1>1, <2>1, <3>3, <4>1
    <3> QED  BY <1>4, <3>2, <3>3, <3>4
  <2> QED  BY <2>2, <2>3, <2>4
<1>14. PlacedIn(w, st2, out2, fin \cup {top.path})
  BY <1>9, <1>10, <1>11 DEF PlacedIn, S2, It2
<1>15. OrderlyIn(w, st2, out2)
  BY <1>12, <1>13 DEF OrderlyIn, S2, It2
<1> QED  BY <1>14, <1>15

-----------------------------------------------------------------------------
(* What a step makes of a frame.                                           *)

LEMMA TopFacts ==
  ASSUME Typed, stack # <<>>
  PROVE  /\ Len(stack) \in Nat /\ Len(stack) \in DOMAIN stack /\ DOMAIN stack = 1..Len(stack)
         /\ Top \in Frames /\ Placeable(world, Top) /\ Top = stack[Len(stack)]
         /\ Top.path \in Path /\ world[Top.path] # Unreadable
         /\ Top.at \in Nat /\ Top.at \in 1..Len(world[Top.path]) + 1
         /\ world \in Worlds /\ Top.id < next_module
<1>1. stack \in Seq(Frames) /\ \A j \in DOMAIN stack : Placeable(world, stack[j]) /\ stack[j].id < next_module
  BY DEF Typed
<1>2. Len(stack) \in Nat /\ Len(stack) \in DOMAIN stack /\ DOMAIN stack = 1..Len(stack)
  BY <1>1, EmptySeq
<1>3. Top \in Frames /\ Placeable(world, Top) /\ Top.id < next_module
  BY <1>1, <1>2 DEF Top
<1>4. Top.path \in Path /\ Top.at \in Nat
  BY <1>3, FrameParts
<1> QED  BY <1>2, <1>3, <1>4 DEF Top, Placeable, Typed

\* The operators of the model in terms of the texts.
LEMMA TextOperators ==
  /\ \A p : Text(p) = world[p] /\ Declared(p) = Decls(world[p]) /\ Imports(p) = Uses(world[p])
  /\ \A p : Names(p) = NamesIn(world[p]) /\ Exports(p) = ExportsIn(world[p])
  /\ Read = ReadIn(world, emitted)
<1>1. ASSUME NEW p
      PROVE  Text(p) = world[p] /\ Declared(p) = Decls(world[p]) /\ Imports(p) = Uses(world[p])
  BY DEF Text, Declared, Imports, Decls, Uses
<1>2. ASSUME NEW p PROVE Names(p) = NamesIn(world[p]) /\ Exports(p) = ExportsIn(world[p])
  BY DEF Text, Declared, Names, Exports, Decls, NamesIn, ExportsIn
<1>3. Read = ReadIn(world, emitted)
  BY DEF Read, ReadIn, Text
<1> QED  BY <1>1, <1>2, <1>3

\* Statements are numbered.
LEMMA UseNat ==
  ASSUME NEW w \in Worlds, NEW p \in Path, w[p] # Unreadable, NEW k \in Uses(w[p])
  PROVE  k \in Nat
<1>1. k \in DOMAIN w[p] /\ DOMAIN w[p] = 1..Len(w[p]) /\ Len(w[p]) \in Nat
  BY TextTyped
<1> QED  BY <1>1

\* A frame that passes over a declaration, or an import that brings nothing new.
LEMMA StepFacts ==
  ASSUME NEW w, NEW f \in Frames, Placeable(w, f), f.at \in 1..Len(w[f.path]), Len(w[f.path]) \in Nat
  PROVE  /\ Step(f) \in Frames /\ Placeable(w, Step(f))
         /\ Step(f).path = f.path /\ Step(f).id = f.id /\ Step(f).at = f.at + 1
         /\ Step(f).bindings = f.bindings /\ Step(f).pending = f.pending
<1>1. /\ Step(f) \in Frames /\ Step(f).path = f.path /\ Step(f).id = f.id /\ Step(f).at = f.at + 1
      /\ Step(f).bindings = f.bindings /\ Step(f).pending = f.pending
  BY DEF Step, Frames
<1>2. Step(f).at \in 1..Len(w[f.path]) + 1 /\ \A k : k >= f.at + 1 /\ k \in Nat => k >= f.at
  BY <1>1, FrameParts
<1>3. \A k \in Uses(w[f.path]) : k \in Nat
  <2>1. \A k \in DOMAIN f.pending : k \in Nat
    BY DEF Frames
  <2> QED  BY <2>1 DEF Placeable
<1> QED  BY <1>1, <1>2, <1>3 DEF Placeable

\* The frame f after its import f.at brought the statements s.
LEMMA BoundFacts ==
  ASSUME Typed, Published, NEW f \in Frames, Placeable(world, f),
         f.at \in Uses(world[f.path]), world[f.path][f.at].from \in Path,
         NEW s \in Seq(Statement), NEW g, g = Bound(f, s)
  PROVE  /\ g \in Frames /\ Placeable(world, g)
         /\ g.path = f.path /\ g.id = f.id /\ g.at = f.at + 1
         /\ g.pending[f.at] = s
         /\ \A k \in Uses(world[f.path]) : k # f.at => g.pending[k] = f.pending[k]
         /\ DOMAIN f.bindings \subseteq DOMAIN g.bindings
         /\ \A n \in DOMAIN f.bindings : g.bindings[n] = f.bindings[n]
<1> DEFINE u == world[f.path][f.at]
           d == declarations[u.from]
           g1 == [f EXCEPT !.at = @ + 1, !.pending[f.at] = s]
<1>1. /\ f.path \in Path /\ f.id \in Nat /\ f.at \in Nat /\ world[f.path] # Unreadable
      /\ f.bindings \in Renaming /\ DOMAIN f.pending = Uses(world[f.path])
      /\ \A k \in DOMAIN f.pending : f.pending[k] \in Seq(Statement)
  BY FrameParts DEF Frames, Placeable
<1>2. /\ Len(world[f.path]) \in Nat /\ DOMAIN world[f.path] = 1..Len(world[f.path])
      /\ \A k \in Uses(world[f.path]) : k \in DOMAIN world[f.path]
      /\ u.from \in Path /\ u.names \in Seq(Name)
  BY <1>1, TextTyped DEF Typed
<1> DEFINE pd == [f.pending EXCEPT ![f.at] = s]
<1>3. /\ pd \in UNION {[D -> Seq(Statement)] : D \in SUBSET Nat} /\ DOMAIN pd = Uses(world[f.path])
      /\ pd[f.at] = s /\ \A k \in Uses(world[f.path]) : k # f.at => pd[k] = f.pending[k]
  <2>1. DOMAIN f.pending \in SUBSET Nat
    BY <1>1, <1>2
  <2>2. pd \in [DOMAIN f.pending -> Seq(Statement)]
    BY <1>1
  <2> QED  BY <1>1, <2>1, <2>2
<1> HIDE DEF pd
<1>4. /\ g1 \in Frames /\ g1.path = f.path /\ g1.id = f.id /\ g1.at = f.at + 1
      /\ g1.pending = pd /\ g1.bindings = f.bindings
  <2>1. g1 = [f EXCEPT !.at = f.at + 1, !.pending = pd]
    BY DEF Frames, pd
  <2> HIDE DEF g1
  <2>2. g1 = [path |-> f.path, id |-> f.id, at |-> f.at + 1, bindings |-> f.bindings, pending |-> pd]
    BY <2>1 DEF Frames
  <2>3. f.at + 1 \in Nat
    BY <1>1
  <2> QED  BY <1>1, <1>3, <2>2, <2>3 DEF Frames
<1>5. /\ g.path = f.path /\ g.id = f.id /\ g.at = f.at + 1 /\ g.pending = pd
      /\ g \in Frames
      /\ DOMAIN f.bindings \subseteq DOMAIN g.bindings
      /\ \A n \in DOMAIN f.bindings : g.bindings[n] = f.bindings[n]
  <2>1. CASE d = None
    <3>1. g = g1
      BY <2>1 DEF Bound, Text
    <3> QED  BY <1>4, <3>1
  <2>2. CASE d # None
    <3> DEFINE B == {u.names[k] : k \in Bindable(f, u)}
               b == [n \in DOMAIN f.bindings \cup B |->
                       IF n \in DOMAIN f.bindings THEN f.bindings[n] ELSE d[n].symbol]
    <3>1. u.from \in ReadIn(world, emitted)
      BY <1>2, <2>2 DEF Published
    <3>2. d \in [NamesIn(world[u.from]) -> [symbol : Symbols, exported : BOOLEAN]]
      BY <3>1 DEF Published, Publication
    <3>3. B \subseteq DOMAIN d /\ B \subseteq Name
      <4>1. \A k \in Bindable(f, u) : k \in DOMAIN u.names /\ u.names[k] \in DOMAIN d
        BY DEF Bindable
      <4>2. u.names \in Seq(Name)
        BY <1>2
      <4> HIDE DEF u, d
      <4>3. \A k \in DOMAIN u.names : u.names[k] \in Name
        BY <4>2
      <4> QED  BY <4>1, <4>3
    <3>4. \A n \in B : d[n].symbol \in Symbols
      BY <3>2, <3>3
    <3>5. b \in Renaming
      <4>1. DOMAIN f.bindings \subseteq Name /\ \A n \in DOMAIN f.bindings : f.bindings[n] \in Symbols
        BY FrameParts
      <4>2. b \in [DOMAIN f.bindings \cup B -> Symbols] /\ DOMAIN f.bindings \cup B \in SUBSET Name
        <5> HIDE DEF B, d
        <5> QED  BY <3>3, <3>4, <4>1
      <4> QED  BY <4>2 DEF Renaming
    <3>6. g = [g1 EXCEPT !.bindings = b]
      <4>1. g = [g1 EXCEPT !.bindings =
                  [n \in DOMAIN g1.bindings \cup B |->
                     IF n \in DOMAIN g1.bindings THEN g1.bindings[n] ELSE d[n].symbol]]
        BY <1>4, <2>2 DEF Bound, Text, Frames
      <4> HIDE DEF g1, B, d
      <4> QED  BY <1>4, <4>1
    <3>7. DOMAIN f.bindings \subseteq DOMAIN b /\ \A n \in DOMAIN f.bindings : b[n] = f.bindings[n]
      OBVIOUS
    <3> HIDE DEF b, g1
    <3>8. g \in Frames /\ g.path = g1.path /\ g.id = g1.id /\ g.at = g1.at /\ g.pending = g1.pending /\ g.bindings = b
      BY <1>4, <3>5, <3>6 DEF Frames
    <3> QED  BY <1>4, <3>7, <3>8
  <2> QED  BY <2>1, <2>2
<1>6. Placeable(world, g)
  <2>1. g.at \in 1..Len(world[f.path]) + 1
    BY <1>1, <1>2, <1>5
  <2>2. ASSUME NEW k \in Uses(world[f.path]), k >= g.at PROVE g.pending[k] = <<>>
    <3>1. k >= f.at /\ k # f.at
      BY <1>1, <1>2, <1>5, <2>2
    <3> QED  BY <1>3, <1>5, <3>1 DEF Placeable
  <2> QED  BY <1>1, <1>3, <1>5, <2>1, <2>2 DEF Placeable
<1> QED  BY <1>3, <1>5, <1>6

\* An import of a module that was read, without a complaint, binds its names.
LEMMA BoundClean ==
  ASSUME Typed, Published, NEW f \in Frames, Placeable(world, f),
         f.at \in Uses(world[f.path]),
         NEW em, world[f.path][f.at].from \in ReadIn(world, emitted), emitted \subseteq em,
         NEW s \in Seq(Statement), NEW g, g = Bound(f, s), Reports(f) = {},
         Bindings(world, declarations, emitted, f)
  PROVE  Bindings(world, declarations, em, g)
<1> DEFINE u == world[f.path][f.at]
           d == declarations[u.from]
           q == u.from
           B == {u.names[k] : k \in Bindable(f, u)}
<1>1. /\ f.path \in Path /\ world[f.path] # Unreadable /\ f.at \in Nat
  BY FrameParts DEF Placeable
<1>2. q \in Path
  BY DEF Typed, ReadIn
<1>3. g.path = f.path /\ g.at = f.at + 1 /\ DOMAIN f.bindings \subseteq DOMAIN g.bindings
      /\ \A n \in DOMAIN f.bindings : g.bindings[n] = f.bindings[n]
  BY <1>2, BoundFacts
<1>4. /\ u.names \in Seq(Name)
      /\ \A k \in Uses(world[f.path]) : k \in Nat
  <2>1. DOMAIN f.pending \subseteq Nat
    BY DEF Frames
  <2> QED  BY <1>1, <2>1, TextTyped DEF Typed, Placeable
<1>5. /\ d \in [NamesIn(world[q]) -> [symbol : Symbols, exported : BOOLEAN]]
      /\ \A n \in NamesIn(world[q]) : d[n].exported <=> n \in ExportsIn(world[q])
  BY DEF Published, Publication
<1>6. d # None
  <2>1. NamesIn(world[q]) \in SUBSET Name
    <3>1. world[q] # Unreadable
      BY DEF ReadIn
    <3> QED  BY <1>2, <3>1, TextTyped DEF Typed
  <2> QED  BY <1>5, <2>1, LoaderAssumption
<1>7. \A k \in DOMAIN u.names : k \in Bindable(f, u)
  BY <1>6 DEF Reports, Complaints, Text
<1>8. ToSet(u.names) = B
  BY <1>7 DEF ToSet, Bindable
<1>9. \A n \in B : n \in DOMAIN d /\ d[n].exported /\ n \notin DOMAIN f.bindings
  BY DEF Bindable, Free
<1>10. DOMAIN g.bindings = DOMAIN f.bindings \cup B
       /\ \A n \in B : n \notin DOMAIN f.bindings => g.bindings[n] = d[n].symbol
  <2> DEFINE g1 == [f EXCEPT !.at = @ + 1, !.pending[f.at] = s]
  <2>1. g1.bindings = f.bindings /\ DOMAIN g1 = {"path", "id", "at", "bindings", "pending"}
    BY DEF Frames
  <2>2. g = [g1 EXCEPT !.bindings =
              [n \in DOMAIN g1.bindings \cup B |->
                 IF n \in DOMAIN g1.bindings THEN g1.bindings[n] ELSE d[n].symbol]]
    BY <1>6 DEF Bound, Text, Frames
  <2> HIDE DEF g1, B, d
  <2>3. g.bindings = [n \in DOMAIN f.bindings \cup B |->
                        IF n \in DOMAIN f.bindings THEN f.bindings[n] ELSE d[n].symbol]
    BY <2>1, <2>2
  <2> QED  BY <2>3
<1>11. \A k : k \in Served(world, g) <=> k \in Served(world, f) \/ k = f.at
  <2>1. \A k \in Nat : k < f.at + 1 <=> k < f.at \/ k = f.at
    BY <1>1
  <2> QED  BY <1>3, <1>4, <2>1 DEF Served
<1>12. \A p, k : Granted(world, emitted, p, k) => Granted(world, em, p, k)
  BY DEF Granted, ReadIn
<1>13. Granted(world, em, f.path, f.at)
  <2>1. q \in ReadIn(world, em)
    BY DEF ReadIn
  <2>2. B \subseteq ExportsIn(world[q])
    BY <1>5, <1>9
  <2> QED  BY <1>8, <2>1, <2>2 DEF Granted
<1>14. ASSUME NEW n \in DOMAIN g.bindings
       PROVE  n \in NamesIn(world[g.path]) \/ \E k \in Served(world, g) : n \in ToSet(world[g.path][k].names)
  <2>1. CASE n \in DOMAIN f.bindings
    BY <1>3, <1>11, <2>1 DEF Bindings
  <2>2. CASE n \in B
    BY <1>3, <1>8, <1>11, <2>2
  <2> QED  BY <1>10, <2>1, <2>2
<1>15. ASSUME NEW k \in Served(world, g)
       PROVE  /\ Granted(world, em, g.path, k)
              /\ \A n \in ToSet(world[g.path][k].names) :
                   n \in DOMAIN g.bindings /\ g.bindings[n] = declarations[world[g.path][k].from][n].symbol
  <2>1. CASE k \in Served(world, f)
    BY <1>3, <1>12, <2>1 DEF Bindings
  <2>2. CASE k = f.at
    BY <1>3, <1>8, <1>9, <1>10, <1>13, <2>2
  <2> QED  BY <1>11, <2>1, <2>2
<1> QED  BY <1>14, <1>15 DEF Bindings


LEMMA SymbolTyped ==
  ASSUME NEW id \in Nat, NEW n \in Name
  PROVE  SymbolOf(id, n) \in Symbols
BY DEF SymbolOf, Symbols, Generated

\* The names that a module publishes when it is entered.
LEMMA OwnFacts ==
  ASSUME world \in Worlds, NEW p \in Path, world[p] # Unreadable, NEW id \in Nat
  PROVE  /\ Own(p, id) \in [NamesIn(world[p]) -> [symbol : Symbols, exported : BOOLEAN]]
         /\ \A n \in NamesIn(world[p]) :
              /\ Own(p, id)[n].symbol = SymbolOf(id, n)
              /\ Own(p, id)[n].exported <=> n \in ExportsIn(world[p])
<1> DEFINE t == world[p]
           R == [symbol : Symbols, exported : BOOLEAN]
<1>1. Own(p, id) = [n \in NamesIn(t) |-> [symbol |-> SymbolOf(id, n), exported |-> n \in ExportsIn(t)]]
  BY TextOperators DEF Own
<1>2. \A n \in NamesIn(t) : SymbolOf(id, n) \in Symbols
  BY TextTyped, SymbolTyped
<1> HIDE DEF t
<1>3. /\ \A s \in Symbols, b \in BOOLEAN : [symbol |-> s, exported |-> b] \in R
      /\ \A s \in Symbols, b \in BOOLEAN : [symbol |-> s, exported |-> b].symbol = s
      /\ \A s \in Symbols, b \in BOOLEAN : [symbol |-> s, exported |-> b].exported = b
  OBVIOUS
<1> HIDE DEF R
<1>4. \A n \in NamesIn(t) : (n \in ExportsIn(t)) \in BOOLEAN
  OBVIOUS
<1>5. \A n \in NamesIn(t) :
        LET r == [symbol |-> SymbolOf(id, n), exported |-> n \in ExportsIn(t)]
        IN  r \in R /\ r.symbol = SymbolOf(id, n) /\ r.exported = (n \in ExportsIn(t))
  BY <1>2, <1>3, <1>4, Zenon
<1>6. \A n \in NamesIn(t) : Own(p, id)[n] = [symbol |-> SymbolOf(id, n), exported |-> n \in ExportsIn(t)]
  BY <1>1, Zenon
<1>7. Own(p, id) \in [NamesIn(t) -> R]
  BY <1>1, <1>5, Zenon
<1>8. \A n \in NamesIn(t) :
        Own(p, id)[n].symbol = SymbolOf(id, n) /\ Own(p, id)[n].exported = (n \in ExportsIn(t))
  BY <1>5, <1>6, Zenon
<1>9. \A n \in NamesIn(t) : Own(p, id)[n].symbol = SymbolOf(id, n) /\ (Own(p, id)[n].exported <=> n \in ExportsIn(t))
  BY <1>8, Zenon
<1> QED  BY <1>7, <1>9 DEF t, R

\* The frame of a module that is entered.
LEMMA FrameFacts ==
  ASSUME world \in Worlds, NEW p \in Path, world[p] # Unreadable, NEW id \in Nat,
         NEW f, f = Frame(p, id)
  PROVE  /\ f \in Frames /\ Placeable(world, f)
         /\ f.path = p /\ f.id = id /\ f.at = 1 /\ DOMAIN f.bindings = NamesIn(world[p])
         /\ \A n \in NamesIn(world[p]) : f.bindings[n] = SymbolOf(id, n)
         /\ \A k \in Uses(world[p]) : f.pending[k] = <<>>
         /\ \A k \in Uses(world[p]) : ~(k < f.at)
<1> DEFINE t == world[p]
<1>1. /\ Len(t) \in Nat /\ NamesIn(t) \subseteq Name
      /\ \A k \in Uses(t) : k \in DOMAIN t /\ k \in Nat /\ DOMAIN t = 1..Len(t)
  BY TextTyped, UseNat
<1>2. f = [path |-> p, id |-> id, at |-> 1, bindings |-> [n \in NamesIn(t) |-> SymbolOf(id, n)],
           pending |-> [k \in Uses(t) |-> <<>>]]
  BY TextOperators DEF Frame
<1> HIDE DEF t
<1>3. [n \in NamesIn(t) |-> SymbolOf(id, n)] \in Renaming
  <2>1. [n \in NamesIn(t) |-> SymbolOf(id, n)] \in [NamesIn(t) -> Symbols]
    BY <1>1, SymbolTyped
  <2> QED  BY <1>1, <2>1 DEF Renaming
<1>4. [k \in Uses(t) |-> <<>>] \in UNION {[D -> Seq(Statement)] : D \in SUBSET Nat}
  <2>1. [k \in Uses(t) |-> <<>>] \in [Uses(t) -> Seq(Statement)] /\ Uses(t) \in SUBSET Nat
    BY <1>1
  <2> QED  BY <2>1
<1>5. f \in Frames
  BY <1>2, <1>3, <1>4 DEF Frames
<1>6. /\ f.path = p /\ f.id = id /\ f.at = 1 /\ DOMAIN f.bindings = NamesIn(t)
      /\ \A n \in NamesIn(t) : f.bindings[n] = SymbolOf(id, n)
      /\ DOMAIN f.pending = Uses(t) /\ \A k \in Uses(t) : f.pending[k] = <<>>
  BY <1>2
<1>7. \A k \in Uses(t) : ~(k < f.at)
  BY <1>1, <1>6
<1>8. Placeable(world, f)
  BY <1>1, <1>6 DEF Placeable, t
<1> QED  BY <1>5, <1>6, <1>7, <1>8 DEF t

-----------------------------------------------------------------------------
(* The steps.                                                              *)

LEMMA LoaderInit == Init => LoaderInv
<1> SUFFICES ASSUME Init PROVE LoaderInv
  OBVIOUS
<1> DEFINE t == world[Root]
           f == Frame(Root, 0)
<1>1. world \in Worlds /\ Root \in Path /\ t # Unreadable /\ 0 \in Nat
  BY LoaderAssumption DEF Init
<1>2. ReadIn(world, emitted) = {Root} /\ FinishedIn(world, emitted, loading) = {}
  BY <1>1 DEF Init, ReadIn, FinishedIn
<1>3. /\ f \in Frames /\ Placeable(world, f)
      /\ f.path = Root /\ f.id = 0 /\ f.at = 1 /\ DOMAIN f.bindings = NamesIn(t)
      /\ \A n \in NamesIn(t) : f.bindings[n] = SymbolOf(0, n)
      /\ \A k \in Uses(t) : f.pending[k] = <<>>
      /\ \A k \in Uses(t) : ~(k < f.at)
  BY <1>1, FrameFacts
<1>4. /\ declarations[Root] \in [NamesIn(t) -> [symbol : Symbols, exported : BOOLEAN]]
      /\ \A n \in NamesIn(t) :
           /\ declarations[Root][n].symbol = SymbolOf(0, n)
           /\ declarations[Root][n].exported <=> n \in ExportsIn(t)
      /\ DOMAIN declarations = Path /\ \A p \in Path \ {Root} : declarations[p] = None
  <2>1. declarations[Root] = Own(Root, 0)
    BY <1>1 DEF Init
  <2>2. /\ Own(Root, 0) \in [NamesIn(t) -> [symbol : Symbols, exported : BOOLEAN]]
        /\ \A n \in NamesIn(t) :
             /\ Own(Root, 0)[n].symbol = SymbolOf(0, n)
             /\ Own(Root, 0)[n].exported <=> n \in ExportsIn(t)
    BY <1>1, OwnFacts
  <2>3. DOMAIN declarations = Path /\ \A p \in Path \ {Root} : declarations[p] = None
    BY DEF Init
  <2> QED  BY <2>1, <2>2, <2>3
<1>5. stack = <<f>> /\ loading = {Root} /\ emitted = {Root} /\ next_module = 1
      /\ output = None /\ errors = ReservedNames(Root)
  BY DEF Init
<1>6. Len(stack) = 1 /\ DOMAIN stack = {1} /\ stack[1] = f /\ stack # <<>>
  BY <1>5
<1> HIDE DEF t, f
<1>7. Spots(world, stack, output) = {}
  BY <1>3, <1>6 DEF Spots, t
<1>8. Typed
  <2>1. stack \in Seq(Frames)
    BY <1>3, <1>5
  <2> QED  BY <1>1, <1>2, <1>3, <1>5, <1>6, <2>1 DEF Typed
<1>9. Chained
  BY <1>3, <1>5, <1>6 DEF Chained
<1>10. Published
  <2>1. Publication(world, declarations, next_module, Root)
    BY <1>4, <1>5 DEF Publication, t
  <2> QED  BY <1>2, <1>4, <2>1 DEF Published
<1>11. Distinct
  BY <1>2 DEF Distinct
<1>12. Placed
  BY <1>2, <1>7 DEF Placed, PlacedIn
<1>13. Dealt
  BY <1>2, <1>3, <1>6 DEF Dealt, t
<1>14. Orderly
  BY <1>3, <1>6, <1>7 DEF Orderly, OrderlyIn, t
<1>15. Named
  <2>1. Owns(world, declarations, f)
    BY <1>3, <1>4 DEF Owns, t
  <2> QED  BY <1>6, <1>7, <2>1 DEF Named
<1>16. Faultless
  <2> SUFFICES ASSUME errors = {}
               PROVE  /\ NamesIn(world[Root]) \cap Reserved = {}
                      /\ Bindings(world, declarations, emitted, f)
    BY <1>2, <1>5, <1>6, <1>7 DEF Faultless, FaultlessIn
  <2>1. NamesIn(t) \cap Reserved = {}
    BY <1>5, TextOperators DEF ReservedNames, NamesIn, t
  <2>2. Served(world, f) = {}
    BY <1>3 DEF Served, t
  <2> QED  BY <1>3, <2>1, <2>2 DEF Bindings, t
<1> QED  BY <1>8, <1>9, <1>10, <1>11, <1>12, <1>13, <1>14, <1>15, <1>16 DEF LoaderInv

\* A step that replaces the frame on the top by one a statement further on, and
\* may have reported something.
LEMMA Advance ==
  ASSUME LoaderInv, stack # <<>>, NEW g \in Frames, Placeable(world, g),
         g.path = Top.path, g.id = Top.id, g.at = Top.at + 1,
         \A k \in Uses(world[g.path]) : g.pending[k] = Top.pending[k],
         Owns(world, declarations, g),
         Top.at \in Uses(world[Top.path]) => Met(world, emitted', loading, Top.path, Top.at),
         errors' = {} => Bindings(world, declarations, emitted', g) /\ emitted' = emitted,
         errors \subseteq errors', emitted \subseteq emitted', emitted' \subseteq Path,
         ReadIn(world, emitted') = ReadIn(world, emitted),
         stack' = [stack EXCEPT ![Len(stack)] = g],
         world' = world, declarations' = declarations, loading' = loading,
         next_module' = next_module, output' = output
  PROVE  LoaderInv'
<1> DEFINE L == Len(stack)
           S == Spots(world, stack, output)
<1>1. /\ L \in Nat /\ L \in DOMAIN stack /\ DOMAIN stack = 1..L
      /\ Top \in Frames /\ Placeable(world, Top) /\ Top = stack[L]
      /\ Top.path \in Path /\ Top.at \in Nat /\ world \in Worlds /\ Top.id < next_module
      /\ world[Top.path] # Unreadable
  BY TopFacts DEF LoaderInv
<1>2. stack \in Seq(Frames)
  BY DEF LoaderInv, Typed
<1>3. /\ stack' \in Seq(Frames) /\ Len(stack') = L /\ DOMAIN stack' = DOMAIN stack
      /\ stack'[L] = g /\ \A j \in DOMAIN stack : j # L => stack'[j] = stack[j]
  BY <1>1, <1>2
<1>4. stack' # <<>>
  BY <1>1, <1>3
<1>5. /\ \A j \in DOMAIN stack : stack'[j].path = stack[j].path
      /\ \A j \in DOMAIN stack : \A k \in Uses(world[stack[j].path]) : stack'[j].pending[k] = stack[j].pending[k]
  BY <1>1, <1>3
<1> DEFINE st2 == stack'
           em2 == emitted'
<1>t. /\ world' = world /\ declarations' = declarations /\ loading' = loading
      /\ next_module' = next_module /\ output' = output /\ stack' = st2 /\ emitted' = em2
  OBVIOUS
<1>r. ReadIn(world, em2) = ReadIn(world, emitted)
      /\ FinishedIn(world, em2, loading) = FinishedIn(world, emitted, loading)
  BY DEF FinishedIn
<1> HIDE DEF S, L, st2, em2
<1>6. Spots(world, st2, output) = S /\ \A x \in S : Item(st2, output, x) = Item(stack, output, x)
  <2>0. /\ st2 # <<>> /\ DOMAIN st2 = DOMAIN stack
        /\ \A j \in DOMAIN stack : st2[j].path = stack[j].path
        /\ \A j \in DOMAIN stack : \A k \in Uses(world[stack[j].path]) : st2[j].pending[k] = stack[j].pending[k]
    BY ZenonT(40), <1>3, <1>4, <1>5, <1>t
  <2>1. Spots(world, st2, output) = S
    BY <2>0 DEF Spots, S
  <2>2. \A x \in S : x[1] \in DOMAIN stack /\ x[2] \in Uses(world[stack[x[1]].path])
    BY SpotParts DEF S
  <2> QED  BY <2>0, <2>1, <2>2 DEF Item
<1>7. Typed'
  <2>1. \A j \in DOMAIN stack : Placeable(world, st2[j]) /\ st2[j].id < next_module
    <3>1. \A j \in DOMAIN stack : Placeable(world, stack[j]) /\ stack[j].id < next_module
      BY DEF LoaderInv, Typed
    <3>2. st2[L] = g /\ \A j \in DOMAIN stack : j # L => st2[j] = stack[j]
      BY <1>3, <1>t
    <3> QED  BY <1>1, <3>1, <3>2
  <2> QED  BY <1>3, <1>4, <1>t, <1>r, <2>1 DEF LoaderInv, Typed
<1>8. Chained'
  <2>1. \A j \in DOMAIN stack : j < L => j # L
    BY <1>1
  <2>2. \A j \in DOMAIN stack : j < L => j + 1 \in DOMAIN stack
    BY <1>1
  <2>3. {st2[j].path : j \in DOMAIN st2} = {stack[j].path : j \in DOMAIN stack}
    <3>1. DOMAIN st2 = DOMAIN stack /\ \A j \in DOMAIN stack : st2[j].path = stack[j].path
      BY <1>3, <1>5, <1>t
    <3> QED  BY <3>1
  <2>4. ASSUME NEW j \in DOMAIN stack, j < L
        PROVE  st2[j] = stack[j] /\ st2[j + 1].path = stack[j + 1].path
    BY <1>3, <1>5, <1>t, <2>1, <2>2, <2>4
  <2> QED  BY <1>3, <1>5, <1>t, <2>3, <2>4 DEF LoaderInv, Chained, L
<1>9. Published' /\ Distinct'
  BY <1>t, <1>r DEF LoaderInv, Published, Distinct
<1>10. \A j \in DOMAIN st2 : \A k \in Uses(world[st2[j].path]) : k < st2[j].at =>
         \/ j \in DOMAIN stack /\ st2[j].path = stack[j].path /\ k < stack[j].at
         \/ j = L /\ k = Top.at /\ st2[j].path = Top.path
  <2> SUFFICES ASSUME NEW j \in DOMAIN stack, NEW k \in Uses(world[st2[j].path]), k < st2[j].at
               PROVE  \/ j \in DOMAIN stack /\ st2[j].path = stack[j].path /\ k < stack[j].at
                      \/ j = L /\ k = Top.at /\ st2[j].path = Top.path
    BY <1>3, <1>t
  <2>1. CASE j # L
    BY <1>3, <1>t, <2>1
  <2>2. CASE j = L
    <3>1. st2[j] = g /\ stack[j] = Top
      BY <1>1, <1>3, <1>t, <2>2
    <3>2. k \in Nat
      BY <1>1, <3>1, UseNat
    <3> QED  BY <1>1, <2>2, <3>1, <3>2
  <2> QED  BY <2>1, <2>2
<1>11. \A x \in S : x[1] < L \/ (x[1] = L /\ x[2] <= Top.at)
  <2> SUFFICES ASSUME NEW x \in S PROVE x[1] < L \/ (x[1] = L /\ x[2] <= Top.at)
    OBVIOUS
  <2>1. x[1] \in 1..L /\ x[2] \in Nat /\ x[2] \in Uses(world[stack[x[1]].path])
        /\ x[3] \in DOMAIN stack[x[1]].pending[x[2]]
    BY <1>1, SpotParts DEF S
  <2>2. CASE x[1] = L
    <3>1. ~(x[2] >= Top.at)
      BY <1>1, <2>1, <2>2 DEF Placeable
    <3> QED  BY <1>1, <2>1, <2>2, <3>1
  <2> QED  BY <1>1, <2>1, <2>2
<1>12. OrderlyIn(world, st2, output) /\ \A fin : PlacedIn(world, stack, output, fin) => PlacedIn(world, st2, output, fin)
  <2>1. Spots(world, st2, output) = Spots(world, stack, output)
        /\ \A x \in Spots(world, stack, output) : Item(st2, output, x) = Item(stack, output, x)
    BY <1>6 DEF S
  <2>2. \A j \in DOMAIN st2 : \A k \in Uses(world[st2[j].path]) : k < st2[j].at =>
          \/ j \in DOMAIN stack /\ st2[j].path = stack[j].path /\ k < stack[j].at
          \/ \A x \in Spots(world, stack, output) : x[1] < j \/ (x[1] = j /\ x[2] <= k)
    BY <1>10, <1>11 DEF S
  <2>3. OrderlyIn(world, stack, output)
    BY DEF LoaderInv, Orderly
  <2> QED  BY <2>1, <2>2, <2>3, Unmoved
<1>13. Placed' /\ Orderly'
  <2>1. PlacedIn(world, stack, output, FinishedIn(world, emitted, loading))
    BY DEF LoaderInv, Placed
  <2>2. PlacedIn(world, st2, output, FinishedIn(world, em2, loading))
    BY <1>12, <1>r, <2>1
  <2> QED  BY <1>12, <1>t, <2>2 DEF Placed, Orderly
<1>14. \A p, k : Met(world, emitted, loading, p, k) => Met(world, em2, loading, p, k)
  BY <1>t DEF Met
<1>15. Dealt'
  <2>1. \A p \in FinishedIn(world, em2, loading) : \A k \in Uses(world[p]) : Met(world, em2, loading, p, k)
    BY <1>14, <1>r DEF LoaderInv, Dealt
  <2>2. ASSUME NEW j \in DOMAIN st2, NEW k \in Uses(world[st2[j].path]), k < st2[j].at
        PROVE  Met(world, em2, loading, st2[j].path, k)
    <3>1. CASE j \in DOMAIN stack /\ st2[j].path = stack[j].path /\ k < stack[j].at
      BY <1>14, <2>2, <3>1 DEF LoaderInv, Dealt
    <3>2. CASE j = L /\ k = Top.at /\ st2[j].path = Top.path
      BY <1>t, <2>2, <3>2
    <3> QED  BY <1>10, <2>2, <3>1, <3>2
  <2> QED  BY <1>t, <2>1, <2>2 DEF Dealt
<1>16. Named'
  <2>1. \A j \in DOMAIN st2 : Owns(world, declarations, st2[j])
    BY <1>1, <1>3, <1>t DEF LoaderInv, Named
  <2>2. \A x \in S : Symbolic(world, declarations, Item(st2, output, x))
    BY <1>6 DEF LoaderInv, Named, S
  <2> QED  BY <1>6, <1>t, <2>1, <2>2 DEF Named
<1>17. Faultless'
  <2>1. CASE errors' = {}
    <3>1. /\ \A p \in ReadIn(world, emitted) : NamesIn(world[p]) \cap Reserved = {}
          /\ \A j \in DOMAIN stack : Bindings(world, declarations, emitted, stack[j])
          /\ \A p \in FinishedIn(world, emitted, loading) : \A k \in Uses(world[p]) : Granted(world, emitted, p, k)
          /\ \A x \in S : Resolved(world, declarations, Item(stack, output, x))
      BY <2>1 DEF LoaderInv, Faultless, FaultlessIn, S
    <3>2. \A p, k : Granted(world, emitted, p, k) => Granted(world, em2, p, k)
      BY <1>r DEF Granted
    <3>3. \A j \in DOMAIN st2 : Bindings(world, declarations, em2, st2[j])
      <4>1. \A f : Bindings(world, declarations, emitted, f) => Bindings(world, declarations, em2, f)
        BY <3>2 DEF Bindings
      <4>2. st2[L] = g /\ DOMAIN st2 = DOMAIN stack /\ \A j \in DOMAIN stack : j # L => st2[j] = stack[j]
        BY <1>3, <1>t
      <4>3. Bindings(world, declarations, em2, g)
        BY <1>t, <2>1
      <4> QED  BY <3>1, <4>1, <4>2, <4>3
    <3>4. \A x \in Spots(world, st2, output) : Resolved(world, declarations, Item(st2, output, x))
      BY <1>6, <3>1
    <3>5. \A p \in FinishedIn(world, em2, loading) : \A k \in Uses(world[p]) : Granted(world, em2, p, k)
      BY <1>r, <3>1, <3>2
    <3>6. \A p \in ReadIn(world, em2) : NamesIn(world[p]) \cap Reserved = {}
      BY <1>r, <3>1
    <3>8. em2 = ReadIn(world, em2)
      BY <1>t, <1>r, <2>1 DEF LoaderInv, Faultless, FaultlessIn
    <3>7. FaultlessIn(world, declarations, em2, loading, st2, output)
      BY <3>3, <3>4, <3>5, <3>6, <3>8 DEF FaultlessIn
    <3> QED  BY <1>t, <3>7 DEF Faultless
  <2> QED  BY <2>1 DEF Faultless
<1> QED  BY <1>7, <1>8, <1>9, <1>13, <1>15, <1>16, <1>17 DEF LoaderInv

LEMMA DeclareStep == ASSUME LoaderInv, Declare PROVE LoaderInv'
<1>1. /\ stack # <<>> /\ Top.at \in Decls(world[Top.path])
      /\ stack' = [stack EXCEPT ![Len(stack)] = Step(Top)]
      /\ world' = world /\ declarations' = declarations /\ loading' = loading /\ emitted' = emitted
      /\ next_module' = next_module /\ errors' = errors /\ output' = output
  BY TextOperators DEF Declare, Top
<1>2. /\ Top \in Frames /\ Placeable(world, Top) /\ Top.path \in Path /\ world \in Worlds
      /\ world[Top.path] # Unreadable /\ Top = stack[Len(stack)] /\ Len(stack) \in DOMAIN stack /\ Top.at \in Nat
  BY <1>1, TopFacts DEF LoaderInv
<1>3. /\ Len(world[Top.path]) \in Nat /\ Top.at \in 1..Len(world[Top.path])
      /\ Top.at \notin Uses(world[Top.path])
      /\ \A k \in Uses(world[Top.path]) : k \in Nat
  <2>1. Len(world[Top.path]) \in Nat /\ Top.at \in 1..Len(world[Top.path]) /\ Top.at \notin Uses(world[Top.path])
    <3> DEFINE u == world[Top.path]
    <3>1. /\ Len(u) \in Nat /\ DOMAIN u = 1..Len(u)
          /\ \A k \in Decls(u) : k \in DOMAIN u /\ k \notin Uses(u)
      BY <1>2, TextTyped
    <3>2. Top.at \in Decls(u)
      BY <1>1
    <3> HIDE DEF u
    <3>3. Len(u) \in Nat /\ Top.at \in 1..Len(u) /\ Top.at \notin Uses(u)
      BY <3>1, <3>2
    <3> QED  BY <3>3 DEF u
  <2> QED  BY <1>2, <2>1, UseNat
<1> DEFINE g == Step(Top)
<1>4. /\ g \in Frames /\ Placeable(world, g) /\ g.path = Top.path /\ g.id = Top.id /\ g.at = Top.at + 1
      /\ g.bindings = Top.bindings /\ g.pending = Top.pending
  BY <1>2, <1>3, StepFacts
<1> HIDE DEF g
<1>5. Owns(world, declarations, g)
  BY <1>1, <1>2, <1>4 DEF LoaderInv, Named, Owns
<1>6. errors' = {} => Bindings(world, declarations, emitted', g)
  <2>1. Served(world, g) = Served(world, Top)
    BY <1>2, <1>3, <1>4 DEF Served
  <2>2. errors = {} => Bindings(world, declarations, emitted, Top)
    BY <1>2 DEF LoaderInv, Faultless, FaultlessIn
  <2> QED  BY <1>1, <1>4, <2>1, <2>2 DEF Bindings
<1>7. emitted \subseteq Path
  BY DEF LoaderInv, Typed
<1>8. stack' = [stack EXCEPT ![Len(stack)] = g]
  BY <1>1 DEF g
<1> QED  BY <1>1, <1>3, <1>4, <1>5, <1>6, <1>7, <1>8, Advance

LEMMA NotFoundStep == ASSUME LoaderInv, NotFound PROVE LoaderInv'
<1>1. /\ stack # <<>> /\ Top.at \in Uses(world[Top.path]) /\ world[Top.path][Top.at].from = Missing
      /\ stack' = [stack EXCEPT ![Len(stack)] = Step(Top)]
      /\ world' = world /\ declarations' = declarations /\ loading' = loading /\ emitted' = emitted
      /\ next_module' = next_module /\ errors \subseteq errors' /\ errors' # {} /\ output' = output
  BY TextOperators DEF NotFound, Top, AtUsing, Stmts
<1>2. /\ Top \in Frames /\ Placeable(world, Top) /\ Top.path \in Path /\ world \in Worlds
      /\ world[Top.path] # Unreadable /\ Top = stack[Len(stack)] /\ Len(stack) \in DOMAIN stack
  BY <1>1, TopFacts DEF LoaderInv
<1>3. Len(world[Top.path]) \in Nat /\ Top.at \in 1..Len(world[Top.path])
  BY <1>1, <1>2, TextTyped
<1> DEFINE g == Step(Top)
<1>4. /\ g \in Frames /\ Placeable(world, g) /\ g.path = Top.path /\ g.id = Top.id /\ g.at = Top.at + 1
      /\ g.bindings = Top.bindings /\ g.pending = Top.pending
  BY <1>2, <1>3, StepFacts
<1> HIDE DEF g
<1>5. Owns(world, declarations, g)
  BY <1>1, <1>2, <1>4 DEF LoaderInv, Named, Owns
<1>6. Met(world, emitted', loading, Top.path, Top.at)
  BY <1>1 DEF Met
<1>7. emitted \subseteq Path
  BY DEF LoaderInv, Typed
<1>8. stack' = [stack EXCEPT ![Len(stack)] = g]
  BY <1>1 DEF g
<1> QED  BY <1>1, <1>4, <1>5, <1>6, <1>7, <1>8, Advance


\* The import on which the top of the stack stands.
LEMMA ImportFacts ==
  ASSUME LoaderInv, NEW p \in Path, Importing(p)
  PROVE  /\ stack # <<>> /\ Top.at \in Uses(world[Top.path]) /\ world[Top.path][Top.at].from = p
         /\ Top \in Frames /\ Placeable(world, Top) /\ Top.path \in Path /\ world \in Worlds
         /\ world[Top.path] # Unreadable /\ Typed /\ Published
         /\ Len(stack) \in DOMAIN stack /\ Len(stack) \in Nat /\ DOMAIN stack = 1..Len(stack)
         /\ Top = stack[Len(stack)]
<1>1. stack # <<>> /\ Top.at \in Uses(world[Top.path]) /\ world[Top.path][Top.at].from = p
  BY TextOperators DEF Importing, AtUsing, Stmts
<1>2. Typed /\ Published
  BY DEF LoaderInv
<1> QED  BY <1>1, <1>2, TopFacts

LEMMA BoundOwns ==
  ASSUME Typed, Published, NEW f \in Frames, Placeable(world, f),
         f.at \in Uses(world[f.path]), world[f.path][f.at].from \in Path,
         NEW s \in Seq(Statement), Owns(world, declarations, f)
  PROVE  Owns(world, declarations, Bound(f, s))
<1> DEFINE g == Bound(f, s)
<1>1. /\ g.path = f.path /\ DOMAIN f.bindings \subseteq DOMAIN g.bindings
      /\ \A n \in DOMAIN f.bindings : g.bindings[n] = f.bindings[n]
  BY BoundFacts
<1> HIDE DEF g
<1>2. Owns(world, declarations, g)
  BY <1>1 DEF Owns
<1> QED  BY <1>2 DEF g

\* What passing over an import that brings nothing makes of the top.
LEMMA PassedImport ==
  ASSUME LoaderInv, NEW p \in Path, Importing(p), NEW g, g = Bound(Top, <<>>)
  PROVE  /\ g \in Frames /\ Placeable(world, g)
         /\ g.path = Top.path /\ g.id = Top.id /\ g.at = Top.at + 1
         /\ \A k \in Uses(world[g.path]) : g.pending[k] = Top.pending[k]
         /\ Owns(world, declarations, g)
<1>1. /\ stack # <<>> /\ Top.at \in Uses(world[Top.path]) /\ world[Top.path][Top.at].from \in Path
      /\ Top \in Frames /\ Placeable(world, Top) /\ Typed /\ Published
      /\ Len(stack) \in DOMAIN stack /\ Top = stack[Len(stack)] /\ Top.at \in Nat
  <2>1. stack # <<>> /\ Top.at \in Uses(world[Top.path]) /\ world[Top.path][Top.at].from \in Path
        /\ Top \in Frames /\ Placeable(world, Top) /\ Typed /\ Published
        /\ Len(stack) \in DOMAIN stack /\ Top = stack[Len(stack)]
    BY ImportFacts
  <2> QED  BY <2>1, FrameParts
<1>2. <<>> \in Seq(Statement)
  OBVIOUS
<1>3. /\ g \in Frames /\ Placeable(world, g)
      /\ g.path = Top.path /\ g.id = Top.id /\ g.at = Top.at + 1
      /\ g.pending[Top.at] = <<>>
      /\ \A k \in Uses(world[Top.path]) : k # Top.at => g.pending[k] = Top.pending[k]
  <2> DEFINE f == Top
             e == <<>>
  <2>1. /\ f \in Frames /\ Placeable(world, f) /\ f.at \in Uses(world[f.path])
        /\ world[f.path][f.at].from \in Path /\ e \in Seq(Statement) /\ g = Bound(f, e)
    BY <1>1, <1>2
  <2> HIDE DEF f, e
  <2>2. /\ g \in Frames /\ Placeable(world, g)
        /\ g.path = f.path /\ g.id = f.id /\ g.at = f.at + 1
        /\ g.pending[f.at] = e
        /\ \A k \in Uses(world[f.path]) : k # f.at => g.pending[k] = f.pending[k]
    BY <1>1, <2>1, BoundFacts
  <2> QED  BY <2>2 DEF f, e
<1>4. Top.pending[Top.at] = <<>>
  <2>1. Top.at >= Top.at
    BY <1>1
  <2> QED  BY <1>1, <2>1 DEF Placeable
<1>5. Owns(world, declarations, Top)
  BY <1>1 DEF LoaderInv, Named
<1>6. Owns(world, declarations, g)
  BY <1>1, <1>2, <1>5, BoundOwns
<1> QED  BY <1>3, <1>4, <1>6

LEMMA SkipStep == ASSUME LoaderInv, Skip PROVE LoaderInv'
<1>1. PICK p \in Path : Importing(p) /\ Known(p)
  BY DEF Skip
<1> DEFINE g == Bound(Top, <<>>)
           L == Len(stack)
<1>2. /\ stack' = [stack EXCEPT ![L] = g]
      /\ world' = world /\ declarations' = declarations /\ loading' = loading /\ emitted' = emitted
      /\ next_module' = next_module /\ errors' = errors \cup Reports(Top) /\ output' = output
  BY DEF Skip, Return, Top
<1>3. /\ stack # <<>> /\ Top.at \in Uses(world[Top.path]) /\ world[Top.path][Top.at].from = p
      /\ Top \in Frames /\ Placeable(world, Top) /\ Typed /\ Published
      /\ L \in DOMAIN stack /\ L \in Nat /\ DOMAIN stack = 1..L /\ Top = stack[L]
  BY <1>1, ImportFacts
<1>4. /\ g \in Frames /\ Placeable(world, g)
      /\ g.path = Top.path /\ g.id = Top.id /\ g.at = Top.at + 1
      /\ \A k \in Uses(world[g.path]) : g.pending[k] = Top.pending[k]
      /\ Owns(world, declarations, g)
  BY <1>1, PassedImport
<1>5. loading \subseteq ReadIn(world, emitted) /\ emitted \subseteq Path
  BY DEF LoaderInv, Typed
<1>6. p \in emitted
  BY <1>1, <1>5 DEF Known, ReadIn
<1>7. p \in loading => Top.path \in ReachIn(world, p)
  <2> SUFFICES ASSUME p \in loading PROVE Top.path \in ReachIn(world, p)
    OBVIOUS
  <2>1. PICK i \in DOMAIN stack : stack[i].path = p
    BY DEF LoaderInv, Chained
  <2>2. i <= L
    BY <1>3
  <2>3. stack \in Seq(Frames) /\ \A j \in DOMAIN stack : world[stack[j].path] # Unreadable
    BY DEF LoaderInv, Typed, Placeable
  <2>4. \A j \in DOMAIN stack : j < Len(stack) =>
          /\ stack[j].at \in Uses(world[stack[j].path])
          /\ world[stack[j].path][stack[j].at].from = stack[j + 1].path
    BY DEF LoaderInv, Chained
  <2>5. stack[L].path \in ReachIn(world, stack[i].path)
    BY <1>3, <2>2, <2>3, <2>4, ReachChain
  <2> QED  BY <1>3, <2>1, <2>5
<1>8. Met(world, emitted', loading, Top.path, Top.at)
  BY <1>2, <1>3, <1>6, <1>7 DEF Met
<1>9. errors' = {} => Bindings(world, declarations, emitted', g) /\ emitted' = emitted
  <2> SUFFICES ASSUME errors' = {} PROVE Bindings(world, declarations, emitted', g)
    BY <1>2
  <2>1. errors = {} /\ Reports(Top) = {}
    BY <1>2
  <2>2. p \in ReadIn(world, emitted) /\ Bindings(world, declarations, emitted, Top)
    BY <1>3, <1>6, <2>1 DEF LoaderInv, Faultless, FaultlessIn
  <2>3. <<>> \in Seq(Statement)
    OBVIOUS
  <2>4. Bindings(world, declarations, emitted, g)
    BY <1>3, <2>1, <2>2, <2>3, BoundClean
  <2> QED  BY <1>2, <2>4
<1> HIDE DEF g
<1>10. errors \subseteq errors' /\ emitted \subseteq emitted' /\ emitted' \subseteq Path
       /\ ReadIn(world, emitted') = ReadIn(world, emitted)
  BY <1>2, <1>5
<1> QED  BY <1>2, <1>3, <1>4, <1>8, <1>9, <1>10, Advance

LEMMA FailToReadStep == ASSUME LoaderInv, FailToRead PROVE LoaderInv'
<1>1. PICK p \in Path :
        /\ Importing(p) /\ ~Known(p) /\ Text(p) = Unreadable
        /\ emitted' = emitted \cup {p}
        /\ errors' = errors \cup {ReportAt("unreadable", Top)} \cup Reports(Top)
        /\ stack' = [stack EXCEPT ![Len(stack)] = Bound(@, <<>>)]
        /\ world' = world /\ declarations' = declarations /\ loading' = loading
        /\ next_module' = next_module /\ output' = output
  BY DEF FailToRead
<1> DEFINE g == Bound(Top, <<>>)
<1>2. stack' = [stack EXCEPT ![Len(stack)] = g]
  BY <1>1 DEF Top
<1>3. stack # <<>> /\ Top.at \in Uses(world[Top.path]) /\ world[Top.path][Top.at].from = p
  BY <1>1, ImportFacts
<1>4. /\ g \in Frames /\ Placeable(world, g)
      /\ g.path = Top.path /\ g.id = Top.id /\ g.at = Top.at + 1
      /\ \A k \in Uses(world[g.path]) : g.pending[k] = Top.pending[k]
      /\ Owns(world, declarations, g)
  BY <1>1, PassedImport
<1> HIDE DEF g
<1>5. emitted \subseteq Path
  BY DEF LoaderInv, Typed
<1>6. Met(world, emitted', loading, Top.path, Top.at)
  BY <1>1, <1>3 DEF Met, Known
<1>7. errors \subseteq errors' /\ errors' # {} /\ emitted \subseteq emitted' /\ emitted' \subseteq Path
  BY <1>1, <1>5
<1>8. ReadIn(world, emitted') = ReadIn(world, emitted)
  BY <1>1, TextOperators DEF ReadIn
<1> QED  BY <1>1, <1>2, <1>3, <1>4, <1>6, <1>7, <1>8, Advance

\* The symbols of a module that is entered are those of no other.
LEMMA FreshSymbols ==
  ASSUME NEW id \in Nat, NEW next \in Nat, id < next,
         NEW n \in Name \ Reserved, NEW m \in Name \ Reserved
  PROVE  SymbolOf(id, n) # SymbolOf(next, m)
<1>1. SymbolOf(next, m) = <<"module", next, m>> /\ <<"module", next, m>> \in Generated
  BY DEF SymbolOf, Generated
<1>2. CASE id = 0
  BY <1>1, <1>2, LoaderAssumption DEF SymbolOf
<1>3. CASE id # 0
  BY <1>1, <1>3 DEF SymbolOf
<1> QED  BY <1>2, <1>3

LEMMA DescendStep == ASSUME LoaderInv, Descend PROVE LoaderInv'
<1>1. PICK p \in Path :
        /\ Importing(p) /\ ~Known(p) /\ Text(p) # Unreadable
        /\ emitted' = emitted \cup {p} /\ loading' = loading \cup {p}
        /\ declarations' = Publish(p, next_module)
        /\ next_module' = next_module + 1
        /\ errors' = errors \cup ReservedNames(p)
        /\ stack' = Append(stack, Frame(p, next_module))
        /\ world' = world /\ output' = output
  BY DEF Descend
<1> DEFINE h == Frame(p, next_module)
           L == Len(stack)
           S == Spots(world, stack, output)
           st2 == stack'
           em2 == emitted'
           lo2 == loading'
           d2 == declarations'
<1>2. /\ stack # <<>> /\ Top.at \in Uses(world[Top.path]) /\ world[Top.path][Top.at].from = p
      /\ world \in Worlds /\ Typed /\ Published
      /\ L \in DOMAIN stack /\ L \in Nat /\ DOMAIN stack = 1..L /\ Top = stack[L]
  BY <1>1, ImportFacts
<1>3. /\ p \notin loading /\ p \notin emitted /\ world[p] # Unreadable
      /\ next_module \in Nat /\ next_module # 0 /\ stack \in Seq(Frames)
      /\ loading \subseteq ReadIn(world, emitted) /\ emitted \subseteq Path
      /\ \A j \in DOMAIN stack : Placeable(world, stack[j]) /\ stack[j].id < next_module
      /\ output = None
  BY <1>1, <1>2, TextOperators DEF Known, Typed
<1>4. /\ h \in Frames /\ Placeable(world, h)
      /\ h.path = p /\ h.id = next_module /\ h.at = 1 /\ DOMAIN h.bindings = NamesIn(world[p])
      /\ \A n \in NamesIn(world[p]) : h.bindings[n] = SymbolOf(next_module, n)
      /\ \A k \in Uses(world[p]) : h.pending[k] = <<>>
      /\ \A k \in Uses(world[p]) : ~(k < h.at)
  BY <1>2, <1>3, FrameFacts
<1>5. /\ st2 \in Seq(Frames) /\ Len(st2) = L + 1 /\ DOMAIN st2 = 1..L + 1 /\ st2 # <<>>
      /\ st2[L + 1] = h /\ \A j \in DOMAIN stack : st2[j] = stack[j]
  BY <1>1, <1>2, <1>3, <1>4
<1>6. /\ d2[p] \in [NamesIn(world[p]) -> [symbol : Symbols, exported : BOOLEAN]]
      /\ \A n \in NamesIn(world[p]) :
           /\ d2[p][n].symbol = SymbolOf(next_module, n)
           /\ d2[p][n].exported <=> n \in ExportsIn(world[p])
      /\ DOMAIN d2 = Path /\ \A q \in Path : q # p => d2[q] = declarations[q]
  <2>1. DOMAIN declarations = Path
    BY <1>2 DEF Published
  <2>2. d2[p] = Own(p, next_module) /\ DOMAIN d2 = Path /\ \A q \in Path : q # p => d2[q] = declarations[q]
    BY <1>1, <2>1 DEF Publish
  <2>3. /\ Own(p, next_module) \in [NamesIn(world[p]) -> [symbol : Symbols, exported : BOOLEAN]]
        /\ \A n \in NamesIn(world[p]) :
             /\ Own(p, next_module)[n].symbol = SymbolOf(next_module, n)
             /\ Own(p, next_module)[n].exported <=> n \in ExportsIn(world[p])
    BY <1>2, <1>3, OwnFacts
  <2> QED  BY <2>2, <2>3
<1>t. /\ world' = world /\ declarations' = d2 /\ loading' = lo2 /\ stack' = st2 /\ emitted' = em2
      /\ next_module' = next_module + 1 /\ output' = output /\ errors' = errors \cup ReservedNames(p)
  BY <1>1
<1>7. em2 = emitted \cup {p} /\ lo2 = loading \cup {p}
  BY <1>1
<1> HIDE DEF h, L, S, st2, em2, lo2, d2
<1>8. ReadIn(world, em2) = ReadIn(world, emitted) \cup {p} /\ p \notin ReadIn(world, emitted)
      /\ FinishedIn(world, em2, lo2) = FinishedIn(world, emitted, loading)
      /\ FinishedIn(world, emitted, loading) \subseteq ReadIn(world, emitted)
      /\ ReadIn(world, emitted) \subseteq Path
  BY <1>3, <1>7 DEF ReadIn, FinishedIn
<1>9. \A j \in DOMAIN st2 : (j \in DOMAIN stack /\ j # L + 1 /\ st2[j] = stack[j]) \/ (j = L + 1 /\ st2[j] = h)
  BY <1>2, <1>5
<1>10. \A j \in DOMAIN stack : j \in DOMAIN st2
  BY <1>2, <1>5
<1>11. Spots(world, st2, output) = S /\ \A x \in S : Item(st2, output, x) = Item(stack, output, x)
  <2>1. Spots(world, st2, output) = S
    BY <1>2, <1>4, <1>5, <1>9, <1>10 DEF Spots, S
  <2>2. \A x \in S : x[1] \in DOMAIN stack
    BY <1>2, SpotParts DEF S
  <2> QED  BY <1>2, <1>5, <2>1, <2>2 DEF Item
<1>12. Typed'
  <2>1. \A j \in DOMAIN st2 : Placeable(world, st2[j]) /\ st2[j].id < next_module + 1
    <3>1. \A j \in DOMAIN stack : stack[j].id < next_module + 1
      <4>1. \A j \in DOMAIN stack : stack[j] \in Frames
        BY <1>3
      <4>2. \A j \in DOMAIN stack : stack[j].id \in Nat
        BY <4>1, FrameParts
      <4> QED  BY <1>3, <4>2
    <3>2. h.id < next_module + 1
      BY <1>3, <1>4
    <3> QED  BY <1>3, <1>4, <1>9, <3>1, <3>2
  <2>2. lo2 \subseteq ReadIn(world, em2) /\ em2 \subseteq Path /\ next_module + 1 \in Nat \ {0}
    <3>1. lo2 \subseteq ReadIn(world, em2) /\ em2 \subseteq Path
      BY <1>3, <1>7, <1>8
    <3>2. next_module + 1 \in Nat \ {0}
      BY <1>3
    <3> QED  BY <3>1, <3>2
  <2> QED  BY <1>2, <1>3, <1>5, <1>t, <2>1, <2>2 DEF Typed
<1>13. Chained'
  <2>1. /\ loading = {stack[j].path : j \in DOMAIN stack}
        /\ \A i, j \in DOMAIN stack : stack[i].path = stack[j].path => i = j
        /\ \A j \in DOMAIN stack : j < L =>
             /\ stack[j].at \in Uses(world[stack[j].path])
             /\ world[stack[j].path][stack[j].at].from = stack[j + 1].path
    BY DEF LoaderInv, Chained, L
  <2>2. lo2 = {st2[j].path : j \in DOMAIN st2}
    <3>1. L + 1 \in DOMAIN st2
      BY <1>2, <1>5
    <3> QED  BY <1>4, <1>5, <1>7, <1>9, <1>10, <2>1, <3>1
  <2>3. ASSUME NEW i \in DOMAIN st2, NEW j \in DOMAIN st2, st2[i].path = st2[j].path PROVE i = j
    BY <1>3, <1>4, <1>9, <2>1, <2>3
  <2>4. ASSUME NEW j \in DOMAIN st2, j < L + 1
        PROVE  /\ st2[j].at \in Uses(world[st2[j].path])
               /\ world[st2[j].path][st2[j].at].from = st2[j + 1].path
    <3>1. j \in DOMAIN stack /\ st2[j] = stack[j]
      BY <1>2, <1>9, <2>4
    <3>2. CASE j = L
      BY <1>2, <1>4, <1>5, <3>1, <3>2
    <3>3. CASE j # L
      <4>1. j < L /\ j + 1 \in DOMAIN stack
        BY <1>2, <3>1, <3>3
      <4>2. st2[j + 1] = stack[j + 1]
        BY <1>5, <4>1
      <4> QED  BY <2>1, <3>1, <4>1, <4>2
    <3> QED  BY <3>2, <3>3
  <2> QED  BY <1>5, <1>t, <2>2, <2>3, <2>4 DEF Chained
<1>14. Published'
  <2>1. Publication(world, d2, next_module + 1, p)
    <3>1. next_module < next_module + 1
      BY <1>3
    <3> QED  BY <1>3, <1>6, <3>1 DEF Publication
  <2>2. ASSUME NEW q \in ReadIn(world, emitted) PROVE Publication(world, d2, next_module + 1, q)
    <3>1. Publication(world, declarations, next_module, q) /\ d2[q] = declarations[q]
      BY <1>2, <1>6, <1>8 DEF Published
    <3>2. \A id \in Nat : id < next_module => id < next_module + 1
      BY <1>3
    <3> QED  BY <3>1, <3>2 DEF Publication
  <2>3. \A q \in Path \ ReadIn(world, em2) : d2[q] = None
    BY <1>2, <1>6, <1>8 DEF Published
  <2> QED  BY <1>6, <1>8, <1>t, <2>1, <2>2, <2>3 DEF Published
<1>15. Distinct'
  <2>1. ASSUME NEW q \in ReadIn(world, emitted),
               NEW n \in NamesIn(world[q]) \ Reserved, NEW m \in NamesIn(world[p]) \ Reserved
        PROVE  d2[q][n].symbol # d2[p][m].symbol
    <3>1. q \in Path /\ world[q] # Unreadable /\ d2[q] = declarations[q]
      BY <1>6, <1>8 DEF ReadIn
    <3>2. n \in Name \ Reserved /\ m \in Name \ Reserved
      BY <1>2, <1>3, <3>1, TextTyped
    <3>3. PICK id \in Nat : id < next_module /\ declarations[q][n].symbol = SymbolOf(id, n)
      BY <1>2 DEF Published, Publication
    <3> QED  BY <1>3, <1>6, <3>1, <3>2, <3>3, FreshSymbols
  <2>2. ASSUME NEW q \in ReadIn(world, em2), NEW r \in ReadIn(world, em2), q # r,
               NEW n \in NamesIn(world[q]) \ Reserved, NEW m \in NamesIn(world[r]) \ Reserved
        PROVE  d2[q][n].symbol # d2[r][m].symbol
    <3>1. CASE q = p
      BY <1>8, <2>1, <2>2, <3>1
    <3>2. CASE r = p
      BY <1>8, <2>1, <2>2, <3>2
    <3>3. CASE q # p /\ r # p
      BY <1>6, <1>8, <2>2, <3>3 DEF LoaderInv, Distinct
    <3> QED  BY <3>1, <3>2, <3>3
  <2> QED  BY <1>t, <2>2 DEF Distinct
<1>16. OrderlyIn(world, st2, output) /\ \A fin : PlacedIn(world, stack, output, fin) => PlacedIn(world, st2, output, fin)
  <2>1. Spots(world, st2, output) = Spots(world, stack, output)
        /\ \A x \in Spots(world, stack, output) : Item(st2, output, x) = Item(stack, output, x)
    BY <1>11 DEF S
  <2>2. \A j \in DOMAIN st2 : \A k \in Uses(world[st2[j].path]) : k < st2[j].at =>
          \/ j \in DOMAIN stack /\ st2[j].path = stack[j].path /\ k < stack[j].at
          \/ \A x \in Spots(world, stack, output) : x[1] < j \/ (x[1] = j /\ x[2] <= k)
    BY <1>4, <1>9
  <2>3. OrderlyIn(world, stack, output)
    BY DEF LoaderInv, Orderly
  <2> QED  BY <2>1, <2>2, <2>3, Unmoved
<1>17. Placed' /\ Orderly'
  <2>1. PlacedIn(world, stack, output, FinishedIn(world, emitted, loading))
    BY DEF LoaderInv, Placed
  <2>2. PlacedIn(world, st2, output, FinishedIn(world, em2, lo2))
    BY <1>8, <1>16, <2>1
  <2> QED  BY <1>16, <1>t, <2>2 DEF Placed, Orderly
<1>18. Dealt'
  <2>1. \A q, k : Met(world, emitted, loading, q, k) => Met(world, em2, lo2, q, k)
    BY <1>3, <1>7 DEF Met
  <2>2. \A q \in FinishedIn(world, em2, lo2) : \A k \in Uses(world[q]) : Met(world, em2, lo2, q, k)
    BY <1>8, <2>1 DEF LoaderInv, Dealt
  <2>3. ASSUME NEW j \in DOMAIN st2, NEW k \in Uses(world[st2[j].path]), k < st2[j].at
        PROVE  Met(world, em2, lo2, st2[j].path, k)
    <3>1. j \in DOMAIN stack /\ st2[j] = stack[j]
      BY <1>4, <1>9, <2>3
    <3> QED  BY <2>1, <2>3, <3>1 DEF LoaderInv, Dealt
  <2> QED  BY <1>t, <2>2, <2>3 DEF Dealt
<1>19. \A x \in S : Item(stack, output, x).path \in FinishedIn(world, emitted, loading)
  BY DEF LoaderInv, Placed, PlacedIn, S
<1>20. Named'
  <2>1. ASSUME NEW j \in DOMAIN st2 PROVE Owns(world, d2, st2[j])
    <3>1. CASE j \in DOMAIN stack /\ st2[j] = stack[j]
      <4>1. Owns(world, declarations, stack[j]) /\ stack[j].path \in loading
        BY <3>1 DEF LoaderInv, Named, Chained
      <4>2. d2[stack[j].path] = declarations[stack[j].path]
        BY <1>3, <1>6, <1>8, <4>1
      <4> QED  BY <3>1, <4>1, <4>2 DEF Owns
    <3>2. CASE st2[j] = h
      BY <1>4, <1>6, <3>2 DEF Owns
    <3> QED  BY <1>9, <3>1, <3>2
  <2>2. ASSUME NEW x \in S PROVE Symbolic(world, d2, Item(st2, output, x))
    <3>1. Symbolic(world, declarations, Item(stack, output, x))
      BY DEF LoaderInv, Named, S
    <3>2. d2[Item(stack, output, x).path] = declarations[Item(stack, output, x).path]
      BY <1>6, <1>8, <1>19
    <3> QED  BY <1>11, <3>1, <3>2 DEF Symbolic
  <2> QED  BY <1>11, <1>t, <2>1, <2>2 DEF Named
<1>21. Faultless'
  <2>1. CASE errors' = {}
    <3>1. FaultlessIn(world, declarations, emitted, loading, stack, output) /\ ReservedNames(p) = {}
      BY <1>t, <2>1 DEF LoaderInv, Faultless
    <3>2. /\ \A q \in ReadIn(world, emitted) : NamesIn(world[q]) \cap Reserved = {}
          /\ emitted = ReadIn(world, emitted)
          /\ \A j \in DOMAIN stack : Bindings(world, declarations, emitted, stack[j])
          /\ \A q \in FinishedIn(world, emitted, loading) : \A k \in Uses(world[q]) : Granted(world, emitted, q, k)
          /\ \A x \in S : Resolved(world, declarations, Item(stack, output, x))
      BY <3>1 DEF FaultlessIn, S
    <3>3. \A q, k : Granted(world, emitted, q, k) =>
            Granted(world, em2, q, k) /\ d2[world[q][k].from] = declarations[world[q][k].from]
      BY <1>6, <1>8 DEF Granted
    <3>4. NamesIn(world[p]) \cap Reserved = {}
      BY <3>1, TextOperators DEF ReservedNames, NamesIn
    <3>5. \A j \in DOMAIN stack : Bindings(world, d2, em2, stack[j])
      BY <3>2, <3>3 DEF Bindings
    <3>6. Bindings(world, d2, em2, h)
      <4>1. Served(world, h) = {}
        BY <1>4 DEF Served
      <4> QED  BY <1>4, <4>1 DEF Bindings
    <3>7. ASSUME NEW x \in S PROVE Resolved(world, d2, Item(st2, output, x))
      <4> DEFINE s == Item(stack, output, x)
      <4>1. s.path \in FinishedIn(world, emitted, loading) /\ Resolved(world, declarations, s)
        BY <1>19, <3>2
      <4>2. d2[s.path] = declarations[s.path]
        BY <1>6, <1>8, <4>1
      <4>3. \A k \in Uses(world[s.path]) : d2[world[s.path][k].from] = declarations[world[s.path][k].from]
        BY <3>2, <3>3, <4>1
      <4> HIDE DEF s
      <4>4. \A n : MeaningIn(world, d2, s.path, n) = MeaningIn(world, declarations, s.path, n)
        BY <4>2, <4>3 DEF MeaningIn
      <4>5. Resolved(world, d2, s)
        BY <4>1, <4>4 DEF Resolved
      <4> QED  BY <1>11, <4>5 DEF s
    <3>8. FaultlessIn(world, d2, em2, lo2, st2, output)
      <4>1. \A q \in ReadIn(world, em2) : NamesIn(world[q]) \cap Reserved = {}
        BY <1>8, <3>2, <3>4
      <4>2. em2 = ReadIn(world, em2)
        BY <1>7, <1>8, <3>2
      <4>3. \A j \in DOMAIN st2 : Bindings(world, d2, em2, st2[j])
        BY <1>9, <3>5, <3>6
      <4>4. \A q \in FinishedIn(world, em2, lo2) : \A k \in Uses(world[q]) : Granted(world, em2, q, k)
        BY <1>8, <3>2, <3>3
      <4>5. \A x \in Spots(world, st2, output) : Resolved(world, d2, Item(st2, output, x))
        BY <1>11, <3>7
      <4> QED  BY <4>1, <4>2, <4>3, <4>4, <4>5 DEF FaultlessIn
    <3> QED  BY <1>t, <3>8 DEF Faultless
  <2> QED  BY <2>1 DEF Faultless
<1> QED  BY <1>12, <1>13, <1>14, <1>15, <1>17, <1>18, <1>20, <1>21 DEF LoaderInv

\* At the end of a module its statements get the symbols that the text means.
LEMMA EntrySound ==
  ASSUME NEW w \in Worlds, NEW d, NEW em, NEW f \in Frames, Placeable(w, f), f.at > Len(w[f.path]),
         Owns(w, d, f), NEW k \in Decls(w[f.path]), NEW s, s = EntryOf(w[f.path], f, k)
  PROVE  Symbolic(w, d, s) /\ (Bindings(w, d, em, f) => Resolved(w, d, s))
<1> DEFINE t == w[f.path]
<1>1. f.path \in Path /\ t # Unreadable /\ f.id \in Nat /\ f.at \in Nat
  BY FrameParts DEF Placeable
<1>2. /\ Len(t) \in Nat /\ DOMAIN t = 1..Len(t) /\ t[k].refs \in SUBSET Name
      /\ \A i \in Uses(t) : i \in DOMAIN t
  BY <1>1, TextTyped
<1>3. /\ s.path = f.path /\ s.at = k /\ s.symbol = Global(f, t[k].name)
      /\ s.refs = [n \in t[k].refs |-> Global(f, n)]
  BY EntryParts
<1>4. t[k].name \in NamesIn(t)
  BY DEF NamesIn
<1>5. Symbolic(w, d, s)
  BY <1>3, <1>4 DEF Symbolic, Owns, Global
<1>6. Served(w, f) = Uses(t)
  <2>1. \A i \in 1..Len(t) : i < f.at
    BY <1>1, <1>2
  <2> QED  BY <1>2, <2>1 DEF Served
<1>7. ASSUME Bindings(w, d, em, f), NEW n \in t[k].refs
      PROVE  /\ MeaningIn(w, d, f.path, n) \subseteq {s.refs[n]}
             /\ MeaningIn(w, d, f.path, n) = {} =>
                  IF n \in Prelude THEN s.refs[n] = n
                  ELSE s.refs[n] \in {"hidden"} \X Nat \X Name
  <2>1. s.refs[n] = Global(f, n) /\ n \in Name
    BY <1>2, <1>3
  <2>2. ASSUME NEW m \in MeaningIn(w, d, f.path, n) PROVE m = s.refs[n]
    <3>1. CASE n \in NamesIn(t) /\ m = d[f.path][n].symbol
      BY <2>1, <3>1 DEF Owns, Global
    <3>2. CASE \E i \in Uses(t) : n \in ToSet(t[i].names) /\ m = d[t[i].from][n].symbol
      <4>1. PICK i \in Uses(t) : n \in ToSet(t[i].names) /\ m = d[t[i].from][n].symbol
        BY <3>2
      <4>2. n \in DOMAIN f.bindings /\ f.bindings[n] = m
        BY <1>6, <1>7, <4>1 DEF Bindings
      <4> QED  BY <2>1, <4>2 DEF Global
    <3> QED  BY <2>2, <3>1, <3>2 DEF MeaningIn
  <2>3. ASSUME MeaningIn(w, d, f.path, n) = {} PROVE n \notin DOMAIN f.bindings
    <3>1. n \notin NamesIn(t) /\ \A i \in Uses(t) : n \notin ToSet(t[i].names)
      BY <2>3 DEF MeaningIn
    <3> QED  BY <1>6, <1>7, <3>1 DEF Bindings
  <2>4. ASSUME MeaningIn(w, d, f.path, n) = {}
        PROVE  IF n \in Prelude THEN s.refs[n] = n ELSE s.refs[n] \in {"hidden"} \X Nat \X Name
    BY <1>1, <2>1, <2>3, <2>4 DEF Global, Hidden
  <2> QED  BY <2>2, <2>4
<1>8. ASSUME Bindings(w, d, em, f) PROVE Resolved(w, d, s)
  <2>1. DOMAIN s.refs = t[k].refs
    BY <1>3
  <2> QED  BY <1>3, <1>7, <1>8, <2>1 DEF Resolved
<1> QED  BY <1>5, <1>8

\* The statements s of the unit on the top go to the place <<to, a>>, of the frame
\* below or of the output.
Ends(s, st2, out2, to, a) ==
  /\ st2 \in Seq(Frames) /\ Len(st2) = Len(stack) - 1
  /\ IF st2 = <<>> THEN out2 \in Seq(Statement) ELSE out2 = None
  /\ \A j \in DOMAIN st2 :
       /\ Placeable(world, st2[j]) /\ st2[j].path = stack[j].path /\ st2[j].id = stack[j].id
       /\ Owns(world, declarations, st2[j])
       /\ j < Len(st2) => st2[j].at = stack[j].at
       /\ \A k \in Uses(world[stack[j].path]) : k < st2[j].at => k < stack[j].at \/ (j = to /\ k = a)
       /\ j = to => world[stack[j].path][a].from = Top.path
  /\ \A y : y \in Spots(world, st2, out2) <=>
              \/ y \in Spots(world, stack, output) /\ y[1] < Len(stack)
              \/ \E i \in DOMAIN s : y = <<to, a, i>>
  /\ \A y \in Spots(world, stack, output) : y[1] < Len(stack) =>
       /\ Item(st2, out2, y) = Item(stack, output, y)
       /\ y[1] < to \/ (y[1] = to /\ y[2] < a)
  /\ \A i \in DOMAIN s : Item(st2, out2, <<to, a, i>>) = s[i]

LEMMA Finish ==
  ASSUME LoaderInv, AtEnd,
         NEW s, s = Assemble(Top), NEW st2, NEW out2, NEW to \in Nat, NEW a \in Nat,
         stack' = st2, output' = out2, loading' = loading \ {Top.path}, errors \subseteq errors',
         world' = world, declarations' = declarations, emitted' = emitted, next_module' = next_module,
         Ends(s, st2, out2, to, a),
         errors' = {} => \A j \in DOMAIN st2 : Bindings(world, declarations, emitted, st2[j])
  PROVE  LoaderInv'
<1> DEFINE t == world[Top.path]
           L == Len(stack)
           S == Spots(world, stack, output)
           S2 == Spots(world, st2, out2)
           fin == FinishedIn(world, emitted, loading)
           lo2 == loading \ {Top.path}
<1>1. /\ L \in Nat /\ L \in DOMAIN stack /\ DOMAIN stack = 1..L /\ stack # <<>>
      /\ Top \in Frames /\ Placeable(world, Top) /\ Top = stack[L]
      /\ Top.path \in Path /\ world[Top.path] # Unreadable
      /\ Top.at \in Nat /\ world \in Worlds /\ Top.at > Len(t)
  BY TopFacts, TextOperators DEF LoaderInv, AtEnd, Stmts
<1>2. /\ stack \in Seq(Frames) /\ loading \subseteq ReadIn(world, emitted) /\ emitted \subseteq Path
      /\ next_module \in Nat \ {0}
      /\ \A j \in DOMAIN stack : Placeable(world, stack[j]) /\ stack[j].id < next_module
  BY DEF LoaderInv, Typed
<1>3. /\ loading = {stack[j].path : j \in DOMAIN stack}
      /\ \A i, j \in DOMAIN stack : stack[i].path = stack[j].path => i = j
      /\ \A j \in DOMAIN stack : j < L =>
           /\ stack[j].at \in Uses(world[stack[j].path])
           /\ world[stack[j].path][stack[j].at].from = stack[j + 1].path
  BY DEF LoaderInv, Chained
<1>4. /\ Len(t) \in Nat /\ DOMAIN t = 1..Len(t)
      /\ \A k \in Uses(t) : k \in DOMAIN t
  BY <1>1, TextTyped
<1>5. Top.path \in loading /\ Top.path \in emitted /\ Top.path \notin fin
      /\ FinishedIn(world, emitted, lo2) = fin \cup {Top.path} /\ lo2 \subseteq loading
  <2>1. Top.path \in loading
    BY <1>1, <1>3
  <2> QED  BY <1>2, <2>1 DEF FinishedIn, ReadIn
<1>6. \A j \in DOMAIN st2 : j \in DOMAIN stack /\ j < L /\ j # L /\ j \in 1..L - 1
  BY <1>1 DEF Ends
<1>7. \A j \in 1..L - 1 : j \in DOMAIN st2
  BY <1>1 DEF Ends
<1>8. /\ st2 \in Seq(Frames) /\ Len(st2) = L - 1
      /\ IF st2 = <<>> THEN out2 \in Seq(Statement) ELSE out2 = None
      /\ \A j \in DOMAIN st2 :
           /\ Placeable(world, st2[j]) /\ st2[j].path = stack[j].path /\ st2[j].id = stack[j].id
           /\ Owns(world, declarations, st2[j])
           /\ j < L - 1 => st2[j].at = stack[j].at
           /\ \A k \in Uses(world[stack[j].path]) : k < st2[j].at => k < stack[j].at \/ (j = to /\ k = a)
           /\ j = to => world[stack[j].path][a].from = Top.path
  BY DEF Ends
<1>9. PICK mv, fr : Carried(world, stack, output, st2, out2, Top, to, a, mv, fr)
  <2>1. s = FlattenSeq(PartsOf(world[Top.path], Top))
    BY AssembleIs
  <2>2. PICK off : Layout(world[Top.path], Top, off, s)
    BY <1>1, <2>1, Assembled
  <2>3. \A j \in DOMAIN stack : Placeable(world, stack[j])
    BY <1>2
  <2>4. /\ \A y : y \in Spots(world, st2, out2) <=>
                  \/ y \in Spots(world, stack, output) /\ y[1] < Len(stack)
                  \/ \E i \in DOMAIN s : y = <<to, a, i>>
        /\ \A y \in Spots(world, stack, output) : y[1] < Len(stack) => Item(st2, out2, y) = Item(stack, output, y)
        /\ \A i \in DOMAIN s : Item(st2, out2, <<to, a, i>>) = s[i]
        /\ \A y \in Spots(world, stack, output) : y[1] < Len(stack) => y[1] < to \/ (y[1] = to /\ y[2] < a)
    BY DEF Ends
  <2>5. /\ world \in Worlds /\ stack \in Seq(Frames) /\ stack # <<>> /\ Top = stack[Len(stack)]
        /\ to \in Nat /\ a \in Nat
    BY <1>1, <1>2
  <2> HIDE DEF S, S2, fin, lo2, t, L
  <2> QED  BY ONLY <2>2, <2>3, <2>4, <2>5, Carrying
<1>10. /\ \A x \in S : mv[x] \in S2 /\ Item(st2, out2, mv[x]) = Item(stack, output, x)
       /\ \A k \in Decls(t) : fr[k] \in S2 /\ Item(st2, out2, fr[k]) = EntryOf(t, Top, k)
       /\ \A y \in S2 : (\E x \in S : y = mv[x]) \/ (\E k \in Decls(t) : y = fr[k])
  BY <1>9 DEF Carried
<1>t. /\ world' = world /\ declarations' = declarations /\ loading' = lo2 /\ stack' = st2 /\ emitted' = emitted
      /\ next_module' = next_module /\ output' = out2
  OBVIOUS
<1>e. errors' = {} => errors = {} /\ \A j \in DOMAIN st2 : Bindings(world, declarations, emitted, st2[j])
  OBVIOUS
<1> HIDE DEF t, L, S, S2, fin, lo2
<1>11. Typed'
  <2>1. lo2 \subseteq ReadIn(world, emitted)
    BY <1>2, <1>5
  <2>2. \A j \in DOMAIN st2 : Placeable(world, st2[j]) /\ st2[j].id < next_module
    BY <1>2, <1>6, <1>8
  <2> QED  BY <1>1, <1>2, <1>8, <1>t, <2>1, <2>2 DEF Typed
<1>12. Chained'
  <2>1. lo2 = {st2[j].path : j \in DOMAIN st2}
    <3>1. ASSUME NEW p \in lo2 PROVE \E j \in DOMAIN st2 : p = st2[j].path
      <4>1. PICK j \in DOMAIN stack : p = stack[j].path
        BY <1>3, <3>1 DEF lo2
      <4>2. j # L
        BY <1>1, <3>1, <4>1 DEF lo2
      <4>3. j \in 1..L - 1
        BY <1>1, <4>2
      <4> QED  BY <1>7, <1>8, <4>1, <4>3
    <3>2. ASSUME NEW j \in DOMAIN st2 PROVE st2[j].path \in lo2
      <4>1. st2[j].path = stack[j].path /\ j \in DOMAIN stack /\ j # L
        BY <1>6, <1>8
      <4>2. stack[j].path # Top.path
        BY <1>1, <1>3, <4>1
      <4> QED  BY <1>3, <4>1, <4>2 DEF lo2
    <3> QED  BY <3>1, <3>2
  <2>2. ASSUME NEW i \in DOMAIN st2, NEW j \in DOMAIN st2, st2[i].path = st2[j].path PROVE i = j
    BY <1>3, <1>6, <1>8, <2>2
  <2>3. ASSUME NEW j \in DOMAIN st2, j < L - 1
        PROVE  /\ st2[j].at \in Uses(world[st2[j].path])
               /\ world[st2[j].path][st2[j].at].from = st2[j + 1].path
    <3>1. j + 1 \in DOMAIN st2
      BY <1>1, <1>6, <1>7, <2>3
    <3> QED  BY <1>3, <1>6, <1>8, <2>3, <3>1
  <2> QED  BY <1>8, <1>t, <2>1, <2>2, <2>3 DEF Chained
<1>13. Published' /\ Distinct'
  BY <1>t DEF LoaderInv, Published, Distinct
<1>14. /\ \A p \in fin : \A k \in Uses(world[p]) : Met(world, emitted, loading, p, k)
       /\ \A j \in DOMAIN stack : \A k \in Uses(world[stack[j].path]) :
            k < stack[j].at => Met(world, emitted, loading, stack[j].path, k)
  BY DEF LoaderInv, Dealt, fin
<1>15. Placed' /\ Orderly'
  <2>1. ASSUME NEW p, NEW k, Met(world, emitted, loading, p, k), world[p][k].from = Top.path
        PROVE  p \in ReachIn(world, Top.path)
    BY <1>1, <1>5, <2>1, LoaderAssumption DEF Met
  <2>2. \A p \in fin : \A k \in Uses(world[p]) : world[p][k].from = Top.path => p \in ReachIn(world, Top.path)
    BY <1>14, <2>1
  <2>3. \A j \in DOMAIN stack : \A k \in Uses(world[stack[j].path]) :
          k < stack[j].at /\ world[stack[j].path][k].from = Top.path => stack[j].path \in ReachIn(world, Top.path)
    BY <1>14, <2>1
  <2>4. PlacedIn(world, stack, output, fin) /\ OrderlyIn(world, stack, output)
    BY DEF LoaderInv, Placed, Orderly, fin
  <2>5. \A j \in DOMAIN st2 :
           /\ j \in DOMAIN stack /\ j < Len(stack) /\ st2[j].path = stack[j].path
           /\ \A k \in Uses(world[stack[j].path]) : k < st2[j].at => k < stack[j].at \/ (j = to /\ k = a)
    BY <1>6, <1>8 DEF L
  <2>6. \A j \in DOMAIN stack : Placeable(world, stack[j])
    BY <1>2
  <2>7. Top = stack[Len(stack)] /\ Top.at > Len(world[Top.path])
    BY <1>1 DEF L, t
  <2>8. PlacedIn(world, st2, out2, fin \cup {Top.path}) /\ OrderlyIn(world, st2, out2)
    <3>1. world \in Worlds /\ stack \in Seq(Frames) /\ stack # <<>> /\ Top.path \notin fin
      BY <1>1, <1>2, <1>5
    <3>2. Closing(world, stack, st2, Top, to, a, fin)
      BY ONLY <2>2, <2>3, <2>5, <2>7, <3>1 DEF Closing
    <3> QED  BY ONLY <1>9, <2>4, <2>6, <3>1, <3>2, FinishPlaces
  <2> QED  BY <1>5, <1>t, <2>8 DEF Placed, Orderly
<1>16. \A k \in Uses(t) : k < Top.at
  <2>1. \A k \in 1..Len(t) : k < Top.at
    BY <1>1, <1>4
  <2> QED  BY <1>4, <2>1
<1>17. Dealt'
  <2>1. \A p, k : Met(world, emitted, loading, p, k) => Met(world, emitted, lo2, p, k)
    BY <1>5 DEF Met
  <2>2. ASSUME NEW p \in fin \cup {Top.path}, NEW k \in Uses(world[p]) PROVE Met(world, emitted, lo2, p, k)
    <3>1. CASE p \in fin
      BY <1>14, <2>1, <3>1
    <3>2. CASE p = Top.path
      <4>1. L \in DOMAIN stack /\ stack[L].path = p /\ k \in Uses(world[stack[L].path]) /\ k < stack[L].at
        BY <1>1, <1>16, <3>2 DEF t
      <4> QED  BY <1>14, <2>1, <4>1
    <3> QED  BY <3>1, <3>2
  <2>3. ASSUME NEW j \in DOMAIN st2, NEW k \in Uses(world[st2[j].path]), k < st2[j].at
        PROVE  Met(world, emitted, lo2, st2[j].path, k)
    <3>1. k < stack[j].at \/ (j = to /\ k = a)
      BY <1>8, <2>3
    <3>2. CASE k < stack[j].at
      BY <1>6, <1>8, <1>14, <2>1, <3>2
    <3>3. CASE j = to /\ k = a
      <4>1. world[st2[j].path][k].from = Top.path
        BY <1>8, <3>3
      <4> QED  BY <1>5, <4>1 DEF Met, lo2
    <3> QED  BY <3>1, <3>2, <3>3
  <2>4. \A p \in FinishedIn(world, emitted, lo2) : \A k \in Uses(world[p]) : Met(world, emitted, lo2, p, k)
    BY <1>5, <2>2
  <2>5. \A j \in DOMAIN st2 : \A k \in Uses(world[st2[j].path]) :
          k < st2[j].at => Met(world, emitted, lo2, st2[j].path, k)
    BY <2>3
  <2> QED  BY ONLY <1>t, <2>4, <2>5 DEF Dealt
<1>18. Owns(world, declarations, Top)
  BY <1>1 DEF LoaderInv, Named
<1>19. ASSUME NEW k \in Decls(t)
       PROVE  /\ Symbolic(world, declarations, EntryOf(t, Top, k))
              /\ Bindings(world, declarations, emitted, Top) => Resolved(world, declarations, EntryOf(t, Top, k))
  BY <1>1, <1>18, EntrySound DEF t
<1>20. Named'
  <2>1. ASSUME NEW y \in S2 PROVE Symbolic(world, declarations, Item(st2, out2, y))
    <3>1. CASE \E x \in S : y = mv[x]
      BY <1>10, <3>1 DEF LoaderInv, Named, S
    <3>2. CASE \E k \in Decls(t) : y = fr[k]
      BY <1>10, <1>19, <3>2
    <3> QED  BY <1>10, <3>1, <3>2
  <2>2. \A j \in DOMAIN st2 : Owns(world, declarations, st2[j])
    BY <1>8
  <2> QED  BY <1>t, <2>1, <2>2 DEF Named, S2
<1>21. Faultless'
  <2>1. CASE errors' = {}
    <3>1. FaultlessIn(world, declarations, emitted, loading, stack, output)
          /\ \A j \in DOMAIN st2 : Bindings(world, declarations, emitted, st2[j])
      BY <1>e, <2>1 DEF LoaderInv, Faultless
    <3>2. Bindings(world, declarations, emitted, Top)
      BY <1>1, <3>1 DEF FaultlessIn
    <3>3. ASSUME NEW y \in S2 PROVE Resolved(world, declarations, Item(st2, out2, y))
      <4>1. CASE \E x \in S : y = mv[x]
        BY <1>10, <3>1, <4>1 DEF FaultlessIn, S
      <4>2. CASE \E k \in Decls(t) : y = fr[k]
        BY <1>10, <1>19, <3>2, <4>2
      <4> QED  BY <1>10, <4>1, <4>2
    <3>4. ASSUME NEW p \in fin \cup {Top.path}, NEW k \in Uses(world[p]) PROVE Granted(world, emitted, p, k)
      <4>1. CASE p \in fin
        BY <3>1, <4>1 DEF FaultlessIn, fin
      <4>2. CASE p = Top.path
        <5>1. k \in Served(world, Top)
          BY <1>16, <4>2 DEF Served, t
        <5> QED  BY <3>2, <4>2, <5>1 DEF Bindings
      <4> QED  BY <4>1, <4>2
    <3>5. FaultlessIn(world, declarations, emitted, lo2, st2, out2)
      BY <1>5, <3>1, <3>3, <3>4 DEF FaultlessIn, S2
    <3> QED  BY <1>t, <3>5 DEF Faultless
  <2> QED  BY <2>1 DEF Faultless
<1> QED  BY <1>11, <1>12, <1>13, <1>15, <1>17, <1>20, <1>21 DEF LoaderInv

LEMMA FinishModuleStep == ASSUME LoaderInv, FinishModule PROVE LoaderInv'
<1> DEFINE L == Len(stack)
           f == stack[L - 1]
           s == Assemble(Top)
           g == Bound(f, s)
           st2 == Append(SubSeq(stack, 1, L - 2), g)
           S == Spots(world, stack, output)
<1>1. /\ AtEnd /\ L > 1 /\ stack' = st2 /\ errors' = errors \cup Reports(f)
      /\ loading' = loading \ {Top.path} /\ output' = output
      /\ world' = world /\ declarations' = declarations /\ emitted' = emitted /\ next_module' = next_module
  BY DEF FinishModule, Loaded
<1>2. /\ L \in Nat /\ L \in DOMAIN stack /\ DOMAIN stack = 1..L /\ stack # <<>>
      /\ Top \in Frames /\ Placeable(world, Top) /\ Top = stack[L] /\ world \in Worlds
      /\ Typed /\ Published
  BY <1>1, TopFacts DEF LoaderInv, AtEnd
<1>3. L - 1 \in Nat /\ L - 1 \in DOMAIN stack /\ L - 1 < L /\ (L - 1) + 1 = L /\ L - 2 \in Nat
  BY <1>1, <1>2
<1>4. /\ stack \in Seq(Frames) /\ output = None /\ f \in Frames /\ Placeable(world, f)
      /\ \A j \in DOMAIN stack : Placeable(world, stack[j])
  BY <1>2, <1>3 DEF Typed
<1>5. f.at \in Uses(world[f.path]) /\ world[f.path][f.at].from = Top.path
  BY <1>2, <1>3 DEF LoaderInv, Chained
<1>6. Top.path \in Path /\ f.path \in Path /\ world[f.path] # Unreadable /\ f.at \in Nat
  BY <1>2, <1>4, FrameParts DEF Placeable
<1>7. s \in Seq(Statement)
  BY <1>2, AssembleIs, Assembled
<1> HIDE DEF s
<1>8. /\ g \in Frames /\ Placeable(world, g)
      /\ g.path = f.path /\ g.id = f.id /\ g.at = f.at + 1
      /\ g.pending[f.at] = s
      /\ \A k \in Uses(world[f.path]) : k # f.at => g.pending[k] = f.pending[k]
  <2> HIDE DEF f
  <2> QED  BY <1>2, <1>4, <1>5, <1>6, <1>7, BoundFacts
<1>9. Owns(world, declarations, g)
  <2>1. Owns(world, declarations, f)
    BY <1>3 DEF LoaderInv, Named
  <2> HIDE DEF f
  <2> QED  BY <1>2, <1>4, <1>5, <1>6, <1>7, <2>1, BoundOwns
<1>10. errors' = {} => \A j \in DOMAIN stack : Bindings(world, declarations, emitted, stack[j])
  BY <1>1 DEF LoaderInv, Faultless, FaultlessIn
<1>11. errors' = {} => Bindings(world, declarations, emitted, g)
  <2> SUFFICES ASSUME errors' = {} PROVE Bindings(world, declarations, emitted, g)
    OBVIOUS
  <2>1. Bindings(world, declarations, emitted, f) /\ Reports(f) = {}
    BY <1>1, <1>3, <1>10
  <2>2. world[f.path][f.at].from \in ReadIn(world, emitted)
    <3>1. Top.path \in loading /\ loading \subseteq ReadIn(world, emitted)
      BY <1>2 DEF LoaderInv, Chained, Typed
    <3> QED  BY <1>5, <3>1
  <2> HIDE DEF f
  <2> QED  BY <1>2, <1>4, <1>5, <1>7, <2>1, <2>2, BoundClean
<1> HIDE DEF g
<1>12. /\ st2 \in Seq(Frames) /\ Len(st2) = L - 1 /\ DOMAIN st2 = 1..L - 1 /\ st2 # <<>>
       /\ st2[L - 1] = g /\ \A j \in DOMAIN st2 : j < L - 1 => st2[j] = stack[j]
  BY <1>2, <1>3, <1>4, <1>8
<1>e. errors \subseteq errors'
  BY <1>1
<1> HIDE DEF f, st2, S, L
<1>13. \A j \in DOMAIN st2 : j \in DOMAIN stack /\ j < L /\ ((j = L - 1 /\ st2[j] = g) \/ (j < L - 1 /\ st2[j] = stack[j]))
  BY <1>2, <1>3, <1>12
<1>14. \A j \in DOMAIN stack : j < L => j \in DOMAIN st2
  BY <1>2, <1>12
<1>f. stack[L - 1] = f
  BY DEF f, L
<1>15. ASSUME NEW j \in DOMAIN st2
       PROVE  /\ Placeable(world, st2[j]) /\ st2[j].path = stack[j].path /\ st2[j].id = stack[j].id
              /\ Owns(world, declarations, st2[j])
              /\ j < Len(st2) => st2[j].at = stack[j].at
              /\ \A k \in Uses(world[stack[j].path]) : k < st2[j].at => k < stack[j].at \/ (j = L - 1 /\ k = f.at)
              /\ j = L - 1 => world[stack[j].path][f.at].from = Top.path
  <2>1. CASE j = L - 1
    <3>1. \A k \in Uses(world[f.path]) : k < f.at + 1 => k < f.at \/ k = f.at
      <4>1. \A k \in Nat : k < f.at + 1 => k < f.at \/ k = f.at
        BY <1>6
      <4> QED  BY <1>2, <1>6, <4>1, UseNat
    <3>2. ~(L - 1 < L - 1)
      BY <1>3
    <3> QED  BY <1>5, <1>8, <1>9, <1>12, <1>f, <2>1, <3>1, <3>2
  <2>2. CASE j < L - 1 /\ st2[j] = stack[j] /\ j \in DOMAIN stack
    <3>1. Owns(world, declarations, stack[j]) /\ Placeable(world, stack[j]) /\ j # L - 1
      BY <1>3, <1>4, <2>2 DEF LoaderInv, Named
    <3> QED  BY <2>2, <3>1
  <2> QED  BY <1>13, <2>1, <2>2
<1>16. errors' = {} => \A j \in DOMAIN st2 : Bindings(world, declarations, emitted, st2[j])
  BY <1>10, <1>11, <1>13
<1>17. \A x \in S :
         /\ x = <<x[1], x[2], x[3]>> /\ x[1] \in Nat /\ x[2] \in Nat /\ x[3] \in Nat
         /\ x[1] \in DOMAIN stack /\ x[2] \in Uses(world[stack[x[1]].path])
         /\ x[3] \in DOMAIN stack[x[1]].pending[x[2]]
         /\ Item(stack, output, x) = stack[x[1]].pending[x[2]][x[3]]
  BY <1>2, SpotParts DEF S
<1>18. \A x \in S : x[1] = L - 1 => x[2] < f.at
  <2> SUFFICES ASSUME NEW x \in S, x[1] = L - 1 PROVE x[2] < f.at
    OBVIOUS
  <2>1. x[2] \in Uses(world[f.path]) /\ x[2] \in Nat /\ x[3] \in DOMAIN f.pending[x[2]]
    BY <1>17, <1>f
  <2>2. f.pending[x[2]] # <<>>
    BY <2>1
  <2>3. ~(x[2] >= f.at)
    BY <1>4, <2>1, <2>2 DEF Placeable
  <2> QED  BY <1>6, <2>1, <2>3
<1>19. ASSUME NEW x \in S, x[1] < L
       PROVE  /\ x \in Spots(world, st2, output) /\ Item(st2, output, x) = Item(stack, output, x)
              /\ x[1] < L - 1 \/ (x[1] = L - 1 /\ x[2] < f.at)
  <2>1. x[1] \in DOMAIN st2
    BY <1>14, <1>17, <1>19
  <2>2. /\ x[2] \in Uses(world[st2[x[1]].path])
        /\ st2[x[1]].pending[x[2]] = stack[x[1]].pending[x[2]]
        /\ x[1] < L - 1 \/ (x[1] = L - 1 /\ x[2] < f.at)
    <3>1. CASE x[1] = L - 1 /\ st2[x[1]] = g
      <4>1. x[2] < f.at /\ x[2] \in Uses(world[f.path]) /\ x[2] # f.at
        BY <1>6, <1>17, <1>18, <1>f, <3>1
      <4> QED  BY <1>8, <1>f, <3>1, <4>1
    <3>2. CASE x[1] < L - 1 /\ st2[x[1]] = stack[x[1]]
      BY <1>17, <3>2
    <3> QED  BY <1>13, <2>1, <3>1, <3>2
  <2>3. x \in Nat \X Nat \X Nat
    BY <1>17
  <2>4. x[3] \in DOMAIN st2[x[1]].pending[x[2]]
    BY <1>17, <2>2
  <2>5. x \in Spots(world, st2, output)
    BY <1>12, <2>1, <2>2, <2>3, <2>4 DEF Spots
  <2>6. Item(st2, output, x) = Item(stack, output, x)
    BY <1>12, <1>17, <2>2 DEF Item
  <2> QED  BY <2>2, <2>5, <2>6
<1>20. ASSUME NEW i \in DOMAIN s
       PROVE  /\ <<L - 1, f.at, i>> \in Spots(world, st2, output)
              /\ Item(st2, output, <<L - 1, f.at, i>>) = s[i]
  <2>1. L - 1 \in DOMAIN st2 /\ st2[L - 1].pending[f.at] = s /\ f.at \in Uses(world[st2[L - 1].path])
    BY <1>3, <1>5, <1>8, <1>12, <1>14
  <2>2. i \in Nat
    BY <1>7
  <2>3. <<L - 1, f.at, i>> \in Spots(world, st2, output)
    BY <1>3, <1>6, <1>12, <2>1, <2>2, SpotParts
  <2>4. Item(st2, output, <<L - 1, f.at, i>>) = s[i]
    BY <1>12, <2>1 DEF Item
  <2> QED  BY <2>3, <2>4
<1>21. ASSUME NEW y \in Spots(world, st2, output)
       PROVE  (y \in S /\ y[1] < L) \/ \E i \in DOMAIN s : y = <<L - 1, f.at, i>>
  <2>1. /\ y = <<y[1], y[2], y[3]>> /\ y[1] \in Nat /\ y[2] \in Nat /\ y[3] \in Nat
        /\ y[1] \in DOMAIN st2 /\ y[2] \in Uses(world[st2[y[1]].path])
        /\ y[3] \in DOMAIN st2[y[1]].pending[y[2]]
    BY <1>12, SpotParts
  <2>2. CASE y[1] = L - 1 /\ y[2] = f.at
    <3>1. y[3] \in DOMAIN s
      BY <1>8, <1>12, <2>1, <2>2
    <3> QED  BY <2>1, <2>2, <3>1
  <2>3. CASE ~(y[1] = L - 1 /\ y[2] = f.at)
    <3>1. y[1] \in DOMAIN stack /\ y[1] < L
      BY <1>13, <2>1
    <3>2. y[2] \in Uses(world[stack[y[1]].path]) /\ stack[y[1]].pending[y[2]] = st2[y[1]].pending[y[2]]
      <4>1. CASE y[1] = L - 1 /\ st2[y[1]] = g
        BY <1>8, <1>f, <2>1, <2>3, <4>1
      <4>2. CASE st2[y[1]] = stack[y[1]]
        BY <2>1, <4>2
      <4> QED  BY <1>13, <2>1, <4>1, <4>2
    <3>3. <<y[1], y[2], y[3]>> \in S
      BY <1>2, <2>1, <3>1, <3>2, SpotParts DEF S
    <3> QED  BY <2>1, <3>1, <3>3
  <2> QED  BY <2>2, <2>3
<1>22. Ends(s, st2, output, L - 1, f.at)
  <2>1. /\ st2 \in Seq(Frames) /\ Len(st2) = L - 1
        /\ IF st2 = <<>> THEN output \in Seq(Statement) ELSE output = None
    BY <1>4, <1>12
  <2>2. \A y : y \in Spots(world, st2, output) <=>
                  (y \in S /\ y[1] < L) \/ \E i \in DOMAIN s : y = <<L - 1, f.at, i>>
    BY <1>19, <1>20, <1>21
  <2> QED  BY ONLY <1>15, <1>19, <1>20, <2>1, <2>2 DEF Ends, S, L
<1> QED  BY <1>1, <1>3, <1>6, <1>16, <1>22, <1>e, Finish DEF s

LEMMA FinishRootStep == ASSUME LoaderInv, FinishRoot PROVE LoaderInv'
<1> DEFINE s == Assemble(Top)
<1>1. /\ AtEnd /\ Len(stack) = 1 /\ stack' = <<>> /\ output' = s
      /\ loading' = loading \ {Top.path}
      /\ world' = world /\ declarations' = declarations /\ emitted' = emitted /\ next_module' = next_module
      /\ errors' = errors
  BY DEF FinishRoot, Loaded
<1>2. stack # <<>> /\ world \in Worlds /\ Top \in Frames /\ Placeable(world, Top) /\ DOMAIN stack = 1..Len(stack)
  BY <1>1, TopFacts DEF LoaderInv, AtEnd
<1>3. s \in Seq(Statement)
  BY <1>2, AssembleIs, Assembled
<1> HIDE DEF s
<1>4. Ends(s, <<>>, s, 0, 0)
  <2>1. \A y : y \in Spots(world, <<>>, s) <=> \E i \in DOMAIN s : y = <<0, 0, i>>
    BY DEF Spots
  <2>2. \A i \in DOMAIN s : Item(<<>>, s, <<0, 0, i>>) = s[i]
    BY DEF Item
  <2>3. \A y \in Spots(world, stack, output) : ~(y[1] < Len(stack))
    <3>1. \A y \in Spots(world, stack, output) : y[1] \in 1..1
      BY <1>1, <1>2, SpotParts
    <3> QED  BY <1>1, <3>1
  <2>4. <<>> \in Seq(Frames) /\ Len(<<>>) = Len(stack) - 1 /\ DOMAIN <<>> = {}
    BY <1>1
  <2> QED  BY <1>3, <2>1, <2>2, <2>3, <2>4 DEF Ends
<1>5. \A j \in DOMAIN <<>> : Bindings(world, declarations, emitted, <<>>[j])
  OBVIOUS
<1>6. AtEnd /\ errors \subseteq errors' /\ 0 \in Nat
  BY <1>1
<1> QED  BY <1>1, <1>4, <1>5, <1>6, Finish DEF s

LEMMA LoaderNext == ASSUME LoaderInv, [Next]_vars PROVE LoaderInv'
<1>1. CASE Declare
  BY <1>1, DeclareStep
<1>2. CASE NotFound
  BY <1>2, NotFoundStep
<1>3. CASE Skip
  BY <1>3, SkipStep
<1>4. CASE FailToRead
  BY <1>4, FailToReadStep
<1>5. CASE Descend
  BY <1>5, DescendStep
<1>6. CASE FinishModule
  BY <1>6, FinishModuleStep
<1>7. CASE FinishRoot
  BY <1>7, FinishRootStep
<1>8. CASE UNCHANGED vars
  <2>1. /\ world' = world /\ declarations' = declarations /\ emitted' = emitted /\ next_module' = next_module
        /\ loading' = loading /\ errors' = errors /\ stack' = stack /\ output' = output
    BY <1>8 DEF vars
  <2>2. Typed'
    BY <2>1 DEF LoaderInv, Typed
  <2>3. Chained'
    BY <2>1 DEF LoaderInv, Chained
  <2>4. Published'
    BY <2>1 DEF LoaderInv, Published
  <2>5. Distinct'
    BY <2>1 DEF LoaderInv, Distinct
  <2>6. Placed'
    BY <2>1 DEF LoaderInv, Placed
  <2>7. Dealt'
    BY <2>1 DEF LoaderInv, Dealt
  <2>8. Orderly'
    BY <2>1 DEF LoaderInv, Orderly
  <2>9. Named'
    BY <2>1 DEF LoaderInv, Named
  <2>10. Faultless'
    BY <2>1 DEF LoaderInv, Faultless
  <2> QED  BY <2>2, <2>3, <2>4, <2>5, <2>6, <2>7, <2>8, <2>9, <2>10 DEF LoaderInv
<1> QED  BY <1>1, <1>2, <1>3, <1>4, <1>5, <1>6, <1>7, <1>8 DEF Next

LEMMA LoaderInvariant == Spec => []LoaderInv
<1>1. Init => LoaderInv
  BY LoaderInit
<1>2. LoaderInv /\ [Next]_vars => LoaderInv'
  BY LoaderNext
<1> QED  BY <1>1, <1>2, PTL DEF Spec

-----------------------------------------------------------------------------
(* What the invariant says of the states in which the program is flattened. *)

\* When the output is there the stack is empty and no module is loading.
LEMMA DoneFacts ==
  ASSUME LoaderInv, Done
  PROVE  /\ stack = <<>> /\ output \in Seq(Statement)
         /\ FinishedIn(world, emitted, loading) = Read /\ Read = ReadIn(world, emitted)
         /\ \A i \in DOMAIN output :
              <<0, 0, i>> \in Spots(world, stack, output) /\ Item(stack, output, <<0, 0, i>>) = output[i]
         /\ \A x \in Spots(world, stack, output) : x[3] \in DOMAIN output /\ Item(stack, output, x) = output[x[3]]
         /\ \A i, j \in DOMAIN output : Precedes(<<0, 0, i>>, <<0, 0, j>>) <=> i < j
<1>1. stack = <<>> /\ output \in Seq(Statement)
  BY DEF LoaderInv, Typed, Done
<1>2. loading = {}
  <2>1. DOMAIN stack = {}
    BY <1>1
  <2> QED  BY <2>1 DEF LoaderInv, Chained
<1>3. Read = ReadIn(world, emitted) /\ FinishedIn(world, emitted, loading) = Read
  BY <1>2, TextOperators DEF FinishedIn
<1>4. /\ \A i \in DOMAIN output :
           <<0, 0, i>> \in Spots(world, stack, output) /\ Item(stack, output, <<0, 0, i>>) = output[i]
      /\ \A x \in Spots(world, stack, output) : x[3] \in DOMAIN output /\ Item(stack, output, x) = output[x[3]]
  BY <1>1 DEF Spots, Item
<1>5. \A i, j \in DOMAIN output : Precedes(<<0, 0, i>>, <<0, 0, j>>) <=> i < j
  BY <1>1 DEF Precedes
<1> QED  BY <1>1, <1>3, <1>4, <1>5

\* The state has its type in every run of the loader, whatever the files are:
\* every published and every emitted name is a symbol, every frame has a number
\* that was given out, and stands within its file.
THEOREM LoaderTyped == Spec => []TypeOK
<1>1. LoaderInv => TypeOK
  <2> SUFFICES ASSUME LoaderInv PROVE TypeOK
    OBVIOUS
  <2>1. Typed /\ Published
    BY DEF LoaderInv
  <2>2. loading \subseteq Path /\ emitted \subseteq Path /\ next_module \in Nat /\ world \in Worlds
    BY <2>1 DEF Typed, ReadIn
  <2>3. ASSUME NEW p \in Path, declarations[p] # None, NEW n \in DOMAIN declarations[p]
        PROVE  n \in Name /\ declarations[p][n].symbol \in Symbols
    <3>1. p \in ReadIn(world, emitted)
      BY <2>1, <2>3 DEF Published
    <3>2. declarations[p] \in [NamesIn(world[p]) -> [symbol : Symbols, exported : BOOLEAN]]
      BY <2>1, <3>1 DEF Published, Publication
    <3>3. n \in NamesIn(world[p]) /\ declarations[p][n].symbol \in Symbols
      BY <2>3, <3>2
    <3> QED  BY <2>2, <3>1, <3>3, TextTyped DEF ReadIn
  <2>4. ASSUME NEW k \in DOMAIN stack
        PROVE  /\ stack[k].path \in Path /\ stack[k].id < next_module
               /\ stack[k].at \in 1..Len(Text(stack[k].path)) + 1
    <3>1. stack[k] \in Frames
      BY <2>1 DEF Typed
    <3> QED  BY <2>1, <3>1, FrameParts, TextOperators DEF Typed, Placeable
  <2>5. output = None \/ \A k \in DOMAIN output : output[k].symbol \in Symbols
    <3>1. ASSUME output \in Seq(Statement), NEW k \in DOMAIN output PROVE output[k].symbol \in Symbols
      <4>1. output[k] \in Statement
        BY <3>1
      <4> QED  BY <4>1 DEF Statement
    <3> QED  BY <2>1, <3>1 DEF Typed
  <2> QED  BY <2>2, <2>3, <2>4, <2>5 DEF TypeOK
<1> QED  BY <1>1, LoaderInvariant, PTL

\* loading says which modules are on the stack, each of them once: however the
\* modules import each other, the recursion of load_module is as deep as the
\* number of modules at most.
THEOREM NoModuleTwice == Spec => []LoadingIsStack
<1>1. LoaderInv => LoadingIsStack
  BY TextOperators DEF LoaderInv, Chained, LoadingIsStack, AtUsing
<1> QED  BY <1>1, LoaderInvariant, PTL

\* Every declaration of every module that was read is in the output exactly
\* once, and those of a module in their order.
THEOREM EveryDeclarationOnce == Spec => []EmittedOnce
<1>1. LoaderInv => EmittedOnce
  <2> SUFFICES ASSUME LoaderInv, Done, NEW p \in Read, NEW k \in Declared(p)
               PROVE  /\ \E i \in DOMAIN output : output[i].path = p /\ output[i].at = k
                      /\ \A i, j \in DOMAIN output :
                           output[i].path = p /\ output[j].path = p /\ output[i].at <= output[j].at => i <= j
    BY DEF EmittedOnce
  <2>1. PlacedIn(world, stack, output, Read)
    BY DoneFacts DEF LoaderInv, Placed
  <2>2. \E i \in DOMAIN output : output[i].path = p /\ output[i].at = k
    <3>1. k \in Decls(world[p])
      BY TextOperators
    <3>2. PICK x \in Spots(world, stack, output) :
            Item(stack, output, x).path = p /\ Item(stack, output, x).at = k
      BY <2>1, <3>1 DEF PlacedIn
    <3> QED  BY <3>2, DoneFacts
  <2>3. ASSUME NEW i \in DOMAIN output, NEW j \in DOMAIN output,
               output[i].path = p, output[j].path = p, output[i].at <= output[j].at
        PROVE  i <= j
    <3>1. <<0, 0, i>> = <<0, 0, j>> \/ Precedes(<<0, 0, i>>, <<0, 0, j>>)
      BY <2>1, <2>3, DoneFacts DEF PlacedIn
    <3>2. i = j \/ i < j
      BY <3>1, DoneFacts
    <3>3. i \in Nat /\ j \in Nat
      <4>1. output \in Seq(Statement)
        BY DoneFacts
      <4> QED  BY <4>1
    <3> QED  BY <3>2, <3>3
  <2> QED  BY <2>2, <2>3
<1> QED  BY <1>1, LoaderInvariant, PTL

\* What a module imports is in the output before the statements that follow the
\* import, unless the import is circular.
THEOREM ImportsComeFirst == Spec => []DependenciesFirst
<1>0. ASSUME NEW p PROVE Reach(p) = ReachIn(world, p)
  <2>1. \A S : Follow(S) = FollowIn(world, S)
    BY TextOperators DEF Follow, FollowIn
  <2> QED  BY <2>1 DEF Reach, ReachIn
<1>1. LoaderInv => DependenciesFirst
  <2> SUFFICES ASSUME LoaderInv, Done, NEW p \in Read, NEW k \in Uses(world[p]),
                      world[p][k].from \in Read, p \notin ReachIn(world, world[p][k].from),
                      NEW i \in DOMAIN output, NEW j \in DOMAIN output,
                      output[i].path = world[p][k].from, output[j].path = p, output[j].at > k
               PROVE  i < j
    BY <1>0, TextOperators DEF DependenciesFirst
  <2>1. OrderlyIn(world, stack, output)
    BY DEF LoaderInv, Orderly
  <2> DEFINE x == <<0, 0, i>>
             y == <<0, 0, j>>
  <2>2. /\ x \in Spots(world, stack, output) /\ Item(stack, output, x) = output[i]
        /\ y \in Spots(world, stack, output) /\ Item(stack, output, y) = output[j]
        /\ Precedes(x, y) <=> i < j
    BY DoneFacts
  <2> HIDE DEF x, y
  <2>3. k < output[j].at
    <3>1. p \in Path /\ world[p] # Unreadable /\ world \in Worlds
      BY TextOperators DEF LoaderInv, Typed, ReadIn
    <3>2. k \in Nat
      BY <3>1, UseNat
    <3>3. output[j].at \in Nat
      <4>1. output[j] \in Statement
        <5>1. output \in Seq(Statement)
          BY DoneFacts
        <5> QED  BY <5>1
      <4> QED  BY <4>1 DEF Statement
    <3> QED  BY <3>2, <3>3
  <2>4. After(world, output[j].path, k, output[i].path)
    BY DEF After
  <2>5. Precedes(x, y)
    BY <2>1, <2>2, <2>3, <2>4 DEF OrderlyIn
  <2> QED  BY <2>2, <2>5
<1> QED  BY <1>1, LoaderInvariant, PTL

\* Unless an error was reported, no symbol is that of declarations of two modules.
THEOREM SymbolsAreUnique == Spec => []UniqueSymbols
<1>1. LoaderInv => UniqueSymbols
  <2> SUFFICES ASSUME LoaderInv, Clean, NEW i \in DOMAIN output, NEW j \in DOMAIN output,
                      output[i].symbol = output[j].symbol, output[i].path # output[j].path
               PROVE  FALSE
    BY DEF UniqueSymbols
  <2>0. Done
    BY DEF Clean
  <2> DEFINE N(m) == world[output[m].path][output[m].at].name
  <2>1. ASSUME NEW m \in DOMAIN output
        PROVE  /\ output[m].path \in ReadIn(world, emitted)
               /\ N(m) \in NamesIn(world[output[m].path]) \ Reserved
               /\ output[m].symbol = declarations[output[m].path][N(m)].symbol
    <3>0. PlacedIn(world, stack, output, Read)
      BY <2>0, DoneFacts DEF LoaderInv, Placed
    <3>1. output[m].path \in ReadIn(world, emitted) /\ output[m].at \in Decls(world[output[m].path])
      BY <2>0, <3>0, DoneFacts DEF PlacedIn
    <3>2. world[output[m].path][output[m].at].name \in NamesIn(world[output[m].path])
      BY <3>1 DEF NamesIn
    <3>3. NamesIn(world[output[m].path]) \cap Reserved = {}
      BY <3>1 DEF LoaderInv, Faultless, FaultlessIn, Clean
    <3>4. Symbolic(world, declarations, output[m])
      BY <2>0, DoneFacts DEF LoaderInv, Named
    <3> QED  BY <3>1, <3>2, <3>3, <3>4 DEF Symbolic
  <2> HIDE DEF N
  <2> QED  BY <2>1 DEF LoaderInv, Distinct
<1> QED  BY <1>1, LoaderInvariant, PTL

\* Unless an error was reported, every import is of exported names of a module
\* that was read, and every reference has the meaning that the text of its
\* module gives it: an own declaration, an imported one, a name of the prelude,
\* or nothing that the program declares.
THEOREM ReferencesMeanTheText == Spec => []References
<1>1. LoaderInv => References
  <2> SUFFICES ASSUME LoaderInv, Clean PROVE References
    BY DEF References
  <2>0. Done /\ errors = {}
    BY DEF Clean
  <2>1. FaultlessIn(world, declarations, emitted, loading, stack, output)
    BY <2>0 DEF LoaderInv, Faultless
  <2>2. \A p \in Read : \A k \in Uses(world[p]) :
          world[p][k].from \in Read /\ ToSet(world[p][k].names) \subseteq ExportsIn(world[world[p][k].from])
    BY <2>0, <2>1, DoneFacts DEF FaultlessIn, Granted
  <2>3. \A m \in DOMAIN output :
          /\ output[m].path \in Read
          /\ output[m].at \in Decls(world[output[m].path])
          /\ Symbolic(world, declarations, output[m])
          /\ Resolved(world, declarations, output[m])
    <3>1. PlacedIn(world, stack, output, Read)
      BY <2>0, DoneFacts DEF LoaderInv, Placed
    <3> QED  BY ZenonT(40), <2>0, <2>1, <3>1, DoneFacts DEF PlacedIn, LoaderInv, Named, FaultlessIn
  <2>4. \A p, n : Meaning(p, n) = MeaningIn(world, declarations, p, n)
    BY TextOperators DEF Meaning, MeaningIn
  \* No declaration has a hidden symbol.
  <2>5. ASSUME NEW m \in DOMAIN output PROVE output[m].symbol \notin {"hidden"} \X Nat \X Name
    <3> DEFINE p == output[m].path
               n == world[p][output[m].at].name
    <3>1. p \in ReadIn(world, emitted) /\ n \in NamesIn(world[p]) /\ output[m].symbol = declarations[p][n].symbol
      BY <2>0, <2>3, DoneFacts DEF Symbolic, NamesIn
    <3>2. PICK id \in Nat : declarations[p][n].symbol = SymbolOf(id, n)
      BY <3>1 DEF LoaderInv, Published, Publication
    <3>3. n \in Name \ Reserved
      <4>1. p \in Path /\ world[p] # Unreadable /\ world \in Worlds
        BY <3>1 DEF LoaderInv, Typed, ReadIn
      <4> QED  BY <2>1, <3>1, <4>1, TextTyped DEF FaultlessIn
    <3> HIDE DEF p, n
    <3>4. CASE id = 0
      <4>1. {"hidden"} \X Nat \X Name \subseteq Generated
        BY DEF Generated
      <4> QED  BY <3>1, <3>2, <3>3, <3>4, <4>1, LoaderAssumption DEF SymbolOf
    <3>5. CASE id # 0
      BY <3>1, <3>2, <3>5 DEF SymbolOf
    <3> QED  BY <3>4, <3>5
  <2>6. ASSUME NEW i \in DOMAIN output, NEW n \in DOMAIN output[i].refs
        PROVE  LET p == output[i].path
                   s == output[i].refs[n]
               IN  IF Meaning(p, n) # {} THEN Meaning(p, n) = {s}
                   ELSE IF n \in Prelude THEN s = n
                   ELSE s \notin {output[j].symbol : j \in DOMAIN output}
    <3> DEFINE M == MeaningIn(world, declarations, output[i].path, n)
               s == output[i].refs[n]
    <3>1. /\ M \subseteq {s}
          /\ M = {} => IF n \in Prelude THEN s = n ELSE s \in {"hidden"} \X Nat \X Name
      BY <2>3 DEF Resolved
    <3>2. Meaning(output[i].path, n) = M
      BY <2>4
    <3> HIDE DEF M, s
    <3>3. IF M # {} THEN M = {s}
          ELSE IF n \in Prelude THEN s = n
          ELSE s \notin {output[j].symbol : j \in DOMAIN output}
      BY <2>5, <3>1
    <3> QED  BY <3>2, <3>3 DEF s
  <2> QED  BY <2>2, <2>6, TextOperators DEF References
<1> QED  BY <1>1, LoaderInvariant, PTL
=============================================================================
