-------------------------- MODULE Counting_proofs --------------------------
(***************************************************************************)
(* How Ways changes when the function does: a value is replaced, two       *)
(* sequences are joined, places are added or renamed.                      *)
(***************************************************************************)
EXTENDS Counting, Integers, Sequences, FiniteSetTheorems, FunctionTheorems,
        WellFoundedInduction, TLAPS

\* Induction over the natural numbers up to a bound; what is to be shown of a
\* number is that it is a member of P.
LEMMA SetInduction ==
  ASSUME NEW N \in Nat, NEW P, 0 \in P, \A n \in 0..N - 1 : n \in P => n + 1 \in P
  PROVE  \A n \in 0..N : n \in P
<1> DEFINE T == {n \in 0..N : n \notin P}
           R == {ss \in Nat \X Nat : ss[1] < ss[2]}
<1> SUFFICES ASSUME T # {} PROVE FALSE
  OBVIOUS
<1>1. \A m, n \in Nat : <<m, n>> \in R <=> m < n
  OBVIOUS
<1>2. IsWellFoundedOn(R, Nat)
  BY NatLessThanWellFounded DEF OpToRel
<1>3. T \subseteq Nat
  OBVIOUS
<1> HIDE DEF R, T
<1>4. PICK n \in T : \A m \in T : ~(<<m, n>> \in R)
  BY <1>2, <1>3, WFMin
<1>5. n \in 0..N /\ n \notin P /\ \A m \in 0..N : m < n => m \in P
  BY <1>1, <1>3, <1>4 DEF T
<1>6. n # 0 /\ n - 1 \in 0..N - 1 /\ n - 1 < n /\ n - 1 \in 0..N
  BY <1>5
<1>7. n - 1 + 1 \in P
  BY <1>5, <1>6
<1> QED
  BY <1>5, <1>7

\* The place that holds x is one way to o, or none.
Hit(x, o) == IF x = o THEN 1 ELSE 0

\* The number of ways is a natural number, and positive if there is one.
LEMMA WaysNat ==
  ASSUME NEW f, IsFiniteSet(DOMAIN f), NEW o
  PROVE  /\ Ways(f, o) \in Nat
         /\ \A x \in DOMAIN f : f[x] = o => Ways(f, o) > 0
         /\ Ways(f, o) > 0 => \E x \in DOMAIN f : f[x] = o
<1> DEFINE S == {x \in DOMAIN f : f[x] = o}
<1>1. IsFiniteSet(S)
  BY FS_Subset
<1>2. Cardinality(S) \in Nat /\ (Cardinality(S) = 0 <=> S = {})
  BY <1>1, FS_CardinalityType, FS_EmptySet
<1> QED
  BY <1>2 DEF Ways

\* Two different places that lead to the same object are two ways.
LEMMA WaysTwo ==
  ASSUME NEW f, IsFiniteSet(DOMAIN f), NEW o,
         NEW x \in DOMAIN f, NEW y \in DOMAIN f, x # y, f[x] = o, f[y] = o
  PROVE  Ways(f, o) > 1
<1> DEFINE S == {z \in DOMAIN f : f[z] = o}
<1>1. IsFiniteSet(S)
  BY FS_Subset
<1>2. Cardinality(S) \in Nat /\ IsFiniteSet(S \ {x})
  BY <1>1, FS_CardinalityType, FS_RemoveElement
<1>3. x \in S /\ S \ {x} # {}
  OBVIOUS
<1>4. Cardinality(S \ {x}) = Cardinality(S) - 1
  BY <1>1, <1>3, FS_RemoveElement
<1>5. Cardinality(S \ {x}) \in Nat /\ Cardinality(S \ {x}) # 0
  BY <1>2, <1>3, FS_CardinalityType, FS_EmptySet
<1>6. Cardinality(S) > 1
  BY <1>2, <1>4, <1>5
<1> QED
  BY <1>6 DEF Ways

\* The same places lead to the object.
LEMMA WaysSame ==
  ASSUME NEW f, NEW g, NEW o, DOMAIN g = DOMAIN f,
         \A x \in DOMAIN f : f[x] = o <=> g[x] = o
  PROVE  Ways(g, o) = Ways(f, o)
<1>1. {x \in DOMAIN g : g[x] = o} = {x \in DOMAIN f : f[x] = o}
  OBVIOUS
<1> QED
  BY <1>1 DEF Ways

\* One place changes its contents.
LEMMA WaysReplace ==
  ASSUME NEW f, IsFiniteSet(DOMAIN f), NEW g, DOMAIN g = DOMAIN f, NEW o,
         NEW p \in DOMAIN f, \A x \in DOMAIN f \ {p} : g[x] = f[x]
  PROVE  Ways(g, o) = Ways(f, o) - Hit(f[p], o) + Hit(g[p], o)
<1> DEFINE S == {x \in DOMAIN f : f[x] = o}
           T == {x \in DOMAIN g : g[x] = o}
           R == {x \in DOMAIN f \ {p} : f[x] = o}
<1>1. IsFiniteSet(R)
  BY FS_Subset
<1>2. Cardinality(R) \in Nat
  BY <1>1, FS_CardinalityType
<1>3. /\ S = IF f[p] = o THEN R \cup {p} ELSE R
      /\ T = IF g[p] = o THEN R \cup {p} ELSE R
      /\ p \notin R
  OBVIOUS
<1> HIDE DEF R, S, T
<1>4. Cardinality(R \cup {p}) = Cardinality(R) + 1
  BY <1>1, <1>3, FS_AddElement
<1>5. Cardinality(S) = Cardinality(R) + Hit(f[p], o)
  BY <1>2, <1>3, <1>4 DEF Hit
<1>6. Cardinality(T) = Cardinality(R) + Hit(g[p], o)
  BY <1>2, <1>3, <1>4 DEF Hit
<1>7. Cardinality(T) = Cardinality(S) - Hit(f[p], o) + Hit(g[p], o)
  BY <1>2, <1>5, <1>6 DEF Hit
<1> QED
  BY <1>7 DEF Ways, S, T

\* Two places exchange their contents.
LEMMA WaysExchange ==
  ASSUME NEW f, IsFiniteSet(DOMAIN f), NEW g, DOMAIN g = DOMAIN f, NEW o,
         NEW p \in DOMAIN f, NEW q \in DOMAIN f, p # q, g[p] = f[q], g[q] = f[p],
         \A x \in DOMAIN f \ {p, q} : g[x] = f[x]
  PROVE  Ways(g, o) = Ways(f, o)
<1> DEFINE e == [x \in DOMAIN f |-> IF x = p THEN f[q] ELSE f[x]]
<1>1. DOMAIN e = DOMAIN f /\ e[p] = f[q] /\ e[q] = f[q] /\ \A x \in DOMAIN f \ {p} : e[x] = f[x]
  OBVIOUS
<1>2. \A x \in DOMAIN e \ {q} : g[x] = e[x]
  OBVIOUS
<1> HIDE DEF e
<1>3. Ways(e, o) = Ways(f, o) - Hit(f[p], o) + Hit(f[q], o)
  BY <1>1, WaysReplace
<1>4. Ways(g, o) = Ways(e, o) - Hit(f[q], o) + Hit(f[p], o)
  BY <1>1, <1>2, WaysReplace
<1>5. Ways(f, o) \in Nat /\ Hit(f[p], o) \in Nat /\ Hit(f[q], o) \in Nat
  BY WaysNat DEF Hit
<1> QED  BY <1>3, <1>4, <1>5

\* The places in L no longer lead to o, all others do or do not as before.
LEMMA WaysRemove ==
  ASSUME NEW f, IsFiniteSet(DOMAIN f), NEW g, DOMAIN g = DOMAIN f, NEW o,
         NEW L, L \subseteq DOMAIN f, \A x \in L : f[x] = o /\ g[x] # o,
         \A x \in DOMAIN f \ L : f[x] = o <=> g[x] = o
  PROVE  IsFiniteSet(L) /\ Ways(f, o) = Ways(g, o) + Cardinality(L)
<1> DEFINE S == {x \in DOMAIN f : f[x] = o}
           T == {x \in DOMAIN g : g[x] = o}
<1>1. IsFiniteSet(L) /\ IsFiniteSet(T)
  BY FS_Subset
<1>2. S = L \cup T /\ L \cap T = {}
  OBVIOUS
<1>3. Cardinality(L) \in Nat /\ Cardinality(T) \in Nat
  BY <1>1, FS_CardinalityType
<1> HIDE DEF S, T
<1>4. Cardinality(S) = Cardinality(L) + Cardinality(T) - Cardinality(L \cap T)
  BY <1>1, <1>2, FS_Union
<1>5. Cardinality(L \cap T) = 0
  BY <1>2, FS_EmptySet
<1>6. Cardinality(S) = Cardinality(T) + Cardinality(L)
  BY <1>3, <1>4, <1>5
<1> QED
  BY <1>1, <1>6 DEF Ways, S, T

\* Two sets with a map that is one-to-one and onto have as many elements.
LEMMA SameNumber ==
  ASSUME NEW S, NEW T, IsFiniteSet(S), NEW f \in [S -> T],
         \A a, b \in S : f[a] = f[b] => a = b,
         \A t \in T : \E s \in S : f[s] = t
  PROVE  IsFiniteSet(T) /\ Cardinality(T) = Cardinality(S)
<1>1. f \in Bijection(S, T)
  BY Fun_IsBij
<1>2. ExistsBijection(S, T)
  BY <1>1, Fun_ExistsBij
<1> QED
  BY <1>2, FS_Bijection

\* A sequence after another one.
LEMMA WaysConcat ==
  ASSUME NEW V, NEW s \in Seq(V), NEW t \in Seq(V), NEW o
  PROVE  /\ Ways(s \o t, o) = Ways(s, o) + Ways(t, o)
         /\ Ways(s, o) \in Nat /\ Ways(t, o) \in Nat
<1> DEFINE A == {k \in DOMAIN s : s[k] = o}
           B == {k \in DOMAIN t : t[k] = o}
           C == {k \in Len(s) + 1 .. Len(s) + Len(t) : t[k - Len(s)] = o}
           all == {k \in DOMAIN (s \o t) : (s \o t)[k] = o}
<1>1. IsFiniteSet(A) /\ IsFiniteSet(B)
  <2>1. IsFiniteSet(DOMAIN s) /\ IsFiniteSet(DOMAIN t)
    BY FS_Interval
  <2> QED
    BY <2>1, FS_Subset
<1>2. IsFiniteSet(C) /\ Cardinality(C) = Cardinality(B)
  <2> DEFINE f == [k \in B |-> k + Len(s)]
  <2>1. f \in [B -> C]
    OBVIOUS
  <2>2. \A a, b \in B : f[a] = f[b] => a = b
    OBVIOUS
  <2>3. ASSUME NEW c \in C PROVE \E b \in B : f[b] = c
    <3>1. c - Len(s) \in B /\ f[c - Len(s)] = c
      OBVIOUS
    <3> QED
      BY <3>1
  <2> HIDE DEF f
  <2> QED
    BY <1>1, <2>1, <2>2, <2>3, SameNumber
<1>3. all = A \cup C /\ A \cap C = {}
  OBVIOUS
<1>4. Cardinality(A) \in Nat /\ Cardinality(B) \in Nat
  BY <1>1, FS_CardinalityType
<1> HIDE DEF A, B, C, all
<1>5. Cardinality(all) = Cardinality(A) + Cardinality(C) - Cardinality(A \cap C)
  BY <1>1, <1>2, <1>3, FS_Union
<1>6. Cardinality(A \cap C) = 0
  BY <1>3, FS_EmptySet
<1>7. Cardinality(all) = Cardinality(A) + Cardinality(B)
  BY <1>2, <1>4, <1>5, <1>6
<1> QED
  BY <1>4, <1>7 DEF Ways, A, B, all

\* A sequence of one element, the empty sequence, and what follows the head.
LEMMA WaysSingle ==
  ASSUME NEW x, NEW o
  PROVE  Ways(<<x>>, o) = Hit(x, o) /\ Ways(<<>>, o) = 0
<1>1. {k \in DOMAIN <<x>> : <<x>>[k] = o} = IF x = o THEN {1} ELSE {}
  OBVIOUS
<1>2. {k \in DOMAIN <<>> : <<>>[k] = o} = {}
  OBVIOUS
<1> QED
  BY <1>1, <1>2, FS_EmptySet, FS_Singleton DEF Ways, Hit

LEMMA WaysHead ==
  ASSUME NEW V, NEW s \in Seq(V), s # <<>>, NEW o
  PROVE  /\ Ways(s, o) = Hit(Head(s), o) + Ways(Tail(s), o)
         /\ Ways(s, o) \in Nat /\ Ways(Tail(s), o) \in Nat
<1>1. Head(s) \in V /\ Tail(s) \in Seq(V) /\ s = <<Head(s)>> \o Tail(s)
  OBVIOUS
<1>2. <<Head(s)>> \in Seq(V)
  BY <1>1
<1>3. Ways(<<Head(s)>> \o Tail(s), o) = Ways(<<Head(s)>>, o) + Ways(Tail(s), o)
  BY <1>1, <1>2, WaysConcat
<1>4. Ways(s, o) \in Nat /\ Ways(Tail(s), o) \in Nat
  BY <1>1, WaysConcat
<1>5. Ways(<<Head(s)>>, o) = Hit(Head(s), o)
  BY WaysSingle
<1>6. Ways(s, o) = Ways(<<Head(s)>> \o Tail(s), o)
  BY <1>1, Zenon
<1> QED
  BY <1>3, <1>4, <1>5, <1>6, Zenon
=============================================================================
