--------------------- MODULE OwnershipSummaries_proofs ----------------------
(***************************************************************************)
(* What the analysis of a whole program comes to, for every program: no    *)
(* growth of a block is forgotten, the contracts have agreed before errors *)
(* are looked for, the answer is one solution of all functions, and what   *)
(* is moved on some path and used there is reported.                       *)
(*                                                                         *)
(* States are ordered by what they know (StateCovered), and joins only add *)
(* to them: that is what makes the worklist right in every order.  The     *)
(* worklist itself is deterministic, so the pass that collects the errors  *)
(* meets the states that the contracts were learned from.  Loans make the  *)
(* transfer other than monotone, but whether bindings are live does not    *)
(* depend on them (Follows).  SummaryInv, towards the end, is the          *)
(* inductive invariant.                                                    *)
(***************************************************************************)
EXTENDS OwnershipSummaries, Counting_proofs, TLAPS

-----------------------------------------------------------------------------
(* States cover each other.                                                *)

LEMMA ProvenanceKnown == \A p : ProvenanceCovered(p, p)
  BY DEF ProvenanceCovered

LEMMA NormalizeIs ==
  ASSUME NEW c, NEW l
  PROVE  LET n == Normalize([components |-> c, loans |-> l])
         IN  n.loans = l /\ n.components \in {c, {<< <<>>, Unknown >>}}
  BY DEF Normalize

LEMMA JoinFromLeft ==
  ASSUME NEW o, NEW p, NEW q, ProvenanceCovered(o, p)
  PROVE  ProvenanceCovered(o, JoinProvenance(p, q))
<1> DEFINE c == p.components \cup q.components
           l == p.loans \cup q.loans
           n == Normalize([components |-> c, loans |-> l])
<1>1. n.loans = l /\ n.components \in {c, {<< <<>>, Unknown >>}}
  BY NormalizeIs
<1>2. CASE p.components = {<< <<>>, Unknown >>}
  <2>1. << <<>>, Unknown >> \in c
    BY <1>2
  <2>2. TooDeep(<< <<>>, Unknown >>)
    BY DEF TooDeep
  <2>3. n.components = {<< <<>>, Unknown >>}
    BY <2>1, <2>2 DEF Normalize
  <2> QED
    BY <1>1, <2>3 DEF ProvenanceCovered, JoinProvenance
<1>3. CASE o.components \subseteq p.components
  BY <1>1, <1>3 DEF ProvenanceCovered, JoinProvenance
<1> QED
  BY <1>2, <1>3 DEF ProvenanceCovered

LEMMA JoinFromRight ==
  ASSUME NEW p, NEW q
  PROVE  ProvenanceCovered(q, JoinProvenance(p, q))
<1> DEFINE c == p.components \cup q.components
           l == p.loans \cup q.loans
           n == Normalize([components |-> c, loans |-> l])
<1>1. n.loans = l /\ n.components \in {c, {<< <<>>, Unknown >>}}
  BY NormalizeIs
<1> QED
  BY <1>1 DEF ProvenanceCovered, JoinProvenance

LEMMA StartsCovered == \A s : StateCovered(s, Restart(s))
  BY ProvenanceKnown DEF StateCovered, Restart

\* What was covered is still covered when another path arrives.
LEMMA JoinKeeps ==
  ASSUME NEW o, NEW s, NEW x, StateCovered(o, s)
  PROVE  StateCovered(o, JoinState(s, x))
<1> DEFINE j == JoinState(s, x)
<1>1. \A b \in Binding : /\ o.initialized[b] \subseteq j.initialized[b]
                         /\ ProvenanceCovered(o.bindings[b], j.bindings[b])
  BY JoinFromLeft DEF StateCovered, JoinState
<1>2. ASSUME NEW v \in DOMAIN o.values
      PROVE  v \in DOMAIN j.values /\ ProvenanceCovered(o.values[v], j.values[v])
  <2>1. v \in DOMAIN s.values /\ ProvenanceCovered(o.values[v], s.values[v])
    BY DEF StateCovered
  <2>2. Get(s.values, v) = s.values[v]
    BY <2>1 DEF Get
  <2>3. v \in DOMAIN j.values
    BY <2>1 DEF JoinState
  <2>4. j.values[v] = JoinProvenance(s.values[v], Get(x.values, v))
    BY <2>1, <2>2 DEF JoinState
  <2> QED
    BY <2>1, <2>3, <2>4, JoinFromLeft
<1>3. ASSUME NEW l \in DOMAIN o.loans
      PROVE  /\ l \in DOMAIN j.loans
             /\ o.loans[l].origins \subseteq j.loans[l].origins
             /\ o.loans[l].scopes \subseteq j.loans[l].scopes
             /\ o.loans[l].parents \subseteq j.loans[l].parents
  <2>1. /\ l \in DOMAIN s.loans
        /\ o.loans[l].origins \subseteq s.loans[l].origins
        /\ o.loans[l].scopes \subseteq s.loans[l].scopes
        /\ o.loans[l].parents \subseteq s.loans[l].parents
    BY DEF StateCovered
  <2>2. l \in DOMAIN j.loans /\ j.loans[l] \in {s.loans[l], JoinLoan(s.loans[l], x.loans[l])}
    BY <2>1 DEF JoinState
  <2> QED
    BY <2>1, <2>2 DEF JoinLoan
<1> QED
  BY <1>1, <1>2, <1>3 DEF StateCovered

\* Where paths meet, what arrives is covered.
LEMMA JoinCovers ==
  ASSUME NEW s, NEW x
  PROVE  StateCovered(x, JoinState(s, x))
<1> DEFINE j == JoinState(s, x)
<1>1. \A b \in Binding : /\ x.initialized[b] \subseteq j.initialized[b]
                         /\ ProvenanceCovered(x.bindings[b], j.bindings[b])
  BY JoinFromRight DEF JoinState
<1>2. ASSUME NEW v \in DOMAIN x.values
      PROVE  v \in DOMAIN j.values /\ ProvenanceCovered(x.values[v], j.values[v])
  <2>1. Get(x.values, v) = x.values[v]
    BY DEF Get
  <2>2. v \in DOMAIN j.values /\ j.values[v] = JoinProvenance(Get(s.values, v), x.values[v])
    BY <2>1 DEF JoinState
  <2> QED
    BY <2>2, JoinFromRight
<1>3. ASSUME NEW l \in DOMAIN x.loans
      PROVE  /\ l \in DOMAIN j.loans
             /\ x.loans[l].origins \subseteq j.loans[l].origins
             /\ x.loans[l].scopes \subseteq j.loans[l].scopes
             /\ x.loans[l].parents \subseteq j.loans[l].parents
  <2>1. l \in DOMAIN j.loans /\ j.loans[l] \in {x.loans[l], JoinLoan(s.loans[l], x.loans[l])}
    BY DEF JoinState
  <2> QED
    BY <2>1 DEF JoinLoan
<1> QED
  BY <1>1, <1>2, <1>3 DEF StateCovered

-----------------------------------------------------------------------------
(* A successor is served.                                                  *)

LEMMA JoinedIs ==
  ASSUME NEW states, NEW t, NEW out
  PROVE  LET j == Joined(states, t, out)
         IN  /\ DOMAIN j = DOMAIN states \cup {t}
             /\ StateCovered(out, j[t])
             /\ \A b \in DOMAIN states \ {t} : j[b] = states[b]
             /\ \A b \in DOMAIN states : \A o :
                  StateCovered(o, states[b]) => StateCovered(o, j[b])
<1> DEFINE j == Joined(states, t, out)
<1>1. DOMAIN j = DOMAIN states \cup {t} /\ \A b \in DOMAIN states \ {t} : j[b] = states[b]
  BY DEF Joined, Put
<1>2. t \in DOMAIN states => j[t] = JoinState(states[t], out)
  BY DEF Joined, Put
<1>3. t \notin DOMAIN states => j[t] = Restart(out)
  BY DEF Joined, Put
<1>4. StateCovered(out, j[t])
  BY <1>2, <1>3, JoinCovers, StartsCovered
<1>5. ASSUME NEW b \in DOMAIN states, NEW o, StateCovered(o, states[b])
      PROVE  StateCovered(o, j[b])
  BY <1>1, <1>2, <1>5, JoinKeeps
<1> QED
  BY <1>1, <1>4, <1>5

LEMMA RequeueIs ==
  ASSUME NEW states, NEW t, NEW out, NEW queue \in Seq(DOMAIN states)
  PROVE  LET q == Requeue(states, t, out, queue)
         IN  /\ q \in Seq(DOMAIN states \cup {t})
             /\ ToSet(queue) \subseteq ToSet(q)
             /\ t \in ToSet(q) \/ (t \in DOMAIN states /\ Joined(states, t, out) = states)
<1> DEFINE S == DOMAIN states \cup {t}
           q == Requeue(states, t, out, queue)
           a == Append(queue, t)
<1>1. queue \in Seq(S)
  OBVIOUS
<1>2. a \in Seq(S) /\ Len(a) = Len(queue) + 1 /\ a[Len(queue) + 1] = t
      /\ \A i \in 1..Len(queue) : a[i] = queue[i]
  BY <1>1
<1>3. DOMAIN a = 1..(Len(queue) + 1) /\ DOMAIN queue = 1..Len(queue) /\ Len(queue) \in Nat
  BY <1>1, <1>2
<1>4. ToSet(queue) \subseteq ToSet(a) /\ t \in ToSet(a)
  BY <1>2, <1>3 DEF ToSet
<1>5. CASE t \in DOMAIN states /\ Joined(states, t, out) = states
  <2>1. q = queue
    BY <1>5 DEF Requeue
  <2> QED
    BY <1>1, <1>5, <2>1
<1>6. CASE t \in ToSet(queue)
  <2>1. q = queue
    BY <1>6 DEF Requeue
  <2> QED
    BY <1>1, <1>6, <2>1
<1>7. CASE ~(t \in DOMAIN states /\ Joined(states, t, out) = states) /\ t \notin ToSet(queue)
  <2>1. q = a
    BY <1>7 DEF Requeue
  <2> QED
    BY <1>2, <1>4, <2>1
<1> QED
  BY <1>5, <1>6, <1>7

\* A visit of block b under way: the successors in `served` have received
\* what holds at its end, and if its own entry grew it is queued again.
Serving(f, c, b, entry, out, served, m) ==
  /\ m.queue \in Seq(DOMAIN m.states)
  /\ DOMAIN m.states \subseteq DOMAIN f.blocks
  /\ 1 \in DOMAIN m.states /\ StateCovered(Start, m.states[1])
  /\ b \in DOMAIN m.states
  /\ b \notin ToSet(m.queue) => m.states[b] = entry
  /\ \A t \in served : t \in DOMAIN m.states /\ StateCovered(out, m.states[t])
  /\ \A x \in DOMAIN m.states \ (ToSet(m.queue) \cup {b}) : Settled(f, c, m.states, x)

LEMMA StepServes ==
  ASSUME NEW f, NEW c, NEW b, NEW entry, NEW out, NEW served, NEW m,
         NEW t \in DOMAIN f.blocks,
         Serving(f, c, b, entry, out, served, m)
  PROVE  Serving(f, c, b, entry, out, served \cup {t}, Step(out, t, m))
<1> DEFINE j == Joined(m.states, t, out)
           q == Requeue(m.states, t, out, m.queue)
           n == Step(out, t, m)
<1>1. n.states = j /\ n.queue = q
  BY DEF Step
<1>2. /\ DOMAIN j = DOMAIN m.states \cup {t}
      /\ StateCovered(out, j[t])
      /\ \A x \in DOMAIN m.states \ {t} : j[x] = m.states[x]
      /\ \A x \in DOMAIN m.states : \A o : StateCovered(o, m.states[x]) => StateCovered(o, j[x])
  BY JoinedIs
<1>3. m.queue \in Seq(DOMAIN m.states)
  BY DEF Serving
<1>4. /\ q \in Seq(DOMAIN m.states \cup {t})
      /\ ToSet(m.queue) \subseteq ToSet(q)
      /\ t \in ToSet(q) \/ (t \in DOMAIN m.states /\ j = m.states)
  BY <1>3, RequeueIs
<1> HIDE DEF j, q
<1>5. q \in Seq(DOMAIN j) /\ DOMAIN j \subseteq DOMAIN f.blocks
  BY <1>2, <1>4 DEF Serving
<1>6. 1 \in DOMAIN j /\ StateCovered(Start, j[1])
  BY <1>2 DEF Serving
<1>7. b \in DOMAIN j /\ (b \notin ToSet(q) => j[b] = entry)
  BY <1>2, <1>4 DEF Serving
<1>8. \A y \in served \cup {t} : y \in DOMAIN j /\ StateCovered(out, j[y])
  BY <1>2 DEF Serving
<1>9. ASSUME NEW x \in DOMAIN j \ (ToSet(q) \cup {b})
      PROVE  Settled(f, c, j, x)
  <2>1. x \in DOMAIN m.states \ (ToSet(m.queue) \cup {b}) /\ j[x] = m.states[x]
    BY <1>2, <1>4
  <2>2. Settled(f, c, m.states, x)
    BY <2>1 DEF Serving
  <2> QED
    BY <1>2, <2>1, <2>2 DEF Settled
<1> QED
  BY <1>1, <1>5, <1>6, <1>7, <1>8, <1>9 DEF Serving

LEMMA PlanIs ==
  ASSUME NEW p \in Plan, NEW k \in DOMAIN p
  PROVE  /\ Len(p) \in Nat /\ DOMAIN p = 1..Len(p)
         /\ 1 \in DOMAIN p[k].blocks
         /\ \A b \in DOMAIN p[k].blocks :
              /\ IsCode(p[k].blocks[b].code)
              /\ p[k].blocks[b].next \in Successors(p[k].blocks)
<1>1. p \in Seq(ToSet(p))
  BY PlanAssumption
<1> QED
  BY <1>1, PlanAssumption

LEMMA HeadAndTail ==
  ASSUME NEW S, NEW q \in Seq(S), q # <<>>
  PROVE  Head(q) \in S /\ Tail(q) \in Seq(S)
  OBVIOUS

\* A visit that begins: the block is off the queue and none is served.
LEMMA ServingBegins ==
  ASSUME NEW f, NEW c, NEW m,
         m.queue \in Seq(DOMAIN m.states), m.queue # <<>>,
         DOMAIN m.states \subseteq DOMAIN f.blocks,
         1 \in DOMAIN m.states, StateCovered(Start, m.states[1]),
         \A x \in DOMAIN m.states \ ToSet(m.queue) : Settled(f, c, m.states, x)
  PROVE  LET b == Head(m.queue)
         IN  Serving(f, c, b, m.states[b], Flow(f, c, m.states[b], b), {},
                     [states |-> m.states, queue |-> Tail(m.queue)])
<1> DEFINE b == Head(m.queue)
           q == Tail(m.queue)
<1>1. b \in DOMAIN m.states /\ q \in Seq(DOMAIN m.states)
  BY HeadAndTail
<1>2. ToSet(m.queue) \subseteq ToSet(q) \cup {b}
  <2>1. ASSUME NEW i \in DOMAIN m.queue
        PROVE  m.queue[i] = b \/ \E h \in DOMAIN q : q[h] = m.queue[i]
    <3>1. CASE i = 1
      BY <3>1
    <3>2. CASE i # 1
      <4>1. i - 1 \in 1..Len(q) /\ q[i - 1] = m.queue[i]
        BY <3>2
      <4> QED
        BY <1>1, <4>1
    <3> QED
      BY <3>1, <3>2
  <2> QED
    BY <2>1 DEF ToSet
<1> QED
  BY <1>1, <1>2 DEF Serving

\* All successors of a block are served.
LEMMA PassedServes ==
  ASSUME NEW f, NEW c, NEW b, NEW entry, NEW out, NEW m,
         f.blocks[b].next \in Successors(f.blocks),
         Serving(f, c, b, entry, out, {}, m)
  PROVE  Serving(f, c, b, entry, out, ToSet(f.blocks[b].next), Passed(out, f.blocks[b].next, m))
<1> DEFINE next == f.blocks[b].next
<1>1. CASE next = <<>>
  <2>1. ToSet(next) = {} /\ Len(next) = 0
    BY <1>1 DEF ToSet
  <2>2. Passed(out, next, m) = m
    BY <2>1 DEF Passed
  <2> QED
    BY <2>1, <2>2
<1>2. ASSUME NEW t \in DOMAIN f.blocks, next = <<t>>
      PROVE  Serving(f, c, b, entry, out, ToSet(next), Passed(out, next, m))
  <2>1. ToSet(next) = {} \cup {t} /\ Len(next) = 1 /\ next[1] = t
    BY <1>2 DEF ToSet
  <2>2. Passed(out, next, m) = Step(out, t, m)
    BY <2>1 DEF Passed
  <2> QED
    BY <2>1, <2>2, StepServes
<1>3. ASSUME NEW t \in DOMAIN f.blocks, NEW u \in DOMAIN f.blocks, next = <<t, u>>
      PROVE  Serving(f, c, b, entry, out, ToSet(next), Passed(out, next, m))
  <2>1. ToSet(next) = ({} \cup {t}) \cup {u} /\ Len(next) = 2 /\ next[1] = t /\ next[2] = u
    BY <1>3 DEF ToSet
  <2>2. Passed(out, next, m) = Step(out, u, Step(out, t, m))
    BY <2>1 DEF Passed
  <2>3. Serving(f, c, b, entry, out, {} \cup {t}, Step(out, t, m))
    BY StepServes
  <2>4. Serving(f, c, b, entry, out, ({} \cup {t}) \cup {u}, Step(out, u, Step(out, t, m)))
    BY <2>3, StepServes
  <2> QED
    BY <2>1, <2>2, <2>4
<1> QED
  BY <1>1, <1>2, <1>3 DEF Successors

\* When they are, the block is settled unless it waits again.
LEMMA ServingEnds ==
  ASSUME NEW f, NEW c, NEW b, NEW entry, NEW m,
         Serving(f, c, b, entry, Flow(f, c, entry, b), ToSet(f.blocks[b].next), m)
  PROVE  /\ m.queue \in Seq(DOMAIN m.states)
         /\ DOMAIN m.states \subseteq DOMAIN f.blocks
         /\ 1 \in DOMAIN m.states /\ StateCovered(Start, m.states[1])
         /\ \A x \in DOMAIN m.states \ ToSet(m.queue) : Settled(f, c, m.states, x)
<1>1. b \notin ToSet(m.queue) => Settled(f, c, m.states, b)
  BY DEF Serving, Settled
<1> QED
  BY <1>1 DEF Serving

-----------------------------------------------------------------------------
(* A worklist is deterministic: it has one end.                            *)

\* What the queue of a worklist and its states are after one more visit.
Turned(f, c, m) ==
  LET b == Head(m.queue)
  IN  Passed(Flow(f, c, m.states[b], b), f.blocks[b].next,
             [states |-> m.states, queue |-> Tail(m.queue)])
First == [states |-> <<Start>>, queue |-> <<1>>]
Turns(f, c, r, n) ==
  /\ DOMAIN r = 0..n /\ r[0] = First
  /\ \A i \in 0..(n - 1) : r[i].queue # <<>> /\ r[i + 1] = Turned(f, c, r[i])
Reached(f, c, states, queue) ==
  \E n \in Nat : \E r : Turns(f, c, r, n) /\ r[n].states = states /\ r[n].queue = queue

LEMMA FirstReached == \A f, c : Reached(f, c, <<Start>>, <<1>>)
<1> TAKE f, c
<1> DEFINE r == [i \in 0..0 |-> First]
<1>1. Turns(f, c, r, 0) /\ r[0] = First
  BY DEF Turns
<1> QED
  BY <1>1 DEF Reached, First

LEMMA TurnReached ==
  ASSUME NEW f, NEW c, NEW m, Reached(f, c, m.states, m.queue), m.queue # <<>>
  PROVE  LET t == Turned(f, c, m) IN Reached(f, c, t.states, t.queue)
<1>0. PICK n \in Nat : \E r : Turns(f, c, r, n) /\ r[n].states = m.states /\ r[n].queue = m.queue
  BY DEF Reached
<1>1. PICK r : Turns(f, c, r, n) /\ r[n].states = m.states /\ r[n].queue = m.queue
  BY <1>0
<1> DEFINE x == Turned(f, c, m)
           s == [i \in 0..(n + 1) |-> IF i = n + 1 THEN x ELSE r[i]]
<1>2. s[n + 1] = x /\ \A i \in 0..n : s[i] = r[i]
  OBVIOUS
<1>3. DOMAIN s = 0..(n + 1) /\ s[0] = First
  BY <1>1, <1>2 DEF Turns
<1> HIDE DEF s, x
<1>4. ASSUME NEW i \in 0..((n + 1) - 1)
      PROVE  s[i].queue # <<>> /\ s[i + 1] = Turned(f, c, s[i])
  <2>1. CASE i = n
    <3>1. Turned(f, c, r[n]) = x
      BY <1>1 DEF Turned, x
    <3> QED
      BY <1>1, <1>2, <2>1, <3>1
  <2>2. CASE i # n
    <3>1. i \in 0..(n - 1) /\ i \in 0..n /\ i + 1 \in 0..n
      BY <2>2
    <3> QED
      BY <1>1, <1>2, <3>1 DEF Turns
  <2> QED
    BY <2>1, <2>2
<1>5. Turns(f, c, s, n + 1)
  BY <1>3, <1>4 DEF Turns
<1> QED
  BY <1>2, <1>5 DEF Reached, x

LEMMA TurnsAgree ==
  ASSUME NEW f, NEW c, NEW r, NEW s, NEW n \in Nat, NEW m \in Nat, n <= m,
         Turns(f, c, r, n), Turns(f, c, s, m)
  PROVE  r[n] = s[n]
<1> DEFINE P == {i \in 0..n : r[i] = s[i]}
<1>1. 0 \in P
  BY DEF Turns
<1>2. ASSUME NEW i \in 0..(n - 1), i \in P
      PROVE  i + 1 \in P
  <2>1. i \in 0..(m - 1) /\ i + 1 \in 0..n /\ r[i] = s[i]
    BY <1>2
  <2> QED
    BY <2>1 DEF Turns
<1>3. \A i \in 0..n : i \in P
  <2> HIDE DEF P
  <2> QED
    BY <1>1, <1>2, SetInduction
<1> QED
  BY <1>3

LEMMA OneEnd ==
  ASSUME NEW f, NEW c, NEW a, NEW b, Reached(f, c, a, <<>>), Reached(f, c, b, <<>>)
  PROVE  a = b
<1> DEFINE Ends(r, n, x) == Turns(f, c, r, n) /\ r[n].states = x /\ r[n].queue = <<>>
<1>a. (\E n \in Nat : \E r : Ends(r, n, a)) /\ \E n \in Nat : \E r : Ends(r, n, b)
  BY DEF Reached
<1>b. PICK n \in Nat : \E r : Ends(r, n, a)
  BY <1>a
<1>c. PICK k \in Nat : \E s : Ends(s, k, b)
  BY <1>a
<1>1. PICK r : Turns(f, c, r, n) /\ r[n].states = a /\ r[n].queue = <<>>
  BY <1>b
<1>2. PICK s : Turns(f, c, s, k) /\ s[k].states = b /\ s[k].queue = <<>>
  BY <1>c
<1>3. CASE n < k
  <2>1. r[n] = s[n]
    <3>1. Turns(f, c, r, n) /\ Turns(f, c, s, k) /\ n <= k
      BY <1>1, <1>2, <1>3
    <3> QED
      BY <3>1, TurnsAgree
  <2>2. n \in 0..(k - 1)
    BY <1>3
  <2> QED
    BY <1>1, <1>2, <2>1, <2>2 DEF Turns
<1>4. CASE k < n
  <2>1. s[k] = r[k]
    <3>1. Turns(f, c, s, k) /\ Turns(f, c, r, n) /\ k <= n
      BY <1>1, <1>2, <1>4
    <3> QED
      BY <3>1, TurnsAgree
  <2>2. k \in 0..(n - 1)
    BY <1>4
  <2> QED
    BY <1>1, <1>2, <2>1, <2>2 DEF Turns
<1>5. CASE n = k
  <2>1. Turns(f, c, r, n) /\ Turns(f, c, s, n) /\ n <= n
    BY <1>1, <1>2, <1>5
  <2>2. r[n] = s[n]
    BY <2>1, TurnsAgree
  <2> QED
    BY <1>1, <1>2, <1>5, <2>2
<1> QED
  BY <1>3, <1>4, <1>5

-----------------------------------------------------------------------------
(* Contracts.                                                              *)

LEMMA EffectsJoined ==
  ASSUME NEW a, NEW b, NEW e \in b
  PROVE  /\ e[1] \in {w[1] : w \in JoinEffects(a, b)}
         /\ <<e[1], TRUE>> \in b => <<e[1], TRUE>> \in JoinEffects(a, b)
<1> DEFINE w == <<e[1], <<e[1], TRUE>> \in a \cup b>>
<1>1. w \in JoinEffects(a, b) /\ w[1] = e[1]
  BY DEF JoinEffects
<1>2. <<e[1], TRUE>> \in b => w = <<e[1], TRUE>>
  OBVIOUS
<1> QED
  BY <1>1, <1>2

\* What a contract has grown by is in it.
LEMMA GrownKeeps ==
  ASSUME NEW c, NEW f, NEW contracts, NEW report,
         Grown(c, Learned(f, contracts, report)) = c
  PROVE  Keeps(c, Learned(f, contracts, report))
<1> DEFINE d == Learned(f, contracts, report)
<1>1. /\ c.summary = JoinProvenance([Nothing EXCEPT !.components = c.summary],
                                    [Nothing EXCEPT !.components = d.summary]).components
      /\ c.stores = c.stores \cup d.stores
      /\ c.effects = JoinEffects(c.effects, d.effects)
  BY DEF Grown
<1>2. d.summary \subseteq c.summary \/ c.summary = {<< <<>>, Unknown >>}
  <2> DEFINE q == [Nothing EXCEPT !.components = d.summary]
  <2>1. q.components = d.summary
    BY DEF Nothing
  <2>2. ProvenanceCovered(q, JoinProvenance([Nothing EXCEPT !.components = c.summary], q))
    BY JoinFromRight
  <2> QED
    BY <1>1, <2>1, <2>2 DEF ProvenanceCovered
<1>3. ASSUME NEW e \in d.effects
      PROVE  /\ e[1] \in {w[1] : w \in c.effects}
             /\ <<e[1], TRUE>> \in d.effects => <<e[1], TRUE>> \in c.effects
  <2> DEFINE b == d.effects
             j == JoinEffects(c.effects, b)
  <2>1. e \in b /\ j = c.effects
    BY <1>1
  <2> HIDE DEF b
  <2>2. /\ e[1] \in {w[1] : w \in j}
        /\ <<e[1], TRUE>> \in b => <<e[1], TRUE>> \in j
    BY <2>1, EffectsJoined
  <2> USE DEF b
  <2> QED
    BY <2>1, <2>2
<1> QED
  BY <1>1, <1>2, <1>3 DEF Keeps

-----------------------------------------------------------------------------
(* What a path knows of its bindings, the solution knows.                  *)

\* The bindings that some message says are not live.
Blamed(an) == {b \in Binding : \E m \in LiveMessages : <<m, b>> \in an.errors}
Follows(p, s) ==
  /\ Shaped(p) /\ Shaped(s)
  /\ \A b \in Binding : p.initialized[b] \subseteq s.initialized[b]
  /\ Blamed(p) \subseteq Blamed(s)
\* A step that concerns no binding.
Quiet(an, new) ==
  Shaped(new) /\ new.initialized = an.initialized /\ Blamed(new) = Blamed(an)

LEMMA QuietFollows ==
  ASSUME NEW p, NEW s, NEW q, NEW t, Follows(p, s), Quiet(p, q), Quiet(s, t)
  PROVE  Follows(q, t)
  BY DEF Follows, Quiet

LEMMA ErrorIs ==
  ASSUME NEW an, Shaped(an), NEW m, NEW c
  PROVE  /\ Shaped(Error(an, m, c)) /\ Error(an, m, c).initialized = an.initialized
         /\ Error(an, m, c).errors = an.errors \cup {<<m, c>>}
         /\ Blamed(Error(an, m, c)) = Blamed(an) \cup {b \in Binding : b = c /\ m \in LiveMessages}
<1>1. Error(an, m, c).errors = an.errors \cup {<<m, c>>}
  BY DEF Error, Shaped, Fields
<1>2. Shaped(Error(an, m, c)) /\ Error(an, m, c).initialized = an.initialized
  BY DEF Error, Shaped, Fields
<1> QED
  BY <1>1, <1>2 DEF Blamed

LEMMA ErrorIfIs ==
  ASSUME NEW an, Shaped(an), NEW cond, NEW m, NEW c
  PROVE  /\ Shaped(ErrorIf(cond, an, m, c)) /\ ErrorIf(cond, an, m, c).initialized = an.initialized
         /\ m \notin LiveMessages => Quiet(an, ErrorIf(cond, an, m, c))
<1>1. CASE cond
  <2>1. ErrorIf(cond, an, m, c) = Error(an, m, c)
    BY <1>1 DEF ErrorIf
  <2>2. m \notin LiveMessages => {b \in Binding : b = c /\ m \in LiveMessages} = {}
    OBVIOUS
  <2>3. /\ Shaped(Error(an, m, c)) /\ Error(an, m, c).initialized = an.initialized
        /\ Blamed(Error(an, m, c)) = Blamed(an) \cup {b \in Binding : b = c /\ m \in LiveMessages}
    BY ErrorIs
  <2>4. m \notin LiveMessages => Blamed(Error(an, m, c)) = Blamed(an)
    BY <2>2, <2>3
  <2> QED
    BY <2>1, <2>3, <2>4 DEF Quiet
<1>2. CASE ~cond
  BY <1>2 DEF ErrorIf, Quiet
<1> QED
  BY <1>1, <1>2

\* A use is reported for the solution if it is for the path.
LEMMA LiveIs ==
  ASSUME NEW p, NEW s, Follows(p, s), NEW root
  PROVE  Follows(CheckLive(p, root), CheckLive(s, root))
<1> DEFINE m(an) == LiveMessage(an.initialized[root])
           no(an) == an.initialized[root] # {"live"}
<1>1. \A an : m(an) \in LiveMessages
  BY DEF LiveMessage, LiveMessages
<1>2. ASSUME NEW an, Shaped(an)
      PROVE  /\ Shaped(CheckLive(an, root)) /\ CheckLive(an, root).initialized = an.initialized
             /\ Blamed(CheckLive(an, root)) =
                  Blamed(an) \cup {b \in Binding : b = root /\ no(an)}
  <2>1. CASE no(an)
    <3>1. CheckLive(an, root) = Error(an, m(an), root)
      BY <2>1 DEF CheckLive, ErrorIf
    <3> QED
      BY <1>1, <1>2, <2>1, <3>1, ErrorIs
  <2>2. CASE ~no(an)
    BY <1>2, <2>2 DEF CheckLive, ErrorIf
  <2> QED
    BY <2>1, <2>2
<1>3. root \in Binding /\ no(p) => no(s)
  <2> SUFFICES ASSUME root \in Binding, no(p) PROVE no(s)
    OBVIOUS
  <2>1. p.initialized[root] \subseteq s.initialized[root] /\ p.initialized[root] # {}
    BY DEF Follows, Shaped
  <2> QED
    BY <2>1
<1> HIDE DEF no
<1> QED
  BY <1>2, <1>3 DEF Follows

\* Fields that do not concern bindings being live.
LEMMA QuietFields ==
  ASSUME NEW an, Shaped(an), NEW x
  PROVE  /\ Quiet(an, [an EXCEPT !.values = x])
         /\ Quiet(an, [an EXCEPT !.bindings = x])
         /\ Quiet(an, [an EXCEPT !.loans = x])
         /\ Quiet(an, [an EXCEPT !.returned = x])
  BY DEF Quiet, Shaped, Fields, Blamed

LEMMA QuietTwice ==
  ASSUME NEW a, NEW b, NEW c, Quiet(a, b), Quiet(b, c) PROVE Quiet(a, c)
  BY DEF Quiet

LEMMA EscapeIs ==
  ASSUME NEW fn, NEW p, NEW scope, NEW an, Shaped(an), NEW m, m \notin LiveMessages
  PROVE  Quiet(an, CheckEscape(fn, p, scope, an, m))
  BY ErrorIfIs DEF CheckEscape

LEMMA ExtendIs ==
  ASSUME NEW p, NEW scopes, NEW an, Shaped(an)
  PROVE  Quiet(an, ExtendLoans(p, scopes, an))
  BY QuietFields DEF ExtendLoans

LEMMA StoreIs ==
  ASSUME NEW fn, NEW ds, NEW source, NEW an, Shaped(an)
  PROVE  Quiet(an, StoreReference(fn, ds, source, an))
<1> DEFINE locals     == {d \in ds : IsLocal(d)}
           parameters == {d \in ds : IsParameter(d)}
           scopes     == {fn.scope[d[2]] : d \in locals} \cup {OuterScope(fn) : d \in parameters}
           errs       == UNION {StoreErrors(fn, source, an, d) : d \in ds}
           e          == ExtendLoans(source, scopes, an)
           st         == StoreReference(fn, ds, source, an)
<1>1. Quiet(an, e)
  BY ExtendIs
<1>2. \A m \in errs : m \notin LiveMessages
  BY DEF StoreErrors, LiveMessages
<1>3. /\ DOMAIN st = DOMAIN e /\ st.initialized = e.initialized
      /\ st.errors = e.errors \cup (errs \X {NoValue})
  <2> HIDE DEF e
  <2>1. Shaped(e)
    BY <1>1 DEF Quiet
  <2> QED
    BY <2>1 DEF StoreReference, Shaped, Fields, e
<1> HIDE DEF e, st, errs
<1>4. Blamed(st) = Blamed(e)
  BY <1>2, <1>3 DEF Blamed
<1>5. Shaped(e) /\ e.initialized = an.initialized /\ Blamed(e) = Blamed(an)
  BY <1>1 DEF Quiet
<1>6. Shaped(st)
  BY <1>3, <1>5 DEF Shaped
<1>7. Quiet(an, st)
  BY <1>3, <1>4, <1>5, <1>6 DEF Quiet
<1> QED
  BY <1>7 DEF st

\* One binding gets other alternatives.
Sets(an, new, root, x) ==
  /\ Shaped(new) /\ Blamed(new) = Blamed(an)
  /\ \A b \in Binding : new.initialized[b] = IF b = root THEN x ELSE an.initialized[b]

LEMMA SetsFollow ==
  ASSUME NEW p, NEW s, Follows(p, s), NEW root, NEW x, NEW q, NEW t,
         Sets(p, q, root, x), Sets(s, t, root, x)
  PROVE  Follows(q, t)
  BY DEF Follows, Sets

LEMMA SetsIs ==
  ASSUME NEW an, Shaped(an), NEW new, DOMAIN new = Fields, new.errors = an.errors,
         NEW root, NEW x \in (SUBSET Alternatives) \ {{}},
         new.initialized = [an.initialized EXCEPT ![root] = x]
  PROVE  Sets(an, new, root, x)
<1>1. Shaped(new)
  BY DEF Shaped
<1>2. Blamed(new) = Blamed(an)
  BY DEF Blamed
<1>3. \A b \in Binding : new.initialized[b] = IF b = root THEN x ELSE an.initialized[b]
  BY DEF Shaped
<1> QED
  BY <1>1, <1>2, <1>3 DEF Sets

LEMMA OneAlternative == {"live"} \in (SUBSET Alternatives) \ {{}} /\ {"moved"} \in (SUBSET Alternatives) \ {{}}
  BY DEF Alternatives

LEMMA QuietSelf == ASSUME NEW an, Shaped(an) PROVE Quiet(an, an)
  BY DEF Quiet

\* Quiet steps after each other.
LEMMA ThenError ==
  ASSUME NEW a, NEW an, Quiet(a, an), NEW m, m \notin LiveMessages, NEW cond, NEW c
  PROVE  Quiet(a, ErrorIf(cond, an, m, c))
<1>1. Quiet(an, ErrorIf(cond, an, m, c))
  BY ErrorIfIs DEF Quiet
<1> QED
  BY <1>1, QuietTwice
LEMMA ThenEscape ==
  ASSUME NEW a, NEW an, Quiet(a, an), NEW m, m \notin LiveMessages, NEW fn, NEW p, NEW scope
  PROVE  Quiet(a, CheckEscape(fn, p, scope, an, m))
  BY ThenError DEF CheckEscape
LEMMA ThenExtend ==
  ASSUME NEW a, NEW an, Quiet(a, an), NEW p, NEW scopes
  PROVE  Quiet(a, ExtendLoans(p, scopes, an))
<1>1. Quiet(an, ExtendLoans(p, scopes, an))
  BY ExtendIs DEF Quiet
<1> QED
  BY <1>1, QuietTwice
LEMMA ThenStore ==
  ASSUME NEW a, NEW an, Quiet(a, an), NEW fn, NEW ds, NEW source
  PROVE  Quiet(a, StoreReference(fn, ds, source, an))
<1>1. Quiet(an, StoreReference(fn, ds, source, an))
  BY StoreIs DEF Quiet
<1> QED
  BY <1>1, QuietTwice
LEMMA OtherMessages ==
  \A m \in {"reborrowed", "moved while borrowed", "accessed while borrowed", "move out of global",
            "move out of field", "immutable", "raw storage", "borrowed while borrowed", "unprovable",
            "escapes", "replaced while borrowed", "returned local", "call touches borrowed"} :
    m \notin LiveMessages
  BY DEF LiveMessages

LEMMA RejectFollows ==
  ASSUME NEW p, NEW s, Follows(p, s), NEW m
  PROVE  Follows(Reject(p, m), Reject(s, m))
<1>1. Shaped(p) /\ Shaped(s)
  BY DEF Follows
<1> DEFINE more == {b \in Binding : b = NoValue /\ m \in LiveMessages}
<1>2. /\ Shaped(Error(p, m, NoValue)) /\ Error(p, m, NoValue).initialized = p.initialized
      /\ Blamed(Error(p, m, NoValue)) = Blamed(p) \cup more
  BY <1>1, ErrorIs
<1>3. /\ Shaped(Error(s, m, NoValue)) /\ Error(s, m, NoValue).initialized = s.initialized
      /\ Blamed(Error(s, m, NoValue)) = Blamed(s) \cup more
  BY <1>1, ErrorIs
<1> QED
  BY <1>2, <1>3 DEF Reject, Follows

LEMMA DeclareFollows ==
  ASSUME NEW p, NEW s, Follows(p, s), NEW binding, NEW initialized
  PROVE  Follows(Declare(p, binding, initialized), Declare(s, binding, initialized))
<1> DEFINE x == {IF initialized THEN "live" ELSE "uninitialized"}
<1>1. x \in (SUBSET Alternatives) \ {{}}
  BY DEF Alternatives
<1>2. ASSUME NEW an, Shaped(an) PROVE Sets(an, Declare(an, binding, initialized), binding, x)
  <2> HIDE DEF x
  <2> DEFINE n == Declare(an, binding, initialized)
  <2>1. DOMAIN n = Fields /\ n.errors = an.errors
        /\ n.initialized = [an.initialized EXCEPT ![binding] = x]
    BY <1>2 DEF Declare, Shaped, Fields, x
  <2> HIDE DEF n
  <2>2. Sets(an, n, binding, x)
    BY <1>1, <1>2, <2>1, SetsIs
  <2> QED
    BY <2>2 DEF n
<1> QED
  BY <1>2, SetsFollow DEF Follows

LEMMA ParameterIs ==
  ASSUME NEW an, Shaped(an), NEW op
  PROVE  Quiet(an, OpenParameter(an, op))
  BY DEF OpenParameter, Quiet, Shaped, Fields, Blamed

LEMMA AccessFollows ==
  ASSUME NEW fn, NEW p, NEW s, Follows(p, s), NEW place, NEW access, NEW value
  PROVE  Follows(Access(fn, p, place, access, value), Access(fn, s, place, access, value))
<1> DEFINE root == place.root
           consumed == access = "consume" /\ place.path = <<>>
           e1(an) == CheckLive(an, root)
           e2(an) == ErrorIf(Reborrowed(an, root, access), e1(an), "reborrowed", root)
           e3(an) == ErrorIf(Conflicts(fn, place, AccessKind(access), an), e2(an),
                             IF access = "consume" THEN "moved while borrowed"
                             ELSE "accessed while borrowed", root)
           e4(an) == ErrorIf(access = "consume" /\ root \in Globals, e3(an),
                             "move out of global", root)
           e5(an) == ErrorIf(access = "consume" /\ place.path # <<>>, e4(an),
                             "move out of field", root)
           e6(an) == ErrorIf(access = "write" /\ ~place.writable, e5(an), "immutable", root)
           end(an) == Access(fn, an, place, access, value)
<1>1. Follows(e1(p), e1(s))
  BY LiveIs
<1>2. ASSUME NEW an, Shaped(e1(an)) PROVE Quiet(e1(an), e6(an))
  <2> HIDE DEF e1
  <2>1. Quiet(e1(an), e2(an))
    BY <1>2, ThenError, QuietSelf, OtherMessages
  <2>2. Quiet(e1(an), e3(an))
    <3> DEFINE m == IF access = "consume" THEN "moved while borrowed" ELSE "accessed while borrowed"
    <3>1. m \notin LiveMessages
      BY OtherMessages
    <3> HIDE DEF e2, m
    <3> QED
      BY <2>1, <3>1, ThenError DEF m
  <2>3. Quiet(e1(an), e4(an))
    <3> HIDE DEF e3
    <3> QED
      BY <2>2, ThenError, OtherMessages
  <2>4. Quiet(e1(an), e5(an))
    <3> HIDE DEF e4
    <3> QED
      BY <2>3, ThenError, OtherMessages
  <2> HIDE DEF e5
  <2> QED
    BY <2>4, ThenError, OtherMessages
<1>3. Follows(e6(p), e6(s))
  <2> HIDE DEF e1, e6
  <2> QED
    BY <1>1, <1>2, QuietFollows DEF Follows
<1>4. \A an : end(an) = [e6(an) EXCEPT
         !.values = Put(@, value, PlaceProvenance(fn, place, an)),
         !.initialized[root] = IF consumed THEN {"moved"} ELSE @]
  BY DEF Access
<1> HIDE DEF e6, end
<1>5. CASE consumed
  <2>1. ASSUME NEW an, Shaped(e6(an)) PROVE Sets(e6(an), end(an), root, {"moved"})
    <3>1. DOMAIN end(an) = Fields /\ end(an).errors = e6(an).errors
          /\ end(an).initialized = [e6(an).initialized EXCEPT ![root] = {"moved"}]
      BY <1>4, <1>5, <2>1 DEF Shaped, Fields
    <3> QED
      BY <2>1, <3>1, SetsIs, OneAlternative
  <2> QED
    BY <1>3, <2>1, SetsFollow DEF Follows, end
<1>6. CASE ~consumed
  <2>1. ASSUME NEW an, Shaped(e6(an)) PROVE Quiet(e6(an), end(an))
    <3>1. DOMAIN end(an) = Fields /\ end(an).errors = e6(an).errors
          /\ end(an).initialized = e6(an).initialized
      BY <1>4, <1>6, <2>1 DEF Shaped, Fields
    <3> QED
      BY <2>1, <3>1 DEF Quiet, Shaped, Blamed
  <2> QED
    BY <1>3, <2>1, QuietFollows DEF Follows, end
<1> QED
  BY <1>5, <1>6

LEMMA BorrowFollows ==
  ASSUME NEW fn, NEW p, NEW s, Follows(p, s), NEW place, NEW kind, NEW value, NEW scope
  PROVE  Follows(Borrow(fn, p, place, kind, value, scope), Borrow(fn, s, place, kind, value, scope))
<1> DEFINE root == place.root
           e1(an) == ErrorIf(place.raw, an, "raw storage", root)
           e2(an) == CheckLive(e1(an), root)
           e3(an) == ErrorIf(kind = "exclusive" /\ ~place.writable, e2(an), "immutable", root)
           e4(an) == ErrorIf(Conflicts(fn, place, kind, an), e3(an), "borrowed while borrowed", root)
           end(an) == Borrow(fn, an, place, kind, value, scope)
<1>1. Follows(e1(p), e1(s))
  <2>1. \A an : Shaped(an) => Quiet(an, e1(an))
    BY ThenError, QuietSelf, OtherMessages
  <2> HIDE DEF e1
  <2> QED
    BY <2>1, QuietFollows DEF Follows
<1>2. Follows(e2(p), e2(s))
  <2> HIDE DEF e1
  <2> QED
    BY <1>1, LiveIs
<1>3. ASSUME NEW an, Shaped(e2(an)) PROVE Quiet(e2(an), end(an))
  <2> HIDE DEF e1, e2
  <2>1. Quiet(e2(an), e3(an))
    BY <1>3, ThenError, QuietSelf, OtherMessages
  <2>2. Quiet(e2(an), e4(an))
    <3> HIDE DEF e3
    <3> QED
      BY <2>1, ThenError, OtherMessages
  <2>3. Quiet(e4(an), end(an))
    <3>1. end(an) = [e4(an) EXCEPT
             !.loans = Put(@, value, OpenLoan(PlaceOrigins(fn, place, an), kind, {scope},
                                              Get(an.values, place.through).loans)),
             !.values = Put(@, value, Whole(PlaceOrigins(fn, place, an), {value}))]
      BY DEF Borrow, e1, e2
    <3>2. Shaped(e4(an))
      BY <2>2 DEF Quiet
    <3> HIDE DEF e4, end
    <3> QED
      BY <3>1, <3>2 DEF Shaped, Fields, Quiet, Blamed
  <2> HIDE DEF e3, e4, end
  <2> QED
    BY <2>2, <2>3, QuietTwice
<1> HIDE DEF e2, end
<1>4. Follows(end(p), end(s))
  BY <1>2, <1>3, QuietFollows DEF Follows
<1> QED
  BY <1>4 DEF end

LEMMA BindFollows ==
  ASSUME NEW fn, NEW p, NEW s, Follows(p, s), NEW binding, NEW value
  PROVE  Follows(Bind(fn, p, binding, value), Bind(fn, s, binding, value))
<1>1. ASSUME NEW an, Shaped(an) PROVE Sets(an, Bind(fn, an, binding, value), binding, {"live"})
  <2> DEFINE q  == Get(an.values, value)
             e2 == CheckKnown(q, an)
             e3 == CheckEscape(fn, q, fn.scope[binding], e2, "escapes")
             e4 == ExtendLoans(q, {fn.scope[binding]}, e3)
             n  == Bind(fn, an, binding, value)
  <2>1. Quiet(an, e2)
    BY <1>1, ThenError, QuietSelf, OtherMessages DEF CheckKnown
  <2>2. Quiet(an, e3)
    <3> HIDE DEF e2
    <3> QED
      BY <2>1, ThenEscape, OtherMessages
  <2>3. n = [e4 EXCEPT !.bindings[binding] = q, !.initialized[binding] = {"live"}]
    BY DEF Bind
  <2>4. Quiet(an, e4)
    <3> HIDE DEF e3
    <3> QED
      BY <2>2, ThenExtend
  <2> HIDE DEF e2, e3, e4, n, q
  <2>5. /\ DOMAIN n = Fields /\ n.errors = e4.errors
        /\ n.initialized = [e4.initialized EXCEPT ![binding] = {"live"}]
    BY <2>3, <2>4 DEF Quiet, Shaped, Fields
  <2>6. Sets(e4, n, binding, {"live"})
    BY <2>4, <2>5, SetsIs, OneAlternative DEF Quiet
  <2>7. Sets(an, n, binding, {"live"})
    BY <2>4, <2>6 DEF Quiet, Sets
  <2> QED
    BY <2>7 DEF n
<1> QED
  BY <1>1, SetsFollow DEF Follows

LEMMA AssignFollows ==
  ASSUME NEW fn, NEW p, NEW s, Follows(p, s), NEW place, NEW value
  PROVE  Follows(Assign(fn, p, place, value), Assign(fn, s, place, value))
<1> DEFINE root == place.root
           q(an)  == Get(an.values, value)
           e1(an) == ErrorIf(~place.writable, an, "immutable", root)
           e2(an) == ErrorIf(Conflicts(fn, place, "exclusive", an), e1(an),
                             "replaced while borrowed", root)
           e3(an) == IF place.through # NoValue /\ q(an).components # {}
                     THEN StoreReference(fn, PlaceOrigins(fn, place, an), q(an), e2(an)) ELSE e2(an)
           e4(an) == CheckEscape(fn, q(an), fn.scope[root], e3(an), "escapes")
           e5(an) == ExtendLoans(q(an), {fn.scope[root]}, e4(an))
           end(an) == Assign(fn, an, place, value)
<1>1. ASSUME NEW an, Shaped(an) PROVE Quiet(an, e5(an))
  <2> HIDE DEF q
  <2>1. Quiet(an, e1(an))
    BY <1>1, ThenError, QuietSelf, OtherMessages
  <2>2. Quiet(an, e2(an))
    <3> HIDE DEF e1
    <3> QED
      BY <2>1, ThenError, OtherMessages
  <2>3. Quiet(an, e3(an))
    <3> HIDE DEF e2
    <3> QED
      BY <2>2, ThenStore
  <2>4. Quiet(an, e4(an))
    <3> HIDE DEF e3
    <3> QED
      BY <2>3, ThenEscape, OtherMessages
  <2> HIDE DEF e4
  <2> QED
    BY <2>4, ThenExtend
<1>2. \A an : end(an) =
        IF place.path = <<>>
        THEN [e5(an) EXCEPT !.bindings[root] = q(an), !.initialized[root] = {"live"}]
        ELSE [e5(an) EXCEPT !.bindings[root] = JoinProvenance(@, At(q(an), place.path))]
  BY DEF Assign
<1> HIDE DEF q, e5, end
<1>3. CASE place.path = <<>>
  <2>1. ASSUME NEW an, Shaped(an) PROVE Sets(an, end(an), root, {"live"})
    <3>1. Quiet(an, e5(an))
      BY <1>1, <2>1
    <3>2. /\ DOMAIN end(an) = Fields /\ end(an).errors = e5(an).errors
          /\ end(an).initialized = [e5(an).initialized EXCEPT ![root] = {"live"}]
      BY <1>2, <1>3, <3>1 DEF Quiet, Shaped, Fields
    <3>3. Sets(e5(an), end(an), root, {"live"})
      BY <3>1, <3>2, SetsIs, OneAlternative DEF Quiet
    <3> QED
      BY <3>1, <3>3 DEF Quiet, Sets
  <2> QED
    BY <2>1, SetsFollow DEF Follows, end
<1>4. CASE place.path # <<>>
  <2>1. ASSUME NEW an, Shaped(an) PROVE Quiet(an, end(an))
    <3>1. Quiet(an, e5(an))
      BY <1>1, <2>1
    <3>2. /\ DOMAIN end(an) = Fields /\ end(an).errors = e5(an).errors
          /\ end(an).initialized = an.initialized
      BY <1>2, <1>4, <3>1 DEF Quiet, Shaped, Fields
    <3> QED
      BY <3>1, <3>2 DEF Quiet, Shaped, Blamed
  <2> QED
    BY <2>1, QuietFollows DEF Follows, end
<1> QED
  BY <1>3, <1>4

\* The recursive functions of ApplyEffects, Flow and Walk exist; the step of
\* each is the operator it is written with.
EffectOn(fn, call, k, a) ==
  CHOOSE x \in {ApplyEffect(fn, call, b, call.referenceEffects[k]) : b \in {a}} : TRUE
AreEffects(fn, call, an, p) ==
  p = [n \in 0..Len(call.referenceEffects) |->
         IF n = 0 THEN an ELSE EffectOn(fn, call, n, p[n - 1])]
Effects(fn, call, an) == CHOOSE p : AreEffects(fn, call, an, p)

LEMMA EffectsAre ==
  ASSUME NEW fn, NEW call, Len(call.referenceEffects) \in Nat, NEW an
  PROVE  /\ ApplyEffects(fn, call, an) = Effects(fn, call, an)[Len(call.referenceEffects)]
         /\ Effects(fn, call, an)[0] = an
         /\ \A k \in 1..Len(call.referenceEffects) : Effects(fn, call, an)[k] = EffectOn(fn, call, k, Effects(fn, call, an)[k - 1])
<1> DEFINE N == Len(call.referenceEffects)
           Upto(n, p) == p = [k \in 0..n |-> IF k = 0 THEN an ELSE EffectOn(fn, call, k, p[k - 1])]
           P == {n \in 0..N : \E p : Upto(n, p)}
<1>1. 0 \in P
  <2> DEFINE p == [k \in 0..0 |-> an]
  <2>1. \A k \in 0..0 : p[k] = IF k = 0 THEN an ELSE EffectOn(fn, call, k, p[k - 1])
    OBVIOUS
  <2>2. p = [k \in 0..0 |-> IF k = 0 THEN an ELSE EffectOn(fn, call, k, p[k - 1])]
    BY <2>1
  <2>3. 0 \in 0..N
    OBVIOUS
  <2> QED
    BY <2>2, <2>3
<1>2. ASSUME NEW n \in 0..N - 1, n \in P PROVE n + 1 \in P
  <2>1. PICK p : Upto(n, p)
    BY <1>2
  <2> DEFINE q == [k \in 0..n + 1 |-> IF k = n + 1 THEN EffectOn(fn, call, n + 1, p[n]) ELSE p[k]]
  <2>2. n \in Nat /\ n + 1 \in 0..N
    OBVIOUS
  <2>3. ASSUME NEW k \in 0..n + 1
        PROVE  q[k] = IF k = 0 THEN an ELSE EffectOn(fn, call, k, q[k - 1])
    <3>1. CASE k = 0
      BY <2>1, <2>2, <3>1
    <3>2. CASE k = n + 1
      <4>1. k - 1 = n /\ n \in 0..n + 1 /\ n # n + 1 /\ k # 0
        BY <2>2, <3>2
      <4>2. q[k - 1] = p[n]
        BY <4>1
      <4>3. q[k] = EffectOn(fn, call, n + 1, p[n])
        BY <3>2
      <4> QED
        BY <3>2, <4>1, <4>2, <4>3
    <3>3. CASE k # 0 /\ k # n + 1
      <4>1. k \in 0..n /\ k - 1 \in 0..n + 1 /\ k - 1 # n + 1
        BY <2>2, <3>3
      <4>2. p[k] = EffectOn(fn, call, k, p[k - 1])
        BY <2>1, <3>3, <4>1
      <4>3. q[k] = p[k] /\ q[k - 1] = p[k - 1]
        BY <3>3, <4>1
      <4> QED
        BY <3>3, <4>2, <4>3
    <3> QED
      BY <3>1, <3>2, <3>3
  <2>4. Upto(n + 1, q)
    <3> DEFINE r == [k \in 0..n + 1 |-> IF k = 0 THEN an ELSE EffectOn(fn, call, k, q[k - 1])]
    <3>1. \A k \in 0..n + 1 : q[k] = r[k]
      BY <2>3
    <3> QED
      BY <3>1
  <2> QED
    BY <2>2, <2>4
<1>3. \E p : AreEffects(fn, call, an, p)
  <2> HIDE DEF P
  <2>1. \A n \in 0..N : n \in P
    BY <1>1, <1>2, SetInduction
  <2>2. N \in P
    BY <2>1
  <2> QED
    BY <2>2 DEF P, AreEffects
<1>4. LET p == Effects(fn, call, an) IN AreEffects(fn, call, an, p)
  BY <1>3 DEF Effects
<1>5. ApplyEffects(fn, call, an) = Effects(fn, call, an)[N]
  BY DEF ApplyEffects, Effects, AreEffects, EffectOn
<1> DEFINE ps == Effects(fn, call, an)
<1>6. ps = [k \in 0..N |-> IF k = 0 THEN an ELSE EffectOn(fn, call, k, ps[k - 1])]
  BY <1>4 DEF AreEffects
<1> HIDE DEF ps
<1>7. \A k \in 0..N : ps[k] = IF k = 0 THEN an ELSE EffectOn(fn, call, k, ps[k - 1])
  BY <1>6
<1>8. 0 \in 0..N /\ \A k \in 1..N : k \in 0..N /\ k # 0
  OBVIOUS
<1> QED
  BY <1>5, <1>7, <1>8 DEF ps

OpOn(f, contracts, b, k, a) ==
  CHOOSE s \in {Transfer(f.fn, x, Attached(f.blocks[b].code[k], contracts)) : x \in {a}} : TRUE
AreStates(f, contracts, b, an, p) ==
  p = [n \in 0..Len(f.blocks[b].code) |->
         IF n = 0 THEN an ELSE OpOn(f, contracts, b, n, p[n - 1])]
States(f, contracts, b, an) == CHOOSE p : AreStates(f, contracts, b, an, p)

LEMMA StatesAre ==
  ASSUME NEW f, NEW contracts, NEW b, Len(f.blocks[b].code) \in Nat, NEW an
  PROVE  /\ Flow(f, contracts, an, b) = States(f, contracts, b, an)[Len(f.blocks[b].code)]
         /\ States(f, contracts, b, an)[0] = an
         /\ \A k \in 1..Len(f.blocks[b].code) : States(f, contracts, b, an)[k] = OpOn(f, contracts, b, k, States(f, contracts, b, an)[k - 1])
<1> DEFINE N == Len(f.blocks[b].code)
           Upto(n, p) == p = [k \in 0..n |-> IF k = 0 THEN an ELSE OpOn(f, contracts, b, k, p[k - 1])]
           P == {n \in 0..N : \E p : Upto(n, p)}
<1>1. 0 \in P
  <2> DEFINE p == [k \in 0..0 |-> an]
  <2>1. \A k \in 0..0 : p[k] = IF k = 0 THEN an ELSE OpOn(f, contracts, b, k, p[k - 1])
    OBVIOUS
  <2>2. p = [k \in 0..0 |-> IF k = 0 THEN an ELSE OpOn(f, contracts, b, k, p[k - 1])]
    BY <2>1
  <2>3. 0 \in 0..N
    OBVIOUS
  <2> QED
    BY <2>2, <2>3
<1>2. ASSUME NEW n \in 0..N - 1, n \in P PROVE n + 1 \in P
  <2>1. PICK p : Upto(n, p)
    BY <1>2
  <2> DEFINE q == [k \in 0..n + 1 |-> IF k = n + 1 THEN OpOn(f, contracts, b, n + 1, p[n]) ELSE p[k]]
  <2>2. n \in Nat /\ n + 1 \in 0..N
    OBVIOUS
  <2>3. ASSUME NEW k \in 0..n + 1
        PROVE  q[k] = IF k = 0 THEN an ELSE OpOn(f, contracts, b, k, q[k - 1])
    <3>1. CASE k = 0
      BY <2>1, <2>2, <3>1
    <3>2. CASE k = n + 1
      <4>1. k - 1 = n /\ n \in 0..n + 1 /\ n # n + 1 /\ k # 0
        BY <2>2, <3>2
      <4>2. q[k - 1] = p[n]
        BY <4>1
      <4>3. q[k] = OpOn(f, contracts, b, n + 1, p[n])
        BY <3>2
      <4> QED
        BY <3>2, <4>1, <4>2, <4>3
    <3>3. CASE k # 0 /\ k # n + 1
      <4>1. k \in 0..n /\ k - 1 \in 0..n + 1 /\ k - 1 # n + 1
        BY <2>2, <3>3
      <4>2. p[k] = OpOn(f, contracts, b, k, p[k - 1])
        BY <2>1, <3>3, <4>1
      <4>3. q[k] = p[k] /\ q[k - 1] = p[k - 1]
        BY <3>3, <4>1
      <4> QED
        BY <3>3, <4>2, <4>3
    <3> QED
      BY <3>1, <3>2, <3>3
  <2>4. Upto(n + 1, q)
    <3> DEFINE r == [k \in 0..n + 1 |-> IF k = 0 THEN an ELSE OpOn(f, contracts, b, k, q[k - 1])]
    <3>1. \A k \in 0..n + 1 : q[k] = r[k]
      BY <2>3
    <3> QED
      BY <3>1
  <2> QED
    BY <2>2, <2>4
<1>3. \E p : AreStates(f, contracts, b, an, p)
  <2> HIDE DEF P
  <2>1. \A n \in 0..N : n \in P
    BY <1>1, <1>2, SetInduction
  <2>2. N \in P
    BY <2>1
  <2> QED
    BY <2>2 DEF P, AreStates
<1>4. LET p == States(f, contracts, b, an) IN AreStates(f, contracts, b, an, p)
  BY <1>3 DEF States
<1>5. Flow(f, contracts, an, b) = States(f, contracts, b, an)[N]
  BY DEF Flow, States, AreStates, OpOn
<1> DEFINE ps == States(f, contracts, b, an)
<1>6. ps = [k \in 0..N |-> IF k = 0 THEN an ELSE OpOn(f, contracts, b, k, ps[k - 1])]
  BY <1>4 DEF AreStates
<1> HIDE DEF ps
<1>7. \A k \in 0..N : ps[k] = IF k = 0 THEN an ELSE OpOn(f, contracts, b, k, ps[k - 1])
  BY <1>6
<1>8. 0 \in 0..N /\ \A k \in 1..N : k \in 0..N /\ k # 0
  OBVIOUS
<1> QED
  BY <1>5, <1>7, <1>8 DEF ps

OneMore(f, contracts, a) == CHOOSE w \in {WalkOn(f, contracts, v) : v \in {a}} : TRUE
NoWalk == [points |-> {<<1, Start>>}, errors |-> {}]
AreWalks(f, contracts, p) ==
  p = [n \in 0..PathBlocks |-> IF n = 0 THEN NoWalk ELSE OneMore(f, contracts, p[n - 1])]
Walks(f, contracts) == CHOOSE p : AreWalks(f, contracts, p)

LEMMA WalksAre ==
  ASSUME NEW f, NEW contracts, PathBlocks \in Nat
  PROVE  /\ Walk(f, contracts) = Walks(f, contracts)[PathBlocks]
         /\ Walks(f, contracts)[0] = NoWalk
         /\ \A k \in 1..PathBlocks : Walks(f, contracts)[k] = OneMore(f, contracts, Walks(f, contracts)[k - 1])
<1> DEFINE N == PathBlocks
           Upto(n, p) == p = [k \in 0..n |-> IF k = 0 THEN NoWalk ELSE OneMore(f, contracts, p[k - 1])]
           P == {n \in 0..N : \E p : Upto(n, p)}
<1>1. 0 \in P
  <2> DEFINE p == [k \in 0..0 |-> NoWalk]
  <2>1. \A k \in 0..0 : p[k] = IF k = 0 THEN NoWalk ELSE OneMore(f, contracts, p[k - 1])
    OBVIOUS
  <2>2. p = [k \in 0..0 |-> IF k = 0 THEN NoWalk ELSE OneMore(f, contracts, p[k - 1])]
    BY <2>1
  <2>3. 0 \in 0..N
    OBVIOUS
  <2> QED
    BY <2>2, <2>3
<1>2. ASSUME NEW n \in 0..N - 1, n \in P PROVE n + 1 \in P
  <2>1. PICK p : Upto(n, p)
    BY <1>2
  <2> DEFINE q == [k \in 0..n + 1 |-> IF k = n + 1 THEN OneMore(f, contracts, p[n]) ELSE p[k]]
  <2>2. n \in Nat /\ n + 1 \in 0..N
    OBVIOUS
  <2>3. ASSUME NEW k \in 0..n + 1
        PROVE  q[k] = IF k = 0 THEN NoWalk ELSE OneMore(f, contracts, q[k - 1])
    <3>1. CASE k = 0
      BY <2>1, <2>2, <3>1
    <3>2. CASE k = n + 1
      <4>1. k - 1 = n /\ n \in 0..n + 1 /\ n # n + 1 /\ k # 0
        BY <2>2, <3>2
      <4>2. q[k - 1] = p[n]
        BY <4>1
      <4>3. q[k] = OneMore(f, contracts, p[n])
        BY <3>2
      <4> QED
        BY <3>2, <4>1, <4>2, <4>3
    <3>3. CASE k # 0 /\ k # n + 1
      <4>1. k \in 0..n /\ k - 1 \in 0..n + 1 /\ k - 1 # n + 1
        BY <2>2, <3>3
      <4>2. p[k] = OneMore(f, contracts, p[k - 1])
        BY <2>1, <3>3, <4>1
      <4>3. q[k] = p[k] /\ q[k - 1] = p[k - 1]
        BY <3>3, <4>1
      <4> QED
        BY <3>3, <4>2, <4>3
    <3> QED
      BY <3>1, <3>2, <3>3
  <2>4. Upto(n + 1, q)
    <3> DEFINE r == [k \in 0..n + 1 |-> IF k = 0 THEN NoWalk ELSE OneMore(f, contracts, q[k - 1])]
    <3>1. \A k \in 0..n + 1 : q[k] = r[k]
      BY <2>3
    <3> QED
      BY <3>1
  <2> QED
    BY <2>2, <2>4
<1>3. \E p : AreWalks(f, contracts, p)
  <2> HIDE DEF P
  <2>1. \A n \in 0..N : n \in P
    BY <1>1, <1>2, SetInduction
  <2>2. N \in P
    BY <2>1
  <2> QED
    BY <2>2 DEF P, AreWalks
<1>4. LET p == Walks(f, contracts) IN AreWalks(f, contracts, p)
  BY <1>3 DEF Walks
<1>5. Walk(f, contracts) = Walks(f, contracts)[N]
  BY DEF Walk, Walks, AreWalks, OneMore, NoWalk
<1> DEFINE ps == Walks(f, contracts)
<1>6. ps = [k \in 0..N |-> IF k = 0 THEN NoWalk ELSE OneMore(f, contracts, ps[k - 1])]
  BY <1>4 DEF AreWalks
<1> HIDE DEF ps
<1>7. \A k \in 0..N : ps[k] = IF k = 0 THEN NoWalk ELSE OneMore(f, contracts, ps[k - 1])
  BY <1>6
<1>8. 0 \in 0..N /\ \A k \in 1..N : k \in 0..N /\ k # 0
  OBVIOUS
<1> QED
  BY <1>5, <1>7, <1>8 DEF ps

LEMMA FieldsFollow ==
  ASSUME NEW p, NEW s, Follows(p, s), NEW x, NEW y
  PROVE  /\ Follows([p EXCEPT !.values = x], [s EXCEPT !.values = y])
         /\ Follows([p EXCEPT !.loans = x], [s EXCEPT !.loans = y])
<1>1. Shaped(p) /\ Shaped(s)
  BY DEF Follows
<1>2. Quiet(p, [p EXCEPT !.values = x]) /\ Quiet(s, [s EXCEPT !.values = y])
  BY <1>1, QuietFields
<1>3. Quiet(p, [p EXCEPT !.loans = x]) /\ Quiet(s, [s EXCEPT !.loans = y])
  BY <1>1, QuietFields
<1> QED
  BY <1>2, <1>3, QuietFollows

LEMMA ReturnFollows ==
  ASSUME NEW fn, NEW p, NEW s, Follows(p, s), NEW value
  PROVE  Follows(Return(fn, p, value), Return(fn, s, value))
<1>1. ASSUME NEW an, Shaped(an) PROVE Quiet(an, Return(fn, an, value))
  <2> DEFINE q  == Get(an.values, value)
             e1 == CheckKnown(q, an)
             e2 == CheckEscape(fn, q, Outside, e1, "returned local")
  <2>1. Quiet(an, e1)
    BY <1>1, ThenError, QuietSelf, OtherMessages DEF CheckKnown
  <2>2. Quiet(an, e2)
    <3> HIDE DEF e1
    <3> QED
      BY <2>1, ThenEscape, OtherMessages
  <2>3. Return(fn, an, value) =
          IF value = NoValue THEN an ELSE [e2 EXCEPT !.returned = JoinProvenance(@, q)]
    BY DEF Return
  <2> HIDE DEF e2, q
  <2>4. Quiet(e2, [e2 EXCEPT !.returned = JoinProvenance(@, q)])
    BY <2>2, QuietFields DEF Quiet
  <2>5. Quiet(an, [e2 EXCEPT !.returned = JoinProvenance(@, q)])
    BY <2>2, <2>4, QuietTwice
  <2> QED
    BY <1>1, <2>3, <2>5, QuietSelf
<1> QED
  BY <1>1, QuietFollows DEF Follows

LEMMA EndScopeFollows ==
  ASSUME NEW fn, NEW p, NEW s, Follows(p, s), NEW scope
  PROVE  Follows(EndScope(fn, p, scope), EndScope(fn, s, scope))
<1> DEFINE ending == {b \in Binding : fn.scope[b] = scope}
<1>1. ASSUME NEW an, Shaped(an)
      PROVE  LET n == EndScope(fn, an, scope)
             IN  /\ Shaped(n) /\ Blamed(n) = Blamed(an)
                 /\ \A b \in Binding : n.initialized[b] =
                      IF b \in ending THEN {"uninitialized"} ELSE an.initialized[b]
  <2> DEFINE n == EndScope(fn, an, scope)
  <2>1. /\ DOMAIN n = Fields /\ n.errors = an.errors
        /\ n.initialized = [b \in Binding |-> IF b \in ending THEN {"uninitialized"} ELSE an.initialized[b]]
    BY <1>1 DEF EndScope, Shaped, Fields
  <2> HIDE DEF n, ending
  <2>2. Shaped(n)
    BY <1>1, <2>1 DEF Shaped, Alternatives
  <2>3. Blamed(n) = Blamed(an)
    BY <2>1 DEF Blamed
  <2>4. \A b \in Binding : n.initialized[b] = IF b \in ending THEN {"uninitialized"} ELSE an.initialized[b]
    BY <2>1
  <2> QED
    BY <2>2, <2>3, <2>4 DEF n
<1> HIDE DEF ending
<1> QED
  BY <1>1 DEF Follows

-----------------------------------------------------------------------------
(* Calls.                                                                  *)

LEMMA TouchFollows ==
  ASSUME NEW fn, NEW p, NEW s, Follows(p, s), NEW effects
  PROVE  Follows(TouchGlobals(fn, p, effects), TouchGlobals(fn, s, effects))
<1>1. ASSUME NEW e PROVE Follows(TouchGlobal(fn, p, e), TouchGlobal(fn, s, e))
  <2> DEFINE l(an) == CheckLive(an, e[1])
  <2>1. Follows(l(p), l(s))
    BY LiveIs
  <2>2. ASSUME NEW an, Shaped(l(an)) PROVE Quiet(l(an), TouchGlobal(fn, an, e))
    <3>1. \E kind : TouchGlobal(fn, an, e) =
            ErrorIf(Conflicts(fn, WholePlace(e[1]), kind, an), l(an), "call touches borrowed", e[1])
      BY DEF TouchGlobal
    <3> HIDE DEF l
    <3> QED
      BY <2>2, <3>1, ThenError, QuietSelf, OtherMessages
  <2> HIDE DEF l
  <2> QED
    BY <2>1, <2>2, QuietFollows DEF Follows
<1>2. ASSUME NEW an, Shaped(an)
      PROVE  LET n == TouchGlobals(fn, an, effects)
             IN  /\ Shaped(n) /\ n.initialized = an.initialized
                 /\ Blamed(n) = Blamed(an) \cup UNION {Blamed(TouchGlobal(fn, an, e)) : e \in effects}
  <2> DEFINE n == TouchGlobals(fn, an, effects)
             more == UNION {TouchGlobal(fn, an, e).errors : e \in effects}
  <2>1. /\ DOMAIN n = Fields /\ n.initialized = an.initialized
        /\ n.errors = an.errors \cup more
    <3> HIDE DEF more
    <3>1. n = [an EXCEPT !.errors = @ \cup more]
      BY DEF TouchGlobals, more
    <3> HIDE DEF n
    <3> QED
      BY <1>2, <3>1 DEF Shaped, Fields
  <2> HIDE DEF n, more
  <2>2. Shaped(n)
    BY <1>2, <2>1 DEF Shaped
  <2>3. Blamed(n) = Blamed(an) \cup UNION {Blamed(TouchGlobal(fn, an, e)) : e \in effects}
    <3> DEFINE blamed(b, es) == \E m \in LiveMessages : <<m, b>> \in es
    <3>1. \A b : blamed(b, n.errors) <=>
             blamed(b, an.errors) \/ \E e \in effects : blamed(b, TouchGlobal(fn, an, e).errors)
      BY <2>1 DEF more
    <3>2. \A x : Blamed(x) = {b \in Binding : blamed(b, x.errors)}
      BY DEF Blamed
    <3> HIDE DEF blamed
    <3> QED
      BY <3>1, <3>2
  <2> QED
    BY <2>1, <2>2, <2>3 DEF n
<1>3. UNION {Blamed(TouchGlobal(fn, p, e)) : e \in effects} \subseteq
        UNION {Blamed(TouchGlobal(fn, s, e)) : e \in effects}
  BY <1>1 DEF Follows
<1> QED
  BY <1>2, <1>3 DEF Follows

LEMMA EffectIs ==
  ASSUME NEW fn, NEW call, NEW an, Shaped(an), NEW effect
  PROVE  Quiet(an, ApplyEffect(fn, call, an, effect))
<1>1. \E target, source, x, more :
        \/ ApplyEffect(fn, call, an, effect) = StoreReference(fn, target, source, an)
        \/ ApplyEffect(fn, call, an, effect) =
             StoreReference(fn, target, more, [an EXCEPT !.loans = x])
  BY DEF ApplyEffect, LendSource
<1>2. \A x : Quiet(an, [an EXCEPT !.loans = x])
  BY QuietFields
<1>3. Quiet(an, an)
  BY QuietSelf
<1> QED
  BY <1>1, <1>2, <1>3, ThenStore

LEMMA ApplyIs ==
  ASSUME NEW fn, NEW call, NEW an, Shaped(an), Len(call.referenceEffects) \in Nat
  PROVE  Quiet(an, ApplyEffects(fn, call, an))
<1> DEFINE N == Len(call.referenceEffects)
           p == Effects(fn, call, an)
           P == {n \in 0..N : Quiet(an, p[n])}
<1>1. /\ ApplyEffects(fn, call, an) = p[N] /\ p[0] = an
      /\ \A k \in 1..N : p[k] = EffectOn(fn, call, k, p[k - 1])
  BY EffectsAre
<1> HIDE DEF p
<1>2. 0 \in P
  BY <1>1, QuietSelf
<1>3. ASSUME NEW n \in 0..N - 1, n \in P PROVE n + 1 \in P
  <2>1. n + 1 \in 1..N /\ n + 1 \in 0..N /\ (n + 1) - 1 = n
    OBVIOUS
  <2>2. p[n + 1] = ApplyEffect(fn, call, p[n], call.referenceEffects[n + 1])
    BY <1>1, <2>1 DEF EffectOn
  <2>3. Quiet(an, p[n])
    BY <1>3
  <2>4. Quiet(p[n], p[n + 1])
    BY <2>2, <2>3, EffectIs DEF Quiet
  <2> QED
    BY <2>1, <2>3, <2>4, QuietTwice
<1>4. \A n \in 0..N : n \in P
  <2> HIDE DEF P
  <2> QED
    BY <1>2, <1>3, SetInduction
<1>5. N \in P
  BY <1>4
<1> QED
  BY <1>1, <1>5

LEMMA YieldedIs ==
  ASSUME NEW fn, NEW call, NEW an, Shaped(an), NEW result
  PROVE  Quiet(an, Yielded(fn, call, an, result))
<1> DEFINE e == ExtendLoans(result, {call.scope}, an)
           y == Yielded(fn, call, an, result)
<1>1. Quiet(an, e)
  BY ThenExtend, QuietSelf
<1>2. \E x, v : y = [e EXCEPT !.loans = x, !.values = v] \/ y = [e EXCEPT !.values = v]
  BY DEF Yielded, Lend
<1> HIDE DEF e, y
<1>3. DOMAIN y = Fields /\ y.initialized = e.initialized /\ y.errors = e.errors
  BY <1>1, <1>2 DEF Quiet, Shaped, Fields
<1>4. Quiet(an, y)
  BY <1>1, <1>3 DEF Quiet, Shaped, Blamed
<1> QED
  BY <1>4 DEF y

LEMMA CallFollows ==
  ASSUME NEW fn, NEW p, NEW s, Follows(p, s), NEW call, Len(call.referenceEffects) \in Nat
  PROVE  Follows(Call(fn, p, call), Call(fn, s, call))
<1> DEFINE t(an) == TouchGlobals(fn, an, call.effects)
           a(an) == ApplyEffects(fn, call, t(an))
<1>1. Follows(t(p), t(s))
  BY TouchFollows
<1>2. ASSUME NEW an, Shaped(t(an)) PROVE Quiet(t(an), Call(fn, an, call))
  <2> HIDE DEF t
  <2>1. Quiet(t(an), a(an))
    BY <1>2, ApplyIs
  <2>2. Call(fn, an, call) = Yielded(fn, call, a(an), Returned(call, t(an)))
    BY DEF Call, t
  <2> HIDE DEF a
  <2>3. Quiet(a(an), Call(fn, an, call))
    BY <2>1, <2>2, YieldedIs DEF Quiet
  <2> QED
    BY <2>1, <2>3, QuietTwice
<1> HIDE DEF t, a
<1> QED
  BY <1>1, <1>2, QuietFollows DEF Follows

-----------------------------------------------------------------------------
(* Along the blocks.                                                       *)

LEMMA TransferFollows ==
  ASSUME NEW fn, NEW p, NEW s, Follows(p, s), NEW op, op.op \in Kinds,
         op.op = "call" => Len(op.referenceEffects) \in Nat
  PROVE  Follows(Transfer(fn, p, op), Transfer(fn, s, op))
<1>1. CASE op.op = "reject"
  BY <1>1, RejectFollows DEF Transfer
<1>2. CASE op.op = "declare"
  BY <1>2, DeclareFollows DEF Transfer
<1>3. CASE op.op = "parameter"
  BY <1>3, ParameterIs, QuietFollows DEF Transfer, Follows
<1>4. CASE op.op = "access"
  BY <1>4, AccessFollows DEF Transfer
<1>5. CASE op.op = "borrow"
  BY <1>5, BorrowFollows DEF Transfer
<1>6. CASE op.op = "bind"
  BY <1>6, BindFollows DEF Transfer
<1>7. CASE op.op = "assign"
  BY <1>7, AssignFollows DEF Transfer
<1>8. CASE op.op = "store"
  BY <1>8, StoreIs, QuietFollows DEF Transfer, Follows, StoreRaw
<1>9. CASE op.op = "value"
  BY <1>9, FieldsFollow DEF Transfer, Value
<1>10. CASE op.op = "contents"
  BY <1>10, FieldsFollow DEF Transfer, ContentsOf
<1>11. CASE op.op = "project"
  BY <1>11, FieldsFollow DEF Transfer, ProjectValue
<1>12. CASE op.op = "view"
  BY <1>12, FieldsFollow DEF Transfer, View
<1>13. CASE op.op = "call"
  BY <1>13, CallFollows DEF Transfer
<1>14. CASE op.op = "return"
  BY <1>14, ReturnFollows DEF Transfer
<1>15. CASE op.op = "end scope"
  BY <1>15, EndScopeFollows DEF Transfer
<1>16. CASE op.op = "end loan"
  BY <1>16, FieldsFollow DEF Transfer, EndLoan
<1> QED
  BY <1>1, <1>2, <1>3, <1>4, <1>5, <1>6, <1>7, <1>8, <1>9, <1>10, <1>11, <1>12, <1>13, <1>14,
     <1>15, <1>16 DEF Kinds

LEMMA ListedIs ==
  ASSUME NEW S, IsFiniteSet(S)
  PROVE  Len(SetToSeq(S)) \in Nat
<1> DEFINE N == Cardinality(S)
<1>1. N \in Nat /\ ExistsBijection(1..N, S)
  BY FS_CardinalityType
<1>2. \E g \in [1..N -> S] : IsInjective(g)
  BY <1>1 DEF ExistsBijection, Bijection, Injection
<1>3. SetToSeq(S) = CHOOSE g \in [1..N -> S] : IsInjective(g)
  BY DEF SetToSeq
<1>4. SetToSeq(S) \in [1..N -> S]
  BY <1>2, <1>3
<1> HIDE DEF N
<1>5. SetToSeq(S) \in Seq(S)
  BY <1>1, <1>4
<1> QED
  BY <1>5

LEMMA AttachedIs ==
  ASSUME NEW op, IsOperation(op), NEW contracts
  PROVE  LET a == Attached(op, contracts)
         IN  a.op = op.op /\ (a.op = "call" => Len(a.referenceEffects) \in Nat)
<1>1. CASE op.op = "call" /\ op.target \in DOMAIN contracts
  <2> DEFINE c == contracts[op.target]
             a == Attached(op, contracts)
  <2>1. a.op = op.op /\ a.referenceEffects = StoresOf(c)
    BY <1>1 DEF Attached, IsOperation
  <2>2. Len(StoresOf(c)) \in Nat
    BY ListedIs DEF StoresOf
  <2> QED
    BY <2>1, <2>2
<1>2. CASE ~(op.op = "call" /\ op.target \in DOMAIN contracts)
  BY <1>2 DEF Attached, IsOperation
<1> QED
  BY <1>1, <1>2

LEMMA FlowFollows ==
  ASSUME NEW f, NEW b, IsCode(f.blocks[b].code), NEW contracts, NEW p, NEW s, Follows(p, s)
  PROVE  Follows(Flow(f, contracts, p, b), Flow(f, contracts, s, b))
<1> DEFINE code == f.blocks[b].code
           N == Len(code)
           r == States(f, contracts, b, p)
           t == States(f, contracts, b, s)
           P == {n \in 0..N : Follows(r[n], t[n])}
<1>0. N \in Nat
  BY DEF IsCode
<1>1. /\ Flow(f, contracts, p, b) = r[N] /\ r[0] = p
      /\ \A k \in 1..N : r[k] = OpOn(f, contracts, b, k, r[k - 1])
  BY <1>0, StatesAre
<1>2. /\ Flow(f, contracts, s, b) = t[N] /\ t[0] = s
      /\ \A k \in 1..N : t[k] = OpOn(f, contracts, b, k, t[k - 1])
  BY <1>0, StatesAre
<1> HIDE DEF r, t
<1>3. 0 \in P
  BY <1>0, <1>1, <1>2
<1>4. ASSUME NEW n \in 0..N - 1, n \in P PROVE n + 1 \in P
  <2> DEFINE op == Attached(code[n + 1], contracts)
  <2>1. n + 1 \in 1..N /\ n + 1 \in 0..N /\ (n + 1) - 1 = n
    BY <1>0
  <2>2. r[n + 1] = Transfer(f.fn, r[n], op) /\ t[n + 1] = Transfer(f.fn, t[n], op)
    BY <1>1, <1>2, <2>1 DEF OpOn
  <2>3. IsOperation(code[n + 1])
    BY <2>1 DEF IsCode, ToSet
  <2>4. op.op \in Kinds /\ (op.op = "call" => Len(op.referenceEffects) \in Nat)
    BY <2>3, AttachedIs DEF IsOperation
  <2>5. Follows(r[n], t[n])
    BY <1>4
  <2> HIDE DEF op
  <2>6. Follows(r[n + 1], t[n + 1])
    BY <2>2, <2>4, <2>5, TransferFollows
  <2> QED
    BY <2>1, <2>6
<1>5. \A n \in 0..N : n \in P
  <2> HIDE DEF P
  <2> QED
    BY <1>0, <1>3, <1>4, SetInduction
<1>6. N \in P
  BY <1>0, <1>5
<1> QED
  BY <1>1, <1>2, <1>6

LEMMA FlowShaped ==
  ASSUME NEW f, NEW b, IsCode(f.blocks[b].code), NEW contracts, NEW s, Shaped(s)
  PROVE  Shaped(Flow(f, contracts, s, b))
<1>1. Follows(s, s)
  BY DEF Follows
<1>2. Follows(Flow(f, contracts, s, b), Flow(f, contracts, s, b))
  BY <1>1, FlowFollows
<1> QED
  BY <1>2 DEF Follows

LEMMA StartShaped == Shaped(Start) /\ Start.errors = {} /\ Blamed(Start) = {}
  BY DEF Start, Shaped, Fields, Alternatives, Blamed

LEMMA RestartShaped ==
  ASSUME NEW s, Shaped(s)
  PROVE  /\ Shaped(Restart(s)) /\ Restart(s).initialized = s.initialized
         /\ Restart(s).errors = {}
  BY DEF Restart, Shaped, Fields

LEMMA JoinedShaped ==
  ASSUME NEW states, \A b \in DOMAIN states : Shaped(states[b]), NEW t, NEW out, Shaped(out)
  PROVE  \A b \in DOMAIN Joined(states, t, out) : Shaped(Joined(states, t, out)[b])
<1>1. ASSUME t \in DOMAIN states PROVE Shaped(JoinState(states[t], out))
  <2> DEFINE a == states[t]
             j == JoinState(a, out)
  <2>1. Shaped(a)
    BY <1>1
  <2>2. /\ DOMAIN j = Fields
        /\ j.initialized = [b \in Binding |-> a.initialized[b] \cup out.initialized[b]]
    BY DEF JoinState, Fields
  <2> HIDE DEF j, a
  <2>3. Shaped(j)
    BY <2>1, <2>2 DEF Shaped
  <2> QED
    BY <2>3 DEF j, a
<1>2. Shaped(Restart(out))
  BY RestartShaped
<1> QED
  BY <1>1, <1>2 DEF Joined, Put

LEMMA PassedShaped ==
  ASSUME NEW f, NEW next \in Successors(f.blocks), NEW out, Shaped(out),
         NEW m, \A b \in DOMAIN m.states : Shaped(m.states[b])
  PROVE  LET n == Passed(out, next, m) IN \A b \in DOMAIN n.states : Shaped(n.states[b])
<1> DEFINE Good(x) == \A b \in DOMAIN x.states : Shaped(x.states[b])
<1>1. ASSUME NEW x, Good(x), NEW t PROVE Good(Step(out, t, x))
  <2>1. Step(out, t, x).states = Joined(x.states, t, out)
    BY DEF Step
  <2> QED
    BY <1>1, <2>1, JoinedShaped
<1> HIDE DEF Good
<1>2. Good(m)
  BY DEF Good
<1>3. Len(next) \in {0, 1, 2}
  BY DEF Successors
<1>4. Good(Passed(out, next, m))
  BY <1>1, <1>2, <1>3 DEF Passed
<1> QED
  BY <1>4 DEF Good

-----------------------------------------------------------------------------
(* Single paths.                                                           *)

\* What a walk has seen is in a solution.
Seen(f, c, states, w) ==
  /\ \A p \in w.points :
       /\ p[1] \in DOMAIN states /\ Shaped(p[2]) /\ p[2].errors = {}
       /\ \A b \in Binding : p[2].initialized[b] \subseteq states[p[1]].initialized[b]
  /\ Blamed(w) \subseteq Blamed(Report(f, c, states))

LEMMA WalkOnSeen ==
  ASSUME NEW f, NEW c, NEW states, Annotation(f, c, states),
         \A b \in DOMAIN f.blocks : IsCode(f.blocks[b].code),
         NEW w, Seen(f, c, states, w)
  PROVE  Seen(f, c, states, WalkOn(f, c, w))
<1> DEFINE out(p) == Flow(f, c, p[2], p[1])
           ends == {<<p[1], out(p)>> : p \in w.points}
           new == WalkOn(f, c, w)
           solved == Report(f, c, states)
<1>1. ASSUME NEW p \in w.points
      PROVE  /\ p[1] \in DOMAIN states /\ Follows(out(p), Flow(f, c, states[p[1]], p[1]))
             /\ Follows(out(p), Flow(f, c, Restart(states[p[1]]), p[1]))
  <2> DEFINE s == states[p[1]]
  <2>1. /\ p[1] \in DOMAIN states /\ p[1] \in DOMAIN f.blocks /\ Shaped(s)
        /\ Shaped(p[2]) /\ p[2].errors = {}
        /\ \A b \in Binding : p[2].initialized[b] \subseteq s.initialized[b]
    BY DEF Seen, Annotation
  <2>2. Shaped(Restart(s)) /\ Restart(s).initialized = s.initialized
    BY <2>1, RestartShaped
  <2>3. Blamed(p[2]) = {}
    BY <2>1 DEF Blamed
  <2>4. Follows(p[2], s) /\ Follows(p[2], Restart(s))
    BY <2>1, <2>2, <2>3 DEF Follows
  <2> QED
    BY <2>1, <2>4, FlowFollows
<1>2. /\ new.points = UNION {{<<t, Restart(e[2])>> : t \in ToSet(f.blocks[e[1]].next)} : e \in ends}
      /\ new.errors = w.errors \cup UNION {e[2].errors : e \in ends}
  BY DEF WalkOn
<1>3. \A b \in DOMAIN states : Flow(f, c, Restart(states[b]), b).errors \subseteq solved.errors
  <2> DEFINE outs == {Flow(f, c, Restart(states[b]), b) : b \in DOMAIN states}
  <2>1. solved.errors = UNION {o.errors : o \in outs}
    <3> HIDE DEF outs
    <3> QED
      BY DEF Report, Collected, outs
  <2> QED
    BY <2>1
<1> HIDE DEF new, solved
<1>4. ASSUME NEW q \in new.points
      PROVE  /\ q[1] \in DOMAIN states /\ Shaped(q[2]) /\ q[2].errors = {}
             /\ \A b \in Binding : q[2].initialized[b] \subseteq states[q[1]].initialized[b]
  <2>0. PICK e \in ends : q \in {<<t, Restart(e[2])>> : t \in ToSet(f.blocks[e[1]].next)}
    BY <1>2
  <2>1. PICK p \in w.points : e = <<p[1], out(p)>>
    OBVIOUS
  <2>a. PICK t \in ToSet(f.blocks[p[1]].next) : q = <<t, Restart(out(p))>>
    BY <2>0, <2>1
  <2> DEFINE s == Flow(f, c, states[p[1]], p[1])
             r == out(p)
  <2>2. p[1] \in DOMAIN states /\ Follows(r, s)
    BY <1>1
  <2>3. t \in DOMAIN states /\ StateCovered(s, states[t])
    BY <2>2, <2>a DEF Annotation, Settled
  <2>4. q[1] = t /\ q[2] = Restart(r)
    BY <2>a
  <2> HIDE DEF s, r
  <2>5. Shaped(q[2]) /\ q[2].initialized = r.initialized /\ q[2].errors = {}
    BY <2>2, <2>4, RestartShaped DEF Follows
  <2>6. \A b \in Binding : /\ r.initialized[b] \subseteq s.initialized[b]
                           /\ s.initialized[b] \subseteq states[t].initialized[b]
    BY <2>2, <2>3 DEF Follows, StateCovered
  <2> QED
    BY <2>3, <2>4, <2>5, <2>6
<1>5. ASSUME NEW b \in Binding, NEW m \in LiveMessages, <<m, b>> \in new.errors
      PROVE  b \in Blamed(solved)
  <2>1. CASE <<m, b>> \in w.errors
    BY <2>1 DEF Seen, Blamed, solved
  <2>2. CASE \E p \in w.points : <<m, b>> \in out(p).errors
    <3>1. PICK p \in w.points : <<m, b>> \in out(p).errors
      BY <2>2
    <3> DEFINE r == out(p)
               s == Flow(f, c, Restart(states[p[1]]), p[1])
    <3>2. p[1] \in DOMAIN states /\ Follows(r, s)
      BY <1>1
    <3>3. s.errors \subseteq solved.errors /\ <<m, b>> \in r.errors
      BY <1>3, <3>1, <3>2
    <3> HIDE DEF r, s
    <3>4. b \in Blamed(s)
      BY <3>2, <3>3 DEF Follows, Blamed
    <3> QED
      BY <3>3, <3>4 DEF Blamed
  <2> QED
    BY <1>2, <1>5, <2>1, <2>2
<1>6. Blamed(new) \subseteq Blamed(solved)
  BY <1>5 DEF Blamed
<1> QED
  BY <1>4, <1>6 DEF Seen, new, solved

LEMMA WalkSeen ==
  ASSUME NEW f, NEW c, NEW states, Annotation(f, c, states),
         \A b \in DOMAIN f.blocks : IsCode(f.blocks[b].code)
  PROVE  Blamed(Walk(f, c)) \subseteq Blamed(Report(f, c, states))
<1> DEFINE N == PathBlocks
           w == Walks(f, c)
           P == {n \in 0..N : Seen(f, c, states, w[n])}
<1>0. N \in Nat
  BY PlanAssumption
<1>1. /\ Walk(f, c) = w[N] /\ w[0] = NoWalk
      /\ \A k \in 1..N : w[k] = OneMore(f, c, w[k - 1])
  BY <1>0, WalksAre
<1> HIDE DEF w
<1>2. 0 \in P
  <2>1. 1 \in DOMAIN states /\ StateCovered(Start, states[1])
    BY DEF Annotation
  <2>2. w[0].points = {<<1, Start>>} /\ w[0].errors = {}
    BY <1>1 DEF NoWalk
  <2>3. ASSUME NEW p \in w[0].points PROVE p[1] = 1 /\ p[2] = Start
    BY <2>2
  <2>4. Blamed(w[0]) = {}
    BY <2>2 DEF Blamed
  <2>5. Seen(f, c, states, w[0])
    BY <2>1, <2>3, <2>4, StartShaped DEF Seen, StateCovered
  <2> QED
    BY <1>0, <2>5
<1>3. ASSUME NEW n \in 0..N - 1, n \in P PROVE n + 1 \in P
  <2>1. n + 1 \in 1..N /\ n + 1 \in 0..N /\ (n + 1) - 1 = n
    BY <1>0
  <2>2. w[n + 1] = WalkOn(f, c, w[n])
    BY <1>1, <2>1 DEF OneMore
  <2>3. Seen(f, c, states, w[n])
    BY <1>3
  <2>4. Seen(f, c, states, w[n + 1])
    BY <2>2, <2>3, WalkOnSeen
  <2> QED
    BY <2>1, <2>4
<1>4. \A n \in 0..N : n \in P
  <2> HIDE DEF P
  <2> QED
    BY <1>0, <1>2, <1>3, SetInduction
<1>5. N \in P
  BY <1>0, <1>4
<1> QED
  BY <1>1, <1>5 DEF Seen

-----------------------------------------------------------------------------
(* The invariant.                                                          *)

\* The end of a worklist of a function with what is known of the others.
EndOf(f, c) == CHOOSE s : Reached(f, c, s, <<>>)
ReportAt(k) == Report(plan[k], known, EndOf(plan[k], known))
Errors(k) == {<<plan[k].name, e>> : e \in ReportAt(k).errors}
Agreed(k) ==
  /\ seen[k] = known
  /\ Annotation(plan[k], known, EndOf(plan[k], known))
  /\ Keeps(known[plan[k].name], Learned(plan[k], known, ReportAt(k)))
Names == {plan[k].name : k \in DOMAIN plan}

\* A function from the names.
Mapping(c, S) == c = [x \in S |-> c[x]]

Flags == solving \in BOOLEAN /\ changed \in BOOLEAN
Typed ==
  /\ plan \in Plan /\ stage \in {"contracts", "errors", "done"}
  /\ at \in Nat /\ 1 <= at /\ at <= Len(plan) + 1
  /\ Mapping(known, Names)
  /\ DOMAIN seen = DOMAIN plan
  /\ Flags
\* What is under way: a worklist of the function in question.
UnderWay ==
  solving =>
    /\ stage # "done" /\ at \in DOMAIN plan /\ seen[at] = known
    /\ Reached(Current, known, incoming, work)
    /\ work \in Seq(DOMAIN incoming)
    /\ DOMAIN incoming \subseteq DOMAIN Current.blocks
    /\ 1 \in DOMAIN incoming /\ StateCovered(Start, incoming[1])
    /\ \A b \in DOMAIN incoming : Shaped(incoming[b])
    /\ \A b \in DOMAIN incoming \ ToSet(work) : Settled(Current, known, incoming, b)
\* The functions whose contracts have not grown in this round, if none has.
Confirmed ==
  IF stage # "contracts" THEN DOMAIN plan
  ELSE IF changed THEN {} ELSE 1..(at - 1)
Examined ==
  IF stage = "contracts" THEN {} ELSE IF stage = "errors" THEN 1..(at - 1) ELSE DOMAIN plan
Rounds ==
  /\ stage # "contracts" => ~changed
  /\ \A k \in Confirmed : Agreed(k)
  /\ errors = UNION {Errors(k) : k \in Examined}
SummaryInv == Typed /\ UnderWay /\ Rounds

LEMMA InitSummary == Init => SummaryInv
<1> SUFFICES ASSUME Init PROVE SummaryInv
  OBVIOUS
<1>1. Len(plan) \in Nat /\ plan \in Plan
  <2>1. plan \in Seq(ToSet(plan))
    BY PlanAssumption DEF Init
  <2> QED
    BY <2>1 DEF Init
<1>2. Mapping(known, Names)
  BY DEF Init, FirstContracts, Names, Mapping
<1>3. Typed
  <2>1. stage = "contracts" /\ at = 1 /\ DOMAIN seen = DOMAIN plan /\ Flags
    BY DEF Init, Flags
  <2> QED
    BY <1>1, <1>2, <2>1 DEF Typed
<1>4. UnderWay
  BY DEF Init, UnderWay
<1>5. Rounds
  BY DEF Init, Rounds, Confirmed, Examined
<1> QED
  BY <1>3, <1>4, <1>5 DEF SummaryInv

LEMMA KeptSummary ==
  ASSUME SummaryInv, UNCHANGED vars
  PROVE  SummaryInv'
<1>1. Typed'
  <2>1. Flags'
    BY DEF SummaryInv, Typed, Flags, vars
  <2> QED
    BY <2>1 DEF SummaryInv, Typed, Names, vars
<1>2. UnderWay'
  BY DEF SummaryInv, UnderWay, Current, vars
<1>3. Rounds'
  BY DEF SummaryInv, Rounds, Confirmed, Examined, Agreed, Errors, ReportAt, vars
<1> QED
  BY <1>1, <1>2, <1>3 DEF SummaryInv

LEMMA BeginSummary ==
  ASSUME SummaryInv, Begin
  PROVE  SummaryInv'
<1>1. /\ plan \in Plan /\ at \in DOMAIN plan /\ stage \in {"contracts", "errors"}
      /\ Len(plan) \in Nat /\ DOMAIN plan = 1..Len(plan)
      /\ 1 \in DOMAIN plan[at].blocks
  <2>1. plan \in Seq(ToSet(plan))
    BY PlanAssumption DEF SummaryInv, Typed
  <2>2. at \in DOMAIN plan
    BY <2>1 DEF Begin, SummaryInv, Typed
  <2> QED
    BY <2>1, <2>2, PlanIs DEF Begin, SummaryInv, Typed
<1>2. UNCHANGED <<plan, stage, at, known, changed, errors>> /\ solving'
  BY DEF Begin
<1>3. DOMAIN seen' = DOMAIN plan /\ seen'[at] = known
      /\ \A k \in DOMAIN plan : Agreed(k) => seen'[k] = known
  <2>1. CASE stage = "contracts"
    BY <1>1, <2>1 DEF Begin, SummaryInv, Typed, Agreed
  <2>2. CASE stage = "errors"
    <3>1. seen' = seen
      BY <2>2 DEF Begin
    <3>2. Agreed(at)
      BY <1>1, <2>2 DEF SummaryInv, Rounds, Confirmed
    <3> QED
      BY <3>1, <3>2 DEF SummaryInv, Typed, Agreed
  <2> QED
    BY <1>1, <2>1, <2>2
<1>4. Typed'
  <2>1. Flags'
    BY <1>2 DEF SummaryInv, Typed, Flags
  <2> QED
    BY <1>2, <1>3, <2>1 DEF SummaryInv, Typed, Names
<1>5. UnderWay'
  <2>1. incoming' = <<Start>> /\ work' = <<1>>
    BY DEF Begin
  <2>2. /\ DOMAIN incoming' = {1} /\ incoming'[1] = Start
        /\ work' \in Seq(DOMAIN incoming') /\ 1 \in ToSet(work')
    BY <2>1 DEF ToSet
  <2>3. StateCovered(Start, Start)
    BY ProvenanceKnown DEF StateCovered
  <2>4. Reached(Current, known, incoming', work')
    BY <2>1, FirstReached
  <2>5. \A b \in DOMAIN incoming' \ ToSet(work') : Settled(Current, known, incoming', b)
    BY <2>2
  <2>6. \A b \in DOMAIN incoming' : Shaped(incoming'[b])
    BY <2>2, StartShaped
  <2> QED
    BY <1>1, <1>2, <1>3, <2>2, <2>3, <2>4, <2>5, <2>6 DEF UnderWay, Current
<1>6. Rounds'
  <2>1. Confirmed' = Confirmed /\ Examined' = Examined
    BY <1>2 DEF Confirmed, Examined
  <2>2. Confirmed \subseteq DOMAIN plan
    BY <1>1 DEF Confirmed
  <2>3. \A k \in Confirmed : Agreed(k)'
    BY <1>2, <1>3, <2>2 DEF SummaryInv, Rounds, Agreed, ReportAt
  <2>4. \A k : Errors(k)' = Errors(k)
    BY <1>2 DEF Errors, ReportAt
  <2> QED
    BY <1>2, <2>1, <2>3, <2>4 DEF SummaryInv, Rounds
<1> QED
  BY <1>4, <1>5, <1>6 DEF SummaryInv

LEMMA VisitSummary ==
  ASSUME SummaryInv, Visit
  PROVE  SummaryInv'
<1> DEFINE m == [states |-> incoming, queue |-> work]
           b == Head(work)
           f == Current
           out == Flow(f, known, incoming[b], b)
           new == Turned(f, known, m)
<1>1. /\ plan \in Plan /\ at \in DOMAIN plan /\ seen[at] = known
      /\ Reached(f, known, incoming, work)
      /\ work \in Seq(DOMAIN incoming) /\ work # <<>>
      /\ DOMAIN incoming \subseteq DOMAIN f.blocks
      /\ 1 \in DOMAIN incoming /\ StateCovered(Start, incoming[1])
      /\ \A x \in DOMAIN incoming : Shaped(incoming[x])
      /\ \A x \in DOMAIN incoming \ ToSet(work) : Settled(f, known, incoming, x)
  BY DEF SummaryInv, Typed, UnderWay, Visit
<1>2. /\ UNCHANGED <<plan, stage, at, known, seen, solving, changed, errors>>
      /\ incoming' = new.states /\ work' = new.queue
  BY <1>1 DEF Visit, Turned
<1>3. b \in DOMAIN incoming
  BY <1>1, HeadAndTail
<1>4. f.blocks[b].next \in Successors(f.blocks) /\ IsCode(f.blocks[b].code)
  BY <1>1, <1>3, PlanIs DEF Current
<1>5. Serving(f, known, b, incoming[b], out, {}, [states |-> incoming, queue |-> Tail(work)])
  <2>1. /\ m.queue \in Seq(DOMAIN m.states) /\ m.queue # <<>>
        /\ DOMAIN m.states \subseteq DOMAIN f.blocks
        /\ 1 \in DOMAIN m.states /\ StateCovered(Start, m.states[1])
        /\ \A x \in DOMAIN m.states \ ToSet(m.queue) : Settled(f, known, m.states, x)
    BY <1>1
  <2>2. m.states = incoming /\ m.queue = work
    OBVIOUS
  <2> HIDE DEF m
  <2> QED
    BY <2>1, <2>2, ServingBegins
<1>6. Serving(f, known, b, incoming[b], out, ToSet(f.blocks[b].next), new)
  <2>1. new = Passed(out, f.blocks[b].next, [states |-> incoming, queue |-> Tail(work)])
    BY DEF Turned
  <2> QED
    BY <1>4, <1>5, <2>1, PassedServes
<1>7. /\ new.queue \in Seq(DOMAIN new.states)
      /\ DOMAIN new.states \subseteq DOMAIN f.blocks
      /\ 1 \in DOMAIN new.states /\ StateCovered(Start, new.states[1])
      /\ \A x \in DOMAIN new.states \ ToSet(new.queue) : Settled(f, known, new.states, x)
  BY <1>6, ServingEnds
<1>8. Reached(f, known, new.states, new.queue)
  <2>1. m.states = incoming /\ m.queue = work
    OBVIOUS
  <2> HIDE DEF m
  <2> QED
    BY <1>1, <2>1, TurnReached
<1>a. \A x \in DOMAIN new.states : Shaped(new.states[x])
  <2> DEFINE from == [states |-> incoming, queue |-> Tail(work)]
  <2>1. new = Passed(out, f.blocks[b].next, from)
    BY DEF Turned
  <2>2. Shaped(out)
    <3>1. Shaped(incoming[b])
      BY <1>1, <1>3
    <3> QED
      BY <1>4, <3>1, FlowShaped
  <2>3. \A x \in DOMAIN from.states : Shaped(from.states[x])
    BY <1>1
  <2> HIDE DEF from, out, new
  <2> QED
    BY <1>4, <2>1, <2>2, <2>3, PassedShaped
<1> HIDE DEF new
<1>9. UnderWay'
  BY <1>1, <1>2, <1>7, <1>8, <1>a DEF UnderWay, Current, SummaryInv
<1>10. Typed'
  <2>1. Flags'
    BY <1>2 DEF SummaryInv, Typed, Flags
  <2> QED
    BY <1>2, <2>1 DEF SummaryInv, Typed, Names
<1>11. Rounds'
  BY <1>2 DEF SummaryInv, Rounds, Confirmed, Examined, Agreed, Errors, ReportAt
<1> QED
  BY <1>9, <1>10, <1>11 DEF SummaryInv

LEMMA FinishSummary ==
  ASSUME SummaryInv, Finish
  PROVE  SummaryInv'
<1> DEFINE f == Current
           n == Current.name
           report == Report(f, known, incoming)
           learned == Learned(f, known, report)
           grown == Grown(known[n], learned)
<1>1. /\ plan \in Plan /\ at \in DOMAIN plan /\ seen[at] = known
      /\ stage \in {"contracts", "errors"}
      /\ Reached(f, known, incoming, <<>>) /\ work = <<>>
      /\ DOMAIN incoming \subseteq DOMAIN f.blocks
      /\ 1 \in DOMAIN incoming /\ StateCovered(Start, incoming[1])
      /\ \A x \in DOMAIN incoming : Shaped(incoming[x])
      /\ \A x \in DOMAIN incoming \ ToSet(work) : Settled(f, known, incoming, x)
  BY DEF SummaryInv, Typed, UnderWay, Finish
<1>2. Len(plan) \in Nat /\ DOMAIN plan = 1..Len(plan)
  BY <1>1, PlanIs
<1>3. Annotation(f, known, incoming)
  <2>1. ToSet(work) = {}
    BY <1>1 DEF ToSet
  <2> QED
    BY <1>1, <2>1 DEF Annotation
<1>4. incoming = EndOf(f, known)
  <2>1. Reached(f, known, EndOf(f, known), <<>>)
    BY <1>1 DEF EndOf
  <2> QED
    BY <1>1, <2>1, OneEnd
<1>5. /\ UNCHANGED <<plan, stage, seen, work>> /\ at' = at + 1 /\ solving' = FALSE
      /\ stage = "contracts" => /\ known' = [known EXCEPT ![n] = grown]
                                /\ changed' = (changed \/ grown # known[n])
                                /\ errors' = errors
      /\ stage = "errors" => /\ known' = known /\ changed' = changed
                             /\ errors' = errors \cup {<<n, e>> : e \in report.errors}
  BY <1>1 DEF Finish
<1>6. n \in Names
  BY <1>1 DEF Names, Current
<1>7. Typed'
  <2>1. Mapping(known', Names)
    BY <1>1, <1>5 DEF SummaryInv, Typed, Mapping
  <2>2. Flags'
    <3>1. changed \in BOOLEAN
      BY DEF SummaryInv, Typed, Flags
    <3>2. changed' \in BOOLEAN
      BY <1>1, <1>5, <3>1
    <3> QED
      BY <1>5, <3>2 DEF Flags
  <2>3. Names' = Names
    BY <1>5 DEF Names
  <2> QED
    BY <1>1, <1>2, <1>5, <2>1, <2>2, <2>3 DEF SummaryInv, Typed
<1>8. UnderWay'
  BY <1>5 DEF UnderWay
<1>9. Rounds'
  <2>1. CASE stage = "contracts" /\ changed'
    <3>1. Confirmed' = {} /\ Examined' = {} /\ errors' = {}
      BY <1>5, <2>1 DEF Confirmed, Examined, SummaryInv, Rounds
    <3> QED
      BY <1>5, <2>1, <3>1 DEF Rounds
  <2>2. CASE stage = "contracts" /\ ~changed'
    <3>1. ~changed /\ grown = known[n]
      BY <1>5, <2>2
    <3>2. known' = known
      BY <1>5, <1>6, <2>2, <3>1 DEF SummaryInv, Typed, Mapping
    <3>3. Keeps(known[n], learned)
      BY <3>1, GrownKeeps
    <3>4. Agreed(at)
      BY <1>1, <1>3, <1>4, <3>3 DEF Agreed, ReportAt, Current
    <3>5. \A k \in 1..(at - 1) : Agreed(k)
      BY <2>2, <3>1 DEF SummaryInv, Rounds, Confirmed
    <3>6. \A k \in 1..at : Agreed(k)
      BY <1>1, <1>2, <3>4, <3>5
    <3>7. \A k \in 1..at : Agreed(k)'
      BY <1>5, <3>2, <3>6 DEF Agreed, ReportAt
    <3>8. Confirmed' = 1..at /\ Examined' = {} /\ errors' = {}
      BY <1>1, <1>2, <1>5, <2>2 DEF Confirmed, Examined, SummaryInv, Rounds
    <3> QED
      BY <1>5, <2>2, <3>7, <3>8 DEF Rounds
  <2>3. CASE stage = "errors"
    <3>1. Confirmed' = DOMAIN plan /\ Confirmed = DOMAIN plan
      BY <1>5, <2>3 DEF Confirmed
    <3>2. \A k \in DOMAIN plan : Agreed(k)'
      BY <1>5, <2>3, <3>1 DEF SummaryInv, Rounds, Agreed, ReportAt
    <3>3. Examined' = Examined \cup {at}
      BY <1>1, <1>2, <1>5, <2>3 DEF Examined
    <3>4. Errors(at) = {<<n, e>> : e \in report.errors}
      BY <1>4 DEF Errors, ReportAt, Current
    <3>5. \A k : Errors(k)' = Errors(k)
      BY <1>5, <2>3 DEF Errors, ReportAt
    <3>6. errors' = UNION {Errors(k)' : k \in Examined'}
      <4>1. errors = UNION {Errors(k) : k \in Examined}
        BY DEF SummaryInv, Rounds
      <4>2. errors' = errors \cup Errors(at)
        BY <1>5, <2>3, <3>4
      <4> HIDE DEF Errors
      <4> QED
        BY <3>3, <3>5, <4>1, <4>2
    <3> QED
      BY <1>5, <2>3, <3>1, <3>2, <3>6 DEF SummaryInv, Rounds
  <2> QED
    BY <1>1, <2>1, <2>2, <2>3
<1> QED
  BY <1>7, <1>8, <1>9 DEF SummaryInv

LEMMA EndRoundSummary ==
  ASSUME SummaryInv, EndRound
  PROVE  SummaryInv'
<1>1. /\ plan \in Plan /\ Len(plan) \in Nat /\ DOMAIN plan = 1..Len(plan)
      /\ at = Len(plan) + 1 /\ stage \in {"contracts", "errors"}
  <2>1. plan \in Seq(ToSet(plan))
    BY PlanAssumption DEF SummaryInv, Typed
  <2> QED
    BY <2>1 DEF SummaryInv, Typed, EndRound
<1>2. /\ UNCHANGED <<plan, known, seen, solving, incoming, work, errors>>
      /\ at' = 1 /\ changed' = FALSE /\ ~solving
      /\ stage' = IF changed THEN "contracts" ELSE IF stage = "contracts" THEN "errors" ELSE "done"
  BY DEF EndRound
<1>3. Typed'
  <2>1. Flags'
    BY <1>2 DEF SummaryInv, Typed, Flags
  <2>2. stage' \in {"contracts", "errors", "done"}
    BY <1>2
  <2> QED
    BY <1>1, <1>2, <2>1, <2>2 DEF SummaryInv, Typed, Names
<1>4. UnderWay'
  BY <1>2 DEF UnderWay
<1>5. \A k : (Agreed(k)' <=> Agreed(k)) /\ Errors(k)' = Errors(k)
  BY <1>2 DEF Agreed, Errors, ReportAt
<1>6. Rounds'
  <2>1. CASE changed
    <3>1. stage' = "contracts" /\ stage = "contracts"
      BY <1>1, <1>2, <2>1 DEF SummaryInv, Rounds
    <3>2. Confirmed' = {} /\ Examined' = {} /\ Examined = {}
      BY <1>2, <3>1 DEF Confirmed, Examined
    <3> QED
      BY <1>2, <3>1, <3>2 DEF SummaryInv, Rounds
  <2>2. CASE ~changed /\ stage = "contracts"
    <3>1. stage' = "errors" /\ Confirmed' = DOMAIN plan /\ Confirmed = DOMAIN plan
          /\ Examined' = {} /\ Examined = {}
      BY <1>1, <1>2, <2>2 DEF Confirmed, Examined
    <3> QED
      BY <1>2, <1>5, <3>1 DEF SummaryInv, Rounds
  <2>3. CASE ~changed /\ stage = "errors"
    <3>1. stage' = "done" /\ Confirmed' = DOMAIN plan /\ Confirmed = DOMAIN plan
          /\ Examined' = DOMAIN plan /\ Examined = DOMAIN plan
      BY <1>1, <1>2, <2>3 DEF Confirmed, Examined
    <3>2. errors' = UNION {Errors(k)' : k \in Examined'}
      BY <1>2, <1>5, <3>1 DEF SummaryInv, Rounds
    <3> QED
      BY <1>2, <1>5, <3>1, <3>2 DEF SummaryInv, Rounds
  <2> QED
    BY <1>1, <2>1, <2>2, <2>3
<1> QED
  BY <1>3, <1>4, <1>6 DEF SummaryInv

-----------------------------------------------------------------------------
(* The theorems.                                                           *)

LEMMA StepSummary == SummaryInv /\ [Next]_vars => SummaryInv'
<1> SUFFICES ASSUME SummaryInv, [Next]_vars PROVE SummaryInv'
  OBVIOUS
<1>1. CASE Begin
  BY <1>1, BeginSummary
<1>2. CASE Visit
  BY <1>2, VisitSummary
<1>3. CASE Finish
  BY <1>3, FinishSummary
<1>4. CASE EndRound
  BY <1>4, EndRoundSummary
<1>5. CASE Ended \/ UNCHANGED vars
  BY <1>5, KeptSummary DEF Ended
<1> QED
  BY <1>1, <1>2, <1>3, <1>4, <1>5 DEF Next

LEMMA SummaryHolds == Spec => []SummaryInv
<1>1. Init => SummaryInv
  BY InitSummary
<1>2. SummaryInv /\ [Next]_vars => SummaryInv'
  BY StepSummary
<1> QED
  BY <1>1, <1>2, PTL DEF Spec

\* The worklist of analyze forgets no growth: whatever the functions of a
\* program are and however their blocks are connected, a block that is not
\* queued has handed on everything that holds at its end.
THEOREM WorklistForgetsNothing == Spec => []NoGrowthForgotten
<1>1. SummaryInv => NoGrowthForgotten
  BY DEF SummaryInv, UnderWay, NoGrowthForgotten
<1> QED
  BY <1>1, SummaryHolds, PTL

\* When the rounds over all functions end, every function was last analysed
\* with the contracts that all the others have in the end.
THEOREM ContractsHaveAgreed == Spec => []ContractsAgree
<1>1. SummaryInv => ContractsAgree
  BY DEF SummaryInv, Rounds, Confirmed, Agreed, ContractsAgree
<1> QED
  BY <1>1, SummaryHolds, PTL

\* The answer is one solution of the whole program: states that agree with the
\* code and with the final contracts, contracts that say all that the functions
\* do in these states, and the errors of these same states.  The pass for the
\* errors solves every function again; it comes to the states of the last round
\* because a worklist has only one end.
THEOREM AnswerIsOneSolution == Spec => []OneSolution
<1>1. SummaryInv => OneSolution
  <2> SUFFICES ASSUME SummaryInv, stage = "done" PROVE OneSolution
    BY DEF OneSolution
  <2> DEFINE sol == [k \in DOMAIN plan |-> EndOf(plan[k], known)]
  <2>1. Confirmed = DOMAIN plan /\ Examined = DOMAIN plan
    BY DEF Confirmed, Examined
  <2>2. \A k \in DOMAIN plan : sol[k] = EndOf(plan[k], known)
    OBVIOUS
  <2>3. \A k \in DOMAIN plan :
          /\ Annotation(plan[k], known, sol[k])
          /\ Keeps(known[plan[k].name],
                   Learned(plan[k], known, Report(plan[k], known, sol[k])))
    BY <2>1, <2>2 DEF SummaryInv, Rounds, Agreed, ReportAt
  <2>4. \A k \in DOMAIN plan :
          Errors(k) = {<<plan[k].name, e>> : e \in Report(plan[k], known, sol[k]).errors}
    BY <2>2 DEF Errors, ReportAt
  <2>5. errors = UNION {{<<plan[k].name, e>> : e \in Report(plan[k], known, sol[k]).errors} :
                          k \in DOMAIN plan}
    <3> DEFINE E(k) == {<<plan[k].name, e>> : e \in Report(plan[k], known, sol[k]).errors}
    <3>1. errors = UNION {Errors(k) : k \in DOMAIN plan}
      BY <2>1 DEF SummaryInv, Rounds
    <3>2. \A k \in DOMAIN plan : Errors(k) = E(k)
      BY <2>4
    <3> HIDE DEF E
    <3>3. errors = UNION {E(k) : k \in DOMAIN plan}
      BY <3>1, <3>2
    <3> QED
      BY <3>3 DEF E
  <2> HIDE DEF sol
  <2>6. \E s :
          /\ \A k \in DOMAIN plan :
               /\ Annotation(plan[k], known, s[k])
               /\ Keeps(known[plan[k].name],
                        Learned(plan[k], known, Report(plan[k], known, s[k])))
          /\ errors = UNION {{<<plan[k].name, e>> : e \in Report(plan[k], known, s[k]).errors} :
                               k \in DOMAIN plan}
    BY <2>3, <2>5
  <2> QED
    BY <2>6 DEF OneSolution
<1> QED
  BY <1>1, SummaryHolds, PTL

\* Worklist order cannot suppress a moved path: whatever the functions are, a
\* binding that is used on some path after it was moved, or before it was
\* initialized, is reported, although no state of the path is ever computed.
\* What is live after an operation depends on what is live before it alone, and
\* more alternatives never make an error go away (Follows); the states of the
\* solution know all that holds on the path.
THEOREM MovesAreReported == Spec => []MovesReported
<1>1. SummaryInv => MovesReported
  <2> SUFFICES ASSUME SummaryInv, stage = "done",
                      NEW k \in DOMAIN plan, NEW b \in Binding,
                      \E m \in LiveMessages : <<m, b>> \in Walk(plan[k], known).errors
               PROVE  \E m \in LiveMessages : <<plan[k].name, <<m, b>>>> \in errors
    BY DEF MovesReported
  <2>1. Confirmed = DOMAIN plan /\ Examined = DOMAIN plan
    BY DEF Confirmed, Examined
  <2>2. Annotation(plan[k], known, EndOf(plan[k], known))
    BY <2>1 DEF SummaryInv, Rounds, Agreed
  <2>3. \A x \in DOMAIN plan[k].blocks : IsCode(plan[k].blocks[x].code)
    BY PlanIs DEF SummaryInv, Typed
  <2>4. Blamed(Walk(plan[k], known)) \subseteq Blamed(ReportAt(k))
    BY <2>2, <2>3, WalkSeen DEF ReportAt
  <2>5. b \in Blamed(ReportAt(k))
    BY <2>4 DEF Blamed
  <2>6. PICK m \in LiveMessages : <<m, b>> \in ReportAt(k).errors
    BY <2>5 DEF Blamed
  <2>7. <<plan[k].name, <<m, b>>>> \in Errors(k)
    BY <2>6 DEF Errors
  <2>8. errors = UNION {Errors(x) : x \in DOMAIN plan}
    BY <2>1 DEF SummaryInv, Rounds
  <2> QED
    BY <2>7, <2>8
<1> QED
  BY <1>1, SummaryHolds, PTL
=============================================================================
