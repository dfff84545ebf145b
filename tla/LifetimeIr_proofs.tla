------------------------- MODULE LifetimeIr_proofs -------------------------
(***************************************************************************)
(* Lemmas about the rules of LifetimeIr: every accepted operation keeps    *)
(* the type of the flow, and every rule is monotone: what is accepted for  *)
(* a flow is accepted for a narrower one, with a narrower result.          *)
(***************************************************************************)
EXTENDS LifetimeIr, FiniteSetTheorems, TLAPS

-----------------------------------------------------------------------------
(* The moves of the flow keep its type.                                    *)

\* The number of times a register occurs in a list of operands is a natural.
LEMMA UsesNat ==
  ASSUME NEW n \in Nat, NEW args \in [1..n -> Reg]
  PROVE  Uses(args) \in [Reg -> Nat]
<1>1. SUFFICES ASSUME NEW r \in Reg
               PROVE  Cardinality({k \in DOMAIN args : args[k] = r}) \in Nat
  BY DEF Uses
<1>2. IsFiniteSet(1..n)
  BY FS_Interval
<1>3. IsFiniteSet({k \in DOMAIN args : args[k] = r})
  BY <1>2, FS_Subset
<1> QED
  BY <1>3, FS_CardinalityType

LEMMA OnceNat == ASSUME NEW v PROVE Once(v) \in [Reg -> Nat]
BY DEF Once

\* take: the counts stay within 0..MaxEdges and shrink by what is paid.
LEMMA TakeFlow ==
  ASSUME NEW f \in Flow, NEW uses \in [Reg -> Nat], CanTake(f, uses)
  PROVE  /\ Take(f, uses) \in Flow
         /\ Take(f, uses).cells = f.cells
         /\ Take(f, uses).cleanup = f.cleanup
         /\ Take(f, uses).leases = f.leases
         /\ Take(f, uses).cellLeases = f.cellLeases
         /\ Take(f, uses).progress = f.progress
         /\ Take(f, uses).values =
              [r \in Reg |-> IF r \in Zero THEN f.values[r]
                             ELSE {n - uses[r] : n \in f.values[r]}]
<1> DEFINE vals == [r \in Reg |-> IF r \in Zero THEN f.values[r]
                                  ELSE {n - uses[r] : n \in f.values[r]}]
<1>1. ASSUME NEW r \in Reg PROVE vals[r] \subseteq Count
  <2>1. f.values[r] \subseteq Count
    BY DEF Flow
  <2>2. CASE r \in Zero
    BY <2>1, <2>2
  <2>3. CASE r \notin Zero
    <3>1. \A n \in f.values[r] : n - uses[r] \in Count
      BY <2>1, <2>3 DEF CanTake, Count, MaxEdges
    <3> QED
      BY <2>3, <3>1
  <2> QED
    BY <2>2, <2>3
<1>2. vals \in [Reg -> SUBSET Count]
  BY <1>1
<1>3. Take(f, uses) = [f EXCEPT !.values = vals]
  BY DEF Take
<1> QED
  BY <1>2, <1>3 DEF Flow

\* produce: the register now carries exactly one edge.
LEMMA ProduceFlow ==
  ASSUME NEW f \in Flow, NEW d \in Reg, NEW lease \in SUBSET BOOLEAN
  PROVE  /\ Produce(f, d, lease) \in Flow
         /\ Produce(f, d, lease).cells = f.cells
         /\ Produce(f, d, lease).cleanup = f.cleanup
         /\ Produce(f, d, lease).cellLeases = f.cellLeases
         /\ Produce(f, d, lease).progress = f.progress
         /\ Produce(f, d, lease).values = [f.values EXCEPT ![d] = {1}]
         /\ Produce(f, d, lease).leases = [f.leases EXCEPT ![d] = lease]
<1>1. {1} \in SUBSET Count
  BY DEF Count, MaxEdges
<1> QED
  BY <1>1 DEF Produce, Flow

\* A slot that is filled or vacated has that one alternative afterwards.
LEMMA SetSlotFlow ==
  ASSUME NEW f \in Flow, NEW s \in Slot, NEW live \in BOOLEAN
  PROVE  /\ SetSlot(f, s, live) \in Flow
         /\ SetSlot(f, s, live).values = f.values
         /\ SetSlot(f, s, live).leases = f.leases
         /\ SetSlot(f, s, live).cellLeases = f.cellLeases
         /\ SetSlot(f, s, live).progress = f.progress
         /\ s \in Owner =>
              /\ SetSlot(f, s, live).cells = [f.cells EXCEPT ![s] = {live}]
              /\ SetSlot(f, s, live).cleanup = [f.cleanup EXCEPT ![s] = {live}]
         /\ s \notin Owner => SetSlot(f, s, live) = f
BY DEF SetSlot, Flow

LEMMA ResetProgressFlow ==
  ASSUME NEW f \in Flow, NEW s
  PROVE  /\ ResetProgress(f, s) \in Flow
         /\ ResetProgress(f, s).values = f.values
         /\ ResetProgress(f, s).cells = f.cells
         /\ ResetProgress(f, s).cleanup = f.cleanup
         /\ ResetProgress(f, s).cellLeases = f.cellLeases
         /\ ResetProgress(f, s).leases = f.leases
         /\ ResetProgress(f, s).progress =
              [p \in Shell \X Field |-> IF p[1] = s THEN {FALSE} ELSE f.progress[p]]
BY DEF ResetProgress, Flow

-----------------------------------------------------------------------------
(* Narrower flows.                                                         *)

LEMMA NarrowerTransitive ==
  ASSUME NEW e, NEW f, NEW g, Narrower(g, f), Narrower(f, e)
  PROVE  Narrower(g, e)
BY DEF Narrower

LEMMA NarrowerFull ==
  ASSUME NEW f, NEW g, Narrower(g, f)
  PROVE  Narrower(g, g)
BY DEF Narrower

LEMMA NarrowerWide ==
  ASSUME NEW f, NEW g, Narrower(g, f)
  PROVE  Narrower(f, f)
BY DEF Narrower

LEMMA TakeNarrower ==
  ASSUME NEW f \in Flow, NEW g \in Flow, Narrower(g, f),
         NEW uses \in [Reg -> Nat], CanTake(f, uses)
  PROVE  CanTake(g, uses) /\ Narrower(Take(g, uses), Take(f, uses))
<1> DEFINE tf == Take(f, uses)
           tg == Take(g, uses)
<1>1. CanTake(g, uses)
  BY DEF CanTake, Narrower
<1>2. /\ tf.cells = f.cells /\ tf.cleanup = f.cleanup /\ tf.leases = f.leases
      /\ tf.cellLeases = f.cellLeases /\ tf.progress = f.progress
      /\ tf.values = [r \in Reg |-> IF r \in Zero THEN f.values[r]
                                    ELSE {n - uses[r] : n \in f.values[r]}]
  BY TakeFlow
<1>3. /\ tg.cells = g.cells /\ tg.cleanup = g.cleanup /\ tg.leases = g.leases
      /\ tg.cellLeases = g.cellLeases /\ tg.progress = g.progress
      /\ tg.values = [r \in Reg |-> IF r \in Zero THEN g.values[r]
                                    ELSE {n - uses[r] : n \in g.values[r]}]
  BY <1>1, TakeFlow
<1> HIDE DEF tf, tg
<1>4. ASSUME NEW r \in Reg
      PROVE  tg.values[r] # {} /\ tg.values[r] \subseteq tf.values[r]
  <2>1. g.values[r] # {} /\ g.values[r] \subseteq f.values[r]
    BY DEF Narrower
  <2>2. CASE r \in Zero
    BY <1>2, <1>3, <2>1, <2>2
  <2>3. CASE r \notin Zero
    <3>1. /\ tg.values[r] = {n - uses[r] : n \in g.values[r]}
          /\ tf.values[r] = {n - uses[r] : n \in f.values[r]}
      BY <1>2, <1>3, <2>3
    <3> QED
      BY <2>1, <3>1
  <2> QED
    BY <2>2, <2>3
<1>5. Narrower(tg, tf)
  BY <1>2, <1>3, <1>4 DEF Narrower
<1> QED
  BY <1>1, <1>5 DEF tf, tg

LEMMA ProduceNarrower ==
  ASSUME NEW f \in Flow, NEW g \in Flow, Narrower(g, f), NEW d \in Reg,
         NEW k \in SUBSET BOOLEAN, NEW l \in SUBSET BOOLEAN,
         l # {}, l \subseteq k
  PROVE  /\ CanProduce(f, d) => CanProduce(g, d)
         /\ Narrower(Produce(g, d, l), Produce(f, d, k))
<1> DEFINE pf == Produce(f, d, k)
           pg == Produce(g, d, l)
<1>1. CanProduce(f, d) => CanProduce(g, d)
  BY DEF CanProduce, Narrower
<1>2. /\ pf.cells = f.cells /\ pf.cleanup = f.cleanup
      /\ pf.cellLeases = f.cellLeases /\ pf.progress = f.progress
      /\ pf.values = [f.values EXCEPT ![d] = {1}]
      /\ pf.leases = [f.leases EXCEPT ![d] = k]
  BY ProduceFlow
<1>3. /\ pg.cells = g.cells /\ pg.cleanup = g.cleanup
      /\ pg.cellLeases = g.cellLeases /\ pg.progress = g.progress
      /\ pg.values = [g.values EXCEPT ![d] = {1}]
      /\ pg.leases = [g.leases EXCEPT ![d] = l]
  BY ProduceFlow
<1>4. /\ f.values \in [Reg -> SUBSET Count] /\ f.leases \in [Reg -> SUBSET BOOLEAN]
      /\ g.values \in [Reg -> SUBSET Count] /\ g.leases \in [Reg -> SUBSET BOOLEAN]
  BY DEF Flow
<1> HIDE DEF pf, pg
<1>5. \A r \in Reg : pg.values[r] # {} /\ pg.values[r] \subseteq pf.values[r]
  BY <1>2, <1>3, <1>4 DEF Narrower
<1>6. \A r \in Reg : pg.leases[r] # {} /\ pg.leases[r] \subseteq pf.leases[r]
  BY <1>2, <1>3, <1>4 DEF Narrower
<1>7. Narrower(pg, pf)
  BY <1>2, <1>3, <1>5, <1>6 DEF Narrower
<1> QED
  BY <1>1, <1>7 DEF pf, pg

LEMMA SetSlotNarrower ==
  ASSUME NEW f \in Flow, NEW g \in Flow, Narrower(g, f), NEW s \in Slot,
         NEW live \in BOOLEAN
  PROVE  Narrower(SetSlot(g, s, live), SetSlot(f, s, live))
<1>1. CASE s \notin Owner
  BY <1>1 DEF SetSlot
<1>2. CASE s \in Owner
  <2> DEFINE sf == SetSlot(f, s, live)
             sg == SetSlot(g, s, live)
  <2>1. /\ f.cells \in [Owner -> SUBSET BOOLEAN] /\ f.cleanup \in [Owner -> SUBSET BOOLEAN]
        /\ g.cells \in [Owner -> SUBSET BOOLEAN] /\ g.cleanup \in [Owner -> SUBSET BOOLEAN]
    BY DEF Flow
  <2>2. /\ sf.values = f.values /\ sf.leases = f.leases
        /\ sf.cellLeases = f.cellLeases /\ sf.progress = f.progress
        /\ sf.cells = [f.cells EXCEPT ![s] = {live}]
        /\ sf.cleanup = [f.cleanup EXCEPT ![s] = {live}]
    BY <1>2, SetSlotFlow
  <2>3. /\ sg.values = g.values /\ sg.leases = g.leases
        /\ sg.cellLeases = g.cellLeases /\ sg.progress = g.progress
        /\ sg.cells = [g.cells EXCEPT ![s] = {live}]
        /\ sg.cleanup = [g.cleanup EXCEPT ![s] = {live}]
    BY <1>2, SetSlotFlow
  <2> HIDE DEF sf, sg
  <2>4. ASSUME NEW t \in Owner
        PROVE  sg.cells[t] # {} /\ sg.cells[t] \subseteq sf.cells[t]
    <3>1. g.cells[t] # {} /\ g.cells[t] \subseteq f.cells[t]
      BY DEF Narrower
    <3> QED
      BY <2>1, <2>2, <2>3, <3>1
  <2>5. ASSUME NEW t \in Owner
        PROVE  sg.cleanup[t] # {} /\ sg.cleanup[t] \subseteq sf.cleanup[t]
    <3>1. g.cleanup[t] # {} /\ g.cleanup[t] \subseteq f.cleanup[t]
      BY DEF Narrower
    <3> QED
      BY <2>1, <2>2, <2>3, <3>1
  <2>6. Narrower(sg, sf)
    BY <2>2, <2>3, <2>4, <2>5 DEF Narrower
  <2> QED
    BY <2>6 DEF sf, sg
<1> QED
  BY <1>1, <1>2

LEMMA ResetProgressNarrower ==
  ASSUME NEW f \in Flow, NEW g \in Flow, Narrower(g, f), NEW s
  PROVE  Narrower(ResetProgress(g, s), ResetProgress(f, s))
<1> DEFINE rf == ResetProgress(f, s)
           rg == ResetProgress(g, s)
<1>1. /\ rf.values = f.values /\ rf.leases = f.leases /\ rf.cells = f.cells
      /\ rf.cleanup = f.cleanup /\ rf.cellLeases = f.cellLeases
      /\ rf.progress =
           [p \in Shell \X Field |-> IF p[1] = s THEN {FALSE} ELSE f.progress[p]]
  BY DEF ResetProgress, Flow
<1>2. /\ rg.values = g.values /\ rg.leases = g.leases /\ rg.cells = g.cells
      /\ rg.cleanup = g.cleanup /\ rg.cellLeases = g.cellLeases
      /\ rg.progress =
           [p \in Shell \X Field |-> IF p[1] = s THEN {FALSE} ELSE g.progress[p]]
  BY DEF ResetProgress, Flow
<1> HIDE DEF rf, rg
<1>3. ASSUME NEW p \in Shell \X Field
      PROVE  rg.progress[p] # {} /\ rg.progress[p] \subseteq rf.progress[p]
  <2>1. g.progress[p] # {} /\ g.progress[p] \subseteq f.progress[p]
    BY DEF Narrower
  <2>2. /\ rf.progress[p] = (IF p[1] = s THEN {FALSE} ELSE f.progress[p])
        /\ rg.progress[p] = (IF p[1] = s THEN {FALSE} ELSE g.progress[p])
    BY <1>1, <1>2
  <2> QED
    BY <2>1, <2>2
<1>4. Narrower(rg, rf)
  BY <1>1, <1>2, <1>3 DEF Narrower
<1> QED
  BY <1>4 DEF rf, rg

\* Joining loses no alternative of either side.
LEMMA JoinWider ==
  ASSUME NEW f \in Flow, NEW g \in Flow, Narrower(f, f), Narrower(g, g)
  PROVE  /\ Join(f, g) \in Flow
         /\ Narrower(f, Join(f, g)) /\ Narrower(g, Join(f, g))
<1> DEFINE j == [values     |-> Union(f.values, g.values),
                 leases     |-> Union(f.leases, g.leases),
                 cells      |-> Union(f.cells, g.cells),
                 cellLeases |-> Union(f.cellLeases, g.cellLeases),
                 progress   |-> Union(f.progress, g.progress),
                 cleanup    |-> Union(f.cleanup, g.cleanup)]
<1>1. Join(f, g) = j
  BY DEF Join, Flow
<1>2. j \in Flow
  BY DEF Flow, Union
<1>3. Narrower(f, j)
  BY DEF Narrower, Union, Flow
<1>4. Narrower(g, j)
  BY DEF Narrower, Union, Flow
<1> QED
  BY <1>1, <1>2, <1>3, <1>4

-----------------------------------------------------------------------------
(* The rules are monotone.  Refines packs what every rule preserves.       *)

Refines(g, f) == f \in Flow /\ g \in Flow /\ Narrower(g, f)

LEMMA TakeRefines ==
  ASSUME NEW f, NEW g, Refines(g, f), NEW uses \in [Reg -> Nat], CanTake(f, uses)
  PROVE  /\ CanTake(g, uses) /\ Refines(Take(g, uses), Take(f, uses))
         /\ Take(f, uses).leases = f.leases /\ Take(g, uses).leases = g.leases
<1>1. f \in Flow /\ g \in Flow /\ Narrower(g, f)
  BY DEF Refines
<1>2. CanTake(g, uses) /\ Narrower(Take(g, uses), Take(f, uses))
  BY <1>1, TakeNarrower
<1>3. Take(f, uses) \in Flow /\ Take(f, uses).leases = f.leases
  BY <1>1, TakeFlow
<1>4. Take(g, uses) \in Flow /\ Take(g, uses).leases = g.leases
  BY <1>1, <1>2, TakeFlow
<1> QED
  BY <1>2, <1>3, <1>4 DEF Refines

LEMMA ProduceRefines ==
  ASSUME NEW f, NEW g, Refines(g, f), NEW d \in Reg,
         NEW k \in SUBSET BOOLEAN, NEW l \in SUBSET BOOLEAN, l # {}, l \subseteq k
  PROVE  Refines(Produce(g, d, l), Produce(f, d, k))
<1>1. f \in Flow /\ g \in Flow /\ Narrower(g, f)
  BY DEF Refines
<1>2. Narrower(Produce(g, d, l), Produce(f, d, k))
  BY <1>1, ProduceNarrower
<1>3. Produce(f, d, k) \in Flow
  BY <1>1, ProduceFlow
<1>4. Produce(g, d, l) \in Flow
  BY <1>1, ProduceFlow
<1> QED
  BY <1>2, <1>3, <1>4 DEF Refines

LEMMA CanProduceRefines ==
  ASSUME NEW f, NEW g, Refines(g, f), NEW d \in Reg, CanProduce(f, d)
  PROVE  CanProduce(g, d)
BY DEF CanProduce, Refines, Narrower

LEMMA SetSlotRefines ==
  ASSUME NEW f, NEW g, Refines(g, f), NEW s \in Slot, NEW live \in BOOLEAN
  PROVE  Refines(SetSlot(g, s, live), SetSlot(f, s, live))
<1>1. f \in Flow /\ g \in Flow /\ Narrower(g, f)
  BY DEF Refines
<1>2. Narrower(SetSlot(g, s, live), SetSlot(f, s, live))
  BY <1>1, SetSlotNarrower
<1>3. SetSlot(f, s, live) \in Flow /\ SetSlot(g, s, live) \in Flow
  BY <1>1, SetSlotFlow
<1> QED
  BY <1>2, <1>3 DEF Refines

LEMMA ResetProgressRefines ==
  ASSUME NEW f, NEW g, Refines(g, f), NEW s \in Slot
  PROVE  Refines(ResetProgress(g, s), ResetProgress(f, s))
<1>1. f \in Flow /\ g \in Flow /\ Narrower(g, f)
  BY DEF Refines
<1>2. Narrower(ResetProgress(g, s), ResetProgress(f, s))
  BY <1>1, ResetProgressNarrower
<1>3. ResetProgress(f, s) \in Flow /\ ResetProgress(g, s) \in Flow
  BY <1>1, ResetProgressFlow
<1> QED
  BY <1>2, <1>3 DEF Refines

\* One entry of one component is replaced.
LEMMA CellLeaseRefines ==
  ASSUME NEW f, NEW g, Refines(g, f), NEW s \in Slot,
         NEW k \in SUBSET BOOLEAN, NEW l \in SUBSET BOOLEAN, l # {}, l \subseteq k
  PROVE  Refines([g EXCEPT !.cellLeases[s] = l], [f EXCEPT !.cellLeases[s] = k])
BY DEF Refines, Narrower, Flow

LEMMA CellRefines ==
  ASSUME NEW f, NEW g, Refines(g, f), NEW s \in Owner, NEW k \in BOOLEAN
  PROVE  Refines([g EXCEPT !.cells[s] = {k}], [f EXCEPT !.cells[s] = {k}])
BY DEF Refines, Narrower, Flow

LEMMA CleanupRefines ==
  ASSUME NEW f, NEW g, Refines(g, f), NEW s \in Owner, NEW k \in BOOLEAN
  PROVE  Refines([g EXCEPT !.cleanup[s] = {k}], [f EXCEPT !.cleanup[s] = {k}])
BY DEF Refines, Narrower, Flow

LEMMA ProgressRefines ==
  ASSUME NEW f, NEW g, Refines(g, f), NEW p \in Shell \X Field, NEW k \in BOOLEAN
  PROVE  Refines([g EXCEPT !.progress[p] = {k}], [f EXCEPT !.progress[p] = {k}])
BY DEF Refines, Narrower, Flow

LEMMA ProgressRead ==
  ASSUME NEW f, NEW g, Refines(g, f), NEW s \in Shell, NEW i \in Field,
         f.progress[<<s, i>>] = {TRUE}
  PROVE  g.progress[<<s, i>>] = {TRUE}
<1> DEFINE p == <<s, i>>
<1>1. p \in Shell \X Field
  OBVIOUS
<1> HIDE DEF p
<1>2. g.progress[p] # {} /\ g.progress[p] \subseteq f.progress[p]
  BY <1>1 DEF Refines, Narrower
<1>3. f.progress[p] = {TRUE}
  BY DEF p
<1>4. g.progress[p] = {TRUE}
  <2>1. g.progress[p] # {} /\ g.progress[p] \subseteq {TRUE}
    BY <1>2, <1>3, Zenon
  <2> QED
    BY <2>1, Zenon
<1> QED
  BY <1>4 DEF p

\* What a check asks of one component of a wider flow holds of a narrower one.
LEMMA ReadsRefine ==
  ASSUME NEW f, NEW g, Refines(g, f)
  PROVE  /\ \A v \in Reg : Leased(g, v) => Leased(f, v)
         /\ \A s : Live(f, s) => Live(g, s)
         /\ \A s \in Owner : TRUE \notin f.cells[s] => TRUE \notin g.cells[s]
         /\ \A s \in Owner : TRUE \notin f.cleanup[s] => TRUE \notin g.cleanup[s]
         /\ \A p \in Shell \X Field : TRUE \notin f.progress[p] => TRUE \notin g.progress[p]
         /\ \A v \in Reg : \A n : n \notin f.values[v] => n \notin g.values[v]
         /\ \A v \in Reg : /\ f.leases[v] \in SUBSET BOOLEAN /\ g.leases[v] \in SUBSET BOOLEAN
                           /\ g.leases[v] # {} /\ g.leases[v] \subseteq f.leases[v]
         /\ \A s \in Slot :
              /\ f.cellLeases[s] \in SUBSET BOOLEAN /\ g.cellLeases[s] \in SUBSET BOOLEAN
              /\ g.cellLeases[s] # {} /\ g.cellLeases[s] \subseteq f.cellLeases[s]
<1>1. Narrower(g, f) /\ f \in Flow /\ g \in Flow
  BY DEF Refines
<1>2. \A v \in Reg : Leased(g, v) => Leased(f, v)
  BY <1>1 DEF Narrower, Leased
<1>3. \A s : Live(f, s) => Live(g, s)
  <2>1. ASSUME NEW s \in Owner, f.cells[s] = {TRUE} PROVE g.cells[s] = {TRUE}
    <3>1. g.cells[s] # {} /\ g.cells[s] \subseteq {TRUE}
      BY <1>1, <2>1 DEF Narrower
    <3> QED
      BY <3>1
  <2> QED
    BY <2>1 DEF Live
<1>4. /\ \A s \in Owner : TRUE \notin f.cells[s] => TRUE \notin g.cells[s]
      /\ \A s \in Owner : TRUE \notin f.cleanup[s] => TRUE \notin g.cleanup[s]
  BY <1>1 DEF Narrower
<1>5. \A p \in Shell \X Field : TRUE \notin f.progress[p] => TRUE \notin g.progress[p]
  BY <1>1 DEF Narrower
<1>6. \A v \in Reg : \A n : n \notin f.values[v] => n \notin g.values[v]
  BY <1>1 DEF Narrower
<1>7. \A v \in Reg : /\ f.leases[v] \in SUBSET BOOLEAN /\ g.leases[v] \in SUBSET BOOLEAN
                     /\ g.leases[v] # {} /\ g.leases[v] \subseteq f.leases[v]
  BY <1>1 DEF Narrower, Flow
<1>8. \A s \in Slot :
        /\ f.cellLeases[s] \in SUBSET BOOLEAN /\ g.cellLeases[s] \in SUBSET BOOLEAN
        /\ g.cellLeases[s] # {} /\ g.cellLeases[s] \subseteq f.cellLeases[s]
  BY <1>1 DEF Narrower, Flow
<1> QED
  BY <1>2, <1>3, <1>4, <1>5, <1>6, <1>7, <1>8
=============================================================================
