---------------------- MODULE LifetimeVerifier_proofs ----------------------
(***************************************************************************)
(* Soundness of the lifetime verifier: in a function it accepts, no path   *)
(* meets an instruction whose check would fail.  The argument has two      *)
(* parts.  The rules are monotone (StepRefines): a check that succeeds for *)
(* a flow succeeds for every narrower one, and the results stay in that    *)
(* relation.  And the worklist ends with flows that cover every edge of    *)
(* the graph (Inductive): a block is settled, or waits in the queue, or is *)
(* being visited.                                                          *)
(*                                                                         *)
(* Completeness: the worklist stays below every annotation of the function *)
(* that the rules accept (BelowAll).  So it rejects a function only if no  *)
(* annotation is possible, and it ends with the least one, which is also   *)
(* what the iteration round by round ends with.                            *)
(***************************************************************************)
EXTENDS LifetimeVerifier, LifetimeIr_proofs, Counting_proofs

-----------------------------------------------------------------------------
(* Every instruction is monotone.                                          *)

\* The rule X is accepted for g as well, and its results are related.
LEMMA AllocaRefines ==
  ASSUME NEW f, NEW g, Refines(g, f), NEW s \in Slot, AllocaOk(f, s)
  PROVE  AllocaOk(g, s) /\ Refines(Alloca(g, s), Alloca(f, s))
BY ReadsRefine, SetSlotRefines DEF AllocaOk, Alloca

LEMMA DropSlotRefines ==
  ASSUME NEW f, NEW g, Refines(g, f), NEW s \in Slot
  PROVE  Refines(DropSlot(g, s), DropSlot(f, s))
BY ResetProgressRefines, SetSlotRefines DEF DropSlot

LEMMA StoreOwnedRefines ==
  ASSUME NEW f, NEW g, Refines(g, f), NEW s \in Slot, NEW v \in Reg,
         StoreOwnedOk(f, s, v)
  PROVE  StoreOwnedOk(g, s, v) /\ Refines(StoreOwned(g, s, v), StoreOwned(f, s, v))
<1> DEFINE tf == Take(f, Once(v))
           tg == Take(g, Once(v))
           cf == [tf EXCEPT !.cellLeases[s] = f.leases[v]]
           cg == [tg EXCEPT !.cellLeases[s] = g.leases[v]]
           live == v \notin Zero
<1>1. CanTake(f, Once(v)) /\ Once(v) \in [Reg -> Nat]
  BY OnceNat DEF StoreOwnedOk
<1>2. CanTake(g, Once(v)) /\ Refines(tg, tf)
  BY <1>1, TakeRefines
<1>3. StoreOwnedOk(g, s, v)
  BY <1>2, ReadsRefine DEF StoreOwnedOk
<1>4. /\ f.leases[v] \in SUBSET BOOLEAN /\ g.leases[v] \in SUBSET BOOLEAN
      /\ g.leases[v] # {} /\ g.leases[v] \subseteq f.leases[v]
  BY ReadsRefine
<1> HIDE DEF tf, tg
<1>5. Refines(cg, cf)
  BY <1>2, <1>4, CellLeaseRefines
<1> HIDE DEF cf, cg
<1>6. live \in BOOLEAN
  OBVIOUS
<1> HIDE DEF live
<1>7. Refines(SetSlot(cg, s, live), SetSlot(cf, s, live))
  BY <1>5, <1>6, SetSlotRefines
<1> QED
  BY <1>3, <1>7 DEF StoreOwned, live, cf, cg, tf, tg

LEMMA MoveRefines ==
  ASSUME NEW f, NEW g, Refines(g, f), NEW d \in Reg, NEW s \in Slot, MoveOk(f, d, s)
  PROVE  MoveOk(g, d, s) /\ Refines(Move(g, d, s), Move(f, d, s))
<1> DEFINE k == f.cellLeases[s]
           l == g.cellLeases[s]
<1>1. MoveOk(g, d, s)
  BY ReadsRefine, CanProduceRefines DEF MoveOk
<1>2. /\ k \in SUBSET BOOLEAN /\ l \in SUBSET BOOLEAN /\ l # {} /\ l \subseteq k
  BY ReadsRefine
<1> HIDE DEF k, l
<1>3. Refines(Produce(g, d, l), Produce(f, d, k))
  BY <1>2, ProduceRefines
<1>4. Refines(SetSlot(Produce(g, d, l), s, FALSE), SetSlot(Produce(f, d, k), s, FALSE))
  BY <1>3, SetSlotRefines
<1> QED
  BY <1>1, <1>4 DEF Move, k, l

LEMMA TransferSlotRefines ==
  ASSUME NEW f, NEW g, Refines(g, f), NEW s \in Slot, NEW v \in Reg,
         TransferSlotOk(f, s, v)
  PROVE  TransferSlotOk(g, s, v) /\ Refines(TransferSlot(g, s, v), TransferSlot(f, s, v))
<1> DEFINE k == f.cellLeases[s]
           l == g.cellLeases[s]
<1>1. ASSUME s \in Shell, NEW i \in Recipe[s] PROVE g.progress[<<s, i>>] = {TRUE}
  <2>1. i \in Field
    BY <1>1, FactAssumption
  <2>2. f.progress[<<s, i>>] = {TRUE}
    BY <1>1 DEF TransferSlotOk
  <2> QED
    BY <1>1, <2>1, <2>2, ProgressRead
<1>2. TransferSlotOk(g, s, v)
  BY <1>1, ReadsRefine, CanProduceRefines DEF TransferSlotOk
<1>3. /\ k \in SUBSET BOOLEAN /\ l \in SUBSET BOOLEAN /\ l # {} /\ l \subseteq k
  BY ReadsRefine
<1>4. Refines(ResetProgress(g, s), ResetProgress(f, s))
  BY ResetProgressRefines
<1> HIDE DEF k, l
<1>5. Refines(Produce(ResetProgress(g, s), v, l), Produce(ResetProgress(f, s), v, k))
  BY <1>3, <1>4, ProduceRefines
<1>6. Refines(SetSlot(Produce(ResetProgress(g, s), v, l), s, FALSE),
              SetSlot(Produce(ResetProgress(f, s), v, k), s, FALSE))
  BY <1>5, SetSlotRefines
<1> QED
  BY <1>2, <1>6 DEF TransferSlot, k, l

\* The rules that pay some operands and produce one result.
LEMMA PayAndProduceRefines ==
  ASSUME NEW f, NEW g, Refines(g, f), NEW uses \in [Reg -> Nat], NEW d \in Reg,
         CanTake(f, uses), CanProduce(f, d),
         NEW k \in SUBSET BOOLEAN, NEW l \in SUBSET BOOLEAN, l # {}, l \subseteq k
  PROVE  /\ CanTake(g, uses) /\ CanProduce(g, d)
         /\ Refines(Produce(Take(g, uses), d, l), Produce(Take(f, uses), d, k))
<1>1. CanTake(g, uses) /\ Refines(Take(g, uses), Take(f, uses))
  BY TakeRefines
<1>2. CanProduce(g, d)
  BY CanProduceRefines
<1>3. Refines(Produce(Take(g, uses), d, l), Produce(Take(f, uses), d, k))
  BY <1>1, ProduceRefines
<1> QED
  BY <1>1, <1>2, <1>3

LEMMA SwapValueRefines ==
  ASSUME NEW f, NEW g, Refines(g, f), NEW d \in Reg, NEW s \in Slot, NEW v \in Reg,
         SwapValueOk(f, d, s, v)
  PROVE  SwapValueOk(g, d, s, v) /\ Refines(SwapValue(g, d, s, v), SwapValue(f, d, s, v))
<1> DEFINE pf == Produce(Take(f, Once(v)), d, {FALSE})
           pg == Produce(Take(g, Once(v)), d, {FALSE})
<1>1. Once(v) \in [Reg -> Nat] /\ {FALSE} \in SUBSET BOOLEAN
  BY OnceNat
<1>2. CanTake(g, Once(v)) /\ CanProduce(g, d) /\ Refines(pg, pf)
  BY <1>1, PayAndProduceRefines DEF SwapValueOk
<1>3. SwapValueOk(g, d, s, v)
  BY <1>2, ReadsRefine DEF SwapValueOk
<1> HIDE DEF pf, pg
<1>4. s \in Owner => Refines([pg EXCEPT !.cells[s] = {TRUE}], [pf EXCEPT !.cells[s] = {TRUE}])
  BY <1>2, CellRefines
<1> QED
  BY <1>2, <1>3, <1>4 DEF SwapValue, pf, pg

LEMMA OwnedCastRefines ==
  ASSUME NEW f, NEW g, Refines(g, f), NEW d \in Reg, NEW v \in Reg, OwnedCastOk(f, d, v)
  PROVE  OwnedCastOk(g, d, v) /\ Refines(OwnedCast(g, d, v), OwnedCast(f, d, v))
<1>1. Once(v) \in [Reg -> Nat]
  BY OnceNat
<1>2. /\ f.leases[v] \in SUBSET BOOLEAN /\ g.leases[v] \in SUBSET BOOLEAN
      /\ g.leases[v] # {} /\ g.leases[v] \subseteq f.leases[v]
  BY ReadsRefine
<1> QED
  BY <1>1, <1>2, PayAndProduceRefines DEF OwnedCastOk, OwnedCast

LEMMA DropValueRefines ==
  ASSUME NEW f, NEW g, Refines(g, f), NEW v \in Reg, NEW recipe, DropValueOk(f, v, recipe)
  PROVE  DropValueOk(g, v, recipe) /\ Refines(DropValue(g, v), DropValue(f, v))
<1> DEFINE tf == Take(f, Once(v))
           tg == Take(g, Once(v))
           s == Source[v]
<1>1. CanTake(g, Once(v)) /\ Refines(tg, tf)
  BY OnceNat, TakeRefines DEF DropValueOk
<1>2. DropValueOk(g, v, recipe)
  BY <1>1, ReadsRefine DEF DropValueOk
<1> HIDE DEF tf, tg, s
<1>3. s \in Owner =>
        Refines([tg EXCEPT !.cleanup[s] = {FALSE}], [tf EXCEPT !.cleanup[s] = {FALSE}])
  BY <1>1, CleanupRefines
<1> QED
  BY <1>1, <1>2, <1>3 DEF DropValue, tf, tg, s

LEMMA WrapRefines ==
  ASSUME NEW f, NEW g, Refines(g, f), NEW d \in Reg, NEW v \in Reg, NEW kind,
         WrapOk(f, d, v, kind)
  PROVE  WrapOk(g, d, v, kind) /\ Refines(Wrap(g, d, v), Wrap(f, d, v))
<1>1. Once(v) \in [Reg -> Nat] /\ {FALSE} \in SUBSET BOOLEAN
  BY OnceNat
<1>2. CanTake(g, Once(v)) /\ CanProduce(g, d) /\ Refines(Wrap(g, d, v), Wrap(f, d, v))
  BY <1>1, PayAndProduceRefines DEF WrapOk, Wrap
<1> QED
  BY <1>2, ReadsRefine DEF WrapOk

LEMMA CallRefines ==
  ASSUME NEW f, NEW g, Refines(g, f), NEW args \in Seq(Reg), NEW d \in Reg,
         CallOk(f, args, d)
  PROVE  CallOk(g, args, d) /\ Refines(Call(g, args, d), Call(f, args, d))
<1>1. Len(args) \in Nat /\ args \in [1..Len(args) -> Reg] /\ DOMAIN args = 1..Len(args)
  OBVIOUS
<1>2. Uses(args) \in [Reg -> Nat] /\ {FALSE} \in SUBSET BOOLEAN
  BY <1>1, UsesNat
<1>3. /\ CanTake(g, Uses(args)) /\ CanProduce(g, d)
      /\ Refines(Call(g, args, d), Call(f, args, d))
  BY <1>2, PayAndProduceRefines DEF CallOk, Call
<1>4. \A k \in DOMAIN args : ~Leased(g, args[k])
  BY <1>1, ReadsRefine DEF CallOk
<1> QED
  BY <1>3, <1>4 DEF CallOk

LEMMA ProductionRefines ==
  ASSUME NEW f, NEW g, Refines(g, f), NEW d \in Reg, CanProduce(f, d)
  PROVE  CanProduce(g, d) /\ Refines(Produce(g, d, {FALSE}), Produce(f, d, {FALSE}))
BY CanProduceRefines, ProduceRefines

LEMMA ConstructionRefines ==
  ASSUME NEW f, NEW g, Refines(g, f), NEW s \in Shell, ConstructionOk(f, s)
  PROVE  ConstructionOk(g, s) /\ Refines(Construction(g, s), Construction(f, s))
<1>1. ConstructionOk(g, s)
  BY ReadsRefine DEF ConstructionOk
<1>2. Refines(Construction(g, s), Construction(f, s))
  BY DEF Construction, Refines, Narrower, Flow
<1> QED
  BY <1>1, <1>2

LEMMA InitializeFieldRefines ==
  ASSUME NEW f, NEW g, Refines(g, f), NEW s \in Shell, NEW i \in Field, NEW v \in Reg,
         InitializeFieldOk(f, s, i, v)
  PROVE  /\ InitializeFieldOk(g, s, i, v)
         /\ Refines(InitializeField(g, s, i, v), InitializeField(f, s, i, v))
<1> DEFINE tf == Take(f, Once(v))
           tg == Take(g, Once(v))
           p == <<s, i>>
           full == v \notin Zero
<1>1. CanTake(g, Once(v)) /\ Refines(tg, tf)
  BY OnceNat, TakeRefines DEF InitializeFieldOk
<1>2. p \in Shell \X Field /\ full \in BOOLEAN
  OBVIOUS
<1>3. TRUE \notin g.progress[p]
  BY <1>2, ReadsRefine DEF InitializeFieldOk
<1>4. InitializeFieldOk(g, s, i, v)
  BY <1>1, <1>3, ReadsRefine DEF InitializeFieldOk
<1> HIDE DEF tf, tg, p, full
<1>5. Refines([tg EXCEPT !.progress[p] = {full}], [tf EXCEPT !.progress[p] = {full}])
  BY <1>1, <1>2, ProgressRefines
<1> QED
  BY <1>4, <1>5 DEF InitializeField, tf, tg, p, full

LEMMA AcquireRefines ==
  ASSUME NEW f, NEW g, Refines(g, f), NEW v \in Reg, NEW kind, AcquireOk(f, v, kind)
  PROVE  AcquireOk(g, v, kind) /\ Refines(Acquire(g, v, kind), Acquire(f, v, kind))
<1> DEFINE lease == kind = "Evaluation"
           More(S) == IF v \in Zero THEN S ELSE {n + 1 : n \in S}
<1>1. AcquireOk(g, v, kind)
  BY ReadsRefine DEF AcquireOk
<1>2. lease \in BOOLEAN
  OBVIOUS
<1>3. f \in Flow /\ g \in Flow /\ Narrower(g, f)
  BY DEF Refines
<1>4. /\ f.values \in [Reg -> SUBSET Count] /\ f.leases \in [Reg -> SUBSET BOOLEAN]
      /\ g.values \in [Reg -> SUBSET Count] /\ g.leases \in [Reg -> SUBSET BOOLEAN]
  BY <1>3 DEF Flow
<1>5. /\ More(f.values[v]) \in SUBSET Count /\ More(g.values[v]) \in SUBSET Count
      /\ More(g.values[v]) # {} /\ More(g.values[v]) \subseteq More(f.values[v])
  <2>1. /\ f.values[v] \in SUBSET Count
        /\ g.values[v] # {} /\ g.values[v] \subseteq f.values[v]
    BY <1>3, <1>4 DEF Narrower
  <2>2. CASE v \in Zero
    BY <2>1, <2>2
  <2>3. CASE v \notin Zero
    <3>1. \A n \in f.values[v] : n + 1 \in Count
      BY <2>1, <2>3 DEF AcquireOk, Count, MaxEdges
    <3> QED
      BY <2>1, <2>3, <3>1
  <2> QED
    BY <2>2, <2>3
<1> DEFINE mf == More(f.values[v])
           mg == More(g.values[v])
<1>6. mf \in SUBSET Count /\ mg \in SUBSET Count /\ mg # {} /\ mg \subseteq mf
  BY <1>5
<1>7. Acquire(f, v, kind) = [f EXCEPT !.leases[v] = {lease}, !.values[v] = mf]
  BY <1>3, <1>4 DEF Acquire, Flow
<1>8. Acquire(g, v, kind) = [g EXCEPT !.leases[v] = {lease}, !.values[v] = mg]
  BY <1>3, <1>4 DEF Acquire, Flow
<1> HIDE DEF lease, mf, mg
<1>9. /\ [f EXCEPT !.leases[v] = {lease}, !.values[v] = mf] \in Flow
      /\ [g EXCEPT !.leases[v] = {lease}, !.values[v] = mg] \in Flow
  BY <1>2, <1>3, <1>6 DEF Flow
<1>10. Narrower([g EXCEPT !.leases[v] = {lease}, !.values[v] = mg],
                [f EXCEPT !.leases[v] = {lease}, !.values[v] = mf])
  BY <1>2, <1>3, <1>6 DEF Flow, Narrower
<1> QED
  BY <1>1, <1>7, <1>8, <1>9, <1>10 DEF Refines

LEMMA PaymentRefines ==
  ASSUME NEW f, NEW g, Refines(g, f), NEW v \in Reg, CanTake(f, Once(v))
  PROVE  CanTake(g, Once(v)) /\ Refines(Take(g, Once(v)), Take(f, Once(v)))
BY OnceNat, TakeRefines

LEMMA RetRefines ==
  ASSUME NEW f, NEW g, Refines(g, f), NEW v \in Reg, RetOk(f, v)
  PROVE  RetOk(g, v) /\ Refines(Take(g, Once(v)), Take(f, Once(v)))
<1>1. CanTake(g, Once(v)) /\ Refines(Take(g, Once(v)), Take(f, Once(v)))
  BY PaymentRefines DEF RetOk
<1>2. \A r \in Reg : Take(g, Once(v)).values[r] \subseteq {0}
  BY <1>1 DEF RetOk, Refines, Narrower
<1> QED
  BY <1>1, <1>2, ReadsRefine DEF RetOk

\* The check of an instruction and its effect, for every instruction.
LEMMA StepRefines ==
  ASSUME NEW f, NEW g, Refines(g, f), NEW i \in Instr, Accepts(f, i)
  PROVE  Accepts(g, i) /\ Refines(Apply(g, i), Apply(f, i))
<1>1. CASE i.op = "Alloca"
  <2>1. i.s \in Slot
    BY <1>1 DEF Instr
  <2> QED
    BY <1>1, <2>1, AllocaRefines DEF Accepts, Apply
<1>2. CASE i.op = "DropSlot"
  <2>1. i.s \in Slot
    BY <1>2 DEF Instr
  <2> QED
    BY <1>2, <2>1, DropSlotRefines DEF Accepts, Apply
<1>3. CASE i.op = "StoreOwned"
  <2>1. i.s \in Slot /\ i.v \in Reg
    BY <1>3 DEF Instr
  <2> QED
    BY <1>3, <2>1, StoreOwnedRefines DEF Accepts, Apply
<1>4. CASE i.op = "TransferSlot"
  <2>1. i.s \in Slot /\ i.v \in Reg
    BY <1>4 DEF Instr
  <2> QED
    BY <1>4, <2>1, TransferSlotRefines DEF Accepts, Apply
<1>5. CASE i.op = "Move"
  <2>1. i.d \in Reg /\ i.s \in Slot
    BY <1>5 DEF Instr
  <2> QED
    BY <1>5, <2>1, MoveRefines DEF Accepts, Apply
<1>6. CASE i.op = "SwapValue"
  <2>1. i.d \in Reg /\ i.s \in Slot /\ i.v \in Reg
    BY <1>6 DEF Instr
  <2> QED
    BY <1>6, <2>1, SwapValueRefines DEF Accepts, Apply
<1>7. CASE i.op = "OwnedCast"
  <2>1. i.d \in Reg /\ i.v \in Reg
    BY <1>7 DEF Instr
  <2> QED
    BY <1>7, <2>1, OwnedCastRefines DEF Accepts, Apply
<1>8. CASE i.op = "DropValue"
  <2>1. i.v \in Reg
    BY <1>8 DEF Instr
  <2> QED
    BY <1>8, <2>1, DropValueRefines DEF Accepts, Apply
<1>9. CASE i.op = "Acquire"
  <2>1. i.v \in Reg
    BY <1>9 DEF Instr
  <2> QED
    BY <1>9, <2>1, AcquireRefines DEF Accepts, Apply
<1>10. CASE i.op = "Wrap"
  <2>1. i.d \in Reg /\ i.v \in Reg
    BY <1>10 DEF Instr
  <2> QED
    BY <1>10, <2>1, WrapRefines DEF Accepts, Apply
<1>11. CASE i.op = "Call"
  <2>1. i.d \in Reg /\ i.args \in Seq(Reg)
    BY <1>11 DEF Instr
  <2> QED
    BY <1>11, <2>1, CallRefines DEF Accepts, Apply
<1>12. CASE i.op = "Construction"
  <2>1. i.s \in Shell
    BY <1>12 DEF Instr
  <2> QED
    BY <1>12, <2>1, ConstructionRefines DEF Accepts, Apply
<1>13. CASE i.op = "InitializeField"
  <2>1. i.s \in Shell /\ i.i \in Field /\ i.v \in Reg
    BY <1>13 DEF Instr
  <2> QED
    BY <1>13, <2>1, InitializeFieldRefines DEF Accepts, Apply
<1>14. CASE i.op = "ResourceInitialize"
  <2>1. i.v \in Reg
    BY <1>14 DEF Instr
  <2> QED
    BY <1>14, <2>1, PaymentRefines
       DEF Accepts, Apply, ResourceInitializeOk, ResourceInitialize
<1>15. CASE i.op = "ResourceTake"
  <2>1. i.d \in Reg
    BY <1>15 DEF Instr
  <2> QED
    BY <1>15, <2>1, ProductionRefines DEF Accepts, Apply, ResourceTakeOk, ResourceTake
<1>16. CASE i.op = "Alloc"
  <2>1. i.d \in Reg
    BY <1>16 DEF Instr
  <2> QED
    BY <1>16, <2>1, ProductionRefines DEF Accepts, Apply, AllocOk, Alloc
<1>17. CASE i.op = "Ret"
  <2>1. i.v \in Reg
    BY <1>17 DEF Instr
  <2> QED
    BY <1>17, <2>1, RetRefines DEF Accepts, Apply
<1> QED
  BY <1>1, <1>2, <1>3, <1>4, <1>5, <1>6, <1>7, <1>8, <1>9, <1>10, <1>11, <1>12,
     <1>13, <1>14, <1>15, <1>16, <1>17 DEF Instr

-----------------------------------------------------------------------------
(* The worklist.                                                           *)

LEMMA EntryFull ==
  EntryFlow(Params) \in Flow /\ Narrower(EntryFlow(Params), EntryFlow(Params))
<1>1. {0} \in SUBSET Count /\ {1} \in SUBSET Count
  BY DEF Count, MaxEdges
<1>2. EntryFlow(Params) \in Flow
  BY <1>1 DEF EntryFlow, Flow
<1>3. Narrower(EntryFlow(Params), EntryFlow(Params))
  BY DEF EntryFlow, Narrower
<1> QED
  BY <1>2, <1>3

\* What arrives in a block only ever grows.
LEMMA MeetGrows ==
  ASSUME NEW old \in Flow \cup {None}, NEW f \in Flow, Narrower(f, f),
         old # None => Narrower(old, old)
  PROVE  /\ Meet(old, f) \in Flow /\ Meet(old, f) # None
         /\ Narrower(Meet(old, f), Meet(old, f)) /\ Narrower(f, Meet(old, f))
         /\ old # None => Narrower(old, Meet(old, f))
<1>1. CASE old = None
  <2>1. Meet(old, f) = f
    BY <1>1 DEF Meet
  <2> QED
    BY <1>1, <2>1, ProgramAssumption
<1>2. CASE old # None
  <2>1. Meet(old, f) = Join(old, f)
    BY <1>2 DEF Meet
  <2>2. Join(old, f) \in Flow /\ Narrower(old, Join(old, f)) /\ Narrower(f, Join(old, f))
    BY <1>2, JoinWider
  <2>3. Narrower(Join(old, f), Join(old, f))
    BY <2>2, NarrowerWide
  <2> QED
    BY <2>1, <2>2, <2>3, ProgramAssumption
<1> QED
  BY <1>1, <1>2

\* A checked instruction keeps the flow well formed.
LEMMA ApplyFull ==
  ASSUME NEW f \in Flow, Narrower(f, f), NEW i \in Instr, Accepts(f, i)
  PROVE  Apply(f, i) \in Flow /\ Narrower(Apply(f, i), Apply(f, i))
<1>1. Refines(f, f)
  BY DEF Refines
<1> QED
  BY <1>1, StepRefines DEF Refines

LEMMA InitInductive == Init => Inductive
<1> SUFFICES ASSUME Init PROVE Inductive
  OBVIOUS
<1>1. incoming[Entry] = EntryFlow(Params) /\ EntryFlow(Params) # None
  BY EntryFull, ProgramAssumption DEF Init
<1>2. \A b \in Block : incoming[b] # None => b = Entry
  BY DEF Init
<1>3. TypeOK
  BY EntryFull, ProgramAssumption DEF Init, TypeOK
<1>4. /\ \A b \in Block : incoming[b] # None => Narrower(incoming[b], incoming[b])
      /\ Narrower(state, state) /\ Covers(EntryFlow(Params), Entry)
  BY <1>1, <1>2, EntryFull DEF Init, Covers
<1>5. /\ \A b \in Block : Queued(b) => incoming[b] # None
      /\ NoLostBlock
  <2>1. \A b : Queued(b) <=> b = Entry
    BY DEF Queued, Init
  <2> QED
    BY <1>1, <1>2, <2>1 DEF NoLostBlock
<1>6. VisitSound
  BY DEF Init, VisitSound
<1>7. verdict = "working" /\ at = Entry /\ next = 1 /\ exact = EntryFlow(Params)
  BY DEF Init
<1> QED
  BY <1>3, <1>4, <1>5, <1>6, <1>7 DEF Inductive

\* A block that is neither visited nor reached differently stays settled.
LEMMA SettledStays ==
  ASSUME NEW b \in Block, Settled(b), program' = program, point'[b] = point[b],
         TypeOK, incoming'[b] = incoming[b],
         \A f : \A t \in Block : Covers(f, t) => incoming'[t] # None /\ Narrower(f, incoming'[t])
  PROVE  Settled(b)'
<1>1. Code(b)' = Code(b) /\ Targets(b)' = Targets(b)
  BY DEF Code, Targets
<1>2. Recorded(b, Len(Code(b)) + 1)'
  BY <1>1 DEF Settled, Recorded
<1>3. \A k \in DOMAIN Targets(b) : Targets(b)[k] \in Block
  BY DEF TypeOK, Targets
<1>4. \A k \in DOMAIN Targets(b) :
        /\ incoming'[Targets(b)[k]] # None
        /\ Narrower(point[b][Len(Code(b)) + 1], incoming'[Targets(b)[k]])
  BY <1>3 DEF Settled
<1> QED
  BY <1>1, <1>2, <1>4 DEF Settled, Covers

\* Only Accept enters the verdict "accepted", and only the walk moves there.
VerifierFacts ==
  /\ \A b \in Block : incoming[b] # None => Narrower(incoming[b], incoming[b])
  /\ Narrower(state, state)
  /\ Covers(EntryFlow(Params), Entry)
  /\ \A b \in Block : Queued(b) => incoming[b] # None
  /\ NoLostBlock
  /\ VisitSound

LEMMA InductiveWhileWorking ==
  ASSUME Inductive, verdict = "working", verdict' # "accepted", UNCHANGED walk,
         TypeOK', VerifierFacts'
  PROVE  Inductive'
BY DEF Inductive, VerifierFacts, walk

LEMMA VisitInductive == Inductive /\ Visit => Inductive'
<1> SUFFICES ASSUME Inductive, Visit PROVE Inductive'
  OBVIOUS
<1>1. TypeOK /\ work # <<>>
  BY DEF Inductive, Visit
<1>0. PICK b0 \in Block : b0 = Head(work)
  BY <1>1 DEF TypeOK
<1>2. /\ work \in Seq(Block) /\ work # <<>> /\ b0 \in Block /\ block = None
      /\ verdict = "working" /\ verdict' = verdict /\ UNCHANGED <<program, incoming>>
      /\ UNCHANGED walk /\ Queued(b0)
  BY <1>0, <1>1 DEF Visit, TypeOK, Queued
<1>3. incoming[b0] # None /\ incoming[b0] \in Flow /\ Narrower(incoming[b0], incoming[b0])
  BY <1>1, <1>2 DEF Inductive, TypeOK
<1>4. /\ work' = Tail(work) /\ block' = b0 /\ pc' = 1 /\ state' = incoming[b0]
      /\ point' = [point EXCEPT ![b0] = <<incoming[b0]>>]
  BY <1>0 DEF Visit
<1>5. TypeOK'
  BY <1>1, <1>2, <1>3, <1>4 DEF TypeOK, walk, Code
<1>6. \A b \in Block : (Queued(b)' => Queued(b)) /\ (Queued(b) /\ b # b0 => Queued(b)')
  <2>1. \A k \in DOMAIN Tail(work) : k + 1 \in DOMAIN work /\ Tail(work)[k] = work[k + 1]
    BY <1>2
  <2>2. \A k \in DOMAIN work : k = 1 \/ (k - 1 \in DOMAIN Tail(work) /\ Tail(work)[k - 1] = work[k])
    BY <1>2
  <2>3. work[1] = b0
    BY <1>0, <1>2
  <2>4. ASSUME NEW b \in Block, Queued(b)' PROVE Queued(b)
    BY <1>4, <2>1, <2>4 DEF Queued
  <2>5. ASSUME NEW b \in Block, Queued(b), b # b0 PROVE Queued(b)'
    <3>1. PICK k \in DOMAIN work : work[k] = b
      BY <2>5 DEF Queued
    <3>2. k - 1 \in DOMAIN Tail(work) /\ Tail(work)[k - 1] = b
      BY <2>2, <2>3, <2>5, <3>1
    <3> QED
      BY <1>4, <3>2 DEF Queued
  <2> QED
    BY <2>4, <2>5
<1>7. ASSUME NEW b \in Block, Settled(b), b # b0 PROVE Settled(b)'
  BY <1>1, <1>2, <1>4, <1>7, SettledStays DEF Covers, TypeOK
<1>8. NoLostBlock'
  <2>1. SUFFICES ASSUME NEW b \in Block, incoming[b] # None
                 PROVE  b = b0 \/ Queued(b)' \/ Settled(b)'
    BY <1>2, <1>4 DEF NoLostBlock
  <2>2. b = block \/ Queued(b) \/ Settled(b)
    BY <2>1 DEF Inductive, NoLostBlock
  <2> QED
    BY <1>2, <1>6, <1>7, <2>2, ProgramAssumption
<1>9. VisitSound'
  <2>1. Len(Code(b0)) \in Nat /\ Len(Targets(b0)) \in Nat /\ UNCHANGED program
    BY <1>1, <1>2 DEF TypeOK, Code, Targets
  <2>2. Seen' = 1
    BY <1>4, <2>1 DEF Seen, Code
  <2>3. point'[b0] = <<incoming[b0]>>
    BY <1>1, <1>2, <1>4 DEF TypeOK
  <2>4. Recorded(b0, 1)'
    BY <2>3 DEF Recorded
  <2>5. \A k \in DOMAIN Targets(b0) : ~(k < 1 - Len(Code(b0)))
    BY <1>1, <1>2, <2>1 DEF TypeOK, Targets
  <2>6. Code(b0)' = Code(b0) /\ Targets(b0)' = Targets(b0) /\ block' = b0
    BY <1>4, <2>1 DEF Code, Targets
  <2>7. /\ incoming'[b0] # None /\ 1 <= Len(Code(b0)) + Len(Targets(b0)) + 1
        /\ state' = point'[b0][1] /\ point'[b0][1] = incoming'[b0]
    BY <1>2, <1>3, <1>4, <2>1, <2>3
  <2> QED
    BY <1>4, <2>2, <2>4, <2>5, <2>6, <2>7 DEF VisitSound
<1>10. VerifierFacts'
  <2>1. \A b \in Block : Queued(b)' => incoming'[b] # None
    BY <1>2, <1>6 DEF Inductive
  <2>2. \A b \in Block : incoming'[b] # None => Narrower(incoming'[b], incoming'[b])
    BY <1>2 DEF Inductive
  <2>3. Narrower(state', state') /\ Covers(EntryFlow(Params), Entry)'
    BY <1>2, <1>3, <1>4 DEF Inductive, Covers
  <2> QED
    BY <1>8, <1>9, <2>1, <2>2, <2>3 DEF VerifierFacts
<1> QED
  BY <1>2, <1>5, <1>10, InductiveWhileWorking

LEMMA VerifierStays ==
  ASSUME VerifierFacts, UNCHANGED <<program, incoming, work, visit, point>>
  PROVE  VerifierFacts'
BY DEF VerifierFacts, visit, Covers, Queued, NoLostBlock, Settled, Recorded,
       VisitSound, Seen, Code, Targets

LEMMA CheckInductive == Inductive /\ Check => Inductive'
<1> SUFFICES ASSUME Inductive, Check PROVE Inductive'
  OBVIOUS
<1>1. TypeOK /\ VerifierFacts
  BY DEF Inductive, VerifierFacts
<1>2. PICK b0 \in Block : b0 = block
  BY <1>1 DEF Check, TypeOK
<1>3. /\ verdict = "working" /\ UNCHANGED <<program, incoming, work, walk>>
      /\ pc \in Nat \ {0} /\ pc <= Len(Code(b0)) /\ Len(Code(b0)) \in Nat
      /\ Code(b0)[pc] \in Instr /\ block # None
  BY <1>1, <1>2 DEF Check, TypeOK, Code
<1>4. CASE ~Accepts(state, Code(block)[pc])
  <2>1. verdict' = "rejected" /\ UNCHANGED <<visit, point>>
    BY <1>4 DEF Check
  <2>2. TypeOK' /\ VerifierFacts'
    BY <1>1, <1>3, <2>1, VerifierStays DEF TypeOK, visit, walk, Code
  <2> QED
    BY <1>3, <2>1, <2>2, InductiveWhileWorking
<1>5. CASE Accepts(state, Code(block)[pc])
  <2>1. /\ state' = Apply(state, Code(b0)[pc]) /\ pc' = pc + 1 /\ block' = b0
        /\ point' = [point EXCEPT ![b0] = Append(@, state')]
        /\ verdict' = "working"
    BY <1>2, <1>3, <1>5 DEF Check
  <2>2. state' \in Flow /\ Narrower(state', state')
    BY <1>1, <1>2, <1>3, <1>5, <2>1, ApplyFull DEF TypeOK, VerifierFacts
  <2>3. /\ point[b0] \in Seq(Flow) /\ point'[b0] = Append(point[b0], state')
        /\ point' \in [Block -> Seq(Flow)]
        /\ \A b \in Block : b # b0 => point'[b] = point[b]
    BY <1>1, <2>1, <2>2 DEF TypeOK
  <2>4. TypeOK'
    BY SMTT(30), <1>1, <1>3, <2>1, <2>2, <2>3 DEF TypeOK, walk, Code
  <2>5. Code(b0)' = Code(b0) /\ Targets(b0)' = Targets(b0)
    BY <1>3 DEF Code, Targets
  <2>6. Seen = pc /\ Seen' = pc + 1
    BY <1>2, <1>3, <2>1, <2>5 DEF Seen
  <2>7. Recorded(b0, pc) /\ state = point[b0][pc]
    BY <1>1, <1>2, <1>3, <2>6 DEF VerifierFacts, VisitSound
  <2>8. /\ Len(point'[b0]) = pc + 1 /\ point'[b0][pc + 1] = state'
        /\ \A k \in 1..pc : point'[b0][k] = point[b0][k]
    BY <1>3, <2>3, <2>7 DEF Recorded
  <2>13. PICK m \in Nat : m = pc + 1
    BY <1>3
  <2>9. Recorded(b0, m)'
    <3>1. ASSUME NEW k \in 1..pc
          PROVE  /\ Accepts(point'[b0][k], Code(b0)[k])
                 /\ point'[b0][k + 1] = Apply(point'[b0][k], Code(b0)[k])
      <4>1. CASE k = pc
        BY <1>2, <1>3, <1>5, <2>1, <2>7, <2>8, <4>1
      <4>2. CASE k # pc
        <5>1. k \in 1..pc - 1 /\ k + 1 \in 1..pc
          BY <1>3, <3>1, <4>2
        <5>2. /\ Accepts(point[b0][k], Code(b0)[k])
              /\ point[b0][k + 1] = Apply(point[b0][k], Code(b0)[k])
          BY <2>7, <5>1 DEF Recorded
        <5> QED
          BY <2>8, <5>1, <5>2
      <4> QED
        BY <4>1, <4>2
    <3>2. m - 1 = pc
      BY <1>3, <2>13
    <3>3. Len(point'[b0]) = m
      BY <2>8, <2>13
    <3> QED
      BY <2>5, <3>1, <3>2, <3>3 DEF Recorded
  <2>10. VisitSound'
    <3>1. incoming'[b0] # None /\ (Queued(b0)' \/ point'[b0][1] = incoming'[b0])
      <4>1. incoming[b0] # None /\ (Queued(b0) \/ point[b0][1] = incoming[b0])
        BY <1>1, <1>2, <1>3 DEF VerifierFacts, VisitSound
      <4>2. point'[b0][1] = point[b0][1]
        BY <1>3, <2>8
      <4> QED
        BY <1>3, <4>1, <4>2 DEF Queued
    <3>2. Len(Targets(b0)) \in Nat /\ DOMAIN Targets(b0) = 1..Len(Targets(b0))
      BY <1>1 DEF TypeOK, Targets
    <3>3. /\ pc' <= Len(Code(b0)) + Len(Targets(b0)) + 1
          /\ \A k \in DOMAIN Targets(b0) : ~(k < pc' - Len(Code(b0)))
      BY <1>3, <2>1, <3>2
    <3> QED
      BY <2>1, <2>5, <2>6, <2>8, <2>9, <2>13, <3>1, <3>3 DEF VisitSound
  <2>11. NoLostBlock'
    <3>1. SUFFICES ASSUME NEW b \in Block, incoming[b] # None, b # b0
                   PROVE  Queued(b)' \/ Settled(b)'
      BY <1>3, <2>1 DEF NoLostBlock
    <3>2. Queued(b) \/ Settled(b)
      BY <1>1, <1>2, <3>1 DEF VerifierFacts, NoLostBlock
    <3>3. Settled(b) => Settled(b)'
      BY <1>1, <1>3, <2>3, <3>1, SettledStays DEF Covers
    <3> QED
      BY <1>3, <3>2, <3>3 DEF Queued
  <2>12. VerifierFacts'
    BY <1>1, <1>3, <2>2, <2>10, <2>11 DEF VerifierFacts, Covers, Queued
  <2> QED
    BY <1>3, <2>1, <2>4, <2>12, InductiveWhileWorking
<1> QED
  BY <1>4, <1>5

LEMMA PropagateInductive == Inductive /\ Propagate => Inductive'
<1> SUFFICES ASSUME Inductive, Propagate PROVE Inductive'
  OBVIOUS
<1>1. TypeOK /\ VerifierFacts
  BY DEF Inductive, VerifierFacts
<1>2. PICK b0 \in Block : b0 = block
  BY <1>1 DEF Propagate, TypeOK
<1>0. /\ Code(b0) \in Seq(Instr) /\ Targets(b0) \in Seq(Block) /\ work \in Seq(Block)
      /\ Len(Code(b0)) \in Nat /\ Len(Targets(b0)) \in Nat /\ pc \in Nat \ {0}
      /\ DOMAIN Targets(b0) = 1..Len(Targets(b0))
  <2>1. /\ Code(b0) \in Seq(Instr) /\ Targets(b0) \in Seq(Block) /\ work \in Seq(Block)
        /\ pc \in Nat \ {0}
    BY <1>1 DEF TypeOK, Code, Targets
  <2> QED
    BY <2>1
<1>3. PICK j \in DOMAIN Targets(b0) : j = pc - Len(Code(b0))
  BY <1>2 DEF Propagate
<1>4. PICK t \in Block : t = Targets(b0)[j]
  BY <1>0
<1> DEFINE m == Meet(incoming[t], state)
<1>5. /\ verdict = "working" /\ verdict' = verdict /\ block # None
      /\ UNCHANGED <<program, block, state, point, walk>> /\ pc' = pc + 1
      /\ incoming' = [incoming EXCEPT ![t] = m] /\ work' = Queue(t, state)
  BY <1>2, <1>3, <1>4 DEF Propagate
<1>6. /\ m \in Flow /\ m # None /\ Narrower(m, m) /\ Narrower(state, m)
      /\ incoming[t] # None => Narrower(incoming[t], m)
  BY <1>1, MeetGrows DEF TypeOK, VerifierFacts
<1>7. /\ m # incoming[t] => work' = Append(work, t)
      /\ m = incoming[t] => work' = work /\ incoming' = incoming
  BY <1>1, <1>5 DEF Queue, TypeOK
<1> HIDE DEF m
<1>8. /\ incoming' \in [Block -> Flow \cup {None}] /\ incoming'[t] = m
      /\ \A b \in Block : b # t => incoming'[b] = incoming[b]
  BY <1>1, <1>5, <1>6 DEF TypeOK
<1>9. TypeOK'
  <2>1. work' \in Seq(Block)
    <3>1. Append(work, t) \in Seq(Block)
      BY <1>0
    <3> QED
      BY <1>0, <1>7, <3>1
  <2>2. pc' \in Nat \ {0}
    BY <1>0, <1>5
  <2> QED
    BY <1>1, <1>5, <1>8, <2>1, <2>2 DEF TypeOK, walk, Code
<1>10. /\ \A b \in Block : Queued(b) => Queued(b)'
       /\ \A b \in Block : Queued(b)' => Queued(b) \/ b = t
       /\ m # incoming[t] => Queued(t)'
  <2>1. CASE m = incoming[t]
    BY <1>7, <2>1 DEF Queued
  <2>2. CASE m # incoming[t]
    <3>1. /\ work' = Append(work, t) /\ work \in Seq(Block)
      BY <1>1, <1>7, <2>2 DEF TypeOK
    <3>2. /\ DOMAIN work' = 1..Len(work) + 1 /\ DOMAIN work = 1..Len(work)
          /\ work'[Len(work) + 1] = t /\ \A k \in DOMAIN work : work'[k] = work[k]
          /\ Len(work) \in Nat
      BY <3>1
    <3> QED
      BY <3>2 DEF Queued
  <2> QED
    BY <2>1, <2>2
<1>11. ASSUME NEW f, NEW b \in Block, Covers(f, b)
       PROVE  incoming'[b] # None /\ Narrower(f, incoming'[b])
  <2>1. CASE b = t
    <3>1. incoming[t] # None /\ Narrower(f, incoming[t])
      BY <1>11, <2>1 DEF Covers
    <3> QED
      BY <1>6, <1>8, <2>1, <3>1, NarrowerTransitive
  <2>2. CASE b # t
    BY <1>8, <1>11, <2>2 DEF Covers
  <2> QED
    BY <2>1, <2>2
<1>12. NoLostBlock'
  <2>1. SUFFICES ASSUME NEW b \in Block, incoming'[b] # None, b # b0
                 PROVE  Queued(b)' \/ Settled(b)'
    BY <1>2, <1>5 DEF NoLostBlock
  <2>2. CASE b = t /\ m # incoming[t]
    BY <1>10, <2>2
  <2>3. CASE ~(b = t /\ m # incoming[t])
    <3>1. incoming'[b] = incoming[b]
      BY <1>8, <2>3
    <3>2. Queued(b) \/ Settled(b)
      BY <1>1, <1>2, <2>1, <3>1 DEF VerifierFacts, NoLostBlock
    <3>3. Settled(b) => Settled(b)'
      BY <1>1, <1>5, <1>11, <3>1, SettledStays
    <3> QED
      BY <1>10, <3>2, <3>3
  <2> QED
    BY <2>2, <2>3
<1>13. VisitSound'
  <2>1. /\ incoming[b0] # None /\ pc <= Len(Code(b0)) + Len(Targets(b0)) + 1
        /\ Recorded(b0, Seen) /\ state = point[b0][Seen]
        /\ Queued(b0) \/ point[b0][1] = incoming[b0]
        /\ \A k \in DOMAIN Targets(b0) :
             k < pc - Len(Code(b0)) => Covers(state, Targets(b0)[k])
    BY <1>1, <1>2, <1>5 DEF VerifierFacts, VisitSound
  <2>2. Code(b0)' = Code(b0) /\ Targets(b0)' = Targets(b0) /\ block' = b0
    BY <1>2, <1>5 DEF Code, Targets
  <2>3. /\ Len(Code(b0)) \in Nat /\ Len(Targets(b0)) \in Nat /\ pc \in Nat
        /\ DOMAIN Targets(b0) = 1..Len(Targets(b0))
    BY <1>0
  <2>4. /\ pc > Len(Code(b0)) /\ pc' = pc + 1
        /\ pc' <= Len(Code(b0)) + Len(Targets(b0)) + 1
    BY <1>3, <1>5, <2>3
  <2>5. Seen = Len(Code(b0)) + 1 /\ Seen' = Len(Code(b0)) + 1
    BY <1>2, <2>2, <2>3, <2>4 DEF Seen
  <2>6. /\ Recorded(b0, Len(Code(b0)) + 1)'
        /\ state' = point'[b0][Len(Code(b0)) + 1]
    BY <1>5, <2>1, <2>2, <2>5 DEF Recorded
  <2>7. incoming'[b0] # None /\ (Queued(b0)' \/ point'[b0][1] = incoming'[b0])
    BY <1>5, <1>6, <1>8, <1>10, <2>1
  <2>8. ASSUME NEW k \in DOMAIN Targets(b0), k < pc' - Len(Code(b0))
        PROVE  /\ incoming'[Targets(b0)[k]] # None
               /\ Narrower(state, incoming'[Targets(b0)[k]])
    <3>1. CASE k = j
      BY <1>4, <1>6, <1>8, <3>1
    <3>2. CASE k # j
      <4>1. k < pc - Len(Code(b0))
        BY <1>3, <2>3, <2>4, <2>8, <3>2
      <4>2. Covers(state, Targets(b0)[k]) /\ Targets(b0)[k] \in Block
        BY <1>1, <2>1, <4>1 DEF TypeOK, Targets
      <4> QED
        BY <1>11, <4>2
    <3> QED
      BY <3>1, <3>2
  <2> QED
    BY <1>5, <2>2, <2>4, <2>5, <2>6, <2>7, <2>8 DEF VisitSound, Covers
<1>14. VerifierFacts'
  <2>1. \A b \in Block : incoming'[b] # None => Narrower(incoming'[b], incoming'[b])
    BY <1>1, <1>6, <1>8 DEF VerifierFacts
  <2>2. Narrower(state', state')
    BY <1>1, <1>5 DEF VerifierFacts
  <2>3. Covers(EntryFlow(Params), Entry)'
    BY <1>1, <1>11, ProgramAssumption DEF VerifierFacts, Covers
  <2>4. \A b \in Block : Queued(b)' => incoming'[b] # None
    BY <1>1, <1>6, <1>8, <1>10 DEF VerifierFacts
  <2> QED
    BY <1>12, <1>13, <2>1, <2>2, <2>3, <2>4 DEF VerifierFacts
<1> QED
  BY <1>5, <1>9, <1>14, InductiveWhileWorking

LEMMA LeaveInductive == Inductive /\ Leave => Inductive'
<1> SUFFICES ASSUME Inductive, Leave PROVE Inductive'
  OBVIOUS
<1>1. TypeOK /\ VerifierFacts
  BY DEF Inductive, VerifierFacts
<1>2. PICK b0 \in Block : b0 = block
  BY <1>1 DEF Leave, TypeOK
<1>3. /\ verdict = "working" /\ verdict' = verdict /\ block # None /\ block' = None
      /\ UNCHANGED <<program, incoming, work, pc, state, point, walk>>
      /\ pc > Len(Code(b0)) + Len(Targets(b0))
  BY <1>2 DEF Leave
<1>4. TypeOK'
  BY <1>1, <1>3 DEF TypeOK, walk, Code
<1>5. Queued(b0) \/ Settled(b0)
  <2>1. /\ Len(Code(b0)) \in Nat /\ Len(Targets(b0)) \in Nat /\ pc \in Nat
        /\ DOMAIN Targets(b0) = 1..Len(Targets(b0))
    BY <1>1 DEF TypeOK, Code, Targets
  <2>2. Seen = Len(Code(b0)) + 1
    BY <1>2, <1>3, <2>1 DEF Seen
  <2>3. /\ Recorded(b0, Seen) /\ state = point[b0][Seen]
        /\ Queued(b0) \/ point[b0][1] = incoming[b0]
        /\ \A k \in DOMAIN Targets(b0) :
             k < pc - Len(Code(b0)) => Covers(state, Targets(b0)[k])
    BY <1>1, <1>2, <1>3 DEF VerifierFacts, VisitSound
  <2>4. \A k \in DOMAIN Targets(b0) : Covers(state, Targets(b0)[k])
    BY <1>3, <2>1, <2>3
  <2> QED
    BY <2>2, <2>3, <2>4 DEF Settled
<1>6. ASSUME NEW b \in Block, Settled(b) PROVE Settled(b)'
  BY <1>1, <1>3, <1>6, SettledStays DEF Covers
<1>7. NoLostBlock'
  <2>1. SUFFICES ASSUME NEW b \in Block, incoming[b] # None PROVE Queued(b)' \/ Settled(b)'
    BY <1>3 DEF NoLostBlock
  <2>2. Queued(b) \/ Settled(b)
    BY <1>1, <1>2, <1>5, <2>1 DEF VerifierFacts, NoLostBlock
  <2> QED
    BY <1>3, <1>6, <2>2 DEF Queued
<1>8. VerifierFacts'
  BY <1>1, <1>3, <1>7 DEF VerifierFacts, VisitSound, Covers, Queued
<1> QED
  BY <1>3, <1>4, <1>8, InductiveWhileWorking

LEMMA AcceptInductive == Inductive /\ Accept => Inductive'
<1> SUFFICES ASSUME Inductive, Accept PROVE Inductive'
  OBVIOUS
<1>1. TypeOK /\ VerifierFacts
  BY DEF Inductive, VerifierFacts
<1>2. /\ verdict = "working" /\ verdict' = "accepted" /\ block = None /\ work = <<>>
      /\ UNCHANGED <<program, incoming, work, visit, point, walk>>
  BY DEF Accept
<1>3. VerifierFacts'
  BY <1>1, <1>2, VerifierStays
<1>4. TypeOK'
  BY <1>1, <1>2 DEF TypeOK, visit, walk, Code
<1>5. at = Entry /\ next = 1 /\ exact = EntryFlow(Params)
  BY <1>2 DEF Inductive
<1>6. incoming[Entry] # None /\ Narrower(EntryFlow(Params), incoming[Entry])
  BY <1>1 DEF VerifierFacts, Covers
<1>7. Settled(Entry)
  BY <1>1, <1>2, <1>6, ProgramAssumption DEF VerifierFacts, NoLostBlock, Queued
<1>8. point[Entry][1] = incoming[Entry]
  BY <1>7 DEF Settled
<1>9. /\ work' = <<>> /\ block' = None /\ incoming'[at'] # None /\ exact' \in Flow
      /\ Narrower(exact', point'[at'][next'])
  BY <1>2, <1>5, <1>6, <1>8, EntryFull DEF visit, walk
<1> QED
  BY <1>2, <1>3, <1>4, <1>9 DEF Inductive, VerifierFacts

-----------------------------------------------------------------------------
(* The walk through an accepted function.                                  *)

LEMMA WalkFacts ==
  ASSUME Inductive, verdict = "accepted"
  PROVE  /\ TypeOK /\ VerifierFacts
         /\ work = <<>> /\ block = None
         /\ at \in Block /\ Settled(at)
         /\ next \in Nat \ {0} /\ next <= Len(Code(at)) + 1
         /\ exact \in Flow /\ Narrower(exact, point[at][next])
         /\ next <= Len(Code(at)) =>
              /\ Code(at)[next] \in Instr
              /\ point[at][next] \in Flow
              /\ Accepts(point[at][next], Code(at)[next])
              /\ point[at][next + 1] = Apply(point[at][next], Code(at)[next])
<1>1. /\ TypeOK /\ VerifierFacts /\ work = <<>> /\ block = None
      /\ incoming[at] # None /\ exact \in Flow /\ Narrower(exact, point[at][next])
  BY DEF Inductive, VerifierFacts
<1>2. at \in Block /\ next \in Nat \ {0} /\ next <= Len(Code(at)) + 1
  BY <1>1 DEF TypeOK
<1>3. Settled(at)
  BY <1>1, <1>2, ProgramAssumption DEF VerifierFacts, NoLostBlock, Queued
<1>4. Code(at) \in Seq(Instr) /\ point[at] \in Seq(Flow)
  BY <1>1, <1>2 DEF TypeOK, Code
<1>5. ASSUME next <= Len(Code(at))
      PROVE  /\ Code(at)[next] \in Instr /\ point[at][next] \in Flow
             /\ Accepts(point[at][next], Code(at)[next])
             /\ point[at][next + 1] = Apply(point[at][next], Code(at)[next])
  <2>1. Len(Code(at)) \in Nat /\ Len(point[at]) = Len(Code(at)) + 1
    BY <1>3, <1>4 DEF Settled, Recorded
  <2>2. next \in 1..(Len(Code(at)) + 1) - 1
    BY <1>2, <1>5, <2>1
  <2>3. /\ Accepts(point[at][next], Code(at)[next])
        /\ point[at][next + 1] = Apply(point[at][next], Code(at)[next])
    BY <1>3, <2>2 DEF Settled, Recorded
  <2>4. Code(at)[next] \in Instr /\ point[at][next] \in Flow
    BY <1>2, <1>4, <1>5, <2>1
  <2> QED
    BY <2>3, <2>4
<1> QED
  BY <1>1, <1>2, <1>3, <1>5

LEMMA ExecuteInductive == Inductive /\ Execute => Inductive'
<1> SUFFICES ASSUME Inductive, Execute PROVE Inductive'
  OBVIOUS
<1>1. /\ verdict = "accepted" /\ next <= Len(Code(at))
      /\ exact' = Apply(exact, Code(at)[next]) /\ next' = next + 1
      /\ UNCHANGED <<program, incoming, work, visit, point, verdict, at>>
  BY DEF Execute
<1>2. /\ TypeOK /\ VerifierFacts /\ work = <<>> /\ block = None /\ at \in Block
      /\ next \in Nat \ {0} /\ exact \in Flow /\ Narrower(exact, point[at][next])
      /\ Code(at)[next] \in Instr /\ point[at][next] \in Flow
      /\ Accepts(point[at][next], Code(at)[next])
      /\ point[at][next + 1] = Apply(point[at][next], Code(at)[next])
  BY <1>1, WalkFacts
<1>3. Refines(exact, point[at][next])
  BY <1>2 DEF Refines
<1>4. exact' \in Flow /\ Narrower(exact', point[at][next + 1])
  BY <1>1, <1>2, <1>3, StepRefines DEF Refines
<1>5. VerifierFacts'
  BY <1>1, <1>2, VerifierStays
<1>6. Code(at)' = Code(at) /\ Len(Code(at)) \in Nat
  BY <1>1, <1>2 DEF Code, TypeOK
<1>7. TypeOK'
  BY <1>1, <1>2, <1>6 DEF TypeOK, visit
<1>8. incoming[at] # None
  BY <1>1 DEF Inductive
<1>9. /\ work' = <<>> /\ block' = None /\ incoming'[at'] # None /\ exact' \in Flow
      /\ Narrower(exact', point'[at'][next'])
  BY <1>1, <1>2, <1>4, <1>8 DEF visit
<1> QED
  BY <1>1, <1>5, <1>7, <1>9 DEF Inductive, VerifierFacts

LEMMA JumpInductive == Inductive /\ Jump => Inductive'
<1> SUFFICES ASSUME Inductive, Jump PROVE Inductive'
  OBVIOUS
<1>1. /\ verdict = "accepted" /\ next > Len(Code(at)) /\ next' = 1
      /\ UNCHANGED <<program, incoming, work, visit, point, verdict, exact>>
  BY DEF Jump
<1>2. PICK k \in DOMAIN Targets(at) : at' = Targets(at)[k]
  BY DEF Jump
<1>3. /\ TypeOK /\ VerifierFacts /\ work = <<>> /\ block = None /\ at \in Block
      /\ Settled(at) /\ next \in Nat \ {0} /\ next <= Len(Code(at)) + 1
      /\ exact \in Flow /\ Narrower(exact, point[at][next])
  BY <1>1, WalkFacts
<1>4. next = Len(Code(at)) + 1
  BY <1>1, <1>3 DEF TypeOK, Code
<1>5. /\ incoming[at'] # None /\ Narrower(point[at][next], incoming[at'])
  BY <1>2, <1>3, <1>4 DEF Settled, Covers
<1>6. at' \in Block
  BY <1>2, <1>3 DEF TypeOK, Targets
<1>7. Narrower(exact, incoming[at'])
  BY <1>3, <1>5, NarrowerTransitive
<1>8. point[at'][1] = incoming[at']
  BY <1>3, <1>5, <1>6, ProgramAssumption
     DEF VerifierFacts, NoLostBlock, Queued, Settled
<1>9. VerifierFacts'
  BY <1>1, <1>3, VerifierStays
<1>10. Len(Code(at)') \in Nat
  BY <1>1, <1>3, <1>6 DEF Code, TypeOK
<1>11. TypeOK'
  BY <1>1, <1>3, <1>6, <1>10 DEF TypeOK, visit
<1>12. /\ work' = <<>> /\ block' = None /\ incoming'[at'] # None /\ exact' \in Flow
       /\ Narrower(exact', point'[at'][next'])
  BY <1>1, <1>3, <1>5, <1>7, <1>8 DEF visit
<1> QED
  BY <1>1, <1>9, <1>11, <1>12 DEF Inductive, VerifierFacts

-----------------------------------------------------------------------------
(* The theorems.                                                           *)

\* The invariant that combines the worklist with the walk: the worklist of
\* verify_values and verify maintains it, and the walk stays inside it.
THEOREM InductiveHolds == Spec => []Inductive
<1>1. Inductive /\ [Next]_vars => Inductive'
  <2>1. Inductive /\ UNCHANGED vars => Inductive'
    <3>1. SUFFICES ASSUME Inductive, UNCHANGED vars PROVE Inductive'
      OBVIOUS
    <3>2. VerifierFacts'
      BY <3>1, VerifierStays DEF vars, Inductive, VerifierFacts
    <3>3. TypeOK'
      BY <3>1 DEF vars, visit, walk, Inductive, TypeOK, Code
    <3> QED
      BY <3>1, <3>2, <3>3 DEF Inductive, VerifierFacts, vars, visit, walk
  <2> QED
    BY <2>1, VisitInductive, CheckInductive, PropagateInductive, LeaveInductive,
       AcceptInductive, ExecuteInductive, JumpInductive DEF Next, Verifying
<1> QED
  BY <1>1, InitInductive, PTL DEF Spec

\* Type correctness of the worklists and of the walk.
THEOREM VerifierTyped == Spec => []TypeOK
<1>1. Inductive => TypeOK
  BY DEF Inductive
<1> QED
  BY <1>1, InductiveHolds, PTL

\* The worklist of verify_values and verify never forgets a block whose
\* incoming alternatives grew: loops, joins and self loops included.
THEOREM NoBlockIsLost == Spec => []NoLostBlock
<1>1. Inductive => NoLostBlock
  BY DEF Inductive
<1> QED
  BY <1>1, InductiveHolds, PTL

\* Soundness: in a function the verifier accepted, every instruction on every
\* path, through any number of loop iterations, passes its own check.
THEOREM AcceptedIsSafe == Spec => []WalkSafe
<1>1. Inductive => WalkSafe
  <2>1. SUFFICES ASSUME Inductive, verdict = "accepted", next <= Len(Code(at))
                 PROVE  Accepts(exact, Code(at)[next])
    BY DEF WalkSafe
  <2>2. /\ exact \in Flow /\ Narrower(exact, point[at][next])
        /\ Code(at)[next] \in Instr /\ point[at][next] \in Flow
        /\ Accepts(point[at][next], Code(at)[next])
    BY <2>1, WalkFacts
  <2>3. Refines(exact, point[at][next])
    BY <2>2 DEF Refines
  <2> QED
    BY <2>2, <2>3, StepRefines
<1> QED
  BY <1>1, InductiveHolds, PTL

\* The alternatives recorded at a program point contain what any path brings.
THEOREM AcceptedIsForeseen == Spec => []WalkForeseen
<1>1. Inductive => WalkForeseen
  BY DEF Inductive, WalkForeseen
<1> QED
  BY <1>1, InductiveHolds, PTL

-----------------------------------------------------------------------------
(* Any annotation that passes the rules is wider than what is computed.    *)

\* An annotation of the function by flows, one before each instruction and one
\* at the end of every block it considers reached: every check succeeds, and
\* no edge brings more than what the annotation says where it leads.  It need
\* not come from the worklist.
Consistent(c) ==
  /\ c \in [Block -> Seq(Flow)]
  /\ c[Entry] # <<>> /\ Narrower(EntryFlow(Params), c[Entry][1])
  /\ \A b \in Block : c[b] # <<>> =>
       /\ Len(c[b]) = Len(Code(b)) + 1
       /\ \A k \in 1..Len(Code(b)) :
            Accepts(c[b][k], Code(b)[k]) /\ Narrower(Apply(c[b][k], Code(b)[k]), c[b][k + 1])
       /\ \A k \in DOMAIN Targets(b) :
            /\ c[Targets(b)[k]] # <<>>
            /\ Narrower(c[b][Len(Code(b)) + 1], c[Targets(b)[k]][1])

\* The worklist stays below c, and has not given up.
Below(c) ==
  /\ verdict # "rejected"
  /\ \A b \in Block : incoming[b] # None => c[b] # <<>> /\ Narrower(incoming[b], c[b][1])
  /\ \A b \in Block : \A k \in 1..Len(point[b]) : Narrower(point[b][k], c[b][k])
BelowAll ==
  /\ \A b \in Block : \A k \in 1..Len(point[b]) : Narrower(point[b][k], point[b][k])
  /\ \A c : Consistent(c) => Below(c)

\* The join is the narrowest flow that is wider than both.
LEMMA JoinLeast ==
  ASSUME NEW e \in Flow, NEW f \in Flow, NEW g \in Flow, Narrower(f, e), Narrower(g, e)
  PROVE  Narrower(Join(f, g), e)
<1>1. Join(f, g) = [values     |-> Union(f.values, g.values),
                    leases     |-> Union(f.leases, g.leases),
                    cells      |-> Union(f.cells, g.cells),
                    cellLeases |-> Union(f.cellLeases, g.cellLeases),
                    progress   |-> Union(f.progress, g.progress),
                    cleanup    |-> Union(f.cleanup, g.cleanup)]
  BY DEF Join, Flow
<1> QED
  BY <1>1 DEF Narrower, Union, Flow

\* The blocks' flows are widened by Propagate, but not beyond the annotation.
LEMMA MeetLeast ==
  ASSUME NEW e \in Flow, NEW old \in Flow \cup {None}, NEW f \in Flow, Narrower(f, e),
         old # None => Narrower(old, e)
  PROVE  Narrower(Meet(old, f), e)
BY JoinLeast DEF Meet

\* A block at hand in an annotation.
LEMMA ConsistentBlock ==
  ASSUME TypeOK, NEW c, Consistent(c), NEW b \in Block, c[b] # <<>>
  PROVE  /\ Len(Code(b)) \in Nat /\ Len(c[b]) = Len(Code(b)) + 1
         /\ \A k \in 1..Len(Code(b)) + 1 : c[b][k] \in Flow
         /\ \A k \in 1..Len(Code(b)) :
              /\ Code(b)[k] \in Instr /\ Accepts(c[b][k], Code(b)[k])
              /\ Narrower(Apply(c[b][k], Code(b)[k]), c[b][k + 1])
         /\ \A k \in DOMAIN Targets(b) :
              /\ Targets(b)[k] \in Block /\ c[Targets(b)[k]] # <<>>
              /\ Narrower(c[b][Len(Code(b)) + 1], c[Targets(b)[k]][1])
<1>1. Code(b) \in Seq(Instr) /\ Targets(b) \in Seq(Block) /\ c[b] \in Seq(Flow)
  BY DEF TypeOK, Code, Targets, Consistent
<1>2. Len(Code(b)) \in Nat /\ Len(c[b]) = Len(Code(b)) + 1
  BY <1>1 DEF Consistent
<1>3. \A k \in 1..Len(Code(b)) + 1 : c[b][k] \in Flow
  BY <1>1, <1>2
<1>4. \A k \in 1..Len(Code(b)) : Code(b)[k] \in Instr
  BY <1>1
<1>5. \A k \in DOMAIN Targets(b) : Targets(b)[k] \in Block
  BY <1>1
<1> QED
  BY <1>2, <1>3, <1>4, <1>5 DEF Consistent

LEMMA BelowInit == Init => BelowAll
<1> SUFFICES ASSUME Init PROVE BelowAll
  OBVIOUS
<1>1. \A b \in Block : point[b] = <<>> /\ Len(point[b]) = 0
  BY DEF Init
<1>2. \A b \in Block : incoming[b] # None => b = Entry /\ incoming[b] = EntryFlow(Params)
  BY DEF Init
<1>3. verdict # "rejected"
  BY DEF Init
<1> QED
  BY <1>1, <1>2, <1>3 DEF BelowAll, Below, Consistent

LEMMA ConsistentStays ==
  ASSUME program' = program, NEW c
  PROVE  Consistent(c)' <=> Consistent(c)
BY DEF Consistent, Code, Targets

LEMMA BelowVisit ==
  ASSUME Inductive, BelowAll, Visit PROVE BelowAll'
<1>1. TypeOK /\ work # <<>>
  BY DEF Inductive, Visit
<1>2. PICK b0 \in Block : b0 = Head(work)
  BY <1>1 DEF TypeOK
<1>3. /\ UNCHANGED <<program, incoming, verdict>> /\ Queued(b0)
      /\ point' = [point EXCEPT ![b0] = <<incoming[b0]>>]
  BY <1>1, <1>2 DEF Visit, TypeOK, Queued
<1>4. incoming[b0] # None /\ Narrower(incoming[b0], incoming[b0])
  BY <1>3 DEF Inductive
<1>5. /\ point'[b0] = <<incoming[b0]>> /\ Len(point'[b0]) = 1 /\ point'[b0][1] = incoming[b0]
      /\ \A b \in Block : b # b0 => point'[b] = point[b]
  BY <1>1, <1>3 DEF TypeOK
<1>6. \A b \in Block : \A k \in 1..Len(point'[b]) : Narrower(point'[b][k], point'[b][k])
  BY <1>4, <1>5 DEF BelowAll
<1>7. ASSUME NEW c, Consistent(c) PROVE Below(c)'
  <2>1. Below(c)
    BY <1>7 DEF BelowAll
  <2>2. Narrower(incoming[b0], c[b0][1])
    BY <1>4, <2>1 DEF Below
  <2>3. \A b \in Block : \A k \in 1..Len(point'[b]) : Narrower(point'[b][k], c[b][k])
    BY <1>5, <2>1, <2>2 DEF Below
  <2> QED
    BY <1>3, <2>1, <2>3 DEF Below
<1> QED
  BY <1>3, <1>6, <1>7, ConsistentStays DEF BelowAll

LEMMA BelowCheck ==
  ASSUME Inductive, BelowAll, Check PROVE BelowAll'
<1>1. TypeOK /\ VerifierFacts
  BY DEF Inductive, VerifierFacts
<1>2. PICK b0 \in Block : b0 = block
  BY <1>1 DEF Check, TypeOK
<1>3. /\ UNCHANGED <<program, incoming>> /\ verdict = "working"
      /\ pc \in Nat \ {0} /\ pc <= Len(Code(b0)) /\ Len(Code(b0)) \in Nat
      /\ Code(b0)[pc] \in Instr /\ block # None /\ state \in Flow /\ point[b0] \in Seq(Flow)
  BY <1>1, <1>2 DEF Check, TypeOK, Code
<1>4. Len(point[b0]) = pc /\ state = point[b0][pc] /\ incoming[b0] # None
  <2>1. Seen = pc
    BY <1>2, <1>3 DEF Seen
  <2> QED
    BY <1>1, <1>2, <1>3, <2>1 DEF VerifierFacts, VisitSound, Recorded
<1>5. ASSUME NEW c, Consistent(c)
      PROVE  /\ Below(c) /\ c[b0] # <<>> /\ Accepts(state, Code(b0)[pc])
             /\ Narrower(Apply(state, Code(b0)[pc]), c[b0][pc + 1])
  <2>1. Below(c)
    BY <1>5 DEF BelowAll
  <2>2. c[b0] # <<>> /\ Narrower(state, c[b0][pc])
    BY <1>3, <1>4, <2>1 DEF Below
  <2>3. /\ c[b0][pc] \in Flow /\ Accepts(c[b0][pc], Code(b0)[pc])
        /\ Narrower(Apply(c[b0][pc], Code(b0)[pc]), c[b0][pc + 1])
    BY <1>1, <1>3, <1>5, <2>2, ConsistentBlock
  <2>4. Refines(state, c[b0][pc])
    BY <1>3, <2>2, <2>3 DEF Refines
  <2>5. /\ Accepts(state, Code(b0)[pc])
        /\ Narrower(Apply(state, Code(b0)[pc]), Apply(c[b0][pc], Code(b0)[pc]))
    BY <1>3, <2>3, <2>4, StepRefines DEF Refines
  <2> QED
    BY <2>1, <2>2, <2>3, <2>5, NarrowerTransitive
<1>6. CASE ~Accepts(state, Code(b0)[pc])
  <2>1. UNCHANGED point
    BY <1>2, <1>6 DEF Check, visit
  <2> QED
    BY <1>3, <1>5, <1>6, <2>1, ConsistentStays DEF BelowAll
<1>7. CASE Accepts(state, Code(b0)[pc])
  <2>1. /\ state' = Apply(state, Code(b0)[pc]) /\ verdict' = "working"
        /\ point' = [point EXCEPT ![b0] = Append(@, state')]
    BY <1>2, <1>3, <1>7 DEF Check
  <2>2. state' \in Flow /\ Narrower(state', state')
    BY <1>1, <1>3, <1>7, <2>1, ApplyFull DEF VerifierFacts
  <2>3. point'[b0] = Append(point[b0], state') /\ \A b \in Block : b # b0 => point'[b] = point[b]
    BY <1>1, <2>1 DEF TypeOK
  <2>4. /\ Len(point'[b0]) = pc + 1 /\ point'[b0][pc + 1] = state'
        /\ \A k \in 1..pc + 1 : k # pc + 1 => k \in 1..Len(point[b0]) /\ point'[b0][k] = point[b0][k]
    BY <1>3, <1>4, <2>2, <2>3
  <2>5. \A b \in Block : \A k \in 1..Len(point'[b]) : Narrower(point'[b][k], point'[b][k])
    BY <2>2, <2>3, <2>4 DEF BelowAll
  <2>6. ASSUME NEW c, Consistent(c) PROVE Below(c)'
    <3>1. Below(c) /\ Narrower(state', c[b0][pc + 1])
      BY <1>5, <2>1, <2>6
    <3>2. \A b \in Block : \A k \in 1..Len(point'[b]) : Narrower(point'[b][k], c[b][k])
      BY <2>3, <2>4, <3>1 DEF Below
    <3> QED
      BY <1>3, <2>1, <3>1, <3>2 DEF Below
  <2> QED
    BY <1>3, <2>5, <2>6, ConsistentStays DEF BelowAll
<1> QED
  BY <1>6, <1>7

LEMMA BelowPropagate ==
  ASSUME Inductive, BelowAll, Propagate PROVE BelowAll'
<1>1. TypeOK /\ VerifierFacts
  BY DEF Inductive, VerifierFacts
<1>2. PICK b0 \in Block : b0 = block
  BY <1>1 DEF Propagate, TypeOK
<1>3. /\ Len(Code(b0)) \in Nat /\ pc \in Nat /\ state \in Flow
      /\ DOMAIN Targets(b0) = 1..Len(Targets(b0)) /\ Len(Targets(b0)) \in Nat
      /\ Targets(b0) \in Seq(Block)
  <2>1. Code(b0) \in Seq(Instr) /\ Targets(b0) \in Seq(Block) /\ pc \in Nat /\ state \in Flow
    BY <1>1 DEF TypeOK, Code, Targets
  <2> QED
    BY <2>1
<1>4. PICK j \in DOMAIN Targets(b0) : j = pc - Len(Code(b0))
  BY <1>2 DEF Propagate
<1>5. PICK t \in Block : t = Targets(b0)[j]
  BY <1>3
<1>6. /\ UNCHANGED <<program, point, verdict>> /\ block # None
      /\ incoming' = [incoming EXCEPT ![t] = Meet(incoming[t], state)]
  BY <1>2, <1>4, <1>5 DEF Propagate
<1>7. Len(point[b0]) = Len(Code(b0)) + 1 /\ state = point[b0][Len(Code(b0)) + 1]
      /\ incoming[b0] # None
  <2>1. Seen = Len(Code(b0)) + 1
    BY <1>2, <1>3, <1>4 DEF Seen
  <2> QED
    BY <1>1, <1>2, <1>6, <2>1 DEF VerifierFacts, VisitSound, Recorded
<1>8. ASSUME NEW c, Consistent(c) PROVE Below(c)'
  <2>1. Below(c)
    BY <1>8 DEF BelowAll
  <2>2. c[b0] # <<>> /\ Narrower(state, c[b0][Len(Code(b0)) + 1])
    BY <1>3, <1>7, <2>1 DEF Below
  <2>3. /\ c[t] # <<>> /\ Narrower(c[b0][Len(Code(b0)) + 1], c[t][1])
    BY <1>1, <1>4, <1>5, <1>8, <2>2, ConsistentBlock
  <2>4. Narrower(state, c[t][1])
    BY <2>2, <2>3, NarrowerTransitive
  <2>5. c[t][1] \in Flow
    <3>1. Len(Code(t)) \in Nat
      BY <1>1 DEF TypeOK, Code
    <3> QED
      BY <1>1, <1>8, <2>3, <3>1, ConsistentBlock
  <2>6. incoming[t] \in Flow \cup {None} /\ (incoming[t] # None => Narrower(incoming[t], c[t][1]))
    BY <1>1, <2>1 DEF TypeOK, Below
  <2>7. Narrower(Meet(incoming[t], state), c[t][1])
    BY <1>3, <2>4, <2>5, <2>6, MeetLeast
  <2>8. \A b \in Block : incoming'[b] = IF b = t THEN Meet(incoming[t], state) ELSE incoming[b]
    BY <1>1, <1>6 DEF TypeOK
  <2>9. \A b \in Block : incoming'[b] # None => c[b] # <<>> /\ Narrower(incoming'[b], c[b][1])
    BY <2>1, <2>3, <2>7, <2>8 DEF Below
  <2> QED
    BY <1>6, <2>1, <2>9 DEF Below
<1> QED
  BY <1>6, <1>8, ConsistentStays DEF BelowAll

\* The other steps move neither the flows nor the answer to "rejected".
LEMMA BelowOther ==
  ASSUME BelowAll, Leave \/ Accept \/ Execute \/ Jump \/ UNCHANGED vars
  PROVE  BelowAll'
<1>1. UNCHANGED <<program, incoming, point>> /\ (verdict' = verdict \/ verdict' = "accepted")
  BY DEF Leave, Accept, Execute, Jump, vars
<1> QED
  BY <1>1, ConsistentStays DEF BelowAll, Below

\* If the function has any annotation that the rules accept, the verifier
\* accepts the function, and what it records is narrower than the annotation
\* everywhere: its answer is the best, in whatever order blocks were queued.
THEOREM VerdictIsComplete == Spec => []BelowAll
<1>1. Inductive /\ BelowAll /\ [Next]_vars => BelowAll'
  BY BelowVisit, BelowCheck, BelowPropagate, BelowOther DEF Next, Verifying
<1> QED
  BY <1>1, BelowInit, InductiveHolds, PTL DEF Spec

-----------------------------------------------------------------------------
(* The reference iteration.                                                *)

\* The recursive function in BlockFlow exists and follows the block.
IsPass(b, f, p) ==
  p = [k \in 0..Len(Code(b)) |-> IF k = 0 THEN f ELSE Apply(p[k - 1], Code(b)[k])]
Pass(b, f) == CHOOSE p : IsPass(b, f, p)

LEMMA PassIs ==
  ASSUME NEW b, Len(Code(b)) \in Nat, NEW f
  PROVE  /\ IsPass(b, f, Pass(b, f))
         /\ BlockFlow(b, f) = Pass(b, f)[Len(Code(b))]
         /\ Pass(b, f)[0] = f
         /\ \A k \in 1..Len(Code(b)) : Pass(b, f)[k] = Apply(Pass(b, f)[k - 1], Code(b)[k])
<1> DEFINE N == Len(Code(b))
           Upto(n, p) == p = [k \in 0..n |-> IF k = 0 THEN f ELSE Apply(p[k - 1], Code(b)[k])]
           P == {n \in 0..N : \E p : Upto(n, p)}
<1>1. 0 \in P
  <2> DEFINE p == [k \in 0..0 |-> f]
  <2>1. \A k \in 0..0 : p[k] = IF k = 0 THEN f ELSE Apply(p[k - 1], Code(b)[k])
    OBVIOUS
  <2>2. p = [k \in 0..0 |-> IF k = 0 THEN f ELSE Apply(p[k - 1], Code(b)[k])]
    BY <2>1
  <2>3. 0 \in 0..N
    OBVIOUS
  <2> QED
    BY <2>2, <2>3
<1>2. ASSUME NEW n \in 0..N - 1, n \in P PROVE n + 1 \in P
  <2>1. PICK p : Upto(n, p)
    BY <1>2
  <2> DEFINE q == [k \in 0..n + 1 |-> IF k = n + 1 THEN Apply(p[n], Code(b)[n + 1]) ELSE p[k]]
  <2>2. n \in Nat /\ n + 1 \in 0..N
    OBVIOUS
  <2>3. ASSUME NEW k \in 0..n + 1
        PROVE  q[k] = IF k = 0 THEN f ELSE Apply(q[k - 1], Code(b)[k])
    <3>1. CASE k = 0
      BY <2>1, <2>2, <3>1
    <3>2. CASE k = n + 1
      <4>1. k - 1 = n /\ n \in 0..n + 1 /\ n # n + 1 /\ k # 0
        BY <2>2, <3>2
      <4>2. q[k - 1] = p[n]
        BY <4>1
      <4>3. q[k] = Apply(p[n], Code(b)[k])
        BY <3>2
      <4> QED
        BY <4>1, <4>2, <4>3
    <3>3. CASE k # 0 /\ k # n + 1
      <4>1. k \in 0..n /\ k - 1 \in 0..n + 1 /\ k - 1 # n + 1
        BY <2>2, <3>3
      <4>2. p[k] = Apply(p[k - 1], Code(b)[k])
        BY <2>1, <3>3, <4>1
      <4>3. q[k] = p[k] /\ q[k - 1] = p[k - 1]
        BY <3>3, <4>1
      <4> QED
        BY <3>3, <4>2, <4>3
    <3> QED
      BY <3>1, <3>2, <3>3
  <2>4. Upto(n + 1, q)
    <3> DEFINE r == [k \in 0..n + 1 |-> IF k = 0 THEN f ELSE Apply(q[k - 1], Code(b)[k])]
    <3>1. \A k \in 0..n + 1 : q[k] = r[k]
      BY <2>3
    <3> QED
      BY <3>1
  <2> QED
    BY <2>2, <2>4
<1>3. \E p : IsPass(b, f, p)
  <2> HIDE DEF P
  <2>1. \A n \in 0..N : n \in P
    BY <1>1, <1>2, SetInduction
  <2>2. N \in P
    BY <2>1
  <2> QED
    BY <2>2 DEF P, IsPass
<1>4. IsPass(b, f, Pass(b, f))
  BY <1>3 DEF Pass
<1>5. BlockFlow(b, f) = Pass(b, f)[N]
  BY DEF BlockFlow, Pass, IsPass
<1> DEFINE ps == Pass(b, f)
<1>6. ps = [k \in 0..N |-> IF k = 0 THEN f ELSE Apply(ps[k - 1], Code(b)[k])]
  BY <1>4 DEF IsPass
<1> HIDE DEF ps
<1>7. \A k \in 0..N : ps[k] = IF k = 0 THEN f ELSE Apply(ps[k - 1], Code(b)[k])
  BY <1>6
<1>8. 0 \in 0..N /\ \A k \in 1..N : k \in 0..N /\ k # 0
  OBVIOUS
<1> QED
  BY <1>4, <1>5, <1>7, <1>8 DEF ps

\* An annotation of one block carries every narrower flow through it.
LEMMA PassNarrower ==
  ASSUME NEW b, Len(Code(b)) \in Nat, NEW s,
         \A k \in 1..Len(Code(b)) + 1 : s[k] \in Flow,
         \A k \in 1..Len(Code(b)) :
           /\ Code(b)[k] \in Instr /\ Accepts(s[k], Code(b)[k])
           /\ Narrower(Apply(s[k], Code(b)[k]), s[k + 1]),
         NEW f, Refines(f, s[1]), NEW g, Refines(g, f)
  PROVE  \A k \in 0..Len(Code(b)) :
           /\ Refines(Pass(b, f)[k], s[k + 1]) /\ Refines(Pass(b, g)[k], Pass(b, f)[k])
           /\ k < Len(Code(b)) =>
                /\ Accepts(Pass(b, f)[k], Code(b)[k + 1])
                /\ Pass(b, f)[k + 1] = Apply(Pass(b, f)[k], Code(b)[k + 1])
<1> DEFINE N == Len(Code(b))
           Fits(k) == Refines(Pass(b, f)[k], s[k + 1]) /\ Refines(Pass(b, g)[k], Pass(b, f)[k])
           P == {k \in 0..N : Fits(k)}
<1>1. /\ Pass(b, f)[0] = f /\ Pass(b, g)[0] = g
      /\ \A k \in 1..N : /\ Pass(b, f)[k] = Apply(Pass(b, f)[k - 1], Code(b)[k])
                         /\ Pass(b, g)[k] = Apply(Pass(b, g)[k - 1], Code(b)[k])
  BY PassIs
<1>2. 0 \in P
  BY <1>1
<1>3. ASSUME NEW n \in 0..N - 1, Fits(n)
      PROVE  Fits(n + 1) /\ Accepts(Pass(b, f)[n], Code(b)[n + 1])
  <2>1. n + 1 \in 1..N /\ n + 1 + 1 \in 1..N + 1 /\ n + 1 - 1 = n
    OBVIOUS
  <2> DEFINE i == Code(b)[n + 1]
             pf == Pass(b, f)[n]
             pg == Pass(b, g)[n]
  <2>2. /\ i \in Instr /\ Accepts(s[n + 1], i) /\ s[n + 1 + 1] \in Flow
        /\ Narrower(Apply(s[n + 1], i), s[n + 1 + 1])
    BY <2>1
  <2>3. Pass(b, f)[n + 1] = Apply(pf, i) /\ Pass(b, g)[n + 1] = Apply(pg, i)
    BY <1>1, <2>1
  <2>4. Refines(pf, s[n + 1]) /\ Refines(pg, pf)
    BY <1>3
  <2> HIDE DEF i, pf, pg
  <2>5. Accepts(pf, i) /\ Refines(Apply(pf, i), Apply(s[n + 1], i))
    BY <2>2, <2>4, StepRefines
  <2>6. Refines(Apply(pg, i), Apply(pf, i))
    BY <2>2, <2>4, <2>5, StepRefines
  <2>7. Refines(Apply(pf, i), s[n + 1 + 1])
    BY <2>2, <2>5, NarrowerTransitive DEF Refines
  <2> QED
    BY <2>3, <2>5, <2>6, <2>7 DEF i, pf
<1>4. \A k \in 0..N : k \in P
  <2>1. \A n \in 0..N - 1 : n \in P => n + 1 \in P
    <3> SUFFICES ASSUME NEW n \in 0..N - 1, Fits(n) PROVE Fits(n + 1) /\ n + 1 \in 0..N
      OBVIOUS
    <3> QED
      BY <1>3
  <2> HIDE DEF P
  <2> QED
    BY <1>2, <2>1, SetInduction
<1>5. \A k \in 0..N : Fits(k)
  BY <1>4
<1> HIDE DEF Fits
<1>6. ASSUME NEW k \in 0..N, k < N
      PROVE  Accepts(Pass(b, f)[k], Code(b)[k + 1]) /\ Pass(b, f)[k + 1] = Apply(Pass(b, f)[k], Code(b)[k + 1])
  <2>1. k \in 0..N - 1 /\ k + 1 \in 1..N /\ k + 1 - 1 = k
    BY <1>6
  <2> QED
    BY <1>1, <1>3, <1>5, <2>1
<1> QED
  BY <1>5, <1>6 DEF Fits

\* A recorded visit is the pass of what it started with.
LEMMA PassRecorded ==
  ASSUME NEW b, Len(Code(b)) \in Nat, NEW p,
         \A k \in 1..Len(Code(b)) : p[k + 1] = Apply(p[k], Code(b)[k])
  PROVE  p[Len(Code(b)) + 1] = BlockFlow(b, p[1])
<1> DEFINE N == Len(Code(b))
           P == {k \in 0..N : Pass(b, p[1])[k] = p[k + 1]}
<1>1. /\ Pass(b, p[1])[0] = p[1] /\ BlockFlow(b, p[1]) = Pass(b, p[1])[N]
      /\ \A k \in 1..N : Pass(b, p[1])[k] = Apply(Pass(b, p[1])[k - 1], Code(b)[k])
  BY PassIs
<1>2. 0 \in P
  BY <1>1
<1>3. \A n \in 0..N - 1 : n \in P => n + 1 \in P
  <2> SUFFICES ASSUME NEW n \in 0..N - 1, Pass(b, p[1])[n] = p[n + 1]
               PROVE  n + 1 \in 0..N /\ Pass(b, p[1])[n + 1] = p[n + 1 + 1]
    OBVIOUS
  <2>1. n + 1 \in 1..N /\ n + 1 - 1 = n
    OBVIOUS
  <2> QED
    BY <1>1, <2>1
<1>4. \A k \in 0..N : k \in P
  <2> HIDE DEF P
  <2> QED
    BY <1>2, <1>3, SetInduction
<1> QED
  BY <1>1, <1>4

\* JoinAll is the narrowest flow that is wider than all members.
LEMMA JoinAllLeast ==
  ASSUME NEW S, S \subseteq Flow, S # {}, \A f \in S : Narrower(f, f)
  PROVE  /\ JoinAll(S) \in Flow /\ \A f \in S : Narrower(f, JoinAll(S))
         /\ \A e : (\A f \in S : Narrower(f, e)) => Narrower(JoinAll(S), e)
<1> DEFINE h == CHOOSE f \in S : TRUE
           All(c) == [x \in DOMAIN h[c] |-> UNION {g[c][x] : g \in S}]
           j == [values     |-> [x \in Reg |-> UNION {g.values[x] : g \in S}],
                 leases     |-> [x \in Reg |-> UNION {g.leases[x] : g \in S}],
                 cells      |-> [x \in Owner |-> UNION {g.cells[x] : g \in S}],
                 cellLeases |-> [x \in Slot |-> UNION {g.cellLeases[x] : g \in S}],
                 progress   |-> [x \in Shell \X Field |-> UNION {g.progress[x] : g \in S}],
                 cleanup    |-> [x \in Owner |-> UNION {g.cleanup[x] : g \in S}]]
<1>1. h \in Flow /\ h \in S
  OBVIOUS
<1>2. JoinAll(S) = [c \in DOMAIN h |-> All(c)]
  BY DEF JoinAll
<1> HIDE DEF h
<1>3. /\ DOMAIN h = {"values", "leases", "cells", "cellLeases", "progress", "cleanup"}
      /\ DOMAIN h.values = Reg /\ DOMAIN h.leases = Reg /\ DOMAIN h.cells = Owner
      /\ DOMAIN h.cellLeases = Slot /\ DOMAIN h.progress = Shell \X Field
      /\ DOMAIN h.cleanup = Owner
  BY <1>1 DEF Flow
<1>4. JoinAll(S) = j
  BY <1>2, <1>3
<1>5. j \in Flow
  <2>1. \A x \in Reg : UNION {g.values[x] : g \in S} \in SUBSET Count
    BY DEF Flow
  <2>2. \A x \in Reg : UNION {g.leases[x] : g \in S} \in SUBSET BOOLEAN
    BY DEF Flow
  <2>3. \A x \in Owner : UNION {g.cells[x] : g \in S} \in SUBSET BOOLEAN
    BY DEF Flow
  <2>4. \A x \in Slot : UNION {g.cellLeases[x] : g \in S} \in SUBSET BOOLEAN
    BY DEF Flow
  <2>5. \A x \in Shell \X Field : UNION {g.progress[x] : g \in S} \in SUBSET BOOLEAN
    BY DEF Flow
  <2>6. \A x \in Owner : UNION {g.cleanup[x] : g \in S} \in SUBSET BOOLEAN
    BY DEF Flow
  <2> QED
    BY <2>1, <2>2, <2>3, <2>4, <2>5, <2>6 DEF Flow
<1>6. ASSUME NEW f \in S PROVE Narrower(f, j)
  BY DEF Narrower
<1>7. ASSUME NEW e, \A f \in S : Narrower(f, e) PROVE Narrower(j, e)
  <2>1. Narrower(h, e)
    BY <1>1, <1>7
  <2>2. \A x \in Reg : j.values[x] # {} /\ j.values[x] \subseteq e.values[x]
    BY <1>1, <1>7 DEF Narrower
  <2>3. \A x \in Reg : j.leases[x] # {} /\ j.leases[x] \subseteq e.leases[x]
    BY <1>1, <1>7 DEF Narrower
  <2>4. \A x \in Owner : j.cells[x] # {} /\ j.cells[x] \subseteq e.cells[x]
    BY <1>1, <1>7 DEF Narrower
  <2>5. \A x \in Slot : j.cellLeases[x] # {} /\ j.cellLeases[x] \subseteq e.cellLeases[x]
    BY <1>1, <1>7 DEF Narrower
  <2>6. \A x \in Shell \X Field : j.progress[x] # {} /\ j.progress[x] \subseteq e.progress[x]
    BY <1>1, <1>7 DEF Narrower
  <2>7. \A x \in Owner : j.cleanup[x] # {} /\ j.cleanup[x] \subseteq e.cleanup[x]
    BY <1>1, <1>7 DEF Narrower
  <2> QED
    BY <2>2, <2>3, <2>4, <2>5, <2>6, <2>7 DEF Narrower
<1> QED
  BY <1>4, <1>5, <1>6, <1>7

Assignment == [Block -> Flow \cup {None}]
\* What inc brings to a block, other brings as well.
Within(inc, other) ==
  \A b \in Block : inc[b] # None => other[b] # None /\ Narrower(inc[b], other[b])

LEMMA WithinTransitive ==
  ASSUME NEW x, NEW y, NEW w, Within(x, y), Within(y, w)
  PROVE  Within(x, w)
BY NarrowerTransitive DEF Within

LEMMA WithinBoth ==
  ASSUME NEW x \in Assignment, NEW y \in Assignment, Within(x, y), Within(y, x)
  PROVE  x = y
<1>1. ASSUME NEW b \in Block PROVE x[b] = y[b]
  <2>1. CASE x[b] = None
    BY <2>1 DEF Within
  <2>2. CASE x[b] # None
    <3>1. x[b] \in Flow /\ y[b] \in Flow /\ Narrower(x[b], y[b]) /\ Narrower(y[b], x[b])
      BY <2>2 DEF Within, Assignment
    <3> DEFINE f == x[b]
               g == y[b]
    <3>2. f \in Flow /\ g \in Flow /\ Narrower(f, g) /\ Narrower(g, f)
      BY <3>1
    <3> HIDE DEF f, g
    <3>3. /\ \A r \in Reg : f.values[r] = g.values[r] /\ f.leases[r] = g.leases[r]
          /\ \A s \in Owner : f.cells[s] = g.cells[s] /\ f.cleanup[s] = g.cleanup[s]
          /\ \A s \in Slot : f.cellLeases[s] = g.cellLeases[s]
          /\ \A p \in Shell \X Field : f.progress[p] = g.progress[p]
      BY <3>2 DEF Narrower
    <3>4. /\ f.values = g.values /\ f.leases = g.leases /\ f.cells = g.cells
          /\ f.cleanup = g.cleanup /\ f.cellLeases = g.cellLeases /\ f.progress = g.progress
      BY <3>2, <3>3 DEF Flow
    <3>5. f = g
      BY <3>2, <3>4 DEF Flow
    <3> QED
      BY <3>5 DEF f, g
  <2> QED
    BY <2>1, <2>2
<1> QED
  BY <1>1 DEF Assignment

\* The first flows of an annotation.
Heads(c) == [b \in Block |-> IF c[b] = <<>> THEN None ELSE c[b][1]]

\* A block carries what is within an annotation to its end.
LEMMA BlockFlowNarrower ==
  ASSUME TypeOK, NEW c, Consistent(c), NEW x \in Assignment, NEW y \in Assignment,
         Within(x, y), Within(y, Heads(c)), NEW b \in Block, x[b] # None
  PROVE  /\ y[b] # None /\ c[b] # <<>>
         /\ Refines(BlockFlow(b, x[b]), BlockFlow(b, y[b]))
         /\ Narrower(BlockFlow(b, y[b]), c[b][Len(Code(b)) + 1])
<1>1. /\ y[b] # None /\ Narrower(x[b], y[b]) /\ c[b] # <<>> /\ Narrower(y[b], c[b][1])
      /\ x[b] \in Flow /\ y[b] \in Flow
  BY DEF Within, Heads, Assignment
<1> DEFINE s == c[b]
           f == y[b]
           g == x[b]
<1>2. /\ Len(Code(b)) \in Nat
      /\ \A k \in 1..Len(Code(b)) + 1 : s[k] \in Flow
      /\ \A k \in 1..Len(Code(b)) :
           /\ Code(b)[k] \in Instr /\ Accepts(s[k], Code(b)[k])
           /\ Narrower(Apply(s[k], Code(b)[k]), s[k + 1])
  BY <1>1, ConsistentBlock
<1>3. Refines(f, s[1]) /\ Refines(g, f)
  BY <1>1, <1>2 DEF Refines
<1>4. BlockFlow(b, f) = Pass(b, f)[Len(Code(b))] /\ BlockFlow(b, g) = Pass(b, g)[Len(Code(b))]
  BY <1>2, PassIs
<1> HIDE DEF s, f, g
<1>5. /\ Refines(Pass(b, f)[Len(Code(b))], s[Len(Code(b)) + 1])
      /\ Refines(Pass(b, g)[Len(Code(b))], Pass(b, f)[Len(Code(b))])
  BY <1>2, <1>3, PassNarrower
<1> QED
  BY <1>1, <1>4, <1>5 DEF s, f, g, Refines

\* The flows that arrive are well formed, and a round is monotone.
LEMMA ArrivalsFull ==
  ASSUME TypeOK, NEW c, Consistent(c), NEW x \in Assignment, Within(x, x),
         Within(x, Heads(c)), NEW t \in Block
  PROVE  /\ Arrivals(x, t) \subseteq Flow /\ \A f \in Arrivals(x, t) : Narrower(f, f)
         /\ \A f \in Arrivals(x, t) : c[t] # <<>> /\ Narrower(f, c[t][1])
<1> SUFFICES ASSUME NEW f \in Arrivals(x, t)
             PROVE  f \in Flow /\ Narrower(f, f) /\ c[t] # <<>> /\ Narrower(f, c[t][1])
  OBVIOUS
<1>1. CASE t = Entry /\ f = EntryFlow(Params)
  BY <1>1, EntryFull DEF Consistent
<1>2. CASE \E b \in Block : /\ x[b] # None /\ f = BlockFlow(b, x[b])
                            /\ \E k \in DOMAIN Targets(b) : Targets(b)[k] = t
  <2>1. PICK b \in Block : /\ x[b] # None /\ f = BlockFlow(b, x[b])
                           /\ \E k \in DOMAIN Targets(b) : Targets(b)[k] = t
    BY <1>2
  <2>2. c[b] # <<>> /\ Refines(f, f) /\ Narrower(f, c[b][Len(Code(b)) + 1])
    BY <2>1, BlockFlowNarrower
  <2>3. c[t] # <<>> /\ Narrower(c[b][Len(Code(b)) + 1], c[t][1])
    BY <2>1, <2>2, ConsistentBlock
  <2> QED
    BY <2>2, <2>3, NarrowerTransitive DEF Refines
<1> QED
  BY <1>1, <1>2 DEF Arrivals

LEMMA RoundMonotone ==
  ASSUME TypeOK, NEW c, Consistent(c), NEW x \in Assignment, NEW y \in Assignment,
         Within(x, y), Within(y, y), Within(y, Heads(c))
  PROVE  /\ Round(x) \in Assignment
         /\ Within(Round(x), Round(y)) /\ Within(Round(x), Round(x))
         /\ Within(Round(x), Heads(c))
<1>1. Within(x, x) /\ Within(x, Heads(c))
  BY WithinTransitive, NarrowerFull DEF Within
<1>2. ASSUME NEW t \in Block, Arrivals(x, t) # {}
      PROVE  /\ JoinAll(Arrivals(x, t)) \in Flow
             /\ Narrower(JoinAll(Arrivals(x, t)), JoinAll(Arrivals(x, t)))
             /\ Arrivals(y, t) # {}
             /\ Narrower(JoinAll(Arrivals(x, t)), JoinAll(Arrivals(y, t)))
             /\ c[t] # <<>> /\ Narrower(JoinAll(Arrivals(x, t)), c[t][1])
  <2> DEFINE X == Arrivals(x, t)
             Y == Arrivals(y, t)
  <2>1. X \subseteq Flow /\ \A f \in X : Narrower(f, f) /\ c[t] # <<>> /\ Narrower(f, c[t][1])
    BY <1>1, ArrivalsFull
  <2>2. Y \subseteq Flow /\ \A f \in Y : Narrower(f, f)
    BY ArrivalsFull
  <2>3. ASSUME NEW f \in X PROVE \E g \in Y : Narrower(f, g)
    <3>1. CASE t = Entry /\ f = EntryFlow(Params)
      <4>1. f \in Y
        BY <3>1 DEF Arrivals
      <4> QED
        BY <2>1, <4>1
    <3>2. CASE \E b \in Block : /\ x[b] # None /\ f = BlockFlow(b, x[b])
                                /\ \E k \in DOMAIN Targets(b) : Targets(b)[k] = t
      <4>1. PICK b \in Block : /\ x[b] # None /\ f = BlockFlow(b, x[b])
                               /\ \E k \in DOMAIN Targets(b) : Targets(b)[k] = t
        BY <3>2
      <4>2. y[b] # None /\ Refines(f, BlockFlow(b, y[b]))
        BY <4>1, BlockFlowNarrower
      <4>3. BlockFlow(b, y[b]) \in Y
        BY <4>1, <4>2 DEF Arrivals
      <4> QED
        BY <4>2, <4>3 DEF Refines
    <3> QED
      BY <3>1, <3>2 DEF Arrivals
  <2> HIDE DEF X, Y
  <2>4. X # {} /\ Y # {}
    BY <1>2, <2>3 DEF X
  <2>5. /\ JoinAll(X) \in Flow /\ \A f \in X : Narrower(f, JoinAll(X))
        /\ \A e : (\A f \in X : Narrower(f, e)) => Narrower(JoinAll(X), e)
    BY <2>1, <2>4, JoinAllLeast
  <2>6. \A g \in Y : Narrower(g, JoinAll(Y))
    BY <2>2, <2>4, JoinAllLeast
  <2>7. \A f \in X : Narrower(f, JoinAll(Y))
    BY <2>3, <2>6, NarrowerTransitive
  <2>8. Narrower(JoinAll(X), JoinAll(Y)) /\ Narrower(JoinAll(X), c[t][1])
    BY <2>1, <2>5, <2>7
  <2> QED
    BY <2>1, <2>4, <2>5, <2>8, NarrowerFull DEF X, Y
<1>3. /\ DOMAIN Round(x) = Block
      /\ \A t \in Block : Round(x)[t] = IF Arrivals(x, t) = {} THEN None ELSE JoinAll(Arrivals(x, t))
      /\ \A t \in Block : Round(y)[t] = IF Arrivals(y, t) = {} THEN None ELSE JoinAll(Arrivals(y, t))
  BY DEF Round
<1>4. ASSUME NEW t \in Block, Round(x)[t] # None
      PROVE  /\ Arrivals(x, t) # {} /\ Arrivals(y, t) # {}
             /\ Round(x)[t] = JoinAll(Arrivals(x, t)) /\ Round(y)[t] = JoinAll(Arrivals(y, t))
  BY <1>2, <1>3, <1>4
<1>5. Round(x) \in Assignment
  BY <1>2, <1>3 DEF Assignment, Round
<1>6. \A t \in Block : Arrivals(y, t) # {} => JoinAll(Arrivals(y, t)) # None
  <2> SUFFICES ASSUME NEW t \in Block, Arrivals(y, t) # {} PROVE JoinAll(Arrivals(y, t)) \in Flow
    BY ProgramAssumption
  <2>1. Arrivals(y, t) \subseteq Flow /\ \A f \in Arrivals(y, t) : Narrower(f, f)
    BY ArrivalsFull
  <2> QED
    BY <2>1, JoinAllLeast
<1>7. ASSUME NEW t \in Block, c[t] # <<>> PROVE Heads(c)[t] = c[t][1] /\ c[t][1] # None
  <2>1. Len(Code(t)) \in Nat
    BY DEF TypeOK, Code
  <2>2. c[t][1] \in Flow
    BY <1>7, <2>1, ConsistentBlock
  <2> QED
    BY <1>7, <2>2, ProgramAssumption DEF Heads
<1> QED
  BY <1>2, <1>4, <1>5, <1>6, <1>7 DEF Within

\* All that can be said of what inc brings to the blocks.
Said(f) ==
       {<<"reached">>}
  \cup {e \in {"values"} \X Reg \X Count : e[3] \in f.values[e[2]]}
  \cup {e \in {"leases"} \X Reg \X BOOLEAN : e[3] \in f.leases[e[2]]}
  \cup {e \in {"cells"} \X Owner \X BOOLEAN : e[3] \in f.cells[e[2]]}
  \cup {e \in {"cellLeases"} \X Slot \X BOOLEAN : e[3] \in f.cellLeases[e[2]]}
  \cup {e \in {"progress"} \X (Shell \X Field) \X BOOLEAN : e[3] \in f.progress[e[2]]}
  \cup {e \in {"cleanup"} \X Owner \X BOOLEAN : e[3] \in f.cleanup[e[2]]}
Facts(inc) == {e \in Block \X Alternative : inc[e[1]] # None /\ e[2] \in Said(inc[e[1]])}

LEMMA SaidNarrower ==
  ASSUME NEW f \in Flow, NEW g \in Flow, Narrower(g, f)
  PROVE  /\ Said(g) \subseteq Said(f) /\ Said(f) \subseteq Alternative
         /\ Said(f) \subseteq Said(g) /\ Narrower(f, f) => Narrower(f, g)
<1>1. Said(g) \subseteq Said(f)
  BY DEF Said, Narrower
<1>2. Said(f) \subseteq Alternative
  BY DEF Said, Alternative
<1>3. ASSUME Said(f) \subseteq Said(g), Narrower(f, f) PROVE Narrower(f, g)
  <2>1. ASSUME NEW r \in Reg PROVE f.values[r] \subseteq g.values[r]
    <3> SUFFICES ASSUME NEW n \in f.values[r] PROVE n \in g.values[r]
      OBVIOUS
    <3>1. n \in Count
      BY DEF Flow
    <3>2. <<"values", r, n>> \in Said(f)
      BY <3>1 DEF Said
    <3>3. <<"values", r, n>> \in Said(g)
      BY <1>3, <3>2
    <3> QED
      BY <3>3 DEF Said
  <2>2. ASSUME NEW r \in Reg PROVE f.leases[r] \subseteq g.leases[r]
    <3> SUFFICES ASSUME NEW n \in f.leases[r] PROVE n \in g.leases[r]
      OBVIOUS
    <3>1. n \in BOOLEAN
      BY DEF Flow
    <3>2. <<"leases", r, n>> \in Said(f)
      BY <3>1 DEF Said
    <3>3. <<"leases", r, n>> \in Said(g)
      BY <1>3, <3>2
    <3> QED
      BY <3>3 DEF Said
  <2>3. ASSUME NEW s \in Owner PROVE f.cells[s] \subseteq g.cells[s]
    <3> SUFFICES ASSUME NEW n \in f.cells[s] PROVE n \in g.cells[s]
      OBVIOUS
    <3>1. n \in BOOLEAN
      BY DEF Flow
    <3>2. <<"cells", s, n>> \in Said(f)
      BY <3>1 DEF Said
    <3>3. <<"cells", s, n>> \in Said(g)
      BY <1>3, <3>2
    <3> QED
      BY <3>3 DEF Said
  <2>4. ASSUME NEW s \in Slot PROVE f.cellLeases[s] \subseteq g.cellLeases[s]
    <3> SUFFICES ASSUME NEW n \in f.cellLeases[s] PROVE n \in g.cellLeases[s]
      OBVIOUS
    <3>1. n \in BOOLEAN
      BY DEF Flow
    <3>2. <<"cellLeases", s, n>> \in Said(f)
      BY <3>1 DEF Said
    <3>3. <<"cellLeases", s, n>> \in Said(g)
      BY <1>3, <3>2
    <3> QED
      BY <3>3 DEF Said
  <2>5. ASSUME NEW p \in Shell \X Field PROVE f.progress[p] \subseteq g.progress[p]
    <3> SUFFICES ASSUME NEW n \in f.progress[p] PROVE n \in g.progress[p]
      OBVIOUS
    <3>1. n \in BOOLEAN
      BY DEF Flow
    <3>2. <<"progress", p, n>> \in Said(f)
      BY <3>1 DEF Said
    <3>3. <<"progress", p, n>> \in Said(g)
      BY <1>3, <3>2
    <3> QED
      BY <3>3 DEF Said
  <2>6. ASSUME NEW s \in Owner PROVE f.cleanup[s] \subseteq g.cleanup[s]
    <3> SUFFICES ASSUME NEW n \in f.cleanup[s] PROVE n \in g.cleanup[s]
      OBVIOUS
    <3>1. n \in BOOLEAN
      BY DEF Flow
    <3>2. <<"cleanup", s, n>> \in Said(f)
      BY <3>1 DEF Said
    <3>3. <<"cleanup", s, n>> \in Said(g)
      BY <1>3, <3>2
    <3> QED
      BY <3>3 DEF Said
  <2> QED
    BY <1>3, <2>1, <2>2, <2>3, <2>4, <2>5, <2>6 DEF Narrower
<1> QED
  BY <1>1, <1>2, <1>3

\* A round that brings something new says more.
LEMMA FactsGrow ==
  ASSUME NEW x \in Assignment, NEW y \in Assignment, Within(x, y), Within(y, y)
  PROVE  /\ Facts(x) \subseteq Facts(y) /\ Facts(y) \subseteq Block \X Alternative
         /\ Facts(y) \subseteq Facts(x) => x = y
<1>1. ASSUME NEW b \in Block, x[b] # None
      PROVE  x[b] \in Flow /\ y[b] \in Flow /\ y[b] # None /\ Narrower(x[b], y[b])
  BY <1>1 DEF Within, Assignment
<1>2. Facts(x) \subseteq Facts(y)
  <2> SUFFICES ASSUME NEW e \in Facts(x) PROVE e \in Facts(y)
    OBVIOUS
  <2>1. e \in Block \X Alternative /\ e[1] \in Block /\ x[e[1]] # None /\ e[2] \in Said(x[e[1]])
    BY DEF Facts
  <2>2. y[e[1]] # None /\ e[2] \in Said(y[e[1]])
    BY <1>1, <2>1, SaidNarrower
  <2> QED
    BY <2>1, <2>2 DEF Facts
<1>3. ASSUME Facts(y) \subseteq Facts(x) PROVE Within(y, x)
  <2> SUFFICES ASSUME NEW b \in Block, y[b] # None PROVE x[b] # None /\ Narrower(y[b], x[b])
    BY DEF Within
  <2>1. y[b] \in Flow /\ Narrower(y[b], y[b])
    BY DEF Within, Assignment
  <2>2. Said(y[b]) \subseteq Alternative
    BY <2>1, SaidNarrower
  <2>3. \A a \in Said(y[b]) : <<b, a>> \in Facts(y)
    BY <2>2 DEF Facts
  <2>4. \A a \in Said(y[b]) : x[b] # None /\ a \in Said(x[b])
    BY <1>3, <2>3 DEF Facts
  <2>5. <<"reached">> \in Said(y[b])
    BY DEF Said
  <2>6. x[b] # None /\ Said(y[b]) \subseteq Said(x[b])
    BY <2>4, <2>5
  <2> QED
    BY <1>1, <2>1, <2>6, SaidNarrower
<1> QED
  BY <1>2, <1>3, WithinBoth DEF Facts

\* The recursive function in LeastSolution.
IsSolution(s) ==
  s = [n \in 0..MaxRounds |-> IF n = 0 THEN [b \in Block |-> None] ELSE Round(s[n - 1])]
Solved == CHOOSE s : IsSolution(s)

LEMMA SolvedIs ==
  /\ Solved[0] = [b \in Block |-> None]
  /\ \A n \in 1..MaxRounds : Solved[n] = Round(Solved[n - 1])
<1> DEFINE nothing == [b \in Block |-> None]
           Upto(n, s) == s = [k \in 0..n |-> IF k = 0 THEN nothing ELSE Round(s[k - 1])]
           P == {n \in 0..MaxRounds : \E s : Upto(n, s)}
<1>0. MaxRounds \in Nat
  BY ProgramAssumption
<1> HIDE DEF nothing
<1>1. 0 \in P
  <2> DEFINE s == [k \in 0..0 |-> nothing]
  <2>1. \A k \in 0..0 : s[k] = IF k = 0 THEN nothing ELSE Round(s[k - 1])
    OBVIOUS
  <2>2. Upto(0, s)
    BY <2>1
  <2>3. 0 \in 0..MaxRounds
    BY <1>0
  <2> QED
    BY <2>2, <2>3
<1>2. ASSUME NEW n \in 0..MaxRounds - 1, n \in P PROVE n + 1 \in P
  <2>1. PICK s : Upto(n, s)
    BY <1>2
  <2> DEFINE q == [k \in 0..n + 1 |-> IF k = n + 1 THEN Round(s[n]) ELSE s[k]]
  <2>2. n \in Nat /\ n + 1 \in 0..MaxRounds
    BY <1>0
  <2>3. ASSUME NEW k \in 0..n + 1
        PROVE  q[k] = IF k = 0 THEN nothing ELSE Round(q[k - 1])
    <3>1. CASE k = 0
      BY <2>1, <2>2, <3>1
    <3>2. CASE k = n + 1
      <4>1. k - 1 = n /\ n \in 0..n + 1 /\ n # n + 1 /\ k # 0
        BY <2>2, <3>2
      <4>2. q[k - 1] = s[n]
        BY <4>1
      <4>3. q[k] = Round(s[n])
        BY <3>2
      <4> QED
        BY <4>1, <4>2, <4>3
    <3>3. CASE k # 0 /\ k # n + 1
      <4>1. k \in 0..n /\ k - 1 \in 0..n + 1 /\ k - 1 # n + 1
        BY <2>2, <3>3
      <4>2. s[k] = Round(s[k - 1])
        BY <2>1, <3>3, <4>1
      <4>3. q[k] = s[k] /\ q[k - 1] = s[k - 1]
        BY <3>3, <4>1
      <4> QED
        BY <3>3, <4>2, <4>3
    <3> QED
      BY <3>1, <3>2, <3>3
  <2>4. Upto(n + 1, q)
    <3> DEFINE r == [k \in 0..n + 1 |-> IF k = 0 THEN nothing ELSE Round(q[k - 1])]
    <3>1. \A k \in 0..n + 1 : q[k] = r[k]
      BY <2>3
    <3> QED
      BY <3>1
  <2> QED
    BY <2>2, <2>4
<1>3. \E s : IsSolution(s)
  <2> HIDE DEF P
  <2>1. \A n \in 0..MaxRounds : n \in P
    BY <1>0, <1>1, <1>2, SetInduction
  <2>2. MaxRounds \in P
    BY <1>0, <2>1
  <2> QED
    BY <2>2 DEF P, IsSolution, nothing
<1>4. IsSolution(Solved)
  BY <1>3 DEF Solved
<1> DEFINE sol == Solved
<1>5. sol = [n \in 0..MaxRounds |-> IF n = 0 THEN nothing ELSE Round(sol[n - 1])]
  BY <1>4 DEF IsSolution, nothing
<1> HIDE DEF sol
<1>6. \A n \in 0..MaxRounds : sol[n] = IF n = 0 THEN nothing ELSE Round(sol[n - 1])
  BY <1>5
<1>7. 0 \in 0..MaxRounds /\ \A n \in 1..MaxRounds : n \in 0..MaxRounds /\ n # 0
  BY <1>0
<1> QED
  BY <1>6, <1>7 DEF sol, nothing

\* Below an annotation the rounds only add.
LEMMA SolvedGrows ==
  ASSUME TypeOK, NEW c, Consistent(c)
  PROVE  \A n \in 0..MaxRounds :
           /\ Solved[n] \in Assignment /\ Within(Solved[n], Heads(c))
           /\ Within(Solved[n], Solved[n]) /\ Within(Solved[n], Round(Solved[n]))
<1> DEFINE Good(n) == /\ Solved[n] \in Assignment /\ Within(Solved[n], Heads(c))
                      /\ Within(Solved[n], Solved[n]) /\ Within(Solved[n], Round(Solved[n]))
           P == {n \in 0..MaxRounds : Good(n)}
<1>1. 0 \in P
  <2>1. 0 \in 0..MaxRounds
    BY ProgramAssumption
  <2>2. Solved[0] \in Assignment /\ \A b \in Block : Solved[0][b] = None
    BY SolvedIs DEF Assignment
  <2> QED
    BY <2>1, <2>2 DEF Within
<1>2. ASSUME NEW n \in 0..MaxRounds - 1, Good(n) PROVE Good(n + 1) /\ n + 1 \in 0..MaxRounds
  <2>1. n + 1 \in 1..MaxRounds /\ n + 1 - 1 = n /\ n + 1 \in 0..MaxRounds
    BY ProgramAssumption
  <2>2. Solved[n + 1] = Round(Solved[n])
    BY <2>1, SolvedIs
  <2> DEFINE x == Solved[n]
             y == Solved[n + 1]
  <2>3. x \in Assignment /\ Within(x, x) /\ Within(x, Heads(c)) /\ Within(x, y)
    BY <1>2, <2>2
  <2>4. y \in Assignment /\ Within(y, y) /\ Within(y, Heads(c))
    <3> HIDE DEF x
    <3>1. Round(x) \in Assignment /\ Within(Round(x), Round(x)) /\ Within(Round(x), Heads(c))
      BY <2>3, RoundMonotone
    <3> QED
      BY <2>2, <3>1 DEF x
  <2> HIDE DEF x, y
  <2>5. Within(Round(x), Round(y))
    BY <2>3, <2>4, RoundMonotone
  <2>6. Within(y, Round(y))
    BY <2>2, <2>5 DEF x, y
  <2> QED
    BY <2>1, <2>4, <2>6 DEF y
<1>3. \A n \in 0..MaxRounds - 1 : n \in P => n + 1 \in P
  BY <1>2
<1> HIDE DEF P
<1>4. \A n \in 0..MaxRounds : n \in P
  BY <1>1, <1>3, SetInduction, ProgramAssumption
<1> QED
  BY <1>4 DEF P

\* The rounds end within the bound, because each adds one fact at least.
LEMMA SolvedSettles ==
  ASSUME TypeOK, NEW c, Consistent(c)
  PROVE  \E n \in 0..MaxRounds : Round(Solved[n]) = Solved[n]
<1> SUFFICES ASSUME \A n \in 0..MaxRounds : Round(Solved[n]) # Solved[n] PROVE FALSE
  OBVIOUS
<1>0. /\ IsFiniteSet(Block \X Alternative) /\ Cardinality(Block \X Alternative) \in Nat
      /\ MaxRounds >= Cardinality(Block \X Alternative) /\ MaxRounds \in Nat
  BY RoundsAssumption, ProgramAssumption, FS_Product, FS_CardinalityType
<1>1. ASSUME NEW n \in 0..MaxRounds
      PROVE  /\ Facts(Solved[n]) \subseteq Facts(Round(Solved[n]))
             /\ Facts(Solved[n]) # Facts(Round(Solved[n]))
             /\ Facts(Round(Solved[n])) \subseteq Block \X Alternative
             /\ Facts(Solved[n]) \subseteq Block \X Alternative
  <2> DEFINE x == Solved[n]
             y == Round(x)
  <2>1. x \in Assignment /\ Within(x, x) /\ Within(x, y) /\ Within(x, Heads(c)) /\ x # y
    BY SolvedGrows
  <2> HIDE DEF x
  <2>2. y \in Assignment /\ Within(y, y)
    BY <2>1, RoundMonotone
  <2> HIDE DEF y
  <2>3. /\ Facts(x) \subseteq Facts(y) /\ Facts(y) \subseteq Block \X Alternative
        /\ Facts(y) \subseteq Facts(x) => x = y
    BY <2>1, <2>2, FactsGrow
  <2> QED
    BY <2>1, <2>3 DEF x, y
<1> DEFINE Many(n) == Cardinality(Facts(Solved[n])) >= n
           P == {n \in 0..MaxRounds : Many(n)}
<1>2. ASSUME NEW n \in 0..MaxRounds
      PROVE  /\ Cardinality(Facts(Solved[n])) \in Nat
             /\ Cardinality(Facts(Round(Solved[n]))) \in Nat
             /\ Cardinality(Facts(Round(Solved[n]))) > Cardinality(Facts(Solved[n]))
             /\ Cardinality(Facts(Round(Solved[n]))) <= Cardinality(Block \X Alternative)
  <2> DEFINE S == Facts(Solved[n])
             T == Facts(Round(Solved[n]))
  <2>1. S \subseteq T /\ S # T /\ T \in SUBSET (Block \X Alternative)
    BY <1>1
  <2> HIDE DEF S, T
  <2>2. IsFiniteSet(T) /\ Cardinality(T) <= Cardinality(Block \X Alternative)
    BY <1>0, <2>1, FS_Subset
  <2>3. Cardinality(S) <= Cardinality(T) /\ Cardinality(S) # Cardinality(T) /\ IsFiniteSet(S)
    BY <2>1, <2>2, FS_Subset
  <2>4. Cardinality(S) \in Nat /\ Cardinality(T) \in Nat
    BY <2>2, <2>3, FS_CardinalityType
  <2> QED
    BY <2>2, <2>3, <2>4 DEF S, T
<1>3. 0 \in P
  <2>1. 0 \in 0..MaxRounds
    BY <1>0
  <2> QED
    BY <1>2, <2>1
<1>4. ASSUME NEW n \in 0..MaxRounds - 1, Many(n) PROVE Many(n + 1) /\ n + 1 \in 0..MaxRounds
  <2>1. n \in 0..MaxRounds /\ n + 1 \in 1..MaxRounds /\ n + 1 - 1 = n /\ n + 1 \in 0..MaxRounds
    BY <1>0
  <2>2. Solved[n + 1] = Round(Solved[n])
    BY <2>1, SolvedIs
  <2> QED
    BY <1>2, <1>4, <2>1, <2>2
<1>5. \A n \in 0..MaxRounds - 1 : n \in P => n + 1 \in P
  BY <1>4
<1> HIDE DEF P
<1>6. \A n \in 0..MaxRounds : n \in P
  BY <1>0, <1>3, <1>5, SetInduction
<1>7. MaxRounds \in 0..MaxRounds
  BY <1>0
<1>8. Cardinality(Facts(Solved[MaxRounds])) >= MaxRounds
  BY <1>6, <1>7 DEF P
<1> QED
  BY <1>0, <1>2, <1>7, <1>8

\* What the verifier recorded is an annotation.
Recordings == [b \in Block |-> IF incoming[b] = None THEN <<>> ELSE point[b]]

LEMMA RecordingsConsistent ==
  ASSUME Inductive, BelowAll, verdict = "accepted"
  PROVE  Consistent(Recordings) /\ Heads(Recordings) = incoming
<1>1. /\ TypeOK /\ VerifierFacts /\ work = <<>> /\ block = None
  BY DEF Inductive, VerifierFacts
<1>2. ASSUME NEW b \in Block, incoming[b] # None
      PROVE  /\ Settled(b) /\ Recordings[b] = point[b] /\ point[b] \in Seq(Flow)
             /\ Len(Code(b)) \in Nat /\ Len(point[b]) = Len(Code(b)) + 1
             /\ point[b] # <<>> /\ point[b][1] = incoming[b]
             /\ \A k \in 1..Len(Code(b)) + 1 : Narrower(point[b][k], point[b][k])
  <2>1. Settled(b)
    BY <1>1, <1>2, ProgramAssumption DEF VerifierFacts, NoLostBlock, Queued
  <2>2. Len(Code(b)) \in Nat /\ point[b] \in Seq(Flow)
    BY <1>1 DEF TypeOK, Code
  <2>3. Len(point[b]) = Len(Code(b)) + 1 /\ point[b][1] = incoming[b]
    BY <2>1 DEF Settled, Recorded
  <2>4. point[b] # <<>>
    BY <2>2, <2>3
  <2>5. \A k \in 1..Len(point[b]) : Narrower(point[b][k], point[b][k])
    BY DEF BelowAll
  <2> QED
    BY <1>2, <2>1, <2>2, <2>3, <2>4, <2>5 DEF Recordings
<1>3. Recordings \in [Block -> Seq(Flow)]
  <2>1. \A b \in Block : Recordings[b] \in Seq(Flow)
    BY <1>2 DEF Recordings
  <2> QED
    BY <2>1 DEF Recordings
<1>4. \A b \in Block : Recordings[b] # <<>> <=> incoming[b] # None
  BY <1>2 DEF Recordings
<1>5. Recordings[Entry] # <<>> /\ Narrower(EntryFlow(Params), Recordings[Entry][1])
  BY <1>1, <1>2, <1>4, ProgramAssumption DEF VerifierFacts, Covers
<1>6. ASSUME NEW b \in Block, Recordings[b] # <<>>
      PROVE  /\ Len(Recordings[b]) = Len(Code(b)) + 1
             /\ \A k \in 1..Len(Code(b)) :
                  /\ Accepts(Recordings[b][k], Code(b)[k])
                  /\ Narrower(Apply(Recordings[b][k], Code(b)[k]), Recordings[b][k + 1])
             /\ \A k \in DOMAIN Targets(b) :
                  /\ Recordings[Targets(b)[k]] # <<>>
                  /\ Narrower(Recordings[b][Len(Code(b)) + 1], Recordings[Targets(b)[k]][1])
  <2>1. /\ incoming[b] # None /\ Settled(b) /\ Recordings[b] = point[b]
        /\ Len(Code(b)) \in Nat /\ Len(point[b]) = Len(Code(b)) + 1
        /\ \A k \in 1..Len(Code(b)) + 1 : Narrower(point[b][k], point[b][k])
    BY <1>2, <1>4, <1>6
  <2>2. ASSUME NEW k \in 1..Len(Code(b))
        PROVE  /\ Accepts(point[b][k], Code(b)[k])
               /\ Narrower(Apply(point[b][k], Code(b)[k]), point[b][k + 1])
    <3>1. k \in 1..(Len(Code(b)) + 1) - 1 /\ k + 1 \in 1..Len(Code(b)) + 1
      BY <2>1
    <3>2. Accepts(point[b][k], Code(b)[k]) /\ point[b][k + 1] = Apply(point[b][k], Code(b)[k])
      BY <2>1, <3>1 DEF Settled, Recorded
    <3> QED
      BY <2>1, <3>1, <3>2
  <2>3. ASSUME NEW k \in DOMAIN Targets(b)
        PROVE  /\ Recordings[Targets(b)[k]] # <<>>
               /\ Narrower(point[b][Len(Code(b)) + 1], Recordings[Targets(b)[k]][1])
    <3>1. Targets(b)[k] \in Block
      BY <1>1 DEF TypeOK, Targets
    <3>2. /\ incoming[Targets(b)[k]] # None
          /\ Narrower(point[b][Len(Code(b)) + 1], incoming[Targets(b)[k]])
      BY <2>1 DEF Settled, Covers
    <3> QED
      BY <1>2, <1>4, <3>1, <3>2
  <2> QED
    BY <2>1, <2>2, <2>3
<1>7. Heads(Recordings) = incoming
  <2>1. \A b \in Block : Heads(Recordings)[b] = incoming[b]
    BY <1>2, <1>4 DEF Heads
  <2> QED
    BY <1>1, <2>1 DEF Heads, TypeOK
<1> QED
  BY <1>3, <1>5, <1>6, <1>7 DEF Consistent

\* A solution within an annotation is the start of an annotation of its own.
Passes(x) ==
  [b \in Block |-> IF x[b] = None THEN <<>>
                   ELSE [k \in 1..Len(Code(b)) + 1 |-> Pass(b, x[b])[k - 1]]]

LEMMA PassesConsistent ==
  ASSUME TypeOK, NEW c, Consistent(c), NEW x \in Assignment, Within(x, x),
         Within(x, Heads(c)), Round(x) = x
  PROVE  Consistent(Passes(x)) /\ Heads(Passes(x)) = x
<1>1. ASSUME NEW b \in Block, x[b] # None
      PROVE  /\ Len(Code(b)) \in Nat /\ Passes(x)[b] \in Seq(Flow)
             /\ Len(Passes(x)[b]) = Len(Code(b)) + 1 /\ Passes(x)[b] # <<>>
             /\ Passes(x)[b][1] = x[b]
             /\ Passes(x)[b][Len(Code(b)) + 1] = BlockFlow(b, x[b])
             /\ \A k \in 1..Len(Code(b)) :
                  /\ Accepts(Passes(x)[b][k], Code(b)[k])
                  /\ Narrower(Apply(Passes(x)[b][k], Code(b)[k]), Passes(x)[b][k + 1])
  <2> DEFINE N == Len(Code(b))
             p == Pass(b, x[b])
             s == c[b]
             q == [k \in 1..N + 1 |-> p[k - 1]]
  <2>1. x[b] \in Flow /\ Narrower(x[b], x[b]) /\ s # <<>> /\ Narrower(x[b], s[1])
    BY <1>1 DEF Within, Assignment, Heads
  <2>2. /\ N \in Nat /\ \A k \in 1..N + 1 : s[k] \in Flow
        /\ \A k \in 1..N : /\ Code(b)[k] \in Instr /\ Accepts(s[k], Code(b)[k])
                           /\ Narrower(Apply(s[k], Code(b)[k]), s[k + 1])
    BY <2>1, ConsistentBlock
  <2>3. Refines(x[b], s[1]) /\ Refines(x[b], x[b])
    BY <2>1, <2>2 DEF Refines
  <2>4. BlockFlow(b, x[b]) = p[N] /\ p[0] = x[b]
    BY <2>2, PassIs
  <2> HIDE DEF s
  <2>5. \A k \in 0..N :
          /\ Refines(p[k], s[k + 1]) /\ Refines(p[k], p[k])
          /\ k < N => Accepts(p[k], Code(b)[k + 1]) /\ p[k + 1] = Apply(p[k], Code(b)[k + 1])
    BY <2>2, <2>3, PassNarrower
  <2>6. Passes(x)[b] = q
    BY <1>1 DEF Passes
  <2> HIDE DEF p, N
  <2>7. \A k \in 1..N + 1 : k - 1 \in 0..N /\ q[k] = p[k - 1] /\ q[k] \in Flow /\ Narrower(q[k], q[k])
    BY <2>2, <2>5 DEF Refines
  <2>8. q \in Seq(Flow) /\ Len(q) = N + 1 /\ q # <<>>
    BY <2>2, <2>7
  <2> HIDE DEF q
  <2>9. q[1] = x[b] /\ q[N + 1] = BlockFlow(b, x[b])
    <3>1. 1 \in 1..N + 1 /\ 1 - 1 = 0 /\ N + 1 \in 1..N + 1 /\ N + 1 - 1 = N
      BY <2>2
    <3>2. \A k \in 1..N + 1 : q[k] = p[k - 1]
      BY <2>7
    <3>3. q[1] = p[0]
      BY <3>1, <3>2
    <3>4. q[N + 1] = p[N]
      <4>1. PICK m \in 1..N + 1 : m = N + 1 /\ m - 1 = N
        BY <2>2, <3>1
      <4>2. q[m] = p[m - 1]
        BY <3>2
      <4> QED
        BY <4>1, <4>2
    <3> QED
      BY <2>4, <3>1, <3>3, <3>4
  <2>10. ASSUME NEW k \in 1..N
         PROVE  Accepts(q[k], Code(b)[k]) /\ Narrower(Apply(q[k], Code(b)[k]), q[k + 1])
    <3>1. /\ k - 1 \in 0..N /\ k - 1 < N /\ k - 1 + 1 = k /\ k + 1 - 1 = k
          /\ k \in 1..N + 1 /\ k + 1 \in 1..N + 1
      BY <2>2
    <3>2. Accepts(p[k - 1], Code(b)[k]) /\ p[k] = Apply(p[k - 1], Code(b)[k])
      BY <2>5, <3>1
    <3>3. q[k] = p[k - 1] /\ q[k + 1] = p[k] /\ Narrower(q[k + 1], q[k + 1])
      BY <2>7, <3>1
    <3> QED
      BY <3>2, <3>3
  <2> QED
    BY <2>2, <2>6, <2>8, <2>9, <2>10 DEF N
<1>2. \A b \in Block : Passes(x)[b] # <<>> <=> x[b] # None
  <2>1. \A b \in Block : x[b] = None => Passes(x)[b] = <<>>
    BY DEF Passes
  <2> QED
    BY <1>1, <2>1
<1>3. Passes(x) \in [Block -> Seq(Flow)]
  <2>1. \A b \in Block : x[b] = None => Passes(x)[b] = <<>>
    BY DEF Passes
  <2>2. <<>> \in Seq(Flow)
    OBVIOUS
  <2>3. \A b \in Block : Passes(x)[b] \in Seq(Flow)
    BY <1>1, <2>1, <2>2
  <2> QED
    BY <2>3 DEF Passes
<1>4. ASSUME NEW t \in Block, NEW f \in Arrivals(x, t)
      PROVE  x[t] # None /\ Narrower(f, x[t])
  <2>1. Arrivals(x, t) \subseteq Flow /\ \A g \in Arrivals(x, t) : Narrower(g, g)
    BY ArrivalsFull
  <2>2. JoinAll(Arrivals(x, t)) \in Flow /\ Narrower(f, JoinAll(Arrivals(x, t)))
    BY <2>1, JoinAllLeast
  <2>3. Round(x)[t] = JoinAll(Arrivals(x, t))
    BY DEF Round
  <2> QED
    BY <2>2, <2>3, ProgramAssumption
<1>5. Passes(x)[Entry] # <<>> /\ Narrower(EntryFlow(Params), Passes(x)[Entry][1])
  <2>1. Entry \in Block /\ EntryFlow(Params) \in Arrivals(x, Entry)
    BY ProgramAssumption DEF Arrivals
  <2>2. x[Entry] # None /\ Narrower(EntryFlow(Params), x[Entry])
    BY <1>4, <2>1
  <2>3. Passes(x)[Entry] # <<>> /\ Passes(x)[Entry][1] = x[Entry]
    BY <1>1, <2>1, <2>2
  <2> QED
    BY <2>2, <2>3
<1>6. ASSUME NEW b \in Block, Passes(x)[b] # <<>>, NEW k \in DOMAIN Targets(b)
      PROVE  /\ Passes(x)[Targets(b)[k]] # <<>>
             /\ Narrower(Passes(x)[b][Len(Code(b)) + 1], Passes(x)[Targets(b)[k]][1])
  <2>1. PICK t \in Block : t = Targets(b)[k]
    BY DEF TypeOK, Targets
  <2>2. x[b] # None
    BY <1>2, <1>6
  <2>3. BlockFlow(b, x[b]) \in Arrivals(x, t)
    BY <2>1, <2>2 DEF Arrivals
  <2> QED
    BY <1>1, <1>4, <2>1, <2>2, <2>3
<1>7. Consistent(Passes(x))
  BY <1>1, <1>2, <1>3, <1>5, <1>6 DEF Consistent
<1>8. Heads(Passes(x)) = x
  <2>1. \A b \in Block : Heads(Passes(x))[b] = x[b]
    BY <1>1, <1>2 DEF Heads
  <2> QED
    BY <2>1 DEF Heads, Assignment
<1> QED
  BY <1>7, <1>8

\* The verifier ends with the least solution of the equations between the
\* blocks, the one that visiting all blocks at once, round by round, ends
\* with: what it answers does not depend on the order of its queue.
THEOREM EndIsLeastSolution == Spec => []LeastSolution
<1>1. Inductive /\ BelowAll => LeastSolution
  <2>1. SUFFICES ASSUME Inductive, BelowAll, verdict = "accepted"
                 PROVE  Round(incoming) = incoming /\ \E n \in 0..MaxRounds : Solved[n] = incoming
    BY DEF LeastSolution, Solved, IsSolution
  <2> DEFINE c == Recordings
  <2>2. TypeOK /\ Consistent(c) /\ Heads(c) = incoming /\ incoming \in Assignment
    BY <2>1, RecordingsConsistent DEF Inductive, TypeOK, Assignment
  <2> HIDE DEF c
  <2>3. PICK n \in 0..MaxRounds : Round(Solved[n]) = Solved[n]
    BY <2>2, SolvedSettles
  <2>4. PICK x : x = Solved[n]
    OBVIOUS
  <2>5. x \in Assignment /\ Within(x, x) /\ Within(x, Heads(c)) /\ Round(x) = x
    BY <2>2, <2>3, <2>4, SolvedGrows
  <2>6. Consistent(Passes(x)) /\ Heads(Passes(x)) = x
    BY <2>2, <2>5, PassesConsistent
  <2>7. Below(Passes(x))
    BY <2>1, <2>6 DEF BelowAll
  <2>8. Within(incoming, x)
    <3> SUFFICES ASSUME NEW b \in Block, incoming[b] # None
                 PROVE  x[b] # None /\ Narrower(incoming[b], x[b])
      BY DEF Within
    <3>1. Passes(x)[b] # <<>> /\ Narrower(incoming[b], Passes(x)[b][1])
      BY <2>7 DEF Below
    <3>2. x[b] # None
      BY <3>1 DEF Passes
    <3>3. Heads(Passes(x))[b] = Passes(x)[b][1]
      BY <3>1 DEF Heads
    <3> QED
      BY <2>6, <3>1, <3>2, <3>3
  <2>9. x = incoming
    BY <2>2, <2>5, <2>8, WithinBoth
  <2> QED
    BY <2>3, <2>4, <2>9
<1> QED
  BY <1>1, InductiveHolds, VerdictIsComplete, PTL
=============================================================================
