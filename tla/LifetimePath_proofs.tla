----------------------- MODULE LifetimePath_proofs ------------------------
(***************************************************************************)
(* Proofs about LifetimePath, for any registers, slots and objects.  In    *)
(* two parts: for any number of joins, what the verifier believes contains *)
(* the exact ledger of strong edges, and an accepted return has discharged *)
(* every register and every cleanup slot; then the heap: an execution of   *)
(* an accepted function that the builder could have emitted counts every   *)
(* edge, never traps, leaves nothing behind, and keeps evaluation leases   *)
(* away from logical owners.                                               *)
(***************************************************************************)
EXTENDS LifetimePath, LifetimeIr_proofs, Counting_proofs

(* The three parts of LedgerSound, for any flow and any ledger.            *)
RegSound(f, o) == \A r \in Reg \ Zero : o[r] \in f.values[r]
SlotSound(f, h) == \A s \in Owner : h[s] \in f.cells[s]
CleanSound(f, h) == Disciplined => \A s \in Owner : h[s] \in f.cleanup[s]

-----------------------------------------------------------------------------
(* The moves of the flow keep its type and follow the ledger.              *)

LEMMA TakeSound ==
  ASSUME NEW f \in Flow, NEW uses \in [Reg -> Nat],
         NEW o \in [Reg -> Int], RegSound(f, o),
         NEW q, \A r \in Reg \ Zero : q[r] = o[r] - uses[r]
  PROVE  RegSound(Take(f, uses), q)
<1>1. SUFFICES ASSUME NEW r \in Reg \ Zero
               PROVE  q[r] \in Take(f, uses).values[r]
  BY DEF RegSound
<1>2. Take(f, uses).values[r] = {n - uses[r] : n \in f.values[r]}
  BY DEF Take, Flow
<1>3. o[r] \in f.values[r] /\ q[r] = o[r] - uses[r]
  BY DEF RegSound
<1> QED
  BY <1>2, <1>3

LEMMA ProduceSound ==
  ASSUME NEW f \in Flow, NEW d \in Reg, NEW lease \in SUBSET BOOLEAN,
         NEW o, RegSound(f, o),
         NEW q, q[d] = 1, \A r \in Reg \ (Zero \cup {d}) : q[r] = o[r]
  PROVE  RegSound(Produce(f, d, lease), q)
<1>1. Produce(f, d, lease).values = [f.values EXCEPT ![d] = {1}]
  BY ProduceFlow
<1>2. f.values \in [Reg -> SUBSET Count]
  BY DEF Flow
<1>3. SUFFICES ASSUME NEW r \in Reg \ Zero
               PROVE  q[r] \in Produce(f, d, lease).values[r]
  BY DEF RegSound
<1>4. CASE r = d
  BY <1>1, <1>2, <1>4
<1>5. CASE r # d
  BY <1>1, <1>2, <1>5 DEF RegSound
<1> QED
  BY <1>4, <1>5

LEMMA SetSlotSound ==
  ASSUME NEW f \in Flow, NEW s \in Slot, NEW live \in BOOLEAN,
         NEW h \in [Slot -> BOOLEAN], SlotSound(f, h), CleanSound(f, h)
  PROVE  /\ SlotSound(SetSlot(f, s, live), [h EXCEPT ![s] = live])
         /\ CleanSound(SetSlot(f, s, live), [h EXCEPT ![s] = live])
BY SlotAssumption DEF SetSlot, Flow, SlotSound, CleanSound

-----------------------------------------------------------------------------
(* The ledger side: what is paid and gained.                               *)

LEMMA PaySound ==
  ASSUME NEW uses \in [Reg -> Nat], owed \in [Reg -> Int]
  PROVE  /\ Pay(uses) \in [Reg -> Int]
         /\ \A r \in Reg \ Zero : Pay(uses)[r] = owed[r] - uses[r]
BY DEF Pay

\* A register pays for its operands and another one gains an edge.
LEMMA GainSound ==
  ASSUME NEW f \in Flow, NEW uses \in [Reg -> Nat], CanTake(f, uses),
         NEW d \in Reg, NEW lease \in SUBSET BOOLEAN,
         owed \in [Reg -> Int], RegSound(f, owed)
  PROVE  RegSound(Produce(Take(f, uses), d, lease), [Pay(uses) EXCEPT ![d] = 1])
<1> DEFINE q == [Pay(uses) EXCEPT ![d] = 1]
<1>1. Take(f, uses) \in Flow
  BY TakeFlow
<1>2. Pay(uses) \in [Reg -> Int] /\ \A r \in Reg \ Zero : Pay(uses)[r] = owed[r] - uses[r]
  BY PaySound
<1>3. RegSound(Take(f, uses), Pay(uses))
  BY <1>2, TakeSound
<1>4. q[d] = 1 /\ \A r \in Reg \ (Zero \cup {d}) : q[r] = Pay(uses)[r]
  BY <1>2
<1> HIDE DEF q
<1>5. RegSound(Produce(Take(f, uses), d, lease), q)
  BY <1>1, <1>3, <1>4, ProduceSound
<1> QED
  BY <1>5 DEF q

\* Nothing is paid: the case of a plain production.
LEMMA NoUseGain ==
  ASSUME NEW f \in Flow, NEW d \in Reg, NEW lease \in SUBSET BOOLEAN,
         owed \in [Reg -> Int], RegSound(f, owed)
  PROVE  /\ NoUse \in [Reg -> Nat]
         /\ RegSound(Produce(f, d, lease), [Pay(NoUse) EXCEPT ![d] = 1])
<1> DEFINE q == [Pay(NoUse) EXCEPT ![d] = 1]
<1>1. NoUse \in [Reg -> Nat]
  BY DEF NoUse
<1>2. Pay(NoUse) \in [Reg -> Int] /\ \A r \in Reg \ Zero : Pay(NoUse)[r] = owed[r]
  BY DEF Pay, NoUse
<1>3. q[d] = 1 /\ \A r \in Reg \ (Zero \cup {d}) : q[r] = owed[r]
  BY <1>2
<1> HIDE DEF q
<1>4. RegSound(Produce(f, d, lease), q)
  BY <1>3, ProduceSound
<1> QED
  BY <1>1, <1>4 DEF q

\* The type of the registers' part of the ledger after Gain and Lose.
LEMMA GainTyped ==
  ASSUME NEW uses \in [Reg -> Nat], NEW d \in Reg, NEW lease \in BOOLEAN,
         owed \in [Reg -> Int], lent \in [Reg -> BOOLEAN], Gain(d, uses, lease)
  PROVE  owed' \in [Reg -> Int] /\ lent' \in [Reg -> BOOLEAN]
<1>1. owed' \in [Reg -> Int]
  BY PaySound DEF Gain
<1>2. \A r \in Reg : (lent[r] /\ Pay(uses)[r] > 0) \in BOOLEAN
  OBVIOUS
<1>3. lent' = [r \in Reg |-> IF r = d THEN lease ELSE lent[r] /\ Pay(uses)[r] > 0]
  BY DEF Gain
<1>4. lent' \in [Reg -> BOOLEAN]
  BY <1>2, <1>3, Zenon
<1> QED
  BY <1>1, <1>4

LEMMA LoseTyped ==
  ASSUME NEW uses \in [Reg -> Nat],
         owed \in [Reg -> Int], lent \in [Reg -> BOOLEAN], Lose(uses)
  PROVE  owed' \in [Reg -> Int] /\ lent' \in [Reg -> BOOLEAN]
<1>1. owed' \in [Reg -> Int]
  BY PaySound DEF Lose
<1>2. \A r \in Reg : (lent[r] /\ Pay(uses)[r] > 0) \in BOOLEAN
  OBVIOUS
<1>3. lent' = [r \in Reg |-> lent[r] /\ Pay(uses)[r] > 0]
  BY DEF Lose
<1>4. lent' \in [Reg -> BOOLEAN]
  BY <1>2, <1>3, Zenon
<1> QED
  BY <1>1, <1>4

-----------------------------------------------------------------------------
(* One lemma per rule of the verifier whose effect on the flow is more     *)
(* than a take and a produce: the result is a flow that contains the       *)
(* ledger as the instruction leaves it.                                    *)

Sound(f, o, h) == RegSound(f, o) /\ SlotSound(f, h) /\ CleanSound(f, h)

\* Slots keep their soundness when the flow of the slots is unchanged.
LEMMA SameSlots ==
  ASSUME NEW f, NEW g, NEW h, SlotSound(f, h), CleanSound(f, h),
         g.cells = f.cells, g.cleanup = f.cleanup
  PROVE  SlotSound(g, h) /\ CleanSound(g, h)
BY DEF SlotSound, CleanSound

LEMMA StoreOwnedSound ==
  ASSUME NEW f \in Flow, NEW s \in Slot, NEW v \in Reg, StoreOwnedOk(f, s, v),
         NEW o \in [Reg -> Int], NEW h \in [Slot -> BOOLEAN], Sound(f, o, h),
         NEW q, \A r \in Reg \ Zero : q[r] = o[r] - Once(v)[r]
  PROVE  /\ StoreOwned(f, s, v) \in Flow
         /\ Sound(StoreOwned(f, s, v), q, [h EXCEPT ![s] = v \notin Zero])
<1> DEFINE t == Take(f, Once(v))
           g == [t EXCEPT !.cellLeases[s] = f.leases[v]]
<1>1. Once(v) \in [Reg -> Nat] /\ CanTake(f, Once(v))
  BY OnceNat DEF StoreOwnedOk
<1>2. t \in Flow /\ t.cells = f.cells /\ t.cleanup = f.cleanup
  BY <1>1, TakeFlow
<1>3. RegSound(t, q)
  BY <1>1, TakeSound DEF Sound
<1>4. f.leases[v] \in SUBSET BOOLEAN
  BY DEF Flow
<1> HIDE DEF t
<1>5. /\ g \in Flow /\ g.values = t.values
      /\ g.cells = f.cells /\ g.cleanup = f.cleanup
  BY <1>2, <1>4 DEF Flow
<1>6. SlotSound(g, h) /\ CleanSound(g, h)
  BY <1>5, SameSlots DEF Sound
<1>7. StoreOwned(f, s, v) = SetSlot(g, s, v \notin Zero)
  BY DEF StoreOwned, t
<1> HIDE DEF g
<1> DEFINE live == v \notin Zero
<1>8. live \in BOOLEAN
  OBVIOUS
<1> HIDE DEF live
<1>9. /\ SetSlot(g, s, live) \in Flow
      /\ SetSlot(g, s, live).values = t.values
      /\ SlotSound(SetSlot(g, s, live), [h EXCEPT ![s] = live])
      /\ CleanSound(SetSlot(g, s, live), [h EXCEPT ![s] = live])
  BY <1>5, <1>6, <1>8, SetSlotFlow, SetSlotSound
<1>10. RegSound(SetSlot(g, s, live), q)
  BY <1>3, <1>9 DEF RegSound
<1> QED
  BY <1>7, <1>9, <1>10 DEF Sound, live

LEMMA MoveSound ==
  ASSUME NEW f \in Flow, NEW d \in Reg, NEW s \in Slot,
         NEW o \in [Reg -> Int], NEW h \in [Slot -> BOOLEAN], Sound(f, o, h),
         NEW q, RegSound(Produce(f, d, f.cellLeases[s]), q)
  PROVE  /\ Move(f, d, s) \in Flow
         /\ Sound(Move(f, d, s), q, [h EXCEPT ![s] = FALSE])
<1> DEFINE parked == f.cellLeases[s]
           g == Produce(f, d, parked)
<1>1. parked \in SUBSET BOOLEAN
  BY DEF Flow
<1> HIDE DEF parked
<1>2. g \in Flow /\ g.cells = f.cells /\ g.cleanup = f.cleanup
  <2>1. {1} \in SUBSET Count
    BY DEF Count, MaxEdges
  <2> QED
    BY <1>1, <2>1 DEF Produce, Flow
<1>3. RegSound(g, q)
  BY DEF parked
<1>4. Move(f, d, s) = SetSlot(g, s, FALSE)
  BY DEF Move, parked
<1> HIDE DEF g
<1>7. SlotSound(g, h) /\ CleanSound(g, h)
  BY <1>2, SameSlots DEF Sound
<1>5. /\ SetSlot(g, s, FALSE) \in Flow
      /\ SetSlot(g, s, FALSE).values = g.values
      /\ SlotSound(SetSlot(g, s, FALSE), [h EXCEPT ![s] = FALSE])
      /\ CleanSound(SetSlot(g, s, FALSE), [h EXCEPT ![s] = FALSE])
  BY <1>2, <1>7, SetSlotFlow, SetSlotSound
<1>6. RegSound(SetSlot(g, s, FALSE), q)
  BY <1>3, <1>5 DEF RegSound
<1> QED
  BY <1>4, <1>5, <1>6 DEF Sound

LEMMA DropSlotSound ==
  ASSUME NEW f \in Flow, NEW s \in Slot, NEW o,
         NEW h \in [Slot -> BOOLEAN], Sound(f, o, h)
  PROVE  /\ DropSlot(f, s) \in Flow
         /\ Sound(DropSlot(f, s), o, [h EXCEPT ![s] = FALSE])
<1> DEFINE g == ResetProgress(f, s)
<1>1. /\ g \in Flow /\ g.values = f.values
      /\ g.cells = f.cells /\ g.cleanup = f.cleanup
  BY ResetProgressFlow
<1>2. SlotSound(g, h) /\ CleanSound(g, h)
  BY <1>1, SameSlots DEF Sound
<1>3. DropSlot(f, s) = SetSlot(g, s, FALSE)
  BY DEF DropSlot
<1> HIDE DEF g
<1>4. /\ SetSlot(g, s, FALSE) \in Flow
      /\ SetSlot(g, s, FALSE).values = f.values
      /\ SlotSound(SetSlot(g, s, FALSE), [h EXCEPT ![s] = FALSE])
      /\ CleanSound(SetSlot(g, s, FALSE), [h EXCEPT ![s] = FALSE])
  BY <1>1, <1>2, SetSlotFlow, SetSlotSound
<1>5. RegSound(SetSlot(g, s, FALSE), o)
  BY <1>4 DEF RegSound, Sound
<1> QED
  BY <1>3, <1>4, <1>5 DEF Sound

\* A transfer resets the progress of the slot and then acts as a move.
LEMMA TransferSound ==
  ASSUME NEW f \in Flow, NEW s \in Slot, NEW v \in Reg,
         NEW o \in [Reg -> Int], NEW h \in [Slot -> BOOLEAN], Sound(f, o, h),
         NEW q, q[v] = 1, \A r \in Reg \ (Zero \cup {v}) : q[r] = o[r]
  PROVE  /\ TransferSlot(f, s, v) \in Flow
         /\ Sound(TransferSlot(f, s, v), q, [h EXCEPT ![s] = FALSE])
<1> DEFINE g == ResetProgress(f, s)
<1>1. /\ g \in Flow /\ g.values = f.values
      /\ g.cells = f.cells /\ g.cleanup = f.cleanup
      /\ g.cellLeases = f.cellLeases
  BY ResetProgressFlow
<1>2. Sound(g, o, h)
  BY <1>1, SameSlots DEF Sound, RegSound
<1>3. f.cellLeases[s] \in SUBSET BOOLEAN
  BY DEF Flow
<1>4. TransferSlot(f, s, v) = Move(g, v, s)
  BY <1>1 DEF TransferSlot, Move
<1> HIDE DEF g
<1>5. RegSound(Produce(g, v, g.cellLeases[s]), q)
  BY <1>1, <1>2, <1>3, ProduceSound DEF Sound
<1> QED
  BY <1>1, <1>2, <1>4, <1>5, MoveSound

\* A take alone: drops, initializations and the return.
LEMMA TakeAllSound ==
  ASSUME NEW f \in Flow, NEW uses \in [Reg -> Nat], CanTake(f, uses),
         NEW o \in [Reg -> Int], NEW h, Sound(f, o, h),
         NEW q, \A r \in Reg \ Zero : q[r] = o[r] - uses[r]
  PROVE  Take(f, uses) \in Flow /\ Sound(Take(f, uses), q, h)
<1>1. /\ Take(f, uses) \in Flow
      /\ Take(f, uses).cells = f.cells /\ Take(f, uses).cleanup = f.cleanup
  BY TakeFlow
<1>2. RegSound(Take(f, uses), q)
  BY TakeSound DEF Sound
<1> QED
  BY <1>1, <1>2, SameSlots DEF Sound

\* A production alone: allocations and values out of a resource cell.
LEMMA ProduceAllSound ==
  ASSUME NEW f \in Flow, NEW d \in Reg, NEW lease \in SUBSET BOOLEAN,
         NEW o, NEW h, Sound(f, o, h),
         NEW q, q[d] = 1, \A r \in Reg \ (Zero \cup {d}) : q[r] = o[r]
  PROVE  Produce(f, d, lease) \in Flow /\ Sound(Produce(f, d, lease), q, h)
<1>1. /\ Produce(f, d, lease) \in Flow
      /\ Produce(f, d, lease).cells = f.cells
      /\ Produce(f, d, lease).cleanup = f.cleanup
  BY ProduceFlow
<1>2. RegSound(Produce(f, d, lease), q)
  BY ProduceSound DEF Sound
<1> QED
  BY <1>1, <1>2, SameSlots DEF Sound

\* The usual instruction: operands are consumed and a result is produced.
LEMMA ExchangeSound ==
  ASSUME NEW f \in Flow, NEW uses \in [Reg -> Nat], CanTake(f, uses),
         NEW d \in Reg, NEW lease \in SUBSET BOOLEAN,
         NEW o \in [Reg -> Int], NEW h, Sound(f, o, h),
         NEW q, q[d] = 1,
         \A r \in Reg \ (Zero \cup {d}) : q[r] = o[r] - uses[r]
  PROVE  /\ Produce(Take(f, uses), d, lease) \in Flow
         /\ Sound(Produce(Take(f, uses), d, lease), q, h)
<1> DEFINE p == [r \in Reg |-> o[r] - uses[r]]
<1>1. Take(f, uses) \in Flow /\ Sound(Take(f, uses), p, h)
  BY TakeAllSound
<1>2. \A r \in Reg \ (Zero \cup {d}) : q[r] = p[r]
  OBVIOUS
<1> HIDE DEF p
<1> QED
  BY <1>1, <1>2, ProduceAllSound

\* A swap makes the slot live; only the value analysis notices.
LEMMA SwapSound ==
  ASSUME NEW f \in Flow, NEW d \in Reg, NEW s \in Slot, NEW v \in Reg,
         CanTake(f, Once(v)), Disciplined => s \notin Owner,
         NEW o \in [Reg -> Int], NEW h \in [Slot -> BOOLEAN], Sound(f, o, h),
         NEW q, q[d] = 1,
         \A r \in Reg \ (Zero \cup {d}) : q[r] = o[r] - Once(v)[r]
  PROVE  /\ SwapValue(f, d, s, v) \in Flow
         /\ Sound(SwapValue(f, d, s, v), q, [h EXCEPT ![s] = TRUE])
<1> DEFINE g == Produce(Take(f, Once(v)), d, {FALSE})
<1>1. g \in Flow /\ Sound(g, q, h)
  BY OnceNat, ExchangeSound
<1>2. SwapValue(f, d, s, v) = IF s \in Owner
                              THEN [g EXCEPT !.cells[s] = {TRUE}] ELSE g
  BY DEF SwapValue
<1> HIDE DEF g
<1>3. CASE s \in Owner
  <2> DEFINE e == [g EXCEPT !.cells[s] = {TRUE}]
  <2>1. /\ e \in Flow /\ e.values = g.values
        /\ e.cells = [g.cells EXCEPT ![s] = {TRUE}]
    BY <1>1, <1>3 DEF Flow
  <2>2. g.cells \in [Owner -> SUBSET BOOLEAN]
    BY <1>1 DEF Flow
  <2> HIDE DEF e
  <2>3. RegSound(e, q)
    BY <1>1, <2>1 DEF Sound, RegSound
  <2>4. SlotSound(e, [h EXCEPT ![s] = TRUE])
    BY <1>1, <2>1, <2>2, SlotAssumption DEF Sound, SlotSound
  <2>5. CleanSound(e, [h EXCEPT ![s] = TRUE])
    BY <1>3 DEF CleanSound
  <2> QED
    BY <1>2, <1>3, <2>1, <2>3, <2>4, <2>5 DEF Sound, e
<1>4. CASE s \notin Owner
  <2> DEFINE k == [h EXCEPT ![s] = TRUE]
  <2>1. \A c \in Owner : k[c] = h[c]
    BY <1>4, SlotAssumption
  <2> HIDE DEF k
  <2>2. Sound(g, q, k)
    BY <1>1, <2>1 DEF Sound, SlotSound, CleanSound
  <2>3. SwapValue(f, d, s, v) = g
    BY <1>2, <1>4
  <2> QED
    BY <1>1, <2>2, <2>3 DEF k
<1> QED
  BY <1>3, <1>4

\* A value read from a slot is dropped after it was moved out of the slot.
LEMMA DropValueSound ==
  ASSUME NEW f \in Flow, NEW v \in Reg, CanTake(f, Once(v)),
         NEW o \in [Reg -> Int], NEW h \in [Slot -> BOOLEAN], Sound(f, o, h),
         Disciplined /\ Source[v] \in Owner => ~h[Source[v]],
         NEW q, \A r \in Reg \ Zero : q[r] = o[r] - Once(v)[r]
  PROVE  DropValue(f, v) \in Flow /\ Sound(DropValue(f, v), q, h)
<1> DEFINE g == Take(f, Once(v))
           s == Source[v]
<1>1. g \in Flow /\ Sound(g, q, h)
  BY OnceNat, TakeAllSound
<1>2. DropValue(f, v) = IF s \in Owner
                        THEN [g EXCEPT !.cleanup[s] = {FALSE}] ELSE g
  BY DEF DropValue
<1>3. s \in Owner /\ Disciplined => h[s] = FALSE
  BY SlotAssumption
<1> HIDE DEF g, s
<1>4. CASE s \in Owner
  <2> DEFINE e == [g EXCEPT !.cleanup[s] = {FALSE}]
  <2>1. /\ e \in Flow /\ e.values = g.values /\ e.cells = g.cells
        /\ e.cleanup = [g.cleanup EXCEPT ![s] = {FALSE}]
    BY <1>1, <1>4 DEF Flow
  <2>2. g.cleanup \in [Owner -> SUBSET BOOLEAN]
    BY <1>1 DEF Flow
  <2> HIDE DEF e
  <2>3. RegSound(e, q) /\ SlotSound(e, h)
    BY <1>1, <2>1 DEF Sound, RegSound, SlotSound
  <2>4. CleanSound(e, h)
    <3>1. SUFFICES ASSUME Disciplined, NEW c \in Owner
                   PROVE  h[c] \in e.cleanup[c]
      BY DEF CleanSound
    <3>2. CASE c = s
      <4>1. e.cleanup[c] = {FALSE}
        BY <1>4, <2>1, <2>2, <3>2
      <4>2. h[c] = FALSE
        BY <1>3, <3>1, <3>2
      <4> QED
        BY <4>1, <4>2, Zenon
    <3>3. CASE c # s
      <4>1. e.cleanup[c] = g.cleanup[c]
        BY <2>1, <2>2, <3>3
      <4> QED
        BY <1>1, <3>1, <4>1 DEF Sound, CleanSound
    <3> QED
      BY <3>2, <3>3
  <2>5. DropValue(f, v) = e
    BY <1>2, <1>4 DEF e
  <2>6. Sound(e, q, h)
    BY <2>3, <2>4 DEF Sound
  <2> QED
    BY <2>1, <2>5, <2>6
<1>5. CASE s \notin Owner
  BY <1>1, <1>2, <1>5
<1> QED
  BY <1>4, <1>5

LEMMA AcquireSound ==
  ASSUME NEW f \in Flow, NEW v \in Reg, NEW kind, AcquireOk(f, v, kind),
         NEW o \in [Reg -> Int], NEW h, Sound(f, o, h),
         NEW q, q = IF v \in Zero THEN o ELSE [o EXCEPT ![v] = @ + 1]
  PROVE  Acquire(f, v, kind) \in Flow /\ Sound(Acquire(f, v, kind), q, h)
<1> DEFINE more == IF v \in Zero THEN f.values[v] ELSE {n + 1 : n \in f.values[v]}
           lease == {kind = "Evaluation"}
           g == Acquire(f, v, kind)
<1>1. f.values \in [Reg -> SUBSET Count] /\ f.leases \in [Reg -> SUBSET BOOLEAN]
  BY DEF Flow
<1>2. more \in SUBSET Count
  <2>1. CASE v \in Zero
    BY <1>1, <2>1
  <2>2. CASE v \notin Zero
    <3>1. \A n \in f.values[v] : n + 1 \in Count
      BY <1>1, <2>2 DEF AcquireOk, Count, MaxEdges
    <3> QED
      BY <2>2, <3>1
  <2> QED
    BY <2>1, <2>2
<1>3. lease \in SUBSET BOOLEAN
  OBVIOUS
<1>4. g = [f EXCEPT !.leases[v] = lease, !.values[v] = more]
  BY <1>1 DEF Acquire, Flow
<1> HIDE DEF lease, g
<1>5. /\ g \in Flow /\ g.values = [f.values EXCEPT ![v] = more]
      /\ g.cells = f.cells /\ g.cleanup = f.cleanup
  <2> HIDE DEF more
  <2> QED
    BY <1>2, <1>3, <1>4 DEF Flow
<1>6. RegSound(g, q)
  <2>1. SUFFICES ASSUME NEW r \in Reg \ Zero PROVE q[r] \in g.values[r]
    BY DEF RegSound
  <2>2. o[r] \in f.values[r]
    BY DEF Sound, RegSound
  <2>3. CASE r # v
    BY <1>1, <1>5, <2>2, <2>3
  <2>4. CASE r = v
    BY <1>1, <1>5, <2>2, <2>4
  <2> QED
    BY <2>3, <2>4
<1> QED
  BY <1>5, <1>6, SameSlots DEF Sound, g

LEMMA ConstructionSound ==
  ASSUME NEW f \in Flow, NEW s, NEW o, NEW h, Sound(f, o, h)
  PROVE  Construction(f, s) \in Flow /\ Sound(Construction(f, s), o, h)
<1>1. /\ Construction(f, s) \in Flow
      /\ Construction(f, s).values = f.values
      /\ Construction(f, s).cells = f.cells
      /\ Construction(f, s).cleanup = f.cleanup
  BY DEF Construction, Flow
<1> QED
  BY <1>1 DEF Sound, RegSound, SlotSound, CleanSound

LEMMA InitializeFieldSound ==
  ASSUME NEW f \in Flow, NEW s \in Shell, NEW i, NEW v \in Reg,
         CanTake(f, Once(v)),
         NEW o \in [Reg -> Int], NEW h, Sound(f, o, h),
         NEW q, \A r \in Reg \ Zero : q[r] = o[r] - Once(v)[r]
  PROVE  /\ InitializeField(f, s, i, v) \in Flow
         /\ Sound(InitializeField(f, s, i, v), q, h)
<1> DEFINE g == Take(f, Once(v))
           e == InitializeField(f, s, i, v)
<1>1. g \in Flow /\ Sound(g, q, h)
  BY OnceNat, TakeAllSound
<1>2. e = IF i \in Field
          THEN [g EXCEPT !.progress[<<s, i>>] = {v \notin Zero}] ELSE g
  BY DEF InitializeField
<1>3. {v \notin Zero} \in SUBSET BOOLEAN
  OBVIOUS
<1> HIDE DEF g, e
<1>4. /\ e \in Flow /\ e.values = g.values
      /\ e.cells = g.cells /\ e.cleanup = g.cleanup
  BY <1>1, <1>2, <1>3 DEF Flow
<1> QED
  BY <1>1, <1>4 DEF Sound, RegSound, SlotSound, CleanSound, e

\* The meeting of paths only adds alternatives.
LEMMA WeakenSound ==
  ASSUME flow \in Flow, NEW part \in DOMAIN flow, Weaken(part),
         NEW o, NEW h, Sound(flow, o, h)
  PROVE  flow' \in Flow /\ Sound(flow', o, h)
<1>1. PICK x \in DOMAIN flow[part], a \in IF part = "values" THEN Count ELSE BOOLEAN :
        flow' = [flow EXCEPT ![part][x] = @ \cup {a}]
  BY DEF Weaken
<1>2. part \in {"values", "leases", "cells", "cellLeases", "progress", "cleanup"}
  BY DEF Flow
<1>3. CASE part = "values"
  BY <1>1, <1>3 DEF Flow, Sound, RegSound, SlotSound, CleanSound
<1>4. CASE part = "leases"
  BY <1>1, <1>4 DEF Flow, Sound, RegSound, SlotSound, CleanSound
<1>5. CASE part = "cells"
  BY <1>1, <1>5 DEF Flow, Sound, RegSound, SlotSound, CleanSound
<1>6. CASE part = "cellLeases"
  BY <1>1, <1>6 DEF Flow, Sound, RegSound, SlotSound, CleanSound
<1>7. CASE part = "progress"
  BY <1>1, <1>7 DEF Flow, Sound, RegSound, SlotSound, CleanSound
<1>8. CASE part = "cleanup"
  BY <1>1, <1>8 DEF Flow, Sound, RegSound, SlotSound, CleanSound
<1> QED
  BY <1>2, <1>3, <1>4, <1>5, <1>6, <1>7, <1>8

-----------------------------------------------------------------------------
(* The inductive invariant.  TypeOK and LedgerSound need each other: an    *)
(* instruction is typed because its operands are owed, and the ledger      *)
(* follows the flow because the flow is typed.                             *)

Inductive == TypeOK /\ LedgerSound

\* TypeOK, in the parts that an instruction changes together.
LedgerOK ==
  /\ owed \in [Reg -> Int] /\ held \in [Slot -> BOOLEAN]
  /\ lent \in [Reg -> BOOLEAN] /\ lentCell \in [Slot -> BOOLEAN]
PlacesOK ==
  val \in [Reg -> Handle \cup {Undef}] /\ cell \in [Slot -> Handle \cup {Undef}]
HeapOK ==
  /\ child \in [Obj -> [Field -> Handle]]
  /\ rc \in [Obj -> Nat] /\ born \subseteq Obj
  /\ pending \in Seq(Handle)
  /\ mode \in {"running", "returned", "trapped"} /\ result \in Handle
  /\ joins \in 0..MaxJoins

LEMMA Parts ==
  Inductive <=> /\ flow \in Flow /\ Sound(flow, owed, held)
                /\ LedgerOK /\ PlacesOK /\ HeapOK
BY DEF Inductive, TypeOK, LedgerSound, Sound, RegSound, SlotSound, CleanSound,
       LedgerOK, PlacesOK, HeapOK

LEMMA PartsNext ==
  Inductive' <=> /\ flow' \in Flow /\ Sound(flow', owed', held')
                 /\ LedgerOK' /\ PlacesOK' /\ HeapOK'
BY DEF Inductive, TypeOK, LedgerSound, Sound, RegSound, SlotSound, CleanSound,
       LedgerOK, PlacesOK, HeapOK

\* An instruction that leaves the heap alone keeps its type.
LEMMA SameHeap == HeapOK /\ UNCHANGED <<heap, joins>> => HeapOK'
BY DEF HeapOK, heap

\* A new object whose fields are handles keeps the heap's type.
LEMMA NewObjectHeap ==
  ASSUME HeapOK, NEW o, NEW fields \in [Field -> Handle],
         NewObject(o, fields), UNCHANGED joins
  PROVE  HeapOK' /\ o \in Handle
BY DEF HeapOK, NewObject, Fresh, Handle

\* A register or a stack cell is overwritten with a handle.
LEMMA PlaceWritten ==
  ASSUME PlacesOK, NEW o \in Handle,
         \/ UNCHANGED val
         \/ \E d \in Reg : val' = [val EXCEPT ![d] = o],
         \/ UNCHANGED cell
         \/ \E s \in Slot : cell' = [cell EXCEPT ![s] = o]
  PROVE  PlacesOK'
BY DEF PlacesOK

\* The ledger of slots.
LEMMA SlotLedger ==
  ASSUME LedgerOK, NEW s \in Slot, NEW live \in BOOLEAN, NEW lease \in BOOLEAN,
         Hold(s, live), Lend(s, lease)
  PROVE  /\ held' \in [Slot -> BOOLEAN] /\ lentCell' \in [Slot -> BOOLEAN]
         /\ held' = [held EXCEPT ![s] = live]
BY DEF LedgerOK, Hold, Lend

\* Gain and Lose as equations on the registers that can carry an edge.
LEMMA GainLedger ==
  ASSUME LedgerOK, NEW uses \in [Reg -> Nat], NEW d \in Reg,
         NEW lease \in BOOLEAN, Gain(d, uses, lease)
  PROVE  /\ owed' \in [Reg -> Int] /\ lent' \in [Reg -> BOOLEAN]
         /\ owed'[d] = 1
         /\ \A r \in Reg \ (Zero \cup {d}) : owed'[r] = owed[r] - uses[r]
<1>1. owed' \in [Reg -> Int] /\ lent' \in [Reg -> BOOLEAN]
  BY GainTyped DEF LedgerOK
<1>2. /\ Pay(uses) \in [Reg -> Int]
      /\ \A r \in Reg \ Zero : Pay(uses)[r] = owed[r] - uses[r]
  BY PaySound DEF LedgerOK
<1>3. owed' = [Pay(uses) EXCEPT ![d] = 1]
  BY DEF Gain
<1> QED
  BY <1>1, <1>2, <1>3

LEMMA LoseLedger ==
  ASSUME LedgerOK, NEW uses \in [Reg -> Nat], Lose(uses)
  PROVE  /\ owed' \in [Reg -> Int] /\ lent' \in [Reg -> BOOLEAN]
         /\ \A r \in Reg \ Zero : owed'[r] = owed[r] - uses[r]
<1>1. owed' \in [Reg -> Int] /\ lent' \in [Reg -> BOOLEAN]
  BY LoseTyped DEF LedgerOK
<1> QED
  BY <1>1, PaySound DEF Lose, LedgerOK

LEMMA NoUseNat == NoUse \in [Reg -> Nat] /\ \A r \in Reg : NoUse[r] = 0
BY DEF NoUse

LEMMA InitInductive == Init => Inductive
<1>1. SUFFICES ASSUME Init PROVE Inductive
  OBVIOUS
<1>2. flow = EntryFlow(Params)
  BY <1>1 DEF Init
<1>3. flow \in Flow
  BY <1>2 DEF EntryFlow, Flow, Count, MaxEdges
<1>4. Sound(flow, owed, held)
  <2>1. RegSound(flow, owed)
    BY <1>1, <1>2 DEF Init, EntryFlow, RegSound
  <2>2. \A s \in Owner : held[s] = FALSE
    BY <1>1, SlotAssumption DEF Init
  <2>3. \A s \in Owner : flow.cells[s] = {FALSE} /\ flow.cleanup[s] = {FALSE}
    BY <1>2 DEF EntryFlow
  <2>4. SlotSound(flow, held) /\ CleanSound(flow, held)
    BY <2>2, <2>3, Zenon DEF SlotSound, CleanSound
  <2> QED
    BY <2>1, <2>4 DEF Sound
<1>5. LedgerOK
  BY <1>1 DEF Init, LedgerOK
<1>6. PICK p \in [Params -> Handle] :
        /\ val = [r \in Reg |-> IF r \in Zero THEN Null
                                ELSE IF r \in Params THEN p[r] ELSE Undef]
        /\ born = {p[r] : r \in Params} \ {Null}
  BY <1>1 DEF Init
<1>7. PlacesOK
  BY <1>1, <1>6 DEF Init, PlacesOK, Handle
<1>8. born \subseteq Obj
  BY <1>6 DEF Handle
<1>9. HeapOK
  BY <1>1, <1>8, PathAssumption DEF Init, HeapOK, Handle
<1> QED
  BY <1>3, <1>4, <1>5, <1>7, <1>9, Parts

-----------------------------------------------------------------------------
(* One lemma per instruction.                                              *)

LEMMA AllocaStep ==
  ASSUME Inductive, NEW s \in Slot, DoAlloca(s)
  PROVE  Inductive'
<1>1. flow \in Flow /\ Sound(flow, owed, held) /\ LedgerOK /\ PlacesOK /\ HeapOK
  BY Parts
<1>2. s \in Owner /\ held[s] = FALSE
  BY <1>1 DEF DoAlloca, AllocaOk, Sound, SlotSound, LedgerOK
<1>3. held = [held EXCEPT ![s] = FALSE]
  BY <1>1, <1>2 DEF LedgerOK
<1>4. /\ flow' \in Flow /\ flow'.values = flow.values
      /\ SlotSound(flow', held) /\ CleanSound(flow', held)
  <2>1. flow' = SetSlot(flow, s, FALSE) /\ FALSE \in BOOLEAN
    BY DEF DoAlloca, Alloca
  <2>2. /\ SlotSound(flow', [held EXCEPT ![s] = FALSE])
        /\ CleanSound(flow', [held EXCEPT ![s] = FALSE])
    BY <1>1, <2>1, SetSlotSound DEF Sound, LedgerOK
  <2> QED
    BY <1>1, <1>3, <2>1, <2>2, SetSlotFlow
<1>5. Sound(flow', owed, held)
  BY <1>1, <1>4 DEF Sound, RegSound
<1> QED
  BY <1>1, <1>4, <1>5, PartsNext
     DEF DoAlloca, ledger, leases, heap, LedgerOK, PlacesOK, HeapOK

LEMMA AllocStep ==
  ASSUME Inductive, NEW d \in Reg, DoAlloc(d)
  PROVE  Inductive'
<1>1. flow \in Flow /\ Sound(flow, owed, held) /\ LedgerOK /\ PlacesOK /\ HeapOK
  BY Parts
<1>2. /\ owed' \in [Reg -> Int] /\ lent' \in [Reg -> BOOLEAN] /\ owed'[d] = 1
      /\ \A r \in Reg \ (Zero \cup {d}) : owed'[r] = owed[r]
  <2>1. Gain(d, NoUse, FALSE) /\ FALSE \in BOOLEAN
    BY DEF DoAlloc
  <2>2. /\ owed' \in [Reg -> Int] /\ lent' \in [Reg -> BOOLEAN] /\ owed'[d] = 1
        /\ \A r \in Reg \ (Zero \cup {d}) : owed'[r] = owed[r] - NoUse[r]
    BY <1>1, <2>1, NoUseNat, GainLedger, Zenon
  <2> QED
    BY <1>1, <2>2, NoUseNat DEF LedgerOK
<1>3. flow' \in Flow /\ Sound(flow', owed', held)
  BY <1>1, <1>2, ProduceAllSound DEF DoAlloc, Alloc
<1>4. PICK o \in Fresh : /\ NewObject(o, [i \in Field |-> Null])
                         /\ val' = [val EXCEPT ![d] = o]
  BY DEF DoAlloc
<1>5. [i \in Field |-> Null] \in [Field -> Handle] /\ UNCHANGED joins
  BY DEF Handle, DoAlloc
<1>6. HeapOK' /\ o \in Handle
  BY <1>1, <1>4, <1>5, NewObjectHeap
<1>7. PlacesOK'
  BY <1>1, <1>4, <1>6, PlaceWritten DEF DoAlloc
<1> QED
  BY <1>1, <1>2, <1>3, <1>6, <1>7, PartsNext DEF DoAlloc, LedgerOK

LEMMA StoreOwnedStep ==
  ASSUME Inductive, NEW s \in Slot, NEW v \in Reg, DoStoreOwned(s, v)
  PROVE  Inductive'
<1>1. flow \in Flow /\ Sound(flow, owed, held) /\ LedgerOK /\ PlacesOK /\ HeapOK
  BY Parts
<1>2. /\ owed' \in [Reg -> Int] /\ lent' \in [Reg -> BOOLEAN]
      /\ \A r \in Reg \ Zero : owed'[r] = owed[r] - Once(v)[r]
  BY <1>1, OnceNat, LoseLedger DEF DoStoreOwned
<1>3. lent[v] \in BOOLEAN /\ (v \notin Zero) \in BOOLEAN
  BY <1>1 DEF LedgerOK
<1>4. /\ held' \in [Slot -> BOOLEAN] /\ lentCell' \in [Slot -> BOOLEAN]
      /\ held' = [held EXCEPT ![s] = v \notin Zero]
  BY <1>1, <1>3, SlotLedger DEF DoStoreOwned
<1>5. StoreOwnedOk(flow, s, v) /\ flow' = StoreOwned(flow, s, v)
  BY DEF DoStoreOwned
<1>6. /\ flow' \in Flow
      /\ Sound(flow', owed', [held EXCEPT ![s] = v \notin Zero])
  BY <1>1, <1>2, <1>5, StoreOwnedSound DEF LedgerOK
<1>7. PlacesOK' /\ HeapOK'
  BY <1>1, PlaceWritten, SameHeap DEF DoStoreOwned, PlacesOK
<1> QED
  BY <1>2, <1>4, <1>6, <1>7, PartsNext DEF LedgerOK

LEMMA MoveStep ==
  ASSUME Inductive, NEW d \in Reg, NEW s \in Slot, DoMove(d, s)
  PROVE  Inductive'
<1>1. flow \in Flow /\ Sound(flow, owed, held) /\ LedgerOK /\ PlacesOK /\ HeapOK
  BY Parts
<1>2. lentCell[s] \in BOOLEAN /\ flow.cellLeases[s] \in SUBSET BOOLEAN
  BY <1>1 DEF LedgerOK, Flow
<1>3. /\ owed' \in [Reg -> Int] /\ lent' \in [Reg -> BOOLEAN] /\ owed'[d] = 1
      /\ \A r \in Reg \ (Zero \cup {d}) : owed'[r] = owed[r]
  BY <1>1, <1>2, NoUseNat, GainLedger DEF DoMove, LedgerOK
<1>4. /\ held' \in [Slot -> BOOLEAN] /\ lentCell' \in [Slot -> BOOLEAN]
      /\ held' = [held EXCEPT ![s] = FALSE]
  BY <1>1, SlotLedger DEF DoMove
<1>5. RegSound(Produce(flow, d, flow.cellLeases[s]), owed')
  BY <1>1, <1>2, <1>3, ProduceSound DEF Sound
<1>6. flow' \in Flow /\ Sound(flow', owed', [held EXCEPT ![s] = FALSE])
  BY <1>1, <1>5, MoveSound DEF DoMove, LedgerOK
<1>7. cell[s] \in Handle /\ Null \in Handle
  BY <1>1 DEF DoMove, Initialized, PlacesOK, Handle
<1>8. PlacesOK' /\ HeapOK'
  BY <1>1, <1>7, SameHeap DEF DoMove, PlacesOK
<1> QED
  BY <1>3, <1>4, <1>6, <1>8, PartsNext DEF LedgerOK

\* Registers written without an edge.
LEMMA LookStep ==
  ASSUME Inductive, NEW d \in Reg, NEW o \in Handle, val' = [val EXCEPT ![d] = o],
         UNCHANGED <<flow, ledger, cell, heap, joins>>
  PROVE  Inductive'
<1>1. flow \in Flow /\ Sound(flow, owed, held) /\ LedgerOK /\ PlacesOK /\ HeapOK
  BY Parts
<1>2. PlacesOK' /\ HeapOK'
  BY <1>1, SameHeap DEF PlacesOK
<1> QED
  BY <1>1, <1>2, PartsNext DEF ledger, leases, LedgerOK

LEMMA ObserveStep ==
  ASSUME Inductive, NEW d \in Reg, NEW s \in Slot, DoObserve(d, s)
  PROVE  Inductive'
<1>1. cell[s] \in Handle
  BY Parts DEF DoObserve, Initialized, PlacesOK
<1> QED
  BY <1>1, LookStep DEF DoObserve

LEMMA BorrowValueStep ==
  ASSUME Inductive, NEW d \in Reg, NEW v \in Reg, DoBorrowValue(d, v)
  PROVE  Inductive'
<1>1. val[v] \in Handle
  BY Parts DEF DoBorrowValue, PlacesOK
<1> QED
  BY <1>1, LookStep DEF DoBorrowValue

LEMMA TransferSlotStep ==
  ASSUME Inductive, NEW s \in Slot, NEW v \in Reg, DoTransferSlot(s, v)
  PROVE  Inductive'
<1>1. flow \in Flow /\ Sound(flow, owed, held) /\ LedgerOK /\ PlacesOK /\ HeapOK
  BY Parts
<1>2. lentCell[s] \in BOOLEAN
  BY <1>1 DEF LedgerOK
<1>3. /\ owed' \in [Reg -> Int] /\ lent' \in [Reg -> BOOLEAN] /\ owed'[v] = 1
      /\ \A r \in Reg \ (Zero \cup {v}) : owed'[r] = owed[r]
  BY <1>1, <1>2, NoUseNat, GainLedger DEF DoTransferSlot, LedgerOK
<1>4. /\ held' \in [Slot -> BOOLEAN] /\ lentCell' \in [Slot -> BOOLEAN]
      /\ held' = [held EXCEPT ![s] = FALSE]
  BY <1>1, SlotLedger DEF DoTransferSlot
<1>5. flow' \in Flow /\ Sound(flow', owed', [held EXCEPT ![s] = FALSE])
  BY <1>1, <1>3, TransferSound DEF DoTransferSlot, LedgerOK
<1>6. PlacesOK' /\ HeapOK'
  BY <1>1, SameHeap DEF DoTransferSlot, PlacesOK, Handle
<1> QED
  BY <1>3, <1>4, <1>5, <1>6, PartsNext DEF LedgerOK

LEMMA DropSlotStep ==
  ASSUME Inductive, NEW s \in Slot, DoDropSlot(s)
  PROVE  Inductive'
<1>1. flow \in Flow /\ Sound(flow, owed, held) /\ LedgerOK /\ PlacesOK /\ HeapOK
  BY Parts
<1>2. /\ held' \in [Slot -> BOOLEAN] /\ lentCell' \in [Slot -> BOOLEAN]
      /\ held' = [held EXCEPT ![s] = FALSE]
  BY <1>1, SlotLedger DEF DoDropSlot
<1>3. flow' \in Flow /\ Sound(flow', owed, [held EXCEPT ![s] = FALSE])
  BY <1>1, DropSlotSound DEF DoDropSlot, LedgerOK
<1>4. cell[s] \in Handle /\ Null \in Handle
  BY <1>1 DEF DoDropSlot, Initialized, PlacesOK, Handle
<1>5. PlacesOK'
  BY <1>1, <1>4 DEF DoDropSlot, PlacesOK
<1>6. HeapOK'
  BY <1>1, <1>4 DEF DoDropSlot, HeapOK
<1> QED
  BY <1>1, <1>2, <1>3, <1>5, <1>6, PartsNext DEF DoDropSlot, LedgerOK

LEMMA SwapValueStep ==
  ASSUME Inductive, NEW d \in Reg, NEW s \in Slot, NEW v \in Reg,
         DoSwapValue(d, s, v)
  PROVE  Inductive'
<1>1. flow \in Flow /\ Sound(flow, owed, held) /\ LedgerOK /\ PlacesOK /\ HeapOK
  BY Parts
<1>2. lentCell[s] \in BOOLEAN /\ lent[v] \in BOOLEAN
  BY <1>1 DEF LedgerOK
<1>3. /\ owed' \in [Reg -> Int] /\ lent' \in [Reg -> BOOLEAN] /\ owed'[d] = 1
      /\ \A r \in Reg \ (Zero \cup {d}) : owed'[r] = owed[r] - Once(v)[r]
  BY <1>1, <1>2, OnceNat, GainLedger DEF DoSwapValue
<1>4. /\ held' \in [Slot -> BOOLEAN] /\ lentCell' \in [Slot -> BOOLEAN]
      /\ held' = [held EXCEPT ![s] = TRUE]
  BY <1>1, <1>2, SlotLedger DEF DoSwapValue
<1>5. CanTake(flow, Once(v)) /\ (Disciplined => s \notin Owner)
  BY DEF DoSwapValue, SwapValueOk, BuilderSwaps
<1>6. flow' \in Flow /\ Sound(flow', owed', [held EXCEPT ![s] = TRUE])
  BY <1>1, <1>3, <1>5, SwapSound DEF DoSwapValue, LedgerOK
<1>7. cell[s] \in Handle
  BY <1>1 DEF DoSwapValue, Initialized, PlacesOK
<1>8. PlacesOK' /\ HeapOK'
  BY <1>1, <1>7, SameHeap DEF DoSwapValue, PlacesOK
<1> QED
  BY <1>3, <1>4, <1>6, <1>8, PartsNext DEF LedgerOK

LEMMA OwnedCastStep ==
  ASSUME Inductive, NEW d \in Reg, NEW v \in Reg, DoOwnedCast(d, v)
  PROVE  Inductive'
<1>1. flow \in Flow /\ Sound(flow, owed, held) /\ LedgerOK /\ PlacesOK /\ HeapOK
  BY Parts
<1>2. lent[v] \in BOOLEAN /\ flow.leases[v] \in SUBSET BOOLEAN
  BY <1>1 DEF LedgerOK, Flow
<1>3. /\ owed' \in [Reg -> Int] /\ lent' \in [Reg -> BOOLEAN] /\ owed'[d] = 1
      /\ \A r \in Reg \ (Zero \cup {d}) : owed'[r] = owed[r] - Once(v)[r]
  BY <1>1, <1>2, OnceNat, GainLedger DEF DoOwnedCast
<1>4. CanTake(flow, Once(v))
  BY DEF DoOwnedCast, OwnedCastOk
<1>5. flow' \in Flow /\ Sound(flow', owed', held)
  BY <1>1, <1>2, <1>3, <1>4, OnceNat, ExchangeSound
     DEF DoOwnedCast, OwnedCast, LedgerOK
<1>6. PlacesOK' /\ HeapOK'
  BY <1>1, SameHeap DEF DoOwnedCast, PlacesOK
<1> QED
  BY <1>1, <1>3, <1>5, <1>6, PartsNext DEF DoOwnedCast, LedgerOK

LEMMA DropValueStep ==
  ASSUME Inductive, NEW v \in Reg, NEW recipe, DoDropValue(v, recipe)
  PROVE  Inductive'
<1>1. flow \in Flow /\ Sound(flow, owed, held) /\ LedgerOK /\ PlacesOK /\ HeapOK
  BY Parts
<1>2. /\ owed' \in [Reg -> Int] /\ lent' \in [Reg -> BOOLEAN]
      /\ \A r \in Reg \ Zero : owed'[r] = owed[r] - Once(v)[r]
  BY <1>1, OnceNat, LoseLedger DEF DoDropValue
<1>3. /\ CanTake(flow, Once(v))
      /\ Disciplined /\ Source[v] \in Owner => ~held[Source[v]]
  BY DEF DoDropValue, DropValueOk, BuilderDrops
<1>4. flow' \in Flow /\ Sound(flow', owed', held)
  BY <1>1, <1>2, <1>3, DropValueSound DEF DoDropValue, LedgerOK
<1>5. val[v] \in Handle
  BY <1>1 DEF DoDropValue, PlacesOK
<1>6. PlacesOK' /\ HeapOK'
  BY <1>1, <1>5 DEF DoDropValue, PlacesOK, HeapOK
<1> QED
  BY <1>1, <1>2, <1>4, <1>6, PartsNext DEF DoDropValue, LedgerOK

LEMMA AcquireStep ==
  ASSUME Inductive, NEW v \in Reg, NEW kind, DoAcquire(v, kind)
  PROVE  Inductive'
<1>1. flow \in Flow /\ Sound(flow, owed, held) /\ LedgerOK /\ PlacesOK /\ HeapOK
  BY Parts
<1>2. owed' = IF v \in Zero THEN owed ELSE [owed EXCEPT ![v] = @ + 1]
  BY DEF DoAcquire
<1>3. owed' \in [Reg -> Int]
  BY <1>1, <1>2 DEF LedgerOK
<1>4. lent' \in [Reg -> BOOLEAN]
  BY <1>1 DEF DoAcquire, LedgerOK
<1>5. AcquireOk(flow, v, kind) /\ flow' = Acquire(flow, v, kind)
  BY DEF DoAcquire
<1>6. flow' \in Flow /\ Sound(flow', owed', held)
  BY <1>1, <1>2, <1>5, AcquireSound DEF LedgerOK
<1>7. val[v] \in Handle
  BY <1>1 DEF DoAcquire, PlacesOK
<1>8. rc' \in [Obj -> Nat] /\ mode' \in {"running", "returned", "trapped"}
  BY <1>1, <1>7 DEF DoAcquire, Retain, HeapOK, Handle
<1>9. PlacesOK' /\ HeapOK'
  BY <1>1, <1>8 DEF DoAcquire, PlacesOK, HeapOK
<1> QED
  BY <1>1, <1>3, <1>4, <1>6, <1>9, PartsNext DEF DoAcquire, LedgerOK

LEMMA WrapStep ==
  ASSUME Inductive, NEW d \in Reg, NEW v \in Reg, NEW kind, DoWrap(d, v, kind)
  PROVE  Inductive'
<1>1. flow \in Flow /\ Sound(flow, owed, held) /\ LedgerOK /\ PlacesOK /\ HeapOK
  BY Parts
<1>2. Gain(d, Once(v), FALSE) /\ FALSE \in BOOLEAN
  BY DEF DoWrap
<1>3. /\ owed' \in [Reg -> Int] /\ lent' \in [Reg -> BOOLEAN] /\ owed'[d] = 1
      /\ \A r \in Reg \ (Zero \cup {d}) : owed'[r] = owed[r] - Once(v)[r]
  BY <1>1, <1>2, OnceNat, GainLedger, Zenon
<1>4. CanTake(flow, Once(v)) /\ {FALSE} \in SUBSET BOOLEAN
  BY DEF DoWrap, WrapOk
<1>5. flow' \in Flow /\ Sound(flow', owed', held)
  BY <1>1, <1>3, <1>4, OnceNat, ExchangeSound DEF DoWrap, Wrap, LedgerOK
<1> DEFINE fields == [j \in Field |-> IF j = 0 THEN val[v] ELSE Null]
<1>6. PICK o \in Fresh : NewObject(o, fields) /\ val' = [val EXCEPT ![d] = o]
  BY DEF DoWrap
<1>7. fields \in [Field -> Handle] /\ UNCHANGED joins
  BY <1>1 DEF DoWrap, PlacesOK, Handle
<1> HIDE DEF fields
<1>8. HeapOK' /\ o \in Handle
  BY <1>1, <1>6, <1>7, NewObjectHeap
<1>9. PlacesOK'
  BY <1>1, <1>6, <1>8 DEF DoWrap, PlacesOK
<1> QED
  BY <1>1, <1>3, <1>5, <1>8, <1>9, PartsNext DEF DoWrap, LedgerOK

LEMMA CallStep ==
  ASSUME Inductive, NEW d \in Reg, NEW n \in 0..MaxArgs,
         NEW args \in [1..n -> Reg], DoCall(args, d)
  PROVE  Inductive'
<1>1. flow \in Flow /\ Sound(flow, owed, held) /\ LedgerOK /\ PlacesOK /\ HeapOK
  BY Parts
<1>2. n \in Nat
  BY PathAssumption
<1>3. Uses(args) \in [Reg -> Nat]
  BY <1>2, UsesNat
<1>4. Gain(d, Uses(args), FALSE) /\ FALSE \in BOOLEAN
  BY DEF DoCall
<1>5. /\ owed' \in [Reg -> Int] /\ lent' \in [Reg -> BOOLEAN] /\ owed'[d] = 1
      /\ \A r \in Reg \ (Zero \cup {d}) : owed'[r] = owed[r] - Uses(args)[r]
  BY <1>1, <1>3, <1>4, GainLedger, Zenon
<1>6. /\ CanTake(flow, Uses(args)) /\ {FALSE} \in SUBSET BOOLEAN
      /\ flow' = Produce(Take(flow, Uses(args)), d, {FALSE})
  BY DEF DoCall, CallOk, Call
<1>7. flow' \in Flow /\ Sound(flow', owed', held)
  BY <1>1, <1>3, <1>5, <1>6, ExchangeSound DEF LedgerOK
<1>8. \A k \in 1..n : val[args[k]] \in Handle
  BY <1>1 DEF DoCall, PlacesOK
<1>9. pending' \in Seq(Handle)
  BY <1>2, <1>8 DEF DoCall
<1>10. PICK o \in Fresh \cup {Null} :
         /\ val' = [val EXCEPT ![d] = o]
         /\ born' = born \cup ({o} \ {Null})
         /\ rc' = [p \in Obj |-> IF p = o THEN 1 ELSE rc[p]]
  BY DEF DoCall
<1>11. PlacesOK'
  BY <1>1, <1>10 DEF DoCall, PlacesOK, Fresh, Handle
<1>12. HeapOK'
  BY <1>1, <1>9, <1>10 DEF DoCall, HeapOK, Fresh
<1> QED
  BY <1>1, <1>5, <1>7, <1>11, <1>12, PartsNext DEF DoCall, LedgerOK

LEMMA ConstructionStep ==
  ASSUME Inductive, NEW s \in Shell, DoConstruction(s)
  PROVE  Inductive'
<1>1. flow \in Flow /\ Sound(flow, owed, held) /\ LedgerOK /\ PlacesOK /\ HeapOK
  BY Parts
<1>2. flow' \in Flow /\ Sound(flow', owed, held)
  BY <1>1, ConstructionSound DEF DoConstruction
<1>3. UNCHANGED <<ledger, val, cell, heap, joins>>
  BY DEF DoConstruction
<1>4. PlacesOK' /\ HeapOK'
  BY <1>1, <1>3, SameHeap DEF PlacesOK
<1> QED
  BY <1>1, <1>2, <1>3, <1>4, PartsNext DEF ledger, leases, LedgerOK

LEMMA InitializeFieldStep ==
  ASSUME Inductive, NEW s \in Shell, NEW i, NEW k \in Field, NEW v \in Reg,
         DoInitializeField(s, i, k, v)
  PROVE  Inductive'
<1>1. flow \in Flow /\ Sound(flow, owed, held) /\ LedgerOK /\ PlacesOK /\ HeapOK
  BY Parts
<1>2. /\ owed' \in [Reg -> Int] /\ lent' \in [Reg -> BOOLEAN]
      /\ \A r \in Reg \ Zero : owed'[r] = owed[r] - Once(v)[r]
  BY <1>1, OnceNat, LoseLedger DEF DoInitializeField
<1>3. CanTake(flow, Once(v)) /\ flow' = InitializeField(flow, s, i, v)
  BY DEF DoInitializeField, InitializeFieldOk
<1>4. flow' \in Flow /\ Sound(flow', owed', held)
  BY <1>1, <1>2, <1>3, InitializeFieldSound DEF LedgerOK
<1>5. val[v] \in Handle /\ cell[s] \in Obj
  BY <1>1 DEF DoInitializeField, PlacesOK
<1>6. child' \in [Obj -> [Field -> Handle]]
  BY <1>1, <1>5 DEF DoInitializeField, HeapOK
<1>7. PlacesOK' /\ HeapOK'
  BY <1>1, <1>6 DEF DoInitializeField, PlacesOK, HeapOK
<1> QED
  BY <1>1, <1>2, <1>4, <1>7, PartsNext DEF DoInitializeField, LedgerOK

LEMMA ResourceInitializeStep ==
  ASSUME Inductive, NEW s \in Slot, NEW v \in Reg, DoResourceInitialize(s, v)
  PROVE  Inductive'
<1>1. flow \in Flow /\ Sound(flow, owed, held) /\ LedgerOK /\ PlacesOK /\ HeapOK
  BY Parts
<1>2. /\ owed' \in [Reg -> Int] /\ lent' \in [Reg -> BOOLEAN]
      /\ \A r \in Reg \ Zero : owed'[r] = owed[r] - Once(v)[r]
  BY <1>1, OnceNat, LoseLedger DEF DoResourceInitialize
<1>3. lent[v] \in BOOLEAN /\ (v \notin Zero) \in BOOLEAN
  BY <1>1 DEF LedgerOK
<1>4. /\ held' \in [Slot -> BOOLEAN] /\ lentCell' \in [Slot -> BOOLEAN]
      /\ held' = [held EXCEPT ![s] = v \notin Zero]
  BY <1>1, <1>3, SlotLedger DEF DoResourceInitialize
<1>5. CanTake(flow, Once(v)) /\ flow' = Take(flow, Once(v))
  BY DEF DoResourceInitialize, ResourceInitializeOk, ResourceInitialize
<1>6. flow' \in Flow /\ Sound(flow', owed', held)
  BY <1>1, <1>2, <1>5, OnceNat, TakeAllSound DEF LedgerOK
<1>7. \A c \in Owner : held'[c] = held[c]
  BY <1>1, <1>4, SlotAssumption DEF DoResourceInitialize, LedgerOK
<1>8. Sound(flow', owed', held')
  BY <1>6, <1>7 DEF Sound, SlotSound, CleanSound
<1>9. PlacesOK' /\ HeapOK'
  BY <1>1, SameHeap DEF DoResourceInitialize, PlacesOK
<1> QED
  BY <1>2, <1>4, <1>6, <1>8, <1>9, PartsNext DEF LedgerOK

LEMMA ResourceTakeStep ==
  ASSUME Inductive, NEW d \in Reg, NEW s \in Slot, DoResourceTake(d, s)
  PROVE  Inductive'
<1>1. flow \in Flow /\ Sound(flow, owed, held) /\ LedgerOK /\ PlacesOK /\ HeapOK
  BY Parts
<1>2. lentCell[s] \in BOOLEAN /\ {FALSE} \in SUBSET BOOLEAN
  BY <1>1 DEF LedgerOK
<1>3. /\ owed' \in [Reg -> Int] /\ lent' \in [Reg -> BOOLEAN] /\ owed'[d] = 1
      /\ \A r \in Reg \ (Zero \cup {d}) : owed'[r] = owed[r]
  BY <1>1, <1>2, NoUseNat, GainLedger DEF DoResourceTake, LedgerOK
<1>4. /\ held' \in [Slot -> BOOLEAN] /\ lentCell' \in [Slot -> BOOLEAN]
      /\ held' = [held EXCEPT ![s] = FALSE]
  BY <1>1, SlotLedger DEF DoResourceTake
<1>5. flow' \in Flow /\ Sound(flow', owed', held)
  BY <1>1, <1>2, <1>3, ProduceAllSound DEF DoResourceTake, ResourceTake
<1>6. \A c \in Owner : held'[c] = held[c]
  BY <1>1, <1>4, SlotAssumption DEF DoResourceTake, LedgerOK
<1>7. Sound(flow', owed', held')
  BY <1>5, <1>6 DEF Sound, SlotSound, CleanSound
<1>8. PlacesOK' /\ HeapOK'
  BY <1>1, SameHeap DEF DoResourceTake, PlacesOK, Handle
<1> QED
  BY <1>3, <1>4, <1>5, <1>7, <1>8, PartsNext DEF LedgerOK

LEMMA RetStep ==
  ASSUME Inductive, NEW v \in Reg, DoRet(v)
  PROVE  Inductive'
<1>1. flow \in Flow /\ Sound(flow, owed, held) /\ LedgerOK /\ PlacesOK /\ HeapOK
  BY Parts
<1>2. /\ owed' \in [Reg -> Int] /\ lent' \in [Reg -> BOOLEAN]
      /\ \A r \in Reg \ Zero : owed'[r] = owed[r] - Once(v)[r]
  BY <1>1, OnceNat, LoseLedger DEF DoRet
<1>3. CanTake(flow, Once(v)) /\ flow' = Take(flow, Once(v))
  BY DEF DoRet, RetOk
<1>4. flow' \in Flow /\ Sound(flow', owed', held)
  BY <1>1, <1>2, <1>3, OnceNat, TakeAllSound DEF LedgerOK
<1>5. val[v] \in Handle
  BY <1>1 DEF DoRet, PlacesOK
<1>6. PlacesOK' /\ HeapOK'
  BY <1>1, <1>5 DEF DoRet, PlacesOK, HeapOK
<1> QED
  BY <1>1, <1>2, <1>4, <1>6, PartsNext DEF DoRet, LedgerOK

LEMMA ReleaseStep ==
  ASSUME Inductive, Release
  PROVE  Inductive'
<1>1. flow \in Flow /\ Sound(flow, owed, held) /\ LedgerOK /\ PlacesOK /\ HeapOK
  BY Parts
<1>2. UNCHANGED <<flow, ledger, val, cell, born, joins, result>>
  BY DEF Release
<1>3. Head(pending) \in Handle /\ Tail(pending) \in Seq(Handle)
  BY <1>1 DEF Release, HeapOK
<1>4. ASSUME NEW o \in Obj PROVE Children(o) \in Seq(Handle)
  <2>1. Fields \in Nat
    BY FactAssumption
  <2>2. \A k \in 1..Fields : child[o][Fields - k] \in Handle
    BY <1>1, <2>1 DEF HeapOK, Field
  <2> QED
    BY <2>1, <2>2 DEF Children
<1> DEFINE o == Head(pending)
<1>5. o = Null \/ o \in Obj
  BY <1>3 DEF Handle
<1>6. /\ mode' \in {"running", "returned", "trapped"}
      /\ rc' = rc \/ \E n \in Nat : rc' = [rc EXCEPT ![o] = n]
      /\ \/ child' = child
         \/ child' = [child EXCEPT ![o] = [i \in Field |-> Null]]
      /\ \/ pending' = pending
         \/ pending' = Tail(pending)
         \/ o \in Obj /\ pending' = Children(o) \o Tail(pending)
  <2>1. HeapOK /\ Release
    BY <1>1
  <2>2. CASE o = Null
    BY <2>1, <2>2, PathAssumption DEF Release, HeapOK
  <2>3. CASE o \in Obj
    <3>1. rc[o] \in Nat
      BY <2>1, <2>3 DEF HeapOK
    <3>2. CASE rc[o] = 0
      BY <2>1, <2>3, <3>2, PathAssumption DEF Release, HeapOK
    <3>3. CASE rc[o] > 1
      <4>1. rc' = [rc EXCEPT ![o] = rc[o] - 1] /\ rc[o] - 1 \in Nat
        BY <2>1, <2>3, <3>1, <3>3, PathAssumption DEF Release
      <4> QED
        BY <2>1, <2>3, <3>3, <4>1, PathAssumption DEF Release, HeapOK
    <3>4. CASE rc[o] = 1
      BY <2>1, <2>3, <3>4, PathAssumption DEF Release, HeapOK
    <3>5. rc[o] = 0 \/ rc[o] = 1 \/ rc[o] > 1
      BY <3>1
    <3> QED
      BY <3>2, <3>3, <3>4, <3>5, Zenon
  <2> QED
    BY <1>5, <2>2, <2>3
<1> HIDE DEF o
<1>7. rc' \in [Obj -> Nat] /\ child' \in [Obj -> [Field -> Handle]]
  <2>1. [i \in Field |-> Null] \in [Field -> Handle]
    BY DEF Handle
  <2>2. rc' \in [Obj -> Nat]
    BY <1>1, <1>6 DEF HeapOK
  <2>3. child' \in [Obj -> [Field -> Handle]]
    BY <1>1, <1>6, <2>1 DEF HeapOK
  <2> QED
    BY <2>2, <2>3
<1>8. pending' \in Seq(Handle)
  <2>1. CASE o \in Obj /\ pending' = Children(o) \o Tail(pending)
    <3>1. Children(o) \in Seq(Handle)
      BY <1>4, <2>1
    <3> QED
      BY <1>3, <2>1, <3>1
  <2> QED
    BY <1>1, <1>3, <1>6, <2>1 DEF HeapOK
<1>9. PlacesOK' /\ HeapOK'
  BY <1>1, <1>2, <1>5, <1>6, <1>7, <1>8 DEF PlacesOK, HeapOK
<1> QED
  BY <1>1, <1>2, <1>9, PartsNext DEF ledger, leases, LedgerOK

LEMMA JoinStep ==
  ASSUME Inductive, DoJoin
  PROVE  Inductive'
<1>1. flow \in Flow /\ Sound(flow, owed, held) /\ LedgerOK /\ PlacesOK /\ HeapOK
  BY Parts
<1>2. flow' \in Flow /\ Sound(flow', owed, held)
  BY <1>1, WeakenSound DEF DoJoin
<1>3. joins' \in 0..MaxJoins
  BY <1>1, PathAssumption DEF DoJoin, HeapOK
<1>4. UNCHANGED <<ledger, val, cell, heap>>
  BY DEF DoJoin
<1>5. PlacesOK' /\ HeapOK'
  BY <1>1, <1>3, <1>4 DEF PlacesOK, HeapOK, heap
<1> QED
  BY <1>1, <1>2, <1>4, <1>5, PartsNext DEF ledger, leases, LedgerOK

LEMMA NextInductive ==
  ASSUME Inductive, [Next]_vars
  PROVE  Inductive'
<1>1. CASE \E s \in Slot : DoAlloca(s) \/ DoDropSlot(s)
  BY <1>1, AllocaStep, DropSlotStep
<1>2. CASE \E s \in Shell : DoConstruction(s)
  BY <1>2, ConstructionStep
<1>3. CASE \E s \in Slot, v \in Reg :
             \/ DoStoreOwned(s, v) \/ DoTransferSlot(s, v)
             \/ DoResourceInitialize(s, v)
  BY <1>3, StoreOwnedStep, TransferSlotStep, ResourceInitializeStep
<1>4. CASE \E s \in Slot, v \in Reg :
             \/ DoMove(v, s) \/ DoObserve(v, s) \/ DoResourceTake(v, s)
             \/ \E d \in Reg : DoSwapValue(d, s, v)
  BY <1>4, MoveStep, ObserveStep, ResourceTakeStep, SwapValueStep
<1>5. CASE \E s \in Shell, v \in Reg, i \in 0..Fields, k \in Field :
             DoInitializeField(s, i, k, v)
  BY <1>5, InitializeFieldStep
<1>6. CASE \E v \in Reg : DoAlloc(v) \/ DoRet(v)
  BY <1>6, AllocStep, RetStep
<1>7. CASE \E v \in Reg, recipe \in {"Managed", "Temporary"} : DoDropValue(v, recipe)
  BY <1>7, DropValueStep
<1>8. CASE \E v \in Reg, kind \in {"ImmutableBacking", "Evaluation"} :
             DoAcquire(v, kind)
  BY <1>8, AcquireStep
<1>9. CASE \E d, v \in Reg : \E kind \in {"FatPtr", "Closure"} : DoWrap(d, v, kind)
  BY <1>9, WrapStep
<1>10. CASE \E d, v \in Reg : DoOwnedCast(d, v)
  BY <1>10, OwnedCastStep
<1>11. CASE \E d, v \in Reg : DoBorrowValue(d, v)
  BY <1>11, BorrowValueStep
<1>12. CASE \E d \in Reg, n \in 0..MaxArgs : \E args \in [1..n -> Reg] :
              DoCall(args, d)
  BY <1>12, CallStep
<1>13. CASE Release
  BY <1>13, ReleaseStep
<1>14. CASE DoJoin
  BY <1>14, JoinStep
<1>15. CASE UNCHANGED vars
  <2>1. flow \in Flow /\ Sound(flow, owed, held) /\ LedgerOK /\ PlacesOK /\ HeapOK
    BY Parts
  <2> QED
    BY <1>15, <2>1, PartsNext
       DEF vars, ledger, leases, heap, LedgerOK, PlacesOK, HeapOK
<1> QED
  BY <1>1, <1>2, <1>3, <1>4, <1>5, <1>6, <1>7, <1>8, <1>9, <1>10, <1>11,
     <1>12, <1>13, <1>14, <1>15 DEF Next, Slots, Values

-----------------------------------------------------------------------------
(* The theorems.                                                           *)

THEOREM InductiveHolds == Spec => []Inductive
BY InitInductive, NextInductive, PTL DEF Spec

\* Every state that an accepted function reaches is typed; in particular the
\* verifier's alternatives never leave the counts that its mask can hold.
THEOREM LifetimeTyped == Spec => []TypeOK
<1>1. Inductive => TypeOK
  BY DEF Inductive
<1> QED
  BY <1>1, InductiveHolds, PTL

\* For every function the verifier accepts, whatever its registers, slots,
\* aggregates and joins: the exact number of edges of a register and the
\* state of a cleanup slot are among the alternatives the verifier tracks.
THEOREM LedgerIsSound == Spec => []LedgerSound
<1>1. Inductive => LedgerSound
  BY DEF Inductive
<1> QED
  BY <1>1, InductiveHolds, PTL

\* Only a return ends the function normally, and nothing runs after it.
LEMMA OnlyRetReturns ==
  ASSUME Next, mode' = "returned"
  PROVE  \E v \in Reg : DoRet(v)
<1>1. mode = "running"
  BY ZenonT(40) DEF Next, Slots, Values, Running, DoAlloca, DoAlloc, DoStoreOwned, DoMove,
     DoObserve, DoBorrowValue, DoTransferSlot, DoDropSlot, DoSwapValue,
     DoOwnedCast, DoDropValue, DoAcquire, DoWrap, DoCall, DoConstruction,
     DoInitializeField, DoResourceInitialize, DoResourceTake, DoRet, DoJoin,
     Release
<1>2. Slots => UNCHANGED mode
  <2>1. ASSUME NEW s \in Slot, DoAlloca(s) \/ DoDropSlot(s)
        PROVE  UNCHANGED mode
    BY <2>1 DEF heap, DoAlloca, DoDropSlot
  <2>2. ASSUME NEW s \in Shell, DoConstruction(s) PROVE UNCHANGED mode
    BY <2>2 DEF heap, DoConstruction
  <2>3. ASSUME NEW s \in Slot, NEW v \in Reg,
               \/ DoStoreOwned(s, v) \/ DoTransferSlot(s, v)
               \/ DoResourceInitialize(s, v) \/ DoMove(v, s)
               \/ DoObserve(v, s) \/ DoResourceTake(v, s)
               \/ \E d \in Reg : DoSwapValue(d, s, v)
        PROVE  UNCHANGED mode
    BY <2>3 DEF heap, DoStoreOwned, DoMove, DoObserve, DoTransferSlot,
       DoSwapValue, DoResourceInitialize, DoResourceTake
  <2>4. ASSUME NEW s \in Shell, NEW v \in Reg, NEW i \in 0..Fields,
               NEW k \in Field, DoInitializeField(s, i, k, v)
        PROVE  UNCHANGED mode
    BY <2>4 DEF DoInitializeField
  <2> QED
    BY <2>1, <2>2, <2>3, <2>4 DEF Slots
<1>3. Values => mode' # "returned" \/ \E v \in Reg : DoRet(v)
  BY <1>1 DEF Values, heap, NewObject, Retain, DoAlloc, DoBorrowValue,
     DoOwnedCast, DoDropValue, DoAcquire, DoWrap, DoCall
<1>4. Release => mode' # "returned"
  BY <1>1 DEF Release
<1>5. DoJoin => UNCHANGED mode
  BY DEF DoJoin, heap
<1> QED
  BY <1>1, <1>2, <1>3, <1>4, <1>5 DEF Next

\* No slot of an accepted function keeps its edge past the return, provided
\* the builder keeps to the shapes named Disciplined: without them the
\* cleanup analysis can believe a slot vacant that is live.
THEOREM ReturnDischargesSlots ==
  ASSUME Disciplined PROVE Spec => []SlotsResolved
<1>1. Init => SlotsResolved
  BY DEF Init, SlotsResolved
<1>2. ASSUME Inductive, SlotsResolved, [Next]_vars PROVE SlotsResolved'
  <2>1. CASE UNCHANGED vars
    BY <1>2, <2>1 DEF vars, ledger, heap, SlotsResolved
  <2>2. CASE Next /\ mode' # "returned"
    BY <2>2 DEF SlotsResolved
  <2>3. CASE Next /\ mode' = "returned"
    <3>1. PICK v \in Reg : DoRet(v)
      BY <2>3, OnlyRetReturns
    <3>2. ASSUME NEW s \in Owner PROVE ~held[s]
      <4>1. held[s] \in BOOLEAN /\ held[s] \in flow.cleanup[s]
        BY <1>2, SlotAssumption DEF Inductive, LedgerSound, TypeOK
      <4>2. TRUE \notin flow.cleanup[s]
        BY <3>1 DEF DoRet, RetOk
      <4> QED
        BY <4>1, <4>2
    <3> QED
      BY <3>1, <3>2 DEF DoRet, SlotsResolved
  <2> QED
    BY <1>2, <2>1, <2>2, <2>3
<1> QED
  BY <1>1, <1>2, InductiveHolds, PTL DEF Spec

-----------------------------------------------------------------------------
(* The invariant, in named parts.                                          *)

\* A literal zero owes nothing and leads nowhere.
ZeroNull == \A r \in Zero : val[r] = Null /\ owed[r] = 0
\* What holds no edge leads to no object.
Vacant == \A s \in Slot : ~held[s] => cell[s] \notin Obj
\* A slot that only ever holds one register still holds its handle.
PinSound ==
  \A s \in Owner, v \in Reg :
    held[s] /\ Pins[s] = {v} => v \notin Zero /\ cell[s] = val[v]

PlacesSound == ZeroNull /\ Vacant /\ PinSound

-----------------------------------------------------------------------------
(* Registers and slots.                                                    *)

\* A transfer takes the slot's edge and hands back the handle that was parked.
LEMMA TransferFacts ==
  ASSUME Disciplined, Inductive, PlacesSound,
         NEW s \in Slot, NEW v \in Reg, DoTransferSlot(s, v)
  PROVE  s \in Owner /\ held[s] /\ v \notin Zero /\ cell[s] = val[v] /\ owed[v] = 0
<1>1. s \in Owner /\ flow.cells[s] = {TRUE}
  BY DEF DoTransferSlot, TransferSlotOk, Live
<1>2. held[s]
  BY <1>1 DEF Inductive, LedgerSound
<1> QED
  BY <1>1, <1>2 DEF DoTransferSlot, BuilderTransfers, PlacesSound, PinSound

LEMMA PlacesStep ==
  ASSUME Disciplined, Inductive, PlacesSound, [Next]_vars
  PROVE  PlacesSound'
<1>0. /\ held \in [Slot -> BOOLEAN] /\ owed \in [Reg -> Int]
      /\ cell \in [Slot -> Handle \cup {Undef}]
      /\ val \in [Reg -> Handle \cup {Undef}]
      /\ Owner \subseteq Slot /\ Zero \subseteq Reg
      /\ Null \notin Obj /\ Undef \notin Obj
  BY SlotAssumption, FactAssumption, PathAssumption DEF Inductive, TypeOK
<1> USE DEF PlacesSound, ZeroNull, Vacant, PinSound
<1>1. ASSUME NEW s \in Slot, DoAlloca(s) PROVE PlacesSound'
  BY <1>0, <1>1 DEF DoAlloca, Gain, Lose, Hold, Pay, NoUse, BuilderDefines, ledger, heap
<1>2. ASSUME NEW s \in Slot, DoDropSlot(s) PROVE PlacesSound'
  BY <1>0, <1>2 DEF DoDropSlot, Gain, Lose, Hold, Pay, NoUse, BuilderDefines, ledger, heap
<1>3. ASSUME NEW s \in Shell, DoConstruction(s) PROVE PlacesSound'
  BY <1>0, <1>3 DEF DoConstruction, Gain, Lose, Hold, Pay, NoUse, BuilderDefines, ledger, heap
<1>4. ASSUME NEW s \in Slot, NEW v \in Reg, DoStoreOwned(s, v)
      PROVE  PlacesSound'
  BY <1>0, <1>4 DEF DoStoreOwned, StoreOwnedOk, Gain, Lose, Hold, Pay, NoUse, BuilderDefines, ledger, heap
<1>5. ASSUME NEW s \in Slot, NEW v \in Reg, DoTransferSlot(s, v)
      PROVE  PlacesSound'
  <2>1. s \in Owner /\ held[s] /\ v \notin Zero /\ cell[s] = val[v] /\ owed[v] = 0
    BY <1>5, TransferFacts DEF PlacesSound, ZeroNull, Vacant, PinSound
  <2> QED
    BY <1>0, <1>5, <2>1, Zenon DEF DoTransferSlot, Gain, Hold, Pay, NoUse, heap
<1>6. ASSUME NEW s \in Slot, NEW v \in Reg, DoResourceInitialize(s, v)
      PROVE  PlacesSound'
  BY <1>0, <1>6 DEF DoResourceInitialize, Gain, Lose, Hold, Pay, NoUse, BuilderDefines, ledger, heap
<1>7. ASSUME NEW s \in Slot, NEW d \in Reg, DoMove(d, s) PROVE PlacesSound'
  BY <1>0, <1>7 DEF DoMove, Gain, Lose, Hold, Pay, NoUse, BuilderDefines, ledger, heap
<1>8. ASSUME NEW s \in Slot, NEW d \in Reg, DoObserve(d, s)
      PROVE  PlacesSound'
  BY <1>0, <1>8 DEF DoObserve, Gain, Lose, Hold, Pay, NoUse, BuilderDefines, ledger, heap
<1>9. ASSUME NEW s \in Slot, NEW d \in Reg, DoResourceTake(d, s)
      PROVE  PlacesSound'
  BY <1>0, <1>9 DEF DoResourceTake, Gain, Lose, Hold, Pay, NoUse, BuilderDefines, ledger, heap
<1>10. ASSUME NEW s \in Slot, NEW d \in Reg, NEW v \in Reg, DoSwapValue(d, s, v)
      PROVE  PlacesSound'
  BY <1>0, <1>10 DEF DoSwapValue, BuilderSwaps, Gain, Lose, Hold, Pay, NoUse, BuilderDefines, ledger, heap
<1>11. ASSUME NEW s \in Shell, NEW v \in Reg, NEW i \in 0..Fields, NEW k \in Field, DoInitializeField(s, i, k, v)
      PROVE  PlacesSound'
  BY <1>0, <1>11 DEF DoInitializeField, Gain, Lose, Hold, Pay, NoUse, BuilderDefines, ledger, heap
<1>12. ASSUME NEW d \in Reg, DoAlloc(d) PROVE PlacesSound'
  BY <1>0, <1>12 DEF DoAlloc, Gain, Lose, Hold, Pay, NoUse, BuilderDefines, ledger, heap
<1>13. ASSUME NEW v \in Reg, DoRet(v) PROVE PlacesSound'
  BY <1>0, <1>13 DEF DoRet, Gain, Lose, Hold, Pay, NoUse, BuilderDefines, ledger, heap
<1>14. ASSUME NEW v \in Reg, NEW recipe \in {"Managed", "Temporary"}, DoDropValue(v, recipe)
      PROVE  PlacesSound'
  BY <1>0, <1>14 DEF DoDropValue, Gain, Lose, Hold, Pay, NoUse, BuilderDefines, ledger, heap
<1>15. ASSUME NEW v \in Reg, NEW kind \in {"ImmutableBacking", "Evaluation"}, DoAcquire(v, kind)
      PROVE  PlacesSound'
  BY <1>0, <1>15 DEF DoAcquire, Gain, Lose, Hold, Pay, NoUse, BuilderDefines, ledger, heap
<1>16. ASSUME NEW d \in Reg, NEW v \in Reg, DoOwnedCast(d, v)
      PROVE  PlacesSound'
  BY <1>0, <1>16 DEF DoOwnedCast, Gain, Lose, Hold, Pay, NoUse, BuilderDefines, ledger, heap
<1>17. ASSUME NEW d \in Reg, NEW v \in Reg, DoBorrowValue(d, v)
      PROVE  PlacesSound'
  BY <1>0, <1>17 DEF DoBorrowValue, Gain, Lose, Hold, Pay, NoUse, BuilderDefines, ledger, heap
<1>18. ASSUME NEW d \in Reg, NEW v \in Reg, NEW kind \in {"FatPtr", "Closure"}, DoWrap(d, v, kind)
      PROVE  PlacesSound'
  BY <1>0, <1>18 DEF DoWrap, Gain, Lose, Hold, Pay, NoUse, BuilderDefines, ledger, heap
<1>19. ASSUME NEW d \in Reg, NEW n \in 0..MaxArgs, NEW args \in [1..n -> Reg], DoCall(args, d)
      PROVE  PlacesSound'
  BY <1>0, <1>19 DEF DoCall, Gain, Lose, Hold, Pay, NoUse, BuilderDefines, ledger, heap
<1>20. ASSUME Release PROVE PlacesSound'
  BY <1>0, <1>20 DEF Release, ledger
<1>21. ASSUME DoJoin PROVE PlacesSound'
  BY <1>0, <1>21 DEF DoJoin, ledger
<1>22. ASSUME UNCHANGED vars PROVE PlacesSound'
  BY <1>0, <1>22 DEF vars, ledger
<1> QED
  BY <1>1, <1>2, <1>3, <1>4, <1>5, <1>6, <1>7, <1>8, <1>9, <1>10, <1>11,
     <1>12, <1>13, <1>14, <1>15, <1>16, <1>17, <1>18, <1>19, <1>20, <1>21,
     <1>22 DEF Next, Slots, Values

-----------------------------------------------------------------------------
(* Leases.                                                                 *)

\* A lease is one of the edges a register carries, or is parked in a slot
\* for temporaries, and the verifier knows.
LeaseOwed ==
  /\ \A r \in Reg : lent[r] => owed[r] > 0 /\ TRUE \in flow.leases[r]
  /\ \A s \in Slot : lentCell[s] => s \in Temporary /\ TRUE \in flow.cellLeases[s]

\* Who has a lease after an instruction had it before, or gains it.
LEMMA GainLease ==
  ASSUME NEW uses \in [Reg -> Nat], owed \in [Reg -> Int], NEW d \in Reg,
         NEW lease \in BOOLEAN, Gain(d, uses, lease)
  PROVE  /\ lent'[d] <=> lease
         /\ owed'[d] = 1
         /\ \A r \in Reg \ {d} : lent'[r] => lent[r] /\ owed'[r] > 0
<1>1. owed' = [Pay(uses) EXCEPT ![d] = 1] /\ Pay(uses) \in [Reg -> Int]
  BY PaySound DEF Gain
<1>2. owed'[d] = 1 /\ \A r \in Reg \ {d} : owed'[r] = Pay(uses)[r]
  BY <1>1
<1>3. \A r \in Reg : lent'[r] = IF r = d THEN lease ELSE lent[r] /\ Pay(uses)[r] > 0
  BY Zenon DEF Gain
<1>4. lent'[d] <=> lease
  BY <1>3, Zenon
<1>5. ASSUME NEW r \in Reg, r # d, lent'[r] PROVE lent[r] /\ Pay(uses)[r] > 0
  BY <1>3, <1>5, Zenon
<1> QED
  BY <1>2, <1>4, <1>5

\* The leases of the registers stay known when one of them gets an edge.
LEMMA LeaseMoved ==
  ASSUME flow.leases \in [Reg -> SUBSET BOOLEAN], NEW d \in Reg, NEW lease,
         flow'.leases = [flow.leases EXCEPT ![d] = lease],
         owed'[d] > 0, lent'[d] => TRUE \in lease,
         \A r \in Reg \ {d} : lent'[r] => lent[r] /\ owed'[r] > 0,
         \A r \in Reg : lent[r] => TRUE \in flow.leases[r]
  PROVE  \A r \in Reg : lent'[r] => owed'[r] > 0 /\ TRUE \in flow'.leases[r]
<1>1. SUFFICES ASSUME NEW r \in Reg, lent'[r]
               PROVE  owed'[r] > 0 /\ TRUE \in flow'.leases[r]
  OBVIOUS
<1>2. CASE r = d
  <2>1. flow'.leases[r] = lease
    BY <1>2
  <2> QED
    BY <1>1, <1>2, <2>1, Zenon
<1>3. CASE r # d
  <2>1. flow'.leases[r] = flow.leases[r]
    BY <1>3
  <2> QED
    BY <1>1, <1>3, <2>1, Zenon
<1> QED
  BY <1>2, <1>3

LEMMA LeaseStep ==
  ASSUME Disciplined, Inductive, PlacesSound, LeaseOwed, [Next]_vars
  PROVE  LeaseOwed'
<1>0. /\ lent \in [Reg -> BOOLEAN] /\ owed \in [Reg -> Int]
      /\ lentCell \in [Slot -> BOOLEAN] /\ flow \in Flow
      /\ flow.leases \in [Reg -> SUBSET BOOLEAN]
      /\ flow.cellLeases \in [Slot -> SUBSET BOOLEAN]
      /\ Temporary \subseteq Owner /\ Owner \subseteq Slot /\ Zero \subseteq Reg
      /\ \A r \in Zero : owed[r] = 0
  BY SlotAssumption, FactAssumption DEF Inductive, TypeOK, Flow, PlacesSound, ZeroNull
<1> USE DEF LeaseOwed
<1>1. ASSUME NEW s \in Slot, DoAlloca(s) PROVE LeaseOwed'
  BY <1>0, <1>1 DEF DoAlloca, Alloca, Gain, Lose, Lend, Pay, NoUse, Once, Leased, Take, Produce, SetSlot, Flow, ledger, leases, heap
<1>2. ASSUME NEW s \in Slot, DoDropSlot(s) PROVE LeaseOwed'
  BY <1>0, <1>2 DEF DoDropSlot, DropSlot, ResetProgress, Gain, Lose, Lend, Pay, NoUse, Once, Leased, Take, Produce, SetSlot, Flow, ledger, leases, heap
<1>3. ASSUME NEW s \in Shell, DoConstruction(s) PROVE LeaseOwed'
  BY <1>0, <1>3 DEF DoConstruction, Construction, Gain, Lose, Lend, Pay, NoUse, Once, Leased, Take, Produce, SetSlot, Flow, ledger, leases, heap
<1>4. ASSUME NEW s \in Slot, NEW v \in Reg, DoStoreOwned(s, v)
      PROVE  LeaseOwed'
  BY <1>0, <1>4 DEF DoStoreOwned, StoreOwned, StoreOwnedOk, Gain, Lose, Lend, Pay, NoUse, Once, Leased, Take, Produce, SetSlot, Flow, ledger, leases, heap
<1>5. ASSUME NEW s \in Slot, NEW v \in Reg, DoTransferSlot(s, v)
      PROVE  LeaseOwed'
  <2>1. /\ flow'.leases = [flow.leases EXCEPT ![v] = flow.cellLeases[s]]
        /\ flow'.cellLeases = flow.cellLeases
    BY <1>0, <1>5 DEF DoTransferSlot, TransferSlot, ResetProgress, Take, Produce, SetSlot, Flow
  <2>2. Gain(v, NoUse, lentCell[s])
    BY <1>5 DEF DoTransferSlot
  <2>3. lentCell[s] \in BOOLEAN /\ NoUse \in [Reg -> Nat]
    BY <1>0, NoUseNat, OnceNat
  <2>4. /\ lent'[v] <=> lentCell[s]
        /\ owed'[v] = 1
        /\ \A r \in Reg \ {v} : lent'[r] => lent[r] /\ owed'[r] > 0
    BY <1>0, <2>2, <2>3, GainLease
  <2>5. lentCell[s] => TRUE \in flow.cellLeases[s]
    BY <1>0
  <2>9. owed'[v] > 0
    BY <2>4
  <2>6. \A r \in Reg : lent'[r] => owed'[r] > 0 /\ TRUE \in flow'.leases[r]
    BY <1>0, <2>1, <2>4, <2>5, <2>9, LeaseMoved, Zenon
  <2>7. \A c \in Slot : lentCell'[c] => lentCell[c]
    BY <1>0, <1>5 DEF DoTransferSlot, Lend
  <2> QED
    BY <2>1, <2>6, <2>7
<1>6. ASSUME NEW s \in Slot, NEW v \in Reg, DoResourceInitialize(s, v)
      PROVE  LeaseOwed'
  BY <1>0, <1>6 DEF DoResourceInitialize, ResourceInitialize, BuilderAdopts, Gain, Lose, Lend, Pay, NoUse, Once, Leased, Take, Produce, SetSlot, Flow, ledger, leases, heap
<1>7. ASSUME NEW s \in Slot, NEW d \in Reg, DoMove(d, s) PROVE LeaseOwed'
  <2>1. /\ flow'.leases = [flow.leases EXCEPT ![d] = flow.cellLeases[s]]
        /\ flow'.cellLeases = flow.cellLeases
    BY <1>0, <1>7 DEF DoMove, Move, Take, Produce, SetSlot, Flow
  <2>2. Gain(d, NoUse, lentCell[s])
    BY <1>7 DEF DoMove
  <2>3. lentCell[s] \in BOOLEAN /\ NoUse \in [Reg -> Nat]
    BY <1>0, NoUseNat, OnceNat
  <2>4. /\ lent'[d] <=> lentCell[s]
        /\ owed'[d] = 1
        /\ \A r \in Reg \ {d} : lent'[r] => lent[r] /\ owed'[r] > 0
    BY <1>0, <2>2, <2>3, GainLease
  <2>5. lentCell[s] => TRUE \in flow.cellLeases[s]
    BY <1>0
  <2>9. owed'[d] > 0
    BY <2>4
  <2>6. \A r \in Reg : lent'[r] => owed'[r] > 0 /\ TRUE \in flow'.leases[r]
    BY <1>0, <2>1, <2>4, <2>5, <2>9, LeaseMoved, Zenon
  <2>7. \A c \in Slot : lentCell'[c] => lentCell[c]
    BY <1>0, <1>7 DEF DoMove, Lend
  <2> QED
    BY <2>1, <2>6, <2>7
<1>8. ASSUME NEW s \in Slot, NEW d \in Reg, DoObserve(d, s)
      PROVE  LeaseOwed'
  BY <1>0, <1>8 DEF DoObserve, Gain, Lose, Lend, Pay, NoUse, Once, Leased, Take, Produce, SetSlot, Flow, ledger, leases, heap
<1>9. ASSUME NEW s \in Slot, NEW d \in Reg, DoResourceTake(d, s)
      PROVE  LeaseOwed'
  BY <1>0, <1>9 DEF DoResourceTake, ResourceTake, BuilderDefines, Gain, Lose, Lend, Pay, NoUse, Once, Leased, Take, Produce, SetSlot, Flow, ledger, leases, heap
<1>10. ASSUME NEW s \in Slot, NEW d \in Reg, NEW v \in Reg, DoSwapValue(d, s, v)
      PROVE  LeaseOwed'
  BY <1>0, <1>10 DEF DoSwapValue, SwapValue, SwapValueOk, BuilderSwaps, BuilderDefines, Gain, Lose, Lend, Pay, NoUse, Once, Leased, Take, Produce, SetSlot, Flow, ledger, leases, heap
<1>11. ASSUME NEW s \in Shell, NEW v \in Reg, NEW i \in 0..Fields, NEW k \in Field, DoInitializeField(s, i, k, v)
      PROVE  LeaseOwed'
  BY <1>0, <1>11 DEF DoInitializeField, InitializeField, InitializeFieldOk, Gain, Lose, Lend, Pay, NoUse, Once, Leased, Take, Produce, SetSlot, Flow, ledger, leases, heap
<1>12. ASSUME NEW d \in Reg, DoAlloc(d) PROVE LeaseOwed'
  BY <1>0, <1>12 DEF DoAlloc, Alloc, BuilderDefines, Gain, Lose, Lend, Pay, NoUse, Once, Leased, Take, Produce, SetSlot, Flow, ledger, leases, heap
<1>13. ASSUME NEW v \in Reg, DoRet(v) PROVE LeaseOwed'
  BY <1>0, <1>13 DEF DoRet, RetOk, Gain, Lose, Lend, Pay, NoUse, Once, Leased, Take, Produce, SetSlot, Flow, ledger, leases, heap
<1>14. ASSUME NEW v \in Reg, NEW recipe \in {"Managed", "Temporary"}, DoDropValue(v, recipe)
      PROVE  LeaseOwed'
  BY <1>0, <1>14 DEF DoDropValue, DropValue, Gain, Lose, Lend, Pay, NoUse, Once, Leased, Take, Produce, SetSlot, Flow, ledger, leases, heap
<1>15. ASSUME NEW v \in Reg, NEW kind \in {"ImmutableBacking", "Evaluation"}, DoAcquire(v, kind)
      PROVE  LeaseOwed'
  <2>1. /\ flow'.leases = [flow.leases EXCEPT ![v] = {kind = "Evaluation"}]
        /\ flow'.cellLeases = flow.cellLeases
    BY <1>0, <1>15 DEF DoAcquire, Acquire, Flow
  <2>2. \A r \in Reg \ {v} : owed'[r] = owed[r] /\ (lent'[r] => lent[r])
    BY <1>0, <1>15 DEF DoAcquire
  <2>3. CASE v \in Zero
    <3>0. owed[v] = 0 /\ (lent[v] => owed[v] > 0)
      BY <1>0, <2>3
    <3>1. owed' = owed /\ lent' = lent /\ ~lent[v]
      BY <3>0, <1>15, <2>3 DEF DoAcquire
    <3>2. ASSUME NEW r \in Reg, lent[r] PROVE owed[r] > 0 /\ TRUE \in flow'.leases[r]
      <4>1. r # v /\ owed[r] > 0 /\ TRUE \in flow.leases[r]
        BY <3>1, <3>2
      <4> QED
        BY <1>0, <2>1, <4>1
    <3> QED
      BY <2>1, <3>1, <3>2, <1>15 DEF DoAcquire
  <2>4. CASE v \notin Zero
    <3>1. owed[v] \in flow.values[v] /\ flow.values[v] \subseteq 0..3
      BY <2>4 DEF Inductive, TypeOK, LedgerSound, Flow, Count, MaxEdges
    <3>2. owed' = [owed EXCEPT ![v] = @ + 1]
      BY <1>15, <2>4 DEF DoAcquire
    <3>3. owed'[v] > 0
      BY <1>0, <3>1, <3>2
    <3>4. lent' = [lent EXCEPT ![v] = @ \/ kind = "Evaluation"]
      BY <1>15, <2>4 DEF DoAcquire
    <3>5. lent'[v] => lent[v] \/ kind = "Evaluation"
      BY <1>0, <3>4, Zenon
    <3>6. lent[v] => kind = "Evaluation"
      <4>1. lent[v] => owed[v] > 0
        OBVIOUS
      <4>2. kind = "ImmutableBacking" => owed[v] = 0
        BY <1>15 DEF DoAcquire, BuilderShares
      <4> QED
        BY <4>1, <4>2
    <3>7. lent'[v] => TRUE \in {kind = "Evaluation"}
      BY <3>5, <3>6
    <3>8. \A r \in Reg \ {v} : lent'[r] => lent[r] /\ owed'[r] > 0
      BY <2>2
    <3>9. \A r \in Reg : lent[r] => TRUE \in flow.leases[r]
      OBVIOUS
    <3> DEFINE k == {kind = "Evaluation"}
    <3>10. flow'.leases = [flow.leases EXCEPT ![v] = k]
      BY <2>1
    <3> HIDE DEF k
    <3>11. lent'[v] => TRUE \in k
      BY <3>7 DEF k
    <3>12. \A r \in Reg : lent'[r] => owed'[r] > 0 /\ TRUE \in flow'.leases[r]
      BY <1>0, <3>3, <3>8, <3>9, <3>10, <3>11, LeaseMoved, Zenon
    <3> QED
      BY <2>1, <3>12, <1>15 DEF DoAcquire
  <2> QED
    BY <2>3, <2>4
<1>16. ASSUME NEW d \in Reg, NEW v \in Reg, DoOwnedCast(d, v)
      PROVE  LeaseOwed'
  <2>1. /\ flow'.leases = [flow.leases EXCEPT ![d] = flow.leases[v]]
        /\ flow'.cellLeases = flow.cellLeases
    BY <1>0, <1>16 DEF DoOwnedCast, OwnedCast, Take, Produce, SetSlot, Flow
  <2>2. Gain(d, Once(v), lent[v])
    BY <1>16 DEF DoOwnedCast
  <2>3. lent[v] \in BOOLEAN /\ Once(v) \in [Reg -> Nat]
    BY <1>0, NoUseNat, OnceNat
  <2>4. /\ lent'[d] <=> lent[v]
        /\ owed'[d] = 1
        /\ \A r \in Reg \ {d} : lent'[r] => lent[r] /\ owed'[r] > 0
    BY <1>0, <2>2, <2>3, GainLease
  <2>5. lent[v] => TRUE \in flow.leases[v]
    BY <1>0
  <2>9. owed'[d] > 0
    BY <2>4
  <2>6. \A r \in Reg : lent'[r] => owed'[r] > 0 /\ TRUE \in flow'.leases[r]
    BY ZenonT(40), <1>0, <2>1, <2>4, <2>5, <2>9, LeaseMoved
  <2>7. \A c \in Slot : lentCell'[c] => lentCell[c]
    BY <1>0, <1>16 DEF DoOwnedCast, Lend
  <2> QED
    BY <2>1, <2>6, <2>7
<1>17. ASSUME NEW d \in Reg, NEW v \in Reg, DoBorrowValue(d, v)
      PROVE  LeaseOwed'
  BY <1>0, <1>17 DEF DoBorrowValue, Gain, Lose, Lend, Pay, NoUse, Once, Leased, Take, Produce, SetSlot, Flow, ledger, leases, heap
<1>18. ASSUME NEW d \in Reg, NEW v \in Reg, NEW kind \in {"FatPtr", "Closure"}, DoWrap(d, v, kind)
      PROVE  LeaseOwed'
  BY <1>0, <1>18 DEF DoWrap, Wrap, WrapOk, BuilderAdopts, BuilderDefines, Gain, Lose, Lend, Pay, NoUse, Once, Leased, Take, Produce, SetSlot, Flow, ledger, leases, heap
<1>19. ASSUME NEW d \in Reg, NEW n \in 0..MaxArgs, NEW args \in [1..n -> Reg], DoCall(args, d)
      PROVE  LeaseOwed'
  BY <1>0, <1>19 DEF DoCall, Call, CallOk, BuilderDefines, Gain, Lose, Lend, Pay, NoUse, Once, Leased, Take, Produce, SetSlot, Flow, ledger, leases, heap
<1>20. ASSUME Release PROVE LeaseOwed'
  BY <1>0, <1>20 DEF Release, ledger, leases
<1>21. ASSUME DoJoin PROVE LeaseOwed'
  <2>1. \A r \in Reg : flow.leases[r] \subseteq flow'.leases[r]
    BY <1>0, <1>21 DEF DoJoin, Weaken, Flow
  <2>2. \A s \in Slot : flow.cellLeases[s] \subseteq flow'.cellLeases[s]
    BY <1>0, <1>21 DEF DoJoin, Weaken, Flow
  <2> QED
    BY <1>0, <1>21, <2>1, <2>2 DEF DoJoin, ledger, leases
<1>22. ASSUME UNCHANGED vars PROVE LeaseOwed'
  BY <1>0, <1>22 DEF vars, ledger, leases
<1> QED
  BY <1>1, <1>2, <1>3, <1>4, <1>5, <1>6, <1>7, <1>8, <1>9, <1>10, <1>11,
     <1>12, <1>13, <1>14, <1>15, <1>16, <1>17, <1>18, <1>19, <1>20, <1>21,
     <1>22 DEF Next, Slots, Values

-----------------------------------------------------------------------------
(* What one step may do: the two action properties.                        *)

\* How a payment changes what a register owes.
LEMMA PayExact ==
  ASSUME owed \in [Reg -> Int], ZeroNull, NEW uses \in [Reg -> Nat], NEW r \in Reg
  PROVE  /\ Pay(uses)[r] = IF r \in Zero THEN 0 ELSE owed[r] - uses[r]
         /\ Pay(uses)[r] <= owed[r]
BY DEF Pay, ZeroNull

LEMMA GainOnly ==
  ASSUME owed \in [Reg -> Int], ZeroNull, NEW uses \in [Reg -> Nat],
         NEW d \in Reg, NEW lease, Gain(d, uses, lease), NEW r \in Reg, r # d
  PROVE  /\ ~(owed'[r] > owed[r])
         /\ owed'[r] < owed[r] => uses[r] > 0 /\ r \notin Zero
<1>1. owed'[r] = Pay(uses)[r]
  BY DEF Gain, Pay
<1> QED
  BY <1>1, PayExact DEF ZeroNull

LEMMA LoseOnly ==
  ASSUME owed \in [Reg -> Int], ZeroNull, NEW uses \in [Reg -> Nat], Lose(uses),
         NEW r \in Reg
  PROVE  /\ ~(owed'[r] > owed[r])
         /\ owed'[r] < owed[r] => uses[r] > 0 /\ r \notin Zero
<1>1. owed'[r] = Pay(uses)[r]
  BY DEF Lose
<1> QED
  BY <1>1, PayExact DEF ZeroNull

HandsBack ==
  \A s \in Owner, v \in Reg :
    held[s] /\ ~held'[s] /\ owed'[v] > owed[v] /\ val' = val => cell[s] = val[v]

LEMMA HandsBackStep ==
  ASSUME Disciplined, Inductive, PlacesSound, Next
  PROVE  HandsBack
<1>0. /\ held \in [Slot -> BOOLEAN] /\ owed \in [Reg -> Int]
      /\ val \in [Reg -> Handle \cup {Undef}]
      /\ Owner \subseteq Slot /\ ZeroNull
      /\ NoUse \in [Reg -> Nat] /\ \A v \in Reg : Once(v) \in [Reg -> Nat]
  BY SlotAssumption, NoUseNat, OnceNat DEF Inductive, TypeOK, PlacesSound
<1> USE DEF HandsBack
<1>1. ASSUME NEW s \in Slot, DoAlloca(s) PROVE HandsBack
  BY <1>0, <1>1 DEF DoAlloca, ledger, Hold
<1>2. ASSUME NEW s \in Slot, DoDropSlot(s) PROVE HandsBack
  BY <1>0, <1>2 DEF DoDropSlot, ledger, Hold
<1>3. ASSUME NEW s \in Shell, DoConstruction(s) PROVE HandsBack
  BY <1>0, <1>3 DEF DoConstruction, ledger, Hold
<1>4. ASSUME NEW s \in Slot, NEW v \in Reg, DoStoreOwned(s, v)
      PROVE  HandsBack
  <2>1. \A w \in Reg : ~(owed'[w] > owed[w])
    BY <1>0, <1>4, LoseOnly DEF DoStoreOwned
  <2> QED
    BY <1>0, <2>1
<1>5. ASSUME NEW s \in Slot, NEW v \in Reg, DoTransferSlot(s, v)
      PROVE  HandsBack
  <2>1. \A w \in Reg \ {v} : ~(owed'[w] > owed[w])
    BY <1>0, <1>5, GainOnly DEF DoTransferSlot
  <2>2. cell[s] = val[v] /\ \A c \in Slot \ {s} : held'[c] = held[c]
    BY <1>0, <1>5, TransferFacts DEF DoTransferSlot, Hold
  <2> QED
    BY <1>0, <2>1, <2>2
<1>6. ASSUME NEW s \in Slot, NEW v \in Reg, DoResourceInitialize(s, v)
      PROVE  HandsBack
  <2>1. \A w \in Reg : ~(owed'[w] > owed[w])
    BY <1>0, <1>6, LoseOnly DEF DoResourceInitialize
  <2> QED
    BY <1>0, <2>1
<1>7. ASSUME NEW s \in Slot, NEW d \in Reg, DoMove(d, s) PROVE HandsBack
  <2>1. \A w \in Reg \ {d} : ~(owed'[w] > owed[w])
    BY <1>0, <1>7, GainOnly DEF DoMove
  <2>2. val'[d] = cell[s] /\ \A c \in Slot \ {s} : held'[c] = held[c]
    BY <1>0, <1>7 DEF DoMove, Hold
  <2> QED
    BY <1>0, <2>1, <2>2
<1>8. ASSUME NEW s \in Slot, NEW d \in Reg, DoObserve(d, s) PROVE HandsBack
  BY <1>0, <1>8 DEF DoObserve, ledger, Hold
<1>9. ASSUME NEW s \in Slot, NEW d \in Reg, DoResourceTake(d, s)
      PROVE  HandsBack
  <2>1. \A c \in Owner : held'[c] = held[c]
    BY <1>0, <1>9 DEF DoResourceTake, Hold
  <2> QED
    BY <2>1
<1>10. ASSUME NEW s \in Slot, NEW d \in Reg, NEW v \in Reg, DoSwapValue(d, s, v)
      PROVE  HandsBack
  <2>1. \A c \in Slot : held[c] => held'[c]
    BY <1>0, <1>10 DEF DoSwapValue, Hold
  <2> QED
    BY <1>0, <2>1
<1>11. ASSUME NEW s \in Shell, NEW v \in Reg, NEW i \in 0..Fields, NEW k \in Field, DoInitializeField(s, i, k, v)
      PROVE  HandsBack
  <2>1. \A w \in Reg : ~(owed'[w] > owed[w])
    BY <1>0, <1>11, LoseOnly DEF DoInitializeField
  <2> QED
    BY <1>0, <2>1
<1>12. ASSUME NEW d \in Reg, DoAlloc(d) PROVE HandsBack
  BY <1>0, <1>12 DEF DoAlloc, ledger, Hold
<1>13. ASSUME NEW v \in Reg, DoRet(v) PROVE HandsBack
  <2>1. \A w \in Reg : ~(owed'[w] > owed[w])
    BY <1>0, <1>13, LoseOnly DEF DoRet
  <2> QED
    BY <1>0, <2>1
<1>14. ASSUME NEW v \in Reg, NEW recipe \in {"Managed", "Temporary"}, DoDropValue(v, recipe)
      PROVE  HandsBack
  <2>1. \A w \in Reg : ~(owed'[w] > owed[w])
    BY <1>0, <1>14, LoseOnly DEF DoDropValue
  <2> QED
    BY <1>0, <2>1
<1>15. ASSUME NEW v \in Reg, NEW kind \in {"ImmutableBacking", "Evaluation"}, DoAcquire(v, kind)
      PROVE  HandsBack
  BY <1>0, <1>15 DEF DoAcquire, ledger, Hold
<1>16. ASSUME NEW d \in Reg, NEW v \in Reg, DoOwnedCast(d, v)
      PROVE  HandsBack
  BY <1>0, <1>16 DEF DoOwnedCast, ledger, Hold
<1>17. ASSUME NEW d \in Reg, NEW v \in Reg, DoBorrowValue(d, v)
      PROVE  HandsBack
  BY <1>0, <1>17 DEF DoBorrowValue, ledger, Hold
<1>18. ASSUME NEW d \in Reg, NEW v \in Reg, NEW kind \in {"FatPtr", "Closure"}, DoWrap(d, v, kind)
      PROVE  HandsBack
  BY <1>0, <1>18 DEF DoWrap, ledger, Hold
<1>19. ASSUME NEW d \in Reg, NEW n \in 0..MaxArgs, NEW args \in [1..n -> Reg], DoCall(args, d)
      PROVE  HandsBack
  BY <1>0, <1>19 DEF DoCall, ledger, Hold
<1>20. ASSUME Release PROVE HandsBack
  BY <1>0, <1>20 DEF Release, ledger
<1>21. ASSUME DoJoin PROVE HandsBack
  BY <1>0, <1>21 DEF DoJoin, ledger
<1> QED
  BY <1>1, <1>2, <1>3, <1>4, <1>5, <1>6, <1>7, <1>8, <1>9, <1>10, <1>11,
     <1>12, <1>13, <1>14, <1>15, <1>16, <1>17, <1>18, <1>19, <1>20, <1>21 DEF Next, Slots, Values

NeverOwns ==
  \A r \in Reg : owed'[r] < owed[r] /\ lent[r] =>
    \/ pending' = <<val[r]>>
    \/ \E s \in Temporary : ~held[s] /\ held'[s] /\ lentCell'[s]
    \/ \E d \in Reg : ~lent[d] /\ lent'[d]

LEMMA NeverOwnsStep ==
  ASSUME Disciplined, Inductive, PlacesSound, LeaseOwed, Next
  PROVE  NeverOwns
<1>0. /\ held \in [Slot -> BOOLEAN] /\ owed \in [Reg -> Int]
      /\ lent \in [Reg -> BOOLEAN] /\ ZeroNull
      /\ lentCell \in [Slot -> BOOLEAN]
      /\ Owner \subseteq Slot /\ Temporary \subseteq Owner
      /\ NoUse \in [Reg -> Nat] /\ \A v \in Reg : Once(v) \in [Reg -> Nat]
      /\ \A v, r \in Reg : Once(v)[r] > 0 => r = v
      /\ \A r \in Reg : ~(NoUse[r] > 0)
      /\ \A r \in Reg : lent[r] => owed[r] > 0 /\ Leased(flow, r)
  <2>1. NoUse \in [Reg -> Nat] /\ \A v \in Reg : Once(v) \in [Reg -> Nat]
    BY NoUseNat, OnceNat
  <2>2. /\ \A v, r \in Reg : Once(v)[r] > 0 => r = v
        /\ \A r \in Reg : ~(NoUse[r] > 0)
    BY DEF Once, NoUse
  <2> QED
    BY <2>1, <2>2, SlotAssumption
       DEF Inductive, TypeOK, PlacesSound, LeaseOwed, Leased
<1> USE DEF NeverOwns
<1>1. ASSUME NEW s \in Slot, DoAlloca(s) PROVE NeverOwns
  BY <1>0, <1>1 DEF DoAlloca, ledger
<1>2. ASSUME NEW s \in Slot, DoDropSlot(s) PROVE NeverOwns
  BY <1>0, <1>2 DEF DoDropSlot, ledger
<1>3. ASSUME NEW s \in Shell, DoConstruction(s) PROVE NeverOwns
  BY <1>0, <1>3 DEF DoConstruction, ledger
<1>4. ASSUME NEW s \in Slot, NEW v \in Reg, DoStoreOwned(s, v)
      PROVE  NeverOwns
  <2>1. \A r \in Reg : owed'[r] < owed[r] => r = v /\ r \notin Zero
    BY <1>0, <1>4, LoseOnly DEF DoStoreOwned
  <2>2. SUFFICES ASSUME lent[v], v \notin Zero
                 PROVE  \E c \in Temporary : ~held[c] /\ held'[c] /\ lentCell'[c]
    BY <2>1
  <2>3. s \in Temporary /\ TRUE \notin flow.cells[s]
    BY <1>0, <2>2, <1>4 DEF DoStoreOwned, StoreOwnedOk
  <2>4. ~held[s]
    BY <1>0, <2>3 DEF Inductive, LedgerSound
  <2>5. held'[s] /\ lentCell'[s]
    <3>1. held' = [held EXCEPT ![s] = v \notin Zero]
      BY <1>4 DEF DoStoreOwned, Hold
    <3>2. lentCell' = [lentCell EXCEPT ![s] = lent[v]]
      BY <1>4 DEF DoStoreOwned, Lend
    <3>3. held'[s] = (v \notin Zero) /\ lentCell'[s] = lent[v]
      BY <1>0, <3>1, <3>2
    <3> QED
      BY <2>2, <3>3, Zenon
  <2> QED
    BY <2>3, <2>4, <2>5
<1>5. ASSUME NEW s \in Slot, NEW v \in Reg, DoTransferSlot(s, v)
      PROVE  NeverOwns
  <2>1. \A r \in Reg \ {v} : owed'[r] < owed[r] => NoUse[r] > 0
    BY <1>0, <1>5, GainOnly DEF DoTransferSlot
  <2> QED
    BY <1>0, <2>1, <1>5 DEF DoTransferSlot, Gain
<1>6. ASSUME NEW s \in Slot, NEW v \in Reg, DoResourceInitialize(s, v)
      PROVE  NeverOwns
  <2>1. \A r \in Reg : owed'[r] < owed[r] => r = v
    BY <1>0, <1>6, LoseOnly DEF DoResourceInitialize
  <2> QED
    BY <1>0, <2>1, <1>6 DEF DoResourceInitialize, BuilderAdopts
<1>7. ASSUME NEW s \in Slot, NEW d \in Reg, DoMove(d, s) PROVE NeverOwns
  <2>1. \A r \in Reg \ {d} : owed'[r] < owed[r] => NoUse[r] > 0
    BY <1>0, <1>7, GainOnly DEF DoMove
  <2> QED
    BY <1>0, <2>1, <1>7 DEF DoMove, BuilderDefines
<1>8. ASSUME NEW s \in Slot, NEW d \in Reg, DoObserve(d, s) PROVE NeverOwns
  BY <1>0, <1>8 DEF DoObserve, ledger
<1>9. ASSUME NEW s \in Slot, NEW d \in Reg, DoResourceTake(d, s)
      PROVE  NeverOwns
  <2>1. \A r \in Reg \ {d} : owed'[r] < owed[r] => NoUse[r] > 0
    BY <1>0, <1>9, GainOnly DEF DoResourceTake
  <2> QED
    BY <1>0, <2>1, <1>9 DEF DoResourceTake, BuilderDefines
<1>10. ASSUME NEW s \in Slot, NEW d \in Reg, NEW v \in Reg, DoSwapValue(d, s, v)
      PROVE  NeverOwns
  <2>1. \A r \in Reg \ {d} : owed'[r] < owed[r] => Once(v)[r] > 0
    BY <1>0, <1>10, GainOnly DEF DoSwapValue
  <2> QED
    BY <1>0, <2>1, <1>10 DEF DoSwapValue, BuilderDefines, SwapValueOk
<1>11. ASSUME NEW s \in Shell, NEW v \in Reg, NEW i \in 0..Fields, NEW k \in Field, DoInitializeField(s, i, k, v)
      PROVE  NeverOwns
  <2>1. \A r \in Reg : owed'[r] < owed[r] => r = v
    BY <1>0, <1>11, LoseOnly DEF DoInitializeField
  <2> QED
    BY <1>0, <2>1, <1>11 DEF DoInitializeField, InitializeFieldOk
<1>12. ASSUME NEW d \in Reg, DoAlloc(d) PROVE NeverOwns
  <2>1. \A r \in Reg \ {d} : owed'[r] < owed[r] => NoUse[r] > 0
    BY <1>0, <1>12, GainOnly DEF DoAlloc
  <2> QED
    BY <1>0, <2>1, <1>12 DEF DoAlloc, BuilderDefines
<1>13. ASSUME NEW v \in Reg, DoRet(v) PROVE NeverOwns
  <2>1. \A r \in Reg : owed'[r] < owed[r] => r = v
    BY <1>0, <1>13, LoseOnly DEF DoRet
  <2> QED
    BY <1>0, <2>1, <1>13 DEF DoRet, RetOk
<1>14. ASSUME NEW v \in Reg, NEW recipe \in {"Managed", "Temporary"}, DoDropValue(v, recipe)
      PROVE  NeverOwns
  <2>1. \A r \in Reg : owed'[r] < owed[r] => r = v
    BY <1>0, <1>14, LoseOnly DEF DoDropValue
  <2> QED
    BY <1>0, <2>1, <1>14 DEF DoDropValue, DropValueOk
<1>15. ASSUME NEW v \in Reg, NEW kind \in {"ImmutableBacking", "Evaluation"}, DoAcquire(v, kind)
      PROVE  NeverOwns
  <2>1. \A r \in Reg : ~(owed'[r] < owed[r])
    BY <1>0, <1>15 DEF DoAcquire
  <2> QED
    BY <1>0, <2>1
<1>16. ASSUME NEW d \in Reg, NEW v \in Reg, DoOwnedCast(d, v)
      PROVE  NeverOwns
  <2>1. \A r \in Reg \ {d} : owed'[r] < owed[r] => Once(v)[r] > 0
    BY <1>0, <1>16, GainOnly DEF DoOwnedCast
  <2>2. owed[d] = 0 /\ d # v
    BY <1>16 DEF DoOwnedCast, BuilderDefines
  <2>3. ~lent[d]
    BY <1>0, <2>2
  <2>4. lent'[d] <=> lent[v]
    BY <1>0, <1>16, GainLease DEF DoOwnedCast
  <2>5. owed'[d] = 1
    BY <1>0, <1>16, GainLease DEF DoOwnedCast
  <2>6. \A r \in Reg : owed'[r] < owed[r] => r = v
    BY <1>0, <2>1, <2>2, <2>5
  <2> QED
    BY <2>3, <2>4, <2>6
<1>17. ASSUME NEW d \in Reg, NEW v \in Reg, DoBorrowValue(d, v)
      PROVE  NeverOwns
  BY <1>0, <1>17 DEF DoBorrowValue, ledger
<1>18. ASSUME NEW d \in Reg, NEW v \in Reg, NEW kind \in {"FatPtr", "Closure"}, DoWrap(d, v, kind)
      PROVE  NeverOwns
  <2>1. \A r \in Reg \ {d} : owed'[r] < owed[r] => Once(v)[r] > 0
    BY <1>0, <1>18, GainOnly DEF DoWrap
  <2> QED
    BY <1>0, <2>1, <1>18 DEF DoWrap, BuilderDefines, BuilderAdopts
<1>19. ASSUME NEW d \in Reg, NEW n \in 0..MaxArgs, NEW args \in [1..n -> Reg], DoCall(args, d)
      PROVE  NeverOwns
  <2>1. Uses(args) \in [Reg -> Nat]
    BY UsesNat
  <2>2. \A r \in Reg \ {d} : owed'[r] < owed[r] => Uses(args)[r] > 0
    BY <1>0, <2>1, <1>19, GainOnly DEF DoCall
  <2>3. owed'[d] = 1 /\ owed[d] = 0
    BY <1>0, <2>1, <1>19, GainLease DEF DoCall, BuilderDefines
  <2>4. ASSUME NEW r \in Reg, Uses(args)[r] > 0 PROVE \E k \in DOMAIN args : args[k] = r
    BY <2>4, FS_EmptySet DEF Uses
  <2>5. ASSUME NEW r \in Reg, owed'[r] < owed[r] PROVE ~Leased(flow, r)
    <3>1. r # d
      BY <2>3, <2>5
    <3>2. PICK k \in DOMAIN args : args[k] = r
      BY <2>2, <2>4, <2>5, <3>1
    <3> QED
      BY <3>2, <1>19 DEF DoCall, CallOk
  <2> QED
    BY <1>0, <2>5
<1>20. ASSUME Release PROVE NeverOwns
  BY <1>0, <1>20 DEF Release, ledger
<1>21. ASSUME DoJoin PROVE NeverOwns
  BY <1>0, <1>21 DEF DoJoin, ledger
<1> QED
  BY <1>1, <1>2, <1>3, <1>4, <1>5, <1>6, <1>7, <1>8, <1>9, <1>10, <1>11,
     <1>12, <1>13, <1>14, <1>15, <1>16, <1>17, <1>18, <1>19, <1>20, <1>21 DEF Next, Slots, Values

-----------------------------------------------------------------------------
(* Counting the edges: registers.                                          *)

\* The places of registers that owe q and hold the handles w.
CarriedBy(q, w) ==
  [e \in Reg \X (1..MaxEdges) |-> IF e[2] <= q[e[1]] THEN w[e[1]] ELSE Null]

LEMMA CarriedPlaces ==
  /\ IsFiniteSet(Reg \X (1..MaxEdges)) /\ IsFiniteSet(Obj \X Field)
  /\ Carried = CarriedBy(owed, val) /\ Carried' = CarriedBy(owed', val')
<1>1. IsFiniteSet(1..MaxEdges) /\ IsFiniteSet(Field)
  <2>1. Fields - 1 \in Int /\ MaxEdges \in Int /\ 0 \in Int /\ 1 \in Int
    BY FactAssumption DEF MaxEdges
  <2> QED
    BY <2>1, FS_Interval, Zenon DEF Field
<1>2. IsFiniteSet(Reg \X (1..MaxEdges)) /\ IsFiniteSet(Obj \X Field)
  BY <1>1, FiniteAssumption, FS_Product
<1> QED
  BY <1>2 DEF Carried, CarriedBy

\* Only the handles of registers that owe something matter.
LEMMA CarriedSame ==
  ASSUME NEW q \in [Reg -> Int], NEW w, NEW x,
         \A r \in Reg : q[r] > 0 => x[r] = w[r]
  PROVE  CarriedBy(q, x) = CarriedBy(q, w)
<1>1. SUFFICES ASSUME NEW r \in Reg, NEW i \in 1..MaxEdges, i <= q[r]
               PROVE  x[r] = w[r]
  BY DEF CarriedBy
<1> QED
  BY <1>1 DEF MaxEdges

\* Register d gets one more edge.
LEMMA CarriedMore ==
  ASSUME NEW q \in [Reg -> Int], NEW w, NEW d \in Reg, q[d] \in 0..MaxEdges - 1,
         NEW x, q[d] > 0 => x[d] = w[d], \A r \in Reg \ {d} : x[r] = w[r],
         NEW m, m[d] = q[d] + 1, \A r \in Reg \ {d} : m[r] = q[r], NEW o \in Obj
  PROVE  /\ Ways(CarriedBy(m, x), o) = Ways(CarriedBy(q, w), o) + Hit(x[d], o)
         /\ Ways(CarriedBy(q, w), o) \in Nat
<1> DEFINE f == CarriedBy(q, w)
           g == CarriedBy(m, x)
           p == <<d, q[d] + 1>>
<1>1. DOMAIN f = Reg \X (1..MaxEdges) /\ DOMAIN g = DOMAIN f
  BY DEF CarriedBy
<1>2. p \in DOMAIN f
  BY <1>1 DEF MaxEdges
<1>3. f[p] = Null /\ g[p] = x[d]
  BY <1>2 DEF CarriedBy, MaxEdges
<1>4. ASSUME NEW e \in DOMAIN f \ {p} PROVE g[e] = f[e]
  <2>1. PICK r \in Reg, i \in 1..MaxEdges : e = <<r, i>>
    BY <1>1
  <2>2. /\ f[e] = IF i <= q[r] THEN w[r] ELSE Null
        /\ g[e] = IF i <= m[r] THEN x[r] ELSE Null
    BY <2>1 DEF CarriedBy
  <2>3. CASE r # d
    BY <2>2, <2>3
  <2>4. CASE r = d
    <3>1. i # q[d] + 1
      BY <1>4, <2>1, <2>4
    <3>2. i <= q[d] + 1 <=> i <= q[d]
      BY <3>1 DEF MaxEdges
    <3>3. i <= q[d] => q[d] > 0
      BY DEF MaxEdges
    <3> QED
      BY <2>2, <2>4, <3>2, <3>3
  <2> QED
    BY <2>3, <2>4
<1>5. IsFiniteSet(DOMAIN f)
  BY <1>1, CarriedPlaces
<1>6. Ways(f, o) \in Nat
  BY <1>5, WaysNat
<1> HIDE DEF f, g, p
<1>7. Ways(g, o) = Ways(f, o) - Hit(f[p], o) + Hit(g[p], o)
  BY <1>1, <1>2, <1>4, <1>5, WaysReplace
<1>8. f[p] # o /\ g[p] = x[d]
  BY <1>3, PathAssumption
<1>9. Ways(g, o) = Ways(f, o) + Hit(x[d], o)
  BY <1>6, <1>7, <1>8 DEF Hit
<1> QED
  BY <1>6, <1>9 DEF f, g

\* The verifier lets a register be consumed only if it owes enough.
LEMMA TakenOnce ==
  ASSUME Inductive, NEW v \in Reg, CanTake(flow, Once(v)), v \notin Zero
  PROVE  owed[v] \in 1..MaxEdges
<1>1. owed[v] \in flow.values[v] /\ flow.values[v] \subseteq 0..MaxEdges
  BY DEF Inductive, TypeOK, LedgerSound, Flow, Count
<1>2. Once(v)[v] = 1
  BY DEF Once
<1>3. 1 <= owed[v]
  BY <1>1, <1>2 DEF CanTake
<1> QED
  BY <1>1, <1>3 DEF MaxEdges

\* One register pays one edge.
LEMMA PaidOnce ==
  ASSUME Inductive, ZeroNull, NEW v \in Reg, CanTake(flow, Once(v)), NEW o \in Obj
  PROVE  /\ Ways(Carried, o)
              = Ways(CarriedBy(Pay(Once(v)), val), o) + Hit(val[v], o)
         /\ Ways(CarriedBy(Pay(Once(v)), val), o) \in Nat
<1> DEFINE q == Pay(Once(v))
<1>1. owed \in [Reg -> Int] /\ q \in [Reg -> Int]
  BY OnceNat, PaySound DEF Inductive, TypeOK
<1>2. \A r \in Reg : q[r] = IF r = v /\ r \notin Zero THEN owed[r] - 1 ELSE owed[r]
  BY <1>1, OnceNat, PayExact DEF Once, ZeroNull
<1> HIDE DEF q
<1>3. CASE v \in Zero
  <2>1. q = owed
    BY <1>1, <1>2, <1>3
  <2>2. val[v] # o
    BY <1>3, PathAssumption DEF ZeroNull
  <2>3. Ways(CarriedBy(owed, val), o) \in Nat
    BY CarriedPlaces, WaysNat DEF CarriedBy
  <2> QED
    BY <2>1, <2>2, <2>3, CarriedPlaces DEF Hit, q
<1>4. CASE v \notin Zero
  <2>1. q[v] \in 0..MaxEdges - 1 /\ q[v] + 1 = owed[v]
    BY <1>1, <1>2, <1>4, TakenOnce DEF MaxEdges
  <2>2. owed[v] = q[v] + 1 /\ \A r \in Reg \ {v} : owed[r] = q[r]
    BY <1>1, <1>2, <2>1
  <2>3. /\ Ways(CarriedBy(owed, val), o) = Ways(CarriedBy(q, val), o) + Hit(val[v], o)
        /\ Ways(CarriedBy(q, val), o) \in Nat
    BY <1>1, <2>1, <2>2, CarriedMore
  <2> QED
    BY <2>3, CarriedPlaces DEF q
<1> QED
  BY <1>3, <1>4

\* A register that owes nothing gets an edge to what it then holds.
LEMMA GainedEdge ==
  ASSUME Inductive, ZeroNull, NEW uses \in [Reg -> Nat], NEW d \in Reg, NEW lease,
         Gain(d, uses, lease), owed[d] = 0, uses[d] = 0, d \notin Zero,
         \A r \in Reg \ {d} : val'[r] = val[r], NEW o \in Obj
  PROVE  /\ Ways(Carried', o) = Ways(CarriedBy(Pay(uses), val), o) + Hit(val'[d], o)
         /\ Ways(CarriedBy(Pay(uses), val), o) \in Nat
<1> DEFINE q == Pay(uses)
<1>1. owed \in [Reg -> Int] /\ q \in [Reg -> Int]
  BY PaySound DEF Inductive, TypeOK
<1>2. q[d] = 0 /\ q[d] \in 0..MaxEdges - 1 /\ ~(q[d] > 0)
  BY <1>1, PayExact DEF MaxEdges
<1>3. owed'[d] = q[d] + 1 /\ \A r \in Reg \ {d} : owed'[r] = q[r]
  BY <1>1, <1>2 DEF Gain
<1> HIDE DEF q
<1>4. ASSUME NEW m, m[d] = q[d] + 1, \A r \in Reg \ {d} : m[r] = q[r],
             NEW x, \A r \in Reg \ {d} : x[r] = val[r]
      PROVE  /\ Ways(CarriedBy(m, x), o) = Ways(CarriedBy(q, val), o) + Hit(x[d], o)
             /\ Ways(CarriedBy(q, val), o) \in Nat
  <2>1. q[d] > 0 => x[d] = val[d]
    BY <1>2
  <2> QED
    BY <1>1, <1>2, <1>4, <2>1, CarriedMore
<1> QED
  BY <1>3, <1>4, CarriedPlaces DEF q

\* A register that owes less than the most gets one more edge to its object.
LEMMA OneMoreEdge ==
  ASSUME Inductive, NEW v \in Reg, owed[v] \in 0..MaxEdges - 1, UNCHANGED val,
         owed'[v] = owed[v] + 1, \A r \in Reg \ {v} : owed'[r] = owed[r],
         NEW o \in Obj
  PROVE  Ways(Carried', o) = Ways(Carried, o) + Hit(val[v], o)
<1>1. owed \in [Reg -> Int]
  BY DEF Inductive, TypeOK
<1>2. ASSUME NEW m, m[v] = owed[v] + 1, \A r \in Reg \ {v} : m[r] = owed[r]
      PROVE  Ways(CarriedBy(m, val), o) = Ways(CarriedBy(owed, val), o) + Hit(val[v], o)
  BY <1>1, <1>2, CarriedMore
<1>3. Ways(CarriedBy(owed', val), o) = Ways(CarriedBy(owed, val), o) + Hit(val[v], o)
  BY <1>2
<1> QED
  BY <1>3, CarriedPlaces

LEMMA PaidNothing ==
  ASSUME Inductive, ZeroNull
  PROVE  CarriedBy(Pay(NoUse), val) = Carried
<1>1. owed \in [Reg -> Int]
  BY DEF Inductive, TypeOK
<1>2. Pay(NoUse) = owed
  BY <1>1 DEF Pay, NoUse, ZeroNull
<1> QED
  BY <1>2, CarriedPlaces

\* A call pays one edge for each of its arguments.
LEMMA PaidArguments ==
  ASSUME Inductive, ZeroNull, NEW n \in Nat, NEW args \in [1..n -> Reg],
         CanTake(flow, Uses(args)), NEW a, a = [k \in 1..n |-> val[args[k]]],
         NEW o \in Obj
  PROVE  /\ Ways(Carried, o)
              = Ways(CarriedBy(Pay(Uses(args)), val), o) + Ways(a, o)
         /\ Ways(CarriedBy(Pay(Uses(args)), val), o) \in Nat
         /\ Ways(a, o) \in Nat
<1> DEFINE uses == Uses(args)
           Of(r) == {k \in 1..n : args[k] = r}
           q == Pay(uses)
           f == CarriedBy(owed, val)
           g == CarriedBy(q, val)
           K == {k \in 1..n : val[args[k]] = o}
           P == {e \in Reg \X (1..MaxEdges) : e[2] > q[e[1]]}
           L == {e \in DOMAIN f \cap P : f[e] = o}
<1>1. uses \in [Reg -> Nat] /\ owed \in [Reg -> Int]
  BY UsesNat DEF Inductive, TypeOK
<1>2. q \in [Reg -> Int] /\ \A r \in Reg : q[r] = IF r \in Zero THEN 0 ELSE owed[r] - uses[r]
  BY <1>1, PaySound, PayExact
<1>3. \A r \in Reg \ Zero : uses[r] <= owed[r] /\ owed[r] \in 0..MaxEdges
  BY <1>1 DEF Inductive, TypeOK, LedgerSound, Flow, Count, CanTake
<1>4. ASSUME NEW r \in Reg
      PROVE  \E b : /\ b \in [1..uses[r] -> Of(r)]
                    /\ \A i, j \in 1..uses[r] : b[i] = b[j] => i = j
                    /\ \A k \in Of(r) : \E i \in 1..uses[r] : b[i] = k
  <2>1. IsFiniteSet(Of(r)) /\ uses[r] = Cardinality(Of(r))
    <3>1. IsFiniteSet(1..n) /\ Of(r) \subseteq 1..n
      BY FS_Interval
    <3> QED
      BY <3>1, FS_Subset DEF Uses
  <2>2. ExistsBijection(1..uses[r], Of(r))
    BY <2>1, FS_CardinalityType
  <2>3. PICK b : b \in Bijection(1..uses[r], Of(r))
    BY <2>2 DEF ExistsBijection
  <2> QED
    BY <2>3 DEF Bijection, Injection, Surjection, IsInjective
<1> DEFINE b == [r \in Reg |-> CHOOSE c :
                   /\ c \in [1..uses[r] -> Of(r)]
                   /\ \A i, j \in 1..uses[r] : c[i] = c[j] => i = j
                   /\ \A k \in Of(r) : \E i \in 1..uses[r] : c[i] = k]
<1>5. ASSUME NEW r \in Reg
      PROVE  /\ b[r] \in [1..uses[r] -> Of(r)]
             /\ \A i, j \in 1..uses[r] : b[r][i] = b[r][j] => i = j
             /\ \A k \in Of(r) : \E i \in 1..uses[r] : b[r][i] = k
  BY <1>4
<1> HIDE DEF b, uses, q
<1>6. DOMAIN f = Reg \X (1..MaxEdges) /\ DOMAIN g = DOMAIN f
      /\ \A r \in Reg, i \in 1..MaxEdges :
           /\ f[<<r, i>>] = IF i <= owed[r] THEN val[r] ELSE Null
           /\ g[<<r, i>>] = IF i <= q[r] THEN val[r] ELSE Null
  BY DEF CarriedBy
<1>7. \A r \in Zero : val[r] # o
  BY PathAssumption DEF ZeroNull
<1>8. L = {e \in Reg \X (1..MaxEdges) :
             /\ e[1] \notin Zero /\ val[e[1]] = o
             /\ owed[e[1]] - uses[e[1]] < e[2] /\ e[2] <= owed[e[1]]}
  <2>1. ASSUME NEW r \in Reg, NEW i \in 1..MaxEdges
        PROVE  <<r, i>> \in L <=> /\ r \notin Zero /\ val[r] = o
                                 /\ owed[r] - uses[r] < i /\ i <= owed[r]
    BY <1>1, <1>2, <1>6, <1>7, PathAssumption DEF MaxEdges
  <2>2. L \subseteq Reg \X (1..MaxEdges)
    OBVIOUS
  <2> HIDE DEF L
  <2> QED
    BY <2>1, <2>2
<1>9. IsFiniteSet(DOMAIN f)
  BY <1>6, CarriedPlaces
<1>10. /\ IsFiniteSet(L) /\ Ways(f, o) = Ways(g, o) + Cardinality(L)
       /\ Ways(g, o) \in Nat
  <2>1. ASSUME NEW e \in L PROVE f[e] = o /\ g[e] # o
    <3>1. PICK r \in Reg, i \in 1..MaxEdges : e = <<r, i>> /\ i > q[r]
      BY <1>6
    <3>2. ~(i <= q[r])
      BY <1>2, <3>1 DEF MaxEdges
    <3>3. g[e] = Null
      BY <1>6, <3>1, <3>2
    <3> QED
      BY <3>3, PathAssumption
  <2>2. ASSUME NEW e \in DOMAIN f \ L PROVE f[e] = o <=> g[e] = o
    <3>1. PICK r \in Reg, i \in 1..MaxEdges : e = <<r, i>>
      BY <1>6
    <3>2. f[e] = o => i <= q[r]
      BY <1>2, <1>6, <2>2, <3>1 DEF MaxEdges
    <3>3. i <= q[r] /\ r \notin Zero => i <= owed[r]
      BY <1>1, <1>2 DEF MaxEdges
    <3>4. r \in Zero => val[r] # o
      BY <1>7
    <3> QED
      BY <1>6, <3>1, <3>2, <3>3, <3>4, PathAssumption
  <2>3. Ways(g, o) \in Nat
    BY <1>6, <1>9, WaysNat
  <2>4. DOMAIN g = DOMAIN f /\ L \subseteq DOMAIN f
    BY <1>6
  <2> HIDE DEF L, f, g
  <2>5. IsFiniteSet(L) /\ Ways(f, o) = Ways(g, o) + Cardinality(L)
    BY <1>9, <2>1, <2>2, <2>4, WaysRemove
  <2> QED
    BY <2>3, <2>5
<1> HIDE DEF L
<1>11. Cardinality(K) = Cardinality(L)
  <2> DEFINE m == [e \in L |-> b[e[1]][owed[e[1]] - e[2] + 1]]
  <2>1. ASSUME NEW e \in L
        PROVE  /\ e[1] \in Reg /\ val[e[1]] = o /\ e = <<e[1], e[2]>>
               /\ owed[e[1]] - e[2] + 1 \in 1..uses[e[1]]
               /\ owed[e[1]] \in Int /\ e[2] \in Int
    BY <1>1, <1>8 DEF MaxEdges
  <2>2. ASSUME NEW e \in L PROVE m[e] \in K /\ args[m[e]] = e[1]
    <3>2. b[e[1]] \in [1..uses[e[1]] -> Of(e[1])]
      BY <1>5, <2>1
    <3>1. m[e] \in Of(e[1])
      BY <2>1, <3>2
    <3> QED
      BY <2>1, <3>1
  <2>3. ASSUME NEW e \in L, NEW h \in L, m[e] = m[h] PROVE e = h
    <3>1. e[1] = h[1]
      BY <2>2, <2>3
    <3>2. b[e[1]][owed[e[1]] - e[2] + 1] = b[e[1]][owed[e[1]] - h[2] + 1]
      BY <2>3, <3>1
    <3> DEFINE i == owed[e[1]] - e[2] + 1
               j == owed[e[1]] - h[2] + 1
    <3>5. e[1] \in Reg /\ i \in 1..uses[e[1]] /\ j \in 1..uses[e[1]]
      BY <2>1, <3>1
    <3>6. b[e[1]][i] = b[e[1]][j]
      BY <3>2
    <3> HIDE DEF i, j
    <3>7. i = j
      BY <1>5, <3>5, <3>6
    <3>3. owed[e[1]] - e[2] + 1 = owed[e[1]] - h[2] + 1
      BY <3>7 DEF i, j
    <3>4. e[2] = h[2]
      BY <2>1, <3>3
    <3> QED
      BY <2>1, <3>1, <3>4
  <2>4. ASSUME NEW k \in K PROVE \E e \in L : m[e] = k
    <3> DEFINE r == args[k]
    <3>1. r \in Reg /\ k \in Of(r) /\ val[r] = o /\ r \notin Zero
      BY <1>7
    <3> HIDE DEF r
    <3>2. PICK i \in 1..uses[r] : b[r][i] = k
      BY <1>5, <3>1
    <3> DEFINE e == <<r, owed[r] - i + 1>>
    <3> DEFINE j == owed[r] - i + 1
    <3>6. uses[r] \in Nat /\ uses[r] <= owed[r] /\ owed[r] \in 0..MaxEdges
      BY <1>1, <1>3, <3>1
    <3>7. j \in 1..MaxEdges /\ owed[r] - uses[r] < j /\ j <= owed[r]
      BY <3>2, <3>6 DEF MaxEdges
    <3> HIDE DEF j
    <3>8. <<r, j>> \in L
      BY <1>8, <3>1, <3>7
    <3>3. e \in L
      BY <3>8 DEF j
    <3>4. owed[r] - (owed[r] - i + 1) + 1 = i
      BY <1>1, <3>1
    <3>5. m[e] = b[r][i]
      BY <3>3, <3>4
    <3> QED
      BY <3>2, <3>3, <3>5
  <2>5. m \in [L -> K]
    BY <2>2
  <2> HIDE DEF m, K
  <2> QED
    BY <1>10, <2>3, <2>4, <2>5, SameNumber
<1>12. Ways(a, o) = Cardinality(K)
  BY DEF Ways
<1>13. Cardinality(L) \in Nat
  BY <1>10, FS_CardinalityType
<1>14. Ways(Carried, o) = Ways(f, o)
  BY CarriedPlaces
<1> QED
  BY <1>10, <1>11, <1>12, <1>13, <1>14 DEF uses, q

\* The arguments of a call become the pending releases of the callee.
LEMMA PaidCall ==
  ASSUME Inductive, ZeroNull, NEW n \in Nat, NEW args \in [1..n -> Reg],
         CanTake(flow, Uses(args)), pending' = [k \in 1..n |-> val[args[k]]],
         NEW o \in Obj
  PROVE  /\ Ways(Carried, o)
              = Ways(CarriedBy(Pay(Uses(args)), val), o) + Ways(pending', o)
         /\ Ways(CarriedBy(Pay(Uses(args)), val), o) \in Nat
         /\ Ways(pending', o) \in Nat
<1>1. ASSUME NEW a, a = [k \in 1..n |-> val[args[k]]]
      PROVE  /\ Ways(Carried, o) = Ways(CarriedBy(Pay(Uses(args)), val), o) + Ways(a, o)
             /\ Ways(CarriedBy(Pay(Uses(args)), val), o) \in Nat
             /\ Ways(a, o) \in Nat
  BY <1>1, PaidArguments, Zenon
<1> QED
  BY <1>1, Zenon

-----------------------------------------------------------------------------
(* Counting the edges: slots, fields and pending releases.                 *)

StoredBy(c) == [q \in Obj \X Field |-> c[q[1]][q[2]]]

\* The terms of Edges are natural numbers.
LEMMA EdgesNat ==
  ASSUME Inductive, NEW o \in Obj
  PROVE  /\ Ways(Carried, o) \in Nat /\ Ways(cell, o) \in Nat
         /\ Ways(Stored, o) \in Nat /\ Ways(pending, o) \in Nat
         /\ Stored = StoredBy(child) /\ Stored' = StoredBy(child')
<1>1. DOMAIN Carried = Reg \X (1..MaxEdges) /\ DOMAIN Stored = Obj \X Field
  BY DEF Carried, Stored
<1>2. DOMAIN cell = Slot /\ pending \in Seq(Handle)
  BY DEF Inductive, TypeOK
<1>3. DOMAIN pending = 1..Len(pending) /\ Len(pending) \in Int /\ 1 \in Int
  BY <1>2
<1>4. IsFiniteSet(DOMAIN pending)
  BY <1>3, FS_Interval, Zenon
<1>5. /\ IsFiniteSet(DOMAIN Carried) /\ IsFiniteSet(DOMAIN cell)
      /\ IsFiniteSet(DOMAIN Stored)
  BY <1>1, <1>2, CarriedPlaces, FiniteAssumption
<1>6. Stored = StoredBy(child) /\ Stored' = StoredBy(child')
  BY DEF Stored, StoredBy
<1> QED
  BY <1>4, <1>5, <1>6, WaysNat

\* A slot is written.
LEMMA CellWritten ==
  ASSUME Inductive, NEW s \in Slot, NEW x, cell' = [cell EXCEPT ![s] = x],
         NEW o \in Obj
  PROVE  Ways(cell', o) = Ways(cell, o) - Hit(cell[s], o) + Hit(x, o)
<1>1. DOMAIN cell = Slot /\ DOMAIN cell' = Slot /\ IsFiniteSet(Slot)
  BY FiniteAssumption DEF Inductive, TypeOK
<1>2. cell'[s] = x /\ \A c \in Slot \ {s} : cell'[c] = cell[c]
  BY <1>1
<1>3. \A f, g : DOMAIN f = Slot /\ DOMAIN g = Slot
                /\ (\A c \in Slot \ {s} : g[c] = f[c])
              => Ways(g, o) = Ways(f, o) - Hit(f[s], o) + Hit(g[s], o)
  BY <1>1, WaysReplace
<1>4. Ways(cell', o) = Ways(cell, o) - Hit(cell[s], o) + Hit(cell'[s], o)
  BY <1>1, <1>2, <1>3
<1> QED
  BY <1>2, <1>4

\* A field is written.
LEMMA FieldWritten ==
  ASSUME NEW p \in Obj, NEW k \in Field, NEW o \in Obj,
         \A a \in Obj, i \in Field : <<a, i>> # <<p, k>> => child'[a][i] = child[a][i]
  PROVE  Ways(Stored', o) = Ways(Stored, o) - Hit(child[p][k], o) + Hit(child'[p][k], o)
<1> DEFINE D == Obj \X Field
           x == <<p, k>>
<1>1. IsFiniteSet(D) /\ x \in D
  BY CarriedPlaces
<1>2. DOMAIN Stored = D /\ DOMAIN Stored' = D
  BY DEF Stored
<1>3. Stored[x] = child[p][k] /\ Stored'[x] = child'[p][k]
  BY DEF Stored
<1>4. \A y \in D \ {x} : Stored'[y] = Stored[y]
  BY DEF Stored
<1> HIDE DEF D, x
<1>5. \A f, g : DOMAIN f = D /\ DOMAIN g = D /\ (\A y \in D \ {x} : g[y] = f[y])
              => Ways(g, o) = Ways(f, o) - Hit(f[x], o) + Hit(g[x], o)
  BY <1>1, WaysReplace
<1>6. Ways(Stored', o) = Ways(Stored, o) - Hit(Stored[x], o) + Hit(Stored'[x], o)
  BY <1>2, <1>4, <1>5
<1> QED
  BY <1>3, <1>6

\* The fields of an object are cleared and become pending releases.
LEMMA FieldsFreed ==
  ASSUME NEW p \in Obj, NEW o \in Obj,
         \A a \in Obj, i \in Field : child'[a][i] = IF a = p THEN Null ELSE child[a][i]
  PROVE  Ways(Stored, o) = Ways(Stored', o) + Ways(Children(p), o)
<1> DEFINE D == Obj \X Field
           K == {k \in 1..Fields : child[p][Fields - k] = o}
           L == {q \in D : q[1] = p /\ child[p][q[2]] = o}
<1>1. IsFiniteSet(D) /\ L \subseteq D
  BY CarriedPlaces
<1>2. /\ DOMAIN Stored = D /\ DOMAIN Stored' = D
      /\ \A a \in Obj, i \in Field : /\ Stored[<<a, i>>] = child[a][i]
                                   /\ Stored'[<<a, i>>] = child'[a][i]
  BY DEF Stored
<1>3. Fields \in Nat
  BY FactAssumption
<1>4. ASSUME NEW q \in L PROVE Stored[q] = o /\ Stored'[q] # o
  <2>1. PICK i \in Field : q = <<p, i>> /\ child[p][i] = o
    OBVIOUS
  <2>2. Stored[q] = child[p][i] /\ Stored'[q] = Null
    BY <1>2, <2>1
  <2> QED
    BY <2>1, <2>2, PathAssumption
<1>5. ASSUME NEW q \in D \ L PROVE Stored[q] = o <=> Stored'[q] = o
  <2>1. PICK a \in Obj, i \in Field : q = <<a, i>>
    OBVIOUS
  <2>2. a = p => child[a][i] # o
    BY <1>5, <2>1
  <2>3. Stored[q] = child[a][i] /\ Stored'[q] = IF a = p THEN Null ELSE child[a][i]
    BY <1>2, <2>1
  <2> QED
    BY <2>2, <2>3, PathAssumption
<1>6. IsFiniteSet(L) /\ Ways(Stored, o) = Ways(Stored', o) + Cardinality(L)
  <2> HIDE DEF D, L
  <2>1. ASSUME NEW f, NEW g, DOMAIN f = D, DOMAIN g = D,
               \A q \in L : f[q] = o /\ g[q] # o,
               \A q \in D \ L : f[q] = o <=> g[q] = o
        PROVE  IsFiniteSet(L) /\ Ways(f, o) = Ways(g, o) + Cardinality(L)
    <3>1. IsFiniteSet(DOMAIN f) /\ DOMAIN g = DOMAIN f /\ L \subseteq DOMAIN f
      BY <1>1, <2>1
    <3>2. \A q \in DOMAIN f \ L : f[q] = o <=> g[q] = o
      BY <2>1, Zenon
    <3> QED
      BY <2>1, <3>1, <3>2, WaysRemove
  <2>2. \A q \in L : Stored[q] = o /\ Stored'[q] # o
    BY <1>4, Zenon
  <2>3. \A q \in D \ L : Stored[q] = o <=> Stored'[q] = o
    BY <1>5, Zenon
  <2> QED
    BY <1>2, <2>1, <2>2, <2>3
<1>7. Cardinality(K) = Cardinality(L)
  <2> DEFINE m == [q \in L |-> Fields - q[2]]
  <2>1. ASSUME NEW q \in L
        PROVE  /\ m[q] \in K /\ q = <<p, q[2]>>
               /\ q[2] \in Int /\ m[q] = Fields - q[2]
    <3>1. /\ q = <<p, q[2]>> /\ q[2] \in 0..Fields - 1 /\ child[p][q[2]] = o
          /\ m[q] = Fields - q[2]
      BY DEF Field
    <3>2. Fields - (Fields - q[2]) = q[2] /\ Fields - q[2] \in 1..Fields
      BY <1>3, <3>1
    <3> QED
      BY <3>1, <3>2
  <2>2. ASSUME NEW q \in L, NEW r \in L, m[q] = m[r] PROVE q = r
    <3>1. q[2] \in Int /\ r[2] \in Int /\ Fields - q[2] = Fields - r[2]
      BY <2>1, <2>2, Zenon
    <3>2. q[2] = r[2]
      BY <1>3, <3>1
    <3> QED
      BY <2>1, <3>2
  <2>3. ASSUME NEW k \in K PROVE \E q \in L : m[q] = k
    <3>1. Fields - k \in Field /\ child[p][Fields - k] = o /\ Fields - (Fields - k) = k
      BY <1>3 DEF Field
    <3>2. <<p, Fields - k>> \in L /\ m[<<p, Fields - k>>] = k
      BY <3>1
    <3> QED
      BY <3>2
  <2>4. m \in [L -> K]
    BY <2>1
  <2> HIDE DEF m, K, L
  <2> QED
    BY <1>6, <2>2, <2>3, <2>4, SameNumber
<1>8. Ways(Children(p), o) = Cardinality(K)
  BY DEF Ways, Children
<1> QED
  BY <1>6, <1>7, <1>8

-----------------------------------------------------------------------------
(* The invariant of the objects.                                           *)

Exact == \A o \in Obj : rc[o] = Edges(o)
\* A dead object has released its fields; an object not yet allocated is dead.
DeadEmpty == \A o \in Obj, i \in Field : rc[o] = 0 => child[o][i] = Null
Unborn == \A o \in Obj \ born : rc[o] = 0
\* Nothing is released or owed after a return.
Finished == mode = "returned" => pending = <<>> /\ \A r \in Reg : owed[r] = 0
\* An aggregate in its construction slot is nobody else's, and the verifier
\* knows which of its recipe's fields are written.
ShellSound ==
  \A s \in Shell : held[s] =>
    /\ cell[s] \in Obj /\ rc[cell[s]] = 1
    /\ \A i \in Recipe[s] : child[cell[s]][i] \in Obj => TRUE \in flow.progress[<<s, i>>]
\* Objects do not own each other in a circle: some member of any set of
\* objects is owned by no other member.
Rooted ==
  \A T \in SUBSET Obj : T # {} =>
    \E o \in T : \A p \in T, i \in Field : child[p][i] # o

ObjectsSound ==
  /\ NoTrap /\ Exact /\ DeadEmpty /\ Unborn /\ Finished /\ ShellSound /\ Rooted

\* A way to an object is an edge, so the object is alive; with two ways to it
\* it has at least two owners.
LEMMA WayLives ==
  ASSUME Inductive, Exact, NEW o \in Obj
  PROVE  /\ rc[o] = Ways(Carried, o) + Ways(cell, o) + Ways(Stored, o) + Ways(pending, o)
                     + IF mode = "returned" /\ result = o THEN 1 ELSE 0
         /\ Ways(Carried, o) \in Nat /\ Ways(cell, o) \in Nat
         /\ Ways(Stored, o) \in Nat /\ Ways(pending, o) \in Nat
BY EdgesNat DEF Exact, Edges

\* There is no way to a dead object, and only one to an object that a slot
\* holds as its single owner.
LEMMA FewWays ==
  ASSUME Inductive, Exact, NEW o \in Obj
  PROVE  /\ rc[o] = 0 => Ways(Carried, o) = 0 /\ Ways(Stored, o) = 0
         /\ rc[o] = 1 /\ Ways(cell, o) > 0 =>
              Ways(cell, o) = 1 /\ Ways(Stored, o) = 0 /\ Ways(pending, o) = 0
<1> DEFINE e == IF mode = "returned" /\ result = o THEN 1 ELSE 0
<1>1. /\ rc[o] = Ways(Carried, o) + Ways(cell, o) + Ways(Stored, o) + Ways(pending, o) + e
      /\ Ways(Carried, o) \in Nat /\ Ways(cell, o) \in Nat
      /\ Ways(Stored, o) \in Nat /\ Ways(pending, o) \in Nat
  BY WayLives
<1>2. e \in Nat
  OBVIOUS
<1> HIDE DEF e
<1> QED
  BY <1>1, <1>2

\* A register that owes something keeps its object alive.
LEMMA CarriedLives ==
  ASSUME Inductive, NEW r \in Reg, owed[r] > 0, val[r] \in Obj
  PROVE  Ways(Carried, val[r]) > 0
<1>1. owed[r] \in Int
  BY DEF Inductive, TypeOK
<1>2. DOMAIN Carried = Reg \X (1..MaxEdges) /\ Carried[<<r, 1>>] = val[r]
  BY <1>1 DEF Carried, MaxEdges
<1>3. <<r, 1>> \in DOMAIN Carried /\ IsFiniteSet(DOMAIN Carried)
  BY <1>2, CarriedPlaces DEF MaxEdges
<1> QED
  BY <1>2, <1>3, WaysNat

LEMMA CellLives ==
  ASSUME Inductive, NEW s \in Slot, cell[s] \in Obj
  PROVE  Ways(cell, cell[s]) > 0
<1>1. DOMAIN cell = Slot /\ IsFiniteSet(Slot)
  BY FiniteAssumption DEF Inductive, TypeOK
<1> QED
  BY <1>1, WaysNat

LEMMA TwoCells ==
  ASSUME Inductive, NEW s \in Slot, NEW c \in Slot, c # s, cell[s] \in Obj,
         cell[c] = cell[s]
  PROVE  Ways(cell, cell[s]) > 1
<1>1. DOMAIN cell = Slot /\ IsFiniteSet(Slot)
  BY FiniteAssumption DEF Inductive, TypeOK
<1> QED
  BY <1>1, WaysTwo

LEMMA ChildLives ==
  ASSUME Inductive, NEW p \in Obj, NEW i \in Field, child[p][i] \in Obj
  PROVE  Ways(Stored, child[p][i]) > 0
<1>1. DOMAIN Stored = Obj \X Field /\ Stored[<<p, i>>] = child[p][i]
  BY DEF Stored
<1>2. <<p, i>> \in DOMAIN Stored /\ IsFiniteSet(DOMAIN Stored)
  BY <1>1, CarriedPlaces
<1> QED
  BY <1>1, <1>2, WaysNat

LEMMA PendingLives ==
  ASSUME Inductive, pending # <<>>, Head(pending) \in Obj
  PROVE  Ways(pending, Head(pending)) > 0
<1>1. pending \in Seq(Handle)
  BY DEF Inductive, TypeOK
<1>2. /\ Ways(pending, Head(pending)) = Hit(Head(pending), Head(pending))
                                        + Ways(Tail(pending), Head(pending))
      /\ Ways(Tail(pending), Head(pending)) \in Nat
  BY <1>1, WaysHead
<1> QED
  BY <1>2 DEF Hit

\* A field that InitializeField may write holds nothing yet.
LEMMA FieldVacant ==
  ASSUME Inductive, ShellSound, NEW s \in Shell, NEW v \in Reg, NEW i \in 0..Fields,
         NEW k \in Field, DoInitializeField(s, i, k, v)
  PROVE  /\ held[s] /\ cell[s] \in Obj /\ rc[cell[s]] = 1
         /\ child[cell[s]][k] \notin Obj
<1>1. s \in Owner /\ flow.cells[s] = {TRUE} /\ Shell \subseteq Owner
  BY SlotAssumption DEF DoInitializeField, InitializeFieldOk, Live
<1>2. held[s]
  BY <1>1 DEF Inductive, LedgerSound
<1>3. cell[s] \in Obj /\ rc[cell[s]] = 1
  BY <1>2 DEF ShellSound
<1>4. CASE i = k
  <2>1. k \in Recipe[s] /\ TRUE \notin flow.progress[<<s, k>>]
    BY <1>4 DEF DoInitializeField, InitializeFieldOk
  <2> QED
    BY <1>2, <1>3, <2>1 DEF ShellSound
<1>5. CASE i = Fields /\ k \notin Recipe[s] /\ child[cell[s]][k] = Null
  BY <1>2, <1>3, <1>5, PathAssumption
<1> QED
  BY <1>2, <1>3, <1>4, <1>5 DEF DoInitializeField

\* What the runtime does with the head of the pending releases: it is alive,
\* and when it dies no slot holds it any more.
LEMMA ReleaseFacts ==
  ASSUME Inductive, Exact, Release
  PROVE  /\ mode' = "running" /\ mode = "running" /\ pending # <<>>
         /\ Head(pending) \in Handle /\ Tail(pending) \in Seq(Handle)
         /\ pending \in Seq(Handle)
         /\ Head(pending) \in Obj => rc[Head(pending)] > 0
<1>1. pending \in Seq(Handle) /\ pending # <<>>
  BY DEF Inductive, TypeOK, Release
<1>2. Head(pending) \in Handle /\ Tail(pending) \in Seq(Handle)
  BY <1>1
<1>3. ASSUME Head(pending) \in Obj PROVE rc[Head(pending)] > 0
  BY <1>1, <1>3, WayLives, PendingLives
<1> QED
  BY <1>1, <1>2, <1>3 DEF Release, Handle

-----------------------------------------------------------------------------
(* Every instruction and every release keeps the count.                    *)

\* The edges after a step, term by term.
LEMMA EdgesNext ==
  ASSUME NEW o \in Obj
  PROVE  Edges(o)' = Ways(Carried', o) + Ways(cell', o) + Ways(Stored', o)
                     + Ways(pending', o) + IF mode' = "returned" /\ result' = o THEN 1 ELSE 0
BY DEF Edges

LEMMA ExactStep ==
  ASSUME Disciplined, Inductive, PlacesSound, ObjectsSound, [Next]_vars, NEW o \in Obj
  PROVE  rc'[o] = Edges(o)'
<1>0. /\ owed \in [Reg -> Int] /\ held \in [Slot -> BOOLEAN]
      /\ cell \in [Slot -> Handle \cup {Undef}]
      /\ val \in [Reg -> Handle \cup {Undef}]
      /\ child \in [Obj -> [Field -> Handle]] /\ rc \in [Obj -> Nat]
      /\ Owner \subseteq Slot /\ Shell \subseteq Slot /\ Zero \subseteq Reg
      /\ Null \notin Obj /\ Undef \notin Obj
      /\ ZeroNull /\ Vacant /\ Exact /\ Unborn /\ DeadEmpty /\ ShellSound
      /\ NoUse \in [Reg -> Nat] /\ \A v \in Reg : Once(v) \in [Reg -> Nat]
  BY SlotAssumption, FactAssumption, PathAssumption, NoUseNat, OnceNat
     DEF Inductive, TypeOK, PlacesSound, ObjectsSound
<1>a. /\ rc[o] = Ways(Carried, o) + Ways(cell, o) + Ways(Stored, o) + Ways(pending, o)
                  + IF mode = "returned" /\ result = o THEN 1 ELSE 0
      /\ Ways(Carried, o) \in Nat /\ Ways(cell, o) \in Nat
      /\ Ways(Stored, o) \in Nat /\ Ways(pending, o) \in Nat
  BY <1>0, WayLives
<1>b. /\ Carried = CarriedBy(owed, val) /\ Carried' = CarriedBy(owed', val')
      /\ Stored = StoredBy(child) /\ Stored' = StoredBy(child')
  BY CarriedPlaces, EdgesNat
<1>1. ASSUME NEW s \in Slot, DoAlloca(s) PROVE rc'[o] = Edges(o)'
  <2>1. UNCHANGED <<owed, val, cell, child, pending, rc, mode, result>>
    BY <1>1 DEF DoAlloca, ledger, heap
  <2> QED
    BY <1>a, <1>b, <2>1, EdgesNext
<1>2. ASSUME NEW s \in Slot, DoDropSlot(s) PROVE rc'[o] = Edges(o)'
  <2>1. Carried' = Carried
    BY <1>b, <1>2 DEF DoDropSlot
  <2>6. Ways(cell', o) = Ways(cell, o) - Hit(cell[s], o) + Hit(Null, o)
    BY <1>0, <1>2, CellWritten DEF DoDropSlot
  <2>2. pending = <<>> /\ pending' = <<cell[s]>>
    BY <1>2 DEF DoDropSlot, Running
  <2>3. Ways(pending, o) = 0 /\ Ways(pending', o) = Hit(cell[s], o)
    BY <2>2, WaysSingle
  <2>7. UNCHANGED <<rc, child, mode, result>> /\ mode = "running"
    BY <1>2 DEF DoDropSlot, Running, heap
  <2> QED
    BY <1>0, <1>a, <1>b, <2>1, <2>3, <2>6, <2>7, EdgesNext DEF Hit
<1>3. ASSUME NEW s \in Shell, DoConstruction(s) PROVE rc'[o] = Edges(o)'
  <2>1. UNCHANGED <<owed, val, cell, child, pending, rc, mode, result>>
    BY <1>3 DEF DoConstruction, ledger, heap
  <2> QED
    BY <1>a, <1>b, <2>1, EdgesNext
<1>4. ASSUME NEW s \in Slot, NEW v \in Reg, DoStoreOwned(s, v)
      PROVE  rc'[o] = Edges(o)'
  <2>1. Ways(Carried, o) = Ways(CarriedBy(Pay(Once(v)), val), o) + Hit(val[v], o)
        /\ Ways(CarriedBy(Pay(Once(v)), val), o) \in Nat
    BY <1>0, <1>4, PaidOnce DEF DoStoreOwned, StoreOwnedOk
  <2>2. Carried' = CarriedBy(Pay(Once(v)), val)
    BY <1>b, <1>4 DEF DoStoreOwned, Lose
  <2>6. Ways(cell', o) = Ways(cell, o) - Hit(cell[s], o) + Hit(val[v], o)
    BY <1>0, <1>4, CellWritten DEF DoStoreOwned
  <2>8. ~held[s]
    BY <1>4 DEF DoStoreOwned, StoreOwnedOk, PlaceVacant, Inductive, LedgerSound
  <2>9. cell[s] # o
    BY <1>0, <2>8 DEF Vacant
  <2>7. UNCHANGED <<rc, child, pending, mode, result>> /\ mode = "running"
    BY <1>4 DEF DoStoreOwned, Running, heap
  <2> QED
    BY <1>0, <1>a, <1>b, <2>1, <2>2, <2>6, <2>9, <2>7, EdgesNext DEF Hit
<1>5. ASSUME NEW s \in Slot, NEW v \in Reg, DoTransferSlot(s, v)
      PROVE  rc'[o] = Edges(o)'
  <2>1. CarriedBy(Pay(NoUse), val) = Carried
    BY <1>0, PaidNothing
  <2>3. /\ Gain(v, NoUse, lentCell[s])
        /\ owed[v] = 0 /\ v \notin Zero /\ NoUse[v] = 0
        /\ \A r \in Reg \ {v} : val'[r] = val[r]
    BY <1>0, <1>5, TransferFacts DEF DoTransferSlot, NoUse
  <2>4. /\ Ways(Carried', o) = Ways(CarriedBy(Pay(NoUse), val), o) + Hit(val'[v], o)
        /\ Ways(CarriedBy(Pay(NoUse), val), o) \in Nat
    BY <1>0, <2>3, GainedEdge
  <2>5. val'[v] = cell[s]
    BY <1>0, <1>5, TransferFacts DEF DoTransferSlot
  <2>6. Ways(cell', o) = Ways(cell, o) - Hit(cell[s], o) + Hit(Null, o)
    BY <1>0, <1>5, CellWritten DEF DoTransferSlot
  <2>7. UNCHANGED <<rc, child, pending, mode, result>> /\ mode = "running"
    BY <1>5 DEF DoTransferSlot, Running, heap
  <2> QED
    BY <1>0, <1>a, <1>b, <2>1, <2>4, <2>5, <2>6, <2>7, EdgesNext DEF Hit
<1>6. ASSUME NEW s \in Slot, NEW v \in Reg, DoResourceInitialize(s, v)
      PROVE  rc'[o] = Edges(o)'
  <2>1. Ways(Carried, o) = Ways(CarriedBy(Pay(Once(v)), val), o) + Hit(val[v], o)
        /\ Ways(CarriedBy(Pay(Once(v)), val), o) \in Nat
    BY <1>0, <1>6, PaidOnce DEF DoResourceInitialize, ResourceInitializeOk
  <2>2. Carried' = CarriedBy(Pay(Once(v)), val)
    BY <1>b, <1>6 DEF DoResourceInitialize, Lose
  <2>6. Ways(cell', o) = Ways(cell, o) - Hit(cell[s], o) + Hit(val[v], o)
    BY <1>0, <1>6, CellWritten DEF DoResourceInitialize
  <2>8. ~held[s]
    BY <1>6 DEF DoResourceInitialize, PlaceVacant
  <2>9. cell[s] # o
    BY <1>0, <2>8 DEF Vacant
  <2>7. UNCHANGED <<rc, child, pending, mode, result>> /\ mode = "running"
    BY <1>6 DEF DoResourceInitialize, Running, heap
  <2> QED
    BY <1>0, <1>a, <1>b, <2>1, <2>2, <2>6, <2>9, <2>7, EdgesNext DEF Hit
<1>7. ASSUME NEW s \in Slot, NEW d \in Reg, DoMove(d, s)
      PROVE  rc'[o] = Edges(o)'
  <2>1. CarriedBy(Pay(NoUse), val) = Carried
    BY <1>0, PaidNothing
  <2>3. /\ Gain(d, NoUse, lentCell[s])
        /\ owed[d] = 0 /\ d \notin Zero /\ NoUse[d] = 0
        /\ \A r \in Reg \ {d} : val'[r] = val[r]
    BY <1>0, <1>7 DEF DoMove, BuilderDefines, NoUse, Once
  <2>4. /\ Ways(Carried', o) = Ways(CarriedBy(Pay(NoUse), val), o) + Hit(val'[d], o)
        /\ Ways(CarriedBy(Pay(NoUse), val), o) \in Nat
    BY <1>0, <2>3, GainedEdge
  <2>5. val'[d] = cell[s]
    BY <1>0, <1>7 DEF DoMove
  <2>6. Ways(cell', o) = Ways(cell, o) - Hit(cell[s], o) + Hit(Null, o)
    BY <1>0, <1>7, CellWritten DEF DoMove
  <2>7. UNCHANGED <<rc, child, pending, mode, result>> /\ mode = "running"
    BY <1>7 DEF DoMove, Running, heap
  <2> QED
    BY <1>0, <1>a, <1>b, <2>1, <2>4, <2>5, <2>6, <2>7, EdgesNext DEF Hit
<1>8. ASSUME NEW s \in Slot, NEW d \in Reg, DoObserve(d, s)
      PROVE  rc'[o] = Edges(o)'
  <2>1. UNCHANGED <<owed, cell, child, pending, rc, mode, result>>
    BY <1>8 DEF DoObserve, ledger, heap
  <2>2. \A r \in Reg : owed[r] > 0 => val'[r] = val[r]
    BY <1>0, <1>8 DEF DoObserve, BuilderDefines
  <2>3. Carried' = Carried
    BY <1>0, <1>b, <2>1, <2>2, CarriedSame
  <2> QED
    BY <1>a, <1>b, <2>1, <2>3, EdgesNext
<1>9. ASSUME NEW s \in Slot, NEW d \in Reg, DoResourceTake(d, s)
      PROVE  rc'[o] = Edges(o)'
  <2>1. CarriedBy(Pay(NoUse), val) = Carried
    BY <1>0, PaidNothing
  <2>3. /\ Gain(d, NoUse, lentCell[s])
        /\ owed[d] = 0 /\ d \notin Zero /\ NoUse[d] = 0
        /\ \A r \in Reg \ {d} : val'[r] = val[r]
    BY <1>0, <1>9 DEF DoResourceTake, BuilderDefines, NoUse, Once
  <2>4. /\ Ways(Carried', o) = Ways(CarriedBy(Pay(NoUse), val), o) + Hit(val'[d], o)
        /\ Ways(CarriedBy(Pay(NoUse), val), o) \in Nat
    BY <1>0, <2>3, GainedEdge
  <2>5. val'[d] = cell[s]
    BY <1>0, <1>9 DEF DoResourceTake
  <2>6. Ways(cell', o) = Ways(cell, o) - Hit(cell[s], o) + Hit(Null, o)
    BY <1>0, <1>9, CellWritten DEF DoResourceTake
  <2>7. UNCHANGED <<rc, child, pending, mode, result>> /\ mode = "running"
    BY <1>9 DEF DoResourceTake, Running, heap
  <2> QED
    BY <1>0, <1>a, <1>b, <2>1, <2>4, <2>5, <2>6, <2>7, EdgesNext DEF Hit
<1>10. ASSUME NEW s \in Slot, NEW d \in Reg, NEW v \in Reg, DoSwapValue(d, s, v)
      PROVE  rc'[o] = Edges(o)'
  <2>1. Ways(Carried, o) = Ways(CarriedBy(Pay(Once(v)), val), o) + Hit(val[v], o)
        /\ Ways(CarriedBy(Pay(Once(v)), val), o) \in Nat
    BY <1>0, <1>10, PaidOnce DEF DoSwapValue, SwapValueOk
  <2>3. /\ Gain(d, Once(v), lentCell[s])
        /\ owed[d] = 0 /\ d \notin Zero /\ Once(v)[d] = 0
        /\ \A r \in Reg \ {d} : val'[r] = val[r]
    BY <1>0, <1>10 DEF DoSwapValue, BuilderDefines, NoUse, Once
  <2>4. /\ Ways(Carried', o) = Ways(CarriedBy(Pay(Once(v)), val), o) + Hit(val'[d], o)
        /\ Ways(CarriedBy(Pay(Once(v)), val), o) \in Nat
    BY <1>0, <2>3, GainedEdge
  <2>5. val'[d] = cell[s]
    BY <1>0, <1>10 DEF DoSwapValue
  <2>6. Ways(cell', o) = Ways(cell, o) - Hit(cell[s], o) + Hit(val[v], o)
    BY <1>0, <1>10, CellWritten DEF DoSwapValue
  <2>7. UNCHANGED <<rc, child, pending, mode, result>> /\ mode = "running"
    BY <1>10 DEF DoSwapValue, Running, heap
  <2> QED
    BY <1>0, <1>a, <1>b, <2>1, <2>4, <2>5, <2>6, <2>7, EdgesNext DEF Hit
<1>11. ASSUME NEW s \in Shell, NEW v \in Reg, NEW i \in 0..Fields, NEW k \in Field, DoInitializeField(s, i, k, v)
      PROVE  rc'[o] = Edges(o)'
  <2>1. Ways(Carried, o) = Ways(CarriedBy(Pay(Once(v)), val), o) + Hit(val[v], o)
        /\ Ways(CarriedBy(Pay(Once(v)), val), o) \in Nat
    BY <1>0, <1>11, PaidOnce DEF DoInitializeField, InitializeFieldOk
  <2>2. Carried' = CarriedBy(Pay(Once(v)), val)
    BY <1>b, <1>11 DEF DoInitializeField, Lose
  <2>3. cell[s] \in Obj /\ child[cell[s]][k] \notin Obj
    BY <1>0, <1>11, FieldVacant
  <2>4. child' = [child EXCEPT ![cell[s]][k] = val[v]]
    BY <1>11 DEF DoInitializeField
  <2>5. /\ child'[cell[s]][k] = val[v]
        /\ \A a \in Obj, j \in Field : <<a, j>> # <<cell[s], k>> => child'[a][j] = child[a][j]
    BY <1>0, <2>3, <2>4
  <2>6. Ways(Stored', o) = Ways(Stored, o) - Hit(child[cell[s]][k], o) + Hit(child'[cell[s]][k], o)
    BY <2>3, <2>5, FieldWritten
  <2>7. UNCHANGED <<rc, pending, mode, result, cell>> /\ mode = "running"
    BY <1>11 DEF DoInitializeField, Running, heap
  <2> QED
    BY <1>0, <1>a, <1>b, <2>1, <2>2, <2>3, <2>5, <2>6, <2>7, EdgesNext DEF Hit
<1>12. ASSUME NEW d \in Reg, DoAlloc(d) PROVE rc'[o] = Edges(o)'
  <2>1. CarriedBy(Pay(NoUse), val) = Carried
    BY <1>0, PaidNothing
  <2>3. /\ Gain(d, NoUse, FALSE)
        /\ owed[d] = 0 /\ d \notin Zero /\ NoUse[d] = 0
        /\ \A r \in Reg \ {d} : val'[r] = val[r]
    BY <1>0, <1>12 DEF DoAlloc, BuilderDefines, NoUse, Once
  <2>4. /\ Ways(Carried', o) = Ways(CarriedBy(Pay(NoUse), val), o) + Hit(val'[d], o)
        /\ Ways(CarriedBy(Pay(NoUse), val), o) \in Nat
    BY <1>0, <2>3, GainedEdge
  <2>8. PICK x \in Fresh : NewObject(x, [i \in Field |-> Null]) /\ val' = [val EXCEPT ![d] = x]
    BY <1>12 DEF DoAlloc
  <2>9. x \in Obj /\ rc[x] = 0 /\ rc'[o] = rc[o] + Hit(x, o) /\ val'[d] = x
    BY <1>0, <2>8 DEF NewObject, Fresh, Unborn, Hit
  <2>10. child' = [child EXCEPT ![x] = [i \in Field |-> Null]]
    BY <2>8 DEF NewObject
  <2>11. child' = child
    <3>1. child[x] = [i \in Field |-> Null]
      BY <1>0, <2>9 DEF DeadEmpty
    <3> QED
      BY <1>0, <2>9, <2>10, <3>1
  <2>7. UNCHANGED <<cell, pending, mode, result>> /\ mode = "running"
    BY <1>12, <2>8 DEF DoAlloc, Running, NewObject
  <2> QED
    BY <1>0, <1>a, <1>b, <2>1, <2>4, <2>7, <2>9, <2>11, EdgesNext DEF Hit
<1>13. ASSUME NEW v \in Reg, DoRet(v) PROVE rc'[o] = Edges(o)'
  <2>1. Ways(Carried, o) = Ways(CarriedBy(Pay(Once(v)), val), o) + Hit(val[v], o)
        /\ Ways(CarriedBy(Pay(Once(v)), val), o) \in Nat
    BY <1>0, <1>13, PaidOnce DEF DoRet, RetOk
  <2>2. Carried' = CarriedBy(Pay(Once(v)), val)
    BY <1>b, <1>13 DEF DoRet, Lose
  <2>3. mode' = "returned" /\ result' = val[v]
    BY <1>13 DEF DoRet
  <2>7. UNCHANGED <<rc, child, pending, cell>> /\ mode = "running"
    BY <1>13 DEF DoRet, Running, heap
  <2> QED
    BY <1>0, <1>a, <1>b, <2>1, <2>2, <2>3, <2>7, EdgesNext DEF Hit
<1>14. ASSUME NEW v \in Reg, NEW recipe \in {"Managed", "Temporary"}, DoDropValue(v, recipe)
      PROVE  rc'[o] = Edges(o)'
  <2>1. Ways(Carried, o) = Ways(CarriedBy(Pay(Once(v)), val), o) + Hit(val[v], o)
        /\ Ways(CarriedBy(Pay(Once(v)), val), o) \in Nat
    BY <1>0, <1>14, PaidOnce DEF DoDropValue, DropValueOk
  <2>2. Carried' = CarriedBy(Pay(Once(v)), val)
    BY <1>b, <1>14 DEF DoDropValue, Lose
  <2>3. pending = <<>> /\ pending' = <<val[v]>> /\ cell' = cell
    BY <1>14 DEF DoDropValue, Running
  <2>4. Ways(pending, o) = 0 /\ Ways(pending', o) = Hit(val[v], o)
    BY <2>3, WaysSingle
  <2>7. UNCHANGED <<rc, child, mode, result>> /\ mode = "running"
    BY <1>14 DEF DoDropValue, Running
  <2>8. Edges(o)' = Ways(Carried', o) + Ways(cell, o) + Ways(Stored, o) + Ways(pending', o) + 0
    BY <1>b, <2>3, <2>7, EdgesNext
  <2> QED
    BY <1>a, <2>1, <2>2, <2>4, <2>7, <2>8 DEF Hit
<1>15. ASSUME NEW v \in Reg, NEW kind \in {"ImmutableBacking", "Evaluation"}, DoAcquire(v, kind)
      PROVE  rc'[o] = Edges(o)'
  <2>1. UNCHANGED <<val, cell, child, pending, result>>
    BY <1>15 DEF DoAcquire
  <2>2. CASE v \in Zero
    <3>1. owed' = owed /\ val[v] = Null
      BY <1>0, <1>15, <2>2 DEF DoAcquire, ZeroNull
    <3>2. UNCHANGED <<rc, mode>>
      BY <1>15, <3>1 DEF DoAcquire, Retain
    <3> QED
      BY <1>a, <1>b, <2>1, <3>1, <3>2, EdgesNext
  <2>3. CASE v \notin Zero
    <3>1. owed[v] \in flow.values[v] /\ flow.values[v] \subseteq 0..MaxEdges
      BY <2>3 DEF Inductive, TypeOK, LedgerSound, Flow, Count
    <3>2. owed[v] \in 0..MaxEdges - 1
      BY <1>15, <2>3, <3>1 DEF DoAcquire, AcquireOk, MaxEdges
    <3>3. owed'[v] = owed[v] + 1 /\ \A r \in Reg \ {v} : owed'[r] = owed[r]
      BY <1>0, <1>15, <2>3 DEF DoAcquire
    <3>5. Ways(Carried', o) = Ways(Carried, o) + Hit(val[v], o)
      BY <2>1, <3>2, <3>3, OneMoreEdge
    <3>6. rc'[o] = rc[o] + Hit(val[v], o) /\ mode' = mode
      <4>1. val[v] \in Handle
        BY <1>0, <1>15 DEF DoAcquire
      <4>2. CASE val[v] = Null
        BY <1>0, <1>15, <4>2 DEF DoAcquire, Retain, Hit
      <4>3. CASE val[v] \in Obj
        <5>1. rc[val[v]] > 0 /\ val[v] # Null
          BY <1>0, <1>15, <4>3 DEF DoAcquire, LoanLive
        <5>2. rc' = [rc EXCEPT ![val[v]] = @ + 1] /\ mode' = mode
          BY <1>15, <5>1 DEF DoAcquire, Retain
        <5> QED
          BY <1>0, <4>3, <5>2 DEF Hit
      <4> QED
        BY <4>1, <4>2, <4>3 DEF Handle
    <3> QED
      BY <1>0, <1>a, <1>b, <2>1, <3>5, <3>6, EdgesNext DEF Hit
  <2> QED
    BY <2>2, <2>3
<1>16. ASSUME NEW d \in Reg, NEW v \in Reg, DoOwnedCast(d, v)
      PROVE  rc'[o] = Edges(o)'
  <2>1. Ways(Carried, o) = Ways(CarriedBy(Pay(Once(v)), val), o) + Hit(val[v], o)
        /\ Ways(CarriedBy(Pay(Once(v)), val), o) \in Nat
    BY <1>0, <1>16, PaidOnce DEF DoOwnedCast, OwnedCastOk
  <2>3. /\ Gain(d, Once(v), lent[v])
        /\ owed[d] = 0 /\ d \notin Zero /\ Once(v)[d] = 0
        /\ \A r \in Reg \ {d} : val'[r] = val[r]
    BY <1>0, <1>16 DEF DoOwnedCast, BuilderDefines, NoUse, Once
  <2>4. /\ Ways(Carried', o) = Ways(CarriedBy(Pay(Once(v)), val), o) + Hit(val'[d], o)
        /\ Ways(CarriedBy(Pay(Once(v)), val), o) \in Nat
    BY <1>0, <2>3, GainedEdge
  <2>5. val'[d] = val[v]
    BY <1>0, <1>16 DEF DoOwnedCast
  <2>7. UNCHANGED <<rc, child, pending, mode, result, cell>> /\ mode = "running"
    BY <1>16 DEF DoOwnedCast, Running, heap
  <2> QED
    BY <1>0, <1>a, <1>b, <2>1, <2>4, <2>5, <2>7, EdgesNext DEF Hit
<1>17. ASSUME NEW d \in Reg, NEW v \in Reg, DoBorrowValue(d, v)
      PROVE  rc'[o] = Edges(o)'
  <2>1. UNCHANGED <<owed, cell, child, pending, rc, mode, result>>
    BY <1>17 DEF DoBorrowValue, ledger, heap
  <2>2. \A r \in Reg : owed[r] > 0 => val'[r] = val[r]
    BY <1>0, <1>17 DEF DoBorrowValue, BuilderDefines
  <2>3. Carried' = Carried
    BY <1>0, <1>b, <2>1, <2>2, CarriedSame
  <2> QED
    BY <1>a, <1>b, <2>1, <2>3, EdgesNext
<1>18. ASSUME NEW d \in Reg, NEW v \in Reg, NEW kind \in {"FatPtr", "Closure"}, DoWrap(d, v, kind)
      PROVE  rc'[o] = Edges(o)'
  <2>1. Ways(Carried, o) = Ways(CarriedBy(Pay(Once(v)), val), o) + Hit(val[v], o)
        /\ Ways(CarriedBy(Pay(Once(v)), val), o) \in Nat
    BY <1>0, <1>18, PaidOnce DEF DoWrap, WrapOk
  <2>3. /\ Gain(d, Once(v), FALSE)
        /\ owed[d] = 0 /\ d \notin Zero /\ Once(v)[d] = 0
        /\ \A r \in Reg \ {d} : val'[r] = val[r]
    BY <1>0, <1>18 DEF DoWrap, BuilderDefines, NoUse, Once
  <2>4. /\ Ways(Carried', o) = Ways(CarriedBy(Pay(Once(v)), val), o) + Hit(val'[d], o)
        /\ Ways(CarriedBy(Pay(Once(v)), val), o) \in Nat
    BY <1>0, <2>3, GainedEdge
  <2>8. PICK x \in Fresh : NewObject(x, [j \in Field |-> IF j = 0 THEN val[v] ELSE Null]) /\ val' = [val EXCEPT ![d] = x]
    BY <1>18 DEF DoWrap
  <2>9. x \in Obj /\ rc[x] = 0 /\ rc'[o] = rc[o] + Hit(x, o) /\ val'[d] = x
    BY <1>0, <2>8 DEF NewObject, Fresh, Unborn, Hit
  <2>10. child' = [child EXCEPT ![x] = [j \in Field |-> IF j = 0 THEN val[v] ELSE Null]]
    BY <2>8 DEF NewObject
  <2>11. 0 \in Field /\ \A j \in Field : child[x][j] = Null
    BY <1>0, <2>9, FactAssumption DEF DeadEmpty, Field
  <2>12. /\ child'[x][0] = val[v]
         /\ \A a \in Obj, j \in Field : <<a, j>> # <<x, 0>> => child'[a][j] = child[a][j]
    BY <1>0, <2>9, <2>10, <2>11
  <2>13. Ways(Stored', o) = Ways(Stored, o) - Hit(child[x][0], o) + Hit(child'[x][0], o)
    BY <2>9, <2>11, <2>12, FieldWritten
  <2>7. UNCHANGED <<cell, pending, mode, result>> /\ mode = "running"
    BY <1>18, <2>8 DEF DoWrap, Running, NewObject
  <2> QED
    <3>1. Edges(o)' = Ways(Carried', o) + Ways(cell, o) + Ways(Stored', o) + Ways(pending, o) + 0
      BY <2>7, EdgesNext
    <3>2. Ways(Stored', o) = Ways(Stored, o) + Hit(val[v], o)
      BY <1>0, <1>a, <2>11, <2>12, <2>13 DEF Hit
    <3> QED
      BY <1>a, <2>1, <2>4, <2>7, <2>9, <3>1, <3>2 DEF Hit
<1>19. ASSUME NEW d \in Reg, NEW n \in 0..MaxArgs, NEW args \in [1..n -> Reg], DoCall(args, d)
      PROVE  rc'[o] = Edges(o)'
  <2>1. /\ n \in Nat /\ CanTake(flow, Uses(args)) /\ DOMAIN args = 1..n
        /\ Uses(args) \in [Reg -> Nat]
    BY <1>19, UsesNat, PathAssumption DEF DoCall, CallOk
  <2>2. pending' = [k \in 1..n |-> val[args[k]]] /\ pending = <<>>
    BY <1>19, <2>1 DEF DoCall, Running
  <2>4. /\ Ways(Carried, o)
             = Ways(CarriedBy(Pay(Uses(args)), val), o) + Ways(pending', o)
        /\ Ways(CarriedBy(Pay(Uses(args)), val), o) \in Nat
        /\ Ways(pending', o) \in Nat
    BY <1>0, <2>1, <2>2, PaidCall
  <2>3. Ways(pending, o) = 0
    BY <2>2, WaysSingle
  <2>5. Uses(args)[d] = 0
    <3>1. {k \in DOMAIN args : args[k] = d} = {}
      BY <1>19 DEF DoCall
    <3> QED
      BY <3>1, FS_EmptySet DEF Uses
  <2>6. /\ Gain(d, Uses(args), FALSE) /\ owed[d] = 0 /\ d \notin Zero
        /\ \A r \in Reg \ {d} : val'[r] = val[r]
    BY <1>0, <1>19 DEF DoCall, BuilderDefines
  <2>7. Ways(Carried', o) = Ways(CarriedBy(Pay(Uses(args)), val), o) + Hit(val'[d], o)
    BY <1>0, <2>1, <2>5, <2>6, GainedEdge
  <2>8. rc'[o] = rc[o] + Hit(val'[d], o)
    <3>1. PICK x \in Fresh \cup {Null} :
             /\ val' = [val EXCEPT ![d] = x]
             /\ rc' = [p \in Obj |-> IF p = x THEN 1 ELSE rc[p]]
      BY <1>19 DEF DoCall
    <3>2. x = o => rc[o] = 0
      BY <1>0, <3>1 DEF Unborn, Fresh
    <3> QED
      BY <1>0, <3>1, <3>2 DEF Hit
  <2>9. UNCHANGED <<cell, child, mode, result>> /\ mode = "running"
    BY <1>19 DEF DoCall, Running
  <2> QED
    BY SMTT(30), <1>0, <1>a, <1>b, <2>3, <2>4, <2>7, <2>8, <2>9, EdgesNext DEF Hit
<1>20. ASSUME Release PROVE rc'[o] = Edges(o)'
  <2> DEFINE h == Head(pending)
             t == Tail(pending)
  <2>1. /\ mode' = "running" /\ mode = "running" /\ pending # <<>>
        /\ h \in Handle /\ t \in Seq(Handle) /\ pending \in Seq(Handle)
        /\ h \in Obj => rc[h] > 0
    BY <1>0, <1>20, ReleaseFacts
  <2>2. Ways(pending, o) = Hit(h, o) + Ways(t, o) /\ Ways(t, o) \in Nat
    BY <2>1, WaysHead
  <2>3. UNCHANGED <<owed, val, cell, result>> /\ Carried' = Carried
    BY <1>b, <1>20 DEF Release, ledger
  <2>4. CASE h = Null
    <3>1. UNCHANGED <<rc, child>> /\ pending' = t
      BY <1>20, <2>4 DEF Release
    <3> QED
      BY <1>0, <1>a, <1>b, <2>1, <2>2, <2>3, <2>4, <3>1, EdgesNext DEF Hit
  <2>5. CASE h \in Obj /\ rc[h] > 1
    <3>1. rc' = [rc EXCEPT ![h] = @ - 1] /\ pending' = t /\ child' = child
      BY <1>0, <1>20, <2>5 DEF Release
    <3>2. rc'[o] = rc[o] - Hit(h, o)
      BY <1>0, <2>5, <3>1 DEF Hit
    <3> QED
      BY <1>0, <1>a, <1>b, <2>1, <2>2, <2>3, <3>1, <3>2, EdgesNext DEF Hit
  <2>6. CASE h \in Obj /\ rc[h] = 1
    <3>1. /\ rc' = [rc EXCEPT ![h] = 0] /\ pending' = Children(h) \o t
          /\ child' = [child EXCEPT ![h] = [i \in Field |-> Null]]
      BY <1>0, <1>20, <2>6 DEF Release
    <3>2. rc'[o] = rc[o] - Hit(h, o)
      BY <1>0, <2>6, <3>1 DEF Hit
    <3>3. Fields \in Nat /\ \A k \in 1..Fields : Fields - k \in Field
      BY FactAssumption DEF Field
    <3>4. /\ DOMAIN Children(h) = 1..Fields
          /\ \A k \in 1..Fields : Children(h)[k] = child[h][Fields - k]
          /\ Children(h) \in Seq(Handle)
      BY <1>0, <2>6, <3>3 DEF Children
    <3>5. /\ Ways(pending', o) = Ways(Children(h), o) + Ways(t, o)
          /\ Ways(Children(h), o) \in Nat
      BY <2>1, <3>1, <3>4, WaysConcat
    <3>6. \A a \in Obj, i \in Field : child'[a][i] = IF a = h THEN Null ELSE child[a][i]
      BY <1>0, <2>6, <3>1
    <3>8. Ways(Stored, o) = Ways(Stored', o) + Ways(Children(h), o)
      BY <2>6, <3>6, FieldsFreed
    <3>9. Ways(Stored', o) \in Nat
      BY <1>b, WaysNat, CarriedPlaces DEF StoredBy
    <3>10. Edges(o)' = Ways(Carried, o) + Ways(cell, o) + Ways(Stored', o) + Ways(pending', o) + 0
      BY <2>1, <2>3, EdgesNext
    <3> QED
      BY <1>a, <2>1, <2>2, <3>2, <3>5, <3>8, <3>9, <3>10 DEF Hit
  <2> QED
    BY <1>0, <2>1, <2>4, <2>5, <2>6 DEF Handle
<1>21. ASSUME DoJoin PROVE rc'[o] = Edges(o)'
  <2>1. UNCHANGED <<owed, val, cell, child, pending, rc, mode, result>>
    BY <1>21 DEF DoJoin, ledger, heap
  <2> QED
    BY <1>a, <1>b, <2>1, EdgesNext
<1>22. ASSUME UNCHANGED vars PROVE rc'[o] = Edges(o)'
  <2>1. UNCHANGED <<owed, val, cell, child, pending, rc, mode, result>>
    BY <1>22 DEF vars, ledger, heap
  <2> QED
    BY <1>a, <1>b, <2>1, EdgesNext
<1> QED
  BY <1>1, <1>2, <1>3, <1>4, <1>5, <1>6, <1>7, <1>8, <1>9, <1>10, <1>11,
     <1>12, <1>13, <1>14, <1>15, <1>16, <1>17, <1>18, <1>19, <1>20, <1>21,
     <1>22 DEF Next, Slots, Values

-----------------------------------------------------------------------------
(* The other parts of the invariant of the objects.                        *)

LEMMA LivesStep ==
  ASSUME Inductive, ObjectsSound, [Next]_vars
  PROVE  NoTrap' /\ DeadEmpty' /\ Unborn'
<1>0. /\ rc \in [Obj -> Nat] /\ child \in [Obj -> [Field -> Handle]] /\ born \subseteq Obj
      /\ Null \notin Obj /\ Obj \subseteq Handle
      /\ NoTrap /\ DeadEmpty /\ Unborn /\ ShellSound /\ Exact
  BY PathAssumption DEF Inductive, TypeOK, ObjectsSound, Handle
<1> USE DEF NoTrap, DeadEmpty, Unborn
<1>1. ASSUME NEW s \in Slot, DoAlloca(s)
      PROVE  NoTrap' /\ DeadEmpty' /\ Unborn'
  BY <1>0, <1>1 DEF DoAlloca, heap
<1>2. ASSUME NEW s \in Slot, DoDropSlot(s)
      PROVE  NoTrap' /\ DeadEmpty' /\ Unborn'
  BY <1>0, <1>2 DEF DoDropSlot, heap
<1>3. ASSUME NEW s \in Shell, DoConstruction(s)
      PROVE  NoTrap' /\ DeadEmpty' /\ Unborn'
  BY <1>0, <1>3 DEF DoConstruction, heap
<1>4. ASSUME NEW s \in Slot, NEW v \in Reg, DoStoreOwned(s, v)
      PROVE  NoTrap' /\ DeadEmpty' /\ Unborn'
  BY <1>0, <1>4 DEF DoStoreOwned, heap
<1>5. ASSUME NEW s \in Slot, NEW v \in Reg, DoTransferSlot(s, v)
      PROVE  NoTrap' /\ DeadEmpty' /\ Unborn'
  BY <1>0, <1>5 DEF DoTransferSlot, heap
<1>6. ASSUME NEW s \in Slot, NEW v \in Reg, DoResourceInitialize(s, v)
      PROVE  NoTrap' /\ DeadEmpty' /\ Unborn'
  BY <1>0, <1>6 DEF DoResourceInitialize, heap
<1>7. ASSUME NEW s \in Slot, NEW d \in Reg, DoMove(d, s)
      PROVE  NoTrap' /\ DeadEmpty' /\ Unborn'
  BY <1>0, <1>7 DEF DoMove, heap
<1>8. ASSUME NEW s \in Slot, NEW d \in Reg, DoObserve(d, s)
      PROVE  NoTrap' /\ DeadEmpty' /\ Unborn'
  BY <1>0, <1>8 DEF DoObserve, heap
<1>9. ASSUME NEW s \in Slot, NEW d \in Reg, DoResourceTake(d, s)
      PROVE  NoTrap' /\ DeadEmpty' /\ Unborn'
  BY <1>0, <1>9 DEF DoResourceTake, heap
<1>10. ASSUME NEW s \in Slot, NEW d \in Reg, NEW v \in Reg, DoSwapValue(d, s, v)
      PROVE  NoTrap' /\ DeadEmpty' /\ Unborn'
  BY <1>0, <1>10 DEF DoSwapValue, heap
<1>11. ASSUME NEW s \in Shell, NEW v \in Reg, NEW i \in 0..Fields, NEW k \in Field, DoInitializeField(s, i, k, v)
      PROVE  NoTrap' /\ DeadEmpty' /\ Unborn'
  <2>1. cell[s] \in Obj /\ rc[cell[s]] = 1
    BY <1>0, <1>11, FieldVacant
  <2>2. /\ child' = [child EXCEPT ![cell[s]][k] = val[v]]
        /\ UNCHANGED <<rc, born, mode>>
    BY <1>11 DEF DoInitializeField
  <2>3. \A o \in Obj \ {cell[s]} : child'[o] = child[o]
    BY <1>0, <2>1, <2>2
  <2> QED
    BY <1>0, <2>1, <2>2, <2>3
<1>12. ASSUME NEW d \in Reg, DoAlloc(d)
      PROVE  NoTrap' /\ DeadEmpty' /\ Unborn'
  <2>1. PICK x \in Fresh : NewObject(x, [i \in Field |-> Null])
    BY <1>12 DEF DoAlloc
  <2>2. x \in Obj
    BY <2>1 DEF Fresh
  <2>3. /\ born' = born \cup {x} /\ rc'[x] = 1 /\ mode' = mode
        /\ \A o \in Obj \ {x} : rc'[o] = rc[o] /\ child'[o] = child[o]
    BY <1>0, <2>1, <2>2 DEF NewObject
  <2> QED
    BY <1>0, <2>2, <2>3
<1>13. ASSUME NEW v \in Reg, DoRet(v)
      PROVE  NoTrap' /\ DeadEmpty' /\ Unborn'
  BY <1>0, <1>13 DEF DoRet
<1>14. ASSUME NEW v \in Reg, NEW recipe \in {"Managed", "Temporary"}, DoDropValue(v, recipe)
      PROVE  NoTrap' /\ DeadEmpty' /\ Unborn'
  BY <1>0, <1>14 DEF DoDropValue, heap
<1>15. ASSUME NEW v \in Reg, NEW kind \in {"ImmutableBacking", "Evaluation"}, DoAcquire(v, kind)
      PROVE  NoTrap' /\ DeadEmpty' /\ Unborn'
  <2>1. child' = child /\ born' = born
    BY <1>15 DEF DoAcquire
  <2>2. val[v] \in Handle
    BY <1>15 DEF DoAcquire, Inductive, TypeOK
  <2>3. CASE val[v] = Null
    BY <1>0, <2>1, <2>3, <1>15 DEF DoAcquire, Retain
  <2>4. CASE val[v] \in Obj
    <3>1. rc[val[v]] > 0 /\ val[v] # Null
      BY <1>0, <1>15, <2>4 DEF DoAcquire, LoanLive
    <3>2. rc' = [rc EXCEPT ![val[v]] = @ + 1] /\ mode' = mode
      BY <1>15, <3>1 DEF DoAcquire, Retain
    <3>3. \A o \in Obj : rc'[o] = 0 <=> rc[o] = 0
      BY <1>0, <2>4, <3>1, <3>2
    <3> QED
      BY <1>0, <2>1, <3>2, <3>3
  <2> QED
    BY <2>2, <2>3, <2>4 DEF Handle
<1>16. ASSUME NEW d \in Reg, NEW v \in Reg, DoOwnedCast(d, v)
      PROVE  NoTrap' /\ DeadEmpty' /\ Unborn'
  BY <1>0, <1>16 DEF DoOwnedCast, heap
<1>17. ASSUME NEW d \in Reg, NEW v \in Reg, DoBorrowValue(d, v)
      PROVE  NoTrap' /\ DeadEmpty' /\ Unborn'
  BY <1>0, <1>17 DEF DoBorrowValue, heap
<1>18. ASSUME NEW d \in Reg, NEW v \in Reg, NEW kind \in {"FatPtr", "Closure"}, DoWrap(d, v, kind)
      PROVE  NoTrap' /\ DeadEmpty' /\ Unborn'
  <2>1. PICK x \in Fresh : NewObject(x, [j \in Field |-> IF j = 0 THEN val[v] ELSE Null])
    BY <1>18 DEF DoWrap
  <2>2. x \in Obj
    BY <2>1 DEF Fresh
  <2>3. /\ born' = born \cup {x} /\ rc'[x] = 1 /\ mode' = mode
        /\ \A o \in Obj \ {x} : rc'[o] = rc[o] /\ child'[o] = child[o]
    BY <1>0, <2>1, <2>2 DEF NewObject
  <2> QED
    BY <1>0, <2>2, <2>3
<1>19. ASSUME NEW d \in Reg, NEW n \in 0..MaxArgs, NEW args \in [1..n -> Reg], DoCall(args, d)
      PROVE  NoTrap' /\ DeadEmpty' /\ Unborn'
  <2>1. PICK x \in Fresh \cup {Null} :
           /\ born' = born \cup ({x} \ {Null})
           /\ rc' = [p \in Obj |-> IF p = x THEN 1 ELSE rc[p]]
    BY <1>19 DEF DoCall
  <2>2. child' = child /\ mode' = mode
    BY <1>19 DEF DoCall
  <2> QED
    BY <1>0, <2>1, <2>2
<1>20. ASSUME Release PROVE NoTrap' /\ DeadEmpty' /\ Unborn'
  <2> DEFINE h == Head(pending)
  <2>1. mode' = "running" /\ (h \in Obj => rc[h] > 0) /\ h \in Handle
    BY <1>0, <1>20, ReleaseFacts
  <2>2. born' = born
    BY <1>20 DEF Release
  <2>3. CASE h = Null
    <3>1. UNCHANGED <<rc, child>>
      BY <1>20, <2>3 DEF Release
    <3> QED
      BY <1>0, <2>1, <2>2, <3>1
  <2>4. CASE h \in Obj /\ rc[h] > 1
    <3>1. rc' = [rc EXCEPT ![h] = @ - 1] /\ child' = child
      BY <1>0, <1>20, <2>4 DEF Release
    <3>2. rc'[h] > 0 /\ \A o \in Obj \ {h} : rc'[o] = rc[o]
      BY <1>0, <2>4, <3>1
    <3> QED
      BY <1>0, <2>1, <2>2, <2>4, <3>1, <3>2
  <2>5. CASE h \in Obj /\ rc[h] = 1
    <3>1. rc' = [rc EXCEPT ![h] = 0] /\ child' = [child EXCEPT ![h] = [i \in Field |-> Null]]
      BY <1>0, <1>20, <2>5 DEF Release
    <3>2. \A o \in Obj \ {h} : rc'[o] = rc[o] /\ child'[o] = child[o]
      BY <1>0, <2>5, <3>1
    <3>3. \A i \in Field : child'[h][i] = Null
      BY <1>0, <2>5, <3>1
    <3> QED
      BY <1>0, <2>1, <2>2, <2>5, <3>2, <3>3
  <2> QED
    BY <1>0, <2>1, <2>3, <2>4, <2>5 DEF Handle
<1>21. ASSUME DoJoin PROVE NoTrap' /\ DeadEmpty' /\ Unborn'
  BY <1>0, <1>21 DEF DoJoin, heap
<1>22. ASSUME UNCHANGED vars PROVE NoTrap' /\ DeadEmpty' /\ Unborn'
  BY <1>0, <1>22 DEF vars, heap
<1> QED
  BY <1>1, <1>2, <1>3, <1>4, <1>5, <1>6, <1>7, <1>8, <1>9, <1>10, <1>11,
     <1>12, <1>13, <1>14, <1>15, <1>16, <1>17, <1>18, <1>19, <1>20, <1>21,
     <1>22 DEF Next, Slots, Values

\* A return leaves nothing to release and no register that owes.
LEMMA FinishedStep ==
  ASSUME Inductive, PlacesSound, ObjectsSound, [Next]_vars
  PROVE  Finished'
<1>1. CASE UNCHANGED vars
  BY <1>1 DEF ObjectsSound, Finished, vars, ledger, heap
<1>2. CASE Next /\ mode' # "returned"
  BY <1>2 DEF Finished
<1>3. CASE Next /\ mode' = "returned"
  <2>1. PICK v \in Reg : DoRet(v)
    BY <1>3, OnlyRetReturns
  <2>2. pending' = <<>> /\ Lose(Once(v)) /\ flow' = Take(flow, Once(v))
    BY <2>1 DEF DoRet, Running
  <2>3. \A r \in Reg : flow'.values[r] \subseteq {0}
    BY <2>1, <2>2 DEF DoRet, RetOk
  <2>4. Inductive'
    BY NextInductive
  <2>5. \A r \in Reg \ Zero : owed'[r] = 0
    BY <2>3, <2>4 DEF Inductive, LedgerSound
  <2>6. \A r \in Zero : owed'[r] = 0
    BY <2>2, FactAssumption DEF Lose, Pay
  <2> QED
    BY <2>2, <2>5, <2>6 DEF Finished
<1> QED
  BY <1>1, <1>2, <1>3

\* Fields that are cleared or kept make no circle.
LEMMA RootedKept ==
  ASSUME Rooted,
         \A p \in Obj, i \in Field : child'[p][i] \in Obj => child'[p][i] = child[p][i]
  PROVE  Rooted'
<1>1. SUFFICES ASSUME NEW T \in SUBSET Obj, T # {}
               PROVE  \E o \in T : \A p \in T, i \in Field : child'[p][i] # o
  BY DEF Rooted
<1>2. PICK o \in T : \A p \in T, i \in Field : child[p][i] # o
  BY <1>1 DEF Rooted
<1> QED
  BY <1>1, <1>2

\* Nor do fields written into an object that nobody owns by a field.
LEMMA RootedGrown ==
  ASSUME Rooted, NEW o \in Obj, \A p \in Obj, i \in Field : child[p][i] # o,
         \A i \in Field : child'[o][i] # o,
         \A p \in Obj \ {o}, i \in Field : child'[p][i] = child[p][i]
  PROVE  Rooted'
<1>1. SUFFICES ASSUME NEW T \in SUBSET Obj, T # {}
               PROVE  \E q \in T : \A p \in T, i \in Field : child'[p][i] # q
  BY DEF Rooted
<1>2. CASE o \in T
  <2>1. \A p \in T, i \in Field : child'[p][i] # o
    BY <1>1
  <2> QED
    BY <1>2, <2>1
<1>3. CASE o \notin T
  <2>1. PICK q \in T : \A p \in T, i \in Field : child[p][i] # q
    BY <1>1 DEF Rooted
  <2> QED
    BY <1>1, <1>3, <2>1
<1> QED
  BY <1>2, <1>3

LEMMA RootedStep ==
  ASSUME Inductive, PlacesSound, ObjectsSound, [Next]_vars
  PROVE  Rooted'
<1>0. /\ rc \in [Obj -> Nat] /\ child \in [Obj -> [Field -> Handle]]
      /\ Null \notin Obj /\ Undef \notin Obj
      /\ Rooted /\ DeadEmpty /\ Unborn /\ ShellSound /\ Exact /\ ZeroNull
      /\ Shell \subseteq Slot
  BY PathAssumption, SlotAssumption DEF Inductive, TypeOK, ObjectsSound, PlacesSound
<1>a. ASSUME NEW o \in Obj, Ways(Stored, o) = 0
      PROVE  \A p \in Obj, i \in Field : child[p][i] # o
  BY <1>a, ChildLives
<1>1. ASSUME NEW s \in Slot, DoAlloca(s) PROVE Rooted'
  <2>1. child' = child
    BY <1>1 DEF DoAlloca, heap
  <2> QED
    BY <1>0, <2>1, RootedKept
<1>2. ASSUME NEW s \in Slot, DoDropSlot(s) PROVE Rooted'
  <2>1. child' = child
    BY <1>2 DEF DoDropSlot, heap
  <2> QED
    BY <1>0, <2>1, RootedKept
<1>3. ASSUME NEW s \in Shell, DoConstruction(s) PROVE Rooted'
  <2>1. child' = child
    BY <1>3 DEF DoConstruction, heap
  <2> QED
    BY <1>0, <2>1, RootedKept
<1>4. ASSUME NEW s \in Slot, NEW v \in Reg, DoStoreOwned(s, v)
      PROVE  Rooted'
  <2>1. child' = child
    BY <1>4 DEF DoStoreOwned, heap
  <2> QED
    BY <1>0, <2>1, RootedKept
<1>5. ASSUME NEW s \in Slot, NEW v \in Reg, DoTransferSlot(s, v)
      PROVE  Rooted'
  <2>1. child' = child
    BY <1>5 DEF DoTransferSlot, heap
  <2> QED
    BY <1>0, <2>1, RootedKept
<1>6. ASSUME NEW s \in Slot, NEW v \in Reg, DoResourceInitialize(s, v)
      PROVE  Rooted'
  <2>1. child' = child
    BY <1>6 DEF DoResourceInitialize, heap
  <2> QED
    BY <1>0, <2>1, RootedKept
<1>7. ASSUME NEW s \in Slot, NEW d \in Reg, DoMove(d, s) PROVE Rooted'
  <2>1. child' = child
    BY <1>7 DEF DoMove, heap
  <2> QED
    BY <1>0, <2>1, RootedKept
<1>8. ASSUME NEW s \in Slot, NEW d \in Reg, DoObserve(d, s) PROVE Rooted'
  <2>1. child' = child
    BY <1>8 DEF DoObserve, heap
  <2> QED
    BY <1>0, <2>1, RootedKept
<1>9. ASSUME NEW s \in Slot, NEW d \in Reg, DoResourceTake(d, s)
      PROVE  Rooted'
  <2>1. child' = child
    BY <1>9 DEF DoResourceTake, heap
  <2> QED
    BY <1>0, <2>1, RootedKept
<1>10. ASSUME NEW s \in Slot, NEW d \in Reg, NEW v \in Reg, DoSwapValue(d, s, v)
      PROVE  Rooted'
  <2>1. child' = child
    BY <1>10 DEF DoSwapValue, heap
  <2> QED
    BY <1>0, <2>1, RootedKept
<1>11. ASSUME NEW s \in Shell, NEW v \in Reg, NEW i \in 0..Fields, NEW k \in Field, DoInitializeField(s, i, k, v)
      PROVE  Rooted'
  <2> DEFINE x == cell[s]
  <2>1. x \in Obj /\ rc[x] = 1 /\ child[x][k] \notin Obj
    BY <1>0, <1>11, FieldVacant
  <2>2. Ways(cell, x) > 0
    BY <1>0, <2>1, CellLives
  <2>3. Ways(Stored, x) = 0
    <3> HIDE DEF x
    <3> QED
      BY <1>0, <2>1, <2>2, FewWays
  <2>4. val[v] # x /\ child' = [child EXCEPT ![x][k] = val[v]]
    BY <1>11 DEF DoInitializeField
  <2> HIDE DEF x
  <2>5. \A p \in Obj, f \in Field : child[p][f] # x
    BY <1>a, <2>1, <2>3
  <2>6. \A f \in Field : child'[x][f] # x
    BY <1>0, <2>1, <2>4, <2>5
  <2>7. \A p \in Obj \ {x}, f \in Field : child'[p][f] = child[p][f]
    BY <1>0, <2>1, <2>4
  <2> QED
    BY <1>0, <2>1, <2>5, <2>6, <2>7, RootedGrown
<1>12. ASSUME NEW d \in Reg, DoAlloc(d) PROVE Rooted'
  <2>1. PICK x \in Fresh : NewObject(x, [i \in Field |-> Null])
    BY <1>12 DEF DoAlloc
  <2>2. \A p \in Obj, i \in Field : child'[p][i] \in Obj => child'[p][i] = child[p][i]
    BY <1>0, <2>1 DEF NewObject
  <2> QED
    BY <1>0, <2>2, RootedKept
<1>13. ASSUME NEW v \in Reg, DoRet(v) PROVE Rooted'
  <2>1. child' = child
    BY <1>13 DEF DoRet, heap
  <2> QED
    BY <1>0, <2>1, RootedKept
<1>14. ASSUME NEW v \in Reg, NEW recipe \in {"Managed", "Temporary"}, DoDropValue(v, recipe)
      PROVE  Rooted'
  <2>1. child' = child
    BY <1>14 DEF DoDropValue, heap
  <2> QED
    BY <1>0, <2>1, RootedKept
<1>15. ASSUME NEW v \in Reg, NEW kind \in {"ImmutableBacking", "Evaluation"}, DoAcquire(v, kind)
      PROVE  Rooted'
  <2>1. child' = child
    BY <1>15 DEF DoAcquire, heap
  <2> QED
    BY <1>0, <2>1, RootedKept
<1>16. ASSUME NEW d \in Reg, NEW v \in Reg, DoOwnedCast(d, v) PROVE Rooted'
  <2>1. child' = child
    BY <1>16 DEF DoOwnedCast, heap
  <2> QED
    BY <1>0, <2>1, RootedKept
<1>17. ASSUME NEW d \in Reg, NEW v \in Reg, DoBorrowValue(d, v)
      PROVE  Rooted'
  <2>1. child' = child
    BY <1>17 DEF DoBorrowValue, heap
  <2> QED
    BY <1>0, <2>1, RootedKept
<1>18. ASSUME NEW d \in Reg, NEW v \in Reg, NEW kind \in {"FatPtr", "Closure"}, DoWrap(d, v, kind)
      PROVE  Rooted'
  <2>1. PICK x \in Fresh : NewObject(x, [j \in Field |-> IF j = 0 THEN val[v] ELSE Null])
    BY <1>18 DEF DoWrap
  <2>2. x \in Obj /\ rc[x] = 0
    BY <1>0, <2>1 DEF Fresh, Unborn
  <2>3. Ways(Carried, x) = 0 /\ Ways(Stored, x) = 0
    BY <1>0, <2>2, FewWays
  <2>4. val[v] # x
    <3>1. CASE v \in Zero
      BY <1>0, <2>2, <3>1 DEF ZeroNull
    <3>2. CASE v \notin Zero
      <4>1. owed[v] > 0
        BY <3>2, <1>18, TakenOnce DEF DoWrap, WrapOk, MaxEdges
      <4> QED
        BY <2>2, <2>3, <4>1, CarriedLives
    <3> QED
      BY <3>1, <3>2
  <2>5. /\ \A i \in Field : child'[x][i] = IF i = 0 THEN val[v] ELSE Null
        /\ \A p \in Obj \ {x}, i \in Field : child'[p][i] = child[p][i]
    BY <1>0, <2>1, <2>2 DEF NewObject
  <2>6. \A i \in Field : child'[x][i] # x
    BY <1>0, <2>2, <2>4, <2>5
  <2>7. \A p \in Obj, i \in Field : child[p][i] # x
    BY <1>a, <2>2, <2>3
  <2> QED
    BY <1>0, <2>2, <2>5, <2>6, <2>7, RootedGrown
<1>19. ASSUME NEW d \in Reg, NEW n \in 0..MaxArgs, NEW args \in [1..n -> Reg], DoCall(args, d)
      PROVE  Rooted'
  <2>1. child' = child
    BY <1>19 DEF DoCall, heap
  <2> QED
    BY <1>0, <2>1, RootedKept
<1>20. ASSUME Release PROVE Rooted'
  <2>1. Head(pending) \in Handle
    BY <1>0, <1>20, ReleaseFacts
  <2>2. \A p \in Obj, i \in Field : child'[p][i] \in Obj => child'[p][i] = child[p][i]
    BY <1>0, <2>1, <1>20 DEF Release, Handle
  <2> QED
    BY <1>0, <2>2, RootedKept
<1>21. ASSUME DoJoin PROVE Rooted'
  <2>1. child' = child
    BY <1>21 DEF DoJoin, heap
  <2> QED
    BY <1>0, <2>1, RootedKept
<1>22. ASSUME UNCHANGED vars PROVE Rooted'
  <2>1. child' = child
    BY <1>22 DEF vars, heap
  <2> QED
    BY <1>0, <2>1, RootedKept
<1> QED
  BY <1>1, <1>2, <1>3, <1>4, <1>5, <1>6, <1>7, <1>8, <1>9, <1>10, <1>11,
     <1>12, <1>13, <1>14, <1>15, <1>16, <1>17, <1>18, <1>19, <1>20, <1>21,
     <1>22 DEF Next, Slots, Values

-----------------------------------------------------------------------------
(* Aggregates under construction.                                          *)

\* A construction slot that is not touched stays sound.
LEMMA ShellKept ==
  ASSUME ShellSound, NEW s \in Shell, held[s],
         cell'[s] = cell[s], rc'[cell[s]] = rc[cell[s]],
         \A i \in Recipe[s] : child'[cell[s]][i] = child[cell[s]][i],
         \A i \in Recipe[s] :
           TRUE \in flow.progress[<<s, i>>] => TRUE \in flow'.progress[<<s, i>>]
  PROVE  /\ cell'[s] \in Obj /\ rc'[cell'[s]] = 1
         /\ \A i \in Recipe[s] :
              child'[cell'[s]][i] \in Obj => TRUE \in flow'.progress[<<s, i>>]
BY DEF ShellSound

LEMMA ShellStep ==
  ASSUME Disciplined, Inductive, PlacesSound, ObjectsSound, [Next]_vars,
         NEW c \in Shell, held'[c]
  PROVE  /\ cell'[c] \in Obj /\ rc'[cell'[c]] = 1
         /\ \A i \in Recipe[c] :
              child'[cell'[c]][i] \in Obj => TRUE \in flow'.progress[<<c, i>>]
<1> DEFINE Kept == /\ held[c] /\ cell'[c] = cell[c]
                   /\ rc'[cell[c]] = rc[cell[c]] /\ child'[cell[c]] = child[cell[c]]
                   /\ \A i \in Recipe[c] :
                        TRUE \in flow.progress[<<c, i>>] => TRUE \in flow'.progress[<<c, i>>]
           Goal == /\ cell'[c] \in Obj /\ rc'[cell'[c]] = 1
                   /\ \A i \in Recipe[c] :
                        child'[cell'[c]][i] \in Obj => TRUE \in flow'.progress[<<c, i>>]
<1>0. /\ held \in [Slot -> BOOLEAN] /\ cell \in [Slot -> Handle \cup {Undef}]
      /\ rc \in [Obj -> Nat] /\ child \in [Obj -> [Field -> Handle]]
      /\ Shell \subseteq Owner /\ Owner \subseteq Slot /\ Recipe[c] \subseteq Field
      /\ flow \in Flow /\ flow.progress \in [Shell \X Field -> SUBSET BOOLEAN]
      /\ Null \notin Obj /\ Undef \notin Obj
      /\ ZeroNull /\ Exact /\ Unborn /\ ShellSound
  BY SlotAssumption, FactAssumption, PathAssumption
     DEF Inductive, TypeOK, Flow, PlacesSound, ObjectsSound
<1>a. Kept => Goal
  BY <1>0, ShellKept
<1>b. held[c] => cell[c] \in Obj /\ rc[cell[c]] = 1
  BY <1>0 DEF ShellSound
<1> HIDE DEF Kept
<1>1. ASSUME NEW s \in Slot, DoAlloca(s) PROVE Goal
  <2>1. UNCHANGED <<held, cell, rc, child>>
    BY <1>1 DEF DoAlloca, ledger, heap
  <2>2. \A i \in Recipe[c] : flow'.progress[<<c, i>>] = flow.progress[<<c, i>>]
    BY <1>0, <1>1 DEF DoAlloca, Alloca, ledger, Take, Produce, SetSlot, ResetProgress, Flow
  <2>3. Kept
    BY <2>1, <2>2 DEF Kept
  <2> QED
    BY <1>a, <2>3
<1>2. ASSUME NEW s \in Slot, DoDropSlot(s) PROVE Goal
  <2>1. \A i \in Recipe[c] : c # s => flow'.progress[<<c, i>>] = flow.progress[<<c, i>>]
    BY <1>0, <1>2 DEF DoDropSlot, DropSlot, Take, Produce, SetSlot, ResetProgress, Flow
  <2>2. c # s
    BY <1>0, <1>2 DEF DoDropSlot, Hold
  <2>3. held[c] /\ cell'[c] = cell[c] /\ rc' = rc /\ child' = child
    BY <1>0, <2>2, <1>2 DEF DoDropSlot, Hold, heap
  <2>4. Kept
    BY <2>1, <2>2, <2>3 DEF Kept
  <2> QED
    BY <1>a, <2>4
<1>3. ASSUME NEW s \in Shell, DoConstruction(s) PROVE Goal
  <2>1. UNCHANGED <<held, cell, rc, child>>
    BY <1>3 DEF DoConstruction, ledger, heap
  <2>2. CASE c = s
    <3>1. \A i \in Field : child[cell[c]][i] = Null
      BY <1>3, <2>2 DEF DoConstruction
    <3> QED
      BY <1>0, <1>b, <2>1, <3>1
  <2>3. CASE c # s
    <3>1. \A i \in Recipe[c] : flow'.progress[<<c, i>>] = flow.progress[<<c, i>>]
      BY <1>0, <1>3, <2>3 DEF DoConstruction, Construction, Flow
    <3>2. Kept
      BY <2>1, <3>1 DEF Kept
    <3> QED
      BY <1>a, <3>2
  <2> QED
    BY <2>2, <2>3
<1>4. ASSUME NEW s \in Slot, NEW v \in Reg, DoStoreOwned(s, v) PROVE Goal
  <2>1. \A i \in Recipe[c] : flow'.progress[<<c, i>>] = flow.progress[<<c, i>>]
    BY <1>0, <1>4 DEF DoStoreOwned, StoreOwned, Take, SetSlot, Flow
  <2>2. cell' = [cell EXCEPT ![s] = val[v]] /\ rc' = rc /\ child' = child
    BY <1>4 DEF DoStoreOwned, heap
  <2>3. CASE c # s
    <3>1. held[c] /\ cell'[c] = cell[c]
      BY <1>0, <2>2, <2>3, <1>4 DEF DoStoreOwned, Hold
    <3>2. Kept
      BY <2>1, <2>2, <3>1 DEF Kept
    <3> QED
      BY <1>a, <3>2
  <2>4. CASE c = s
    <3>1. /\ val[v] \in Obj /\ rc[val[v]] = 1
          /\ \A i \in Field : child[val[v]][i] = Null
      BY <2>4, <1>4 DEF DoStoreOwned, BuilderConstructs
    <3>2. cell'[c] = val[v]
      BY <1>0, <2>2, <2>4
    <3> QED
      BY <1>0, <2>2, <3>1, <3>2
  <2> QED
    BY <2>3, <2>4
<1>5. ASSUME NEW s \in Slot, NEW v \in Reg, DoTransferSlot(s, v) PROVE Goal
  <2>1. \A i \in Recipe[c] : c # s => flow'.progress[<<c, i>>] = flow.progress[<<c, i>>]
    BY <1>0, <1>5 DEF DoTransferSlot, TransferSlot, Take, Produce, SetSlot, ResetProgress, Flow
  <2>2. c # s
    BY <1>0, <1>5 DEF DoTransferSlot, Hold
  <2>3. held[c] /\ cell'[c] = cell[c] /\ rc' = rc /\ child' = child
    BY <1>0, <2>2, <1>5 DEF DoTransferSlot, Hold, heap
  <2>4. Kept
    BY <2>1, <2>2, <2>3 DEF Kept
  <2> QED
    BY <1>a, <2>4
<1>6. ASSUME NEW s \in Slot, NEW v \in Reg, DoResourceInitialize(s, v)
      PROVE  Goal
  <2>1. \A i \in Recipe[c] : c # s => flow'.progress[<<c, i>>] = flow.progress[<<c, i>>]
    BY <1>0, <1>6 DEF DoResourceInitialize, ResourceInitialize, Take, Produce, SetSlot, ResetProgress, Flow
  <2>2. c # s
    BY <1>0, <1>6 DEF DoResourceInitialize, Hold
  <2>3. held[c] /\ cell'[c] = cell[c] /\ rc' = rc /\ child' = child
    BY <1>0, <2>2, <1>6 DEF DoResourceInitialize, Hold, heap
  <2>4. Kept
    BY <2>1, <2>2, <2>3 DEF Kept
  <2> QED
    BY <1>a, <2>4
<1>7. ASSUME NEW s \in Slot, NEW d \in Reg, DoMove(d, s) PROVE Goal
  <2>1. \A i \in Recipe[c] : c # s => flow'.progress[<<c, i>>] = flow.progress[<<c, i>>]
    BY <1>0, <1>7 DEF DoMove, Move, Take, Produce, SetSlot, ResetProgress, Flow
  <2>2. c # s
    BY <1>0, <1>7 DEF DoMove, Hold
  <2>3. held[c] /\ cell'[c] = cell[c] /\ rc' = rc /\ child' = child
    BY <1>0, <2>2, <1>7 DEF DoMove, Hold, heap
  <2>4. Kept
    BY <2>1, <2>2, <2>3 DEF Kept
  <2> QED
    BY <1>a, <2>4
<1>8. ASSUME NEW s \in Slot, NEW d \in Reg, DoObserve(d, s) PROVE Goal
  <2>1. UNCHANGED <<held, cell, rc, child>>
    BY <1>8 DEF DoObserve, ledger, heap
  <2>2. \A i \in Recipe[c] : flow'.progress[<<c, i>>] = flow.progress[<<c, i>>]
    BY <1>0, <1>8 DEF DoObserve, ledger, Take, Produce, SetSlot, ResetProgress, Flow
  <2>3. Kept
    BY <2>1, <2>2 DEF Kept
  <2> QED
    BY <1>a, <2>3
<1>9. ASSUME NEW s \in Slot, NEW d \in Reg, DoResourceTake(d, s) PROVE Goal
  <2>1. \A i \in Recipe[c] : c # s => flow'.progress[<<c, i>>] = flow.progress[<<c, i>>]
    BY <1>0, <1>9 DEF DoResourceTake, ResourceTake, Take, Produce, SetSlot, ResetProgress, Flow
  <2>2. c # s
    BY <1>0, <1>9 DEF DoResourceTake, Hold
  <2>3. held[c] /\ cell'[c] = cell[c] /\ rc' = rc /\ child' = child
    BY <1>0, <2>2, <1>9 DEF DoResourceTake, Hold, heap
  <2>4. Kept
    BY <2>1, <2>2, <2>3 DEF Kept
  <2> QED
    BY <1>a, <2>4
<1>10. ASSUME NEW s \in Slot, NEW d \in Reg, NEW v \in Reg, DoSwapValue(d, s, v)
      PROVE  Goal
  <2>1. \A i \in Recipe[c] : c # s => flow'.progress[<<c, i>>] = flow.progress[<<c, i>>]
    BY <1>0, <1>10 DEF DoSwapValue, SwapValue, Take, Produce, SetSlot, ResetProgress, Flow
  <2>2. c # s
    BY <1>0, <1>10 DEF DoSwapValue, BuilderSwaps, Hold
  <2>3. held[c] /\ cell'[c] = cell[c] /\ rc' = rc /\ child' = child
    BY <1>0, <2>2, <1>10 DEF DoSwapValue, Hold, heap
  <2>4. Kept
    BY <2>1, <2>2, <2>3 DEF Kept
  <2> QED
    BY <1>a, <2>4
<1>11. ASSUME NEW s \in Shell, NEW v \in Reg, NEW i \in 0..Fields, NEW k \in Field, DoInitializeField(s, i, k, v)
      PROVE  Goal
  <2> DEFINE x == cell[s]
  <2>1. x \in Obj /\ rc[x] = 1
    BY <1>0, <1>11, FieldVacant
  <2>2. UNCHANGED <<held, cell, rc>> /\ child' = [child EXCEPT ![x][k] = val[v]]
    BY <1>11 DEF DoInitializeField
  <2>3. \A j \in Recipe[c] : <<c, j>> # <<s, i>> =>
           flow'.progress[<<c, j>>] = flow.progress[<<c, j>>]
    BY <1>0, <1>11 DEF DoInitializeField, InitializeField, Take, Flow
  <2>4. CASE c # s
    <3>1. Ways(cell, x) = 1
      <4>1. Ways(cell, x) > 0
        BY <1>0, <2>1, CellLives
      <4> HIDE DEF x
      <4> QED
        BY <1>0, <2>1, <4>1, FewWays
    <3>2. cell[c] # x
      <4>1. ASSUME cell[c] = x PROVE Ways(cell, x) > 1
        BY <1>0, <2>1, <2>4, <4>1, TwoCells
      <4> QED
        BY <3>1, <4>1
    <3> HIDE DEF x
    <3>3. held[c] => child'[cell[c]] = child[cell[c]]
      BY <1>0, <1>b, <2>1, <2>2, <3>2
    <3>4. Kept
      BY <2>2, <2>3, <2>4, <3>3 DEF Kept
    <3> QED
      BY <1>a, <3>4
  <2>5. CASE c = s
    <3>1. ASSUME NEW j \in Recipe[c], child'[x][j] \in Obj
          PROVE  TRUE \in flow'.progress[<<c, j>>]
      <4>1. CASE j = k
        <5>1. val[v] \in Obj /\ v \notin Zero
          BY <1>0, <2>1, <2>2, <3>1, <4>1 DEF ZeroNull
        <5>2. i = k /\ i \in Field
          BY <1>0, <1>11, <2>5, <3>1, <4>1 DEF DoInitializeField
        <5>3. flow'.progress[<<c, j>>] = {TRUE}
          BY <1>0, <1>11, <2>5, <4>1, <5>1, <5>2
             DEF DoInitializeField, InitializeField, Take, Flow
        <5> QED
          BY <5>3
      <4>2. CASE j # k
        <5>1. child[x][j] \in Obj
          BY <1>0, <2>1, <2>2, <3>1, <4>2
        <5>2. TRUE \in flow.progress[<<c, j>>]
          BY <1>0, <2>2, <2>5, <3>1, <5>1 DEF ShellSound
        <5>3. j # i
          <6>1. i \in Field => i = k
            BY <1>11, FactAssumption DEF DoInitializeField, Field
          <6> QED
            BY <1>0, <3>1, <4>2, <6>1
        <5> QED
          BY <2>3, <3>1, <5>2, <5>3
      <4> QED
        BY <4>1, <4>2
    <3> QED
      BY <2>1, <2>2, <2>5, <3>1
  <2> QED
    BY <2>4, <2>5
<1>12. ASSUME NEW d \in Reg, DoAlloc(d) PROVE Goal
  <2>1. PICK x \in Fresh : NewObject(x, [i \in Field |-> Null])
    BY <1>12 DEF DoAlloc
  <2>2. x \in Obj /\ rc[x] = 0
    BY <1>0, <2>1 DEF Fresh, Unborn
  <2>3. \A o \in Obj \ {x} : rc'[o] = rc[o] /\ child'[o] = child[o]
    BY <1>0, <2>1, <2>2 DEF NewObject
  <2>4. UNCHANGED <<held, cell>>
    BY <1>12 DEF DoAlloc
  <2>5. \A i \in Recipe[c] : flow'.progress[<<c, i>>] = flow.progress[<<c, i>>]
    BY <1>0, <1>12 DEF DoAlloc, Alloc, Take, Produce, SetSlot, ResetProgress, Flow
  <2>7. held[c] /\ cell[c] \in Obj \ {x}
    BY <1>b, <2>2, <2>4
  <2>6. Kept
    BY <2>3, <2>4, <2>5, <2>7 DEF Kept
  <2> QED
    BY <1>a, <2>6
<1>13. ASSUME NEW v \in Reg, DoRet(v) PROVE Goal
  <2>1. UNCHANGED <<held, cell, rc, child>>
    BY <1>13 DEF DoRet, ledger, heap
  <2>2. \A i \in Recipe[c] : flow'.progress[<<c, i>>] = flow.progress[<<c, i>>]
    BY <1>0, <1>13 DEF DoRet, ledger, Take, Produce, SetSlot, ResetProgress, Flow
  <2>3. Kept
    BY <2>1, <2>2 DEF Kept
  <2> QED
    BY <1>a, <2>3
<1>14. ASSUME NEW v \in Reg, NEW recipe \in {"Managed", "Temporary"}, DoDropValue(v, recipe)
      PROVE  Goal
  <2>1. UNCHANGED <<held, cell, rc, child>>
    BY <1>14 DEF DoDropValue, ledger, heap
  <2>2. \A i \in Recipe[c] : flow'.progress[<<c, i>>] = flow.progress[<<c, i>>]
    BY <1>0, <1>14 DEF DoDropValue, DropValue, ledger, Take, Produce, SetSlot, ResetProgress, Flow
  <2>3. Kept
    BY <2>1, <2>2 DEF Kept
  <2> QED
    BY <1>a, <2>3
<1>15. ASSUME NEW v \in Reg, NEW kind \in {"ImmutableBacking", "Evaluation"}, DoAcquire(v, kind)
      PROVE  Goal
  <2>1. UNCHANGED <<held, cell, child>>
    BY <1>15 DEF DoAcquire
  <2>2. held[c] => cell[c] # val[v]
    BY <1>15 DEF DoAcquire, BuilderAcquires
  <2>3. \A o \in Obj \ {val[v]} : rc'[o] = rc[o]
    BY <1>0, <1>15 DEF DoAcquire, Retain
  <2>4. \A i \in Recipe[c] : flow'.progress[<<c, i>>] = flow.progress[<<c, i>>]
    BY <1>0, <1>15 DEF DoAcquire, Acquire, Flow
  <2>5. Kept
    BY <1>b, <2>1, <2>2, <2>3, <2>4 DEF Kept
  <2> QED
    BY <1>a, <2>5
<1>16. ASSUME NEW d \in Reg, NEW v \in Reg, DoOwnedCast(d, v) PROVE Goal
  <2>1. UNCHANGED <<held, cell, rc, child>>
    BY <1>16 DEF DoOwnedCast, ledger, heap
  <2>2. \A i \in Recipe[c] : flow'.progress[<<c, i>>] = flow.progress[<<c, i>>]
    BY <1>0, <1>16 DEF DoOwnedCast, OwnedCast, ledger, Take, Produce, SetSlot, ResetProgress, Flow
  <2>3. Kept
    BY <2>1, <2>2 DEF Kept
  <2> QED
    BY <1>a, <2>3
<1>17. ASSUME NEW d \in Reg, NEW v \in Reg, DoBorrowValue(d, v) PROVE Goal
  <2>1. UNCHANGED <<held, cell, rc, child>>
    BY <1>17 DEF DoBorrowValue, ledger, heap
  <2>2. \A i \in Recipe[c] : flow'.progress[<<c, i>>] = flow.progress[<<c, i>>]
    BY <1>0, <1>17 DEF DoBorrowValue, ledger, Take, Produce, SetSlot, ResetProgress, Flow
  <2>3. Kept
    BY <2>1, <2>2 DEF Kept
  <2> QED
    BY <1>a, <2>3
<1>18. ASSUME NEW d \in Reg, NEW v \in Reg, NEW kind \in {"FatPtr", "Closure"}, DoWrap(d, v, kind)
      PROVE  Goal
  <2>1. PICK x \in Fresh : NewObject(x, [j \in Field |-> IF j = 0 THEN val[v] ELSE Null])
    BY <1>18 DEF DoWrap
  <2>2. x \in Obj /\ rc[x] = 0
    BY <1>0, <2>1 DEF Fresh, Unborn
  <2>3. \A o \in Obj \ {x} : rc'[o] = rc[o] /\ child'[o] = child[o]
    BY <1>0, <2>1, <2>2 DEF NewObject
  <2>4. UNCHANGED <<held, cell>>
    BY <1>18 DEF DoWrap
  <2>5. \A i \in Recipe[c] : flow'.progress[<<c, i>>] = flow.progress[<<c, i>>]
    BY <1>0, <1>18 DEF DoWrap, Wrap, Take, Produce, SetSlot, ResetProgress, Flow
  <2>7. held[c] /\ cell[c] \in Obj \ {x}
    BY <1>b, <2>2, <2>4
  <2>6. Kept
    BY <2>3, <2>4, <2>5, <2>7 DEF Kept
  <2> QED
    BY <1>a, <2>6
<1>19. ASSUME NEW d \in Reg, NEW n \in 0..MaxArgs, NEW args \in [1..n -> Reg], DoCall(args, d)
      PROVE  Goal
  <2>1. PICK x \in Fresh \cup {Null} : rc' = [p \in Obj |-> IF p = x THEN 1 ELSE rc[p]]
    BY <1>19 DEF DoCall
  <2>2. x \in Obj => rc[x] = 0
    BY <1>0, <2>1 DEF Fresh, Unborn
  <2>3. UNCHANGED <<held, cell, child>>
    BY <1>19 DEF DoCall
  <2>4. held[c] => rc'[cell[c]] = rc[cell[c]]
    BY <1>b, <2>1, <2>2
  <2>5. \A i \in Recipe[c] : flow'.progress[<<c, i>>] = flow.progress[<<c, i>>]
    BY <1>0, <1>19 DEF DoCall, Call, Take, Produce, Flow
  <2>6. Kept
    BY <2>3, <2>4, <2>5 DEF Kept
  <2> QED
    BY <1>a, <2>6
<1>20. ASSUME Release PROVE Goal
  <2> DEFINE h == Head(pending)
  <2>1. UNCHANGED <<held, cell, flow>>
    BY <1>20 DEF Release, ledger
  <2>2. h \in Handle /\ pending # <<>>
    BY <1>0, <1>20, ReleaseFacts
  <2>3. cell[c] # h
    <3>1. ASSUME cell[c] = h PROVE FALSE
      <4>1. h \in Obj /\ rc[h] = 1
        BY <1>b, <2>1, <3>1
      <4>2. Ways(cell, h) > 0
        BY <1>0, <3>1, <4>1, CellLives
      <4>3. Ways(pending, h) > 0
        BY <2>2, <4>1, PendingLives
      <4> HIDE DEF h
      <4> QED
        BY <1>0, <4>1, <4>2, <4>3, FewWays
    <3> QED
      BY <3>1
  <2>4. /\ rc' = rc \/ (h \in Obj /\ \A o \in Obj \ {h} : rc'[o] = rc[o])
        /\ child' = child \/ (h \in Obj /\ \A o \in Obj \ {h} : child'[o] = child[o])
    BY <1>0, <2>2, <1>20 DEF Release, Handle
  <2>5. Kept
    BY <1>b, <2>1, <2>3, <2>4 DEF Kept
  <2> QED
    BY <1>a, <2>5
<1>21. ASSUME DoJoin PROVE Goal
  <2>1. UNCHANGED <<held, cell, rc, child>>
    BY <1>21 DEF DoJoin, ledger, heap
  <2>2. \A p \in Shell \X Field : flow.progress[p] \subseteq flow'.progress[p]
    BY <1>0, <1>21 DEF DoJoin, Weaken, Flow
  <2>3. Kept
    BY <1>0, <2>1, <2>2 DEF Kept
  <2> QED
    BY <1>a, <2>3
<1>22. ASSUME UNCHANGED vars PROVE Goal
  <2>1. UNCHANGED <<held, cell, rc, child, flow>>
    BY <1>22 DEF vars, ledger, heap
  <2>2. Kept
    BY <2>1 DEF Kept
  <2> QED
    BY <1>a, <2>2
<1> QED
  BY <1>1, <1>2, <1>3, <1>4, <1>5, <1>6, <1>7, <1>8, <1>9, <1>10, <1>11,
     <1>12, <1>13, <1>14, <1>15, <1>16, <1>17, <1>18, <1>19, <1>20, <1>21,
     <1>22 DEF Next, Slots, Values

-----------------------------------------------------------------------------
(* The whole invariant.                                                    *)

HeapInv == Inductive /\ PlacesSound /\ LeaseOwed /\ ObjectsSound

LEMMA InitExact ==
  ASSUME Init PROVE Exact
<1>0. Inductive
  BY InitInductive
<1>1. SUFFICES ASSUME NEW o \in Obj PROVE rc[o] = Edges(o)
  BY DEF Exact
<1>2. PICK p \in [Params -> Handle] :
         /\ \A a, b \in Params : p[a] = p[b] /\ a # b => p[a] = Null
         /\ val = [r \in Reg |-> IF r \in Zero THEN Null
                                 ELSE IF r \in Params THEN p[r] ELSE Undef]
         /\ born = {p[r] : r \in Params} \ {Null}
  BY DEF Init
<1>3. /\ cell = [s \in Slot |-> IF s \in Owner THEN Undef ELSE Null]
      /\ child = [a \in Obj |-> [i \in Field |-> Null]] /\ pending = <<>>
      /\ mode = "running" /\ rc[o] = IF o \in born THEN 1 ELSE 0
      /\ owed = [r \in Reg |-> IF r \in Params THEN 1 ELSE 0]
      /\ o # Null /\ o # Undef /\ Params \subseteq Reg \ Zero
  BY PathAssumption DEF Init
<1>4. Ways(cell, o) = 0
  <2>1. IsFiniteSet(DOMAIN cell) /\ \A s \in DOMAIN cell : cell[s] # o
    BY <1>3, FiniteAssumption
  <2> QED
    BY <2>1, WaysNat
<1>5. Ways(Stored, o) = 0
  <2>1. IsFiniteSet(DOMAIN Stored) /\ \A q \in DOMAIN Stored : Stored[q] # o
    BY <1>3, CarriedPlaces DEF Stored
  <2> QED
    BY <2>1, WaysNat
<1>6. Ways(pending, o) = 0
  BY <1>3, WaysSingle
<1>7. \A r \in Reg, i \in 1..MaxEdges :
        Carried[<<r, i>>] = IF i = 1 /\ r \in Params THEN p[r] ELSE Null
  BY <1>2, <1>3 DEF Carried, MaxEdges
<1>8. DOMAIN Carried = Reg \X (1..MaxEdges) /\ IsFiniteSet(DOMAIN Carried)
  BY CarriedPlaces DEF Carried
<1>9. Ways(Carried, o) = IF o \in born THEN 1 ELSE 0
  <2>1. CASE o \in born
    <3>1. PICK r \in Params : p[r] = o
      BY <1>2, <2>1
    <3>2. {e \in DOMAIN Carried : Carried[e] = o} = {<<r, 1>>}
      <4>1. ASSUME NEW e \in DOMAIN Carried PROVE Carried[e] = o <=> e = <<r, 1>>
        <5>1. PICK q \in Reg, i \in 1..MaxEdges : e = <<q, i>>
          BY <1>8
        <5>2. Carried[e] = IF i = 1 /\ q \in Params THEN p[q] ELSE Null
          BY <1>7, <5>1
        <5>3. q \in Params /\ p[q] = o <=> q = r
          BY <1>2, <1>3, <3>1
        <5> QED
          BY <1>3, <3>1, <5>1, <5>2, <5>3
      <4>2. <<r, 1>> \in DOMAIN Carried
        BY <1>3, <1>8 DEF MaxEdges
      <4> QED
        BY <4>1, <4>2
    <3>3. Cardinality({<<r, 1>>}) = 1
      BY FS_Singleton
    <3> QED
      BY <2>1, <3>2, <3>3 DEF Ways
  <2>2. CASE o \notin born
    <3>1. ASSUME NEW e \in DOMAIN Carried PROVE Carried[e] # o
      <4>1. PICK q \in Reg, i \in 1..MaxEdges : e = <<q, i>>
        BY <1>8
      <4>2. Carried[e] = IF i = 1 /\ q \in Params THEN p[q] ELSE Null
        BY <1>7, <4>1
      <4>3. q \in Params => p[q] # o
        BY <1>2, <1>3, <2>2
      <4> QED
        BY <1>3, <4>2, <4>3
    <3> QED
      BY <1>8, <2>2, <3>1, WaysNat
  <2> QED
    BY <2>1, <2>2
<1> QED
  BY <1>3, <1>4, <1>5, <1>6, <1>9 DEF Edges

LEMMA HeapInit == Init => HeapInv
<1>1. SUFFICES ASSUME Init PROVE HeapInv
  OBVIOUS
<1>2. Inductive /\ Exact
  BY <1>1, InitInductive, InitExact
<1>3. PlacesSound
  <2>1. ZeroNull
    BY <1>1, FactAssumption, PathAssumption DEF Init, ZeroNull
  <2>2. Vacant /\ PinSound
    BY <1>1, SlotAssumption, PathAssumption DEF Init, Vacant, PinSound
  <2> QED
    BY <2>1, <2>2 DEF PlacesSound
<1>4. LeaseOwed
  BY <1>1 DEF Init, LeaseOwed
<1>5. NoTrap /\ DeadEmpty /\ Unborn /\ Finished
  BY <1>1 DEF Init, NoTrap, DeadEmpty, Unborn, Finished
<1>6. ShellSound
  BY <1>1, SlotAssumption DEF Init, ShellSound
<1>7. Rooted
  <2>1. \A p \in Obj, i \in Field, o \in Obj : child[p][i] # o
    BY <1>1, PathAssumption DEF Init
  <2> QED
    BY <2>1 DEF Rooted
<1> QED
  BY <1>2, <1>3, <1>4, <1>5, <1>6, <1>7 DEF HeapInv, ObjectsSound

LEMMA HeapNext ==
  ASSUME Disciplined, HeapInv, [Next]_vars
  PROVE  HeapInv'
<1>1. Inductive /\ PlacesSound /\ LeaseOwed /\ ObjectsSound
  BY DEF HeapInv
<1>2. Inductive' /\ PlacesSound' /\ LeaseOwed'
  BY <1>1, NextInductive, PlacesStep, LeaseStep
<1>3. Exact'
  <2>1. \A o \in Obj : rc'[o] = Edges(o)'
    BY <1>1, ExactStep
  <2> QED
    BY <2>1 DEF Exact
<1>4. NoTrap' /\ DeadEmpty' /\ Unborn' /\ Finished' /\ Rooted'
  BY <1>1, LivesStep, FinishedStep, RootedStep
<1>5. ShellSound'
  BY <1>1, ShellStep DEF ShellSound
<1> QED
  BY <1>2, <1>3, <1>4, <1>5 DEF HeapInv, ObjectsSound

LEMMA HeapHolds ==
  ASSUME Disciplined PROVE Spec => []HeapInv
<1>1. Init => HeapInv
  BY HeapInit
<1>2. HeapInv /\ [Next]_vars => HeapInv'
  BY HeapNext
<1> QED
  BY <1>1, <1>2, PTL DEF Spec

-----------------------------------------------------------------------------
(* The theorems.                                                           *)

\* In every accepted function that the builder could emit, whatever its size:
\* the reference count of each object is the number of edges that registers,
\* slots, fields, pending releases and the result carry to it, also between
\* the releases of a destructor.
THEOREM CountsAreExact ==
  ASSUME Disciplined PROVE Spec => []CountsExact
<1>1. HeapInv => CountsExact
  BY DEF HeapInv, ObjectsSound, Exact, CountsExact
<1> QED
  BY <1>1, HeapHolds, PTL

\* Such a function never makes the runtime retain or release a dead object.
THEOREM NeverTraps ==
  ASSUME Disciplined PROVE Spec => []NoTrap
<1>1. HeapInv => NoTrap
  BY DEF HeapInv, ObjectsSound
<1> QED
  BY <1>1, HeapHolds, PTL

\* A register or slot that really carries an evaluation lease is one that the
\* verifier knows may carry it, and such a slot is one for temporaries.
THEOREM LeasesAreSound ==
  ASSUME Disciplined PROVE Spec => []LeasesSound
<1>1. HeapInv => LeasesSound
  BY DEF HeapInv, LeaseOwed, LeasesSound
<1> QED
  BY <1>1, HeapHolds, PTL

\* What is alive and reached from no returned or outside handle has an owner
\* that is just as lost, and owners do not form circles.
LEMMA LostOwner ==
  ASSUME HeapInv, SlotsResolved, mode = "returned", NEW S \in SUBSET Obj, Closed(S),
         NEW o \in Obj, rc[o] > 0, o \notin S
  PROVE  \E p \in Obj \ S, i \in Field : rc[p] > 0 /\ child[p][i] = o
<1>0. /\ Inductive /\ PlacesSound /\ Exact /\ Finished /\ DeadEmpty
      /\ rc \in [Obj -> Nat] /\ owed \in [Reg -> Int]
      /\ DOMAIN cell = Slot /\ IsFiniteSet(Slot) /\ Null \notin Obj
  BY FiniteAssumption, PathAssumption DEF HeapInv, ObjectsSound, Inductive, TypeOK
<1>1. Ways(Carried, o) = 0
  <2>1. \A r \in Reg, i \in 1..MaxEdges : ~(i <= owed[r])
    BY <1>0 DEF Finished, MaxEdges
  <2>2. /\ DOMAIN Carried = Reg \X (1..MaxEdges) /\ IsFiniteSet(DOMAIN Carried)
        /\ \A e \in DOMAIN Carried : Carried[e] = Null
    BY <2>1, CarriedPlaces DEF Carried
  <2> QED
    BY <1>0, <2>2, WaysNat
<1>2. Ways(cell, o) = 0
  <2>1. ASSUME NEW s \in Slot, cell[s] = o PROVE FALSE
    <3>1. CASE s \in Owner
      <4>1. ~held[s]
        BY <3>1 DEF SlotsResolved
      <4> QED
        BY <1>0, <2>1, <4>1 DEF PlacesSound, Vacant
    <3>2. CASE s \notin Owner
      BY <2>1, <3>2 DEF Closed
    <3> QED
      BY <3>1, <3>2
  <2> QED
    BY <1>0, <2>1, WaysNat
<1>3. Ways(pending, o) = 0
  BY <1>0, WaysSingle DEF Finished
<1>4. result # o
  BY DEF Closed
<1>5. Ways(Stored, o) > 0
  BY <1>0, <1>1, <1>2, <1>3, <1>4, WayLives
<1>6. /\ DOMAIN Stored = Obj \X Field /\ IsFiniteSet(DOMAIN Stored)
      /\ \A p \in Obj, i \in Field : Stored[<<p, i>>] = child[p][i]
  BY CarriedPlaces DEF Stored
<1>7. PICK e \in DOMAIN Stored : Stored[e] = o
  BY <1>5, <1>6, WaysNat
<1>8. PICK p \in Obj, i \in Field : e = <<p, i>>
  BY <1>6
<1>9. child[p][i] = o
  BY <1>6, <1>7, <1>8
<1>10. p \notin S
  BY <1>9 DEF Closed
<1>11. rc[p] > 0
  BY <1>0, <1>9 DEF DeadEmpty
<1> QED
  BY <1>9, <1>10, <1>11

\* When such a function returns, no register owes an edge, and every object
\* that is still alive hangs off the result or off memory outside the function.
THEOREM NothingIsLeft ==
  ASSUME Disciplined PROVE Spec => []NothingLeft
<1>1. ASSUME HeapInv, SlotsResolved PROVE NothingLeft
  <2>1. SUFFICES ASSUME mode = "returned"
                 PROVE  /\ \A r \in Reg : owed[r] = 0
                        /\ {o \in Obj : rc[o] > 0} \subseteq Reachable
    BY DEF NothingLeft
  <2>2. \A r \in Reg : owed[r] = 0
    BY <1>1, <2>1 DEF HeapInv, ObjectsSound, Finished
  <2>3. ASSUME NEW S \in SUBSET Obj, Closed(S), NEW q \in Obj, rc[q] > 0, q \notin S
        PROVE  FALSE
    <3> DEFINE T == {o \in Obj \ S : rc[o] > 0}
    <3>1. T \in SUBSET Obj /\ T # {}
      BY <2>3
    <3>2. PICK o \in T : \A p \in T, i \in Field : child[p][i] # o
      BY <1>1, <3>1 DEF HeapInv, ObjectsSound, Rooted
    <3>3. \E p \in Obj \ S, i \in Field : rc[p] > 0 /\ child[p][i] = o
      BY <1>1, <2>1, <2>3, LostOwner
    <3> QED
      BY <3>2, <3>3
  <2> QED
    BY <2>2, <2>3 DEF Reachable
<1> QED
  BY <1>1, HeapHolds, ReturnDischargesSlots, PTL

\* A register that regains the edge of a slot holds the handle that was parked.
THEOREM TransfersHandBack ==
  ASSUME Disciplined PROVE Spec => TransferHandsBack
<1>1. ASSUME HeapInv, [Next]_vars PROVE [HandsBack]_vars
  BY <1>1, HandsBackStep DEF HeapInv
<1>2. Spec => [][HandsBack]_vars
  BY <1>1, HeapHolds, PTL DEF Spec
<1> QED
  BY <1>2 DEF HandsBack, TransferHandsBack

\* An evaluation lease ends by a release or moves on as a lease; no step turns
\* it into the edge of a logical owner.
THEOREM LeasesNeverOwn ==
  ASSUME Disciplined PROVE Spec => LeaseNeverOwns
<1>1. ASSUME HeapInv, [Next]_vars PROVE [NeverOwns]_vars
  BY <1>1, NeverOwnsStep DEF HeapInv
<1>2. Spec => [][NeverOwns]_vars
  BY <1>1, HeapHolds, PTL DEF Spec
<1> QED
  BY <1>2 DEF NeverOwns, LeaseNeverOwns
=============================================================================
