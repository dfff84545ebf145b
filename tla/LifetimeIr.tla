---------------------------- MODULE LifetimeIr ----------------------------
(***************************************************************************)
(* The physical lifetime IR of FishyC and the rules by which its verifier  *)
(* accepts a path through it (src/src/physical_ownership.rs).              *)
(*                                                                         *)
(* A register either owes nothing or carries a small number of strong      *)
(* edges that somebody has to discharge; a registered cleanup slot is      *)
(* vacant or live.  The verifier keeps, for every register and slot, the   *)
(* SET of alternatives that some path can bring (a u8 bit mask in the      *)
(* code).  For each operation X this module defines the check XOk and the  *)
(* resulting flow.  Only managed handles and literal zeros are modelled:   *)
(* the verifier has no rule that counts other registers.                   *)
(***************************************************************************)
EXTENDS Integers, FiniteSets, Sequences

CONSTANTS
  Reg,        \* the managed registers of one function
  Zero,       \* those that hold a literal 0 or a cast of one
  Slot,       \* addresses of managed handles
  Owner,      \* the slots registered for cleanup by OwnerSlot
  Temporary,  \* those of SlotKind::Temporary
  Shell,      \* those of SlotKind::Construction
  View,       \* the non-owning forwarding views (ViewSlot)
  Fields,     \* number of fields of an aggregate
  Recipe,     \* the managed fields of the aggregate under construction
  Pins,       \* every register some StoreOwned of the function puts in a slot
  Source,     \* the slot a register was read from, NoSlot if from none
  NoSlot,
  Borrowed,   \* registers defined by BorrowValue
  Shared      \* registers of a type with a private shared-type contract

Field == 0..Fields - 1

ASSUME SlotAssumption ==
  /\ Owner \subseteq Slot /\ View \subseteq Slot \ Owner
  /\ Temporary \subseteq Owner /\ Shell \subseteq Owner \ Temporary
  /\ NoSlot \notin Slot
ASSUME FactAssumption ==
  /\ Zero \subseteq Reg /\ Shared \subseteq Reg /\ Borrowed \subseteq Reg
  /\ Fields \in Nat \ {0}
  /\ Recipe \in [Shell -> SUBSET Field]
  /\ Pins \in [Slot -> SUBSET Reg]
  /\ Source \in [Reg -> Slot \cup {NoSlot}]

-----------------------------------------------------------------------------
(* The verifier's state at one program point.                              *)

MaxEdges == 3      \* a count is one of 0..3, one bit of the mask each
Count == 0..MaxEdges

Flow == [values     : [Reg -> SUBSET Count],
         leases     : [Reg -> SUBSET BOOLEAN],
         cells      : [Owner -> SUBSET BOOLEAN],
         cellLeases : [Slot -> SUBSET BOOLEAN],
         progress   : [Shell \X Field -> SUBSET BOOLEAN],
         cleanup    : [Owner -> SUBSET BOOLEAN]]

\* A function starts with one edge per managed parameter and vacant slots.
EntryFlow(params) ==
  [values     |-> [r \in Reg |-> IF r \in params THEN {1} ELSE {0}],
   leases     |-> [r \in Reg |-> {FALSE}],
   cells      |-> [s \in Owner |-> {FALSE}],
   cellLeases |-> [s \in Slot |-> {FALSE}],
   progress   |-> [p \in Shell \X Field |-> {FALSE}],
   cleanup    |-> [s \in Owner |-> {FALSE}]]

\* Where paths meet, every alternative of either path stays possible.
Union(a, b) == [x \in DOMAIN a |-> a[x] \cup b[x]]
Join(f, g) == [c \in DOMAIN f |-> Union(f[c], g[c])]

\* g is narrower than f: each of its sets of alternatives is a nonempty part
\* of the corresponding one of f.
Narrower(g, f) ==
  /\ \A r \in Reg : g.values[r] # {} /\ g.values[r] \subseteq f.values[r]
  /\ \A r \in Reg : g.leases[r] # {} /\ g.leases[r] \subseteq f.leases[r]
  /\ \A s \in Owner : g.cells[s] # {} /\ g.cells[s] \subseteq f.cells[s]
  /\ \A s \in Slot :
       g.cellLeases[s] # {} /\ g.cellLeases[s] \subseteq f.cellLeases[s]
  /\ \A p \in Shell \X Field :
       g.progress[p] # {} /\ g.progress[p] \subseteq f.progress[p]
  /\ \A s \in Owner : g.cleanup[s] # {} /\ g.cleanup[s] \subseteq f.cleanup[s]

-----------------------------------------------------------------------------
(* The two moves of the edge count: take and produce.                      *)

\* How often each register is consumed by a list of operands.
Uses(args) == [r \in Reg |-> Cardinality({k \in DOMAIN args : args[k] = r})]
Once(v) == [r \in Reg |-> IF r = v THEN 1 ELSE 0]

\* Variant: an operand used twice is only looked at once.
CanTakeIgnoringRepeats(f, uses) ==
  \A r \in Reg \ Zero : \A n \in f.values[r] : uses[r] > 0 => n > 0
CanTake(f, uses) ==
  \A r \in Reg \ Zero : \A n \in f.values[r] : uses[r] <= n
Take(f, uses) ==
  [f EXCEPT !.values = [r \in Reg |->
      IF r \in Zero THEN @[r] ELSE {n - uses[r] : n \in @[r]}]]

CanProduce(f, d) == f.values[d] \subseteq {0}
Produce(f, d, lease) == [f EXCEPT !.values[d] = {1}, !.leases[d] = lease]

Leased(f, v) == TRUE \in f.leases[v]
Live(f, s) == s \in Owner /\ f.cells[s] = {TRUE}

\* Vacate or fill a registered slot in both analyses; other slots carry no
\* obligation of this function.
SetSlot(f, s, live) ==
  IF s \in Owner
  THEN [f EXCEPT !.cells[s] = {live}, !.cleanup[s] = {live}] ELSE f
ResetProgress(f, s) ==
  [f EXCEPT !.progress = [p \in DOMAIN @ |->
      IF p[1] = s THEN {FALSE} ELSE @[p]]]

-----------------------------------------------------------------------------
(* Slots.                                                                  *)

AllocaOk(f, s) == s \in Owner => TRUE \notin f.cells[s]
Alloca(f, s) == SetSlot(f, s, FALSE)

\* Variants: a live slot is overwritten, a lease enters any slot.
StoreOwnedOverwriting(f, s, v) ==
  v \in Pins[s] /\ (Leased(f, v) => s \in Temporary) /\ CanTake(f, Once(v))
StoreOwnedOfLease(f, s, v) ==
  /\ v \in Pins[s] /\ CanTake(f, Once(v))
  /\ s \in Owner => TRUE \notin f.cells[s]
StoreOwnedOk(f, s, v) ==
  /\ v \in Pins[s]
  /\ Leased(f, v) => s \in Temporary
  /\ s \in Owner => TRUE \notin f.cells[s]
  /\ CanTake(f, Once(v))
StoreOwned(f, s, v) ==
  SetSlot([Take(f, Once(v)) EXCEPT !.cellLeases[s] = f.leases[v]],
          s, v \notin Zero)

MoveOk(f, d, s) ==
  /\ s \notin View
  /\ s \in Owner => Live(f, s)
  /\ CanProduce(f, d)
Move(f, d, s) == SetSlot(Produce(f, d, f.cellLeases[s]), s, FALSE)

\* A cached register gets back the edge that was parked in its slot.
TransferSlotOk(f, s, v) ==
  /\ v \in Pins[s]
  /\ s \in Shell => \A i \in Recipe[s] : f.progress[<<s, i>>] = {TRUE}
  /\ Live(f, s)
  /\ CanProduce(f, v)
\* Variants: the slot keeps its obligation, the register forgets its lease.
TransferSlotKeepingSlot(f, s, v) ==
  Produce(ResetProgress(f, s), v, f.cellLeases[s])
TransferSlotForgettingLease(f, s, v) ==
  SetSlot(Produce(ResetProgress(f, s), v, {FALSE}), s, FALSE)
TransferSlot(f, s, v) ==
  SetSlot(Produce(ResetProgress(f, s), v, f.cellLeases[s]), s, FALSE)

DropSlot(f, s) == SetSlot(ResetProgress(f, s), s, FALSE)

\* Exchange through a reference: the cleanup analysis has no arm for it.
SwapValueOk(f, d, s, v) ==
  ~Leased(f, v) /\ CanTake(f, Once(v)) /\ CanProduce(f, d)
SwapValue(f, d, s, v) ==
  LET g == Produce(Take(f, Once(v)), d, {FALSE})
  IN  IF s \in Owner THEN [g EXCEPT !.cells[s] = {TRUE}] ELSE g

-----------------------------------------------------------------------------
(* Values.                                                                 *)

OwnedCastOk(f, d, v) == CanTake(f, Once(v)) /\ CanProduce(f, d)
OwnedCast(f, d, v) == Produce(Take(f, Once(v)), d, f.leases[v])

\* recipe is "Managed" (a logical value ends) or "Temporary" (a result does).
DropValueOk(f, v, recipe) ==
  /\ recipe = "Managed" => ~Leased(f, v) /\ v \notin Borrowed
  /\ CanTake(f, Once(v))
\* The cleanup analysis takes the drop of a value that was read from a slot
\* for the end of that slot's obligation.
DropValue(f, v) ==
  LET g == Take(f, Once(v))
  IN  IF Source[v] \in Owner
      THEN [g EXCEPT !.cleanup[Source[v]] = {FALSE}] ELSE g

\* Variant: edges accumulate without a bound.
AcquireUnbounded(f, v, kind) ==
  v \notin Borrowed /\ (kind = "ImmutableBacking" => v \in Shared)
\* kind is "ImmutableBacking" or "Evaluation".
AcquireOk(f, v, kind) ==
  /\ v \notin Borrowed
  /\ kind = "ImmutableBacking" => v \in Shared
  /\ v \notin Zero => MaxEdges \notin f.values[v]
Acquire(f, v, kind) ==
  [f EXCEPT !.leases[v] = {kind = "Evaluation"},
            !.values[v] = IF v \in Zero THEN @ ELSE {n + 1 : n \in @}]

AllocOk(f, d) == CanProduce(f, d)
Alloc(f, d) == Produce(f, d, {FALSE})

\* A trait object or a closure adopts the edge of its payload; only the
\* trait object refuses a leased one.
WrapOk(f, d, v, kind) ==
  /\ kind = "FatPtr" => ~Leased(f, v)
  /\ CanTake(f, Once(v)) /\ CanProduce(f, d)
Wrap(f, d, v) == Produce(Take(f, Once(v)), d, {FALSE})

CallOk(f, args, d) ==
  /\ \A k \in DOMAIN args : ~Leased(f, args[k])
  /\ CanTake(f, Uses(args))
  /\ CanProduce(f, d)
Call(f, args, d) == Produce(Take(f, Uses(args)), d, {FALSE})

-----------------------------------------------------------------------------
(* Aggregates under construction and initialized resources.                *)

ConstructionOk(f, s) == Live(f, s)
Construction(f, s) ==
  [f EXCEPT !.progress = [p \in DOMAIN @ |->
      IF p[1] = s /\ p[2] \in Recipe[s] THEN {FALSE} ELSE @[p]]]

\* Variant: a field is initialized again.
InitializeFieldTwice(f, s, i, v) ==
  /\ Live(f, s) /\ ~Leased(f, v) /\ CanTake(f, Once(v))
  /\ i \in Field => i \in Recipe[s]
\* i outside Field is an index that is not a literal: nothing is recorded.
InitializeFieldOk(f, s, i, v) ==
  /\ Live(f, s)
  /\ ~Leased(f, v)
  /\ CanTake(f, Once(v))
  /\ i \in Field => i \in Recipe[s] /\ TRUE \notin f.progress[<<s, i>>]
InitializeField(f, s, i, v) ==
  LET g == Take(f, Once(v))
  IN  IF i \in Field
      THEN [g EXCEPT !.progress[<<s, i>>] = {v \notin Zero}] ELSE g

ResourceInitializeOk(f, v) == CanTake(f, Once(v))
ResourceInitialize(f, v) == Take(f, Once(v))

ResourceTakeOk(f, d) == CanProduce(f, d)
ResourceTake(f, d) == Produce(f, d, {FALSE})

-----------------------------------------------------------------------------
(* The end of the function: no register and no cleanup slot may still owe. *)

\* Variant: a slot counts as discharged when one of the paths discharged it.
RetOnOnePath(f, v) ==
  /\ ~Leased(f, v) /\ CanTake(f, Once(v))
  /\ \A r \in Reg : Take(f, Once(v)).values[r] \subseteq {0}
  /\ \A s \in Owner : FALSE \in f.cleanup[s]
RetOk(f, v) ==
  /\ ~Leased(f, v)
  /\ CanTake(f, Once(v))
  /\ \A r \in Reg : Take(f, Once(v)).values[r] \subseteq {0}
  /\ \A s \in Owner : TRUE \notin f.cleanup[s]
=============================================================================
