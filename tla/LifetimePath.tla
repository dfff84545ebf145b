--------------------------- MODULE LifetimePath ---------------------------
(***************************************************************************)
(* One execution of a function that the physical lifetime verifier         *)
(* accepts, run three times at once:                                       *)
(*                                                                         *)
(*   flow          what the verifier believes at this point (LifetimeIr);  *)
(*   owed, held    the exact ledger: how many strong edges each register   *)
(*                 carries and which slots carry one; lent and lentCell    *)
(*                 say where an evaluation lease is among them;            *)
(*   val, cell,    the program after lower_unchecked: handles in registers *)
(*   child, rc     and memory, and the reference counts of the ARC runtime,*)
(*   pending       with the releases a destructor still has to make.       *)
(*                                                                         *)
(* The instruction executed next is any instruction the verifier accepts   *)
(* at this point, so the behaviours are all paths through all accepted     *)
(* functions over the given registers and slots, loops included.  Join     *)
(* weakens the flow as the meeting of two paths does.                      *)
(***************************************************************************)
EXTENDS LifetimeIr, Counting

CONSTANTS
  Obj,          \* heap objects; an object is never allocated twice
  Null, Undef,  \* the null handle, an unwritten register or stack cell
  Params,       \* the managed parameters of the function
  MaxJoins,     \* bound on the number of Join steps
  MaxArgs,      \* bound on the arguments of a call
  Loops,        \* FALSE: each register is defined at most once on the path
  Disciplined   \* TRUE: only the shapes ir_builder.rs emits, see Builder*

ASSUME PathAssumption ==
  /\ Params \subseteq Reg \ Zero
  /\ Disciplined \in BOOLEAN /\ Loops \in BOOLEAN
  /\ MaxJoins \in Nat /\ MaxArgs \in Nat
  /\ Null \notin Obj /\ Undef \notin Obj /\ Null # Undef
\* A function has finitely many registers and slots, memory finitely many cells.
ASSUME FiniteAssumption ==
  IsFiniteSet(Reg) /\ IsFiniteSet(Slot) /\ IsFiniteSet(Obj)

VARIABLES
  flow, owed, held, lent, lentCell, val, cell, child, rc,
  born,     \* the objects allocated so far
  pending,  \* handles to release before the next instruction
  mode,     \* "running", "returned" or "trapped"
  result,   \* the handle returned
  joins
leases == <<lent, lentCell>>
ledger == <<owed, held, leases>>
heap == <<child, rc, born, pending, mode, result>>
vars == <<flow, ledger, val, cell, heap, joins>>

Handle == Obj \cup {Null}

Init ==
  /\ flow = EntryFlow(Params)
  /\ owed = [r \in Reg |-> IF r \in Params THEN 1 ELSE 0]
  /\ held = [s \in Slot |-> FALSE]
  /\ lent = [r \in Reg |-> FALSE] /\ lentCell = [s \in Slot |-> FALSE]
  \* Each parameter brings an object of the caller's, distinct or null.
  /\ \E p \in [Params -> Handle] :
       /\ \A a, b \in Params : p[a] = p[b] /\ a # b => p[a] = Null
       /\ val = [r \in Reg |-> IF r \in Zero THEN Null
                               ELSE IF r \in Params THEN p[r] ELSE Undef]
       /\ born = {p[r] : r \in Params} \ {Null}
  /\ cell = [s \in Slot |-> IF s \in Owner THEN Undef ELSE Null]
  /\ child = [o \in Obj |-> [i \in Field |-> Null]]
  /\ rc = [o \in Obj |-> IF o \in born THEN 1 ELSE 0]
  /\ pending = <<>>
  /\ mode = "running" /\ result = Null
  /\ joins = 0

-----------------------------------------------------------------------------
(* The builder's side of the contract (ir_builder.rs), which the verifier  *)
(* does not establish by itself.                                           *)

\* Registers are assigned once per visit of their instruction, and the slot
\* that pins one is vacated before that instruction is reached again.
BuilderDefines(d) ==
  /\ owed[d] = 0 /\ d \notin Zero
  /\ Loops \/ val[d] = Undef
  /\ \A s \in Owner : held[s] => Pins[s] # {d}
\* A transfer names a slot that only ever held that one value.
BuilderTransfers(s, v) == Disciplined => Pins[s] = {v}
\* A dropped value that was read from a slot was moved out of it.
BuilderDrops(v) == Disciplined /\ Source[v] \in Owner => ~held[Source[v]]
\* An immutable edge is acquired on a handle just loaded, and a resource cell
\* or closure adopts a parameter or an environment just allocated.
BuilderShares(v, kind) ==
  Disciplined /\ kind = "ImmutableBacking" => owed[v] = 0
BuilderAdopts(v) == Disciplined => ~lent[v]
\* Exchanges go through a reference, never to a slot of this function.
BuilderSwaps(s) == Disciplined => s \notin Owner
\* An aggregate is parked in its construction slot as soon as it is allocated
\* and is nobody else's until it is complete.
BuilderConstructs(s, v) ==
  s \in Shell => /\ val[v] \in Obj /\ rc[val[v]] = 1 /\ owed[v] = 1
                 /\ \A i \in Field : child[val[v]][i] = Null
BuilderAcquires(v) == \A s \in Shell : held[s] => cell[s] # val[v]
\* A handle observed without an edge is used while its owner lives: this is
\* what the source loans guarantee.
LoanLive(v) == val[v] \in Obj => rc[val[v]] > 0
\* Memory that is not registered here is written when it holds nothing.
PlaceVacant(s) == s \notin Owner => ~held[s]
\* A stack cell is dropped only after its first store.
Initialized(s) == cell[s] # Undef

Running == mode = "running" /\ pending = <<>>
Fresh == Obj \ born

-----------------------------------------------------------------------------
(* Ledger and heap effects shared by the instructions.                     *)

Pay(uses) == [r \in Reg |-> IF r \in Zero THEN 0 ELSE owed[r] - uses[r]]
Hold(s, live) == held' = [held EXCEPT ![s] = live]
\* Register d takes over an edge that is or is not a lease; a register that
\* has paid its last edge carries no lease.
Gain(d, uses, lease) ==
  /\ owed' = [Pay(uses) EXCEPT ![d] = 1]
  /\ lent' = [r \in Reg |-> IF r = d THEN lease ELSE lent[r] /\ Pay(uses)[r] > 0]
Lose(uses) ==
  /\ owed' = Pay(uses)
  /\ lent' = [r \in Reg |-> lent[r] /\ Pay(uses)[r] > 0]
NoUse == [r \in Reg |-> 0]
Lend(s, lease) == lentCell' = [lentCell EXCEPT ![s] = lease]

\* __fishy_retain: null is ignored, a dead object traps.
Retain(o) ==
  IF o = Null THEN UNCHANGED <<rc, mode>>
  ELSE IF rc[o] = 0 THEN mode' = "trapped" /\ UNCHANGED rc
  ELSE rc' = [rc EXCEPT ![o] = @ + 1] /\ UNCHANGED mode

\* An object with the given children comes to life with one owner.
NewObject(o, fields) ==
  /\ o \in Fresh
  /\ born' = born \cup {o}
  /\ rc' = [rc EXCEPT ![o] = 1]
  /\ child' = [child EXCEPT ![o] = fields]
  /\ UNCHANGED <<pending, mode, result>>

-----------------------------------------------------------------------------
(* One action per instruction: the verifier's rule, the ledger, and the    *)
(* lowered code.                                                           *)

DoAlloca(s) ==
  /\ Running /\ s \in Owner /\ AllocaOk(flow, s)
  /\ flow' = Alloca(flow, s)
  /\ UNCHANGED <<ledger, val, cell, heap, joins>>

DoAlloc(d) ==
  /\ Running /\ BuilderDefines(d) /\ AllocOk(flow, d)
  /\ flow' = Alloc(flow, d)
  /\ Gain(d, NoUse, FALSE)
  /\ \E o \in Fresh : /\ NewObject(o, [i \in Field |-> Null])
                      /\ val' = [val EXCEPT ![d] = o]
  /\ UNCHANGED <<held, lentCell, cell, joins>>

DoStoreOwned(s, v) ==
  /\ Running /\ val[v] # Undef /\ PlaceVacant(s) /\ BuilderConstructs(s, v)
  /\ StoreOwnedOk(flow, s, v)
  /\ flow' = StoreOwned(flow, s, v)
  /\ Lose(Once(v))
  /\ Hold(s, v \notin Zero) /\ Lend(s, lent[v])
  /\ cell' = [cell EXCEPT ![s] = val[v]]
  /\ UNCHANGED <<val, heap, joins>>

\* Lowered to a load and a store of null.
DoMove(d, s) ==
  /\ Running /\ BuilderDefines(d) /\ Source[d] = s /\ Initialized(s)
  /\ MoveOk(flow, d, s)
  /\ flow' = Move(flow, d, s)
  /\ Gain(d, NoUse, lentCell[s])
  /\ Hold(s, FALSE) /\ Lend(s, FALSE)
  /\ val' = [val EXCEPT ![d] = cell[s]]
  /\ cell' = [cell EXCEPT ![s] = Null]
  /\ UNCHANGED <<heap, joins>>

\* ReadMode::Observe and a plain Load: the handle without an edge.
DoObserve(d, s) ==
  /\ Running /\ BuilderDefines(d) /\ Source[d] = s /\ Initialized(s)
  /\ s \notin Shell
  /\ val' = [val EXCEPT ![d] = cell[s]]
  /\ UNCHANGED <<flow, ledger, cell, heap, joins>>

DoBorrowValue(d, v) ==
  /\ Running /\ BuilderDefines(d) /\ d \in Borrowed /\ val[v] # Undef
  /\ val' = [val EXCEPT ![d] = val[v]]
  /\ UNCHANGED <<flow, ledger, cell, heap, joins>>

\* Lowered to a store of null only: the register still has its old handle.
DoTransferSlot(s, v) ==
  /\ Running /\ val[v] # Undef /\ owed[v] = 0
  /\ BuilderTransfers(s, v) /\ TransferSlotOk(flow, s, v)
  /\ flow' = TransferSlot(flow, s, v)
  /\ Gain(v, NoUse, lentCell[s])
  /\ Hold(s, FALSE) /\ Lend(s, FALSE)
  /\ cell' = [cell EXCEPT ![s] = Null]
  /\ UNCHANGED <<val, heap, joins>>

\* Load, store null, release: the slot is cleared before any destructor.
\* Dropping a resource cell or an element in place has the same lowering.
DoDropSlot(s) ==
  /\ Running /\ Initialized(s)
  /\ flow' = DropSlot(flow, s)
  /\ Hold(s, FALSE) /\ Lend(s, FALSE)
  /\ cell' = [cell EXCEPT ![s] = Null]
  /\ pending' = <<cell[s]>>
  /\ UNCHANGED <<owed, lent, val, child, rc, born, mode, result, joins>>

DoSwapValue(d, s, v) ==
  /\ Running /\ BuilderDefines(d) /\ d # v /\ val[v] # Undef
  /\ BuilderSwaps(s) /\ Initialized(s) /\ SwapValueOk(flow, d, s, v)
  /\ flow' = SwapValue(flow, d, s, v)
  /\ Gain(d, Once(v), lentCell[s])
  /\ Hold(s, TRUE) /\ Lend(s, lent[v])
  /\ val' = [val EXCEPT ![d] = cell[s]]
  /\ cell' = [cell EXCEPT ![s] = val[v]]
  /\ UNCHANGED <<heap, joins>>

DoOwnedCast(d, v) ==
  /\ Running /\ BuilderDefines(d) /\ d # v /\ val[v] # Undef
  /\ OwnedCastOk(flow, d, v)
  /\ flow' = OwnedCast(flow, d, v)
  /\ Gain(d, Once(v), lent[v])
  /\ val' = [val EXCEPT ![d] = val[v]]
  /\ UNCHANGED <<held, lentCell, cell, heap, joins>>

DoDropValue(v, recipe) ==
  /\ Running /\ val[v] # Undef /\ BuilderDrops(v)
  /\ DropValueOk(flow, v, recipe)
  /\ flow' = DropValue(flow, v)
  /\ Lose(Once(v))
  /\ pending' = <<val[v]>>
  /\ UNCHANGED <<held, lentCell, val, cell, child, rc, born, mode, result, joins>>

DoAcquire(v, kind) ==
  /\ Running /\ val[v] # Undef /\ LoanLive(v) /\ BuilderAcquires(v) /\ BuilderShares(v, kind)
  /\ AcquireOk(flow, v, kind)
  /\ flow' = Acquire(flow, v, kind)
  /\ owed' = IF v \in Zero THEN owed ELSE [owed EXCEPT ![v] = @ + 1]
  /\ lent' = IF v \in Zero THEN lent
             ELSE [lent EXCEPT ![v] = @ \/ kind = "Evaluation"]
  /\ Retain(val[v])
  /\ UNCHANGED <<held, lentCell, val, cell, child, born, pending, result, joins>>

\* MakeFatPtr and MakeClosure: a new wrapper whose edge is the payload's.
DoWrap(d, v, kind) ==
  /\ Running /\ BuilderDefines(d) /\ d # v /\ val[v] # Undef
  /\ BuilderAdopts(v) /\ WrapOk(flow, d, v, kind)
  /\ flow' = Wrap(flow, d, v)
  /\ Gain(d, Once(v), FALSE)
  /\ \E o \in Fresh :
       /\ NewObject(o, [j \in Field |-> IF j = 0 THEN val[v] ELSE Null])
       /\ val' = [val EXCEPT ![d] = o]
  /\ UNCHANGED <<held, lentCell, cell, joins>>

\* The callee owns its by-value arguments; the one modelled drops them in
\* order and returns null or an object of its own.
DoCall(args, d) ==
  /\ Running /\ BuilderDefines(d)
  /\ \A k \in DOMAIN args : args[k] # d /\ val[args[k]] # Undef
  /\ CallOk(flow, args, d)
  /\ flow' = Call(flow, args, d)
  /\ Gain(d, Uses(args), FALSE)
  /\ \E o \in Fresh \cup {Null} :
       /\ val' = [val EXCEPT ![d] = o]
       /\ born' = born \cup ({o} \ {Null})
       /\ rc' = [p \in Obj |-> IF p = o THEN 1 ELSE rc[p]]
  /\ pending' = [k \in DOMAIN args |-> val[args[k]]]
  /\ UNCHANGED <<held, lentCell, cell, child, mode, result, joins>>

\* formalize_storage places it next to the registration of the slot, before
\* any field is written.
DoConstruction(s) ==
  /\ Running /\ s \in Shell /\ ConstructionOk(flow, s)
  /\ \A i \in Field : child[cell[s]][i] = Null
  /\ flow' = Construction(flow, s)
  /\ UNCHANGED <<ledger, val, cell, heap, joins>>

\* Field k of the object that the shell slot owns is written; i is its index
\* if that is a literal, or Fields.  Computed indices fill the elements of an
\* array outside the recipe, once, and nothing is initialized with itself.
DoInitializeField(s, i, k, v) ==
  /\ Running /\ val[v] # Undef /\ val[v] # cell[s] /\ cell[s] \in Obj
  /\ i = k \/ (i = Fields /\ k \notin Recipe[s] /\ child[cell[s]][k] = Null)
  /\ InitializeFieldOk(flow, s, i, v)
  /\ flow' = InitializeField(flow, s, i, v)
  /\ Lose(Once(v))
  /\ child' = [child EXCEPT ![cell[s]][k] = val[v]]
  /\ UNCHANGED <<held, lentCell, val, cell, rc, born, pending, mode, result, joins>>

\* The payload cell of a resource (a Vec element) is a place outside Owner.
DoResourceInitialize(s, v) ==
  /\ Running /\ s \notin Owner /\ PlaceVacant(s) /\ val[v] # Undef
  /\ BuilderAdopts(v) /\ ResourceInitializeOk(flow, v)
  /\ flow' = ResourceInitialize(flow, v)
  /\ Lose(Once(v))
  /\ Hold(s, v \notin Zero) /\ Lend(s, lent[v])
  /\ cell' = [cell EXCEPT ![s] = val[v]]
  /\ UNCHANGED <<val, heap, joins>>

DoResourceTake(d, s) ==
  /\ Running /\ BuilderDefines(d) /\ s \notin Owner
  /\ ResourceTakeOk(flow, d)
  /\ flow' = ResourceTake(flow, d)
  /\ Gain(d, NoUse, lentCell[s])
  /\ Hold(s, FALSE) /\ Lend(s, FALSE)
  /\ val' = [val EXCEPT ![d] = cell[s]]
  /\ cell' = [cell EXCEPT ![s] = Null]
  /\ UNCHANGED <<heap, joins>>

\* The caller receives the edge of the returned register.
DoRet(v) ==
  /\ Running /\ val[v] # Undef /\ RetOk(flow, v)
  /\ Lose(Once(v))
  /\ mode' = "returned"
  /\ result' = val[v]
  /\ flow' = Take(flow, Once(v))
  /\ UNCHANGED <<held, lentCell, val, cell, child, rc, born, pending, joins>>

-----------------------------------------------------------------------------
(* The runtime, the meeting of paths, and the whole system.                *)

\* __fishy_release: null is ignored, a dead object traps, and the last owner
\* runs the destructor, which releases the strong fields last first.
Children(o) == [k \in 1..Fields |-> child[o][Fields - k]]
Release ==
  /\ mode = "running" /\ pending # <<>>
  /\ LET o == Head(pending) IN
       \/ /\ o = Null
          /\ pending' = Tail(pending)
          /\ UNCHANGED <<rc, child, mode>>
       \/ /\ o # Null /\ rc[o] = 0
          /\ mode' = "trapped"
          /\ UNCHANGED <<rc, child, pending>>
       \/ /\ o # Null /\ rc[o] > 1
          /\ rc' = [rc EXCEPT ![o] = @ - 1]
          /\ pending' = Tail(pending)
          /\ UNCHANGED <<child, mode>>
       \/ /\ o # Null /\ rc[o] = 1
          /\ rc' = [rc EXCEPT ![o] = 0]
          /\ pending' = Children(o) \o Tail(pending)
          /\ child' = [child EXCEPT ![o] = [i \in Field |-> Null]]
          /\ UNCHANGED mode
  /\ UNCHANGED <<flow, ledger, val, cell, born, joins, result>>

\* Another path that reaches this point brings one more alternative.
Weaken(part) ==
  \E x \in DOMAIN flow[part], a \in IF part = "values" THEN Count ELSE BOOLEAN :
    /\ part = "values" => x \notin Zero
    /\ flow' = [flow EXCEPT ![part][x] = @ \cup {a}]
DoJoin ==
  /\ Running /\ joins < MaxJoins
  /\ joins' = joins + 1
  /\ \E part \in DOMAIN flow : Weaken(part)
  /\ UNCHANGED <<ledger, val, cell, heap>>

Slots ==
  \/ \E s \in Slot : DoAlloca(s) \/ DoDropSlot(s)
  \/ \E s \in Shell : DoConstruction(s)
  \/ \E s \in Slot, v \in Reg :
       \/ DoStoreOwned(s, v) \/ DoTransferSlot(s, v) \/ DoResourceInitialize(s, v)
       \/ DoMove(v, s) \/ DoObserve(v, s) \/ DoResourceTake(v, s)
       \/ \E d \in Reg : DoSwapValue(d, s, v)
  \/ \E s \in Shell, v \in Reg, i \in 0..Fields, k \in Field :
       DoInitializeField(s, i, k, v)
Values ==
  \/ \E v \in Reg : DoAlloc(v) \/ DoRet(v)
  \/ \E v \in Reg, recipe \in {"Managed", "Temporary"} : DoDropValue(v, recipe)
  \/ \E v \in Reg, kind \in {"ImmutableBacking", "Evaluation"} : DoAcquire(v, kind)
  \/ \E d, v \in Reg :
       \/ DoOwnedCast(d, v) \/ DoBorrowValue(d, v)
       \/ \E kind \in {"FatPtr", "Closure"} : DoWrap(d, v, kind)
  \/ \E d \in Reg, n \in 0..MaxArgs : \E args \in [1..n -> Reg] : DoCall(args, d)

Next == Slots \/ Values \/ Release \/ DoJoin
Spec == Init /\ [][Next]_vars

-----------------------------------------------------------------------------
(* Properties.                                                             *)

TypeOK ==
  /\ flow \in Flow
  /\ owed \in [Reg -> Int] /\ held \in [Slot -> BOOLEAN]
  /\ lent \in [Reg -> BOOLEAN] /\ lentCell \in [Slot -> BOOLEAN]
  /\ val \in [Reg -> Handle \cup {Undef}]
  /\ cell \in [Slot -> Handle \cup {Undef}]
  /\ child \in [Obj -> [Field -> Handle]]
  /\ rc \in [Obj -> Nat] /\ born \subseteq Obj
  /\ pending \in Seq(Handle)
  /\ mode \in {"running", "returned", "trapped"} /\ result \in Handle
  /\ joins \in 0..MaxJoins

\* The verifier's alternatives always contain what is really owed and held:
\* in particular no accepted instruction consumes an edge that is not there.
LedgerSound ==
  /\ \A r \in Reg \ Zero : owed[r] \in flow.values[r]
  /\ \A s \in Owner : held[s] \in flow.cells[s]
  /\ Disciplined => \A s \in Owner : held[s] \in flow.cleanup[s]

\* Where a lease really is, the verifier knows that it may be there, and it is
\* parked only in slots for temporaries.  The builder's rules are needed: the
\* verifier has one flag per register, so a lease is forgotten when its register
\* is shared, adopted by a resource or swapped away.
LeasesSound ==
  /\ \A r \in Reg : lent[r] => TRUE \in flow.leases[r]
  /\ \A s \in Slot : lentCell[s] => s \in Temporary /\ TRUE \in flow.cellLeases[s]

\* The reference count of an object is the number of edges of the ledger and
\* of memory that lead to it, also while destructors run.  A register that
\* carries n edges to its object counts as n places.
Carried == [e \in Reg \X (1..MaxEdges) |-> IF e[2] <= owed[e[1]] THEN val[e[1]] ELSE Null]
Stored == [q \in Obj \X Field |-> child[q[1]][q[2]]]
Edges(o) ==
  Ways(Carried, o) + Ways(cell, o) + Ways(Stored, o) + Ways(pending, o)
  + IF mode = "returned" /\ result = o THEN 1 ELSE 0
CountsExact == mode # "trapped" => \A o \in Obj : rc[o] = Edges(o)

\* No accepted function makes the runtime retain or release a dead object.
NoTrap == mode # "trapped"

\* At a return every cleanup slot is discharged, every register too, and what
\* is still alive belongs to the caller: it hangs off the result or off memory
\* outside the function.
SlotsResolved == mode = "returned" => \A s \in Owner : ~held[s]
Closed(S) ==
  /\ result \in Obj => result \in S
  /\ \A s \in Slot \ Owner : cell[s] \in Obj => cell[s] \in S
  /\ \A o \in S, i \in Field : child[o][i] \in Obj => child[o][i] \in S
Reachable == {o \in Obj : \A S \in SUBSET Obj : Closed(S) => o \in S}
NothingLeft ==
  mode = "returned" =>
    /\ \A r \in Reg : owed[r] = 0
    /\ {o \in Obj : rc[o] > 0} \subseteq Reachable

\* "A cached value is handed back from its registered slot to a consumer":
\* the register that regains an edge holds the handle that was parked.
TransferHandsBack ==
  [][\A s \in Owner, v \in Reg :
       held[s] /\ ~held'[s] /\ owed'[v] > owed[v] /\ val' = val
         => cell[s] = val[v]]_vars

\* An evaluation lease ends by a release, or moves on as a lease in another
\* register or in a temporary slot; it never becomes a logical owner's edge.
LeaseNeverOwns ==
  [][\A r \in Reg : owed'[r] < owed[r] /\ lent[r] =>
       \/ pending' = <<val[r]>>
       \/ \E s \in Temporary : ~held[s] /\ held'[s] /\ lentCell'[s]
       \/ \E d \in Reg : ~lent[d] /\ lent'[d]]_vars
=============================================================================
