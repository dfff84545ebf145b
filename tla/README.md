# FishyC in TLA+

FishyC compiles FishyLang to native code through LLVM.  The language has no
garbage collector: a *source* ownership analysis decides whether moves, borrows
and references are used soundly, a *physical* lifetime IR spells out who
releases every handle, a verifier checks that IR, and a small reference
counting runtime executes it.  An error in any of these parts is a leak, a
double release or a dangling handle in a program the compiler accepted, and a
test only sees it when the right path is taken at run time.  The project starts
there and works outwards.

Paths below are relative to the repository; the Rust files are in `src/src/`.

## 1. Inventory

The compiler is one process and one thread.  `main.rs` runs its parts in a
straight line and exits at the first part that reports an error; nothing is
persisted but the output files.  What is hard is therefore not scheduling but
*order*: fixpoints over cyclic graphs, facts collected at one point and used at
another, effects that must happen exactly once on every path, and the contract
between a part that emits instructions and the part that checks them.

| part | state it keeps | operations | what makes it correct |
|---|---|---|---|
| scanner, parser (`scanner.rs`, `token.rs`, `parser.rs`, `ast.rs`, `ast_visit.rs`) | cursor, interpolation stack, errors | tokens, declarations, expressions, error recovery | every token is consumed once, recovery terminates, precedence |
| module loader (`module_loader.rs`, `module_names.rs`) | `declarations`, `loading`, `emitted`, `next_module`, errors; per unit `bindings`, `pending` | `resolve_root`, `resolve_unit`, `load_module`, renaming | ends on cycles, each declaration once, names mean what the module says, dependencies first |
| type checker (`type_checker.rs`, `type_properties.rs`, `captures.rs`, `symbols.rs`, `identity.rs`) | scopes, types, instantiations, call and capture plans | check, instantiate, coerce | every expression typed once, plans agree with the tree the builder sees |
| ownership plan (`ownership.rs`) | a CFG of ownership operations per function; summaries and effects of all functions | build, interprocedural fixpoint | summaries cover every call, the fixpoint is reached |
| source ownership analysis (`ownership_ir.rs`) | per block a `State` (initialization, bindings, values, loans) | `transfer`, `join`, `analyze`, `check` | no use of a moved or borrowed place in an accepted program; answers independent of the order of the worklist |
| IR builder (`ir_builder.rs`, `ir.rs`) | blocks, registers, scopes with their cleanup slots, temporaries | lowering of statements and expressions, scopes, early exits | every edge it creates is discharged on every exit; it stays within the contract of the verifier |
| physical lifetimes (`physical_ownership.rs`) | per block a `Flow` (counts, leases, cells, construction progress); a second analysis of cleanup slots | `formalize_storage`, `verify_values`, `verify`, `lower` | an accepted function neither leaks nor releases twice, on any path |
| IR verifier (`ir_verify.rs`) | types, dominators | `verify` | definitions dominate uses, operand types agree |
| optimizer (`ir_optimizer.rs`) | the module | inlining, folding, block merging, dead code, dead functions | same behaviour, termination of the pass loop |
| backend and ARC runtime (`backend.rs`) | LLVM values; at run time headers with destructor, count, length | `__fishy_retain`, `__fishy_release`, destructors | counts equal the owners, destructors run once |
| standard library (`stdlib.fih`) | vectors over a raw buffer, persistent lists and strings, in FishyLang | growing, inserting, removing, clearing | elements are initialized and dropped once, capacities do not overflow |
| driver, diagnostics (`main.rs`, `diagnostics.rs`) | files | the pipeline | each verifier runs after each rewriting pass |

How they interact: the loader hands one flat list of statements to the type
checker, whose plans (keyed by token and expression identities) are read by the
ownership plan and by the builder.  The builder emits ordinary instructions and
`Instruction::Ownership` operations; `physical_ownership::lower` verifies these
and replaces them by loads, stores, `Retain` and `Release`, which the backend
turns into calls of the runtime.  There are no callbacks and no shared mutable
state between the parts, but there are two contracts that no type expresses:
what the builder promises the verifier, and what the verifier promises the
runtime.

`PROJECT.json` lists the hazards of the code, each at its line.

## 2. Plan

The order follows what an error would cost: first what decides about memory at
run time, then what decides which programs are accepted, then the translation
between the two.

| stage | modules | state |
|---|---|---|
| physical lifetimes | `LifetimeIr`, `LifetimePath` (with `Counting`), `LifetimeVerifier` | checked; soundness of the rules, of the worklist and of the heap proved |
| imports | `ModuleLoader` | checked; its safety proved |
| source analysis of one function | `OwnershipIr`, `OwnershipPlan`, `OwnershipPath` | checked |
| worklist and contracts of all functions | `OwnershipSummaries`, `OwnershipAnswers` | checked; the worklist, the rounds and that moves are reported proved |
| translation: builder, verifier, lowering, optimizer, against the meaning of the source | `Ir`, `IrBuilder`, `IrTree`, `IrProgram`, `IrLowering`, `IrVerify`, `IrOptimizer`, `IrMachine`, `SourceSemantics`, composed in `Lowering` | checked |
| the runtime | `ArcRuntime`, which refines the abstract `OwnedHeap` | checked; the refinement, the counts and Vec proved |

What is left: soundness of the source analysis for executions
(`OwnershipPath`), which needs induction over structured code; closures and
dynamic calls in the translation; the type checker's properties of types, which
are constants now.

How the modules depend on each other:

    LifetimeIr <- LifetimePath, LifetimeVerifier        OwnedHeap <= ArcRuntime
    Counting <- LifetimePath                            ModuleLoader
    OwnershipIr <- OwnershipPath, OwnershipSummaries <- OwnershipAnswers
                                                        (MC modules take OwnershipPlan)
    Ir <- IrBuilder <- IrTree <- IrProgram, IrLowering \
    Ir <- IrVerify, IrOptimizer, IrMachine              >- Lowering
    SourceSemantics (INSTANCE)                         /

## 3. The modules

### LifetimeIr: the rules

One `Flow` is the verifier's state at a program point: for every managed
register the set of numbers of strong edges it may owe (the `u8` mask of
`verify_values`: bit *n* is the member *n*; the shifts `>> 1` and `<< 1` are
the elementwise decrement and increment), whether an evaluation lease may be
among them, for every registered slot whether it may be live, for every field
of an aggregate under construction whether it may be initialized, and the slot
state of the second analysis in `verify` (`cleanup`).  Each operation `X` has
the check `XOk` and the resulting flow `X`; an early `Err` is `~XOk`.

Facts that the code collects in one sweep over the function, without regard to
order, are constants: `Zero`, `Pins`, `Source`, `Owner`, `Temporary`, `Shell`,
`Recipe`, `Borrowed`, `Shared`.  They are arbitrary sets, so they are those of
some function, and the theorems hold for all of them.  Registers that carry no
managed handle have no rule in the verifier and are left out.  `Narrower` is
the order of flows in which the proofs are stated.

### LifetimePath: an execution

An execution of an accepted function, with three descriptions side by side: the
verifier's `flow`; the exact ledger `owed`, `held`, `lent`, `lentCell`; and the
lowered code with its heap (`val`, `cell`, `child`, `rc`, `pending`).  The next
instruction is *any* instruction whose check succeeds, so the behaviours are
the paths of all accepted functions over the given registers and slots.  One
action per operation: the rule of `LifetimeIr`, the ledger, and what
`lower_unchecked` emits.  `Release` is one step of `__fishy_release`: a
destructor's releases are put in front of those still pending.  `DoJoin` adds an
alternative to the flow, as the arrival of a second path does.  `Ways` of
`Counting` is the number of arguments at which a function has a given value: the
edges from registers, from cells and from the fields of objects that lead to an
object are counted with it.  `Closed` says what an object that is handed out may
reach, as the smallest set closed under fields.

Not every sequence that passes the verifier is a program: the verifier relies on
`ir_builder.rs`, and the model says how in the guards `Builder*`.

| guard | what it assumes | where the builder ensures it |
|---|---|---|
| `BuilderDefines` | one definition per register; a pin is vacant when its register is defined again | `new_reg` numbers registers; `hold_temporary` (`ir_builder.rs:881`) allocates a slot per value |
| `BuilderTransfers` | `TransferSlot` names a slot that only ever held one value | `temporary_values`, `ir_builder.rs:887`, `finish_construction` |
| `BuilderDrops` | a dropped value that was read from a slot was moved out of it | `discard_expr` drops results, not observations |
| `BuilderConstructs`, `BuilderAcquires` | a shell is parked when it is new, and nobody else holds it until it is complete | `begin_construction` (`ir_builder.rs:896`) |
| `BuilderShares` | an immutable edge is acquired on a handle just loaded | the only emitter, `ir_builder.rs:2450` |
| `BuilderSwaps` | an exchange goes through a reference | the only emitter, `ReplaceValue`, `ir_builder.rs:2435` |
| `BuilderAdopts` | a resource cell adopts a parameter, a closure an environment just allocated, neither is leased | `ir_builder.rs:2475`, `MakeClosure` at 1204, 1260 and 4181 |
| `LoanLive` | a handle observed without an edge is used while its owner lives | the source analysis (`ownership_ir.rs`) |
| `PlaceVacant`, `Initialized` | memory outside the frame is written when it holds nothing; a stack cell is dropped after its first store | source initialization state |

The guards that carry `Disciplined` can be switched off; two runs do so and show
what the verifier alone would let through.  Allocation never fails and an object
is never reused, so a release of a dead object is always visible.

### LifetimeVerifier: the worklist

`verify_values` and `verify` are two worklists of the same shape over the same
graph.  Neither reads what the other computes, so the model runs them as one on
the product of their states; a function is accepted when both accept.  `Visit`
pops a block, `Check` is one turn of the loop over its instructions,
`Propagate` one turn of the loop over its successors, `Accept` the empty queue.
The code recomputes predecessors' alternatives by `Flow::join` and queues a
block when something changed; the code's notion of change also counts a newly
written map key with its default value, so it may queue a block once more than
the model, which changes neither result nor termination.

After `accepted` the function runs (`Execute`, `Jump`) along any path, without
checks, on a ledger that is exact: every set of alternatives has one member.

### ModuleLoader

`resolve_unit` and `load_module` call each other; their frames are the variable
`stack` (path, module number, position in the file, `bindings`, `pending`).
`declarations`, `loading`, `emitted` and `next_module` are the fields of the
struct.  The steps are: a declaration is passed over (`Declare`), an import path
does not resolve (`NotFound`), the module is being loaded or was met before
(`Skip`), it cannot be read (`FailToRead`), it is entered (`Descend`: number,
reserved names, published declarations, all before its first statement), and
the end of a unit (`FinishModule`, `FinishRoot`), which resolves references with
the finished `bindings` and splices the contents of imports in place.  Three of
these end with the loop over the names of the import (`Bound`, `Complaints`).

A file is a sequence of imports and declarations; of a declaration only the
name, its visibility and the names it refers to are kept.  `Worlds` are the
possible contents of the files, chosen in `Init`.  `Hidden` is the name that
nothing declares, `__fishy_hidden_<n>_<name>`; that no program can declare it is
the reason for the check of reserved names, so two of the names of the run look
like generated ones.  Scanner and parser errors, unqualified enum constructors
and scopes of local names are left out; so is the standard library's own text,
of which only the public names matter.

### OwnershipIr: the rules of the source analysis

`ownership_ir.rs` as operators.  A provenance is a set of pairs of a component
path and an origin, with a set of loans; `Project`, `At`, `Normalize` and
`JoinProvenance` are the code's functions on it, the cut at eight projections
included (`MaxPath`, three in the runs).  An analysis `an` is the code's `State`
with three collecting fields for what `Analysis` receives: errors, stores
through parameters, returned provenance.  Every operation of `transfer` is an
operator `an -> an` (`Access`, `Borrow`, `Bind`, `Assign`, `Call`, `Return`,
`EndScope`, ...), and `Transfer` dispatches on a record that stands for
`Operation`.  `JoinState` is `State::join`; that it keeps the kind of the loan
that was there first is kept too.  The loops that store one reference to
several destinations and touch the globals of a callee are given in closed form
(`StoreReference`, `TouchGlobals`): none of their turns reads what another one
writes but errors, joined provenance and extended loans.

### OwnershipPlan: how code becomes operations

The elaboration of `ownership.rs` over a reduced syntax: expressions (places,
borrows, calls, invocations of closures, matches, constructors, assignments, raw
storage), statements (declarations, conditionals, three kinds of loop,
destructuring, returns).  It keeps the order of the operations, the scopes of
temporaries and calls, the leases around an index or a part assignment and the
point at which each scope ends.  Types are reduced to what ownership
distinguishes: a scalar, an owner, shared and exclusive references, exclusive
references to a place that holds one, an aggregate and a closure with
references.  Control flow inside a statement stays structured (`OpArms`,
`OpLoop`).

### OwnershipPath: an accepted function is executed

The next statement is any of the function's repertoire; it is elaborated and
analysed, and, when nothing is reported, executed on a memory that knows nothing
of the analysis: every reference has a target, a kind, the references it was
derived from, and a flag that writes, moves and ends of the target clear.
`BeginIf`, `OtherBranch` and `EndIf` analyse both branches and execute one.
`Oracle` resolves what the execution may choose (arms, targets, rounds of a
loop).  The reference memory is our own definition of what may go wrong and is
not mapped to code.

### OwnershipSummaries, OwnershipAnswers: all functions

Functions are graphs of blocks.  `Begin` gives a function the contracts known so
far and starts its worklist, `Visit` is one turn of `analyze`, `Finish` takes
the report of the second pass and lets the contract grow, `EndRound` starts
another round or, when nothing changed, the pass for the errors.  The blocks are
in the order and the queue in the discipline of the code.  `OneSolution` says what
the answer is, without saying how it was found; `MovesReported` compares it with
single paths that are never joined (`Walk`).  `OwnershipAnswers` compares it with
the same functions solved in another order (`Solution`, `Agreement`), which is
written with recursive operators and kept apart for that reason.  Contracts of the code are those of
`OwnershipPlan`'s `call` records: `summary`, `stores`, `effects`.

### Ir, IrBuilder, IrTree, IrProgram: the builder

`Ir` has instructions, blocks, functions and modules as data.  `IrBuilder` is
the builder's state (current block, registers, scopes with cleanup slots,
temporaries, obligations) and its helpers: `Emit`, scope and temporary handling,
releases on normal, early and loop exits, construction and transfer.  `IrTree`
lowers expressions and statements, `IrProgram` whole programs with their globals,
constructors and entry.  A helper that emits is a function from the builder to
the builder; `Pass` forces its intermediate value, nothing else.

### IrLowering, IrVerify, IrOptimizer, IrMachine

`IrLowering` replaces ownership operations as `lower_unchecked` does, with the
blocks a guarded drop needs.  `IrVerify` is the structural verifier: shape of
blocks, single definitions, dominance by the iterated sets of dominators, calls,
and the types of every instruction the builder can emit here.  The call of
`physical_ownership::verify` inside it is the subject of `LifetimeVerifier` and
left out.  `IrOptimizer` has each pass as an operator from a function to a
function with the code's `changed` flag: folding, branch simplification,
arithmetic neutral elements, common subexpressions, empty branches, identity
casts, merging, dead code; and on modules inlining (in place and by splitting),
recursive functions and dead functions.  `IrMachine` executes a lowered module
on words of `Word` bits with a heap of counted objects and external calls as a
trace; a read of something unwritten, a use of a destroyed object, a division
by zero or an unreachable instruction is a fault.

### SourceSemantics and Lowering

`SourceSemantics` evaluates the tree directly, with values and without registers,
slots or counts: the trace and the panic a program should have.  It is the
reference and not mapped.  `Lowering` is the pipeline of `main.rs`: build,
verify, lower, verify, and with `--optimize` inline, peephole rounds function by
function, dead functions, verify.  Its state is the module under way; `seen`
records what the module does when run at each stage.

### OwnedHeap and ArcRuntime

`OwnedHeap` is what managed memory promises: places hold objects, an object lives
until nothing holds it and it holds nothing (`Make`, `Move`, `Share`, `Forget`,
`Reclaim`).

`ArcRuntime` is the code behind it: `__fishy_retain`, `__fishy_release` and the
destructors that `backend.rs` emits, and the operations of `Vec` in
`stdlib.fih`.  `stack` has the releases that have begun, so a destructor that
releases the last handle of another object nests (`CountDown`, `ReleaseChild`,
`Free`); `call` is the operation of Vec under way, whose loops are steps
(`ShiftUp`, `ShiftDown`, `ClearNext`).  Raw buffers are cells with no owner of
their own: `raw_initialize` looks at nothing and fresh memory holds `Junk`.
Addresses are used again after they are freed.  A failed allocation is a panic;
it may happen at any growth.  The refinement maps an object's fields and the
cells of its buffer, the variables, the value an operation carries and the
handles that pending releases were called with to places of `OwnedHeap`; while a
destructor runs, the cells it has already walked hold nothing.  A Vec has one
owner and shared objects are frozen, as the source analysis ensures.

## 4. Runs

| run | instance | what it shows |
|---|---|---|
| `lifetime_slots` | two registers and a zero, a local, a pin, a foreign place, two objects, loops | reference counts equal the edges that lead to an object at every step, also while destructors run (`CountsExact`); leases are known and never become a logical owner's edge (`LeasesSound`, `LeaseNeverOwns`) |
| `lifetime_aggregates` | a shell with a managed and a plain field, a local, calls with two arguments, wrappers, one merge | the ledger is among the alternatives (`LedgerSound`), the runtime never traps (`NoTrap`), nothing leaks at a return (`NothingLeft`) and slots are discharged also when only one of the merged paths filled them (`SlotsResolved`) |
| `lifetime_verifier` | all programs of three blocks (conditional, loop with test, loop in one block) with bodies from ten instructions | no path through an accepted function meets an instruction whose check fails (`WalkSafe`), everything was foreseen (`WalkForeseen`), no growth is forgotten (`NoLostBlock`), the end is the least solution in whatever order blocks were queued (`LeastSolution`), the verifier answers (`Answers`) |
| `module_loader` | a root and two modules, all import graphs between them with self imports, cycles, diamonds, conflicts, private names, a missing path, an unreadable file | the recursion follows `loading` and never repeats a module (`LoadingIsStack`), every declaration is compiled once and in order (`EmittedOnce`), without errors references mean what the text says (`References`) and symbols are unique (`UniqueSymbols`), imports come first unless circular (`DependenciesFirst`), the loader ends (`LoaderEnds`) |
| `source_paths` | every sequence of six statements from six repertoires, blocks and branches two deep | no invalid reference or dead place is used (`NoInvalidUse`), references that are kept are valid (`HeldReferencesValid`), the analysis knows at least what is the case (`InitializationKnown`, `ProvenanceCovers`), callers learn what is returned and stored (`SummaryCovers`, `StoresReported`) |
| `source_analysis` | 330 functions with a branch, a loop, a loop with a branch or paths of different lengths; 1,350 programs of a caller and two functions that may call each other | a block that grew is visited again (`NoGrowthForgotten`), errors are looked for with contracts that no longer grow (`ContractsAgree`), a binding used on a single path after it was moved or before it was initialized is reported (`MovesReported`), and so is the binding of every other error of a path (`PathsReported`), contracts and errors are those of another order (`OrderIrrelevant`), the rounds end (`SummariesSettle`) |
| `lowering` | 86 programs on four inputs each, after every stage and every round of the optimizer | traces and panics are those of the source (`SameMeaning`), no fault (`NoFault`), no leak at a normal end (`NothingLeaks`), the verifier never objects (`AcceptedVerifies`), each pass that claims a change makes the function lighter (`PassesShrink`) |
| `arc_runtime` | two variables, four objects, two buffers | counts are numbers of owners and only a full count traps (`CountsSound`), nothing is lost (`AllReclaimed`), a Vec contains what the calls ask for within its allocation (`VecSound`), `OwnedHeap` is implemented (`Implements`) |
| `stale_transfer` (violation) | undisciplined | see findings |
| `match_arms` (violation) | a match whose cases borrow | see findings |
| `stored_then_returned` (violation) | a callee that stores a reference and returns what the place then holds | see findings |
| `diverging_assignment` (violation) | an assignment of `panic(..)` | see findings |

Bounds.  Two objects are enough for an owner and a child, or an old and a new
value of a slot; a wrong release needs one.  A count reaches at most three by
the rules, and all four values occur.  One `Join` suffices for an alternative
that is not the actual one; the theorems cover any number.  `MaxArgs = 2` gives
the same operand twice.  Three blocks give every shape of edge: forward, back,
self, and a block with two predecessors; bodies of two instructions let a loop
undo in its second round what the first checked.  `MaxRounds` is the
number of blocks times the number of things that can be said of what arrives in
one (`Alternative`); a round adds at least one of them until nothing changes, so
the reference iteration is stable by then.
`MaxDepth` of the loader is above the number of files, so it only
stops a loader that descends into a module twice.

Source analysis: six statements suffice to declare two owners and a reference,
lend it, store it, end the owner and use it; one statement more was tried as well
and passes (175,054 states instead of 50,402).  Six scopes and paths of three
projections are reached.  `PathBlocks = 7` follows every path of the graphs
through a loop at least once more than it takes to bring a fact back to its head.

`Lowering`: words of five bits and bytes of three make every overflow happen with small constants;
`MaxTicks` and `MaxFuel` bound runs and are not reached by the programs of the
menu.  The menu has moves, borrows, matches with guards, loops, early
returns, an `exit` with live owners, aggregates, enums, arrays, recursion, globals
and inlining candidates of every size; what these runs show, they show of these
programs.  Common subexpressions are never found in
what the builder emits, because every read is a load of its own.

`ArcRuntime`: four objects give a Vec with two elements that hold another
object.  `MaxCount = 2` makes the counter full with two owners, `MaxWord = 7`
and `ElementSize = 2` make a capacity overflow by multiplication and by doubling.
Addresses and variables are interchangeable and only safety is checked, so the
symmetry is sound.  Room for more objects, longer Vecs and wider words is what
the theorems of `ArcRuntime_proofs` are for.

Deadlock is not checked where a function that returned, a verifier that answered,
a loader that is done or an emitted module has no next step.

Fairness is `WF` of the whole loop (`Verifying`, `Next` of the loader, `Running`
of the summaries): one thread executes it and nothing else can run instead, so a
step that can be taken is taken.  `Running` is weak fairness with the enabling
condition written out, which is that the analysis is not done.  The walk after
acceptance gets no fairness, nor does `Lowering`: its steps are functions of the
module, and `PassesShrink` is the measure that shows that its rounds end.

### Findings

* `stale_transfer`: `verify_values` looks up `Pins`, the values that *some*
  store of the function puts in the slot.  With two values for one slot it
  accepts a transfer of the one that is no longer there: the register's handle
  and the edge it regains belong to different objects.  The comment on the
  operation says that a cached value is handed back from its slot.  The builder
  gives every value a slot of its own, so no program shows it today.
* `match_arms`: the scope of a match case ends right after its body is evaluated
  (`ownership.rs:1267`), before the value of the match is bound.  A reference
  that the body borrows keeps its origins but loses its loan, so the owner can be
  moved while the reference is kept.
* `stored_then_returned`: a call computes what it returns before it applies what
  the callee stores (`ownership_ir.rs:1075`).  A callee that stores a reference
  in a place and returns what the place then holds, by calling one function that
  stores and then one that loads, has a contract that names only the contents of
  before the call.  The caller keeps the result after the block that owns its
  target, and no error is reported.  In the machine a call returns one of the
  references that its contract names, read before or after its stores.
* `diverging_assignment`: `x = panic("no")` is accepted by the checker, but the
  builder goes on emitting into the block that the call has ended
  (`ir_builder.rs:2564`), and the verifier rejects the module as an internal
  error.

Further points met while modelling, without a run of their own: the drop of a
value that was observed and then acquired clears the slot it was read from in
the cleanup analysis; a lease that is followed by an immutable acquisition of
the same register is forgotten, because there is one flag per register; closures
and resource cells accept a leased operand where trait objects refuse it; a slot
that is allocated and never stored can be dropped; a field may be
initialized before `Construction` resets the progress; the cleanup analysis of
`verify` has no arm for `SwapValue`, though `verify_values` marks the slot live
(`physical_ownership.rs:1195`), so a value swapped into a vacated registered slot
leaks at an accepted return (`NothingLeft` as an invariant of
`MCStaleTransfer.cfg` gives the trace).  All of them are outside
what the builder emits, and the guards above say so.  In the source analysis,
the kind of a stored loan may depend on the order of the worklist
(`ownership_ir.rs:1092`); `source_analysis` shows that what is reported does
not, because the reference that is stored has a loan of its own.

## 5. Proofs

All proofs are in `*_proofs` modules and hold for all sets of registers, slots,
objects, blocks, programs and import graphs, under the named assumptions of the
modules only:

* `SlotAssumption`, `FactAssumption`, `PathAssumption`, `ProgramAssumption`:
  slots are partitioned as declared, facts have the types the code gives them;
* `RoundsAssumption`: a function has finitely many blocks and alternatives, and
  the reference iteration may take as many rounds as they are;
* `PlanAssumption`: the source's blocks start at block 1 and have operations that
  `transfer` knows, jumps stay in their function and lead to at most two blocks,
  which is what `verify` of `ownership_ir.rs` demands;
* `FiniteAssumption`, `Finite`: a function has finitely many registers and slots,
  memory finitely many places, so that edges can be counted;
* `RuntimeAssumption`: objects and variables are finitely many and different, a
  freed address is not mistaken for an object or a buffer, counters and words have
  a positive width, and an object has no more fields than a word counts;
* `LoaderAssumption`: the texts refer to paths, names and statements as a parser
  builds them; a name that looks like a generated one is reserved, which is what
  `reserve_names` rejects; the bound `MaxDepth` is above the number of files.

The theorems on the heap are about functions as the builder emits them
(`Disciplined`, the table in *LifetimePath*).  `LedgerIsSound` and the theorems
on the worklist need nothing of the builder, but for the last clause of
`LedgerSound`, on the cleanup analysis, which is about such functions only.
`LeasesAreSound` has the discipline as its assumption: the verifier keeps one
lease flag per register, and `BuilderShares`, `BuilderAdopts` and `BuilderSwaps`
exclude the three ways in which a function that it accepts makes it forget one.

* **LifetimeIr_proofs**: every rule keeps flows well typed, and `StepRefines`,
  the monotonicity on which everything rests: if `g` is `Narrower` than `f` and
  the check of an instruction succeeds on `f`, it succeeds on `g`, and the
  results are again narrower.  It has one lemma per rule.
* **LifetimePath_proofs**: `LifetimeTyped`, `LedgerIsSound` and
  `ReturnDischargesSlots`.  The invariant `Inductive` is `TypeOK /\
  LedgerSound`: neither part is inductive alone, because decrementing a count
  stays in `0..3` only if the operand is known to carry enough edges.  The proof has one lemma per
  operation on the soundness of its rule (`StoreOwnedSound`, ...), and one step
  per action.  `SlotsResolved` then follows at the step that returns, from the
  final checks of `RetOk`.
* **LifetimeVerifier_proofs**: `VerifierTyped`, `NoBlockIsLost`,
  `AcceptedIsForeseen`, `AcceptedIsSafe`, `EndIsLeastSolution`,
  `VerdictIsComplete`.  The invariant `Inductive` of
  `LifetimeVerifier` adds to `NoLostBlock` what is known of the block being
  visited (`VisitSound`): the instructions already checked are recorded, the
  successors already served cover the state, and if the block's own entry grew
  during the visit the block is queued again.  Without that last clause a self
  loop breaks the induction.  When the queue is empty every reached block is
  settled; along a walk `Narrower(exact, point[at][next])` is then kept by
  `StepRefines` and by the covering of successors, and `WalkSafe` follows.  The
  other direction has an invariant of its own: whatever the worklist knows, every
  consistent assignment of flows knows too (`BelowAll`), so it is never wider than
  the least one.  The rounds of the reference iteration only grow, and a set of
  `MaxRounds` alternatives cannot grow more often (`SetInduction`): their end is
  consistent, and the worklist's end is equal to it.  Both theorems rest on
  the joins being least upper bounds (`JoinAllLeast`).
* **Counting_proofs**: how `Ways` changes when one place is written
  (`WaysReplace`), when two places exchange what they lead to (`WaysExchange`), when places that lead to one object are cleared
  (`WaysRemove`), along sequences (`WaysConcat`, `WaysHead`); and `SetInduction`,
  by which a set with 0 that has the successors of its members contains `0..n`.
* **LifetimePath_proofs**, on the heap: `CountsAreExact`, `NeverTraps`,
  `NothingIsLeft`, `LeasesAreSound`, `LeasesNeverOwn`, `TransfersHandBack`.  `CountsExact` says
  nothing about which edge goes where, so the invariant `HeapInv` adds to
  `Inductive`:
  + `ZeroNull`, `Vacant`, `PinSound`: zeros owe nothing, a slot without an edge
    leads nowhere, a pin still has the handle of its one register.  Without the
    last, a transfer would move an edge from one object to another; this is what
    the run `stale_transfer` shows when the discipline is dropped.
  + `LeaseOwed`: a lease is one of the edges that a register carries.
  + `DeadEmpty`, `Unborn`: an object with count zero holds nothing, so no edge
    is lost when it dies and none is left when its address is new.
  + `ShellSound`: an aggregate in its construction slot has that one owner, and
    fields that may be written are empty or known to the verifier.
  + `Rooted`: in every set of objects some member is owned by no other member.
    Counts alone would allow a cycle that nothing reaches; with `Rooted`, the
    objects that are alive and unreachable would have a member whose owner is
    neither among them nor a root, so there are none, and `NothingLeft` follows.
  `CountsExact` and `NoTrap` depend on each other: a release never finds a zero
  because the count is the number of ways to the object and one way leads there.
* **OwnershipSummaries_proofs**: `WorklistForgetsNothing`, `ContractsHaveAgreed`,
  `AnswerIsOneSolution`, `MovesAreReported`.  The transfer of the source analysis
  is not monotone: a reference whose origins are no longer known conflicts with
  nothing, and the kind of a loan is that of the first to open it.  The proofs
  therefore do not compare states before and after an operation, but use three
  other facts.
  + `StateCovered` is kept by joins, and a join covers what is joined.  During a
    visit (`Serving`) the successors served so far cover the end of the block,
    and the block is queued again if its own entry grew.  This gives
    `NoGrowthForgotten`.
  + A worklist takes its steps in one order, so it has one end (`OneEnd`), which
    `EndOf` names.  The pass for the errors solves every function again; it comes
    to the states that the contracts were learned from.  A round that leaves all
    contracts as they are contains all that the functions do (`GrownKeeps`), and
    `SummaryInv`, whose parts are `Typed`, `UnderWay` and `Rounds`, carries this
    through the round: the functions already passed (`Confirmed`) agree with the
    contracts, unless one of them has grown.
  + Whether bindings are live is monotone by itself: what an operation makes of the
    alternatives of a binding does not depend on loans, provenance or values, and
    more alternatives never take back an error about them (`Follows`, with one
    lemma per operation; `Quiet` where an operation leaves them alone).  By
    `SetInduction` along the blocks of a path, the states of the solution know all
    alternatives of the path (`WalkSeen`), and `MovesReported` follows.  It says of
    errors of these four kinds what `PathsReported` says of all; the latter needs
    more than monotonicity and is only checked.
* **ModuleLoader_proofs**: `LoaderTyped`, `NoModuleTwice`,
  `EveryDeclarationOnce`, `ImportsComeFirst`, `SymbolsAreUnique`,
  `ReferencesMeanTheText`.  The invariant `LoaderInv` is stated of the stack of
  frames: `Chained` (`loading` is the stack, and each frame imports the next),
  `Published` and `Distinct` (every module that was entered has published the
  names of its text, under symbols of its own number), `Placed`, `Dealt`,
  `Orderly`, `Named` and `Faultless`.  The order of the output is the difficult
  part, because statements of finished modules lie in the `pending` lists of
  several frames before there is an output.  `Spots` gives every such statement
  its place (frame, import, index), ordered as the output will be; `Placed` says
  that the declarations of finished modules have one place each, `Orderly` that
  an import precedes what follows it unless `ReachIn` finds a circle.  The end of
  a unit carries the places of one frame into one place of the frame below
  (`Carried`, `Closing`) and keeps their order.  `Faultless` holds as long as no error was
  reported, and then relates the bindings of every frame to what the imports
  served so far grant; a circular import may meet a half resolved module, whose
  publication is complete nevertheless (`Published`).
* **OwnedHeap_proofs**: `NothingEverDangles`.  The invariant is `NothingDangles`
  with the types of `live` and `holds`.  The step that needs an argument is
  `Reclaim`: an object without owners has an empty set of holders, because the
  places are finitely many.  With `RuntimeRefines` the result carries over to the
  runtime.
* **ArcRuntime_proofs**: `RuntimeRefines`, `CountsHold`, `ReclaimsAll`,
  `VecHolds`, `RuntimeNothingDangles`.  None of these is inductive alone: that a
  count is the number of owners needs to know which cells a destructor has still
  to release, and that needs the sizes of buffers.  The invariant `RuntimeInv`
  has, besides `CountsSound`, `NothingDangles` and the types,
  + `Nested`: only the innermost release has not looked at its object yet, and an
    object is destroyed by one release, exactly when its count is zero.
  + `Formed`: a Vec has one owner, a capacity within a word and a buffer of that
    size, or none if the capacity is zero.
  + `Walked`: the cells of a dying object that still hold handles are those that
    its destructor has not come to.  Here a wrong bound of the loop would show.
  + `Kept`: every buffer has one Vec, or the destructor of one.
  + `CallSound`, `FilledIn`: what an operation of Vec under way relies on, and
    where the gap is that `insert`, `remove` or `set` has made.  `FilledIn` compares the
    cells with `meant`, the sequence that the calls ask for.

  The argument has three layers.  What a step does to memory is stated for
  memories as values, once per kind of change (`TouchSound`, `DieSound`,
  `TakeSound`, `FreeSound`, `RebufferSound`, `PushSound`, `PopSound`); what it
  does to the elements of a Vec is stated for sequences (`FillInsert`,
  `FillShiftUp`, ...); and of the places of `OwnedHeap` a step keeps all
  (`KeepStep`), exchanges two (`ExchangeStep`), lets one share what another holds
  (`GainStep`), lets one forget (`ForgetStep`), or holds a new object in one
  (`MakeStep`); the end of a destructor changes none and frees an object
  (`FreeStep`).  Every action is then one lemma that names its memory change, its
  change of elements and its change of places.

Induction over data has no direct form here, because the induction theorems of
the library take operators as parameters.  Where one is needed, the proofs take
the least counterexample with `WFMin`, whose relation is a set (`FlattenSeq` in
the loader), or state the induction of a set (`SetInduction`).  That a recursive
function has the values its equation gives it (`EffectsAre`, `StatesAre`,
`WalksAre`, the rounds of the verifier) is proved in this way where it is used.

Only model checked:

* the properties of `OwnershipPath` and of `Lowering`: elaboration, structured
  code and the meaning of programs are recursive operators over trees, for which
  the provers have no backend, and their proofs would be inductions over these
  trees;
* `OrderIrrelevant` and `PathsReported`: the first compares with a recursive
  operator, both would need a transfer that is monotone in loans and origins,
  and it is not;
* liveness (`Answers`, `LoaderEnds`, `SummariesSettle`).

Conversely, that the worklist and the loader are well typed is no question of a
run any more: `VerifierTyped` and `LoaderTyped` prove it.

## 6. Not modelled

The parts marked *not_modelled* in `PROJECT.json`, with the reason there: scanner
and parser, type checker, diagnostics.  Of the modelled parts:

* `physical_ownership.rs`: the agreement of types, the dynamic receiver of calls,
  unmanaged registers, markers of passes and printing.
* `module_loader.rs`, `module_names.rs`: what is said under *ModuleLoader*.
* `ownership.rs`: default arguments, bodies of closures, receivers of methods, raw
  pointers, generic values, spreads, casts, interpolation, destructuring of
  several names, ranges in `for`.  Cases that borrow inside a match are only in
  the run of their finding.
* `ir_builder.rs`, `ir_verify.rs`, `ir_optimizer.rs`: closures, traits and
  dynamic calls, floats, strings, exponentiation, default arguments, receivers,
  patterns of lists and objects, raw memory and resources, destructuring, tuples,
  ranges as values and the index of `for`.
* `backend.rs`: layouts, LLVM types, the selection of instructions, linking;
  stack depth: a destructor recurses once per object of a chain.
* `stdlib.fih`: everything but the operations of `Vec` on its buffer; of these
  `into_array` and the allocation of the `Result` that `pop` returns.
