---------------------------- MODULE ArcRuntime ----------------------------
(***************************************************************************)
(* The memory of a compiled program: the reference counts and destructors  *)
(* that backend.rs emits, and the Vec of stdlib.fih, which keeps its       *)
(* elements in a raw buffer of its own.                                    *)
(*                                                                         *)
(* A program of one thread holds objects in variables.  A shared object is *)
(* frozen and may have many owners; a Vec has one, which may change it.    *)
(* Releasing the last handle runs the destructor, which releases what the  *)
(* object holds, and so on: `stack` has the releases that have begun,      *)
(* `call` the operation of Vec that they belong to.                        *)
(***************************************************************************)
EXTENDS Naturals, Sequences, FiniteSets, SequencesExt

CONSTANTS
    Var,            \* variables of the program, each of which owns its value
    Obj, Buffer,    \* addresses of objects and of raw buffers, used again once freed
    Null, Junk,     \* the null pointer, what a fresh buffer contains
    Freed,          \* what is at an address that is not allocated
    MaxCells,       \* bound on the fields of an object and on the indices asked for
    MaxCount,       \* the count a retain refuses to pass (i64::MAX in the code)
    MaxWord,        \* the largest u64
    ElementSize,    \* bytes of an element, a divisor of MaxWord + 1
    FirstCapacity   \* what an empty Vec grows to (4 in the code)

\* A handle, what is at an address of an object and at one of a buffer.
Value  == Obj \cup {Null}
Object == [kind : {"shared", "vec"}, count : Nat, cells : Seq(Value),
           data : Buffer \cup {Null}, used : Nat, cap : Nat]
Raw    == Seq(Value \cup {Junk})

ASSUME RuntimeAssumption ==
    /\ {MaxCount, MaxWord, ElementSize, FirstCapacity} \subseteq Nat \ {0}
    /\ MaxCells \in 0 .. MaxWord
    /\ IsFiniteSet(Var) /\ IsFiniteSet(Obj) /\ Var \cap Obj = {}
    /\ Null \notin Var \cup Obj \cup Buffer /\ Junk \notin Value
    /\ Freed \notin Object \cup Raw

VARIABLES
    var,      \* what each variable holds
    heap,     \* what is at each address of an object
    buffer,   \* the cells of each raw buffer
    stack,    \* releases that have begun, the innermost last
    call,     \* the operation of Vec, or of a place, that is under way
    meant,    \* history: what each object should contain
    mode      \* running, trapped or panicked
vars == <<var, heap, buffer, stack, call, meant, mode>>
memory == <<heap, buffer, stack>>

\* A shared object has its strong fields; a Vec has a buffer, a count, a capacity.
Shared(cells) == [kind |-> "shared", count |-> 1, cells |-> cells, data |-> Null, used |-> 0, cap |-> 0]
EmptyVec      == [kind |-> "vec", count |-> 1, cells |-> <<>>, data |-> Null, used |-> 0, cap |-> 0]

NoCall == [op |-> "none", o |-> Null, i |-> 0, at |-> 0, item |-> Null, x |-> Null]
\* __fishy_release was called on a handle.
Release(h) == [o |-> h, pc |-> "count", rest |-> 0, data |-> Null]

IsVec(o)    == o \in Obj /\ heap[o] # Freed /\ heap[o].kind = "vec"
IsShared(o) == o \in Obj /\ heap[o] # Freed /\ heap[o].kind = "shared"

Init ==
    /\ var = [x \in Var |-> Null]
    /\ heap = [o \in Obj |-> Freed]
    /\ buffer = [b \in Buffer |-> Freed]
    /\ stack = <<>>
    /\ call = NoCall
    /\ meant = [o \in Obj |-> <<>>]
    /\ mode = "running"

Running == mode = "running"
Ready   == Running /\ stack = <<>> /\ call = NoCall
Panic   == mode' = "panicked" /\ UNCHANGED <<var, heap, buffer, stack, call, meant>>
-----------------------------------------------------------------------------
(* What the program does with handles.                                      *)

\* managed_alloc: one owner, zeroed cells, which the recipe fills in order.
Allocate(x, o, object) ==
    /\ heap[o] = Freed
    /\ heap' = [heap EXCEPT ![o] = object]
    /\ meant' = [meant EXCEPT ![o] = object.cells]
    /\ UNCHANGED <<buffer, stack, call, mode>>
Construct(x, parts, o) ==
    /\ Ready /\ var[x] = Null
    /\ IsInjective(parts) /\ x \notin {parts[i] : i \in DOMAIN parts}
    /\ Allocate(x, o, Shared([i \in DOMAIN parts |-> var[parts[i]]]))
    /\ var' = [y \in Var |-> IF y = x THEN o ELSE IF y \in {parts[i] : i \in DOMAIN parts} THEN Null ELSE var[y]]
NewVec(x, o) ==
    /\ Ready /\ var[x] = Null
    /\ Allocate(x, o, EmptyVec)
    /\ var' = [var EXCEPT ![x] = o]

\* Mutant: the end of the counter is not looked at.
RetainUnbounded(o) == heap[o].count = 0
\* __fishy_retain: a dead object and a full count trap.
RetainRefused(o) == heap[o].count = 0 \/ heap[o].count >= MaxCount
Retain(o) ==
    IF RetainRefused(o) THEN mode' = "trapped" /\ UNCHANGED heap
    ELSE heap' = [heap EXCEPT ![o].count = @ + 1] /\ UNCHANGED mode
\* The element of a Vec at an index of the source, which counts from 0.
Cell(o, i) == buffer[heap[o].data][i + 1]

\* A shared object, held by a variable, by another one or by a Vec (get), gets
\* another owner.
Acquire(x, h) ==
    /\ Ready /\ var[x] = Null /\ IsShared(h)
    /\ Retain(h)
    /\ var' = IF RetainRefused(h) THEN var ELSE [var EXCEPT ![x] = h]
    /\ UNCHANGED <<buffer, stack, call, meant>>
Copy(x, y) == Acquire(x, var[y])
Read(x, y, i) ==
    \/ IsShared(var[y]) /\ i \in DOMAIN heap[var[y]].cells /\ Acquire(x, heap[var[y]].cells[i])
    \/ IsVec(var[y]) /\ i < heap[var[y]].used /\ Acquire(x, Cell(var[y], i))

\* DropSlot: the slot is emptied before its handle is released.
Drop(x) ==
    /\ Ready /\ var[x] # Null
    /\ var' = [var EXCEPT ![x] = Null]
    /\ stack' = <<Release(var[x])>>
    /\ UNCHANGED <<heap, buffer, call, meant, mode>>
-----------------------------------------------------------------------------
(* __fishy_release and the destructors.                                     *)

Top      == stack[Len(stack)]
Pop      == stack' = Front(stack)
Continue(f) == stack' = [stack EXCEPT ![Len(stack)] = f]

\* A Vec that is destroyed is emptied first; its buffer is then local.
Emptied(object) == [object EXCEPT !.data = Null, !.used = 0, !.cap = 0]
\* Mutant: only a Vec has a destructor.
EdgesOfVec(o) == IF IsVec(o) THEN heap[o].used ELSE 0
\* The strong edges the destructor of an object walks.
Edges(o) == IF IsVec(o) THEN heap[o].used ELSE Len(heap[o].cells)
\* An address that is not allocated has no count to read: the model stops there.
CountDown ==
    /\ Running /\ stack # <<>> /\ Top.pc = "count" /\ Top.o # Null
    /\ heap[Top.o] # Freed
    /\ LET o == Top.o
           n == heap[o].count
       IN  IF n = 0 THEN mode' = "trapped" /\ UNCHANGED <<heap, stack>>
           ELSE /\ heap' = [heap EXCEPT ![o] = IF n > 1 THEN [@ EXCEPT !.count = n - 1]
                                              ELSE [Emptied(@) EXCEPT !.count = 0]]
                /\ IF n > 1 THEN Pop
                   ELSE Continue([o |-> o, pc |-> "children", rest |-> Edges(o), data |-> heap[o].data])
                /\ UNCHANGED mode
    /\ UNCHANGED <<var, buffer, call, meant>>
SkipNull ==
    /\ Running /\ stack # <<>> /\ Top.pc = "count" /\ Top.o = Null
    /\ Pop
    /\ UNCHANGED <<var, heap, buffer, call, meant, mode>>

\* The cells go from the last to the first; a Vec clears the cell as well.
ReleaseChild ==
    /\ Running /\ stack # <<>> /\ Top.pc = "children" /\ Top.rest > 0
    /\ LET n     == Top.rest
           below == [stack EXCEPT ![Len(stack)].rest = n - 1]
       IN  IF IsVec(Top.o)
           THEN /\ stack' = Append(below, Release(buffer[Top.data][n]))
                /\ buffer' = [buffer EXCEPT ![Top.data][n] = Null]
           ELSE /\ stack' = Append(below, Release(heap[Top.o].cells[n]))
                /\ UNCHANGED buffer
    /\ UNCHANGED <<var, heap, call, meant, mode>>
Free ==
    /\ Running /\ stack # <<>> /\ Top.pc = "children" /\ Top.rest = 0
    /\ buffer' = [b \in Buffer |-> IF b = Top.data THEN Freed ELSE buffer[b]]
    /\ heap' = [heap EXCEPT ![Top.o] = Freed]
    /\ meant' = [meant EXCEPT ![Top.o] = <<>>]
    /\ Pop
    /\ UNCHANGED <<var, call, mode>>
-----------------------------------------------------------------------------
(* Vec.                                                                    *)

\* Mutant: the product is not checked.
ReserveUnchecked(n) == n > MaxWord
\* reserve: the multiplication is checked before it is made.
Room(n) == ((n * ElementSize) % (MaxWord + 1)) \div ElementSize
ReserveRefused(n) == n > MaxWord \div ElementSize
Reallocated(o, n, b) ==
    [i \in 1 .. Room(n) |-> IF heap[o].cap > 0 /\ i <= Len(buffer[heap[o].data]) THEN buffer[heap[o].data][i] ELSE Junk]
ReserveTo(o, n) ==
    \E b \in Buffer :
        /\ buffer[b] = Freed \/ (heap[o].cap > 0 /\ b = heap[o].data)
        /\ buffer' = [c \in Buffer |-> IF c = b THEN Reallocated(o, n, b)
                                       ELSE IF c = heap[o].data THEN Freed ELSE buffer[c]]
        /\ heap' = [heap EXCEPT ![o].data = b, ![o].cap = n]
\* What a capacity is asked for is refused by a panic, and so is no memory.
Reserve(o, n) ==
    IF n <= heap[o].cap THEN UNCHANGED <<heap, buffer>>
    ELSE ~ReserveRefused(n) /\ ReserveTo(o, n)
NextCapacity(o) == IF heap[o].cap > 0 THEN heap[o].cap * 2 ELSE FirstCapacity
GrowRefused(o) ==
    /\ heap[o].used >= heap[o].cap
    /\ heap[o].cap > MaxWord \div 2 \/ ReserveRefused(NextCapacity(o))
Grow(o) ==
    IF heap[o].used < heap[o].cap THEN UNCHANGED <<heap, buffer>>
    ELSE ~GrowRefused(o) /\ Reserve(o, NextCapacity(o))

\* An operation on the Vec in variable y, called when nothing else runs.
Called(y) == Ready /\ IsVec(var[y])
Begin(op, y, i, at, item, x) == call' = [op |-> op, o |-> var[y], i |-> i, at |-> at, item |-> item, x |-> x]
\* raw_take empties a cell, raw_initialize fills one and looks at nothing.
Put(cells, i, h) == [cells EXCEPT ![i + 1] = h]
MoveCell(cells, from, to) == Put(Put(cells, from, Null), to, cells[from + 1])
UpdateCells(o, cells) == buffer' = [buffer EXCEPT ![heap[o].data] = cells]
CellsOf(o) == buffer[heap[o].data]

ReserveCalled(y, n) ==
    /\ Called(y) /\ Reserve(var[y], n)
    /\ UNCHANGED <<var, stack, call, meant, mode>>

InsertRefused(o, i) == i > heap[o].used
VecInsert(y, i, x) ==
    /\ Called(y) /\ x # y /\ var[x] # Null
    /\ ~InsertRefused(var[y], i)
    /\ Grow(var[y])
    /\ Begin("insert", y, i, heap[var[y]].used, var[x], Null)
    /\ var' = [var EXCEPT ![x] = Null]
    /\ meant' = [meant EXCEPT ![var[y]] = InsertAt(@, i + 1, var[x])]
    /\ UNCHANGED <<stack, mode>>
\* push is an insertion behind the last element.
VecPush(y, x) == VecInsert(y, heap[var[y]].used, x)
ShiftUp ==
    /\ Running /\ call.op = "insert" /\ call.at > call.i
    /\ UpdateCells(call.o, MoveCell(CellsOf(call.o), call.at - 1, call.at))
    /\ call' = [call EXCEPT !.at = @ - 1]
    /\ UNCHANGED <<var, heap, stack, meant, mode>>
Inserted ==
    /\ Running /\ call.op = "insert" /\ call.at <= call.i
    /\ UpdateCells(call.o, Put(CellsOf(call.o), call.i, call.item))
    /\ heap' = [heap EXCEPT ![call.o].used = @ + 1]
    /\ call' = NoCall
    /\ UNCHANGED <<var, stack, meant, mode>>

VecPop(y, x) ==
    /\ Called(y) /\ x # y /\ var[x] = Null /\ heap[var[y]].used > 0
    /\ LET last == heap[var[y]].used - 1
       IN  /\ heap' = [heap EXCEPT ![var[y]].used = last]
           /\ var' = [var EXCEPT ![x] = Cell(var[y], last)]
           /\ UpdateCells(var[y], Put(CellsOf(var[y]), last, Null))
    /\ meant' = [meant EXCEPT ![var[y]] = Front(@)]
    /\ UNCHANGED <<stack, call, mode>>

RemoveRefused(o, i) == i >= heap[o].used
VecRemove(y, i, x) ==
    /\ Called(y) /\ x # y /\ var[x] = Null
    /\ ~RemoveRefused(var[y], i)
    /\ Begin("remove", y, i, i, Cell(var[y], i), x)
    /\ UpdateCells(var[y], Put(CellsOf(var[y]), i, Null))
    /\ meant' = [meant EXCEPT ![var[y]] = RemoveAt(@, i + 1)]
    /\ UNCHANGED <<var, heap, stack, mode>>
ShiftDown ==
    /\ Running /\ call.op = "remove" /\ call.at + 1 < heap[call.o].used
    /\ UpdateCells(call.o, MoveCell(CellsOf(call.o), call.at + 1, call.at))
    /\ call' = [call EXCEPT !.at = @ + 1]
    /\ UNCHANGED <<var, heap, stack, meant, mode>>
Removed ==
    /\ Running /\ call.op = "remove" /\ call.at + 1 >= heap[call.o].used
    /\ heap' = [heap EXCEPT ![call.o].used = @ - 1]
    /\ var' = [var EXCEPT ![call.x] = call.item]
    /\ call' = NoCall
    /\ UNCHANGED <<buffer, stack, meant, mode>>

\* The last element takes the place of the one that leaves.
SwapRemoved(cells, i, last) ==
    IF i < last THEN MoveCell(Put(cells, i, Null), last, i) ELSE Put(cells, i, Null)
VecSwapRemove(y, i, x) ==
    /\ Called(y) /\ x # y /\ var[x] = Null
    /\ ~RemoveRefused(var[y], i)
    /\ LET last == heap[var[y]].used - 1
       IN  /\ UpdateCells(var[y], SwapRemoved(CellsOf(var[y]), i, last))
           /\ heap' = [heap EXCEPT ![var[y]].used = last]
           /\ var' = [var EXCEPT ![x] = Cell(var[y], i)]
           /\ meant' = [meant EXCEPT ![var[y]] = Front([@ EXCEPT ![i + 1] = Last(meant[var[y]])])]
    /\ UNCHANGED <<stack, call, mode>>

\* set: the old element is gone before the new one takes its cell.
VecSet(y, i, x) ==
    /\ Called(y) /\ x # y /\ var[x] # Null
    /\ ~RemoveRefused(var[y], i)
    /\ UpdateCells(var[y], Put(CellsOf(var[y]), i, Null))
    /\ stack' = <<Release(Cell(var[y], i))>>
    /\ Begin("set", y, i, i, var[x], Null)
    /\ var' = [var EXCEPT ![x] = Null]
    /\ meant' = [meant EXCEPT ![var[y]][i + 1] = var[x]]
    /\ UNCHANGED <<heap, mode>>
VecStored ==
    /\ Running /\ stack = <<>> /\ call.op = "set"
    /\ UpdateCells(call.o, Put(CellsOf(call.o), call.i, call.item))
    /\ call' = NoCall
    /\ UNCHANGED <<var, heap, stack, meant, mode>>

\* clear drops from the last element on; drop gives the buffer back as well.
VecClear(op, y) ==
    /\ Called(y)
    /\ Begin(op, y, 0, 0, Null, Null)
    /\ meant' = [meant EXCEPT ![var[y]] = <<>>]
    /\ UNCHANGED <<var, memory, mode>>
ClearNext ==
    /\ Running /\ stack = <<>> /\ call.op \in {"clear", "drop"} /\ heap[call.o].used > 0
    /\ LET last == heap[call.o].used - 1
       IN  /\ heap' = [heap EXCEPT ![call.o].used = last]
           /\ stack' = <<Release(Cell(call.o, last))>>
           /\ UpdateCells(call.o, Put(CellsOf(call.o), last, Null))
    /\ UNCHANGED <<var, call, meant, mode>>
\* Mutant: drop forgets the buffer instead of freeing it.
ClearedLeaking ==
    /\ Running /\ stack = <<>> /\ call.op \in {"clear", "drop"} /\ heap[call.o].used = 0
    /\ IF call.op = "clear" THEN UNCHANGED heap
       ELSE heap' = [heap EXCEPT ![call.o] = Emptied(@)]
    /\ call' = NoCall
    /\ UNCHANGED <<var, buffer, stack, meant, mode>>
Cleared ==
    /\ Running /\ stack = <<>> /\ call.op \in {"clear", "drop"} /\ heap[call.o].used = 0
    /\ IF call.op = "clear" THEN UNCHANGED <<heap, buffer>>
       ELSE /\ buffer' = [b \in Buffer |-> IF b = heap[call.o].data THEN Freed ELSE buffer[b]]
            /\ heap' = [heap EXCEPT ![call.o] = Emptied(@)]
    /\ call' = NoCall
    /\ UNCHANGED <<var, stack, meant, mode>>

\* What ends the program: an index out of bounds, a capacity that does not fit,
\* no memory.
Refused(y, i) ==
    /\ Called(y)
    /\ \/ InsertRefused(var[y], i) \/ RemoveRefused(var[y], i)
       \/ GrowRefused(var[y]) \/ heap[var[y]].used >= heap[var[y]].cap
    /\ Panic
-----------------------------------------------------------------------------
\* What has begun goes on; the program asks for nothing new before it ends.
Step ==
    \/ CountDown \/ SkipNull \/ ReleaseChild \/ Free
    \/ ShiftUp \/ Inserted \/ ShiftDown \/ Removed \/ VecStored \/ ClearNext \/ Cleared
Ended == ~Running /\ UNCHANGED vars

Index == 0 .. MaxCells
OnVec(x, y) ==
    \/ VecPush(y, x) \/ VecPop(y, x)
    \/ \E i \in Index : VecInsert(y, i, x) \/ VecRemove(y, i, x) \/ VecSwapRemove(y, i, x) \/ VecSet(y, i, x)
Ask ==
    \/ \E x \in Var, o \in Obj :
          NewVec(x, o) \/ \E n \in Index : \E parts \in [1 .. n -> Var] : Construct(x, parts, o)
    \/ \E x \in Var : Drop(x)
    \/ \E x, y \in Var : Copy(x, y) \/ OnVec(x, y) \/ \E i \in Index : Read(x, y, i)
    \/ \E y \in Var :
          \/ VecClear("clear", y) \/ VecClear("drop", y)
          \/ \E i \in Index : Refused(y, i)
          \/ \E n \in 0 .. MaxWord : ReserveCalled(y, n)
Next == Ask \/ Step \/ Ended

Spec == Init /\ [][Next]_vars
-----------------------------------------------------------------------------
(* Properties.                                                              *)

Cells == 1 .. MaxWord
\* What an object contains once nothing is under way.
Contents(o) ==
    IF IsShared(o) THEN heap[o].cells
    ELSE IF heap[o].used > 0 THEN SubSeq(CellsOf(o), 1, heap[o].used) ELSE <<>>

\* What the cells of an object own: a destructor takes them one by one.
Dying(o)   == \E k \in DOMAIN stack : stack[k].o = o /\ stack[k].pc = "children"
FrameOf(o) == stack[CHOOSE k \in DOMAIN stack : stack[k].o = o /\ stack[k].pc = "children"]
DataOf(o)  == IF Dying(o) THEN FrameOf(o).data ELSE heap[o].data
Handles(cells, i) == IF i \in DOMAIN cells /\ cells[i] \in Obj THEN cells[i] ELSE Null
CellHolds(o, i) ==
    IF IsShared(o) /\ ~(Dying(o) /\ i > FrameOf(o).rest) THEN Handles(heap[o].cells, i)
    ELSE IF IsVec(o) /\ DataOf(o) # Null THEN Handles(buffer[DataOf(o)], i)
    ELSE Null

\* Places outside objects: the variables, the value an operation carries (of the
\* null address, 0) and the handles that releases were called with (1 and up).
Roots == (Var \X {0}) \cup ({Null} \X (0 .. Cardinality(Obj) + 1))
Live  == {o \in Obj : heap[o] # Freed}
Pending(k) == IF k \in DOMAIN stack /\ stack[k].pc = "count" THEN stack[k].o ELSE Null
Holding ==
    [p \in Roots \cup (Obj \X Cells) |->
        IF p[1] \in Var THEN var[p[1]]
        ELSE IF p[1] \in Obj THEN CellHolds(p[1], p[2])
        ELSE IF p[2] = 0 THEN call.item
        ELSE Pending(p[2])]

Abstract == INSTANCE OwnedHeap WITH
    Object <- Obj, Root <- Roots, Part <- Cells, Nothing <- Null, live <- Live, holds <- Holding

\* The runtime does what managed memory promises (OwnedHeap): an object is freed
\* only when nothing holds it and it holds nothing, whatever releases are nested
\* in each other and whatever Vec is doing with its buffer.
Implements == Abstract!Spec

\* The count of an object is the number of places that hold it; it stays within
\* the range of the counter, and only a retain at its end traps: no release
\* finds an object that is dead (create_arc_helpers).
CountsSound ==
    /\ \A o \in Live : heap[o].count = Abstract!Owned(o) /\ heap[o].count <= MaxCount
    /\ mode = "trapped" => \E o \in Live : heap[o].count = MaxCount

\* When no release is under way, every object is held and every buffer belongs
\* to a Vec: the destructors missed nothing.
AllReclaimed ==
    Running /\ stack = <<>> =>
        /\ \A o \in Live : Abstract!Owned(o) > 0
        /\ \A b \in Buffer : buffer[b] # Freed =>
               Cardinality({o \in Obj : IsVec(o) /\ heap[o].data = b}) = 1

\* Between operations a Vec has the elements that the calls made so far ask
\* for, in its own buffer, within its capacity and the allocation behind it,
\* and holds nothing behind them (Vec owns exactly the initialized prefix).
VecSound ==
    Ready => \A o \in Live :
        /\ Contents(o) = meant[o]
        /\ IsVec(o) => /\ heap[o].used <= heap[o].cap
                       /\ heap[o].cap > 0 => Len(CellsOf(o)) >= heap[o].cap
                       /\ \A i \in Cells : i > heap[o].used => CellHolds(o, i) = Null
=============================================================================
