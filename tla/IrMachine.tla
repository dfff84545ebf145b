----------------------------- MODULE IrMachine -----------------------------
(***************************************************************************)
(* What a lowered module does: the code that backend.rs emits for each     *)
(* instruction, run on words.  A word is an integer; addresses are words   *)
(* above every number, a managed object is the address of its first field, *)
(* and one word before it is the length its header keeps.  Numbers wrap at *)
(* Word bits, a narrow number at Byte bits: registers hold words, cells    *)
(* hold values of their declared width (storage_value and register_value). *)
(*                                                                         *)
(* The outcome of a run is what an observer of the program sees: the calls *)
(* of external functions with their arguments, a panic and its message.    *)
(* A fault is what no compiled program may do: use a register or a cell    *)
(* that was never written, touch a destroyed object, release one twice,    *)
(* divide by zero or run into an unreachable instruction.                  *)
(***************************************************************************)
EXTENDS Ir

CONSTANTS
    Word,        \* bits of a word: 64 in the code, few here
    Byte,        \* bits of a narrow integer: 8 in the code, fewer here
    MaxTicks     \* bound on the instructions of one run

Null == 0
FirstObject == 1000          \* objects are 1000, 1020, 1040, ...
ObjectSize  == 20
FirstCell   == 100000        \* the cells of frame n start at FirstCell + 10000 * n
FirstGlobal == 90000

Pow2(n)     == 2 ^ n
Wrap(n)     == ((n + Pow2(Word - 1)) % Pow2(Word)) - Pow2(Word - 1)
AsUnsigned(n) == n % Pow2(Word)
MinWord     == -Pow2(Word - 1)

\* What a cell of the type keeps of a word, read back as a word.
StorageValue(v, ty) ==
    CASE ty = "u8"   -> v % Pow2(Byte)
      [] ty = "bool" -> v % 2
      [] OTHER       -> v

Bit(b) == IF b THEN 1 ELSE 0
BitsOf(n) == {k \in 0 .. Word - 1 : (AsUnsigned(n) \div Pow2(k)) % 2 = 1}
OfBits(S) == Wrap(MapThenSumSet(Pow2, S))
Quotient(a, b) == IF (a < 0) = (b < 0) THEN (IF a < 0 THEN (-a) \div (-b) ELSE a \div b)
                  ELSE -((IF a < 0 THEN -a ELSE a) \div (IF b < 0 THEN -b ELSE b))

\* The operators without effects.  Comparison and division look at the type of
\* the instruction, addition and its kin work on words.
Sum(op, l, r)  == Wrap(CASE op = "add" -> l + r [] op = "sub" -> l - r [] op = "mul" -> l * r)
Bits(op, l, r) ==
    OfBits(IF op = "bitand" THEN BitsOf(l) \cap BitsOf(r) ELSE BitsOf(l) \cup BitsOf(r))
Divide(op, a, b) == Wrap(IF op = "div" THEN Quotient(a, b) ELSE a - b * Quotient(a, b))
Compare(op, a, b) ==
    Bit(CASE op = "cmplt" -> a < b [] op = "cmple" -> a <= b [] op = "cmpgt" -> a > b [] op = "cmpge" -> a >= b)
Equality(op, l, r) == Bit((l = r) <=> op = "cmpeq")
Typed(v, ty)   == IF ty \in Unsigned THEN AsUnsigned(v) ELSE v
Compute(op, l, r, ty) ==
    CASE op \in {"add", "sub", "mul"}  -> Sum(op, l, r)
      [] op \in {"bitand", "bitor"}    -> Bits(op, l, r)
      [] op \in Divisions              -> Divide(op, Typed(l, ty), Typed(r, ty))
      [] op \in Ordering               -> Compare(op, Typed(l, ty), Typed(r, ty))
      [] op \in Comparisons \ Ordering -> Equality(op, l, r)
-----------------------------------------------------------------------------
(* Objects: an allocation zeroes its words, sets the count to one and       *)
(* remembers which of them the destructor releases.                         *)

Fault(s, why) == [s EXCEPT !.fault = why, !.done = TRUE]

Allocate(s, types, length) ==
    LET at == FirstObject + ObjectSize * Cardinality(DOMAIN s.count)
    IN  [s EXCEPT !.count = (at :> 1) @@ @,
                  !.owned = (at :> {at + k - 1 : k \in {j \in DOMAIN types : Managed(types[j])}}) @@ @,
                  !.mem   = [a \in at .. at + Len(types) - 1 |-> 0] @@ (at - 1 :> length) @@ @]

Retain(s, v) ==
    IF v = Null THEN s
    ELSE IF v \notin DOMAIN s.count THEN Fault(s, "retain of a word that is no object")
    ELSE IF s.count[v] = 0 THEN Fault(s, "retain of a destroyed object")
    ELSE [s EXCEPT !.count[v] = @ + 1]

\* __fishy_release: the last edge destroys the object and releases what its
\* fields own, field after field.
RECURSIVE Release(_, _)
Release(s, vs) ==
    IF vs = <<>> \/ s.done THEN s
    ELSE LET v == Head(vs)
         IN  IF v = Null THEN Release(s, Tail(vs))
             ELSE IF v \notin DOMAIN s.count \/ s.count[v] = 0
             THEN Fault(s, "release of a destroyed object")
             ELSE Release([s EXCEPT !.count[v] = @ - 1],
                          (IF s.count[v] = 1
                           THEN LET fields == Ascending(s.owned[v])
                                IN  [k \in DOMAIN fields |-> s.mem[fields[k]]]
                           ELSE <<>>) \o Tail(vs))

\* The object an address lies in, if it lies in one.
Inside(s, a) == {o \in DOMAIN s.count : a >= o - 1 /\ a < o + ObjectSize - 1}
Dangling(s, a) == a \notin DOMAIN s.mem \/ \E o \in Inside(s, a) : s.count[o] = 0
-----------------------------------------------------------------------------
(* Functions without blocks are external.  Those the runs use: one that     *)
(* shows a number, one that answers with the next input, and panic and exit,*)
(* which do not return.                                                      *)

External(s, name, args) ==
    CASE name = "show"  -> [s EXCEPT !.trace = Append(@, <<"show", args[1]>>)]
      [] name = "ask"   -> [s EXCEPT !.input = Tail(@)]
      [] name \in {"panic", "exit"} -> [s EXCEPT !.trace = Append(@, <<name, args[1]>>), !.done = TRUE]

Answer(s, name) == IF name = "ask" THEN Head(s.input) ELSE 0

Frame(m, name, args, into, id) ==
    LET k == FunctionIndex(m, name)
        f == m.functions[k]
        globals == {m.globals[j][1] : j \in DOMAIN m.globals}
    IN  [fn |-> k, block |-> 1, pc |-> 1, into |-> into, id |-> id,
         regs |-> [p \in ToSet(ParamRegs(f)) |->
                      LET n == CHOOSE n \in DOMAIN f.params : f.params[n][1] = p
                      IN  StorageValue(args[n], f.params[n][2])]
                  @@ [r \in globals |-> FirstGlobal + 2 * r]]

\* One instruction i of the frame on top, with the values v of its operands.
Onward(s)         == [s EXCEPT !.frames[Len(s.frames)].pc = @ + 1]
Define(s, i, val) == [Onward(s) EXCEPT !.frames[Len(s.frames)].regs = (i.dest :> val) @@ @]
Goto(m, s, id)    ==
    LET n == Len(s.frames)
    IN  [s EXCEPT !.frames[n].block = BlockIndex(m.functions[s.frames[n].fn], id), !.frames[n].pc = 1]
NewObject(s)      == FirstObject + ObjectSize * Cardinality(DOMAIN s.count)

DoBinary(s, i, v) ==
    IF i.op \in Divisions /\ v[2] = 0 THEN Fault(s, "division by zero")
    ELSE Define(s, i, Compute(i.op, v[1], v[2], i.ty))
DoConst(s, i)   == Define(s, i, i.x)
DoCast(s, i, v) == Define(s, i, StorageValue(v[1], i.ty))
\* A cell has one address in a frame, however often control comes by.
DoAlloca(s, i)  ==
    LET fr == Last1(s.frames)
    IN  IF i.dest \in DOMAIN fr.regs THEN Onward(s) ELSE Define(s, i, FirstCell + 10000 * fr.id + 2 * i.dest)
DoAllocStruct(s, i)   == Define(Allocate(s, Classes[i.x], 0), i, NewObject(s))
DoAllocArray(s, i, v) == Define(Allocate(s, [k \in 1 .. v[1] |-> i.ty], v[1]), i, NewObject(s))
DoGep(s, i, v)   == Define(s, i, v[1] + v[2])
DoLoad(s, i, v)  ==
    IF Dangling(s, v[1]) THEN Fault(s, "load of a cell that holds nothing")
    ELSE Define(s, i, StorageValue(s.mem[v[1]], i.ty))
DoStore(s, i, v) ==
    IF v[1] < FirstGlobal /\ Dangling(s, v[1]) THEN Fault(s, "store outside an object")
    ELSE Onward([s EXCEPT !.mem = (v[1] :> StorageValue(v[2], i.ty)) @@ @])
DoCount(s, i, v)     == Onward(IF i.op = "retain" THEN Retain(s, v[1]) ELSE Release(s, v))
DoBr(m, s, i)        == Goto(m, s, i.x[1])
DoCondBr(m, s, i, v) == Goto(m, s, IF v[1] # 0 THEN i.x[1] ELSE i.x[2])
DoCall(m, s, i, v)   ==
    IF i.x \notin Names(m) THEN Fault(s, "call of a missing function")
    ELSE IF m.functions[FunctionIndex(m, i.x)].blocks = <<>> THEN Define(External(s, i.x, v), i, Answer(s, i.x))
    ELSE [s EXCEPT !.frames = Append(@, Frame(m, i.x, v, i.dest, s.calls + 1)), !.calls = @ + 1]
DoRet(m, s, i, v) ==
    LET fr   == Last1(s.frames)
        n    == Len(s.frames)
        back == [s EXCEPT !.frames = Front(@)]
    IN  IF n = 1 THEN [back EXCEPT !.done = TRUE]
        ELSE [back EXCEPT
                !.frames[n - 1].pc = @ + 1,
                !.frames[n - 1].regs =
                    IF v = <<>> THEN @ ELSE (fr.into :> StorageValue(v[1], m.functions[fr.fn].ret)) @@ @]

Execute(m, s, i, v) ==
    CASE i.op \in Arithmetic           -> DoBinary(s, i, v)
      [] i.op \in {"const", "constbool", "conststring"} -> DoConst(s, i)
      [] i.op = "cast"                 -> DoCast(s, i, v)
      [] i.op = "alloca"               -> DoAlloca(s, i)
      [] i.op = "allocstruct"          -> DoAllocStruct(s, i)
      [] i.op = "allocarray"           -> DoAllocArray(s, i, v)
      [] i.op = "gep"                  -> DoGep(s, i, v)
      [] i.op = "load"                 -> DoLoad(s, i, v)
      [] i.op = "store"                -> DoStore(s, i, v)
      [] i.op \in {"retain", "release"} -> DoCount(s, i, v)
      [] i.op = "br"                   -> DoBr(m, s, i)
      [] i.op = "condbr"               -> DoCondBr(m, s, i, v)
      [] i.op = "call"                 -> DoCall(m, s, i, v)
      [] i.op = "ret"                  -> DoRet(m, s, i, v)
      [] OTHER -> Fault(s, "unreachable or unlowered instruction")
Step(m, s) ==
    LET fr == Last1(s.frames)
        i  == m.functions[fr.fn].blocks[fr.block].code[fr.pc]
    IN  IF ToSet(i.args) \subseteq DOMAIN fr.regs THEN Execute(m, s, i, [k \in DOMAIN i.args |-> fr.regs[i.args[k]]])
        ELSE Fault(s, "register without a value")

RECURSIVE RunFor(_, _, _)
RunFor(m, s, ticks) ==
    IF ticks = 0 \/ s.done THEN s
    ELSE IF ticks = 1 THEN Step(m, s)
    ELSE RunFor(m, RunFor(m, s, ticks \div 2), ticks - ticks \div 2)

\* The run of a function of the module on a sequence of inputs.
Machine(m, name, input) ==
    [frames |-> <<Frame(m, name, <<>>, NoReg, 1)>>, calls |-> 1,
     mem |-> [a \in {FirstGlobal + 2 * m.globals[k][1] : k \in DOMAIN m.globals} |-> 0],
     count |-> <<>>, owned |-> <<>>, trace |-> <<>>, input |-> input,
     fault |-> "", done |-> FALSE]
Run(m, name, input) ==
    LET s == RunFor(m, Machine(m, name, input), MaxTicks)
    IN  IF s.done THEN s ELSE Fault(s, "endless")
=============================================================================
