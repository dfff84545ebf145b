-------------------------- MODULE ArcRuntime_proofs --------------------------
(***************************************************************************)
(* The counts and destructors of the runtime and the operations of Vec do  *)
(* what managed memory promises: every step is one of OwnedHeap or leaves  *)
(* it alone, counts are numbers of owners, nothing is lost, and a Vec has  *)
(* the elements that the calls made so far ask for.                        *)
(*                                                                         *)
(* What a step does to memory is stated for memories as values (h, bf, st: *)
(* what is at the addresses of objects and of buffers, and the releases    *)
(* that have begun), and then used for the state before and after a step.  *)
(***************************************************************************)
EXTENDS ArcRuntime, Counting_proofs, SequenceTheorems, TLAPS

-----------------------------------------------------------------------------
(* The invariant.                                                          *)

\* A release that has begun, and an operation that is under way.
Frame == [o : Value, pc : {"count", "children"}, rest : Nat, data : Buffer \cup {Null}]
Operation == [op : {"none", "insert", "remove", "set", "clear", "drop"}, o : Value,
              i : Nat, at : Nat, item : Value, x : Var \cup {Null}]

MemoryTyped(h, bf, st) ==
  /\ h \in [Obj -> Object \cup {Freed}]
  /\ bf \in [Buffer -> Raw \cup {Freed}]
  /\ st \in Seq(Frame)
Typed ==
  /\ MemoryTyped(heap, buffer, stack)
  /\ var \in [Var -> Value] /\ call \in Operation /\ meant \in [Obj -> Seq(Value)]
  /\ mode \in {"running", "trapped", "panicked"}

LiveIn(h) == {o \in Obj : h[o] # Freed}
VecIn(h, o) == o \in LiveIn(h) /\ h[o].kind = "vec"
SharedIn(h, o) == o \in LiveIn(h) /\ h[o].kind = "shared"
\* The frame k of the stack destroys the object o.
Destroys(st, k, o) == k \in DOMAIN st /\ st[k].pc = "children" /\ st[k].o = o

\* Only the innermost release can be one that has not looked at its object yet;
\* an object is destroyed once, which is when its count is zero.
Nested(h, st) ==
  /\ \A k \in DOMAIN st : k < Len(st) => st[k].pc = "children"
  /\ \A k \in DOMAIN st : st[k].pc = "children" => st[k].o \in LiveIn(h)
  /\ \A j, k \in DOMAIN st : \A o \in Obj : Destroys(st, j, o) /\ Destroys(st, k, o) => j = k
  /\ \A o \in LiveIn(h) : h[o].count = 0 <=> \E k \in DOMAIN st : Destroys(st, k, o)

\* A Vec has one owner, a capacity that fits a word and a buffer of that size.
Formed(h, bf) ==
  \A o \in LiveIn(h) :
    /\ h[o].kind = "shared" =>
         /\ h[o].data = Null /\ h[o].used = 0 /\ h[o].cap = 0
         /\ Len(h[o].cells) <= MaxWord
    /\ h[o].kind = "vec" =>
         /\ h[o].cells = <<>> /\ h[o].count <= 1
         /\ h[o].used <= h[o].cap /\ h[o].cap <= MaxWord
         /\ h[o].cap = 0 <=> h[o].data = Null
         /\ h[o].count = 0 => h[o].data = Null
         /\ h[o].data # Null => bf[h[o].data] # Freed /\ Len(bf[h[o].data]) = h[o].cap

\* What a destructor has still to release: the first cells, all of them handles
\* if the object is a Vec, which has none behind them.
Walked(h, bf, st) ==
  \A k \in DOMAIN st : \A o \in LiveIn(h) : Destroys(st, k, o) =>
    /\ h[o].kind = "shared" => st[k].data = Null /\ st[k].rest <= Len(h[o].cells)
    /\ h[o].kind = "vec" =>
         IF st[k].data = Null THEN st[k].rest = 0
         ELSE /\ bf[st[k].data] # Freed
              /\ st[k].rest <= Len(bf[st[k].data]) /\ Len(bf[st[k].data]) <= MaxWord
              /\ \A i \in DOMAIN bf[st[k].data] : bf[st[k].data][i] \in Obj <=> i <= st[k].rest

\* The Vec o has the buffer b, or the frame that destroys it has.
Keeps(h, st, o, b) ==
  /\ VecIn(h, o)
  /\ h[o].data = b \/ \E k \in DOMAIN st : Destroys(st, k, o) /\ st[k].data = b
\* Every buffer has one Vec.
Kept(h, bf, st) ==
  /\ \A b \in Buffer : bf[b] # Freed => \E o \in Obj : Keeps(h, st, o, b)
  /\ \A b \in Buffer : \A o, p \in Obj : Keeps(h, st, o, b) /\ Keeps(h, st, p, b) => o = p

MemorySound(h, bf, st) ==
  MemoryTyped(h, bf, st) /\ Nested(h, st) /\ Formed(h, bf) /\ Walked(h, bf, st) /\ Kept(h, bf, st)

\* The Vec that an operation works on has a variable that owns it.  Operations
\* that move elements release nothing meanwhile; one that carries a handle has a
\* cell for it.
CallSound(v, h, st, c) ==
  /\ c.op = "none" => c = NoCall
  /\ c.op # "none" =>
       /\ VecIn(h, c.o) /\ h[c.o].count = 1
       /\ \E y \in Var : v[y] = c.o
       /\ c.item # Null <=> c.op \in {"insert", "remove", "set"}
  /\ c.op \in {"insert", "remove"} => st = <<>>
  /\ c.op = "insert" => c.i <= c.at /\ c.at <= h[c.o].used /\ h[c.o].used < h[c.o].cap
  /\ c.op = "remove" => c.i <= c.at /\ c.at < h[c.o].used /\ c.x \in Var /\ v[c.x] = Null
  /\ c.op = "set" => c.i < h[c.o].used

\* The i-th element of m, if there is one.
Positive == Nat \ {0}
Element(m, i) == IF i \in 1 .. Len(m) THEN m[i] ELSE Null
Storage(h, bf, o) == IF h[o].data = Null THEN <<>> ELSE bf[h[o].data]
\* The cells have the elements of m in order, and nothing behind them; while an
\* operation is under way there is a gap, from which some have been moved or to
\* which some have yet to be moved.
Filled(cells, u, m, c) ==
  /\ c.op = "none" =>
       /\ Len(m) = u
       /\ \A i \in Positive : Handles(cells, i) = Element(m, i)
  /\ c.op = "insert" =>
       /\ Len(m) = u + 1 /\ m[c.i + 1] = c.item
       /\ \A i \in Positive : Handles(cells, i) =
            IF i = c.at + 1 THEN Null
            ELSE IF c.i < i /\ i <= c.at THEN Element(m, i + 1)
            ELSE Element(m, i)
  /\ c.op = "remove" =>
       /\ Len(m) + 1 = u
       /\ \A i \in Positive : Handles(cells, i) =
            IF i <= c.at THEN Element(m, i)
            ELSE IF i = c.at + 1 THEN Null
            ELSE Element(m, i - 1)
  /\ c.op = "set" =>
       /\ Len(m) = u /\ m[c.i + 1] = c.item
       /\ \A i \in Positive : Handles(cells, i) = IF i = c.i + 1 THEN Null ELSE Element(m, i)
  /\ c.op \in {"clear", "drop"} =>
       /\ m = <<>>
       /\ \A i \in Positive : Handles(cells, i) # Null <=> i <= u

\* Every object that is not being destroyed has what it should have.
FilledIn(h, bf, mt, c) ==
  \A o \in LiveIn(h) : h[o].count > 0 =>
    /\ h[o].kind = "shared" => mt[o] = h[o].cells
    /\ h[o].kind = "vec" =>
         /\ mt[o] \in Seq(Obj)
         /\ Filled(Storage(h, bf, o), h[o].used, mt[o], IF c.o = o THEN c ELSE NoCall)

RuntimeInv ==
  /\ Typed
  /\ MemorySound(heap, buffer, stack)
  /\ CallSound(var, heap, stack, call)
  /\ FilledIn(heap, buffer, meant, call)
  /\ CountsSound
  /\ Abstract!NothingDangles
-----------------------------------------------------------------------------
(* What the cells of an object hold.                                       *)

HoldsIn(h, bf, st, o, i) ==
  LET dying == \E k \in DOMAIN st : st[k].o = o /\ st[k].pc = "children"
      frame == st[CHOOSE k \in DOMAIN st : st[k].o = o /\ st[k].pc = "children"]
      data  == IF dying THEN frame.data ELSE h[o].data
  IN  IF (o \in Obj /\ h[o] # Freed /\ h[o].kind = "shared") /\ ~(dying /\ i > frame.rest)
      THEN Handles(h[o].cells, i)
      ELSE IF (o \in Obj /\ h[o] # Freed /\ h[o].kind = "vec") /\ data # Null
      THEN Handles(bf[data], i)
      ELSE Null

\* What a cell holds is a matter of memory alone.
LEMMA CellHoldsIn ==
  ASSUME NEW o, NEW i
  PROVE  /\ CellHolds(o, i) = HoldsIn(heap, buffer, stack, o, i)
         /\ CellHolds(o, i)' = HoldsIn(heap', buffer', stack', o, i)
BY DEF CellHolds, HoldsIn, IsShared, IsVec, Dying, FrameOf, DataOf

\* What is not free is an object, or cells.
LEMMA LiveTyped ==
  ASSUME NEW h, NEW bf, NEW st, MemoryTyped(h, bf, st)
  PROVE  /\ \A o \in LiveIn(h) : h[o] \in Object /\ h[o].kind \in {"shared", "vec"} /\ h[o].count \in Nat
                                 /\ h[o].cells \in Seq(Value) /\ h[o].data \in Buffer \cup {Null}
                                 /\ h[o].used \in Nat /\ h[o].cap \in Nat
         /\ \A b \in Buffer : bf[b] # Freed => bf[b] \in Seq(Value \cup {Junk})
         /\ \A k \in DOMAIN st : /\ st[k] \in Frame /\ st[k].o \in Value /\ st[k].pc \in {"count", "children"}
                                 /\ st[k].rest \in Nat /\ st[k].data \in Buffer \cup {Null}
<1>1. ASSUME NEW o \in LiveIn(h) PROVE h[o] \in Object
  BY <1>1 DEF MemoryTyped, LiveIn
<1>2. ASSUME NEW b \in Buffer, bf[b] # Freed PROVE bf[b] \in Seq(Value \cup {Junk})
  BY <1>2 DEF MemoryTyped, Raw
<1>3. ASSUME NEW k \in DOMAIN st PROVE st[k] \in Frame
  BY <1>3 DEF MemoryTyped
<1> QED  BY <1>1, <1>2, <1>3 DEF Object, Frame

\* The frame that destroys an object is the one that HoldsIn finds.
LEMMA FrameFound ==
  ASSUME NEW h, NEW st, Nested(h, st), NEW o \in Obj, NEW k \in DOMAIN st, Destroys(st, k, o)
  PROVE  st[CHOOSE j \in DOMAIN st : st[j].o = o /\ st[j].pc = "children"] = st[k]
<1> DEFINE j == CHOOSE j \in DOMAIN st : st[j].o = o /\ st[j].pc = "children"
<1>1. j \in DOMAIN st /\ Destroys(st, j, o)
  BY DEF Destroys
<1> HIDE DEF j
<1>2. j = k
  BY <1>1 DEF Nested
<1> QED  BY <1>2 DEF j

\* The cells by the kind of the object and by whether it is being destroyed.
LEMMA HoldsIs ==
  ASSUME NEW h, NEW bf, NEW st, Nested(h, st), NEW o \in Obj, NEW i \in Nat
  PROVE  /\ h[o] = Freed => HoldsIn(h, bf, st, o, i) = Null
         /\ SharedIn(h, o) =>
              /\ h[o].count # 0 => HoldsIn(h, bf, st, o, i) = Handles(h[o].cells, i)
              /\ \A k \in DOMAIN st : Destroys(st, k, o) =>
                   HoldsIn(h, bf, st, o, i) = IF i > st[k].rest THEN Null ELSE Handles(h[o].cells, i)
         /\ VecIn(h, o) =>
              /\ h[o].count # 0 => HoldsIn(h, bf, st, o, i) =
                   IF h[o].data = Null THEN Null ELSE Handles(bf[h[o].data], i)
              /\ \A k \in DOMAIN st : Destroys(st, k, o) =>
                   HoldsIn(h, bf, st, o, i) =
                     IF st[k].data = Null THEN Null ELSE Handles(bf[st[k].data], i)
<1>1. h[o] = Freed => HoldsIn(h, bf, st, o, i) = Null
  BY DEF HoldsIn
<1>2. ASSUME o \in LiveIn(h), h[o].count # 0
      PROVE  ~\E k \in DOMAIN st : st[k].o = o /\ st[k].pc = "children"
  BY <1>2 DEF Nested, Destroys
<1>3. ASSUME NEW k \in DOMAIN st, Destroys(st, k, o)
      PROVE  /\ \E j \in DOMAIN st : st[j].o = o /\ st[j].pc = "children"
             /\ st[CHOOSE j \in DOMAIN st : st[j].o = o /\ st[j].pc = "children"] = st[k]
  BY <1>3, FrameFound DEF Destroys
<1>4. ASSUME SharedIn(h, o)
      PROVE  /\ h[o].count # 0 => HoldsIn(h, bf, st, o, i) = Handles(h[o].cells, i)
             /\ \A k \in DOMAIN st : Destroys(st, k, o) =>
                  HoldsIn(h, bf, st, o, i) = IF i > st[k].rest THEN Null ELSE Handles(h[o].cells, i)
  <2>1. o \in LiveIn(h) /\ h[o] # Freed /\ h[o].kind = "shared" /\ h[o].kind # "vec"
    BY <1>4 DEF LiveIn, SharedIn
  <2>2. ASSUME h[o].count # 0 PROVE HoldsIn(h, bf, st, o, i) = Handles(h[o].cells, i)
    BY <1>2, <1>4, <2>1, <2>2 DEF HoldsIn
  <2>3. ASSUME NEW k \in DOMAIN st, Destroys(st, k, o)
        PROVE  HoldsIn(h, bf, st, o, i) = IF i > st[k].rest THEN Null ELSE Handles(h[o].cells, i)
    BY <1>3, <1>4, <2>1, <2>3 DEF HoldsIn
  <2> QED  BY <2>2, <2>3
<1>5. ASSUME VecIn(h, o)
      PROVE  /\ h[o].count # 0 => HoldsIn(h, bf, st, o, i) =
                  IF h[o].data = Null THEN Null ELSE Handles(bf[h[o].data], i)
             /\ \A k \in DOMAIN st : Destroys(st, k, o) =>
                  HoldsIn(h, bf, st, o, i) =
                    IF st[k].data = Null THEN Null ELSE Handles(bf[st[k].data], i)
  <2>1. o \in LiveIn(h) /\ h[o] # Freed /\ h[o].kind = "vec" /\ h[o].kind # "shared"
    BY <1>5 DEF LiveIn, VecIn
  <2>2. ASSUME h[o].count # 0
        PROVE  HoldsIn(h, bf, st, o, i) = IF h[o].data = Null THEN Null ELSE Handles(bf[h[o].data], i)
    BY <1>2, <2>1, <2>2 DEF HoldsIn
  <2>3. ASSUME NEW k \in DOMAIN st, Destroys(st, k, o)
        PROVE  HoldsIn(h, bf, st, o, i) =
                 IF st[k].data = Null THEN Null ELSE Handles(bf[st[k].data], i)
    BY <1>3, <2>1, <2>3 DEF HoldsIn
  <2> QED  BY <2>2, <2>3
<1> QED  BY <1>1, <1>4, <1>5

\* An object that is not being destroyed.
LEMMA HoldsLiving ==
  ASSUME NEW h, NEW bf, NEW st, Nested(h, st), NEW o \in Obj, NEW i \in Nat, h[o].count # 0
  PROVE  /\ SharedIn(h, o) => HoldsIn(h, bf, st, o, i) = Handles(h[o].cells, i)
         /\ VecIn(h, o) => HoldsIn(h, bf, st, o, i) =
                            IF h[o].data = Null THEN Null ELSE Handles(bf[h[o].data], i)
BY HoldsIs

\* An object whose frame and buffer stay as they are holds what it held.
LEMMA HoldsAlike ==
  ASSUME NEW h, NEW bf, NEW st, MemoryTyped(h, bf, st), Nested(h, st), NEW h2, NEW bf2, NEW st2, Nested(h2, st2),
         NEW o \in LiveIn(h), o \in LiveIn(h2), NEW i \in Nat,
         h2[o].kind = h[o].kind, h2[o].cells = h[o].cells, h2[o].count = 0 <=> h[o].count = 0,
         h[o].count # 0 => h2[o].data = h[o].data,
         \A k \in DOMAIN st : Destroys(st, k, o) => k \in DOMAIN st2 /\ st2[k] = st[k],
         \A b \in Buffer : Keeps(h, st, o, b) => bf2[b] = bf[b]
  PROVE  HoldsIn(h2, bf2, st2, o, i) = HoldsIn(h, bf, st, o, i)
<1>0. o \in Obj /\ h[o].kind \in {"shared", "vec"} /\ h[o].data \in Buffer \cup {Null}
  BY LiveTyped DEF LiveIn
<1>1. CASE h[o].count # 0
  <2>1. CASE h[o].kind = "shared"
    <3>0. SharedIn(h, o) /\ SharedIn(h2, o)
      BY <2>1 DEF SharedIn
    <3>1. HoldsIn(h, bf, st, o, i) = Handles(h[o].cells, i)
      BY <1>0, <1>1, <3>0, HoldsIs
    <3>2. HoldsIn(h2, bf2, st2, o, i) = Handles(h2[o].cells, i)
      BY <1>0, <1>1, <3>0, HoldsIs
    <3> QED  BY <3>1, <3>2
  <2>2. CASE h[o].kind = "vec"
    <3>1. VecIn(h, o) /\ VecIn(h2, o)
      BY <2>2 DEF VecIn
    <3>2. h[o].data # Null => bf2[h[o].data] = bf[h[o].data]
      BY <1>0, <3>1 DEF Keeps
    <3> QED  BY <1>0, <1>1, <3>1, <3>2, HoldsIs
  <2> QED  BY <1>0, <2>1, <2>2
<1>2. CASE h[o].count = 0
  <2>1. PICK k \in DOMAIN st : Destroys(st, k, o)
    BY <1>2 DEF Nested
  <2>2. k \in DOMAIN st2 /\ st2[k] = st[k] /\ Destroys(st2, k, o) /\ st[k].data \in Buffer \cup {Null}
    BY <2>1, LiveTyped DEF Destroys
  <2>3. CASE h[o].kind = "shared"
    <3>0. SharedIn(h, o) /\ SharedIn(h2, o)
      BY <2>3 DEF SharedIn
    <3>1. HoldsIn(h, bf, st, o, i) = IF i > st[k].rest THEN Null ELSE Handles(h[o].cells, i)
      BY <1>0, <2>1, <3>0, HoldsIs
    <3>2. HoldsIn(h2, bf2, st2, o, i) = IF i > st2[k].rest THEN Null ELSE Handles(h2[o].cells, i)
      BY <1>0, <2>2, <3>0, HoldsIs
    <3> QED  BY <2>2, <3>1, <3>2
  <2>4. CASE h[o].kind = "vec"
    <3>1. VecIn(h, o) /\ VecIn(h2, o)
      BY <2>4 DEF VecIn
    <3>2. st[k].data # Null => bf2[st[k].data] = bf[st[k].data]
      BY <2>1, <2>2, <3>1 DEF Keeps
    <3> QED  BY <1>0, <2>1, <2>2, <3>1, <3>2, HoldsIs
  <2> QED  BY <1>0, <2>3, <2>4
<1> QED  BY <1>1, <1>2

\* At address o, something else than before.
SavedFor(h, h2, o) ==
  /\ h2 \in [Obj -> Object \cup {Freed}]
  /\ \A p \in Obj \ {o} : h2[p] = h[p]
\* The object o has another count or another number of elements, and its buffer
\* other cells.
Touches(h, bf, h2, bf2, o) ==
  /\ o \in LiveIn(h) /\ SavedFor(h, h2, o) /\ h2[o] \in Object
  /\ h2[o].kind = h[o].kind /\ h2[o].cells = h[o].cells
  /\ h2[o].data = h[o].data /\ h2[o].cap = h[o].cap
  /\ h[o].count # 0 /\ h2[o].count # 0
  /\ h[o].kind = "vec" => h2[o].count = 1 /\ h2[o].used <= h[o].cap
  /\ h[o].kind = "shared" => h2[o].used = 0
  /\ bf2 \in [Buffer -> Raw \cup {Freed}]
  /\ \A b \in Buffer : b # h[o].data => bf2[b] = bf[b]
  /\ h[o].data # Null => bf2[h[o].data] # Freed /\ Len(bf2[h[o].data]) = Len(bf[h[o].data])

\* The addresses and marks that are not objects.
LEMMA FreedIs == Freed \notin Object /\ Freed \notin Raw /\ Null \notin Buffer /\ Null \notin Obj /\ Junk \notin Obj
BY RuntimeAssumption DEF Value

\* Every buffer of another Vec is left alone.
LEMMA OtherBuffer ==
  ASSUME NEW h, NEW bf, NEW st, Kept(h, bf, st), NEW o \in Obj, NEW p \in Obj, p # o, NEW b \in Buffer,
         Keeps(h, st, o, b)
  PROVE  ~Keeps(h, st, p, b)
BY DEF Kept

\* An object that changes within its own cells keeps memory sound, and nothing
\* else changes.
LEMMA TouchSound ==
  ASSUME NEW h, NEW bf, NEW st, MemorySound(h, bf, st), NEW h2, NEW bf2, NEW o, Touches(h, bf, h2, bf2, o)
  PROVE  /\ MemorySound(h2, bf2, st) /\ LiveIn(h2) = LiveIn(h)
         /\ \A p \in Obj \ {o}, i \in Nat : HoldsIn(h2, bf2, st, p, i) = HoldsIn(h, bf, st, p, i)
         /\ \A i \in Nat : HoldsIn(h2, bf2, st, o, i) =
              IF h[o].kind = "vec" /\ h[o].data # Null THEN Handles(bf2[h[o].data], i)
              ELSE HoldsIn(h, bf, st, o, i)
<1>a. /\ MemoryTyped(h, bf, st) /\ Nested(h, st) /\ Formed(h, bf) /\ Walked(h, bf, st) /\ Kept(h, bf, st)
      /\ o \in LiveIn(h) /\ o \in Obj /\ h[o] # Freed
  BY DEF MemorySound, Touches, LiveIn
<1>b. /\ SavedFor(h, h2, o) /\ h2[o] \in Object /\ h2[o].kind = h[o].kind /\ h2[o].cells = h[o].cells
      /\ h2[o].data = h[o].data /\ h2[o].cap = h[o].cap /\ h[o].count # 0 /\ h2[o].count # 0
      /\ h[o].kind = "vec" => h2[o].count = 1 /\ h2[o].used <= h[o].cap
      /\ h[o].kind = "shared" => h2[o].used = 0
      /\ bf2 \in [Buffer -> Raw \cup {Freed}]
      /\ \A b \in Buffer : b # h[o].data => bf2[b] = bf[b]
      /\ h[o].data # Null => bf2[h[o].data] # Freed /\ Len(bf2[h[o].data]) = Len(bf[h[o].data])
      /\ \A p \in Obj \ {o} : h2[p] = h[p]
  BY DEF Touches, SavedFor
<1>c. h[o].kind \in {"shared", "vec"} /\ h[o].data \in Buffer \cup {Null}
  BY <1>a, LiveTyped
<1>1. LiveIn(h2) = LiveIn(h)
  <2>1. h2[o] # Freed
    BY <1>b, FreedIs
  <2> QED  BY <1>a, <1>b, <2>1 DEF LiveIn
<1>2. MemoryTyped(h2, bf2, st)
  BY <1>a, <1>b DEF MemoryTyped, SavedFor
<1>d. \A k \in DOMAIN st : ~Destroys(st, k, o)
  BY <1>a, <1>b DEF Nested
<1>3. Nested(h2, st)
  <2>1. \A p \in LiveIn(h2) : h2[p].count = 0 <=> h[p].count = 0
    BY <1>a, <1>b, <1>1 DEF LiveIn
  <2> QED  BY <1>a, <1>1, <2>1 DEF Nested
<1>e. \A p \in Obj, b \in Buffer : Keeps(h2, st, p, b) <=> Keeps(h, st, p, b)
  <2>1. \A p \in Obj : VecIn(h2, p) <=> VecIn(h, p)
    BY <1>1, <1>b DEF VecIn
  <2>2. \A p \in Obj : h2[p].data = h[p].data
    BY <1>b
  <2> QED  BY <2>1, <2>2 DEF Keeps
<1>f. \A p \in Obj \ {o}, b \in Buffer : Keeps(h, st, p, b) => b # h[o].data /\ bf2[b] = bf[b]
  <2> SUFFICES ASSUME NEW p \in Obj \ {o}, NEW b \in Buffer, Keeps(h, st, p, b), b = h[o].data PROVE FALSE
    BY <1>b
  <2>1. VecIn(h, o)
    <3>1. CASE h[o].kind = "shared"
      BY <1>a, <3>1, FreedIs DEF Formed
    <3> QED  BY <1>a, <1>c, <3>1 DEF VecIn
  <2>2. Keeps(h, st, o, b)
    BY <2>1 DEF Keeps
  <2> QED  BY <1>a, <2>2, OtherBuffer
<1>4. Formed(h2, bf2)
  <2>1. ASSUME NEW p \in LiveIn(h2), p # o
        PROVE  /\ h2[p] = h[p] /\ p \in LiveIn(h) /\ p \in Obj
               /\ h[p].kind = "vec" /\ h[p].data # Null => bf2[h[p].data] = bf[h[p].data]
    <3>1. h2[p] = h[p] /\ p \in LiveIn(h) /\ p \in Obj
      BY <1>b, <1>1, <2>1 DEF LiveIn
    <3>2. ASSUME h[p].kind = "vec", h[p].data # Null PROVE bf2[h[p].data] = bf[h[p].data]
      <4>1. h[p].data \in Buffer
        BY <1>a, <3>1, <3>2, LiveTyped
      <4>2. Keeps(h, st, p, h[p].data)
        BY <3>1, <3>2 DEF Keeps, VecIn
      <4> QED  BY <1>f, <2>1, <3>1, <4>1, <4>2
    <3> QED  BY <3>1, <3>2
  <2>2. ASSUME NEW p \in LiveIn(h2), p # o
        PROVE  /\ h2[p].kind = "shared" =>
                    /\ h2[p].data = Null /\ h2[p].used = 0 /\ h2[p].cap = 0
                    /\ Len(h2[p].cells) <= MaxWord
               /\ h2[p].kind = "vec" =>
                    /\ h2[p].cells = <<>> /\ h2[p].count <= 1
                    /\ h2[p].used <= h2[p].cap /\ h2[p].cap <= MaxWord
                    /\ h2[p].cap = 0 <=> h2[p].data = Null
                    /\ h2[p].count = 0 => h2[p].data = Null
                    /\ h2[p].data # Null => bf2[h2[p].data] # Freed /\ Len(bf2[h2[p].data]) = h2[p].cap
    BY <1>a, <2>1, <2>2 DEF Formed
  <2>3. /\ h2[o].kind = "shared" =>
             /\ h2[o].data = Null /\ h2[o].used = 0 /\ h2[o].cap = 0
             /\ Len(h2[o].cells) <= MaxWord
        /\ h2[o].kind = "vec" =>
             /\ h2[o].cells = <<>> /\ h2[o].count <= 1
             /\ h2[o].used <= h2[o].cap /\ h2[o].cap <= MaxWord
             /\ h2[o].cap = 0 <=> h2[o].data = Null
             /\ h2[o].count = 0 => h2[o].data = Null
             /\ h2[o].data # Null => bf2[h2[o].data] # Freed /\ Len(bf2[h2[o].data]) = h2[o].cap
    BY <1>a, <1>b DEF Formed
  <2> QED  BY <2>2, <2>3 DEF Formed
<1>5. Walked(h2, bf2, st)
  <2> SUFFICES ASSUME NEW k \in DOMAIN st, NEW p \in LiveIn(h2), Destroys(st, k, p)
               PROVE  /\ h2[p].kind = "shared" => st[k].data = Null /\ st[k].rest <= Len(h2[p].cells)
                      /\ h2[p].kind = "vec" =>
                           IF st[k].data = Null THEN st[k].rest = 0
                           ELSE /\ bf2[st[k].data] # Freed
                                /\ st[k].rest <= Len(bf2[st[k].data]) /\ Len(bf2[st[k].data]) <= MaxWord
                                /\ \A i \in DOMAIN bf2[st[k].data] : bf2[st[k].data][i] \in Obj <=> i <= st[k].rest
    BY DEF Walked
  <2>1. p # o /\ p \in LiveIn(h) /\ p \in Obj /\ h2[p] = h[p]
    BY <1>1, <1>b, <1>d DEF LiveIn
  <2>2. ASSUME h[p].kind = "vec", st[k].data # Null PROVE bf2[st[k].data] = bf[st[k].data]
    <3>1. st[k].data \in Buffer
      BY <1>a, <2>2, LiveTyped
    <3>2. Keeps(h, st, p, st[k].data)
      BY <2>1, <2>2 DEF Keeps, VecIn
    <3> QED  BY <1>f, <2>1, <3>1, <3>2
  <2> QED  BY <1>a, <2>1, <2>2 DEF Walked
<1>6. Kept(h2, bf2, st)
  <2>1. ASSUME NEW b \in Buffer, bf2[b] # Freed PROVE bf[b] # Freed
    <3>1. CASE b = h[o].data
      <4>1. h[o].kind = "vec"
        BY <1>a, <1>c, <3>1, FreedIs DEF Formed
      <4> QED  BY <1>a, <3>1, <4>1, FreedIs DEF Formed
    <3> QED  BY <1>b, <2>1, <3>1
  <2> QED  BY <1>a, <1>e, <2>1 DEF Kept
<1>7. MemorySound(h2, bf2, st)
  BY <1>2, <1>3, <1>4, <1>5, <1>6 DEF MemorySound
<1>8. ASSUME NEW p \in Obj \ {o}, NEW i \in Nat PROVE HoldsIn(h2, bf2, st, p, i) = HoldsIn(h, bf, st, p, i)
  <2>1. CASE h[p] = Freed
    BY <1>a, <1>b, <1>3, <2>1, HoldsIs
  <2>2. CASE h[p] # Freed
    <3>1. p \in LiveIn(h) /\ p \in LiveIn(h2) /\ h2[p] = h[p]
      BY <1>1, <1>b, <2>2 DEF LiveIn
    <3>2. \A b \in Buffer : Keeps(h, st, p, b) => bf2[b] = bf[b]
      BY <1>f
    <3> QED  BY <1>a, <1>3, <3>1, <3>2, HoldsAlike
  <2> QED  BY <2>1, <2>2
<1>h. o \in Obj /\ Nested(h, st) /\ Nested(h2, st) /\ h[o].count # 0 /\ h2[o].count # 0
  BY <1>a, <1>b, <1>3
<1>9. ASSUME NEW i \in Nat
      PROVE  HoldsIn(h2, bf2, st, o, i) =
               IF h[o].kind = "vec" /\ h[o].data # Null THEN Handles(bf2[h[o].data], i)
               ELSE HoldsIn(h, bf, st, o, i)
  <2>1. CASE h[o].kind = "vec"
    <3>1. VecIn(h, o) /\ VecIn(h2, o)
      BY <1>a, <1>b, <1>1, <2>1 DEF VecIn
    <3>2. HoldsIn(h2, bf2, st, o, i) = IF h2[o].data = Null THEN Null ELSE Handles(bf2[h2[o].data], i)
      BY <1>h, <3>1, HoldsLiving
    <3>3. HoldsIn(h, bf, st, o, i) = IF h[o].data = Null THEN Null ELSE Handles(bf[h[o].data], i)
      BY <1>h, <3>1, HoldsLiving
    <3> QED  BY <1>b, <2>1, <3>2, <3>3
  <2>2. CASE h[o].kind = "shared"
    <3>1. SharedIn(h, o) /\ SharedIn(h2, o)
      BY <1>a, <1>b, <1>1, <2>2 DEF SharedIn
    <3>2. HoldsIn(h2, bf2, st, o, i) = Handles(h2[o].cells, i)
      BY <1>h, <3>1, HoldsLiving
    <3>3. HoldsIn(h, bf, st, o, i) = Handles(h[o].cells, i)
      BY <1>h, <3>1, HoldsLiving
    <3> QED  BY <1>b, <2>2, <3>2, <3>3
  <2> QED  BY <1>c, <2>1, <2>2
<1> QED  BY <1>1, <1>7, <1>8, <1>9

\* Releases begin or end that have not looked at their object yet.
LEMMA KidsSame ==
  ASSUME NEW h, NEW bf, NEW st, MemorySound(h, bf, st), NEW st2 \in Seq(Frame),
         \A k \in DOMAIN st2 : k < Len(st2) => st2[k].pc = "children",
         \A k \in DOMAIN st : st[k].pc = "children" => k \in DOMAIN st2 /\ st2[k] = st[k],
         \A k \in DOMAIN st2 : st2[k].pc = "children" => k \in DOMAIN st /\ st[k] = st2[k]
  PROVE  /\ MemorySound(h, bf, st2)
         /\ \A p \in Obj, i \in Nat : HoldsIn(h, bf, st2, p, i) = HoldsIn(h, bf, st, p, i)
<1>a. MemoryTyped(h, bf, st) /\ Nested(h, st) /\ Formed(h, bf) /\ Walked(h, bf, st) /\ Kept(h, bf, st)
  BY DEF MemorySound
<1>b. ASSUME NEW k, NEW o
      PROVE  /\ Destroys(st, k, o) => Destroys(st2, k, o) /\ st2[k] = st[k]
             /\ Destroys(st2, k, o) => Destroys(st, k, o) /\ st2[k] = st[k]
  BY DEF Destroys
<1>c. ASSUME NEW k, NEW o PROVE Destroys(st, k, o) => k \in DOMAIN st
  BY DEF Destroys
<1>d. ASSUME NEW k, NEW o PROVE Destroys(st2, k, o) => k \in DOMAIN st2
  BY DEF Destroys
<1>1. MemoryTyped(h, bf, st2)
  BY <1>a DEF MemoryTyped
<1>2. Nested(h, st2)
  <2>1. \A j, k \in DOMAIN st2 : \A o \in Obj : Destroys(st2, j, o) /\ Destroys(st2, k, o) => j = k
    BY <1>a, <1>b, <1>c DEF Nested
  <2>2. \A o \in LiveIn(h) : h[o].count = 0 <=> \E k \in DOMAIN st2 : Destroys(st2, k, o)
    BY <1>a, <1>b, <1>c, <1>d DEF Nested
  <2>3. \A k \in DOMAIN st2 : st2[k].pc = "children" => st2[k].o \in LiveIn(h)
    BY <1>a DEF Nested
  <2> QED  BY <2>1, <2>2, <2>3 DEF Nested
<1>3. Walked(h, bf, st2)
  <2> SUFFICES ASSUME NEW k \in DOMAIN st2, NEW p \in LiveIn(h), Destroys(st2, k, p)
               PROVE  /\ h[p].kind = "shared" => st2[k].data = Null /\ st2[k].rest <= Len(h[p].cells)
                      /\ h[p].kind = "vec" =>
                           IF st2[k].data = Null THEN st2[k].rest = 0
                           ELSE /\ bf[st2[k].data] # Freed
                                /\ st2[k].rest <= Len(bf[st2[k].data]) /\ Len(bf[st2[k].data]) <= MaxWord
                                /\ \A i \in DOMAIN bf[st2[k].data] : bf[st2[k].data][i] \in Obj <=> i <= st2[k].rest
    BY DEF Walked
  <2>1. Destroys(st, k, p) /\ st2[k] = st[k] /\ k \in DOMAIN st
    BY <1>b, <1>c
  <2> QED  BY <1>a, <2>1 DEF Walked
<1>4. \A o, b : Keeps(h, st2, o, b) <=> Keeps(h, st, o, b)
  BY <1>b, <1>c, <1>d DEF Keeps
<1>5. Kept(h, bf, st2)
  BY <1>a, <1>4 DEF Kept
<1>6. ASSUME NEW p \in Obj, NEW i \in Nat PROVE HoldsIn(h, bf, st2, p, i) = HoldsIn(h, bf, st, p, i)
  <2>1. CASE h[p] = Freed
    BY <1>a, <1>2, <2>1, HoldsIs
  <2>2. CASE h[p] # Freed
    <3>1. p \in LiveIn(h)
      BY <2>2 DEF LiveIn
    <3>2. \A k \in DOMAIN st : Destroys(st, k, p) => k \in DOMAIN st2 /\ st2[k] = st[k]
      BY <1>b, <1>d
    <3> QED  BY <1>a, <1>2, <3>1, <3>2, HoldsAlike
  <2> QED  BY <2>1, <2>2
<1> QED  BY <1>a, <1>1, <1>2, <1>3, <1>5, <1>6 DEF MemorySound

\* The innermost release is over, or another begins.
LEMMA FrontIs ==
  ASSUME NEW V, NEW st \in Seq(V), st # <<>>
  PROVE  /\ Front(st) \in Seq(V) /\ Len(Front(st)) = Len(st) - 1 /\ Len(st) \in Nat \ {0}
         /\ DOMAIN Front(st) = 1 .. Len(st) - 1 /\ DOMAIN st = 1 .. Len(st)
         /\ \A k \in 1 .. Len(st) - 1 : Front(st)[k] = st[k]
<1>1. Len(st) \in Nat \ {0} /\ DOMAIN st = 1 .. Len(st)
  OBVIOUS
<1> DEFINE n == Len(st) - 1
           s == SubSeq(st, 1, n)
<1>2. n \in 0 .. Len(st) /\ n \in Nat
  BY <1>1
<1>3. s \in Seq(V) /\ Len(s) = n /\ \A i \in 1 .. n : s[i] = st[i]
  <2>1. /\ s \in Seq(V) /\ Len(s) = IF 1 <= n THEN n - 1 + 1 ELSE 0
        /\ \A i \in 1 .. n - 1 + 1 : s[i] = st[1 + i - 1]
    BY <1>1, <1>2, SubSeqProperties
  <2>2. \A i \in 1 .. n : i \in 1 .. n - 1 + 1 /\ 1 + i - 1 = i
    BY <1>2
  <2> HIDE DEF s, n
  <2>3. Len(s) = n
    BY <1>2, <2>1
  <2> QED  BY <2>1, <2>2, <2>3
<1>4. DOMAIN s = 1 .. n
  BY <1>3
<1> QED  BY <1>1, <1>3, <1>4 DEF Front

\* The end of a release that has not looked at its object changes no cell.
LEMMA PopSound ==
  ASSUME NEW h, NEW bf, NEW st, MemorySound(h, bf, st), st # <<>>, st[Len(st)].pc = "count"
  PROVE  /\ MemorySound(h, bf, Front(st))
         /\ \A p \in Obj, i \in Nat : HoldsIn(h, bf, Front(st), p, i) = HoldsIn(h, bf, st, p, i)
<1>1. st \in Seq(Frame) /\ Nested(h, st)
  BY DEF MemorySound, MemoryTyped
<1>2. /\ Front(st) \in Seq(Frame) /\ Len(Front(st)) = Len(st) - 1 /\ Len(st) \in Nat \ {0}
      /\ DOMAIN Front(st) = 1 .. Len(st) - 1 /\ DOMAIN st = 1 .. Len(st)
      /\ \A k \in 1 .. Len(st) - 1 : Front(st)[k] = st[k]
  BY <1>1, FrontIs
<1>3. \A k \in DOMAIN Front(st) : k \in DOMAIN st /\ Front(st)[k] = st[k] /\ k < Len(st)
  BY <1>2
<1>4. \A k \in DOMAIN st : st[k].pc = "children" => k \in DOMAIN Front(st) /\ Front(st)[k] = st[k]
  BY <1>2
<1>5. \A k \in DOMAIN Front(st) : Front(st)[k].pc = "children"
  BY <1>1, <1>3 DEF Nested
<1> QED  BY <1>2, <1>3, <1>4, <1>5, KidsSame

\* Neither does the beginning of a release.
LEMMA PushSound ==
  ASSUME NEW h, NEW bf, NEW st, MemorySound(h, bf, st), NEW v \in Value,
         \A k \in DOMAIN st : st[k].pc = "children"
  PROVE  /\ MemorySound(h, bf, Append(st, Release(v)))
         /\ \A p \in Obj, i \in Nat : HoldsIn(h, bf, Append(st, Release(v)), p, i) = HoldsIn(h, bf, st, p, i)
<1> DEFINE st2 == Append(st, Release(v))
<1>1. st \in Seq(Frame)
  BY DEF MemorySound, MemoryTyped
<1>2. Release(v) \in Frame /\ Release(v).pc = "count"
  BY DEF Release, Frame, Value
<1>3. /\ st2 \in Seq(Frame) /\ Len(st2) = Len(st) + 1 /\ Len(st) \in Nat
      /\ DOMAIN st2 = 1 .. Len(st) + 1 /\ DOMAIN st = 1 .. Len(st)
      /\ \A k \in 1 .. Len(st) : st2[k] = st[k]
      /\ st2[Len(st) + 1] = Release(v)
  BY <1>1, <1>2
<1> HIDE DEF st2
<1>4. \A k \in DOMAIN st2 : st2[k].pc = "children" => k \in DOMAIN st /\ st[k] = st2[k]
  BY <1>2, <1>3
<1>5. \A k \in DOMAIN st2 : k < Len(st2) => st2[k].pc = "children"
  BY <1>3
<1>6. \A k \in DOMAIN st : k \in DOMAIN st2 /\ st2[k] = st[k]
  BY <1>3
<1>7. /\ MemorySound(h, bf, st2)
      /\ \A p \in Obj, i \in Nat : HoldsIn(h, bf, st2, p, i) = HoldsIn(h, bf, st, p, i)
  BY <1>3, <1>4, <1>5, <1>6, KidsSame
<1> QED  BY <1>7 DEF st2

\* What the frame k must know of an object that it destroys.
WalkedAt(h, bf, f, o) ==
  /\ h[o].kind = "shared" => f.data = Null /\ f.rest <= Len(h[o].cells)
  /\ h[o].kind = "vec" =>
       IF f.data = Null THEN f.rest = 0
       ELSE /\ bf[f.data] # Freed
            /\ f.rest <= Len(bf[f.data]) /\ Len(bf[f.data]) <= MaxWord
            /\ \A i \in DOMAIN bf[f.data] : bf[f.data][i] \in Obj <=> i <= f.rest
\* What a Vec and a shared object must be like.
FormedAt(h, bf, o) ==
  /\ h[o].kind = "shared" =>
       /\ h[o].data = Null /\ h[o].used = 0 /\ h[o].cap = 0
       /\ Len(h[o].cells) <= MaxWord
  /\ h[o].kind = "vec" =>
       /\ h[o].cells = <<>> /\ h[o].count <= 1
       /\ h[o].used <= h[o].cap /\ h[o].cap <= MaxWord
       /\ h[o].cap = 0 <=> h[o].data = Null
       /\ h[o].count = 0 => h[o].data = Null
       /\ h[o].data # Null => bf[h[o].data] # Freed /\ Len(bf[h[o].data]) = h[o].cap

\* Walked and Formed, object by object.
LEMMA ByObject ==
  ASSUME NEW h, NEW bf, NEW st
  PROVE  /\ Walked(h, bf, st) <=> \A k \in DOMAIN st : \A o \in LiveIn(h) :
                                    Destroys(st, k, o) => WalkedAt(h, bf, st[k], o)
         /\ Formed(h, bf) <=> \A o \in LiveIn(h) : FormedAt(h, bf, o)
BY DEF Walked, WalkedAt, Formed, FormedAt

\* The innermost release finds the last handle: the object is destroyed from now.
Dies(h, h2, st, st2, o, f) ==
  /\ st # <<>> /\ st[Len(st)].pc = "count" /\ st[Len(st)].o = o
  /\ o \in LiveIn(h) /\ h[o].count = 1
  /\ SavedFor(h, h2, o) /\ h2[o] \in Object
  /\ h2[o].kind = h[o].kind /\ h2[o].cells = h[o].cells
  /\ h2[o].count = 0 /\ h2[o].data = Null /\ h2[o].used = 0 /\ h2[o].cap = 0
  /\ f \in Frame /\ f.o = o /\ f.pc = "children" /\ f.data = h[o].data
  /\ f.rest = IF h[o].kind = "vec" THEN h[o].used ELSE Len(h[o].cells)
  /\ st2 = [st EXCEPT ![Len(st)] = f]

\* An object that begins to be destroyed holds what it held.
LEMMA DieSound ==
  ASSUME NEW h, NEW bf, NEW st, MemorySound(h, bf, st), NEW h2, NEW st2, NEW o, NEW f, Dies(h, h2, st, st2, o, f),
         h[o].data # Null => \A i \in DOMAIN bf[h[o].data] : bf[h[o].data][i] \in Obj <=> i <= h[o].used
  PROVE  /\ MemorySound(h2, bf, st2) /\ LiveIn(h2) = LiveIn(h)
         /\ \A p \in Obj, i \in Nat : HoldsIn(h2, bf, st2, p, i) = HoldsIn(h, bf, st, p, i)
<1> DEFINE n == Len(st)
<1>a. /\ MemoryTyped(h, bf, st) /\ Nested(h, st) /\ Formed(h, bf) /\ Walked(h, bf, st) /\ Kept(h, bf, st)
      /\ st \in Seq(Frame) /\ bf \in [Buffer -> Raw \cup {Freed}]
  BY DEF MemorySound, MemoryTyped
<1>b. /\ st # <<>> /\ st[n].pc = "count" /\ st[n].o = o
      /\ o \in LiveIn(h) /\ o \in Obj /\ h[o].count = 1
      /\ SavedFor(h, h2, o) /\ h2[o] \in Object
      /\ h2[o].kind = h[o].kind /\ h2[o].cells = h[o].cells
      /\ h2[o].count = 0 /\ h2[o].data = Null /\ h2[o].used = 0 /\ h2[o].cap = 0
      /\ f \in Frame /\ f.o = o /\ f.pc = "children" /\ f.data = h[o].data
      /\ f.rest = IF h[o].kind = "vec" THEN h[o].used ELSE Len(h[o].cells)
      /\ \A p \in Obj \ {o} : h2[p] = h[p]
  BY DEF Dies, SavedFor, LiveIn
<1>c. /\ n \in Nat \ {0} /\ DOMAIN st = 1 .. n /\ DOMAIN st2 = 1 .. n /\ st2 \in Seq(Frame) /\ Len(st2) = n
      /\ st2[n] = f /\ \A k \in 1 .. n : k # n => st2[k] = st[k]
  <2>1. st2 = [st EXCEPT ![n] = f]
    BY DEF Dies
  <2>2. n \in Nat \ {0} /\ DOMAIN st = 1 .. n
    BY <1>a, <1>b
  <2>3. n \in DOMAIN st
    BY <2>2
  <2> QED  BY <1>a, <1>b, <2>1, <2>2, <2>3
<1>d. /\ h[o].kind \in {"shared", "vec"} /\ h[o].data \in Buffer \cup {Null} /\ h[o].cells \in Seq(Value)
      /\ h[o].used \in Nat /\ h[o].cap \in Nat
  BY <1>a, <1>b, LiveTyped
<1>e. FormedAt(h, bf, o)
  BY <1>a, <1>b, ByObject
<1> HIDE DEF n
<1>f. \A k \in DOMAIN st : ~Destroys(st, k, o)
  BY <1>a, <1>b DEF Nested
<1>g. /\ \A k, p : Destroys(st2, k, p) <=> Destroys(st, k, p) \/ (k = n /\ p = o)
      /\ \A k, p : Destroys(st, k, p) => k \in DOMAIN st2 /\ st2[k] = st[k] /\ p # o
  <2>1. ~\E p : Destroys(st, n, p)
    BY <1>b DEF Destroys
  <2>2. \A p : Destroys(st2, n, p) <=> p = o
    BY <1>b, <1>c DEF Destroys
  <2>3. \A k, p : k # n => (Destroys(st2, k, p) <=> Destroys(st, k, p))
    BY <1>c DEF Destroys
  <2>4. \A k, p : Destroys(st, k, p) => k \in 1 .. n /\ k # n /\ p # o
    BY <1>c, <1>f, <2>1 DEF Destroys
  <2> QED  BY <1>c, <2>1, <2>2, <2>3, <2>4
<1>1. LiveIn(h2) = LiveIn(h)
  <2>1. h2[o] # Freed
    BY <1>b, FreedIs
  <2> QED  BY <1>b, <2>1 DEF LiveIn
<1>2. MemoryTyped(h2, bf, st2)
  BY <1>a, <1>b, <1>c DEF MemoryTyped, SavedFor
<1>3. Nested(h2, st2)
  <2>1. \A k \in DOMAIN st2 : k < Len(st2) => st2[k].pc = "children"
    <3>1. \A k \in DOMAIN st : k < n => st[k].pc = "children"
      BY <1>a DEF Nested, n
    <3>2. \A k \in 1 .. n : k < n => k # n
      BY <1>c
    <3> QED  BY <1>c, <3>1, <3>2
  <2>2. \A k \in DOMAIN st2 : st2[k].pc = "children" => st2[k].o \in LiveIn(h2)
    <3> SUFFICES ASSUME NEW k \in DOMAIN st2, st2[k].pc = "children" PROVE st2[k].o \in LiveIn(h2)
      OBVIOUS
    <3>1. CASE k = n
      BY <1>1, <1>b, <1>c, <3>1
    <3>2. CASE k # n
      BY <1>1, <1>a, <1>c, <3>2 DEF Nested
    <3> QED  BY <3>1, <3>2
  <2>3. \A j, k \in DOMAIN st2 : \A p \in Obj : Destroys(st2, j, p) /\ Destroys(st2, k, p) => j = k
    <3> SUFFICES ASSUME NEW j \in DOMAIN st2, NEW k \in DOMAIN st2, NEW p \in Obj,
                        Destroys(st2, j, p), Destroys(st2, k, p)
                 PROVE  j = k
      OBVIOUS
    <3>1. CASE p = o
      BY <1>g, <3>1
    <3>2. CASE p # o
      BY <1>a, <1>c, <1>g, <3>2 DEF Nested
    <3> QED  BY <3>1, <3>2
  <2>4. \A p \in LiveIn(h2) : h2[p].count = 0 <=> \E k \in DOMAIN st2 : Destroys(st2, k, p)
    <3> SUFFICES ASSUME NEW p \in LiveIn(h2)
                 PROVE  h2[p].count = 0 <=> \E k \in DOMAIN st2 : Destroys(st2, k, p)
      OBVIOUS
    <3>1. CASE p = o
      <4>1. n \in DOMAIN st2 /\ Destroys(st2, n, o)
        BY <1>c, <1>g
      <4> QED  BY <1>b, <3>1, <4>1
    <3>2. CASE p # o
      <4>1. h2[p] = h[p] /\ p \in LiveIn(h)
        BY <1>1, <1>b, <3>2 DEF LiveIn
      <4> QED  BY <1>a, <1>c, <1>g, <3>2, <4>1 DEF Nested
    <3> QED  BY <3>1, <3>2
  <2> QED  BY <2>1, <2>2, <2>3, <2>4 DEF Nested
<1>4. Formed(h2, bf)
  <2> SUFFICES ASSUME NEW p \in LiveIn(h2) PROVE FormedAt(h2, bf, p)
    BY ByObject
  <2>1. CASE p = o
    <3>1. MaxWord \in Nat
      BY RuntimeAssumption
    <3> QED  BY <1>b, <1>e, <2>1, <3>1 DEF FormedAt
  <2>2. CASE p # o
    <3>1. h2[p] = h[p] /\ p \in LiveIn(h)
      BY <1>1, <1>b, <2>2 DEF LiveIn
    <3>2. FormedAt(h, bf, p)
      BY <1>a, <3>1, ByObject
    <3> QED  BY <3>1, <3>2 DEF FormedAt
  <2> QED  BY <2>1, <2>2
<1>5. Walked(h2, bf, st2)
  <2> SUFFICES ASSUME NEW k \in DOMAIN st2, NEW p \in LiveIn(h2), Destroys(st2, k, p)
               PROVE  WalkedAt(h2, bf, st2[k], p)
    BY ByObject
  <2>1. CASE p = o
    <3>1. k = n /\ st2[k] = f
      BY <1>c, <1>g, <2>1
    <3>2. h[o].kind = "shared" => f.data = Null /\ f.rest <= Len(h[o].cells)
      <4>1. Len(h[o].cells) \in Nat
        BY <1>d
      <4> QED  BY <1>b, <1>e, <4>1 DEF FormedAt
    <3>3. h[o].kind = "vec" /\ h[o].data = Null => f.rest = 0
      BY <1>b, <1>d, <1>e DEF FormedAt
    <3>4. h[o].kind = "vec" /\ h[o].data # Null =>
            /\ bf[f.data] # Freed
            /\ f.rest <= Len(bf[f.data]) /\ Len(bf[f.data]) <= MaxWord
            /\ \A i \in DOMAIN bf[f.data] : bf[f.data][i] \in Obj <=> i <= f.rest
      BY <1>b, <1>e DEF FormedAt
    <3> QED  BY <1>b, <2>1, <3>1, <3>2, <3>3, <3>4 DEF WalkedAt
  <2>2. CASE p # o
    <3>1. h2[p] = h[p] /\ p \in LiveIn(h) /\ Destroys(st, k, p) /\ st2[k] = st[k] /\ k \in DOMAIN st
      BY <1>1, <1>b, <1>c, <1>g, <2>2 DEF LiveIn
    <3>2. WalkedAt(h, bf, st[k], p)
      BY <1>a, <3>1, ByObject
    <3> QED  BY <3>1, <3>2 DEF WalkedAt
  <2> QED  BY <2>1, <2>2
<1>h. \A p \in Obj, b \in Buffer : Keeps(h2, st2, p, b) <=> Keeps(h, st, p, b)
  <2> SUFFICES ASSUME NEW p \in Obj, NEW b \in Buffer PROVE Keeps(h2, st2, p, b) <=> Keeps(h, st, p, b)
    OBVIOUS
  <2>1. CASE p = o
    <3>1. VecIn(h2, o) <=> VecIn(h, o)
      BY <1>1, <1>b DEF VecIn
    <3>2. Keeps(h2, st2, o, b) <=> VecIn(h, o) /\ f.data = b
      BY <1>b, <1>c, <1>g, <3>1, FreedIs DEF Keeps
    <3>3. Keeps(h, st, o, b) <=> VecIn(h, o) /\ h[o].data = b
      BY <1>f DEF Keeps
    <3> QED  BY <1>b, <2>1, <3>2, <3>3
  <2>2. CASE p # o
    <3>1. h2[p] = h[p] /\ (VecIn(h2, p) <=> VecIn(h, p))
      BY <1>1, <1>b, <2>2 DEF VecIn
    <3>2. (\E k \in DOMAIN st2 : Destroys(st2, k, p) /\ st2[k].data = b)
           <=> \E k \in DOMAIN st : Destroys(st, k, p) /\ st[k].data = b
      BY <1>c, <1>g, <2>2
    <3> QED  BY <3>1, <3>2 DEF Keeps
  <2> QED  BY <2>1, <2>2
<1>6. Kept(h2, bf, st2)
  BY <1>a, <1>h DEF Kept
<1>7. MemorySound(h2, bf, st2)
  BY <1>2, <1>3, <1>4, <1>5, <1>6 DEF MemorySound
<1>8. ASSUME NEW p \in Obj, NEW i \in Nat PROVE HoldsIn(h2, bf, st2, p, i) = HoldsIn(h, bf, st, p, i)
  <2>1. CASE p = o
    <3>0. n \in DOMAIN st2 /\ Destroys(st2, n, o) /\ st2[n] = f
      BY <1>c, <1>g
    <3>1. CASE h[o].kind = "vec"
      <4>1. VecIn(h, o) /\ VecIn(h2, o)
        BY <1>1, <1>b, <3>1 DEF VecIn
      <4>2. HoldsIn(h, bf, st, o, i) = IF h[o].data = Null THEN Null ELSE Handles(bf[h[o].data], i)
        BY <1>a, <1>b, <4>1, HoldsIs
      <4>3. HoldsIn(h2, bf, st2, o, i) = IF st2[n].data = Null THEN Null ELSE Handles(bf[st2[n].data], i)
        BY <1>3, <1>b, <3>0, <4>1, HoldsIs
      <4> QED  BY <1>b, <2>1, <3>0, <4>2, <4>3
    <3>2. CASE h[o].kind = "shared"
      <4>1. SharedIn(h, o) /\ SharedIn(h2, o)
        BY <1>1, <1>b, <3>2 DEF SharedIn
      <4>2. HoldsIn(h, bf, st, o, i) = Handles(h[o].cells, i)
        BY <1>a, <1>b, <4>1, HoldsIs
      <4>3. HoldsIn(h2, bf, st2, o, i) = IF i > st2[n].rest THEN Null ELSE Handles(h2[o].cells, i)
        BY <1>3, <1>b, <3>0, <4>1, HoldsIs
      <4>4. st2[n].rest = Len(h[o].cells) /\ h2[o].cells = h[o].cells
        BY <1>b, <3>0, <3>2
      <4>5. i > Len(h[o].cells) => Handles(h[o].cells, i) = Null
        BY <1>d DEF Handles
      <4> QED  BY <2>1, <4>2, <4>3, <4>4, <4>5
    <3> QED  BY <1>d, <3>1, <3>2
  <2>2. CASE p # o /\ h[p] = Freed
    BY <1>a, <1>b, <1>3, <2>2, HoldsIs
  <2>3. CASE p # o /\ h[p] # Freed
    <3>1. p \in LiveIn(h) /\ p \in LiveIn(h2) /\ h2[p] = h[p]
      BY <1>1, <1>b, <2>3 DEF LiveIn
    <3>2. \A k \in DOMAIN st : Destroys(st, k, p) => k \in DOMAIN st2 /\ st2[k] = st[k]
      BY <1>g
    <3> QED  BY <1>a, <1>3, <3>1, <3>2, HoldsAlike
  <2> QED  BY <2>1, <2>2, <2>3
<1> QED  BY <1>1, <1>7, <1>8

\* A destructor takes the last cell that it has not released yet, the r-th.
Takes(h, bf, bf2, st, st2, o, r) ==
  /\ st # <<>> /\ st[Len(st)].pc = "children" /\ st[Len(st)].o = o
  /\ r = st[Len(st)].rest /\ r > 0
  /\ st2 = [st EXCEPT ![Len(st)].rest = r - 1]
  /\ IF h[o].kind = "vec"
     THEN /\ bf2 \in [Buffer -> Raw \cup {Freed}]
          /\ \A b \in Buffer : b # st[Len(st)].data => bf2[b] = bf[b]
          /\ bf2[st[Len(st)].data] = [bf[st[Len(st)].data] EXCEPT ![r] = Null]
     ELSE bf2 = bf

\* A destructor that takes its next child empties that one cell.
LEMMA TakeSound ==
  ASSUME NEW h, NEW bf, NEW st, MemorySound(h, bf, st), NEW bf2, NEW st2, NEW o, NEW r, Takes(h, bf, bf2, st, st2, o, r)
  PROVE  /\ MemorySound(h, bf2, st2) /\ o \in LiveIn(h) /\ r \in 1 .. MaxWord
         /\ \A k \in DOMAIN st2 : st2[k].pc = "children"
         /\ LET v == IF h[o].kind = "vec" THEN bf[st[Len(st)].data][r] ELSE h[o].cells[r]
            IN  v \in Value /\ HoldsIn(h, bf, st, o, r) = v
         /\ \A p \in Obj, i \in Nat :
              HoldsIn(h, bf2, st2, p, i) = IF p = o /\ i = r THEN Null ELSE HoldsIn(h, bf, st, p, i)
<1> DEFINE n == Len(st)
           d == st[n].data
<1>a. /\ MemoryTyped(h, bf, st) /\ Nested(h, st) /\ Formed(h, bf) /\ Walked(h, bf, st) /\ Kept(h, bf, st)
      /\ st \in Seq(Frame) /\ bf \in [Buffer -> Raw \cup {Freed}]
  BY DEF MemorySound, MemoryTyped
<1>b. /\ st # <<>> /\ st[n].pc = "children" /\ st[n].o = o /\ r = st[n].rest /\ r > 0
      /\ h[o].kind = "vec" => /\ bf2 \in [Buffer -> Raw \cup {Freed}]
                              /\ \A b \in Buffer : b # d => bf2[b] = bf[b]
                              /\ bf2[d] = [bf[d] EXCEPT ![r] = Null]
      /\ h[o].kind # "vec" => bf2 = bf
  BY DEF Takes
<1>c. n \in Nat \ {0} /\ DOMAIN st = 1 .. n /\ n \in DOMAIN st /\ st[n] \in Frame
  BY <1>a, <1>b
<1>d. r \in Nat /\ r - 1 \in Nat /\ r - 1 < r /\ d \in Buffer \cup {Null}
  BY <1>a, <1>b, <1>c, LiveTyped
<1>e. /\ DOMAIN st2 = 1 .. n /\ st2 \in Seq(Frame) /\ Len(st2) = n
      /\ \A k \in 1 .. n : k # n => st2[k] = st[k]
      /\ st2[n].pc = "children" /\ st2[n].o = o /\ st2[n].rest = r - 1 /\ st2[n].data = d
  <2>1. st2 = [st EXCEPT ![n] = [st[n] EXCEPT !.rest = r - 1]]
    BY DEF Takes
  <2> DEFINE f == [st[n] EXCEPT !.rest = r - 1]
  <2>2. f \in Frame /\ f.pc = "children" /\ f.o = o /\ f.rest = r - 1 /\ f.data = d
    BY <1>b, <1>c, <1>d DEF Frame
  <2> HIDE DEF f
  <2>3. /\ DOMAIN st2 = 1 .. n /\ st2 \in Seq(Frame) /\ Len(st2) = n /\ st2[n] = f
        /\ \A k \in 1 .. n : k # n => st2[k] = st[k]
    BY <1>a, <1>c, <2>1, <2>2 DEF f
  <2> QED  BY <2>2, <2>3
<1>f. \A k \in DOMAIN st : k < n => st[k].pc = "children"
  BY <1>a DEF Nested
<1>g. o \in LiveIn(h) /\ o \in Obj /\ Destroys(st, n, o) /\ h[o].count = 0
  <2>1. o \in LiveIn(h) /\ Destroys(st, n, o)
    BY <1>a, <1>b, <1>c DEF Nested, Destroys
  <2> QED  BY <1>a, <1>c, <2>1 DEF Nested, LiveIn
<1>h. WalkedAt(h, bf, st[n], o)
  BY <1>a, <1>c, <1>g, ByObject
<1>i. /\ h[o].kind \in {"shared", "vec"} /\ h[o].cells \in Seq(Value)
      /\ MaxWord \in Nat /\ FormedAt(h, bf, o)
  BY <1>a, <1>g, LiveTyped, ByObject, RuntimeAssumption
<1>j. h[o].kind = "vec" =>
        /\ d \in Buffer /\ bf[d] # Freed /\ bf[d] \in Seq(Value \cup {Junk})
        /\ r \in 1 .. Len(bf[d]) /\ Len(bf[d]) <= MaxWord /\ Len(bf[d]) \in Nat
        /\ \A i \in DOMAIN bf[d] : bf[d][i] \in Obj <=> i <= r
        /\ bf2[d] \in Seq(Value \cup {Junk}) /\ Len(bf2[d]) = Len(bf[d]) /\ bf2[d] # Freed
        /\ DOMAIN bf2[d] = 1 .. Len(bf[d]) /\ DOMAIN bf[d] = 1 .. Len(bf[d])
        /\ \A i \in 1 .. Len(bf[d]) : bf2[d][i] = IF i = r THEN Null ELSE bf[d][i]
  <2> SUFFICES ASSUME h[o].kind = "vec"
               PROVE  /\ d \in Buffer /\ bf[d] # Freed /\ bf[d] \in Seq(Value \cup {Junk})
                      /\ r \in 1 .. Len(bf[d]) /\ Len(bf[d]) <= MaxWord /\ Len(bf[d]) \in Nat
                      /\ \A i \in DOMAIN bf[d] : bf[d][i] \in Obj <=> i <= r
                      /\ bf2[d] \in Seq(Value \cup {Junk}) /\ Len(bf2[d]) = Len(bf[d]) /\ bf2[d] # Freed
                      /\ DOMAIN bf2[d] = 1 .. Len(bf[d]) /\ DOMAIN bf[d] = 1 .. Len(bf[d])
                      /\ \A i \in 1 .. Len(bf[d]) : bf2[d][i] = IF i = r THEN Null ELSE bf[d][i]
    OBVIOUS
  <2>1. d # Null
    BY <1>b, <1>d, <1>h DEF WalkedAt
  <2>2. d \in Buffer /\ bf[d] # Freed /\ r <= Len(bf[d]) /\ Len(bf[d]) <= MaxWord
        /\ \A i \in DOMAIN bf[d] : bf[d][i] \in Obj <=> i <= r
    BY <1>b, <1>d, <1>h, <2>1 DEF WalkedAt
  <2>3. bf[d] \in Seq(Value \cup {Junk})
    BY <1>a, <2>2, LiveTyped
  <2> DEFINE c == bf[d]
             c2 == bf2[d]
  <2>4. c2 = [c EXCEPT ![r] = Null] /\ c \in Seq(Value \cup {Junk}) /\ Null \in Value \cup {Junk}
    BY <1>b, <2>3 DEF Value
  <2>5. r \in 1 .. Len(c)
    BY <1>b, <1>d, <2>2, <2>3
  <2> HIDE DEF c, c2
  <2>6. /\ c2 \in Seq(Value \cup {Junk}) /\ Len(c2) = Len(c) /\ Len(c) \in Nat
        /\ DOMAIN c2 = 1 .. Len(c) /\ DOMAIN c = 1 .. Len(c)
        /\ \A i \in 1 .. Len(c) : c2[i] = IF i = r THEN Null ELSE c[i]
    BY <2>4, <2>5
  <2>7. c2 # Freed
    BY <2>6, FreedIs DEF Raw
  <2> QED  BY <2>2, <2>3, <2>5, <2>6, <2>7 DEF c, c2
<1> HIDE DEF n, d
<1>k. \A k, p : Destroys(st2, k, p) <=> Destroys(st, k, p)
  BY <1>b, <1>c, <1>e DEF Destroys
<1>l. \A k \in DOMAIN st : \A p \in Obj : Destroys(st, k, p) => (k = n <=> p = o)
  BY <1>a, <1>b, <1>c, <1>g DEF Nested, Destroys
<1>m. \A p, b : Keeps(h, st2, p, b) <=> Keeps(h, st, p, b)
  <2> SUFFICES ASSUME NEW p, NEW b PROVE Keeps(h, st2, p, b) <=> Keeps(h, st, p, b)
    OBVIOUS
  <2>1. \A k \in 1 .. n : st2[k].data = st[k].data
    BY <1>e DEF d
  <2> QED  BY <1>c, <1>e, <1>k, <2>1 DEF Keeps
<1>n. \A p \in Obj \ {o}, b \in Buffer : Keeps(h, st, p, b) => bf2[b] = bf[b]
  <2> SUFFICES ASSUME NEW p \in Obj \ {o}, NEW b \in Buffer, Keeps(h, st, p, b), bf2[b] # bf[b] PROVE FALSE
    OBVIOUS
  <2>1. h[o].kind = "vec" /\ b = d
    BY <1>b
  <2>2. Keeps(h, st, o, b)
    BY <1>c, <1>g, <2>1 DEF Keeps, VecIn, d
  <2> QED  BY <1>a, <1>g, <2>2, OtherBuffer
<1>1. MemoryTyped(h, bf2, st2)
  <2>1. bf2 \in [Buffer -> Raw \cup {Freed}]
    BY <1>a, <1>b
  <2> QED  BY <1>a, <1>e, <2>1 DEF MemoryTyped
<1>2. \A k \in DOMAIN st2 : st2[k].pc = "children"
  BY <1>c, <1>e, <1>f
<1>3. Nested(h, st2)
  <2>1. \A k \in DOMAIN st2 : st2[k].o = st[k].o /\ st2[k].pc = st[k].pc
    BY <1>b, <1>c, <1>e
  <2>2. \A j, k \in DOMAIN st2 : \A p \in Obj : Destroys(st2, j, p) /\ Destroys(st2, k, p) => j = k
    BY <1>a, <1>c, <1>e, <1>k DEF Nested
  <2>3. \A p \in LiveIn(h) : h[p].count = 0 <=> \E k \in DOMAIN st2 : Destroys(st2, k, p)
    BY <1>a, <1>c, <1>e, <1>k DEF Nested
  <2>4. \A k \in DOMAIN st2 : st2[k].pc = "children" => st2[k].o \in LiveIn(h)
    BY <1>a, <1>c, <1>e, <2>1 DEF Nested
  <2> QED  BY <1>2, <2>2, <2>3, <2>4 DEF Nested
<1>4. Formed(h, bf2)
  <2> SUFFICES ASSUME NEW p \in LiveIn(h) PROVE FormedAt(h, bf2, p)
    BY ByObject
  <2>0. FormedAt(h, bf, p) /\ p \in Obj /\ h[p].data \in Buffer \cup {Null}
    BY <1>a, ByObject, LiveTyped DEF LiveIn
  <2>1. CASE p = o
    BY <1>g, <2>0, <2>1 DEF FormedAt
  <2>2. CASE p # o
    <3>1. h[p].kind = "vec" /\ h[p].data # Null => bf2[h[p].data] = bf[h[p].data]
      <4> SUFFICES ASSUME h[p].kind = "vec", h[p].data # Null PROVE bf2[h[p].data] = bf[h[p].data]
        OBVIOUS
      <4>1. h[p].data \in Buffer /\ Keeps(h, st, p, h[p].data)
        BY <2>0 DEF Keeps, VecIn
      <4> QED  BY <1>n, <2>0, <2>2, <4>1
    <3> QED  BY <2>0, <3>1 DEF FormedAt
  <2> QED  BY <2>1, <2>2
<1>5. Walked(h, bf2, st2)
  <2> SUFFICES ASSUME NEW k \in DOMAIN st2, NEW p \in LiveIn(h), Destroys(st2, k, p)
               PROVE  WalkedAt(h, bf2, st2[k], p)
    BY ByObject
  <2>0. k \in DOMAIN st /\ Destroys(st, k, p) /\ p \in Obj
    BY <1>c, <1>e, <1>k DEF LiveIn
  <2>1. CASE p = o
    <3>1. st2[k].rest = r - 1 /\ st2[k].data = d
      BY <1>e, <1>l, <2>0, <2>1
    <3>2. h[o].kind = "shared" => d = Null /\ r - 1 <= Len(h[o].cells)
      <4>1. Len(h[o].cells) \in Nat
        BY <1>i
      <4> QED  BY <1>b, <1>d, <1>h, <4>1 DEF WalkedAt, d
    <3>3. h[o].kind = "vec" =>
            /\ d # Null /\ bf2[d] # Freed /\ r - 1 <= Len(bf2[d]) /\ Len(bf2[d]) <= MaxWord
            /\ \A i \in DOMAIN bf2[d] : bf2[d][i] \in Obj <=> i <= r - 1
      <4> SUFFICES ASSUME h[o].kind = "vec"
                   PROVE  /\ d # Null /\ bf2[d] # Freed /\ r - 1 <= Len(bf2[d]) /\ Len(bf2[d]) <= MaxWord
                          /\ \A i \in DOMAIN bf2[d] : bf2[d][i] \in Obj <=> i <= r - 1
        OBVIOUS
      <4>1. d # Null /\ bf2[d] # Freed /\ r - 1 <= Len(bf2[d]) /\ Len(bf2[d]) <= MaxWord
        BY <1>d, <1>j, FreedIs
      <4>2. ASSUME NEW i \in DOMAIN bf2[d] PROVE bf2[d][i] \in Obj <=> i <= r - 1
        <5>1. i \in 1 .. Len(bf[d]) /\ i \in DOMAIN bf[d] /\ i \in Nat
          BY <1>j, <4>2
        <5>2. CASE i = r
          BY <1>d, <1>j, <5>1, <5>2, FreedIs
        <5>3. CASE i # r
          <6>1. bf2[d][i] = bf[d][i] /\ (bf[d][i] \in Obj <=> i <= r)
            BY <1>j, <5>1, <5>3
          <6> QED  BY <1>d, <5>1, <5>3, <6>1
        <5> QED  BY <5>2, <5>3
      <4> QED  BY <4>1, <4>2
    <3> QED  BY <2>1, <3>1, <3>2, <3>3 DEF WalkedAt
  <2>2. CASE p # o
    <3>1. k # n /\ st2[k] = st[k] /\ WalkedAt(h, bf, st[k], p) /\ st[k].data \in Buffer \cup {Null}
      BY <1>a, <1>c, <1>e, <1>l, <2>0, <2>2, ByObject, LiveTyped
    <3>2. h[p].kind = "vec" /\ st[k].data # Null => bf2[st[k].data] = bf[st[k].data]
      <4> SUFFICES ASSUME h[p].kind = "vec", st[k].data # Null PROVE bf2[st[k].data] = bf[st[k].data]
        OBVIOUS
      <4>1. st[k].data \in Buffer /\ Keeps(h, st, p, st[k].data)
        BY <2>0, <3>1 DEF Keeps, VecIn
      <4> QED  BY <1>n, <2>0, <2>2, <4>1
    <3> QED  BY <3>1, <3>2 DEF WalkedAt
  <2> QED  BY <2>1, <2>2
<1>6. Kept(h, bf2, st2)
  <2>1. ASSUME NEW b \in Buffer, bf2[b] # Freed PROVE bf[b] # Freed
    BY <1>b, <1>j, <2>1
  <2> QED  BY <1>a, <1>m, <2>1 DEF Kept
<1>7. MemorySound(h, bf2, st2)
  BY <1>1, <1>3, <1>4, <1>5, <1>6 DEF MemorySound
<1>8. ASSUME NEW p \in Obj \ {o}, NEW i \in Nat PROVE HoldsIn(h, bf2, st2, p, i) = HoldsIn(h, bf, st, p, i)
  <2>1. CASE h[p] = Freed
    BY <1>a, <1>3, <2>1, HoldsIs
  <2>2. CASE h[p] # Freed
    <3>1. p \in LiveIn(h)
      BY <2>2 DEF LiveIn
    <3>2. \A k \in DOMAIN st : Destroys(st, k, p) => k \in DOMAIN st2 /\ st2[k] = st[k]
      BY <1>c, <1>e, <1>l
    <3>3. \A b \in Buffer : Keeps(h, st, p, b) => bf2[b] = bf[b]
      BY <1>n
    <3> QED  BY <1>a, <1>3, <3>1, <3>2, <3>3, HoldsAlike
  <2> QED  BY <2>1, <2>2
<1>o. n \in DOMAIN st2 /\ Destroys(st2, n, o)
  BY <1>c, <1>e, <1>g, <1>k
<1>9. ASSUME NEW i \in Nat, h[o].kind = "vec"
      PROVE  /\ HoldsIn(h, bf, st, o, i) = Handles(bf[d], i)
             /\ HoldsIn(h, bf2, st2, o, i) = Handles(bf2[d], i)
  <2>1. VecIn(h, o)
    BY <1>g, <1>9 DEF VecIn
  <2>2. HoldsIn(h, bf, st, o, i) = IF st[n].data = Null THEN Null ELSE Handles(bf[st[n].data], i)
    BY <1>a, <1>c, <1>g, <2>1, HoldsIs
  <2>3. HoldsIn(h, bf2, st2, o, i) = IF st2[n].data = Null THEN Null ELSE Handles(bf2[st2[n].data], i)
    BY <1>3, <1>g, <1>o, <2>1, HoldsIs
  <2>4. st[n].data = d /\ st2[n].data = d /\ d # Null
    BY <1>9, <1>e, <1>j, FreedIs DEF d
  <2> QED  BY <2>2, <2>3, <2>4
<1>10. ASSUME NEW i \in Nat, h[o].kind = "shared"
       PROVE  /\ HoldsIn(h, bf, st, o, i) = IF i > r THEN Null ELSE Handles(h[o].cells, i)
              /\ HoldsIn(h, bf2, st2, o, i) = IF i > r - 1 THEN Null ELSE Handles(h[o].cells, i)
  <2>1. SharedIn(h, o)
    BY <1>g, <1>10 DEF SharedIn
  <2>2. HoldsIn(h, bf, st, o, i) = IF i > st[n].rest THEN Null ELSE Handles(h[o].cells, i)
    BY <1>a, <1>c, <1>g, <2>1, HoldsIs
  <2>3. HoldsIn(h, bf2, st2, o, i) = IF i > st2[n].rest THEN Null ELSE Handles(h[o].cells, i)
    BY <1>3, <1>g, <1>o, <2>1, HoldsIs
  <2> QED  BY <1>b, <1>e, <2>2, <2>3
<1>11. ASSUME NEW i \in Nat
       PROVE  HoldsIn(h, bf2, st2, o, i) = IF i = r THEN Null ELSE HoldsIn(h, bf, st, o, i)
  <2>1. CASE h[o].kind = "vec"
    <3>1. DOMAIN bf2[d] = DOMAIN bf[d] /\ r \in DOMAIN bf2[d] /\ bf2[d][r] = Null
          /\ \A j \in DOMAIN bf[d] : j # r => bf2[d][j] = bf[d][j]
      BY <1>j, <2>1
    <3>2. Handles(bf2[d], i) = IF i = r THEN Null ELSE Handles(bf[d], i)
      BY <3>1, FreedIs DEF Handles
    <3> QED  BY <1>9, <2>1, <3>2
  <2>2. CASE h[o].kind = "shared"
    BY <1>10, <1>d, <2>2
  <2> QED  BY <1>i, <2>1, <2>2
<1>12. LET v == IF h[o].kind = "vec" THEN bf[d][r] ELSE h[o].cells[r]
       IN  v \in Value /\ HoldsIn(h, bf, st, o, r) = v
  <2>1. CASE h[o].kind = "vec"
    <3>1. r \in DOMAIN bf[d] /\ bf[d][r] \in Obj
      BY <1>d, <1>j, <2>1
    <3>2. Handles(bf[d], r) = bf[d][r]
      BY <3>1 DEF Handles
    <3> QED  BY <1>9, <1>d, <2>1, <3>1, <3>2 DEF Value
  <2>2. CASE h[o].kind = "shared"
    <3>1. r \in DOMAIN h[o].cells
      <4>1. Len(h[o].cells) \in Nat /\ DOMAIN h[o].cells = 1 .. Len(h[o].cells)
        BY <1>i
      <4> QED  BY <1>b, <1>d, <1>h, <2>2, <4>1 DEF WalkedAt, n
    <3>2. h[o].cells[r] \in Value
      BY <1>i, <3>1
    <3>3. Handles(h[o].cells, r) = h[o].cells[r]
      BY <3>1, <3>2 DEF Handles, Value
    <3>4. HoldsIn(h, bf, st, o, r) = Handles(h[o].cells, r)
      BY <1>10, <1>d, <2>2
    <3> QED  BY <2>2, <3>2, <3>3, <3>4
  <2> QED  BY <1>i, <2>1, <2>2
<1>13. r \in 1 .. MaxWord
  <2>1. CASE h[o].kind = "vec"
    BY <1>d, <1>i, <1>j, <2>1
  <2>2. CASE h[o].kind = "shared"
    <3>1. Len(h[o].cells) \in Nat /\ Len(h[o].cells) <= MaxWord /\ r <= Len(h[o].cells)
      BY <1>b, <1>h, <1>i, <2>2 DEF WalkedAt, FormedAt
    <3> QED  BY <1>b, <1>d, <1>i, <3>1
  <2> QED  BY <1>i, <2>1, <2>2
<1>14. \A p \in Obj, i \in Nat :
         HoldsIn(h, bf2, st2, p, i) = IF p = o /\ i = r THEN Null ELSE HoldsIn(h, bf, st, p, i)
  BY <1>8, <1>11
<1> QED  BY <1>2, <1>7, <1>12, <1>13, <1>14, <1>g DEF d, n

\* Nothing is left to release: the object and its buffer are freed.
Frees(h, bf, h2, bf2, st, o) ==
  /\ st # <<>> /\ st[Len(st)].pc = "children" /\ st[Len(st)].o = o /\ st[Len(st)].rest = 0
  /\ SavedFor(h, h2, o) /\ h2[o] = Freed
  /\ bf2 = [b \in Buffer |-> IF b = st[Len(st)].data THEN Freed ELSE bf[b]]

\* A destructor that is done frees an object whose cells are all empty.
LEMMA FreeSound ==
  ASSUME NEW h, NEW bf, NEW st, MemorySound(h, bf, st), NEW h2, NEW bf2, NEW o, Frees(h, bf, h2, bf2, st, o)
  PROVE  /\ MemorySound(h2, bf2, Front(st)) /\ o \in LiveIn(h) /\ LiveIn(h2) = LiveIn(h) \ {o}
         /\ h[o].count = 0
         /\ \A i \in Nat : HoldsIn(h, bf, st, o, i) = Null
         /\ \A p \in Obj, i \in Nat : HoldsIn(h2, bf2, Front(st), p, i) = HoldsIn(h, bf, st, p, i)
<1> DEFINE n == Len(st)
           d == st[n].data
           st2 == Front(st)
<1>a. /\ MemoryTyped(h, bf, st) /\ Nested(h, st) /\ Formed(h, bf) /\ Walked(h, bf, st) /\ Kept(h, bf, st)
      /\ st \in Seq(Frame) /\ bf \in [Buffer -> Raw \cup {Freed}]
  BY DEF MemorySound, MemoryTyped
<1>b. /\ st # <<>> /\ st[n].pc = "children" /\ st[n].o = o /\ st[n].rest = 0
      /\ SavedFor(h, h2, o) /\ h2[o] = Freed
      /\ bf2 = [b \in Buffer |-> IF b = d THEN Freed ELSE bf[b]]
      /\ \A p \in Obj \ {o} : h2[p] = h[p]
  BY DEF Frees, SavedFor
<1>c. /\ st2 \in Seq(Frame) /\ Len(st2) = n - 1 /\ n \in Nat \ {0}
      /\ DOMAIN st2 = 1 .. n - 1 /\ DOMAIN st = 1 .. n /\ n \in DOMAIN st /\ st[n] \in Frame
      /\ \A k \in 1 .. n - 1 : st2[k] = st[k] /\ k \in DOMAIN st /\ k # n /\ k < n
      /\ \A k \in 1 .. n : k # n => k \in 1 .. n - 1
  <2>1. /\ st2 \in Seq(Frame) /\ Len(st2) = n - 1 /\ n \in Nat \ {0}
        /\ DOMAIN st2 = 1 .. n - 1 /\ DOMAIN st = 1 .. n
        /\ \A k \in 1 .. n - 1 : st2[k] = st[k]
    BY <1>a, <1>b, FrontIs
  <2>2. n \in DOMAIN st
    BY <2>1
  <2>3. /\ \A k \in 1 .. n - 1 : k \in 1 .. n /\ k # n /\ k < n
        /\ \A k \in 1 .. n : k # n => k \in 1 .. n - 1
    BY <2>1
  <2> HIDE DEF st2, n
  <2> QED  BY <1>a, <2>1, <2>2, <2>3
<1>d. d \in Buffer \cup {Null} /\ \A k \in DOMAIN st : k < n => st[k].pc = "children"
  BY <1>a, <1>b, <1>c, LiveTyped DEF Nested
<1>g. o \in LiveIn(h) /\ o \in Obj /\ Destroys(st, n, o) /\ h[o].count = 0
  <2>1. o \in LiveIn(h) /\ Destroys(st, n, o)
    BY <1>a, <1>b, <1>c DEF Nested, Destroys
  <2> QED  BY <1>a, <1>c, <2>1 DEF Nested, LiveIn
<1>h. WalkedAt(h, bf, st[n], o) /\ h[o].kind \in {"shared", "vec"}
  BY <1>a, <1>c, <1>g, ByObject, LiveTyped
<1> HIDE DEF n, d, st2
<1>k. \A k, p : Destroys(st2, k, p) <=> Destroys(st, k, p) /\ k # n
  BY <1>c DEF Destroys
<1>l. \A k \in DOMAIN st : \A p \in Obj : Destroys(st, k, p) => (k = n <=> p = o)
  BY <1>a, <1>b, <1>c, <1>g DEF Nested, Destroys
<1>m. \A p \in Obj \ {o}, b \in Buffer : Keeps(h, st, p, b) => bf2[b] = bf[b]
  <2> SUFFICES ASSUME NEW p \in Obj \ {o}, NEW b \in Buffer, Keeps(h, st, p, b), bf2[b] # bf[b] PROVE FALSE
    OBVIOUS
  <2>1. b = d /\ d # Null
    BY <1>b, FreedIs
  <2>2. h[o].kind = "vec"
    BY <1>h, <2>1 DEF WalkedAt, d
  <2>3. Keeps(h, st, o, b)
    BY <1>c, <1>g, <2>1, <2>2 DEF Keeps, VecIn, d
  <2> QED  BY <1>a, <1>g, <2>3, OtherBuffer
<1>1. LiveIn(h2) = LiveIn(h) \ {o}
  BY <1>b DEF LiveIn
<1>n. \A p \in LiveIn(h2) : h2[p] = h[p] /\ p \in LiveIn(h) /\ p \in Obj \ {o} /\ p # o
  BY <1>1, <1>b DEF LiveIn
<1>2. MemoryTyped(h2, bf2, st2)
  <2>1. bf2 \in [Buffer -> Raw \cup {Freed}]
    BY <1>a, <1>b
  <2> QED  BY <1>b, <1>c, <2>1 DEF MemoryTyped, SavedFor
<1>3. Nested(h2, st2)
  <2>1. \A k \in DOMAIN st2 : st2[k].pc = "children"
    BY <1>c, <1>d
  <2>2. ASSUME NEW k \in DOMAIN st2 PROVE st2[k].o \in LiveIn(h2)
    <3>1. k \in DOMAIN st /\ k # n /\ st2[k] = st[k] /\ st[k].pc = "children"
      BY <1>c, <1>d
    <3>2. st[k].o \in LiveIn(h) /\ Destroys(st, k, st[k].o) /\ st[k].o \in Obj
      BY <1>a, <3>1 DEF Nested, Destroys, LiveIn
    <3>3. st[k].o # o
      BY <1>l, <3>1, <3>2
    <3> QED  BY <1>1, <3>1, <3>2, <3>3
  <2>3. \A j, k \in DOMAIN st2 : \A p \in Obj : Destroys(st2, j, p) /\ Destroys(st2, k, p) => j = k
    BY <1>a, <1>c, <1>k DEF Nested
  <2>4. \A p \in LiveIn(h2) : h2[p].count = 0 <=> \E k \in DOMAIN st2 : Destroys(st2, k, p)
    <3> SUFFICES ASSUME NEW p \in LiveIn(h2)
                 PROVE  h2[p].count = 0 <=> \E k \in DOMAIN st2 : Destroys(st2, k, p)
      OBVIOUS
    <3>1. h2[p] = h[p] /\ p \in LiveIn(h) /\ p \in Obj /\ p # o
      BY <1>n
    <3>2. h[p].count = 0 <=> \E k \in DOMAIN st : Destroys(st, k, p)
      BY <1>a, <3>1 DEF Nested
    <3>3. (\E k \in DOMAIN st : Destroys(st, k, p)) <=> \E k \in DOMAIN st2 : Destroys(st2, k, p)
      BY <1>c, <1>k, <1>l, <3>1
    <3> QED  BY <3>1, <3>2, <3>3
  <2> QED  BY <2>1, <2>2, <2>3, <2>4 DEF Nested
<1>4. Formed(h2, bf2)
  <2> SUFFICES ASSUME NEW p \in LiveIn(h2) PROVE FormedAt(h2, bf2, p)
    BY ByObject
  <2>1. h2[p] = h[p] /\ p \in LiveIn(h) /\ p \in Obj \ {o}
    BY <1>n
  <2>2. FormedAt(h, bf, p) /\ h[p].data \in Buffer \cup {Null}
    BY <1>a, <2>1, ByObject, LiveTyped
  <2>3. h[p].kind = "vec" /\ h[p].data # Null => bf2[h[p].data] = bf[h[p].data]
    <3> SUFFICES ASSUME h[p].kind = "vec", h[p].data # Null PROVE bf2[h[p].data] = bf[h[p].data]
      OBVIOUS
    <3>1. h[p].data \in Buffer /\ Keeps(h, st, p, h[p].data)
      BY <2>1, <2>2 DEF Keeps, VecIn
    <3> QED  BY <1>m, <2>1, <3>1
  <2> QED  BY <2>1, <2>2, <2>3 DEF FormedAt
<1>5. Walked(h2, bf2, st2)
  <2> SUFFICES ASSUME NEW k \in DOMAIN st2, NEW p \in LiveIn(h2), Destroys(st2, k, p)
               PROVE  WalkedAt(h2, bf2, st2[k], p)
    BY ByObject
  <2>1. h2[p] = h[p] /\ p \in LiveIn(h) /\ p \in Obj \ {o} /\ k \in DOMAIN st /\ Destroys(st, k, p) /\ st2[k] = st[k]
    BY <1>c, <1>k, <1>n
  <2>2. WalkedAt(h, bf, st[k], p) /\ st[k].data \in Buffer \cup {Null}
    BY <1>a, <2>1, ByObject, LiveTyped
  <2>3. h[p].kind = "vec" /\ st[k].data # Null => bf2[st[k].data] = bf[st[k].data]
    <3> SUFFICES ASSUME h[p].kind = "vec", st[k].data # Null PROVE bf2[st[k].data] = bf[st[k].data]
      OBVIOUS
    <3>1. st[k].data \in Buffer /\ Keeps(h, st, p, st[k].data)
      BY <2>1, <2>2 DEF Keeps, VecIn
    <3> QED  BY <1>m, <2>1, <3>1
  <2> QED  BY <2>1, <2>2, <2>3 DEF WalkedAt
<1>o. \A p \in Obj, b \in Buffer : Keeps(h2, st2, p, b) <=> p # o /\ Keeps(h, st, p, b)
  <2> SUFFICES ASSUME NEW p \in Obj, NEW b \in Buffer
               PROVE  Keeps(h2, st2, p, b) <=> p # o /\ Keeps(h, st, p, b)
    OBVIOUS
  <2>1. CASE p = o
    BY <1>1, <2>1 DEF Keeps, VecIn
  <2>2. CASE p # o
    <3>1. h2[p] = h[p] /\ (VecIn(h2, p) <=> VecIn(h, p))
      BY <1>1, <1>b, <2>2 DEF VecIn
    <3>2. (\E k \in DOMAIN st2 : Destroys(st2, k, p) /\ st2[k].data = b)
           <=> \E k \in DOMAIN st : Destroys(st, k, p) /\ st[k].data = b
      BY <1>c, <1>k, <1>l, <2>2
    <3> QED  BY <2>2, <3>1, <3>2 DEF Keeps
  <2> QED  BY <2>1, <2>2
<1>6. Kept(h2, bf2, st2)
  <2>1. ASSUME NEW b \in Buffer, bf2[b] # Freed PROVE \E p \in Obj : Keeps(h2, st2, p, b)
    <3>1. b # d /\ bf[b] # Freed
      BY <1>b, <2>1
    <3>2. PICK p \in Obj : Keeps(h, st, p, b)
      BY <1>a, <3>1 DEF Kept
    <3>3. p # o
      <4> SUFFICES ASSUME p = o PROVE FALSE
        OBVIOUS
      <4>1. h[o].kind = "vec" /\ o \in LiveIn(h)
        BY <3>2 DEF Keeps, VecIn
      <4>2. h[o].data = Null
        <5>1. FormedAt(h, bf, o)
          BY <1>a, <1>g, ByObject
        <5> QED  BY <1>g, <4>1, <5>1 DEF FormedAt
      <4>3. b # Null
        BY FreedIs
      <4>4. PICK k \in DOMAIN st : Destroys(st, k, o) /\ st[k].data = b
        BY <3>2, <4>2, <4>3 DEF Keeps
      <4> QED  BY <1>g, <1>l, <3>1, <4>4 DEF d
    <3> QED  BY <1>o, <3>2, <3>3
  <2>2. \A b \in Buffer : \A p, q \in Obj : Keeps(h2, st2, p, b) /\ Keeps(h2, st2, q, b) => p = q
    BY <1>a, <1>o DEF Kept
  <2> QED  BY <2>1, <2>2 DEF Kept
<1>7. MemorySound(h2, bf2, st2)
  BY <1>2, <1>3, <1>4, <1>5, <1>6 DEF MemorySound
<1>8. ASSUME NEW i \in Nat PROVE HoldsIn(h, bf, st, o, i) = Null
  <2>1. CASE h[o].kind = "shared"
    <3>1. SharedIn(h, o)
      BY <1>g, <2>1 DEF SharedIn
    <3>2. HoldsIn(h, bf, st, o, i) = IF i > st[n].rest THEN Null ELSE Handles(h[o].cells, i)
      BY <1>a, <1>c, <1>g, <3>1, HoldsIs
    <3>3. st[n].rest = 0 /\ (i > 0 \/ i = 0)
      BY <1>b DEF n
    <3>4. Handles(h[o].cells, 0) = Null
      <4>1. h[o].cells \in Seq(Value)
        BY <1>a, <1>g, LiveTyped
      <4>2. 0 \notin DOMAIN h[o].cells
        BY <4>1
      <4> QED  BY <4>2 DEF Handles
    <3> QED  BY <3>2, <3>3, <3>4
  <2>2. CASE h[o].kind = "vec"
    <3>1. VecIn(h, o)
      BY <1>g, <2>2 DEF VecIn
    <3>2. HoldsIn(h, bf, st, o, i) = IF st[n].data = Null THEN Null ELSE Handles(bf[st[n].data], i)
      BY <1>a, <1>c, <1>g, <3>1, HoldsIs
    <3>3. ASSUME st[n].data # Null PROVE Handles(bf[st[n].data], i) = Null
      <4>0. st[n].data \in Buffer /\ bf[st[n].data] # Freed
        BY <1>d, <1>h, <2>2, <3>3 DEF WalkedAt, d
      <4>1. bf[st[n].data] \in Seq(Value \cup {Junk})
        BY <1>a, <4>0, LiveTyped
      <4>2. \A j \in DOMAIN bf[st[n].data] : bf[st[n].data][j] \in Obj <=> j <= 0
        BY <1>b, <1>h, <2>2, <3>3 DEF WalkedAt, n
      <4>3. \A j \in DOMAIN bf[st[n].data] : ~(j <= 0)
        BY <4>1
      <4> QED  BY <4>2, <4>3 DEF Handles
    <3> QED  BY <3>2, <3>3
  <2> QED  BY <1>h, <2>1, <2>2
<1>9. ASSUME NEW p \in Obj, NEW i \in Nat PROVE HoldsIn(h2, bf2, st2, p, i) = HoldsIn(h, bf, st, p, i)
  <2>1. CASE p = o
    BY <1>3, <1>8, <1>b, <2>1, HoldsIs
  <2>2. CASE p # o /\ h[p] = Freed
    <3>1. h2[p] = Freed
      BY <1>b, <2>2
    <3> QED  BY <1>a, <1>3, <2>2, <3>1, HoldsIs
  <2>3. CASE p # o /\ h[p] # Freed
    <3>1. p \in LiveIn(h) /\ p \in LiveIn(h2) /\ h2[p] = h[p]
      BY <1>1, <1>b, <2>3 DEF LiveIn
    <3>2. \A k \in DOMAIN st : Destroys(st, k, p) => k \in DOMAIN st2 /\ st2[k] = st[k]
      BY <1>c, <1>l, <2>3
    <3>3. \A b \in Buffer : Keeps(h, st, p, b) => bf2[b] = bf[b]
      BY <1>m, <2>3
    <3> QED  BY <1>a, <1>3, <3>1, <3>2, <3>3, HoldsAlike
  <2> QED  BY <2>1, <2>2, <2>3
<1> QED  BY <1>1, <1>7, <1>8, <1>9, <1>g DEF st2

\* A Vec gets another buffer, or none.
Rebuffers(h, bf, h2, bf2, o) ==
  /\ VecIn(h, o) /\ h[o].count # 0
  /\ SavedFor(h, h2, o) /\ h2[o] \in Object
  /\ h2[o].kind = "vec" /\ h2[o].count = h[o].count /\ h2[o].cells = h[o].cells
  /\ h2[o].used <= h2[o].cap /\ h2[o].cap <= MaxWord /\ (h2[o].cap = 0 <=> h2[o].data = Null)
  /\ bf2 \in [Buffer -> Raw \cup {Freed}]
  /\ \A b \in Buffer : b # h[o].data /\ b # h2[o].data => bf2[b] = bf[b]
  /\ h[o].data # Null /\ h[o].data # h2[o].data => bf2[h[o].data] = Freed
  /\ h2[o].data # Null => /\ bf2[h2[o].data] # Freed /\ Len(bf2[h2[o].data]) = h2[o].cap
                          /\ h2[o].data = h[o].data \/ bf[h2[o].data] = Freed

\* A Vec that gets other storage has the cells of that storage, and nothing else
\* changes.
LEMMA RebufferSound ==
  ASSUME NEW h, NEW bf, NEW st, MemorySound(h, bf, st), NEW h2, NEW bf2, NEW o, Rebuffers(h, bf, h2, bf2, o)
  PROVE  /\ MemorySound(h2, bf2, st) /\ LiveIn(h2) = LiveIn(h)
         /\ \A p \in Obj \ {o}, i \in Nat : HoldsIn(h2, bf2, st, p, i) = HoldsIn(h, bf, st, p, i)
         /\ \A i \in Nat : HoldsIn(h2, bf2, st, o, i) = Handles(Storage(h2, bf2, o), i)
         /\ \A i \in Nat : HoldsIn(h, bf, st, o, i) = Handles(Storage(h, bf, o), i)
<1>a. /\ MemoryTyped(h, bf, st) /\ Nested(h, st) /\ Formed(h, bf) /\ Walked(h, bf, st) /\ Kept(h, bf, st)
      /\ bf \in [Buffer -> Raw \cup {Freed}]
  BY DEF MemorySound, MemoryTyped
<1>b. /\ VecIn(h, o) /\ o \in LiveIn(h) /\ o \in Obj /\ h[o].kind = "vec" /\ h[o].count # 0
      /\ SavedFor(h, h2, o) /\ h2[o] \in Object /\ \A p \in Obj \ {o} : h2[p] = h[p]
      /\ h2[o].kind = "vec" /\ h2[o].count = h[o].count /\ h2[o].cells = h[o].cells
      /\ h2[o].used <= h2[o].cap /\ h2[o].cap <= MaxWord /\ (h2[o].cap = 0 <=> h2[o].data = Null)
  BY DEF Rebuffers, VecIn, SavedFor, LiveIn
<1>c. /\ bf2 \in [Buffer -> Raw \cup {Freed}]
      /\ \A b \in Buffer : b # h[o].data /\ b # h2[o].data => bf2[b] = bf[b]
      /\ h[o].data # Null /\ h[o].data # h2[o].data => bf2[h[o].data] = Freed
      /\ h2[o].data # Null => /\ bf2[h2[o].data] # Freed /\ Len(bf2[h2[o].data]) = h2[o].cap
                              /\ h2[o].data = h[o].data \/ bf[h2[o].data] = Freed
  BY DEF Rebuffers
<1>d. h[o].data \in Buffer \cup {Null} /\ h2[o].data \in Buffer \cup {Null}
  BY <1>a, <1>b, LiveTyped DEF Object
<1>f. \A k \in DOMAIN st : ~Destroys(st, k, o)
  BY <1>a, <1>b DEF Nested
<1>1. LiveIn(h2) = LiveIn(h)
  <2>1. h2[o] # Freed
    BY <1>b, FreedIs
  <2> QED  BY <1>b, <2>1 DEF LiveIn
<1>2. MemoryTyped(h2, bf2, st)
  BY <1>a, <1>b, <1>c DEF MemoryTyped, SavedFor
<1>n. \A p \in LiveIn(h2) : p # o => h2[p] = h[p] /\ p \in LiveIn(h) /\ p \in Obj \ {o}
  BY <1>1, <1>b DEF LiveIn
<1>3. Nested(h2, st)
  <2>1. \A p \in LiveIn(h2) : h2[p].count = 0 <=> h[p].count = 0
    BY <1>b, <1>n
  <2> QED  BY <1>a, <1>1, <2>1 DEF Nested
\* A buffer that another Vec keeps is allocated, so it is not the new one.
<1>e. \A p \in LiveIn(h), b \in Buffer : Keeps(h, st, p, b) => bf[b] # Freed
  <2> SUFFICES ASSUME NEW p \in LiveIn(h), NEW b \in Buffer, Keeps(h, st, p, b) PROVE bf[b] # Freed
    OBVIOUS
  <2>1. p \in LiveIn(h) /\ h[p].kind = "vec" /\ b # Null
    BY FreedIs DEF Keeps, VecIn
  <2>2. CASE h[p].data = b
    <3>1. FormedAt(h, bf, p)
      BY <1>a, <2>1, ByObject
    <3> QED  BY <2>1, <2>2, <3>1 DEF FormedAt
  <2>3. CASE \E k \in DOMAIN st : Destroys(st, k, p) /\ st[k].data = b
    <3>1. PICK k \in DOMAIN st : Destroys(st, k, p) /\ st[k].data = b
      BY <2>3
    <3>2. WalkedAt(h, bf, st[k], p)
      BY <1>a, <2>1, <3>1, ByObject
    <3> QED  BY <2>1, <3>1, <3>2 DEF WalkedAt
  <2> QED  BY <2>2, <2>3 DEF Keeps
<1>g. \A p \in Obj \ {o}, b \in Buffer : Keeps(h, st, p, b) => b # h[o].data /\ b # h2[o].data /\ bf2[b] = bf[b]
  <2> SUFFICES ASSUME NEW p \in Obj \ {o}, NEW b \in Buffer, Keeps(h, st, p, b)
               PROVE  b # h[o].data /\ b # h2[o].data
    BY <1>c
  <2>1. b # h[o].data
    <3> SUFFICES ASSUME b = h[o].data PROVE FALSE
      OBVIOUS
    <3>1. Keeps(h, st, o, b)
      BY <1>b DEF Keeps
    <3> QED  BY <1>a, <1>b, <3>1, OtherBuffer
  <2>2. bf[b] # Freed /\ b # Null
    BY <1>e, FreedIs DEF Keeps, VecIn
  <2> QED  BY <1>c, <2>1, <2>2
<1>4. Formed(h2, bf2)
  <2> SUFFICES ASSUME NEW p \in LiveIn(h2) PROVE FormedAt(h2, bf2, p)
    BY ByObject
  <2>1. CASE p = o
    <3>1. h[o].cells = <<>> /\ h[o].count <= 1
      <4>1. FormedAt(h, bf, o)
        BY <1>a, <1>b, ByObject
      <4> QED  BY <1>b, <4>1 DEF FormedAt
    <3>2. h2[o].kind # "shared" /\ h2[o].count # 0 /\ h2[o].count <= 1 /\ h2[o].cells = <<>>
      BY <1>b, <3>1
    <3>3. FormedAt(h2, bf2, o)
      BY <1>b, <1>c, <3>2 DEF FormedAt
    <3> QED  BY <2>1, <3>3
  <2>2. CASE p # o
    <3>1. h2[p] = h[p] /\ p \in LiveIn(h) /\ p \in Obj \ {o}
      BY <1>n, <2>2
    <3>2. FormedAt(h, bf, p) /\ h[p].data \in Buffer \cup {Null}
      BY <1>a, <3>1, ByObject, LiveTyped
    <3>3. h[p].kind = "vec" /\ h[p].data # Null => bf2[h[p].data] = bf[h[p].data]
      <4> SUFFICES ASSUME h[p].kind = "vec", h[p].data # Null PROVE bf2[h[p].data] = bf[h[p].data]
        OBVIOUS
      <4>1. h[p].data \in Buffer /\ Keeps(h, st, p, h[p].data)
        BY <3>1, <3>2 DEF Keeps, VecIn
      <4> QED  BY <1>g, <3>1, <4>1
    <3> QED  BY <3>1, <3>2, <3>3 DEF FormedAt
  <2> QED  BY <2>1, <2>2
<1>5. Walked(h2, bf2, st)
  <2> SUFFICES ASSUME NEW k \in DOMAIN st, NEW p \in LiveIn(h2), Destroys(st, k, p)
               PROVE  WalkedAt(h2, bf2, st[k], p)
    BY ByObject
  <2>1. h2[p] = h[p] /\ p \in LiveIn(h) /\ p \in Obj \ {o}
    BY <1>f, <1>n
  <2>2. WalkedAt(h, bf, st[k], p) /\ st[k].data \in Buffer \cup {Null}
    BY <1>a, <2>1, ByObject, LiveTyped
  <2>3. h[p].kind = "vec" /\ st[k].data # Null => bf2[st[k].data] = bf[st[k].data]
    <3> SUFFICES ASSUME h[p].kind = "vec", st[k].data # Null PROVE bf2[st[k].data] = bf[st[k].data]
      OBVIOUS
    <3>1. st[k].data \in Buffer /\ Keeps(h, st, p, st[k].data)
      BY <2>1, <2>2 DEF Keeps, VecIn
    <3> QED  BY <1>g, <2>1, <3>1
  <2> QED  BY <2>1, <2>2, <2>3 DEF WalkedAt
<1>h. \A p \in Obj, b \in Buffer :
        Keeps(h2, st, p, b) <=> IF p = o THEN b = h2[o].data ELSE Keeps(h, st, p, b)
  <2> SUFFICES ASSUME NEW p \in Obj, NEW b \in Buffer
               PROVE  Keeps(h2, st, p, b) <=> IF p = o THEN b = h2[o].data ELSE Keeps(h, st, p, b)
    OBVIOUS
  <2>1. CASE p = o
    BY <1>1, <1>b, <1>f, <2>1 DEF Keeps, VecIn
  <2>2. CASE p # o
    <3>1. h2[p] = h[p] /\ (VecIn(h2, p) <=> VecIn(h, p))
      BY <1>1, <1>b, <2>2 DEF VecIn
    <3> QED  BY <2>2, <3>1 DEF Keeps
  <2> QED  BY <2>1, <2>2
<1>6. Kept(h2, bf2, st)
  <2>1. ASSUME NEW b \in Buffer, bf2[b] # Freed PROVE \E p \in Obj : Keeps(h2, st, p, b)
    <3>1. CASE b = h2[o].data
      BY <1>b, <1>h, <3>1
    <3>2. CASE b # h2[o].data
      <4>1. b # h[o].data
        BY <1>c, <2>1, <3>2, FreedIs
      <4>2. bf[b] # Freed
        BY <1>c, <2>1, <3>2, <4>1
      <4>3. PICK p \in Obj : Keeps(h, st, p, b)
        BY <1>a, <4>2 DEF Kept
      <4>4. p # o
        BY <1>f, <4>1, <4>3 DEF Keeps
      <4> QED  BY <1>h, <4>3, <4>4
    <3> QED  BY <3>1, <3>2
  <2>2. ASSUME NEW b \in Buffer, NEW p \in Obj, NEW q \in Obj, Keeps(h2, st, p, b), Keeps(h2, st, q, b)
        PROVE  p = q
    <3>1. CASE p = o /\ q # o
      BY <1>g, <1>h, <2>2, <3>1
    <3>2. CASE p # o /\ q = o
      BY <1>g, <1>h, <2>2, <3>2
    <3>3. CASE p # o /\ q # o
      BY <1>a, <1>h, <2>2, <3>3 DEF Kept
    <3> QED  BY <3>1, <3>2, <3>3
  <2> QED  BY <2>1, <2>2 DEF Kept
<1>7. MemorySound(h2, bf2, st)
  BY <1>2, <1>3, <1>4, <1>5, <1>6 DEF MemorySound
<1>8. ASSUME NEW p \in Obj \ {o}, NEW i \in Nat PROVE HoldsIn(h2, bf2, st, p, i) = HoldsIn(h, bf, st, p, i)
  <2>1. CASE h[p] = Freed
    BY <1>a, <1>b, <1>3, <2>1, HoldsIs
  <2>2. CASE h[p] # Freed
    <3>1. p \in LiveIn(h) /\ p \in LiveIn(h2) /\ h2[p] = h[p]
      BY <1>1, <1>b, <2>2 DEF LiveIn
    <3>2. \A b \in Buffer : Keeps(h, st, p, b) => bf2[b] = bf[b]
      BY <1>g
    <3> QED  BY <1>a, <1>3, <3>1, <3>2, HoldsAlike
  <2> QED  BY <2>1, <2>2
<1>z. \A i \in Nat : Handles(<<>>, i) = Null
  BY DEF Handles
<1>9. ASSUME NEW i \in Nat
      PROVE  /\ HoldsIn(h2, bf2, st, o, i) = Handles(Storage(h2, bf2, o), i)
             /\ HoldsIn(h, bf, st, o, i) = Handles(Storage(h, bf, o), i)
  <2>1. VecIn(h2, o)
    BY <1>b, <1>1 DEF VecIn
  <2>2. HoldsIn(h2, bf2, st, o, i) = IF h2[o].data = Null THEN Null ELSE Handles(bf2[h2[o].data], i)
    BY <1>b, <1>3, <2>1, HoldsIs
  <2>3. HoldsIn(h, bf, st, o, i) = IF h[o].data = Null THEN Null ELSE Handles(bf[h[o].data], i)
    BY <1>a, <1>b, HoldsIs
  <2> QED  BY <1>z, <2>2, <2>3 DEF Storage
<1> QED  BY <1>1, <1>7, <1>8, <1>9

\* An object is allocated, which has no buffer.
LEMMA NewSound ==
  ASSUME NEW h, NEW bf, NEW st, MemorySound(h, bf, st), NEW h2, NEW o \in Obj, o \notin LiveIn(h),
         SavedFor(h, h2, o), h2[o] \in Object, h2[o].count = 1, h2[o].data = Null, FormedAt(h2, bf, o)
  PROVE  /\ MemorySound(h2, bf, st) /\ LiveIn(h2) = LiveIn(h) \cup {o}
         /\ \A p \in Obj \ {o}, i \in Nat : HoldsIn(h2, bf, st, p, i) = HoldsIn(h, bf, st, p, i)
         /\ \A i \in Nat : /\ HoldsIn(h, bf, st, o, i) = Null
                           /\ HoldsIn(h2, bf, st, o, i) = Handles(h2[o].cells, i)
<1>a. /\ MemoryTyped(h, bf, st) /\ Nested(h, st) /\ Formed(h, bf) /\ Walked(h, bf, st) /\ Kept(h, bf, st)
  BY DEF MemorySound
<1>b. /\ h[o] = Freed /\ h2[o] # Freed /\ \A p \in Obj \ {o} : h2[p] = h[p]
      /\ h2[o].kind \in {"shared", "vec"} /\ h2[o].count # 0
  BY FreedIs DEF SavedFor, LiveIn, Object
<1>f. \A k \in DOMAIN st : ~Destroys(st, k, o)
  BY <1>a DEF Nested, Destroys
<1>1. LiveIn(h2) = LiveIn(h) \cup {o}
  BY <1>b DEF LiveIn
<1>n. \A p \in LiveIn(h2) : p # o => h2[p] = h[p] /\ p \in LiveIn(h) /\ p \in Obj \ {o}
  BY <1>1, <1>b DEF LiveIn
<1>2. MemoryTyped(h2, bf, st)
  BY <1>a DEF MemoryTyped, SavedFor
<1>3. Nested(h2, st)
  <2>1. \A p \in LiveIn(h2) : h2[p].count = 0 <=> \E k \in DOMAIN st : Destroys(st, k, p)
    <3> SUFFICES ASSUME NEW p \in LiveIn(h2) PROVE h2[p].count = 0 <=> \E k \in DOMAIN st : Destroys(st, k, p)
      OBVIOUS
    <3>1. CASE p = o
      BY <1>b, <1>f, <3>1
    <3>2. CASE p # o
      BY <1>a, <1>n, <3>2 DEF Nested
    <3> QED  BY <3>1, <3>2
  <2>2. \A k \in DOMAIN st : st[k].pc = "children" => st[k].o \in LiveIn(h2)
    BY <1>a, <1>1 DEF Nested
  <2> QED  BY <1>a, <2>1, <2>2 DEF Nested
<1>4. Formed(h2, bf)
  <2> SUFFICES ASSUME NEW p \in LiveIn(h2), p # o PROVE FormedAt(h2, bf, p)
    BY ByObject
  <2>1. h2[p] = h[p] /\ FormedAt(h, bf, p)
    BY <1>a, <1>n, ByObject
  <2> QED  BY <2>1 DEF FormedAt
<1>5. Walked(h2, bf, st)
  <2> SUFFICES ASSUME NEW k \in DOMAIN st, NEW p \in LiveIn(h2), Destroys(st, k, p)
               PROVE  WalkedAt(h2, bf, st[k], p)
    BY ByObject
  <2>1. h2[p] = h[p] /\ p \in LiveIn(h)
    BY <1>f, <1>n
  <2>2. WalkedAt(h, bf, st[k], p)
    BY <1>a, <2>1, ByObject
  <2> QED  BY <2>1, <2>2 DEF WalkedAt
<1>h. \A p \in Obj, b \in Buffer : Keeps(h2, st, p, b) <=> Keeps(h, st, p, b)
  <2> SUFFICES ASSUME NEW p \in Obj, NEW b \in Buffer PROVE Keeps(h2, st, p, b) <=> Keeps(h, st, p, b)
    OBVIOUS
  <2>1. CASE p = o
    BY <1>f, <2>1, FreedIs DEF Keeps, VecIn
  <2>2. CASE p # o
    <3>1. h2[p] = h[p] /\ (VecIn(h2, p) <=> VecIn(h, p))
      BY <1>1, <1>b, <2>2 DEF VecIn
    <3> QED  BY <3>1 DEF Keeps
  <2> QED  BY <2>1, <2>2
<1>6. Kept(h2, bf, st)
  BY <1>a, <1>h DEF Kept
<1>7. MemorySound(h2, bf, st)
  BY <1>2, <1>3, <1>4, <1>5, <1>6 DEF MemorySound
<1>8. ASSUME NEW p \in Obj \ {o}, NEW i \in Nat PROVE HoldsIn(h2, bf, st, p, i) = HoldsIn(h, bf, st, p, i)
  <2>1. CASE h[p] = Freed
    BY <1>a, <1>b, <1>3, <2>1, HoldsIs
  <2>2. CASE h[p] # Freed
    <3>1. p \in LiveIn(h) /\ p \in LiveIn(h2) /\ h2[p] = h[p]
      BY <1>1, <1>b, <2>2 DEF LiveIn
    <3> QED  BY <1>a, <1>3, <3>1, HoldsAlike
  <2> QED  BY <2>1, <2>2
<1>9. ASSUME NEW i \in Nat
      PROVE  /\ HoldsIn(h, bf, st, o, i) = Null
             /\ HoldsIn(h2, bf, st, o, i) = Handles(h2[o].cells, i)
  <2>1. HoldsIn(h, bf, st, o, i) = Null
    BY <1>a, <1>b, HoldsIs
  <2>2. CASE h2[o].kind = "shared"
    <3>1. SharedIn(h2, o)
      BY <1>1, <2>2 DEF SharedIn
    <3>0. h2[o].count # 0
      BY <1>b
    <3>2. HoldsIn(h2, bf, st, o, i) = Handles(h2[o].cells, i)
      BY <1>3, <3>0, <3>1, HoldsIs
    <3> QED  BY <2>1, <3>2
  <2>3. CASE h2[o].kind = "vec"
    <3>1. VecIn(h2, o)
      BY <1>1, <2>3 DEF VecIn
    <3>2. HoldsIn(h2, bf, st, o, i) = IF h2[o].data = Null THEN Null ELSE Handles(bf[h2[o].data], i)
      BY <1>3, <1>b, <3>1, HoldsIs
    <3>3. h2[o].cells = <<>>
      BY <2>3 DEF FormedAt
    <3>4. Handles(<<>>, i) = Null
      BY DEF Handles
    <3> QED  BY <2>1, <3>2, <3>3, <3>4
  <2> QED  BY <1>b, <2>1, <2>2, <2>3
<1> QED  BY <1>1, <1>7, <1>8, <1>9

-----------------------------------------------------------------------------
(* Places, and how many of them hold an object.                            *)

\* What every place holds.
HeldIn(v, h, bf, st, c) ==
  [p \in Roots \cup (Obj \X Cells) |->
     IF p[1] \in Var THEN v[p[1]]
     ELSE IF p[1] \in Obj THEN HoldsIn(h, bf, st, p[1], p[2])
     ELSE IF p[2] = 0 THEN c.item
     ELSE IF p[2] \in DOMAIN st /\ st[p[2]].pc = "count" THEN st[p[2]].o ELSE Null]

\* The refinement mapping is a function of the state.
LEMMA HoldingIs ==
  /\ Holding = HeldIn(var, heap, buffer, stack, call)
  /\ Holding' = HeldIn(var', heap', buffer', stack', call')
BY CellHoldsIn DEF Holding, HeldIn, Pending

\* How many releases there can be at once.
Depth == 1 .. Cardinality(Obj) + 1

\* The places: variables, pending releases, the operation, and cells.
LEMMA PlaceIs ==
  ASSUME NEW v, NEW h, NEW bf, NEW st, NEW c, NEW f, f = HeldIn(v, h, bf, st, c)
  PROVE  /\ \A x \in Var : <<x, 0>> \in DOMAIN f /\ f[<<x, 0>>] = v[x]
         /\ <<Null, 0>> \in DOMAIN f /\ f[<<Null, 0>>] = c.item
         /\ \A k \in Depth : /\ <<Null, k>> \in DOMAIN f
                             /\ f[<<Null, k>>] = IF k \in DOMAIN st /\ st[k].pc = "count" THEN st[k].o ELSE Null
         /\ \A o \in Obj, i \in Cells : <<o, i>> \in DOMAIN f /\ f[<<o, i>>] = HoldsIn(h, bf, st, o, i)
         /\ \A p \in DOMAIN f : \/ \E x \in Var : p = <<x, 0>>
                                \/ p = <<Null, 0>>
                                \/ \E k \in Depth : p = <<Null, k>>
                                \/ \E o \in Obj, i \in Cells : p = <<o, i>>
         /\ DOMAIN f = Abstract!Place /\ IsFiniteSet(DOMAIN f)
<1>1. Cardinality(Obj) \in Nat
  BY RuntimeAssumption, FS_CardinalityType
<1>2. DOMAIN f = Roots \cup (Obj \X Cells)
  BY DEF HeldIn
<1>3. Null \notin Var /\ Null \notin Obj /\ Var \cap Obj = {} /\ MaxWord \in Nat
  BY RuntimeAssumption
<1>4. ASSUME NEW x \in Var PROVE <<x, 0>> \in DOMAIN f /\ f[<<x, 0>>] = v[x]
  BY <1>2, <1>3 DEF HeldIn, Roots
<1>5. <<Null, 0>> \in DOMAIN f /\ f[<<Null, 0>>] = c.item
  BY <1>1, <1>2, <1>3 DEF HeldIn, Roots
<1>6. ASSUME NEW k \in Depth
      PROVE  /\ <<Null, k>> \in DOMAIN f
             /\ f[<<Null, k>>] = IF k \in DOMAIN st /\ st[k].pc = "count" THEN st[k].o ELSE Null
  <2>1. k \in Nat /\ k # 0 /\ k \in 0 .. Cardinality(Obj) + 1
    BY <1>1 DEF Depth
  <2>2. <<Null, k>> \in DOMAIN f
    BY <1>2, <2>1 DEF Roots
  <2> QED  BY <1>3, <2>1, <2>2 DEF HeldIn
<1>7. ASSUME NEW o \in Obj, NEW i \in Cells
      PROVE  <<o, i>> \in DOMAIN f /\ f[<<o, i>>] = HoldsIn(h, bf, st, o, i)
  BY <1>2, <1>3 DEF HeldIn
<1>8. ASSUME NEW p \in DOMAIN f
      PROVE  \/ \E x \in Var : p = <<x, 0>>
             \/ p = <<Null, 0>>
             \/ \E k \in Depth : p = <<Null, k>>
             \/ \E o \in Obj, i \in Cells : p = <<o, i>>
  <2>1. CASE p \in Var \X {0}
    BY <2>1
  <2>2. CASE p \in {Null} \X (0 .. Cardinality(Obj) + 1)
    <3>1. PICK k \in 0 .. Cardinality(Obj) + 1 : p = <<Null, k>>
      BY <2>2
    <3>2. k = 0 \/ k \in Depth
      BY <1>1 DEF Depth
    <3> QED  BY <3>1, <3>2
  <2>3. CASE p \in Obj \X Cells
    BY <2>3
  <2> QED  BY <1>2, <2>1, <2>2, <2>3 DEF Roots
<1>9. IsFiniteSet(DOMAIN f)
  <2>1. IsFiniteSet(Var \X {0})
    BY RuntimeAssumption, FS_Singleton, FS_Product
  <2>2. IsFiniteSet({Null} \X (0 .. Cardinality(Obj) + 1))
    <3>1. IsFiniteSet(0 .. Cardinality(Obj) + 1)
      BY <1>1, FS_Interval
    <3> QED  BY <3>1, FS_Singleton, FS_Product
  <2>3. IsFiniteSet(Obj \X Cells)
    <3>1. IsFiniteSet(Cells)
      BY <1>3, FS_Interval DEF Cells
    <3> QED  BY <3>1, RuntimeAssumption, FS_Product
  <2>4. IsFiniteSet(Roots)
    BY <2>1, <2>2, FS_Union DEF Roots
  <2>5. IsFiniteSet(Roots \cup (Obj \X Cells))
    BY <2>3, <2>4, FS_Union
  <2> QED  BY <1>2, <2>5
<1>10. DOMAIN f = Abstract!Place
  BY <1>2 DEF Abstract!Place
<1> QED  BY <1>4, <1>5, <1>6, <1>7, <1>8, <1>9, <1>10

\* The number of owners of OwnedHeap is the number of ways to an object.
LEMMA OwnedIs ==
  /\ \A o : Abstract!Owned(o) = Ways(Holding, o)
  /\ \A o : Abstract!Owned(o)' = Ways(Holding', o)
<1>1. \A S : Abstract!Cardinality(S) = Cardinality(S)
  BY DEF Abstract!Cardinality, Cardinality, Abstract!IsFiniteSet, IsFiniteSet
<1>2. DOMAIN Holding = Abstract!Place /\ DOMAIN Holding' = Abstract!Place
  BY HoldingIs, PlaceIs
<1>3. \A o : Abstract!Owned(o) = Ways(Holding, o)
  BY <1>1, <1>2 DEF Abstract!Owned, Abstract!Holders, Ways
<1>4. \A o : Abstract!Owned(o)' = Ways(Holding', o)
  BY <1>1, <1>2 DEF Abstract!Owned, Abstract!Holders, Ways
<1> QED  BY <1>3, <1>4

\* A cell holds a handle.
LEMMA HoldsValue ==
  ASSUME NEW h, NEW bf, NEW st, NEW o, NEW i
  PROVE  HoldsIn(h, bf, st, o, i) \in Value
<1>1. \A cells : Handles(cells, i) \in Value
  BY DEF Handles, Value
<1> QED  BY <1>1 DEF HoldsIn, Value

\* Every place holds a handle.
LEMMA HeldValue ==
  ASSUME NEW v \in [Var -> Value], NEW h, NEW bf, NEW st \in Seq(Frame), NEW c \in Operation
  PROVE  HeldIn(v, h, bf, st, c) \in [Abstract!Place -> Obj \cup {Null}]
<1> DEFINE f == HeldIn(v, h, bf, st, c)
<1>1. DOMAIN f = Abstract!Place
  BY PlaceIs
<1>2. c.item \in Value /\ \A k \in DOMAIN st : st[k].o \in Value
  <2>1. c.item \in Value
    BY DEF Operation
  <2>2. ASSUME NEW k \in DOMAIN st PROVE st[k].o \in Value
    <3>1. st[k] \in Frame
      OBVIOUS
    <3> QED  BY <3>1 DEF Frame
  <2> QED  BY <2>1, <2>2
<1>3. ASSUME NEW p \in DOMAIN f PROVE f[p] \in Value
  BY <1>2, <1>3, HoldsValue DEF HeldIn, Value
<1>4. f = [p \in DOMAIN f |-> f[p]]
  BY DEF HeldIn
<1> QED  BY <1>1, <1>3, <1>4 DEF Value

\* Every release that has begun has a place: each but the last destroys an
\* object of its own.
LEMMA Shallow ==
  ASSUME NEW h, NEW bf, NEW st, MemorySound(h, bf, st)
  PROVE  /\ DOMAIN st \subseteq Depth
         /\ (\A k \in DOMAIN st : st[k].pc = "children") => Len(st) + 1 \in Depth
<1> DEFINE K == {k \in DOMAIN st : st[k].pc = "children"}
           m == [k \in K |-> st[k].o]
<1>0. st \in Seq(Frame) /\ Len(st) \in Nat /\ DOMAIN st = 1 .. Len(st) /\ Nested(h, st)
  BY DEF MemorySound, MemoryTyped
<1>1. \A k \in K : m[k] \in Obj /\ Destroys(st, k, m[k])
  BY <1>0 DEF Nested, Destroys, LiveIn
<1>2. \A j, k \in K : m[j] = m[k] => j = k
  <2> SUFFICES ASSUME NEW j \in K, NEW k \in K, m[j] = m[k] PROVE j = k
    OBVIOUS
  <2>1. Destroys(st, j, m[k]) /\ Destroys(st, k, m[k]) /\ m[k] \in Obj
    BY <1>1
  <2> QED  BY <1>0, <2>1 DEF Nested
<1>3. m \in Injection(K, Obj)
  <2>1. m \in [K -> Obj]
    BY <1>1
  <2> QED  BY <1>2, <2>1, Fun_IsInj
<1>4. IsFiniteSet(K) /\ Cardinality(K) <= Cardinality(Obj) /\ Cardinality(Obj) \in Nat /\ Cardinality(K) \in Nat
  <2>1. IsFiniteSet(Obj)
    BY RuntimeAssumption
  <2>2. IsFiniteSet(K) /\ Cardinality(K) <= Cardinality(Obj)
    BY <1>3, <2>1, FS_Injection
  <2> QED  BY <2>1, <2>2, FS_CardinalityType
<1> HIDE DEF m
<1>5. ASSUME NEW n \in Nat, 1 .. n \subseteq K PROVE n <= Cardinality(Obj)
  <2>1. IsFiniteSet(1 .. n) /\ Cardinality(1 .. n) = n
    BY FS_Interval
  <2>2. Cardinality(1 .. n) <= Cardinality(K)
    BY <1>4, <1>5, FS_Subset
  <2> QED  BY <1>4, <2>1, <2>2
<1>6. DOMAIN st \subseteq Depth
  <2>1. CASE Len(st) = 0
    BY <1>0, <2>1
  <2>2. CASE Len(st) > 0
    <3>1. 1 .. Len(st) - 1 \subseteq K
      BY <1>0 DEF Nested
    <3>2. Len(st) - 1 <= Cardinality(Obj)
      BY <1>0, <1>5, <2>2, <3>1
    <3> QED  BY <1>0, <1>4, <3>2 DEF Depth
  <2> QED  BY <1>0, <2>1, <2>2
<1>7. ASSUME \A k \in DOMAIN st : st[k].pc = "children" PROVE Len(st) + 1 \in Depth
  <2>1. Len(st) <= Cardinality(Obj)
    BY <1>0, <1>5, <1>7
  <2> QED  BY <1>0, <1>4, <2>1 DEF Depth
<1> QED  BY <1>6, <1>7

\* The live objects are those of the heap.
LEMMA LiveIs == Live = LiveIn(heap) /\ Live' = LiveIn(heap')
BY DEF Live, LiveIn

\* The number of places that hold an object, which exists for every object.
LEMMA WaysOf ==
  /\ DOMAIN Holding = Abstract!Place /\ DOMAIN Holding' = Abstract!Place
  /\ IsFiniteSet(DOMAIN Holding) /\ IsFiniteSet(DOMAIN Holding')
  /\ \A o : Ways(Holding, o) \in Nat /\ Ways(Holding', o) \in Nat
<1>1. /\ DOMAIN Holding = Abstract!Place /\ DOMAIN Holding' = Abstract!Place
      /\ IsFiniteSet(DOMAIN Holding) /\ IsFiniteSet(DOMAIN Holding')
  BY HoldingIs, PlaceIs
<1> QED  BY <1>1, WaysNat

\* In a typed state every place holds a handle.
LEMMA HeldTyped ==
  /\ Typed => Holding \in [Abstract!Place -> Obj \cup {Null}]
  /\ Typed' => Holding' \in [Abstract!Place -> Obj \cup {Null}]
<1>1. Typed => var \in [Var -> Value] /\ stack \in Seq(Frame) /\ call \in Operation
  BY DEF Typed, MemoryTyped
<1>2. Typed' => var' \in [Var -> Value] /\ stack' \in Seq(Frame) /\ call' \in Operation
  BY DEF Typed, MemoryTyped
<1> QED  BY <1>1, <1>2, HoldingIs, HeldValue

\* What the counts say, of the places before and after a step.
LEMMA CountsAre ==
  /\ CountsSound <=>
       /\ \A o \in LiveIn(heap) : heap[o].count = Ways(Holding, o) /\ heap[o].count <= MaxCount
       /\ mode = "trapped" => \E o \in LiveIn(heap) : heap[o].count = MaxCount
  /\ CountsSound' <=>
       /\ \A o \in LiveIn(heap') : heap'[o].count = Ways(Holding', o) /\ heap'[o].count <= MaxCount
       /\ mode' = "trapped" => \E o \in LiveIn(heap') : heap'[o].count = MaxCount
BY OwnedIs, LiveIs DEF CountsSound

\* Values that change places leave the counts as they are.
LEMMA MoveStep ==
  ASSUME CountsSound, Typed', LiveIn(heap') = LiveIn(heap), mode' = "running",
         \A o \in LiveIn(heap) : heap'[o].count = heap[o].count,
         \A o \in Obj : Ways(Holding', o) = Ways(Holding, o)
  PROVE  CountsSound' /\ Abstract!Move
<1>1. CountsSound'
  BY CountsAre DEF LiveIn
<1>2. Abstract!SameOwners(Obj)
  BY OwnedIs DEF Abstract!SameOwners
<1>3. Holding' \in [Abstract!Place -> Obj \cup {Null}]
  BY HeldTyped
<1>4. Live' = Live
  BY LiveIs
<1> QED  BY <1>1, <1>2, <1>3, <1>4 DEF Abstract!Move

\* What managed memory promises is proved in OwnedHeap_proofs.
Proved == INSTANCE OwnedHeap_proofs WITH
  Object <- Obj, Root <- Roots, Part <- Cells, Nothing <- Null, live <- Live, holds <- Holding

\* The abstract specification and the one that the theorem on it is about are
\* the same.
LEMMA StepsAlike == [Abstract!Next]_Abstract!vars <=> [Proved!Next]_Proved!vars
<1>1. Abstract!Place = Proved!Place
  BY DEF Abstract!Place, Proved!Place
<1>2. \A S : Abstract!Cardinality(S) = Proved!Cardinality(S)
  BY DEF Abstract!Cardinality, Proved!Cardinality, Abstract!IsFiniteSet, Proved!IsFiniteSet
<1>3. \A o : Abstract!Owned(o) = Proved!Owned(o) /\ Abstract!Owned(o)' = Proved!Owned(o)'
  BY <1>1, <1>2 DEF Abstract!Owned, Proved!Owned, Abstract!Holders, Proved!Holders
<1>4. \A S : Abstract!SameOwners(S) <=> Proved!SameOwners(S)
  BY <1>3 DEF Abstract!SameOwners, Proved!SameOwners
<1>5. Abstract!Move <=> Proved!Move
  BY <1>1, <1>4 DEF Abstract!Move, Proved!Move
<1>6. ASSUME NEW o PROVE (Abstract!Make(o) <=> Proved!Make(o)) /\ (Abstract!Reclaim(o) <=> Proved!Reclaim(o))
  BY <1>1, <1>3, <1>4 DEF Abstract!Make, Proved!Make, Abstract!Reclaim, Proved!Reclaim
<1>7. ASSUME NEW p, NEW o PROVE (Abstract!Forget(p) <=> Proved!Forget(p)) /\ (Abstract!Share(p, o) <=> Proved!Share(p, o))
  BY <1>1 DEF Abstract!Forget, Proved!Forget, Abstract!Share, Proved!Share
<1> QED  BY <1>1, <1>5, <1>6, <1>7 DEF Proved!Next, Abstract!Next, Proved!vars, Abstract!vars

\* A step of managed memory leaves no place with an object that is gone.
LEMMA DanglingStep ==
  ASSUME Typed, Abstract!NothingDangles, [Abstract!Next]_Abstract!vars
  PROVE  Abstract!NothingDangles'
<1>1. Abstract!Place = Proved!Place
  BY DEF Abstract!Place, Proved!Place
<1>2. Proved!Finite
  <2>1. \A S : Proved!IsFiniteSet(S) <=> IsFiniteSet(S)
    BY DEF Proved!IsFiniteSet, IsFiniteSet
  <2> QED  BY <1>1, <2>1, WaysOf, RuntimeAssumption DEF Proved!Finite
<1>3. Proved!IInv
  <2>1. Holding \in [Proved!Place -> Obj \cup {Null}]
    BY <1>1, HeldTyped
  <2>2. Live \subseteq Obj
    BY DEF Live
  <2> QED  BY <1>1, <2>1, <2>2 DEF Proved!IInv, Proved!TypeOK, Proved!NothingDangles, Abstract!NothingDangles
<1>4. Proved!IInv'
  BY <1>2, <1>3, StepsAlike, Proved!StepSound
<1> QED  BY <1>1, <1>4 DEF Proved!IInv, Proved!NothingDangles, Abstract!NothingDangles

\* What a place holds lives, and is counted.
LEMMA HeldLives ==
  ASSUME RuntimeInv, NEW p \in DOMAIN Holding, Holding[p] # Null
  PROVE  Holding[p] \in LiveIn(heap) /\ heap[Holding[p]].count > 0
<1>1. Holding[p] \in LiveIn(heap)
  BY WaysOf, LiveIs DEF RuntimeInv, Abstract!NothingDangles
<1>2. Ways(Holding, Holding[p]) > 0
  BY WaysOf, WaysNat
<1> QED  BY <1>1, <1>2, CountsAre DEF RuntimeInv

\* An object with one owner is at no other place.
LEMMA OneHolder ==
  ASSUME RuntimeInv, NEW p \in DOMAIN Holding, NEW q \in DOMAIN Holding, Holding[p] = Holding[q],
         Holding[p] \in LiveIn(heap), heap[Holding[p]].count = 1
  PROVE  p = q
<1> SUFFICES ASSUME p # q PROVE FALSE
  OBVIOUS
<1>1. Ways(Holding, Holding[p]) > 1
  BY WaysOf, WaysTwo
<1> QED  BY <1>1, CountsAre DEF RuntimeInv
-----------------------------------------------------------------------------
(* What a change of the cells of a Vec and of its elements does.           *)

HandleOf(v) == IF v \in Obj THEN v ELSE Null

\* The handles of cells after one is written.
LEMMA PutIs ==
  ASSUME NEW cells \in Seq(Value \cup {Junk}), NEW j \in Nat, j < Len(cells), NEW v \in Value \cup {Junk}
  PROVE  /\ Put(cells, j, v) \in Seq(Value \cup {Junk}) /\ Len(Put(cells, j, v)) = Len(cells)
         /\ \A i \in Positive : Handles(Put(cells, j, v), i) = IF i = j + 1 THEN HandleOf(v) ELSE Handles(cells, i)
<1> DEFINE c2 == Put(cells, j, v)
<1>1. c2 \in Seq(Value \cup {Junk}) /\ Len(c2) = Len(cells) /\ DOMAIN c2 = DOMAIN cells /\ j + 1 \in DOMAIN cells
  BY DEF Put
<1>2. \A i \in DOMAIN cells : c2[i] = IF i = j + 1 THEN v ELSE cells[i]
  BY DEF Put
<1> HIDE DEF c2
<1>3. ASSUME NEW i \in Positive
      PROVE  Handles(c2, i) = IF i = j + 1 THEN HandleOf(v) ELSE Handles(cells, i)
  BY <1>1, <1>2 DEF Handles, HandleOf
<1> QED  BY <1>1, <1>3 DEF c2

\* The handles of cells after one moved from j to k.
LEMMA MoveCellIs ==
  ASSUME NEW cells \in Seq(Value \cup {Junk}), NEW j \in Nat, j < Len(cells), NEW k \in Nat, k < Len(cells), j # k
  PROVE  /\ MoveCell(cells, j, k) \in Seq(Value \cup {Junk}) /\ Len(MoveCell(cells, j, k)) = Len(cells)
         /\ \A i \in Positive : Handles(MoveCell(cells, j, k), i) =
              IF i = k + 1 THEN Handles(cells, j + 1) ELSE IF i = j + 1 THEN Null ELSE Handles(cells, i)
<1> DEFINE c2 == Put(cells, j, Null)
<1>1. j + 1 \in DOMAIN cells /\ cells[j + 1] \in Value \cup {Junk} /\ Null \in Value /\ HandleOf(Null) = Null
  BY FreedIs DEF Value, HandleOf
<1>2. /\ c2 \in Seq(Value \cup {Junk}) /\ Len(c2) = Len(cells)
      /\ \A i \in Positive : Handles(c2, i) = IF i = j + 1 THEN Null ELSE Handles(cells, i)
  BY <1>1, PutIs
<1>3. /\ MoveCell(cells, j, k) \in Seq(Value \cup {Junk}) /\ Len(MoveCell(cells, j, k)) = Len(cells)
      /\ \A i \in Positive : Handles(MoveCell(cells, j, k), i) =
           IF i = k + 1 THEN HandleOf(cells[j + 1]) ELSE Handles(c2, i)
  <2>1. MoveCell(cells, j, k) = Put(c2, k, cells[j + 1])
    BY DEF MoveCell
  <2> HIDE DEF c2
  <2> QED  BY <1>1, <1>2, <2>1, PutIs
<1>4. HandleOf(cells[j + 1]) = Handles(cells, j + 1)
  BY <1>1 DEF HandleOf, Handles
<1> QED  BY <1>2, <1>3, <1>4

\* The elements of a sequence after an insertion.
LEMMA InsertIs ==
  ASSUME NEW m \in Seq(Obj), NEW i \in Nat, i <= Len(m), NEW v \in Obj
  PROVE  LET r == InsertAt(m, i + 1, v)
         IN  /\ r \in Seq(Obj) /\ Len(r) = Len(m) + 1 /\ r[i + 1] = v
             /\ \A j \in Positive : Element(r, j) = IF j <= i THEN Element(m, j)
                                                    ELSE IF j = i + 1 THEN v
                                                    ELSE Element(m, j - 1)
<1> DEFINE a == SubSeq(m, 1, i)
           b == SubSeq(m, i + 1, Len(m))
           r == InsertAt(m, i + 1, v)
<1>1. a \in Seq(Obj) /\ Len(a) = i /\ \A j \in 1 .. i : a[j] = m[j]
  OBVIOUS
<1>2. b \in Seq(Obj) /\ Len(b) = Len(m) - i /\ \A j \in 1 .. Len(m) - i : b[j] = m[i + j]
  OBVIOUS
<1>3. r = a \o <<v>> \o b
  <2>1. (i + 1) - 1 = i
    OBVIOUS
  <2> QED  BY <2>1 DEF InsertAt
<1> HIDE DEF a, b, r
<1>4. /\ r \in Seq(Obj) /\ Len(r) = Len(m) + 1
      /\ \A j \in 1 .. Len(m) + 1 : r[j] = IF j <= i THEN m[j] ELSE IF j = i + 1 THEN v ELSE m[j - 1]
  <2>1. <<v>> \in Seq(Obj) /\ Len(<<v>>) = 1 /\ <<v>>[1] = v
    OBVIOUS
  <2>2. r \in Seq(Obj) /\ Len(r) = Len(m) + 1
    BY <1>1, <1>2, <1>3, <2>1
  <2>3. ASSUME NEW j \in 1 .. Len(m) + 1, j <= i PROVE r[j] = m[j]
    BY <1>1, <1>2, <1>3, <2>1, <2>3
  <2>4. r[i + 1] = v
    BY <1>1, <1>2, <1>3, <2>1
  <2>5. ASSUME NEW j \in 1 .. Len(m) + 1, j > i + 1 PROVE r[j] = m[j - 1]
    <3>1. r[j] = b[j - (i + 1)]
      BY <1>1, <1>2, <1>3, <2>1, <2>5
    <3>2. j - (i + 1) \in 1 .. Len(m) - i /\ i + (j - (i + 1)) = j - 1
      BY <2>5
    <3> QED  BY <1>2, <3>1, <3>2
  <2> QED  BY <2>2, <2>3, <2>4, <2>5
<1>5. ASSUME NEW j \in Positive
      PROVE  Element(r, j) = IF j <= i THEN Element(m, j)
                             ELSE IF j = i + 1 THEN v ELSE Element(m, j - 1)
  BY <1>4 DEF Element, Positive
<1>6. r[i + 1] = v
  BY <1>4
<1> QED  BY <1>4, <1>5, <1>6 DEF r

\* The elements of a sequence after a removal.
LEMMA RemoveIs ==
  ASSUME NEW m \in Seq(Obj), NEW i \in Nat, i < Len(m)
  PROVE  LET r == RemoveAt(m, i + 1)
         IN  /\ r \in Seq(Obj) /\ Len(r) = Len(m) - 1
             /\ \A j \in Positive : Element(r, j) = IF j <= i THEN Element(m, j) ELSE Element(m, j + 1)
<1> DEFINE a == SubSeq(m, 1, i)
           b == SubSeq(m, i + 2, Len(m))
           r == RemoveAt(m, i + 1)
<1>1. a \in Seq(Obj) /\ Len(a) = i /\ \A j \in 1 .. i : a[j] = m[j]
  OBVIOUS
<1>2. b \in Seq(Obj) /\ Len(b) = Len(m) - i - 1 /\ \A j \in 1 .. Len(m) - i - 1 : b[j] = m[i + 1 + j]
  OBVIOUS
<1>3. r = a \o b
  <2>1. (i + 1) - 1 = i /\ (i + 1) + 1 = i + 2
    OBVIOUS
  <2> QED  BY <2>1 DEF RemoveAt
<1> HIDE DEF a, b, r
<1>4. /\ r \in Seq(Obj) /\ Len(r) = Len(m) - 1
      /\ \A j \in 1 .. Len(m) - 1 : r[j] = IF j <= i THEN m[j] ELSE m[j + 1]
  <2>2. r \in Seq(Obj) /\ Len(r) = Len(m) - 1
    BY <1>1, <1>2, <1>3
  <2>3. ASSUME NEW j \in 1 .. Len(m) - 1, j <= i PROVE r[j] = m[j]
    BY <1>1, <1>2, <1>3, <2>3
  <2>5. ASSUME NEW j \in 1 .. Len(m) - 1, j > i PROVE r[j] = m[j + 1]
    <3>1. r[j] = b[j - i]
      BY <1>1, <1>2, <1>3, <2>5
    <3>2. j - i \in 1 .. Len(m) - i - 1 /\ i + 1 + (j - i) = j + 1
      BY <2>5
    <3> QED  BY <1>2, <3>1, <3>2
  <2> QED  BY <2>2, <2>3, <2>5
<1>5. ASSUME NEW j \in Positive
      PROVE  Element(r, j) = IF j <= i THEN Element(m, j) ELSE Element(m, j + 1)
  BY <1>4 DEF Element, Positive
<1> QED  BY <1>4, <1>5 DEF r

\* The elements of a sequence without its last.
LEMMA ShorterIs ==
  ASSUME NEW m \in Seq(Obj), m # <<>>
  PROVE  /\ Front(m) \in Seq(Obj) /\ Len(Front(m)) = Len(m) - 1 /\ Len(m) > 0
         /\ \A j \in Positive : Element(Front(m), j) = IF j = Len(m) THEN Null ELSE Element(m, j)
BY FrontIs DEF Element, Positive

\* Filled, by the operation that is under way.
LEMMA FilledIs ==
  ASSUME NEW cells, NEW u, NEW m, NEW c
  PROVE  /\ Filled(cells, u, m, NoCall) <=>
              Len(m) = u /\ \A i \in Positive : Handles(cells, i) = Element(m, i)
         /\ c.op = "insert" => (Filled(cells, u, m, c) <=>
              /\ Len(m) = u + 1 /\ m[c.i + 1] = c.item
              /\ \A i \in Positive : Handles(cells, i) =
                   IF i = c.at + 1 THEN Null
                   ELSE IF c.i < i /\ i <= c.at THEN Element(m, i + 1)
                   ELSE Element(m, i))
         /\ c.op = "remove" => (Filled(cells, u, m, c) <=>
              /\ Len(m) + 1 = u
              /\ \A i \in Positive : Handles(cells, i) =
                   IF i <= c.at THEN Element(m, i)
                   ELSE IF i = c.at + 1 THEN Null
                   ELSE Element(m, i - 1))
         /\ c.op = "set" => (Filled(cells, u, m, c) <=>
              /\ Len(m) = u /\ m[c.i + 1] = c.item
              /\ \A i \in Positive : Handles(cells, i) = IF i = c.i + 1 THEN Null ELSE Element(m, i))
         /\ c.op \in {"clear", "drop"} => (Filled(cells, u, m, c) <=>
              m = <<>> /\ \A i \in Positive : Handles(cells, i) # Null <=> i <= u)
<1>1. NoCall.op = "none"
  BY DEF NoCall
<1>2. Filled(cells, u, m, NoCall) <=>
              Len(m) = u /\ \A i \in Positive : Handles(cells, i) = Element(m, i)
  BY <1>1 DEF Filled
<1> QED  BY <1>2 DEF Filled

\* A sequence has elements as far as its length.
LEMMA ElementIs ==
  ASSUME NEW m \in Seq(Obj)
  PROVE  \A i \in Positive : Element(m, i) # Null <=> i <= Len(m)
BY FreedIs DEF Element, Positive

\* The cells of a Vec and their numbers, before a change and after it.
Same(cells, cells2) == \A i \in Positive : Handles(cells2, i) = Handles(cells, i)

\* insert begins with a gap behind the last element.
LEMMA FillInsert ==
  ASSUME NEW cells, NEW cells2, Same(cells, cells2), NEW u \in Nat, NEW m \in Seq(Obj), Filled(cells, u, m, NoCall),
         NEW c \in Operation, c.op = "insert", c.i <= u, c.at = u, c.item \in Obj
  PROVE  InsertAt(m, c.i + 1, c.item) \in Seq(Obj) /\ Filled(cells2, u, InsertAt(m, c.i + 1, c.item), c)
<1> DEFINE r == InsertAt(m, c.i + 1, c.item)
<1>1. c.i \in Nat /\ c.at \in Nat
  BY DEF Operation
<1>2. Len(m) = u /\ \A i \in Positive : Handles(cells, i) = Element(m, i)
  BY FilledIs
<1>3. /\ r \in Seq(Obj) /\ Len(r) = Len(m) + 1 /\ r[c.i + 1] = c.item
      /\ \A j \in Positive : Element(r, j) = IF j <= c.i THEN Element(m, j)
                                             ELSE IF j = c.i + 1 THEN c.item
                                             ELSE Element(m, j - 1)
  <2>1. c.i <= Len(m)
    BY <1>2
  <2>2. ASSUME NEW i \in Nat, i <= Len(m), NEW v \in Obj
        PROVE  LET q == InsertAt(m, i + 1, v)
               IN  /\ q \in Seq(Obj) /\ Len(q) = Len(m) + 1 /\ q[i + 1] = v
                   /\ \A j \in Positive : Element(q, j) = IF j <= i THEN Element(m, j)
                                                          ELSE IF j = i + 1 THEN v
                                                          ELSE Element(m, j - 1)
    BY <2>2, InsertIs
  <2> HIDE DEF Element
  <2> QED  BY <1>1, <2>1, <2>2
<1> HIDE DEF r
<1>4. ASSUME NEW i \in Positive
      PROVE  Handles(cells2, i) = IF i = c.at + 1 THEN Null
                                  ELSE IF c.i < i /\ i <= c.at THEN Element(r, i + 1)
                                  ELSE Element(r, i)
  <2>1. Handles(cells2, i) = Element(m, i)
    BY <1>2 DEF Same
  <2>2. i \in Nat /\ i > 0 /\ i + 1 \in Positive
    BY DEF Positive
  <2>3. CASE i = u + 1
    <3>1. Element(m, i) = Null
      BY <1>2, <2>2, <2>3 DEF Element
    <3> QED  BY <2>1, <2>3, <3>1
  <2>4. CASE c.i < i /\ i <= u
    <3>1. Element(r, i + 1) = Element(m, (i + 1) - 1) /\ (i + 1) - 1 = i
      BY <1>1, <1>3, <2>2, <2>4
    <3> QED  BY <2>1, <2>2, <2>4, <3>1
  <2>5. CASE i <= c.i
    <3>1. Element(r, i) = Element(m, i)
      BY <1>3, <2>5
    <3> QED  BY <1>1, <2>1, <2>2, <2>5, <3>1
  <2>6. CASE i > u + 1
    <3>1. Element(r, i) = Null /\ Element(m, i) = Null
      BY <1>2, <1>3, <2>2, <2>6 DEF Element
    <3> QED  BY <1>1, <2>1, <2>2, <2>6, <3>1
  <2> QED  BY <1>1, <2>2, <2>3, <2>4, <2>5, <2>6
<1>5. Filled(cells2, u, r, c)
  BY <1>2, <1>3, <1>4, FilledIs
<1> QED  BY <1>3, <1>5 DEF r

\* insert moves the gap one down.
LEMMA FillShiftUp ==
  ASSUME NEW cells, NEW cells2, NEW u \in Nat, NEW m \in Seq(Obj), NEW c \in Operation, NEW c2 \in Operation,
         Filled(cells, u, m, c), c.op = "insert", c.at > c.i, c.at <= u,
         c2.op = "insert", c2.i = c.i, c2.item = c.item, c2.at = c.at - 1,
         \A i \in Positive : Handles(cells2, i) =
           IF i = c.at + 1 THEN Handles(cells, c.at) ELSE IF i = c.at THEN Null ELSE Handles(cells, i)
  PROVE  Filled(cells2, u, m, c2)
<1>1. c.i \in Nat /\ c.at \in Nat /\ c.at \in Positive
  BY DEF Operation, Positive
<1>2. /\ Len(m) = u + 1 /\ m[c.i + 1] = c.item
      /\ \A i \in Positive : Handles(cells, i) =
           IF i = c.at + 1 THEN Null
           ELSE IF c.i < i /\ i <= c.at THEN Element(m, i + 1)
           ELSE Element(m, i)
  BY FilledIs
<1>3. ASSUME NEW i \in Positive
      PROVE  Handles(cells2, i) = IF i = c2.at + 1 THEN Null
                                  ELSE IF c2.i < i /\ i <= c2.at THEN Element(m, i + 1)
                                  ELSE Element(m, i)
  <2>1. i \in Nat /\ i > 0
    BY DEF Positive
  <2>2. CASE i = c.at + 1
    <3>1. Handles(cells2, i) = Element(m, c.at + 1)
      BY <1>1, <1>2, <2>2
    <3> QED  BY <1>1, <2>1, <2>2, <3>1
  <2>3. CASE i = c.at
    BY <1>1, <2>1, <2>3
  <2>4. CASE i # c.at /\ i # c.at + 1
    <3>1. Handles(cells2, i) = IF c.i < i /\ i <= c.at THEN Element(m, i + 1) ELSE Element(m, i)
      BY <1>1, <1>2, <2>1, <2>4
    <3> QED  BY <1>1, <2>1, <2>4, <3>1
  <2> QED  BY <2>2, <2>3, <2>4
<1> QED  BY <1>2, <1>3, FilledIs

\* insert puts its element in the gap.
LEMMA FillInserted ==
  ASSUME NEW cells, NEW cells2, NEW u \in Nat, NEW m \in Seq(Obj), NEW c \in Operation, Filled(cells, u, m, c),
         c.op = "insert", c.at = c.i, c.i <= u, c.item \in Obj,
         \A i \in Positive : Handles(cells2, i) = IF i = c.i + 1 THEN c.item ELSE Handles(cells, i)
  PROVE  Filled(cells2, u + 1, m, NoCall)
<1>1. c.i \in Nat /\ c.at \in Nat
  BY DEF Operation
<1>2. /\ Len(m) = u + 1 /\ m[c.i + 1] = c.item
      /\ \A i \in Positive : Handles(cells, i) =
           IF i = c.at + 1 THEN Null
           ELSE IF c.i < i /\ i <= c.at THEN Element(m, i + 1)
           ELSE Element(m, i)
  BY FilledIs
<1>3. ASSUME NEW i \in Positive PROVE Handles(cells2, i) = Element(m, i)
  <2>1. i \in Nat /\ i > 0
    BY DEF Positive
  <2>2. CASE i = c.i + 1
    BY <1>1, <1>2, <2>1, <2>2 DEF Element
  <2>3. CASE i # c.i + 1
    BY <1>1, <1>2, <2>1, <2>3
  <2> QED  BY <2>2, <2>3
<1> QED  BY <1>2, <1>3, FilledIs

\* pop takes the last element.
LEMMA FillPop ==
  ASSUME NEW cells, NEW cells2, NEW u \in Nat, u > 0, NEW m \in Seq(Obj), Filled(cells, u, m, NoCall),
         \A i \in Positive : Handles(cells2, i) = IF i = u THEN Null ELSE Handles(cells, i)
  PROVE  Front(m) \in Seq(Obj) /\ Filled(cells2, u - 1, Front(m), NoCall)
<1>1. Len(m) = u /\ \A i \in Positive : Handles(cells, i) = Element(m, i)
  BY FilledIs
<1>2. /\ Front(m) \in Seq(Obj) /\ Len(Front(m)) = Len(m) - 1
      /\ \A j \in Positive : Element(Front(m), j) = IF j = Len(m) THEN Null ELSE Element(m, j)
  BY <1>1, ShorterIs
<1> QED  BY <1>1, <1>2, FilledIs

\* remove begins with a gap where its element was.
LEMMA FillRemove ==
  ASSUME NEW cells, NEW cells2, NEW u \in Nat, NEW m \in Seq(Obj), Filled(cells, u, m, NoCall),
         NEW c \in Operation, c.op = "remove", c.i < u, c.at = c.i,
         \A i \in Positive : Handles(cells2, i) = IF i = c.i + 1 THEN Null ELSE Handles(cells, i)
  PROVE  RemoveAt(m, c.i + 1) \in Seq(Obj) /\ Filled(cells2, u, RemoveAt(m, c.i + 1), c)
<1> DEFINE r == RemoveAt(m, c.i + 1)
<1>1. c.i \in Nat /\ c.at \in Nat
  BY DEF Operation
<1>2. Len(m) = u /\ \A i \in Positive : Handles(cells, i) = Element(m, i)
  BY FilledIs
<1>3. /\ r \in Seq(Obj) /\ Len(r) = Len(m) - 1
      /\ \A j \in Positive : Element(r, j) = IF j <= c.i THEN Element(m, j) ELSE Element(m, j + 1)
  BY <1>1, <1>2, RemoveIs
<1> HIDE DEF r
<1>4. ASSUME NEW i \in Positive
      PROVE  Handles(cells2, i) = IF i <= c.at THEN Element(r, i)
                                  ELSE IF i = c.at + 1 THEN Null
                                  ELSE Element(r, i - 1)
  <2>1. i \in Nat /\ i > 0
    BY DEF Positive
  <2>2. CASE i <= c.i
    BY <1>1, <1>2, <1>3, <2>1, <2>2
  <2>3. CASE i = c.i + 1
    BY <1>1, <2>1, <2>3
  <2>4. CASE i > c.i + 1
    <3>1. i - 1 \in Positive /\ (i - 1) + 1 = i /\ ~(i - 1 <= c.i)
      BY <1>1, <2>1, <2>4 DEF Positive
    <3>2. Element(r, i - 1) = Element(m, i)
      BY <1>3, <3>1
    <3> QED  BY <1>1, <1>2, <2>1, <2>4, <3>2
  <2> QED  BY <1>1, <2>1, <2>2, <2>3, <2>4
<1>5. Filled(cells2, u, r, c)
  BY <1>2, <1>3, <1>4, FilledIs
<1> QED  BY <1>3, <1>5 DEF r

\* remove moves the gap one up.
LEMMA FillShiftDown ==
  ASSUME NEW cells, NEW cells2, NEW u \in Nat, NEW m \in Seq(Obj), NEW c \in Operation, NEW c2 \in Operation,
         Filled(cells, u, m, c), c.op = "remove", c2.op = "remove", c2.at = c.at + 1,
         \A i \in Positive : Handles(cells2, i) =
           IF i = c.at + 1 THEN Handles(cells, c.at + 2) ELSE IF i = c.at + 2 THEN Null ELSE Handles(cells, i)
  PROVE  Filled(cells2, u, m, c2)
<1>1. c.at \in Nat /\ c.at + 2 \in Positive
  BY DEF Operation, Positive
<1>2. /\ Len(m) + 1 = u
      /\ \A i \in Positive : Handles(cells, i) =
           IF i <= c.at THEN Element(m, i)
           ELSE IF i = c.at + 1 THEN Null
           ELSE Element(m, i - 1)
  BY FilledIs
<1>3. ASSUME NEW i \in Positive
      PROVE  Handles(cells2, i) = IF i <= c2.at THEN Element(m, i)
                                  ELSE IF i = c2.at + 1 THEN Null
                                  ELSE Element(m, i - 1)
  <2>1. i \in Nat /\ i > 0
    BY DEF Positive
  <2>2. CASE i = c.at + 1
    <3>1. Handles(cells, c.at + 2) = Element(m, (c.at + 2) - 1) /\ (c.at + 2) - 1 = i
      BY <1>1, <1>2, <2>2
    <3> QED  BY <1>1, <2>1, <2>2, <3>1
  <2>3. CASE i = c.at + 2
    BY <1>1, <2>1, <2>3
  <2>4. CASE i # c.at + 1 /\ i # c.at + 2
    <3>1. Handles(cells2, i) = IF i <= c.at THEN Element(m, i) ELSE Element(m, i - 1)
      BY <1>1, <1>2, <2>1, <2>4
    <3> QED  BY <1>1, <2>1, <2>4, <3>1
  <2> QED  BY <2>2, <2>3, <2>4
<1> QED  BY <1>2, <1>3, FilledIs

\* remove ends with the gap behind the last element.
LEMMA FillRemoved ==
  ASSUME NEW cells, NEW u \in Nat, NEW m \in Seq(Obj), NEW c \in Operation,
         Filled(cells, u, m, c), c.op = "remove", c.at + 1 >= u, c.at < u
  PROVE  Filled(cells, u - 1, m, NoCall)
<1>1. c.at \in Nat /\ c.at + 1 = u
  BY DEF Operation
<1>2. /\ Len(m) + 1 = u
      /\ \A i \in Positive : Handles(cells, i) =
           IF i <= c.at THEN Element(m, i)
           ELSE IF i = c.at + 1 THEN Null
           ELSE Element(m, i - 1)
  BY FilledIs
<1>3. ASSUME NEW i \in Positive PROVE Handles(cells, i) = Element(m, i)
  <2>1. i \in Nat /\ i > 0
    BY DEF Positive
  <2>2. CASE i <= c.at
    BY <1>2, <2>2
  <2>3. CASE i > c.at
    <3>1. Element(m, i) = Null /\ (i > c.at + 1 => Element(m, i - 1) = Null)
      BY <1>1, <1>2, <2>1, <2>3 DEF Element
    <3> QED  BY <1>1, <1>2, <2>1, <2>3, <3>1
  <2> QED  BY <1>1, <2>1, <2>2, <2>3
<1> QED  BY <1>1, <1>2, <1>3, FilledIs

\* set begins with a gap where the old element was.
LEMMA FillSet ==
  ASSUME NEW cells, NEW cells2, NEW u \in Nat, NEW m \in Seq(Obj), Filled(cells, u, m, NoCall),
         NEW c \in Operation, c.op = "set", c.i < u, c.item \in Obj,
         \A i \in Positive : Handles(cells2, i) = IF i = c.i + 1 THEN Null ELSE Handles(cells, i)
  PROVE  [m EXCEPT ![c.i + 1] = c.item] \in Seq(Obj) /\ Filled(cells2, u, [m EXCEPT ![c.i + 1] = c.item], c)
<1> DEFINE r == [m EXCEPT ![c.i + 1] = c.item]
<1>1. c.i \in Nat
  BY DEF Operation
<1>2. Len(m) = u /\ \A i \in Positive : Handles(cells, i) = Element(m, i)
  BY FilledIs
<1>3. r \in Seq(Obj) /\ Len(r) = Len(m) /\ r[c.i + 1] = c.item /\ \A i \in 1 .. Len(m) : i # c.i + 1 => r[i] = m[i]
  BY <1>1, <1>2
<1> HIDE DEF r
<1>4. ASSUME NEW i \in Positive PROVE Handles(cells2, i) = IF i = c.i + 1 THEN Null ELSE Element(r, i)
  <2>1. i # c.i + 1 => Element(r, i) = Element(m, i)
    BY <1>3 DEF Element
  <2> QED  BY <1>2, <2>1
<1>5. Filled(cells2, u, r, c)
  BY <1>2, <1>3, <1>4, FilledIs
<1> QED  BY <1>3, <1>5 DEF r

\* set puts its element in the gap.
LEMMA FillStored ==
  ASSUME NEW cells, NEW cells2, NEW u \in Nat, NEW m \in Seq(Obj), NEW c \in Operation, Filled(cells, u, m, c),
         c.op = "set", c.i < u,
         \A i \in Positive : Handles(cells2, i) = IF i = c.i + 1 THEN c.item ELSE Handles(cells, i)
  PROVE  Filled(cells2, u, m, NoCall)
<1>1. c.i \in Nat
  BY DEF Operation
<1>2. /\ Len(m) = u /\ m[c.i + 1] = c.item
      /\ \A i \in Positive : Handles(cells, i) = IF i = c.i + 1 THEN Null ELSE Element(m, i)
  BY FilledIs
<1>3. ASSUME NEW i \in Positive PROVE Handles(cells2, i) = Element(m, i)
  <2>1. CASE i = c.i + 1
    BY <1>1, <1>2, <2>1 DEF Element
  <2>2. CASE i # c.i + 1
    BY <1>2, <2>2
  <2> QED  BY <2>1, <2>2
<1> QED  BY <1>2, <1>3, FilledIs

\* clear begins with the handles that there are.
LEMMA FillClear ==
  ASSUME NEW cells, NEW u \in Nat, NEW m \in Seq(Obj), Filled(cells, u, m, NoCall), NEW c, c.op \in {"clear", "drop"}
  PROVE  Filled(cells, u, <<>>, c)
<1>1. Len(m) = u /\ \A i \in Positive : Handles(cells, i) = Element(m, i)
  BY FilledIs
<1>2. \A i \in Positive : Handles(cells, i) # Null <=> i <= u
  BY <1>1, ElementIs
<1> QED  BY <1>2, FilledIs

\* clear takes the last handle.
LEMMA FillClearNext ==
  ASSUME NEW cells, NEW cells2, NEW u \in Nat, u > 0, NEW c, c.op \in {"clear", "drop"}, NEW m, Filled(cells, u, m, c),
         \A i \in Positive : Handles(cells2, i) = IF i = u THEN Null ELSE Handles(cells, i)
  PROVE  Filled(cells2, u - 1, m, c)
<1>1. m = <<>> /\ \A i \in Positive : Handles(cells, i) # Null <=> i <= u
  BY FilledIs
<1>2. \A i \in Positive : Handles(cells2, i) # Null <=> i <= u - 1
  BY <1>1 DEF Positive
<1> QED  BY <1>1, <1>2, FilledIs

\* clear ends without handles.
LEMMA FillCleared ==
  ASSUME NEW cells, NEW c, c.op \in {"clear", "drop"}, NEW m, Filled(cells, 0, m, c)
  PROVE  /\ Filled(cells, 0, m, NoCall) /\ Filled(<<>>, 0, m, NoCall)
         /\ \A i \in Positive : Handles(cells, i) = Null
<1>1. m = <<>> /\ \A i \in Positive : Handles(cells, i) = Null
  BY FilledIs DEF Positive
<1>2. \A i \in Positive : Element(m, i) = Null /\ Handles(<<>>, i) = Null
  BY <1>1 DEF Element, Handles, Positive
<1> QED  BY <1>1, <1>2, FilledIs
-----------------------------------------------------------------------------
(* Facts that the proofs of the steps use.                                 *)

PendingIn(st, k) == IF k \in DOMAIN st /\ st[k].pc = "count" THEN st[k].o ELSE Null

\* The places one by one, before and after a step; no two are the same.
LEMMA HoldingAt ==
  /\ DOMAIN Holding' = DOMAIN Holding /\ IsFiniteSet(DOMAIN Holding)
  /\ \A x \in Var : <<x, 0>> \in DOMAIN Holding /\ Holding[<<x, 0>>] = var[x] /\ Holding'[<<x, 0>>] = var'[x]
  /\ <<Null, 0>> \in DOMAIN Holding /\ Holding[<<Null, 0>>] = call.item /\ Holding'[<<Null, 0>>] = call'.item
  /\ \A k \in Depth : /\ <<Null, k>> \in DOMAIN Holding /\ Holding[<<Null, k>>] = PendingIn(stack, k)
                      /\ Holding'[<<Null, k>>] = PendingIn(stack', k)
  /\ \A o \in Obj, i \in Cells : /\ <<o, i>> \in DOMAIN Holding
                                 /\ Holding[<<o, i>>] = HoldsIn(heap, buffer, stack, o, i)
                                 /\ Holding'[<<o, i>>] = HoldsIn(heap', buffer', stack', o, i)
  /\ \A x \in Var : <<x, 0>> # <<Null, 0>> /\ \A k \in Depth : <<x, 0>> # <<Null, k>>
  /\ \A k \in Depth : <<Null, 0>> # <<Null, k>>
  /\ \A o \in Obj, i \in Cells : /\ <<Null, 0>> # <<o, i>> /\ \A x \in Var : <<x, 0>> # <<o, i>>
                                 /\ \A k \in Depth : <<Null, k>> # <<o, i>>
<1>1. /\ DOMAIN Holding' = DOMAIN Holding /\ IsFiniteSet(DOMAIN Holding)
  BY WaysOf
<1>d. /\ DOMAIN HeldIn(var, heap, buffer, stack, call) = Roots \cup (Obj \X Cells)
      /\ DOMAIN HeldIn(var', heap', buffer', stack', call') = Roots \cup (Obj \X Cells)
      /\ Null \notin Var /\ Null \notin Obj /\ Var \cap Obj = {}
  BY RuntimeAssumption DEF HeldIn
<1>2. ASSUME NEW x \in Var
      PROVE  <<x, 0>> \in DOMAIN Holding /\ Holding[<<x, 0>>] = var[x] /\ Holding'[<<x, 0>>] = var'[x]
  <2>1. <<x, 0>> \in Roots \cup (Obj \X Cells)
    BY DEF Roots
  <2>2. HeldIn(var, heap, buffer, stack, call)[<<x, 0>>] = var[x]
    BY <1>d, <2>1 DEF HeldIn
  <2>3. HeldIn(var', heap', buffer', stack', call')[<<x, 0>>] = var'[x]
    BY <1>d, <2>1 DEF HeldIn
  <2> QED  BY <1>d, <2>1, <2>2, <2>3, HoldingIs
<1>3. <<Null, 0>> \in DOMAIN Holding /\ Holding[<<Null, 0>>] = call.item /\ Holding'[<<Null, 0>>] = call'.item
  BY HoldingIs, PlaceIs
<1>4. \A k \in Depth : /\ <<Null, k>> \in DOMAIN Holding /\ Holding[<<Null, k>>] = PendingIn(stack, k)
                      /\ Holding'[<<Null, k>>] = PendingIn(stack', k)
  BY HoldingIs, PlaceIs DEF PendingIn
<1>5. ASSUME NEW o \in Obj, NEW i \in Cells
      PROVE  /\ <<o, i>> \in DOMAIN Holding
             /\ Holding[<<o, i>>] = HoldsIn(heap, buffer, stack, o, i)
             /\ Holding'[<<o, i>>] = HoldsIn(heap', buffer', stack', o, i)
  <2>1. <<o, i>> \in Roots \cup (Obj \X Cells)
    OBVIOUS
  <2>2. HeldIn(var, heap, buffer, stack, call)[<<o, i>>] = HoldsIn(heap, buffer, stack, o, i)
    BY <1>d, <2>1 DEF HeldIn
  <2>3. HeldIn(var', heap', buffer', stack', call')[<<o, i>>] = HoldsIn(heap', buffer', stack', o, i)
    BY <1>d, <2>1 DEF HeldIn
  <2> QED  BY <1>d, <2>1, <2>2, <2>3, HoldingIs
<1>6. /\ \A x \in Var : <<x, 0>> # <<Null, 0>> /\ \A k \in Depth : <<x, 0>> # <<Null, k>>
      /\ \A k \in Depth : <<Null, 0>> # <<Null, k>>
      /\ \A o \in Obj, i \in Cells : /\ <<Null, 0>> # <<o, i>> /\ \A x \in Var : <<x, 0>> # <<o, i>>
                                     /\ \A k \in Depth : <<Null, k>> # <<o, i>>
  <2>1. \A k \in Depth : k # 0
    BY DEF Depth
  <2>2. Null \notin Var /\ Null \notin Obj /\ Var \cap Obj = {}
    BY RuntimeAssumption
  <2> QED  BY <2>1, <2>2
<1> QED  BY <1>1, <1>2, <1>3, <1>4, <1>5, <1>6

\* The places outside S hold what they held.
LEMMA PlacesElse ==
  ASSUME NEW S,
         \A x \in Var : <<x, 0>> \in S \/ var'[x] = var[x],
         <<Null, 0>> \in S \/ call'.item = call.item,
         \A k \in Depth : <<Null, k>> \in S \/ PendingIn(stack', k) = PendingIn(stack, k),
         \A o \in Obj, i \in Cells :
           <<o, i>> \in S \/ HoldsIn(heap', buffer', stack', o, i) = HoldsIn(heap, buffer, stack, o, i)
  PROVE  \A p \in DOMAIN Holding \ S : Holding'[p] = Holding[p]
<1> SUFFICES ASSUME NEW p \in DOMAIN Holding, p \notin S PROVE Holding'[p] = Holding[p]
  OBVIOUS
<1>1. \/ \E x \in Var : p = <<x, 0>>
      \/ p = <<Null, 0>>
      \/ \E k \in Depth : p = <<Null, k>>
      \/ \E o \in Obj, i \in Cells : p = <<o, i>>
  BY HoldingIs, PlaceIs
<1>2. CASE \E x \in Var : p = <<x, 0>>
  BY <1>2, HoldingAt
<1>3. CASE p = <<Null, 0>>
  BY <1>3, HoldingAt
<1>4. CASE \E k \in Depth : p = <<Null, k>>
  BY <1>4, HoldingAt
<1>5. CASE \E o \in Obj, i \in Cells : p = <<o, i>>
  BY <1>5, HoldingAt
<1> QED  BY <1>1, <1>2, <1>3, <1>4, <1>5

\* The parts of the invariant.
LEMMA Facts ==
  ASSUME RuntimeInv
  PROVE  /\ Typed /\ MemorySound(heap, buffer, stack) /\ CountsSound
         /\ CallSound(var, heap, stack, call) /\ FilledIn(heap, buffer, meant, call)
         /\ MemoryTyped(heap, buffer, stack) /\ Nested(heap, stack) /\ Formed(heap, buffer)
         /\ Walked(heap, buffer, stack) /\ Kept(heap, buffer, stack)
         /\ var \in [Var -> Value] /\ heap \in [Obj -> Object \cup {Freed}]
         /\ buffer \in [Buffer -> Raw \cup {Freed}] /\ stack \in Seq(Frame)
         /\ call \in Operation /\ meant \in [Obj -> Seq(Value)]
         /\ mode \in {"running", "trapped", "panicked"}
BY DEF RuntimeInv, Typed, MemorySound, MemoryTyped

\* A handle in a variable, in transit or released is one of an object that lives.
LEMMA HandleLives ==
  ASSUME RuntimeInv
  PROVE  /\ \A x \in Var : var[x] # Null => var[x] \in LiveIn(heap) /\ heap[var[x]].count > 0
         /\ call.item # Null => call.item \in LiveIn(heap) /\ heap[call.item].count > 0
         /\ \A k \in DOMAIN stack : stack[k].pc = "count" /\ stack[k].o # Null =>
              stack[k].o \in LiveIn(heap) /\ heap[stack[k].o].count > 0
         /\ \A o \in Obj, i \in Cells : LET v == HoldsIn(heap, buffer, stack, o, i) IN
              v # Null => v \in LiveIn(heap) /\ heap[v].count > 0
<1>1. \A k \in DOMAIN stack : k \in Depth
  BY Facts, Shallow
<1>2. ASSUME NEW x \in Var, var[x] # Null PROVE var[x] \in LiveIn(heap) /\ heap[var[x]].count > 0
  <2>1. <<x, 0>> \in DOMAIN Holding /\ Holding[<<x, 0>>] = var[x]
    BY HoldingAt
  <2> QED  BY <1>2, <2>1, HeldLives
<1>3. ASSUME call.item # Null PROVE call.item \in LiveIn(heap) /\ heap[call.item].count > 0
  <2>1. <<Null, 0>> \in DOMAIN Holding /\ Holding[<<Null, 0>>] = call.item
    BY HoldingAt
  <2> QED  BY <1>3, <2>1, HeldLives
<1>4. ASSUME NEW k \in DOMAIN stack, stack[k].pc = "count", stack[k].o # Null
      PROVE  stack[k].o \in LiveIn(heap) /\ heap[stack[k].o].count > 0
  <2>1. <<Null, k>> \in DOMAIN Holding /\ Holding[<<Null, k>>] = stack[k].o
    BY <1>1, <1>4, HoldingAt DEF PendingIn
  <2> QED  BY <1>4, <2>1, HeldLives
<1>5. ASSUME NEW o \in Obj, NEW i \in Cells, NEW v, v = HoldsIn(heap, buffer, stack, o, i), v # Null
      PROVE  v \in LiveIn(heap) /\ heap[v].count > 0
  <2>1. <<o, i>> \in DOMAIN Holding /\ Holding[<<o, i>>] = v
    BY <1>5, HoldingAt
  <2> QED  BY <1>5, <2>1, HeldLives
<1> QED  BY <1>2, <1>3, <1>4, <1>5

\* What a Vec should contain, or a shared object.
FilledAt(h, bf, mt, c, o) ==
  /\ h[o].kind = "shared" => mt[o] = h[o].cells
  /\ h[o].kind = "vec" =>
       /\ mt[o] \in Seq(Obj)
       /\ Filled(Storage(h, bf, o), h[o].used, mt[o], IF c.o = o THEN c ELSE NoCall)

\* One object changes, in its own buffer or in one that nobody had.
Alters(h, bf, st, mt, c, h2, bf2, mt2, c2, o) ==
  /\ o \in Obj
  /\ \A p \in Obj \ {o} : h2[p] = h[p] /\ mt2[p] = mt[p]
  /\ \A b \in Buffer : bf2[b] = bf[b] \/ Keeps(h, st, o, b) \/ bf[b] = Freed
  /\ \A p \in Obj \ {o} : c.o = p \/ c2.o = p => c2 = c

\* If one object changes, the others still have what they should have.
LEMMA FilledRest ==
  ASSUME NEW h, NEW bf, NEW st, MemorySound(h, bf, st), NEW mt, NEW c, FilledIn(h, bf, mt, c),
         NEW h2, NEW bf2, NEW mt2, NEW c2, NEW o, Alters(h, bf, st, mt, c, h2, bf2, mt2, c2, o),
         o \in LiveIn(h2) /\ h2[o].count > 0 => FilledAt(h2, bf2, mt2, c2, o)
  PROVE  FilledIn(h2, bf2, mt2, c2)
<1>b. /\ o \in Obj
      /\ \A p \in Obj \ {o} : h2[p] = h[p] /\ mt2[p] = mt[p]
      /\ \A b \in Buffer : bf2[b] = bf[b] \/ Keeps(h, st, o, b) \/ bf[b] = Freed
      /\ \A p \in Obj \ {o} : c.o = p \/ c2.o = p => c2 = c
  BY DEF Alters
<1>a. MemoryTyped(h, bf, st) /\ Formed(h, bf) /\ Kept(h, bf, st)
  BY DEF MemorySound
<1>1. ASSUME NEW p \in LiveIn(h2), h2[p].count > 0, p # o PROVE FilledAt(h2, bf2, mt2, c2, p)
  <2>1. p \in Obj \ {o} /\ h2[p] = h[p] /\ mt2[p] = mt[p] /\ p \in LiveIn(h) /\ h[p].count > 0
    BY <1>b, <1>1 DEF LiveIn
  <2>2. FilledAt(h, bf, mt, c, p)
    BY <2>1 DEF FilledIn, FilledAt
  <2>3. (IF c2.o = p THEN c2 ELSE NoCall) = (IF c.o = p THEN c ELSE NoCall)
    BY <1>b, <2>1
  <2>4. ASSUME h[p].kind = "vec" PROVE Storage(h2, bf2, p) = Storage(h, bf, p)
    <3>1. CASE h[p].data = Null
      BY <2>1, <3>1 DEF Storage
    <3>2. CASE h[p].data # Null
      <4>1. h[p].data \in Buffer
        BY <1>a, <2>1, <3>2, LiveTyped
      <4>2. FormedAt(h, bf, p)
        BY <1>a, <2>1, ByObject
      <4>3. bf[h[p].data] # Freed
        BY <2>4, <3>2, <4>2 DEF FormedAt
      <4>4. Keeps(h, st, p, h[p].data)
        BY <2>1, <2>4 DEF Keeps, VecIn
      <4>5. ~Keeps(h, st, o, h[p].data)
        BY <1>a, <1>b, <2>1, <4>1, <4>4, OtherBuffer
      <4> QED  BY <1>b, <2>1, <4>1, <4>3, <4>5 DEF Storage
    <3> QED  BY <3>1, <3>2
  <2> QED  BY <2>1, <2>2, <2>3, <2>4 DEF FilledAt
<1> QED  BY <1>1 DEF FilledIn, FilledAt

\* What a step has to keep; that nothing dangles follows from it (DanglingStep).
Sound ==
  /\ Typed /\ MemorySound(heap, buffer, stack) /\ CallSound(var, heap, stack, call)
  /\ FilledIn(heap, buffer, meant, call) /\ CountsSound

\* Between operations nothing is asked of them.
LEMMA NoCallSound == \A v, h, st : CallSound(v, h, st, NoCall)
BY DEF CallSound, NoCall

\* An exchange leaves every object with as many owners.
LEMMA ExchangeWays ==
  ASSUME NEW p \in DOMAIN Holding, NEW q \in DOMAIN Holding, p # q,
         Holding'[p] = Holding[q], Holding'[q] = Holding[p],
         \A r \in DOMAIN Holding \ {p, q} : Holding'[r] = Holding[r]
  PROVE  \A o : Ways(Holding', o) = Ways(Holding, o)
BY WaysOf, WaysExchange

\* So does a step that changes no place.
LEMMA SameWays ==
  ASSUME \A r \in DOMAIN Holding : Holding'[r] = Holding[r]
  PROVE  \A o : Ways(Holding', o) = Ways(Holding, o)
BY WaysOf, WaysSame

\* Two places exchange what they hold, the others keep it: a step of managed
\* memory that moves a value.
LEMMA ExchangeStep ==
  ASSUME CountsSound, Typed', LiveIn(heap') = LiveIn(heap), mode' = "running",
         \A o \in LiveIn(heap) : heap'[o].count = heap[o].count,
         NEW p \in DOMAIN Holding, NEW q \in DOMAIN Holding, p # q,
         Holding'[p] = Holding[q], Holding'[q] = Holding[p],
         \A x \in Var : <<x, 0>> \in {p, q} \/ var'[x] = var[x],
         <<Null, 0>> \in {p, q} \/ call'.item = call.item,
         \A k \in Depth : <<Null, k>> \in {p, q} \/ PendingIn(stack', k) = PendingIn(stack, k),
         \A o \in Obj, i \in Cells :
           <<o, i>> \in {p, q} \/ HoldsIn(heap', buffer', stack', o, i) = HoldsIn(heap, buffer, stack, o, i)
  PROVE  CountsSound' /\ Abstract!Move
<1>1. \A r \in DOMAIN Holding \ {p, q} : Holding'[r] = Holding[r]
  BY PlacesElse
<1>2. \A o \in Obj : Ways(Holding', o) = Ways(Holding, o)
  BY <1>1, ExchangeWays
<1> QED  BY <1>2, MoveStep

\* Every place keeps what it holds.
LEMMA KeepStep ==
  ASSUME CountsSound, Typed', LiveIn(heap') = LiveIn(heap), mode' = "running",
         \A o \in LiveIn(heap) : heap'[o].count = heap[o].count,
         \A x \in Var : var'[x] = var[x], call'.item = call.item,
         \A k \in Depth : PendingIn(stack', k) = PendingIn(stack, k),
         \A o \in Obj, i \in Cells : HoldsIn(heap', buffer', stack', o, i) = HoldsIn(heap, buffer, stack, o, i)
  PROVE  CountsSound' /\ Abstract!Move
<1>1. \A r \in DOMAIN Holding \ {} : Holding'[r] = Holding[r]
  BY PlacesElse
<1>2. \A o \in Obj : Ways(Holding', o) = Ways(Holding, o)
  BY <1>1, SameWays
<1> QED  BY <1>2, MoveStep

\* A move is a step of managed memory.
LEMMA MoveNext == Abstract!Move => [Abstract!Next]_Abstract!vars
BY DEF Abstract!Next

\* Cells are numbered from one, as far as a word reaches.
LEMMA CellsNat == Cells \subseteq Nat /\ Cells \subseteq Positive /\ \A i \in Nat : i > 0 /\ i <= MaxWord => i \in Cells
BY RuntimeAssumption DEF Cells, Positive

\* A value is an object or nothing.
LEMMA NullValue == Null \in Value /\ \A v \in Value : v # Null => v \in Obj
BY DEF Value
-----------------------------------------------------------------------------
(* Variables and releases.                                                 *)

\* Drop hands a variable's handle to a release.
LEMMA DropStep ==
  ASSUME RuntimeInv, NEW x \in Var, Drop(x)
  PROVE  Sound' /\ [Abstract!Next]_Abstract!vars
<1>1. /\ mode' = "running" /\ stack = <<>> /\ call = NoCall /\ var[x] # Null
      /\ var' = [var EXCEPT ![x] = Null] /\ stack' = <<Release(var[x])>>
      /\ UNCHANGED <<heap, buffer, call, meant>>
  BY DEF Drop, Ready, Running
<1>2. var[x] \in Value /\ Null \in Value
  BY Facts, NullValue
<1>3. stack' = Append(stack, Release(var[x])) /\ Release(var[x]) \in Frame
  BY <1>1, <1>2 DEF Release, Frame, NoCall, Value
<1>4. /\ MemorySound(heap', buffer', stack')
      /\ \A p \in Obj, i \in Nat : HoldsIn(heap', buffer', stack', p, i) = HoldsIn(heap, buffer, stack, p, i)
  <2>1. \A k \in DOMAIN stack : stack[k].pc = "children"
    BY <1>1
  <2>2. MemorySound(heap, buffer, stack)
    BY Facts
  <2>3. /\ MemorySound(heap, buffer, Append(stack, Release(var[x])))
        /\ \A p \in Obj, i \in Nat :
             HoldsIn(heap, buffer, Append(stack, Release(var[x])), p, i) = HoldsIn(heap, buffer, stack, p, i)
    BY <1>2, <2>1, <2>2, PushSound
  <2> QED  BY <1>1, <1>3, <2>3
<1>5. Typed'
  <2>1. MemoryTyped(heap', buffer', stack')
    BY <1>4 DEF MemorySound
  <2> QED  BY <1>1, <1>2, <2>1, Facts DEF Typed
<1>6. CallSound(var', heap', stack', call')
  BY <1>1, NoCallSound
<1>7. FilledIn(heap', buffer', meant', call')
  BY <1>1, Facts
<1>8. CountsSound' /\ Abstract!Move
  <2>1. 1 \in Depth
    BY RuntimeAssumption, FS_CardinalityType DEF Depth
  <2>2. /\ <<x, 0>> \in DOMAIN Holding /\ <<Null, 1>> \in DOMAIN Holding /\ <<x, 0>> # <<Null, 1>>
        /\ Holding[<<x, 0>>] = var[x] /\ Holding[<<Null, 1>>] = Null
        /\ Holding'[<<x, 0>>] = Null /\ Holding'[<<Null, 1>>] = var[x]
    <3>1. PendingIn(stack, 1) = Null
      BY <1>1 DEF PendingIn
    <3>2. PendingIn(stack', 1) = var[x]
      BY <1>1 DEF PendingIn, Release
    <3>3. var'[x] = Null
      BY <1>1, Facts
    <3> QED  BY <2>1, <3>1, <3>2, <3>3, HoldingAt
  <2>3. \A y \in Var : <<y, 0>> \in {<<x, 0>>, <<Null, 1>>} \/ var'[y] = var[y]
    BY <1>1, Facts
  <2>4. \A k \in Depth : <<Null, k>> \in {<<x, 0>>, <<Null, 1>>} \/ PendingIn(stack', k) = PendingIn(stack, k)
    BY <1>1 DEF PendingIn
  <2>5. \A o \in Obj, i \in Cells :
          <<o, i>> \in {<<x, 0>>, <<Null, 1>>} \/ HoldsIn(heap', buffer', stack', o, i) = HoldsIn(heap, buffer, stack, o, i)
    BY <1>4, CellsNat
  <2>6. call'.item = call.item /\ LiveIn(heap') = LiveIn(heap) /\ \A o \in LiveIn(heap) : heap'[o].count = heap[o].count
    BY <1>1
  <2> QED  BY <1>1, <1>5, <2>2, <2>3, <2>4, <2>5, <2>6, Facts, ExchangeStep
<1> QED  BY <1>4, <1>5, <1>6, <1>7, <1>8, MoveNext DEF Sound

\* A release of nothing ends.
LEMMA SkipNullStep ==
  ASSUME RuntimeInv, SkipNull
  PROVE  Sound' /\ [Abstract!Next]_Abstract!vars
<1>1. /\ mode' = "running" /\ stack # <<>> /\ stack[Len(stack)].pc = "count" /\ stack[Len(stack)].o = Null
      /\ stack' = Front(stack) /\ UNCHANGED <<var, heap, buffer, call, meant>>
  BY DEF SkipNull, Running, Top, Pop
<1>2. /\ MemorySound(heap', buffer', stack')
      /\ \A p \in Obj, i \in Nat : HoldsIn(heap', buffer', stack', p, i) = HoldsIn(heap, buffer, stack, p, i)
  BY <1>1, Facts, PopSound
<1>3. Typed'
  <2>1. MemoryTyped(heap', buffer', stack')
    BY <1>2 DEF MemorySound
  <2> QED  BY <1>1, <2>1, Facts DEF Typed
<1>4. CallSound(var', heap', stack', call')
  <2>1. CallSound(var, heap, stack, call)
    BY Facts
  <2> QED  BY <1>1, <2>1 DEF CallSound
<1>5. FilledIn(heap', buffer', meant', call')
  BY <1>1, Facts
<1>6. /\ Len(stack') = Len(stack) - 1 /\ Len(stack) \in Nat \ {0}
      /\ DOMAIN stack' = 1 .. Len(stack) - 1 /\ DOMAIN stack = 1 .. Len(stack)
      /\ \A k \in 1 .. Len(stack) - 1 : stack'[k] = stack[k]
  BY <1>1, Facts, FrontIs
<1>7. \A k \in Depth : PendingIn(stack', k) = PendingIn(stack, k)
  BY <1>1, <1>6 DEF PendingIn, Depth
<1>8. CountsSound' /\ Abstract!Move
  BY <1>1, <1>2, <1>3, <1>7, Facts, CellsNat, KeepStep
<1> QED  BY <1>2, <1>3, <1>4, <1>5, <1>8, MoveNext DEF Sound

\* A place lets go of an object, which has one owner less.
LEMMA ForgetStep ==
  ASSUME Typed, Typed', CountsSound, LiveIn(heap') = LiveIn(heap), mode' = "running",
         NEW o \in LiveIn(heap), heap'[o].count = heap[o].count - 1,
         \A w \in LiveIn(heap) \ {o} : heap'[w].count = heap[w].count,
         NEW p \in DOMAIN Holding, Holding[p] = o, Holding'[p] = Null,
         \A r \in DOMAIN Holding \ {p} : Holding'[r] = Holding[r]
  PROVE  CountsSound' /\ [Abstract!Next]_Abstract!vars
<1>0. o \in Obj /\ o # Null
  BY FreedIs DEF LiveIn
<1>1. ASSUME NEW w \in Obj PROVE Ways(Holding', w) = IF w = o THEN Ways(Holding, w) - 1 ELSE Ways(Holding, w)
  <2>1. Ways(Holding', w) = Ways(Holding, w) - Hit(Holding[p], w) + Hit(Holding'[p], w)
    BY WaysOf, WaysReplace
  <2>2. w # Null
    BY FreedIs
  <2>3. Hit(Holding'[p], w) = 0 /\ Hit(Holding[p], w) = IF w = o THEN 1 ELSE 0
    BY <2>2 DEF Hit
  <2> QED  BY <2>1, <2>3, WaysOf
<1>2. CountsSound'
  <2>1. \A w \in LiveIn(heap) : heap[w].count = Ways(Holding, w) /\ heap[w].count <= MaxCount
    BY CountsAre
  <2>2. ASSUME NEW w \in LiveIn(heap) PROVE heap'[w].count = Ways(Holding', w) /\ heap'[w].count <= MaxCount
    <3>1. w \in Obj /\ MaxCount \in Nat /\ Ways(Holding, w) \in Nat
      BY RuntimeAssumption, WaysOf DEF LiveIn
    <3>2. CASE w = o
      BY <1>1, <2>1, <3>1, <3>2
    <3>3. CASE w # o
      BY <1>1, <2>1, <3>1, <3>3
    <3> QED  BY <3>2, <3>3
  <2> QED  BY <2>2, CountsAre
<1>3. Abstract!Forget(p)
  <2>1. Holding \in [Abstract!Place -> Obj \cup {Null}] /\ Holding' \in [Abstract!Place -> Obj \cup {Null}]
    BY HeldTyped
  <2>2. Holding' = [Holding EXCEPT ![p] = Null]
    BY <2>1
  <2>3. Live' = Live
    BY LiveIs
  <2> QED  BY <1>0, <2>2, <2>3 DEF Abstract!Forget
<1>4. p \in Abstract!Place
  BY WaysOf
<1> QED  BY <1>2, <1>3, <1>4 DEF Abstract!Next

\* An operation works on an object that only a variable owns, so it is not one
\* that is released.
LEMMA CallOther ==
  ASSUME RuntimeInv, NEW k \in DOMAIN stack, stack[k].pc = "count", stack[k].o # Null
  PROVE  call.o # stack[k].o \/ call = NoCall
<1> SUFFICES ASSUME call.o = stack[k].o, call # NoCall PROVE FALSE
  OBVIOUS
<1>1. call.op # "none" => heap[call.o].count = 1 /\ \E y \in Var : var[y] = call.o
  BY Facts DEF CallSound
<1>2. call.op # "none"
  BY Facts DEF CallSound
<1>3. PICK y \in Var : var[y] = call.o
  BY <1>1, <1>2
<1>4. k \in Depth
  BY Facts, Shallow
<1>5. /\ <<y, 0>> \in DOMAIN Holding /\ <<Null, k>> \in DOMAIN Holding /\ <<y, 0>> # <<Null, k>>
      /\ Holding[<<y, 0>>] = call.o /\ Holding[<<Null, k>>] = call.o
  <2>1. PendingIn(stack, k) = call.o
    BY DEF PendingIn
  <2> QED  BY <1>3, <1>4, <2>1, HoldingAt
<1>6. call.o \in LiveIn(heap)
  BY HandleLives
<1> QED  BY <1>1, <1>2, <1>5, <1>6, OneHolder

\* The operation goes on if its object stays as it is and releases are left or over.
LEMMA CallKept ==
  ASSUME RuntimeInv, stack # <<>>, NEW h, NEW st,
         call # NoCall => call.o \in LiveIn(h) /\ h[call.o] = heap[call.o]
  PROVE  CallSound(var, h, st, call)
<1>1. CallSound(var, heap, stack, call)
  BY Facts
<1>2. CASE call = NoCall
  BY <1>2, NoCallSound
<1>3. CASE call # NoCall
  <2>1. VecIn(heap, call.o) => VecIn(h, call.o)
    BY <1>3 DEF VecIn
  <2> QED  BY <1>1, <1>3, <2>1 DEF CallSound
<1> QED  BY <1>2, <1>3

\* A release takes one from the count; the last one becomes the destructor.
LEMMA CountDownStep ==
  ASSUME RuntimeInv, CountDown
  PROVE  Sound' /\ [Abstract!Next]_Abstract!vars
<1> DEFINE n == Len(stack)
           o == stack[n].o
<1>1. /\ mode = "running" /\ stack # <<>> /\ stack[n].pc = "count" /\ o # Null
      /\ UNCHANGED <<var, buffer, call, meant>>
  BY DEF CountDown, Running, Top
<1>2. /\ stack \in Seq(Frame) /\ n \in Nat \ {0} /\ n \in DOMAIN stack /\ DOMAIN stack = 1 .. n
  BY <1>1, Facts
<1>3. o \in LiveIn(heap) /\ heap[o].count > 0 /\ o \in Obj /\ heap[o] \in Object /\ heap[o].count \in Nat
      /\ heap[o].kind \in {"shared", "vec"} /\ heap[o].cells \in Seq(Value)
      /\ heap[o].data \in Buffer \cup {Null} /\ heap[o].used \in Nat /\ heap[o].cap \in Nat
  <2>1. o \in LiveIn(heap) /\ heap[o].count > 0
    BY <1>1, <1>2, HandleLives
  <2> QED  BY <2>1, Facts, LiveTyped DEF LiveIn
<1>f. FormedAt(heap, buffer, o)
  BY <1>3, Facts, ByObject
<1>4. call.o # o \/ call = NoCall
  BY <1>1, <1>2, CallOther
<1>c. NoCall.o = Null /\ NoCall.op = "none"
  BY DEF NoCall
<1>d. n \in Depth /\ <<Null, n>> \in DOMAIN Holding
  BY <1>2, Facts, Shallow, HoldingAt
<1> HIDE DEF n, o
<1>5. \/ heap[o].count > 1 /\ heap' = [heap EXCEPT ![o] = [@ EXCEPT !.count = heap[o].count - 1]] /\ stack' = Front(stack) /\ UNCHANGED mode
      \/ /\ heap[o].count = 1 /\ heap' = [heap EXCEPT ![o] = [Emptied(@) EXCEPT !.count = 0]] /\ UNCHANGED mode
         /\ stack' = [stack EXCEPT ![n] = [o |-> o, pc |-> "children", rest |-> Edges(o), data |-> heap[o].data]]
  <2>1. heap[o].count # 0 /\ (~(heap[o].count > 1) => heap[o].count = 1)
    BY <1>3
  <2> QED  BY <2>1 DEF CountDown, Top, Pop, Continue, n, o
<1>6. CASE heap[o].count > 1 /\ heap' = [heap EXCEPT ![o] = [@ EXCEPT !.count = heap[o].count - 1]] /\ stack' = Front(stack) /\ UNCHANGED mode
  <2>1. heap[o].kind = "shared" /\ heap[o].data = Null /\ heap[o].used = 0
    BY <1>3, <1>6, <1>f DEF FormedAt
  <2>2. /\ SavedFor(heap, heap', o) /\ heap'[o] \in Object
        /\ heap'[o].kind = heap[o].kind /\ heap'[o].cells = heap[o].cells
        /\ heap'[o].data = heap[o].data /\ heap'[o].cap = heap[o].cap /\ heap'[o].used = heap[o].used
        /\ heap'[o].count = heap[o].count - 1
        /\ \A p \in Obj \ {o} : heap'[p] = heap[p]
    <3>1. heap'[o] = [heap[o] EXCEPT !.count = heap[o].count - 1] /\ \A p \in Obj \ {o} : heap'[p] = heap[p]
      BY <1>3, <1>6, Facts
    <3>2. heap[o].count - 1 \in Nat
      BY <1>3, <1>6
    <3>3. heap'[o] \in Object
      BY <1>3, <3>1, <3>2 DEF Object
    <3>4. heap' \in [Obj -> Object \cup {Freed}]
      BY <1>3, <1>6, <3>1, <3>3, Facts
    <3> QED  BY <1>3, <3>1, <3>3, <3>4 DEF SavedFor, Object
  <2>3. Touches(heap, buffer, heap', buffer', o)
    <3>1. buffer' = buffer /\ buffer \in [Buffer -> Raw \cup {Freed}]
      BY <1>1, Facts
    <3> QED  BY <1>3, <1>6, <2>1, <2>2, <3>1 DEF Touches
  <2>4. /\ MemorySound(heap', buffer', stack) /\ LiveIn(heap') = LiveIn(heap)
        /\ \A p \in Obj, i \in Nat : HoldsIn(heap', buffer', stack, p, i) = HoldsIn(heap, buffer, stack, p, i)
    <3>1. MemorySound(heap, buffer, stack)
      BY Facts
    <3> QED  BY <2>1, <2>3, <3>1, TouchSound
  <2>5. /\ MemorySound(heap', buffer', stack')
        /\ \A p \in Obj, i \in Nat : HoldsIn(heap', buffer', stack', p, i) = HoldsIn(heap, buffer, stack, p, i)
    <3>1. /\ MemorySound(heap', buffer', Front(stack))
          /\ \A p \in Obj, i \in Nat : HoldsIn(heap', buffer', Front(stack), p, i) = HoldsIn(heap', buffer', stack, p, i)
      BY <1>1, <2>4, PopSound DEF n
    <3> QED  BY <1>6, <2>4, <3>1
  <2>6. Typed'
    <3>1. MemoryTyped(heap', buffer', stack')
      BY <2>5 DEF MemorySound
    <3> QED  BY <1>1, <1>6, <3>1, Facts DEF Typed
  <2>7. CallSound(var', heap', stack', call')
    <3>1. call # NoCall => call.o \in LiveIn(heap') /\ heap'[call.o] = heap[call.o]
      <4> SUFFICES ASSUME call # NoCall PROVE call.o \in LiveIn(heap') /\ heap'[call.o] = heap[call.o]
        OBVIOUS
      <4>1. VecIn(heap, call.o)
        BY Facts DEF CallSound
      <4> QED  BY <1>4, <2>2, <2>4, <4>1 DEF VecIn, LiveIn
    <3>2. CallSound(var, heap', stack', call)
      BY <1>1, <3>1, CallKept
    <3> QED  BY <1>1, <3>2
  <2>8. FilledIn(heap', buffer', meant', call')
    <3>1. meant[o] = heap[o].cells
      BY <1>3, <2>1, Facts DEF FilledIn
    <3>2. FilledAt(heap', buffer', meant', call', o)
      BY <1>1, <2>1, <2>2, <3>1 DEF FilledAt
    <3>3. Alters(heap, buffer, stack, meant, call, heap', buffer', meant', call', o)
      BY <1>1, <1>3, <2>2 DEF Alters
    <3> QED  BY <3>2, <3>3, Facts, FilledRest
  <2>9. CountsSound' /\ [Abstract!Next]_Abstract!vars
    <3>1. /\ Len(stack') = n - 1 /\ DOMAIN stack' = 1 .. n - 1 /\ \A k \in 1 .. n - 1 : stack'[k] = stack[k]
      BY <1>1, <1>6, Facts, FrontIs DEF n
    <3>2. PendingIn(stack, n) = o /\ PendingIn(stack', n) = Null
      BY <1>1, <1>2, <3>1 DEF PendingIn, o
    <3>3. \A k \in Depth : k # n => PendingIn(stack', k) = PendingIn(stack, k)
      BY <1>2, <3>1 DEF PendingIn, Depth
    <3>4. \A r \in DOMAIN Holding \ {<<Null, n>>} : Holding'[r] = Holding[r]
      <4>1. \A k \in Depth : <<Null, k>> \in {<<Null, n>>} \/ PendingIn(stack', k) = PendingIn(stack, k)
        BY <3>3
      <4> QED  BY <1>1, <2>5, <4>1, CellsNat, PlacesElse
    <3>5. Holding[<<Null, n>>] = o /\ Holding'[<<Null, n>>] = Null
      BY <1>d, <3>2, HoldingAt
    <3> QED  BY <1>1, <1>3, <1>6, <1>d, <2>2, <2>4, <2>6, <3>4, <3>5, Facts, ForgetStep DEF LiveIn
  <2> QED  BY <2>5, <2>6, <2>7, <2>8, <2>9 DEF Sound
<1>7. CASE /\ heap[o].count = 1 /\ heap' = [heap EXCEPT ![o] = [Emptied(@) EXCEPT !.count = 0]] /\ UNCHANGED mode
           /\ stack' = [stack EXCEPT ![n] = [o |-> o, pc |-> "children", rest |-> Edges(o), data |-> heap[o].data]]
  <2> DEFINE f == [o |-> o, pc |-> "children", rest |-> Edges(o), data |-> heap[o].data]
  <2>1. Edges(o) = IF heap[o].kind = "vec" THEN heap[o].used ELSE Len(heap[o].cells)
    BY <1>3 DEF Edges, IsVec, LiveIn
  <2>2. f \in Frame /\ f.o = o /\ f.pc = "children" /\ f.data = heap[o].data /\ f.rest = Edges(o)
    <3>1. Edges(o) \in Nat
      BY <1>3, <2>1
    <3> QED  BY <1>3, <3>1 DEF Frame, Value
  <2>3. /\ SavedFor(heap, heap', o) /\ heap'[o] \in Object
        /\ heap'[o].kind = heap[o].kind /\ heap'[o].cells = heap[o].cells
        /\ heap'[o].count = 0 /\ heap'[o].data = Null /\ heap'[o].used = 0 /\ heap'[o].cap = 0
        /\ \A p \in Obj \ {o} : heap'[p] = heap[p]
    <3>1. heap'[o] = [Emptied(heap[o]) EXCEPT !.count = 0] /\ \A p \in Obj \ {o} : heap'[p] = heap[p]
      BY <1>3, <1>7, Facts
    <3>3. heap'[o] \in Object
      <4>1. Emptied(heap[o]) \in Object
        BY <1>3 DEF Object, Emptied
      <4> QED  BY <3>1, <4>1 DEF Object
    <3>4. heap' \in [Obj -> Object \cup {Freed}]
      BY <1>3, <1>7, <3>1, <3>3, Facts
    <3> QED  BY <1>3, <3>1, <3>3, <3>4 DEF SavedFor, Object, Emptied
  <2> HIDE DEF f
  <2>4. Dies(heap, heap', stack, stack', o, f)
    <3>1. stack' = [stack EXCEPT ![n] = f]
      BY <1>7 DEF f
    <3> QED  BY <1>1, <1>3, <1>7, <2>1, <2>2, <2>3, <3>1 DEF Dies, n, o
  <2>5. heap[o].data # Null => \A i \in DOMAIN buffer[heap[o].data] : buffer[heap[o].data][i] \in Obj <=> i <= heap[o].used
    <3> SUFFICES ASSUME heap[o].data # Null
                 PROVE \A i \in DOMAIN buffer[heap[o].data] : buffer[heap[o].data][i] \in Obj <=> i <= heap[o].used
      OBVIOUS
    <3>1. heap[o].kind = "vec"
      BY <1>3, <1>f DEF FormedAt
    <3>2. meant[o] \in Seq(Obj) /\ Filled(buffer[heap[o].data], heap[o].used, meant[o], NoCall)
      <4>1. (IF call.o = o THEN call ELSE NoCall) = NoCall
        BY <1>4
      <4>2. FilledIn(heap, buffer, meant, call)
        BY Facts
      <4> QED  BY <1>3, <3>1, <4>1, <4>2 DEF FilledIn, Storage
    <3>3. Len(meant[o]) = heap[o].used /\ \A i \in Positive : Handles(buffer[heap[o].data], i) = Element(meant[o], i)
      BY <3>2, FilledIs
    <3>4. \A i \in Positive : Handles(buffer[heap[o].data], i) # Null <=> i <= heap[o].used
      BY <3>2, <3>3, ElementIs
    <3>5. buffer[heap[o].data] \in Seq(Value \cup {Junk})
      <4>1. heap[o].data \in Buffer /\ buffer[heap[o].data] # Freed
        BY <1>3, <1>f, <3>1 DEF FormedAt
      <4> QED  BY <4>1, Facts, LiveTyped
    <3> QED  BY <3>4, <3>5, FreedIs DEF Handles, Positive
  <2>6. /\ MemorySound(heap', buffer', stack') /\ LiveIn(heap') = LiveIn(heap)
        /\ \A p \in Obj, i \in Nat : HoldsIn(heap', buffer', stack', p, i) = HoldsIn(heap, buffer, stack, p, i)
    <3>1. MemorySound(heap, buffer, stack)
      BY Facts
    <3>2. /\ MemorySound(heap', buffer, stack') /\ LiveIn(heap') = LiveIn(heap)
          /\ \A p \in Obj, i \in Nat : HoldsIn(heap', buffer, stack', p, i) = HoldsIn(heap, buffer, stack, p, i)
      BY <2>4, <2>5, <3>1, DieSound
    <3> QED  BY <1>1, <3>2
  <2>7. Typed'
    <3>1. MemoryTyped(heap', buffer', stack')
      BY <2>6 DEF MemorySound
    <3> QED  BY <1>1, <1>7, <3>1, Facts DEF Typed
  <2>8. CallSound(var', heap', stack', call')
    <3>1. call # NoCall => call.o \in LiveIn(heap') /\ heap'[call.o] = heap[call.o]
      <4> SUFFICES ASSUME call # NoCall PROVE call.o \in LiveIn(heap') /\ heap'[call.o] = heap[call.o]
        OBVIOUS
      <4>1. VecIn(heap, call.o)
        BY Facts DEF CallSound
      <4> QED  BY <1>4, <2>3, <2>6, <4>1 DEF VecIn, LiveIn
    <3>2. CallSound(var, heap', stack', call)
      BY <1>1, <3>1, CallKept
    <3> QED  BY <1>1, <3>2
  <2>9. FilledIn(heap', buffer', meant', call')
    <3>1. ~(heap'[o].count > 0)
      BY <2>3
    <3>2. MemorySound(heap, buffer, stack) /\ FilledIn(heap, buffer, meant, call)
      BY Facts
    <3>3. o \in LiveIn(heap') /\ heap'[o].count > 0 => FilledAt(heap', buffer, meant, call, o)
      BY <3>1
    <3>4. FilledIn(heap', buffer, meant, call)
      <4>1. Alters(heap, buffer, stack, meant, call, heap', buffer, meant, call, o)
        BY <1>3, <2>3 DEF Alters
      <4> QED  BY <3>2, <3>3, <4>1, FilledRest
    <3> QED  BY <1>1, <3>4
  <2>10. CountsSound' /\ [Abstract!Next]_Abstract!vars
    <3>1. DOMAIN stack' = 1 .. n /\ stack'[n] = f /\ \A k \in 1 .. n : k # n => stack'[k] = stack[k]
      BY <1>2, <1>7 DEF f
    <3>2. PendingIn(stack, n) = o /\ PendingIn(stack', n) = Null
      BY <1>1, <1>2, <2>2, <3>1 DEF PendingIn, o
    <3>3. \A k \in Depth : k # n => PendingIn(stack', k) = PendingIn(stack, k)
      BY <1>2, <3>1 DEF PendingIn, Depth
    <3>4. \A r \in DOMAIN Holding \ {<<Null, n>>} : Holding'[r] = Holding[r]
      <4>1. \A k \in Depth : <<Null, k>> \in {<<Null, n>>} \/ PendingIn(stack', k) = PendingIn(stack, k)
        BY <3>3
      <4> QED  BY <1>1, <2>6, <4>1, CellsNat, PlacesElse
    <3>5. Holding[<<Null, n>>] = o /\ Holding'[<<Null, n>>] = Null
      BY <1>d, <3>2, HoldingAt
    <3>6. heap'[o].count = heap[o].count - 1
      BY <1>7, <2>3
    <3> QED  BY <1>1, <1>3, <1>7, <1>d, <2>3, <2>6, <2>7, <3>4, <3>5, <3>6, Facts, ForgetStep DEF LiveIn
  <2> QED  BY <2>6, <2>7, <2>8, <2>9, <2>10 DEF Sound
<1> QED  BY <1>5, <1>6, <1>7

\* A destructor hands its next child to a release.
LEMMA ReleaseChildStep ==
  ASSUME RuntimeInv, ReleaseChild
  PROVE  Sound' /\ [Abstract!Next]_Abstract!vars
<1> DEFINE n == Len(stack)
           o == stack[n].o
           r == stack[n].rest
           d == stack[n].data
           below == [stack EXCEPT ![n].rest = r - 1]
           v == IF heap[o].kind = "vec" THEN buffer[d][r] ELSE heap[o].cells[r]
<1>1. /\ mode' = "running" /\ stack # <<>> /\ stack[n].pc = "children" /\ r > 0
      /\ UNCHANGED <<var, heap, call, meant>>
  BY DEF ReleaseChild, Running, Top
<1>2. stack \in Seq(Frame) /\ n \in Nat \ {0} /\ n \in DOMAIN stack /\ DOMAIN stack = 1 .. n
  BY <1>1, Facts
<1>3. /\ o \in LiveIn(heap) /\ o \in Obj /\ Destroys(stack, n, o) /\ heap[o].count = 0
      /\ heap[o].kind \in {"shared", "vec"} /\ r \in Nat /\ d \in Buffer \cup {Null} /\ stack[n] \in Frame
  <2>1. o \in LiveIn(heap) /\ o \in Obj
    BY <1>1, <1>2, Facts DEF Nested, LiveIn
  <2>2. Destroys(stack, n, o)
    BY <1>1, <1>2 DEF Destroys
  <2>3. heap[o].count = 0
    BY <1>2, <2>1, <2>2, Facts DEF Nested
  <2> QED  BY <1>2, <2>1, <2>2, <2>3, Facts, LiveTyped
<1>v. heap[o].kind = "vec" => d \in Buffer
  <2>1. WalkedAt(heap, buffer, stack[n], o)
    BY <1>2, <1>3, Facts, ByObject
  <2> QED  BY <1>1, <1>3, <2>1 DEF WalkedAt
<1>4. /\ stack' = Append(below, Release(v))
      /\ IF heap[o].kind = "vec" THEN buffer' = [buffer EXCEPT ![d][r] = Null] ELSE buffer' = buffer
  <2>1. IsVec(o) <=> heap[o].kind = "vec"
    BY <1>3 DEF IsVec, LiveIn
  <2> QED  BY <2>1 DEF ReleaseChild, Top
<1>k. \A k \in DOMAIN stack : stack[k].pc = "children"
  BY <1>1, <1>2, Facts DEF Nested
<1> HIDE DEF v, below, d, r, o, n
<1>5. Takes(heap, buffer, buffer', stack, below, o, r)
  <2>1. heap[o].kind = "vec" =>
          /\ buffer' \in [Buffer -> Raw \cup {Freed}]
          /\ \A b \in Buffer : b # d => buffer'[b] = buffer[b]
          /\ buffer'[d] = [buffer[d] EXCEPT ![r] = Null]
    <3> SUFFICES ASSUME heap[o].kind = "vec"
                 PROVE  /\ buffer' \in [Buffer -> Raw \cup {Freed}]
                        /\ \A b \in Buffer : b # d => buffer'[b] = buffer[b]
                        /\ buffer'[d] = [buffer[d] EXCEPT ![r] = Null]
      OBVIOUS
    <3>1. /\ \A b \in Buffer : b # d => buffer'[b] = buffer[b]
          /\ buffer'[d] = [buffer[d] EXCEPT ![r] = Null]
      BY <1>v, <1>4, Facts
    <3>2. WalkedAt(heap, buffer, stack[n], o)
      BY <1>2, <1>3, Facts, ByObject
    <3>3. d # Null
      BY <1>v, FreedIs
    <3>4. buffer[d] # Freed /\ r <= Len(buffer[d])
      BY <3>2, <3>3 DEF WalkedAt, d, r
    <3>5. buffer[d] \in Seq(Value \cup {Junk})
      BY <1>v, <3>4, Facts, LiveTyped
    <3>6. buffer'[d] \in Raw
      <4>1. [buffer[d] EXCEPT ![r] = Null] \in Seq(Value \cup {Junk})
        BY <1>1, <1>3, <3>4, <3>5, NullValue
      <4> QED  BY <3>1, <4>1 DEF Raw
    <3>7. buffer' \in [Buffer -> Raw \cup {Freed}]
      <4>1. buffer' = [b \in Buffer |-> buffer'[b]]
        BY <1>4, Facts
      <4> QED  BY <3>1, <3>6, <4>1, Facts
    <3> QED  BY <3>1, <3>7
  <2> QED  BY <1>1, <1>4, <2>1 DEF Takes, n, o, r, d, below
<1>6. /\ MemorySound(heap, buffer', below) /\ r \in 1 .. MaxWord
      /\ \A k \in DOMAIN below : below[k].pc = "children"
      /\ v \in Value /\ HoldsIn(heap, buffer, stack, o, r) = v
      /\ \A p \in Obj, i \in Nat :
           HoldsIn(heap, buffer', below, p, i) = IF p = o /\ i = r THEN Null ELSE HoldsIn(heap, buffer, stack, p, i)
  <2>1. MemorySound(heap, buffer, stack)
    BY Facts
  <2> QED  BY <1>5, <2>1, TakeSound DEF v, d, n
<1>7. /\ MemorySound(heap', buffer', stack')
      /\ \A p \in Obj, i \in Nat :
           HoldsIn(heap', buffer', stack', p, i) = IF p = o /\ i = r THEN Null ELSE HoldsIn(heap, buffer, stack, p, i)
  <2>1. /\ MemorySound(heap, buffer', Append(below, Release(v)))
        /\ \A p \in Obj, i \in Nat : HoldsIn(heap, buffer', Append(below, Release(v)), p, i) = HoldsIn(heap, buffer', below, p, i)
    BY <1>6, PushSound
  <2> QED  BY <1>1, <1>4, <1>6, <2>1
<1>8. Typed'
  <2>1. MemoryTyped(heap', buffer', stack')
    BY <1>7 DEF MemorySound
  <2> QED  BY <1>1, <2>1, Facts DEF Typed
<1>9. CallSound(var', heap', stack', call')
  <2>1. CallSound(var, heap, stack, call)
    BY Facts
  <2>2. CallSound(var, heap, stack', call)
    BY <1>1, <2>1 DEF CallSound
  <2> QED  BY <1>1, <2>2
<1>10. FilledIn(heap', buffer', meant', call')
  <2>1. \A b \in Buffer : buffer'[b] = buffer[b] \/ Keeps(heap, stack, o, b) \/ buffer[b] = Freed
    <3> SUFFICES ASSUME NEW b \in Buffer, buffer'[b] # buffer[b] PROVE Keeps(heap, stack, o, b)
      OBVIOUS
    <3>1. heap[o].kind = "vec" /\ b = d
      BY <1>v, <1>4, Facts
    <3> QED  BY <1>2, <1>3, <3>1 DEF Keeps, VecIn, d
  <2>2. MemorySound(heap, buffer, stack) /\ FilledIn(heap, buffer, meant, call)
    BY Facts
  <2>3. o \in LiveIn(heap) /\ heap[o].count > 0 => FilledAt(heap, buffer', meant, call, o)
    BY <1>3
  <2>4. FilledIn(heap, buffer', meant, call)
    <3>1. Alters(heap, buffer, stack, meant, call, heap, buffer', meant, call, o)
      BY <1>3, <2>1 DEF Alters
    <3> QED  BY <2>2, <2>3, <3>1, FilledRest
  <2> QED  BY <1>1, <2>4
<1>11. CountsSound' /\ Abstract!Move
  <2>1. n + 1 \in Depth /\ r \in Cells
    BY <1>6, <1>k, Facts, Shallow DEF n, Cells
  <2>2. DOMAIN stack' = 1 .. n + 1 /\ stack'[n + 1] = Release(v) /\ \A k \in 1 .. n : stack'[k].pc = "children"
    <3>1. below \in Seq(Frame) /\ Len(below) = n /\ DOMAIN below = 1 .. n
      <4>1. below \in Seq(Frame)
        BY <1>6 DEF MemorySound, MemoryTyped
      <4> QED  BY <1>2, <4>1 DEF below
    <3>2. DOMAIN stack' = 1 .. n + 1 /\ stack'[n + 1] = Release(v) /\ \A k \in 1 .. n : stack'[k] = below[k]
      BY <1>2, <1>4, <3>1
    <3> QED  BY <1>6, <3>1, <3>2
  <2>3. PendingIn(stack, n + 1) = Null /\ PendingIn(stack', n + 1) = v
    BY <1>2, <2>2 DEF PendingIn, Release
  <2>4. \A k \in Depth : k # n + 1 => PendingIn(stack', k) = PendingIn(stack, k)
    BY <1>2, <1>k, <2>2 DEF PendingIn, Depth
  <2>5. /\ <<o, r>> \in DOMAIN Holding /\ <<Null, n + 1>> \in DOMAIN Holding /\ <<o, r>> # <<Null, n + 1>>
        /\ Holding[<<o, r>>] = v /\ Holding[<<Null, n + 1>>] = Null
        /\ Holding'[<<o, r>>] = Null /\ Holding'[<<Null, n + 1>>] = v
    <3>1. HoldsIn(heap', buffer', stack', o, r) = Null
      BY <1>3, <1>7
    <3> QED  BY <1>3, <1>6, <2>1, <2>3, <3>1, HoldingAt
  <2>6. \A k \in Depth : <<Null, k>> \in {<<o, r>>, <<Null, n + 1>>} \/ PendingIn(stack', k) = PendingIn(stack, k)
    BY <2>4
  <2>7. \A p \in Obj, i \in Cells : <<p, i>> \in {<<o, r>>, <<Null, n + 1>>}
                                    \/ HoldsIn(heap', buffer', stack', p, i) = HoldsIn(heap, buffer, stack, p, i)
    BY <1>7, CellsNat
  <2>8. LiveIn(heap') = LiveIn(heap) /\ \A w \in LiveIn(heap) : heap'[w].count = heap[w].count
    BY <1>1
  <2> QED  BY <1>1, <1>8, <2>5, <2>6, <2>7, <2>8, Facts, ExchangeStep
<1> QED  BY <1>7, <1>8, <1>9, <1>10, <1>11, MoveNext DEF Sound

\* A destructor frees its object: managed memory reclaims it.
LEMMA FreeStep ==
  ASSUME RuntimeInv, Free
  PROVE  Sound' /\ [Abstract!Next]_Abstract!vars
<1> DEFINE n == Len(stack)
           o == stack[n].o
           d == stack[n].data
<1>1. /\ mode' = "running" /\ stack # <<>> /\ stack[n].pc = "children" /\ stack[n].rest = 0
      /\ buffer' = [b \in Buffer |-> IF b = d THEN Freed ELSE buffer[b]]
      /\ heap' = [heap EXCEPT ![o] = Freed] /\ meant' = [meant EXCEPT ![o] = <<>>]
      /\ stack' = Front(stack) /\ UNCHANGED <<var, call>>
  BY DEF Free, Running, Top, Pop
<1>2. stack \in Seq(Frame) /\ n \in Nat \ {0} /\ n \in DOMAIN stack /\ DOMAIN stack = 1 .. n
  BY <1>1, Facts
<1>3. /\ o \in LiveIn(heap) /\ o \in Obj /\ Destroys(stack, n, o) /\ d \in Buffer \cup {Null}
      /\ heap[o].kind \in {"shared", "vec"}
  <2>1. o \in LiveIn(heap) /\ o \in Obj
    BY <1>1, <1>2, Facts DEF Nested, LiveIn
  <2>2. Destroys(stack, n, o)
    BY <1>1, <1>2 DEF Destroys
  <2> QED  BY <1>2, <2>1, <2>2, Facts, LiveTyped
<1>w. WalkedAt(heap, buffer, stack[n], o)
  BY <1>2, <1>3, Facts, ByObject
<1>4. Frees(heap, buffer, heap', buffer', stack, o) /\ heap'[o] = Freed /\ \A p \in Obj \ {o} : heap'[p] = heap[p]
  <2>1. heap'[o] = Freed /\ \A p \in Obj \ {o} : heap'[p] = heap[p]
    BY <1>1, <1>3, Facts
  <2>2. heap' \in [Obj -> Object \cup {Freed}]
    BY <1>1, Facts
  <2> QED  BY <1>1, <2>1, <2>2 DEF Frees, SavedFor
<1>5. /\ MemorySound(heap', buffer', stack') /\ LiveIn(heap') = LiveIn(heap) \ {o}
      /\ heap[o].count = 0
      /\ \A i \in Nat : HoldsIn(heap, buffer, stack, o, i) = Null
      /\ \A p \in Obj, i \in Nat : HoldsIn(heap', buffer', stack', p, i) = HoldsIn(heap, buffer, stack, p, i)
  <2>1. MemorySound(heap, buffer, stack)
    BY Facts
  <2>2. /\ MemorySound(heap', buffer', Front(stack)) /\ LiveIn(heap') = LiveIn(heap) \ {o}
        /\ heap[o].count = 0
        /\ \A i \in Nat : HoldsIn(heap, buffer, stack, o, i) = Null
        /\ \A p \in Obj, i \in Nat :
             HoldsIn(heap', buffer', Front(stack), p, i) = HoldsIn(heap, buffer, stack, p, i)
    <3> HIDE DEF o
    <3> QED  BY <1>4, <2>1, FreeSound
  <2> QED  BY <1>1, <2>2
<1>w2. heap[o].kind = "shared" => d = Null
  BY <1>w DEF WalkedAt
<1>s. /\ DOMAIN stack' = 1 .. n - 1 /\ \A k \in 1 .. n - 1 : stack'[k] = stack[k]
  BY <1>1, Facts, FrontIs
<1>p. stack[n].pc = "children"
  BY <1>1
<1> HIDE DEF d, o, n
<1>6. Typed'
  <2>1. MemoryTyped(heap', buffer', stack')
    BY <1>5 DEF MemorySound
  <2>2. meant' \in [Obj -> Seq(Value)]
    <3>1. <<>> \in Seq(Value)
      OBVIOUS
    <3> QED  BY <1>1, <3>1, Facts
  <2> QED  BY <1>1, <2>1, <2>2, Facts DEF Typed
<1>7. CallSound(var', heap', stack', call')
  <2>1. call # NoCall => call.o \in LiveIn(heap') /\ heap'[call.o] = heap[call.o]
    <3> SUFFICES ASSUME call # NoCall PROVE call.o \in LiveIn(heap') /\ heap'[call.o] = heap[call.o]
      OBVIOUS
    <3>1. VecIn(heap, call.o) /\ heap[call.o].count = 1
      BY Facts DEF CallSound
    <3> QED  BY <1>4, <1>5, <3>1 DEF VecIn, LiveIn
  <2>2. CallSound(var, heap', stack', call)
    BY <1>1, <2>1, CallKept
  <2> QED  BY <1>1, <2>2
<1>8. FilledIn(heap', buffer', meant', call')
  <2>1. \A b \in Buffer : buffer'[b] = buffer[b] \/ Keeps(heap, stack, o, b) \/ buffer[b] = Freed
    <3> SUFFICES ASSUME NEW b \in Buffer, buffer'[b] # buffer[b] PROVE Keeps(heap, stack, o, b)
      OBVIOUS
    <3>1. b = d
      BY <1>1
    <3>2. heap[o].kind = "vec"
      BY <1>3, <1>w2, <3>1, FreedIs
    <3> QED  BY <1>2, <1>3, <3>1, <3>2 DEF Keeps, VecIn, d
  <2>2. MemorySound(heap, buffer, stack) /\ FilledIn(heap, buffer, meant, call)
    BY Facts
  <2>3. \A p \in Obj \ {o} : heap'[p] = heap[p] /\ meant'[p] = meant[p]
    BY <1>1, <1>4, Facts
  <2>4. FilledIn(heap', buffer', meant', call)
    <3>1. Alters(heap, buffer, stack, meant, call, heap', buffer', meant', call, o)
      BY <1>3, <2>1, <2>3 DEF Alters
    <3>2. o \in LiveIn(heap') /\ heap'[o].count > 0 => FilledAt(heap', buffer', meant', call, o)
      BY <1>5
    <3> QED  BY <2>2, <3>1, <3>2, FilledRest
  <2> QED  BY <1>1, <2>4
<1>9. Holding' = Holding
  <2>1. \A k \in Depth : PendingIn(stack', k) = PendingIn(stack, k)
    BY <1>2, <1>p, <1>s DEF PendingIn, Depth
  <2>2. \A r \in DOMAIN Holding \ {} : Holding'[r] = Holding[r]
    BY <1>1, <1>5, <2>1, CellsNat, PlacesElse
  <2>3. Holding \in [Abstract!Place -> Obj \cup {Null}] /\ Holding' \in [Abstract!Place -> Obj \cup {Null}]
    BY <1>6, Facts, HeldTyped
  <2> QED  BY <2>2, <2>3
<1>10. CountsSound'
  <2>1. \A w \in LiveIn(heap) : heap[w].count = Ways(Holding, w) /\ heap[w].count <= MaxCount
    BY Facts, CountsAre
  <2>2. ASSUME NEW w \in LiveIn(heap') PROVE heap'[w].count = Ways(Holding', w) /\ heap'[w].count <= MaxCount
    <3>1. w \in LiveIn(heap) /\ heap'[w] = heap[w]
      BY <1>4, <1>5 DEF LiveIn
    <3> QED  BY <1>9, <2>1, <3>1
  <2> QED  BY <1>1, <2>2, CountsAre
<1>11. Abstract!Reclaim(o)
  <2>1. o \in Live /\ Live' = Live \ {o}
    BY <1>3, <1>5, LiveIs
  <2>2. Abstract!Owned(o) = 0
    BY <1>3, <1>5, Facts, CountsAre, OwnedIs
  <2>3. \A i \in Cells : Holding[<<o, i>>] = Null
    BY <1>3, <1>5, CellsNat, HoldingAt
  <2> QED  BY <1>9, <2>1, <2>2, <2>3 DEF Abstract!Reclaim
<1> QED  BY <1>3, <1>5, <1>6, <1>7, <1>8, <1>10, <1>11 DEF Sound, Abstract!Next

\* A place gets an object, which has one owner more.
LEMMA GainStep ==
  ASSUME Typed, Typed', CountsSound, LiveIn(heap') = LiveIn(heap), mode' = "running",
         NEW o \in LiveIn(heap), heap'[o].count = heap[o].count + 1, heap[o].count < MaxCount,
         \A w \in LiveIn(heap) \ {o} : heap'[w].count = heap[w].count,
         NEW p \in DOMAIN Holding, Holding[p] = Null, Holding'[p] = o,
         \A r \in DOMAIN Holding \ {p} : Holding'[r] = Holding[r]
  PROVE  CountsSound' /\ [Abstract!Next]_Abstract!vars
<1>0. o \in Obj /\ o # Null
  BY FreedIs DEF LiveIn
<1>1. ASSUME NEW w \in Obj PROVE Ways(Holding', w) = IF w = o THEN Ways(Holding, w) + 1 ELSE Ways(Holding, w)
  <2>1. Ways(Holding', w) = Ways(Holding, w) - Hit(Holding[p], w) + Hit(Holding'[p], w)
    BY WaysOf, WaysReplace
  <2>2. w # Null
    BY FreedIs
  <2>3. Hit(Holding[p], w) = 0 /\ Hit(Holding'[p], w) = IF w = o THEN 1 ELSE 0
    BY <2>2 DEF Hit
  <2> QED  BY <2>1, <2>3, WaysOf
<1>2. CountsSound'
  <2>1. \A w \in LiveIn(heap) : heap[w].count = Ways(Holding, w) /\ heap[w].count <= MaxCount
    BY CountsAre
  <2>2. ASSUME NEW w \in LiveIn(heap) PROVE heap'[w].count = Ways(Holding', w) /\ heap'[w].count <= MaxCount
    <3>1. w \in Obj /\ MaxCount \in Nat /\ Ways(Holding, w) \in Nat
      BY RuntimeAssumption, WaysOf DEF LiveIn
    <3>2. CASE w = o
      BY <1>1, <2>1, <3>1, <3>2
    <3>3. CASE w # o
      BY <1>1, <2>1, <3>1, <3>3
    <3> QED  BY <3>2, <3>3
  <2> QED  BY <2>2, CountsAre
<1>3. Abstract!Share(p, o)
  <2>1. Holding \in [Abstract!Place -> Obj \cup {Null}] /\ Holding' \in [Abstract!Place -> Obj \cup {Null}]
    BY HeldTyped
  <2>2. Holding' = [Holding EXCEPT ![p] = o]
    BY <2>1
  <2>3. Live' = Live /\ o \in Live
    BY LiveIs
  <2> QED  BY <1>0, <2>2, <2>3 DEF Abstract!Share
<1>4. p \in Abstract!Place
  BY WaysOf
<1> QED  BY <1>0, <1>2, <1>3, <1>4 DEF Abstract!Next

\* When nothing runs, no object is being destroyed.
LEMMA ReadyFacts ==
  ASSUME RuntimeInv, Ready
  PROVE  /\ mode = "running" /\ stack = <<>> /\ call = NoCall
         /\ \A o \in LiveIn(heap) : heap[o].count > 0 /\ heap[o].count \in Nat
<1>1. mode = "running" /\ stack = <<>> /\ call = NoCall
  BY DEF Ready, Running
<1>2. ASSUME NEW o \in LiveIn(heap) PROVE heap[o].count > 0 /\ heap[o].count \in Nat
  <2>1. heap[o].count \in Nat
    BY Facts, LiveTyped
  <2>2. heap[o].count # 0
    <3>1. DOMAIN stack = {}
      BY <1>1
    <3> QED  BY <3>1, Facts DEF Nested
  <2> QED  BY <2>1, <2>2
<1> QED  BY <1>1, <1>2

\* Copy and Read share an object, or trap when its counter is full.
LEMMA AcquireStep ==
  ASSUME RuntimeInv, NEW x \in Var, NEW o, Acquire(x, o)
  PROVE  Sound' /\ [Abstract!Next]_Abstract!vars
<1>1. /\ mode = "running" /\ stack = <<>> /\ call = NoCall /\ var[x] = Null /\ IsShared(o)
      /\ UNCHANGED <<buffer, stack, call, meant>>
  BY ReadyFacts DEF Acquire
<1>2. /\ o \in LiveIn(heap) /\ o \in Obj /\ heap[o].kind = "shared" /\ heap[o] \in Object
      /\ heap[o].count > 0 /\ heap[o].count \in Nat /\ heap[o].count <= MaxCount
      /\ heap[o].cells \in Seq(Value) /\ MaxCount \in Nat
  <2>1. o \in LiveIn(heap) /\ o \in Obj /\ heap[o].kind = "shared"
    BY <1>1 DEF IsShared, LiveIn
  <2>2. heap[o].count > 0 /\ heap[o].count \in Nat
    BY <2>1, ReadyFacts DEF Acquire
  <2>3. heap[o].count <= MaxCount /\ MaxCount \in Nat
    BY <2>1, Facts, CountsAre, RuntimeAssumption
  <2> QED  BY <2>1, <2>2, <2>3, Facts, LiveTyped
<1>f. heap[o].data = Null /\ heap[o].used = 0
  <2>1. FormedAt(heap, buffer, o)
    BY <1>2, Facts, ByObject
  <2> QED  BY <1>2, <2>1 DEF FormedAt
<1>3. CASE RetainRefused(o)
  <2>1. mode' = "trapped" /\ heap' = heap /\ var' = var /\ heap[o].count = MaxCount
    BY <1>2, <1>3 DEF Acquire, Retain, RetainRefused
  <2>2. Holding' = Holding
    BY <1>1, <2>1, HoldingIs
  <2>3. CountsSound'
    <3>1. \A w \in LiveIn(heap) : heap[w].count = Ways(Holding, w) /\ heap[w].count <= MaxCount
      BY Facts, CountsAre
    <3> QED  BY <1>2, <2>1, <2>2, <3>1, CountsAre
  <2>4. Typed' /\ MemorySound(heap', buffer', stack') /\ CallSound(var', heap', stack', call')
        /\ FilledIn(heap', buffer', meant', call')
    BY <1>1, <2>1, Facts DEF Typed
  <2>5. UNCHANGED Abstract!vars
    BY <2>1, <2>2, LiveIs DEF Abstract!vars
  <2> QED  BY <2>3, <2>4, <2>5 DEF Sound
<1>4. CASE ~RetainRefused(o)
  <2>1. /\ mode' = "running" /\ heap' = [heap EXCEPT ![o].count = @ + 1] /\ var' = [var EXCEPT ![x] = o]
        /\ heap[o].count < MaxCount
    BY <1>1, <1>2, <1>4 DEF Acquire, Retain, RetainRefused
  <2>2. /\ SavedFor(heap, heap', o) /\ heap'[o] \in Object
        /\ heap'[o].kind = heap[o].kind /\ heap'[o].cells = heap[o].cells
        /\ heap'[o].data = heap[o].data /\ heap'[o].cap = heap[o].cap /\ heap'[o].used = heap[o].used
        /\ heap'[o].count = heap[o].count + 1
        /\ \A p \in Obj \ {o} : heap'[p] = heap[p]
    <3>1. heap'[o] = [heap[o] EXCEPT !.count = @ + 1] /\ \A p \in Obj \ {o} : heap'[p] = heap[p]
      BY <1>2, <2>1, Facts
    <3>3. heap'[o] \in Object
      BY <1>2, <3>1 DEF Object
    <3>4. heap' \in [Obj -> Object \cup {Freed}]
      BY <1>2, <2>1, <3>1, <3>3, Facts
    <3> QED  BY <1>2, <3>1, <3>3, <3>4 DEF SavedFor, Object
  <2>3. Touches(heap, buffer, heap', buffer', o)
    <3>1. buffer' = buffer /\ buffer \in [Buffer -> Raw \cup {Freed}]
      BY <1>1, Facts
    <3> QED  BY <1>2, <1>f, <2>2, <3>1 DEF Touches
  <2>4. /\ MemorySound(heap', buffer', stack') /\ LiveIn(heap') = LiveIn(heap)
        /\ \A p \in Obj, i \in Nat : HoldsIn(heap', buffer', stack', p, i) = HoldsIn(heap, buffer, stack, p, i)
    <3>1. MemorySound(heap, buffer, stack)
      BY Facts
    <3>2. /\ MemorySound(heap', buffer', stack) /\ LiveIn(heap') = LiveIn(heap)
          /\ \A p \in Obj, i \in Nat : HoldsIn(heap', buffer', stack, p, i) = HoldsIn(heap, buffer, stack, p, i)
      BY <1>f, <2>3, <3>1, TouchSound
    <3> QED  BY <1>1, <3>2
  <2>5. Typed'
    <3>1. MemoryTyped(heap', buffer', stack')
      BY <2>4 DEF MemorySound
    <3>2. var' \in [Var -> Value]
      BY <1>2, <2>1, Facts DEF Value
    <3> QED  BY <1>1, <2>1, <3>1, <3>2, Facts DEF Typed
  <2>6. CallSound(var', heap', stack', call')
    BY <1>1, NoCallSound
  <2>7. FilledIn(heap', buffer', meant', call')
    <3>1. meant[o] = heap[o].cells
      BY <1>2, Facts DEF FilledIn
    <3>2. FilledAt(heap', buffer', meant', call', o)
      BY <1>1, <1>2, <2>2, <3>1 DEF FilledAt
    <3>3. Alters(heap, buffer, stack, meant, call, heap', buffer', meant', call', o)
      BY <1>1, <1>2, <2>2 DEF Alters
    <3> QED  BY <3>2, <3>3, Facts, FilledRest
  <2>8. CountsSound' /\ [Abstract!Next]_Abstract!vars
    <3>1. <<x, 0>> \in DOMAIN Holding /\ Holding[<<x, 0>>] = Null /\ Holding'[<<x, 0>>] = o
      <4>1. var'[x] = o
        BY <2>1, Facts
      <4> QED  BY <1>1, <4>1, HoldingAt
    <3>2. \A r \in DOMAIN Holding \ {<<x, 0>>} : Holding'[r] = Holding[r]
      <4>1. \A y \in Var : <<y, 0>> \in {<<x, 0>>} \/ var'[y] = var[y]
        BY <2>1, Facts
      <4>2. call'.item = call.item /\ \A k \in Depth : PendingIn(stack', k) = PendingIn(stack, k)
        BY <1>1
      <4> QED  BY <2>4, <4>1, <4>2, CellsNat, PlacesElse
    <3> QED  BY <1>2, <2>1, <2>2, <2>4, <2>5, <3>1, <3>2, Facts, GainStep DEF LiveIn
  <2> QED  BY <2>4, <2>5, <2>6, <2>7, <2>8 DEF Sound
<1> QED  BY <1>3, <1>4

\* No place holds what does not live.
LEMMA DeadUnheld ==
  ASSUME RuntimeInv, NEW o \in Obj, o \notin LiveIn(heap)
  PROVE  Ways(Holding, o) = 0 /\ \A p \in DOMAIN Holding : Holding[p] # o
<1>1. ASSUME NEW p \in DOMAIN Holding PROVE Holding[p] # o
  BY HeldLives, FreedIs
<1> QED  BY <1>1, WaysOf, WaysNat

\* A new object has one owner, the others have as many as they had.
LEMMA MakeStep ==
  ASSUME RuntimeInv, Typed', NEW o \in Obj, o \notin LiveIn(heap), LiveIn(heap') = LiveIn(heap) \cup {o},
         mode' = "running", heap'[o].count = 1, \A w \in Obj \ {o} : heap'[w] = heap[w],
         Ways(Holding', o) = 1, \A w \in Obj \ {o} : Ways(Holding', w) = Ways(Holding, w)
  PROVE  CountsSound' /\ [Abstract!Next]_Abstract!vars
<1>1. CountsSound'
  <2>1. \A w \in LiveIn(heap) : heap[w].count = Ways(Holding, w) /\ heap[w].count <= MaxCount
    BY Facts, CountsAre
  <2>2. ASSUME NEW w \in LiveIn(heap') PROVE heap'[w].count = Ways(Holding', w) /\ heap'[w].count <= MaxCount
    <3>1. CASE w = o
      BY <3>1, RuntimeAssumption
    <3>2. CASE w # o
      BY <2>1, <3>2 DEF LiveIn
    <3> QED  BY <3>1, <3>2
  <2> QED  BY <2>2, CountsAre
<1>2. Abstract!Make(o)
  <2>1. Holding' \in [Abstract!Place -> Obj \cup {Null}]
    BY HeldTyped
  <2>2. o \notin Live /\ Live' = Live \cup {o}
    BY LiveIs
  <2>3. Abstract!Owned(o)' = 1 /\ Abstract!SameOwners(Obj \ {o})
    BY OwnedIs DEF Abstract!SameOwners
  <2> QED  BY <2>1, <2>2, <2>3 DEF Abstract!Make
<1> QED  BY <1>1, <1>2 DEF Abstract!Next

\* What an allocation does to memory.
LEMMA AllocateSound ==
  ASSUME RuntimeInv, Ready, NEW x, NEW o \in Obj, NEW object \in Object, Allocate(x, o, object),
         object.count = 1, object.data = Null,
         object.kind = "shared" => object.used = 0 /\ object.cap = 0 /\ Len(object.cells) <= MaxWord,
         object.kind = "vec" => object.used = 0 /\ object.cap = 0 /\ object.cells = <<>>,
         var' \in [Var -> Value]
  PROVE  /\ Typed' /\ MemorySound(heap', buffer', stack') /\ CallSound(var', heap', stack', call')
         /\ FilledIn(heap', buffer', meant', call')
         /\ mode' = "running" /\ o \notin LiveIn(heap) /\ LiveIn(heap') = LiveIn(heap) \cup {o}
         /\ heap'[o] = object /\ \A w \in Obj \ {o} : heap'[w] = heap[w]
         /\ \A p \in Obj \ {o}, i \in Nat : HoldsIn(heap', buffer', stack', p, i) = HoldsIn(heap, buffer, stack, p, i)
         /\ \A i \in Nat : /\ HoldsIn(heap, buffer, stack, o, i) = Null
                           /\ HoldsIn(heap', buffer', stack', o, i) = Handles(object.cells, i)
<1>1. /\ mode' = "running" /\ stack = <<>> /\ call = NoCall /\ heap[o] = Freed
      /\ heap' = [heap EXCEPT ![o] = object] /\ meant' = [meant EXCEPT ![o] = object.cells]
      /\ UNCHANGED <<buffer, stack, call>>
  BY ReadyFacts DEF Allocate
<1>2. o \notin LiveIn(heap)
  BY <1>1 DEF LiveIn
<1>3. /\ SavedFor(heap, heap', o) /\ heap'[o] = object /\ \A w \in Obj \ {o} : heap'[w] = heap[w]
  BY <1>1, Facts DEF SavedFor
<1>o. object.kind \in {"shared", "vec"} /\ object.cells \in Seq(Value)
  BY DEF Object
<1>4. FormedAt(heap', buffer, o)
  <2>1. object.used <= object.cap
    BY <1>o
  <2>2. object.cap <= MaxWord
    <3>1. object.cap = 0 /\ MaxWord \in Nat
      BY <1>o, RuntimeAssumption
    <3> QED  BY <3>1
  <2>3. object.cap = 0 /\ object.count <= 1
    BY <1>o
  <2> QED  BY <1>3, <2>1, <2>2, <2>3 DEF FormedAt
<1>5. /\ MemorySound(heap', buffer', stack') /\ LiveIn(heap') = LiveIn(heap) \cup {o}
      /\ \A p \in Obj \ {o}, i \in Nat : HoldsIn(heap', buffer', stack', p, i) = HoldsIn(heap, buffer, stack, p, i)
      /\ \A i \in Nat : /\ HoldsIn(heap, buffer, stack, o, i) = Null
                        /\ HoldsIn(heap', buffer', stack', o, i) = Handles(object.cells, i)
  <2>1. MemorySound(heap, buffer, stack)
    BY Facts
  <2>2. heap'[o] \in Object /\ heap'[o].count = 1 /\ heap'[o].data = Null /\ heap'[o].cells = object.cells
    BY <1>3
  <2>3. /\ MemorySound(heap', buffer, stack) /\ LiveIn(heap') = LiveIn(heap) \cup {o}
        /\ \A p \in Obj \ {o}, i \in Nat : HoldsIn(heap', buffer, stack, p, i) = HoldsIn(heap, buffer, stack, p, i)
        /\ \A i \in Nat : /\ HoldsIn(heap, buffer, stack, o, i) = Null
                          /\ HoldsIn(heap', buffer, stack, o, i) = Handles(heap'[o].cells, i)
    BY <1>2, <1>3, <1>4, <2>1, <2>2, NewSound
  <2> QED  BY <1>1, <2>2, <2>3
<1>6. Typed'
  <2>1. MemoryTyped(heap', buffer', stack')
    BY <1>5 DEF MemorySound
  <2>2. meant' \in [Obj -> Seq(Value)]
    BY <1>1, <1>o, Facts
  <2> QED  BY <1>1, <2>1, <2>2, Facts DEF Typed
<1>7. CallSound(var', heap', stack', call')
  BY <1>1, NoCallSound
<1>8. FilledIn(heap', buffer', meant', call')
  <2>1. meant'[o] = object.cells
    BY <1>1, Facts
  <2>2. ASSUME object.kind = "vec" PROVE Filled(Storage(heap', buffer', o), 0, <<>>, NoCall)
    <3>1. Storage(heap', buffer', o) = <<>>
      BY <1>3 DEF Storage
    <3>2. \A i \in Positive : Handles(<<>>, i) = Element(<<>>, i)
      BY DEF Handles, Element, Positive
    <3> QED  BY <3>1, <3>2, FilledIs
  <2>3. (IF call'.o = o THEN call' ELSE NoCall) = NoCall
    BY <1>1
  <2>4. FilledAt(heap', buffer', meant', call', o)
    <3>1. <<>> \in Seq(Obj)
      OBVIOUS
    <3> QED  BY <1>3, <2>1, <2>2, <2>3, <3>1 DEF FilledAt
  <2>5. Alters(heap, buffer, stack, meant, call, heap', buffer', meant', call', o)
    <3>1. \A p \in Obj \ {o} : heap'[p] = heap[p] /\ meant'[p] = meant[p]
      BY <1>1, <1>3, Facts
    <3> QED  BY <1>1, <3>1 DEF Alters
  <2> QED  BY <2>4, <2>5, Facts, FilledRest
<1> QED  BY <1>1, <1>2, <1>3, <1>5, <1>6, <1>7, <1>8

\* An empty Vec is made.
LEMMA NewVecStep ==
  ASSUME RuntimeInv, NEW x \in Var, NEW o \in Obj, NewVec(x, o)
  PROVE  Sound' /\ [Abstract!Next]_Abstract!vars
<1>1. Ready /\ var[x] = Null /\ Allocate(x, o, EmptyVec) /\ var' = [var EXCEPT ![x] = o]
  BY DEF NewVec
<1>2. EmptyVec \in Object
  BY DEF EmptyVec, Object
<1>v. var' \in [Var -> Value] /\ var'[x] = o
  BY <1>1, Facts DEF Value
<1>3. /\ Typed' /\ MemorySound(heap', buffer', stack') /\ CallSound(var', heap', stack', call')
      /\ FilledIn(heap', buffer', meant', call')
      /\ mode' = "running" /\ o \notin LiveIn(heap) /\ LiveIn(heap') = LiveIn(heap) \cup {o}
      /\ heap'[o] = EmptyVec /\ \A w \in Obj \ {o} : heap'[w] = heap[w]
      /\ \A p \in Obj \ {o}, i \in Nat : HoldsIn(heap', buffer', stack', p, i) = HoldsIn(heap, buffer, stack, p, i)
      /\ \A i \in Nat : /\ HoldsIn(heap, buffer, stack, o, i) = Null
                        /\ HoldsIn(heap', buffer', stack', o, i) = Handles(<<>>, i)
  <2>1. /\ EmptyVec.count = 1 /\ EmptyVec.data = Null /\ EmptyVec.kind = "vec" /\ EmptyVec.used = 0 /\ EmptyVec.cap = 0
        /\ EmptyVec.cells = <<>>
    BY DEF EmptyVec
  <2>2. /\ EmptyVec.kind = "shared" => EmptyVec.used = 0 /\ EmptyVec.cap = 0 /\ Len(EmptyVec.cells) <= MaxWord
        /\ EmptyVec.kind = "vec" => EmptyVec.used = 0 /\ EmptyVec.cap = 0 /\ EmptyVec.cells = <<>>
    BY <2>1
  <2>3. /\ Typed' /\ MemorySound(heap', buffer', stack') /\ CallSound(var', heap', stack', call')
        /\ FilledIn(heap', buffer', meant', call')
        /\ mode' = "running" /\ o \notin LiveIn(heap) /\ LiveIn(heap') = LiveIn(heap) \cup {o}
        /\ heap'[o] = EmptyVec /\ \A w \in Obj \ {o} : heap'[w] = heap[w]
        /\ \A p \in Obj \ {o}, i \in Nat : HoldsIn(heap', buffer', stack', p, i) = HoldsIn(heap, buffer, stack, p, i)
        /\ \A i \in Nat : /\ HoldsIn(heap, buffer, stack, o, i) = Null
                          /\ HoldsIn(heap', buffer', stack', o, i) = Handles(EmptyVec.cells, i)
    <3>1. PICK e \in Object : e = EmptyVec
      BY <1>2
    <3>2. Allocate(x, o, e)
      BY <1>1, <3>1
    <3>3. /\ e.count = 1 /\ e.data = Null
          /\ e.kind = "shared" => e.used = 0 /\ e.cap = 0 /\ Len(e.cells) <= MaxWord
          /\ e.kind = "vec" => e.used = 0 /\ e.cap = 0 /\ e.cells = <<>>
      BY <2>1, <2>2, <3>1
    <3>5. Ready /\ var' \in [Var -> Value]
      BY <1>1, <1>v
    <3>4. /\ Typed' /\ MemorySound(heap', buffer', stack') /\ CallSound(var', heap', stack', call')
          /\ FilledIn(heap', buffer', meant', call')
          /\ mode' = "running" /\ o \notin LiveIn(heap) /\ LiveIn(heap') = LiveIn(heap) \cup {o}
          /\ heap'[o] = e /\ \A w \in Obj \ {o} : heap'[w] = heap[w]
          /\ \A p \in Obj \ {o}, i \in Nat : HoldsIn(heap', buffer', stack', p, i) = HoldsIn(heap, buffer, stack, p, i)
          /\ \A i \in Nat : /\ HoldsIn(heap, buffer, stack, o, i) = Null
                            /\ HoldsIn(heap', buffer', stack', o, i) = Handles(e.cells, i)
      BY ZenonT(40), <3>2, <3>3, <3>5, AllocateSound
    <3> QED  BY <3>1, <3>4
  <2> QED  BY <2>1, <2>3
<1>4. \A i \in Nat : Handles(<<>>, i) = Null
  BY DEF Handles
<1>5. <<x, 0>> \in DOMAIN Holding /\ Holding[<<x, 0>>] = Null /\ Holding'[<<x, 0>>] = o
  BY <1>1, <1>v, HoldingAt
<1>6. \A r \in DOMAIN Holding \ {<<x, 0>>} : Holding'[r] = Holding[r]
  <2>1. \A y \in Var : <<y, 0>> \in {<<x, 0>>} \/ var'[y] = var[y]
    BY <1>1, Facts
  <2>2. call'.item = call.item /\ \A k \in Depth : PendingIn(stack', k) = PendingIn(stack, k)
    BY <1>1 DEF Allocate
  <2>3. \A p \in Obj, i \in Cells : HoldsIn(heap', buffer', stack', p, i) = HoldsIn(heap, buffer, stack, p, i)
    BY <1>3, <1>4, CellsNat
  <2> QED  BY <2>1, <2>2, <2>3, PlacesElse
<1>7. ASSUME NEW w \in Obj PROVE Ways(Holding', w) = IF w = o THEN 1 ELSE Ways(Holding, w)
  <2>1. Ways(Holding', w) = Ways(Holding, w) - Hit(Null, w) + Hit(o, w)
    BY <1>5, <1>6, WaysOf, WaysReplace
  <2>2. Hit(Null, w) = 0 /\ Hit(o, w) = IF w = o THEN 1 ELSE 0
    BY FreedIs DEF Hit
  <2>3. Ways(Holding, o) = 0
    BY <1>3, DeadUnheld
  <2> QED  BY <2>1, <2>2, <2>3, WaysOf
<1>8. CountsSound' /\ [Abstract!Next]_Abstract!vars
  <2>1. heap'[o].count = 1
    BY <1>3 DEF EmptyVec
  <2> QED  BY <1>3, <1>7, <2>1, MakeStep
<1> QED  BY <1>3, <1>8 DEF Sound

\* An object is made, whose fields take the handles of variables.
LEMMA ConstructStep ==
  ASSUME RuntimeInv, NEW x \in Var, NEW o \in Obj, NEW n \in Index, NEW parts \in [1 .. n -> Var],
         Construct(x, parts, o)
  PROVE  Sound' /\ [Abstract!Next]_Abstract!vars
<1> DEFINE cells == [i \in 1 .. n |-> var[parts[i]]]
           taken == {parts[i] : i \in 1 .. n}
<1>1. /\ Ready /\ var[x] = Null /\ x \notin taken /\ Allocate(x, o, Shared(cells))
      /\ \A i, j \in 1 .. n : parts[i] = parts[j] => i = j
      /\ var' = [y \in Var |-> IF y = x THEN o ELSE IF y \in taken THEN Null ELSE var[y]]
  <2>1. DOMAIN parts = 1 .. n
    OBVIOUS
  <2> QED  BY <2>1 DEF Construct, IsInjective
<1>2. n \in Nat /\ n <= MaxWord /\ MaxWord \in Nat
  BY RuntimeAssumption DEF Index
<1>3. cells \in Seq(Value) /\ Len(cells) = n /\ DOMAIN cells = 1 .. n /\ \A i \in 1 .. n : cells[i] = var[parts[i]]
  <2>1. \A i \in 1 .. n : var[parts[i]] \in Value
    BY Facts
  <2>2. cells \in [1 .. n -> Value]
    BY <2>1
  <2> QED  BY <1>2, <2>2
<1>t. \A y \in Var : y \in taken <=> \E i \in 1 .. n : y = parts[i]
  OBVIOUS
<1> HIDE DEF cells, taken
<1>4. Shared(cells) \in Object
  BY <1>3 DEF Shared, Object
<1>5. var' \in [Var -> Value] /\ var'[x] = o /\ \A y \in Var : y # x => var'[y] = IF y \in taken THEN Null ELSE var[y]
  BY <1>1, Facts DEF Value
<1>6. /\ Typed' /\ MemorySound(heap', buffer', stack') /\ CallSound(var', heap', stack', call')
      /\ FilledIn(heap', buffer', meant', call')
      /\ mode' = "running" /\ o \notin LiveIn(heap) /\ LiveIn(heap') = LiveIn(heap) \cup {o}
      /\ heap'[o].count = 1 /\ \A w \in Obj \ {o} : heap'[w] = heap[w]
      /\ \A p \in Obj \ {o}, i \in Nat : HoldsIn(heap', buffer', stack', p, i) = HoldsIn(heap, buffer, stack, p, i)
      /\ \A i \in Nat : /\ HoldsIn(heap, buffer, stack, o, i) = Null
                        /\ HoldsIn(heap', buffer', stack', o, i) = Handles(cells, i)
  <2>1. /\ Shared(cells).count = 1 /\ Shared(cells).data = Null /\ Shared(cells).kind = "shared"
        /\ Shared(cells).used = 0 /\ Shared(cells).cap = 0 /\ Shared(cells).cells = cells
    BY DEF Shared
  <2>2. /\ Shared(cells).kind = "shared" => Shared(cells).used = 0 /\ Shared(cells).cap = 0 /\ Len(Shared(cells).cells) <= MaxWord
        /\ Shared(cells).kind = "vec" => Shared(cells).used = 0 /\ Shared(cells).cap = 0 /\ Shared(cells).cells = <<>>
    BY <1>2, <1>3, <2>1
  <2>3. /\ Typed' /\ MemorySound(heap', buffer', stack') /\ CallSound(var', heap', stack', call')
        /\ FilledIn(heap', buffer', meant', call')
        /\ mode' = "running" /\ o \notin LiveIn(heap) /\ LiveIn(heap') = LiveIn(heap) \cup {o}
        /\ heap'[o] = Shared(cells) /\ \A w \in Obj \ {o} : heap'[w] = heap[w]
        /\ \A p \in Obj \ {o}, i \in Nat : HoldsIn(heap', buffer', stack', p, i) = HoldsIn(heap, buffer, stack, p, i)
        /\ \A i \in Nat : /\ HoldsIn(heap, buffer, stack, o, i) = Null
                          /\ HoldsIn(heap', buffer', stack', o, i) = Handles(Shared(cells).cells, i)
    BY ZenonT(40), <1>1, <1>4, <1>5, <2>1, <2>2, AllocateSound
  <2> QED  BY <2>1, <2>3
\* What the places of the parts, of the new object and of its cells hold.
<1>7. /\ <<x, 0>> \in DOMAIN Holding /\ Holding[<<x, 0>>] = Null /\ Holding'[<<x, 0>>] = o
      /\ \A i \in 1 .. n : /\ <<parts[i], 0>> \in DOMAIN Holding /\ Holding'[<<parts[i], 0>>] = Null
                           /\ Holding[<<parts[i], 0>>] = var[parts[i]]
      /\ \A i \in Cells : /\ <<o, i>> \in DOMAIN Holding /\ Holding[<<o, i>>] = Null
                          /\ Holding'[<<o, i>>] = IF i \in 1 .. n THEN var[parts[i]] ELSE Null
  <2>1. \A i \in 1 .. n : parts[i] \in Var /\ parts[i] \in taken /\ parts[i] # x
    BY <1>1, <1>t
  <2>2. \A i \in Cells : Handles(cells, i) = IF i \in 1 .. n THEN var[parts[i]] ELSE Null
    <3>1. \A i \in 1 .. n : var[parts[i]] \in Value
      BY <2>1, Facts
    <3> QED  BY <1>3, <3>1 DEF Handles, Value
  <2>3. \A i \in Cells : HoldsIn(heap, buffer, stack, o, i) = Null /\ HoldsIn(heap', buffer', stack', o, i) = Handles(cells, i)
    BY <1>6, CellsNat
  <2>4. \A i \in 1 .. n : var'[parts[i]] = Null
    BY <1>5, <2>1
  <2> QED  BY <1>1, <1>5, <2>1, <2>2, <2>3, <2>4, HoldingAt
<1>8. ASSUME NEW r \in DOMAIN Holding, r # <<x, 0>>, \A i \in 1 .. n : r # <<parts[i], 0>>,
             \A i \in Cells : r # <<o, i>>
      PROVE  Holding'[r] = Holding[r]
  <2> DEFINE S == {<<x, 0>>} \cup {<<parts[i], 0>> : i \in 1 .. n} \cup {<<o, i>> : i \in Cells}
  <2>1. \A y \in Var : <<y, 0>> \in S \/ var'[y] = var[y]
    BY <1>5, <1>t
  <2>2. call'.item = call.item /\ \A k \in Depth : PendingIn(stack', k) = PendingIn(stack, k)
    BY <1>1 DEF Allocate
  <2>3. \A p \in Obj, i \in Cells : <<p, i>> \in S \/ HoldsIn(heap', buffer', stack', p, i) = HoldsIn(heap, buffer, stack, p, i)
    BY <1>6, CellsNat
  <2>4. r \notin S
    BY <1>8
  <2> HIDE DEF S
  <2>5. \A p \in DOMAIN Holding \ S : Holding'[p] = Holding[p]
    BY <2>1, <2>2, <2>3, PlacesElse
  <2> QED  BY <2>4, <2>5
<1>9. Ways(Holding', o) = 1
  <2>1. ASSUME NEW r \in DOMAIN Holding, r # <<x, 0>> PROVE Holding'[r] # o
    <3>1. CASE \E i \in 1 .. n : r = <<parts[i], 0>>
      BY <1>7, <3>1, FreedIs
    <3>2. CASE \E i \in Cells : r = <<o, i>>
      <4>1. PICK i \in Cells : r = <<o, i>>
        BY <3>2
      <4>2. \A j \in 1 .. n : var[parts[j]] # o
        BY <1>6, <1>7, DeadUnheld
      <4> QED  BY <1>7, <4>1, <4>2, FreedIs
    <3>3. CASE (\A i \in 1 .. n : r # <<parts[i], 0>>) /\ \A i \in Cells : r # <<o, i>>
      BY <1>6, <1>8, <2>1, <3>3, DeadUnheld
    <3> QED  BY <3>1, <3>2, <3>3
  <2>2. {r \in DOMAIN Holding' : Holding'[r] = o} = {<<x, 0>>}
    BY <1>7, <2>1, HoldingAt
  <2> QED  BY <2>2, FS_Singleton DEF Ways
<1>10. ASSUME NEW w \in Obj \ {o} PROVE Ways(Holding', w) = Ways(Holding, w)
  <2> DEFINE S == {r \in DOMAIN Holding : Holding[r] = w}
             T == {r \in DOMAIN Holding' : Holding'[r] = w}
             part(r) == CHOOSE i \in 1 .. n : r = <<parts[i], 0>>
             f == [r \in S |-> IF \E i \in 1 .. n : r = <<parts[i], 0>> THEN <<o, part(r)>> ELSE r]
  <2>1. /\ w # Null /\ w # o /\ DOMAIN Holding' = DOMAIN Holding
        /\ \A i \in 1 .. n : i \in Cells
    BY <1>2, FreedIs, HoldingAt DEF Cells
  <2>2. \A i \in 1 .. n : part(<<parts[i], 0>>) = i
    <3> SUFFICES ASSUME NEW i \in 1 .. n PROVE part(<<parts[i], 0>>) = i
      OBVIOUS
    <3> DEFINE j == part(<<parts[i], 0>>)
    <3>1. j \in 1 .. n /\ <<parts[i], 0>> = <<parts[j], 0>>
      OBVIOUS
    <3> HIDE DEF j
    <3>2. parts[i] = parts[j]
      BY <3>1
    <3>3. j = i
      BY <1>1, <3>1, <3>2
    <3> QED  BY <3>3 DEF j
  <2> HIDE DEF part
  <2>3. IsFiniteSet(S)
    BY WaysOf, FS_Subset
  <2>4. ASSUME NEW r \in S PROVE /\ f[r] \in T
                                 /\ \A i \in 1 .. n : r = <<parts[i], 0>> => f[r] = <<o, i>>
                                 /\ (\A i \in 1 .. n : r # <<parts[i], 0>>) => f[r] = r
                                 /\ \A i \in Cells : r # <<o, i>>
    <3>0. \A i \in Cells : r # <<o, i>>
      BY <1>7, <2>1
    <3>1. CASE \E i \in 1 .. n : r = <<parts[i], 0>>
      <4>1. PICK i \in 1 .. n : r = <<parts[i], 0>>
        BY <3>1
      <4>2. f[r] = <<o, i>>
        BY <2>2, <4>1
      <4>3. Holding'[<<o, i>>] = w /\ <<o, i>> \in DOMAIN Holding
        BY <1>7, <2>1, <4>1
      <4>4. \A j \in 1 .. n : r = <<parts[j], 0>> => j = i
        BY <1>1, <4>1
      <4> QED  BY <2>1, <3>0, <4>1, <4>2, <4>3, <4>4
    <3>2. CASE \A i \in 1 .. n : r # <<parts[i], 0>>
      <4>1. f[r] = r
        BY <3>2
      <4>2. r # <<x, 0>> /\ r \in DOMAIN Holding
        BY <1>7, <2>1
      <4>3. Holding'[r] = w
        BY <1>8, <3>0, <3>2, <4>2
      <4> QED  BY <2>1, <3>0, <3>2, <4>1, <4>2, <4>3
    <3> QED  BY <3>1, <3>2
  <2>5. f \in [S -> T]
    BY <2>4
  <2>6. DOMAIN f = S
    OBVIOUS
  <2>t. \A r : r \in T <=> r \in DOMAIN Holding /\ Holding'[r] = w
    BY <2>1
  <2>s. \A r : r \in S <=> r \in DOMAIN Holding /\ Holding[r] = w
    OBVIOUS
  <2> HIDE DEF f, S, T
  <2>7. \A a, b \in S : f[a] = f[b] => a = b
    <3> SUFFICES ASSUME NEW a \in S, NEW b \in S, f[a] = f[b] PROVE a = b
      OBVIOUS
    <3>1. CASE \E i \in 1 .. n : a = <<parts[i], 0>>
      <4>1. PICK i \in 1 .. n : a = <<parts[i], 0>>
        BY <3>1
      <4>2. f[b] = <<o, i>> /\ i \in Cells
        BY <2>1, <2>4, <4>1
      <4>3. \E j \in 1 .. n : b = <<parts[j], 0>>
        BY ZenonT(40), <2>4, <4>2
      <4>4. PICK j \in 1 .. n : b = <<parts[j], 0>>
        BY <4>3
      <4>5. f[b] = <<o, j>>
        BY <2>4, <4>4
      <4> QED  BY <4>1, <4>2, <4>4, <4>5
    <3>2. CASE \A i \in 1 .. n : a # <<parts[i], 0>>
      <4>1. f[b] = a
        BY <2>4, <3>2
      <4>2. \A j \in 1 .. n : b # <<parts[j], 0>>
        BY <2>1, <2>4, <4>1
      <4> QED  BY <2>4, <4>1, <4>2
    <3> QED  BY <3>1, <3>2
  <2>8. \A t \in T : \E r \in S : f[r] = t
    <3> SUFFICES ASSUME NEW t \in T PROVE \E r \in S : f[r] = t
      OBVIOUS
    <3>1. t \in DOMAIN Holding /\ Holding'[t] = w /\ t # <<x, 0>> /\ \A i \in 1 .. n : t # <<parts[i], 0>>
      BY <1>7, <2>1, <2>t
    <3>2. CASE \E i \in Cells : t = <<o, i>>
      <4>1. PICK i \in Cells : t = <<o, i>>
        BY <3>2
      <4>2. i \in 1 .. n /\ var[parts[i]] = w
        BY <1>7, <2>1, <3>1, <4>1
      <4>3. <<parts[i], 0>> \in S
        BY <1>7, <2>s, <4>2
      <4>4. f[<<parts[i], 0>>] = t
        BY <2>4, <4>1, <4>2, <4>3
      <4> QED  BY <4>3, <4>4
    <3>3. CASE \A i \in Cells : t # <<o, i>>
      <4>1. Holding[t] = w
        BY <1>8, <3>1, <3>3
      <4>2. t \in S
        BY <2>s, <3>1, <4>1
      <4> QED  BY <2>4, <3>1, <4>2
    <3> QED  BY <3>2, <3>3
  <2>9. Cardinality(T) = Cardinality(S)
    BY <2>3, <2>5, <2>7, <2>8, SameNumber
  <2> QED  BY <2>9 DEF Ways, S, T
<1>11. CountsSound' /\ [Abstract!Next]_Abstract!vars
  BY <1>6, <1>9, <1>10, MakeStep
<1> QED  BY <1>6, <1>11 DEF Sound
-----------------------------------------------------------------------------
(* The operations of Vec.                                                  *)

\* What is known of a Vec that is not being destroyed.
LEMMA VecFacts ==
  ASSUME RuntimeInv, NEW o, VecIn(heap, o), heap[o].count > 0
  PROVE  /\ o \in Obj /\ o \in LiveIn(heap) /\ heap[o] \in Object /\ heap[o].kind = "vec" /\ heap[o].count = 1
         /\ heap[o].cells = <<>>
         /\ heap[o].used \in Nat /\ heap[o].cap \in Nat /\ heap[o].used <= heap[o].cap /\ heap[o].cap <= MaxWord
         /\ heap[o].data \in Buffer \cup {Null} /\ (heap[o].cap = 0 <=> heap[o].data = Null)
         /\ heap[o].data # Null =>
              /\ heap[o].data \in Buffer /\ buffer[heap[o].data] # Freed
              /\ CellsOf(o) \in Seq(Value \cup {Junk}) /\ Len(CellsOf(o)) = heap[o].cap
              /\ Storage(heap, buffer, o) = CellsOf(o)
         /\ meant[o] \in Seq(Obj)
         /\ Filled(Storage(heap, buffer, o), heap[o].used, meant[o], IF call.o = o THEN call ELSE NoCall)
         /\ \A i \in Nat : HoldsIn(heap, buffer, stack, o, i) = Handles(Storage(heap, buffer, o), i)
<1>1. o \in LiveIn(heap) /\ o \in Obj /\ heap[o].kind = "vec"
  BY DEF VecIn, LiveIn
<1>2. MemoryTyped(heap, buffer, stack)
  BY Facts
<1>3. /\ heap[o] \in Object /\ heap[o].count \in Nat /\ heap[o].used \in Nat /\ heap[o].cap \in Nat
      /\ heap[o].data \in Buffer \cup {Null}
  BY <1>1, <1>2, LiveTyped
<1>4. FormedAt(heap, buffer, o)
  BY <1>1, Facts, ByObject
<1>5. heap[o].count <= 1
  BY <1>1, <1>4 DEF FormedAt
<1>6. ASSUME heap[o].data # Null
      PROVE  /\ heap[o].data \in Buffer /\ buffer[heap[o].data] # Freed
             /\ CellsOf(o) \in Seq(Value \cup {Junk}) /\ Len(CellsOf(o)) = heap[o].cap
             /\ Storage(heap, buffer, o) = CellsOf(o)
  <2>1. heap[o].data \in Buffer
    BY <1>3, <1>6
  <2>2. buffer[heap[o].data] # Freed /\ Len(buffer[heap[o].data]) = heap[o].cap
    BY <1>1, <1>4, <1>6 DEF FormedAt
  <2>3. buffer[heap[o].data] \in Seq(Value \cup {Junk})
    BY <1>2, <2>1, <2>2, LiveTyped
  <2> QED  BY <1>6, <2>1, <2>2, <2>3 DEF CellsOf, Storage
<1>7. /\ meant[o] \in Seq(Obj)
      /\ Filled(Storage(heap, buffer, o), heap[o].used, meant[o], IF call.o = o THEN call ELSE NoCall)
  BY <1>1, Facts DEF FilledIn
<1>8. \A i \in Nat : HoldsIn(heap, buffer, stack, o, i) = Handles(Storage(heap, buffer, o), i)
  <2>1. Nested(heap, stack)
    BY Facts
  <2>2. ASSUME NEW i \in Nat
        PROVE  HoldsIn(heap, buffer, stack, o, i) =
                 IF heap[o].data = Null THEN Null ELSE Handles(buffer[heap[o].data], i)
    BY <1>1, <2>1, HoldsIs
  <2>3. \A i \in Nat : Handles(<<>>, i) = Null
    BY DEF Handles
  <2> QED  BY <2>2, <2>3 DEF Storage
<1>9. /\ heap[o].cells = <<>> /\ heap[o].used <= heap[o].cap /\ heap[o].cap <= MaxWord
      /\ (heap[o].cap = 0 <=> heap[o].data = Null)
  BY <1>1, <1>4 DEF FormedAt
<1> QED  BY <1>1, <1>3, <1>5, <1>6, <1>7, <1>8, <1>9

\* An operation gives the Vec o other cells in its buffer, u elements and m to
\* contain; it may begin the release of a handle.
Writes(o, cells, u, m) ==
  /\ heap' = [heap EXCEPT ![o].used = u]
  /\ buffer' = [buffer EXCEPT ![heap[o].data] = cells]
  /\ meant' = [meant EXCEPT ![o] = m]
  /\ mode' = "running"
  /\ \/ stack' = stack
     \/ stack = <<>> /\ \E v \in Value : stack' = <<Release(v)>>
  /\ call.o \in {o, Null} /\ call'.o \in {o, Null}
  /\ var' \in [Var -> Value] /\ call' \in Operation

\* A Vec whose cells are written keeps everything sound, and nothing else changes.
LEMMA WriteSound ==
  ASSUME RuntimeInv, NEW o, VecIn(heap, o), heap[o].count > 0, heap[o].data # Null,
         NEW cells \in Seq(Value \cup {Junk}), Len(cells) = heap[o].cap,
         NEW u \in Nat, u <= heap[o].cap, NEW m \in Seq(Obj), Writes(o, cells, u, m),
         Filled(cells, u, m, IF call'.o = o THEN call' ELSE NoCall)
  PROVE  /\ Typed' /\ MemorySound(heap', buffer', stack') /\ FilledIn(heap', buffer', meant', call')
         /\ LiveIn(heap') = LiveIn(heap) /\ \A w \in LiveIn(heap) : heap'[w].count = heap[w].count
         /\ VecIn(heap', o) /\ heap'[o].used = u /\ heap'[o].cap = heap[o].cap /\ heap'[o].data = heap[o].data
         /\ heap'[o].count = 1
         /\ \A p \in Obj \ {o}, i \in Nat : HoldsIn(heap', buffer', stack', p, i) = HoldsIn(heap, buffer, stack, p, i)
         /\ \A i \in Nat : HoldsIn(heap', buffer', stack', o, i) = Handles(cells, i)
         /\ \A i \in Nat : HoldsIn(heap, buffer, stack, o, i) = Handles(CellsOf(o), i)
<1> DEFINE d == heap[o].data
<1>1. /\ o \in Obj /\ o \in LiveIn(heap) /\ heap[o] \in Object /\ heap[o].kind = "vec" /\ heap[o].count = 1
      /\ heap[o].cells = <<>>
      /\ heap[o].cap \in Nat /\ d \in Buffer /\ buffer[d] # Freed
      /\ Len(buffer[d]) = heap[o].cap /\ Storage(heap, buffer, o) = CellsOf(o) /\ Storage(heap, buffer, o) = buffer[d]
      /\ \A i \in Nat : HoldsIn(heap, buffer, stack, o, i) = Handles(Storage(heap, buffer, o), i)
  BY VecFacts DEF CellsOf
<1>2. /\ heap \in [Obj -> Object \cup {Freed}] /\ buffer \in [Buffer -> Raw \cup {Freed}] /\ meant \in [Obj -> Seq(Value)]
  BY Facts
<1>w. /\ heap' = [heap EXCEPT ![o].used = u] /\ buffer' = [buffer EXCEPT ![heap[o].data] = cells]
      /\ meant' = [meant EXCEPT ![o] = m] /\ mode' = "running"
      /\ (stack' = stack \/ (stack = <<>> /\ \E v \in Value : stack' = <<Release(v)>>))
      /\ call.o \in {o, Null} /\ call'.o \in {o, Null} /\ var' \in [Var -> Value] /\ call' \in Operation
  BY DEF Writes
<1>3. /\ heap'[o] = [heap[o] EXCEPT !.used = u] /\ \A p \in Obj \ {o} : heap'[p] = heap[p]
      /\ buffer'[d] = cells /\ \A b \in Buffer : b # d => buffer'[b] = buffer[b]
      /\ meant'[o] = m /\ \A p \in Obj \ {o} : meant'[p] = meant[p]
  BY <1>1, <1>2, <1>w
<1>4. /\ heap'[o] \in Object /\ heap'[o].kind = "vec" /\ heap'[o].count = 1 /\ heap'[o].cells = heap[o].cells
      /\ heap'[o].data = d /\ heap'[o].cap = heap[o].cap /\ heap'[o].used = u
  BY <1>1, <1>3 DEF Object
<1>5. heap' \in [Obj -> Object \cup {Freed}]
  BY <1>1, <1>2, <1>3, <1>4, <1>w
<1>r. cells \in Raw /\ cells # Freed
  BY FreedIs DEF Raw
<1>6. buffer' \in [Buffer -> Raw \cup {Freed}]
  BY <1>1, <1>2, <1>r, <1>w
<1> HIDE DEF d
<1>7. Touches(heap, buffer, heap', buffer', o)
  <2>1. SavedFor(heap, heap', o)
    BY <1>3, <1>5 DEF SavedFor
  <2> QED  BY <1>1, <1>3, <1>4, <1>6, <1>r, <2>1 DEF Touches, d
<1>8. /\ MemorySound(heap', buffer', stack) /\ LiveIn(heap') = LiveIn(heap)
      /\ \A p \in Obj \ {o}, i \in Nat : HoldsIn(heap', buffer', stack, p, i) = HoldsIn(heap, buffer, stack, p, i)
      /\ \A i \in Nat : HoldsIn(heap', buffer', stack, o, i) = Handles(cells, i)
  <2>1. MemorySound(heap, buffer, stack)
    BY Facts
  <2>2. /\ MemorySound(heap', buffer', stack) /\ LiveIn(heap') = LiveIn(heap)
        /\ \A p \in Obj \ {o}, i \in Nat : HoldsIn(heap', buffer', stack, p, i) = HoldsIn(heap, buffer, stack, p, i)
        /\ \A i \in Nat : HoldsIn(heap', buffer', stack, o, i) =
             IF heap[o].kind = "vec" /\ heap[o].data # Null THEN Handles(buffer'[heap[o].data], i)
             ELSE HoldsIn(heap, buffer, stack, o, i)
    BY <1>7, <2>1, TouchSound
  <2> QED  BY <1>1, <1>3, <2>2 DEF d
<1>9. /\ MemorySound(heap', buffer', stack')
      /\ \A p \in Obj, i \in Nat : HoldsIn(heap', buffer', stack', p, i) = HoldsIn(heap', buffer', stack, p, i)
  <2>1. CASE stack' = stack
    BY <1>8, <2>1
  <2>2. CASE stack = <<>> /\ \E v \in Value : stack' = <<Release(v)>>
    <3>1. PICK v \in Value : stack' = <<Release(v)>>
      BY <2>2
    <3>2. stack' = Append(stack, Release(v)) /\ \A k \in DOMAIN stack : stack[k].pc = "children"
      BY <2>2, <3>1
    <3>3. /\ MemorySound(heap', buffer', Append(stack, Release(v)))
          /\ \A p \in Obj, i \in Nat :
               HoldsIn(heap', buffer', Append(stack, Release(v)), p, i) = HoldsIn(heap', buffer', stack, p, i)
      BY <1>8, <3>2, PushSound
    <3> QED  BY <3>2, <3>3
  <2> QED  BY <1>w, <2>1, <2>2
<1>10. Typed'
  <2>1. MemoryTyped(heap', buffer', stack')
    BY <1>9 DEF MemorySound
  <2>2. meant' \in [Obj -> Seq(Value)]
    <3>1. m \in Seq(Value)
      BY DEF Value
    <3> QED  BY <1>1, <1>2, <1>w, <3>1
  <2> QED  BY <1>w, <2>1, <2>2 DEF Typed
<1>11. FilledIn(heap', buffer', meant', call')
  <2>1. Storage(heap', buffer', o) = cells
    BY <1>3, <1>4 DEF Storage, d
  <2>2. FilledAt(heap', buffer', meant', call', o)
    BY <1>3, <1>4, <2>1 DEF FilledAt
  <2>3. Alters(heap, buffer, stack, meant, call, heap', buffer', meant', call', o)
    <3>1. \A b \in Buffer : buffer'[b] = buffer[b] \/ Keeps(heap, stack, o, b)
      BY <1>3 DEF Keeps, d
    <3>2. \A p \in Obj \ {o} : p # call.o /\ p # call'.o
      BY <1>w, FreedIs
    <3> QED  BY <1>1, <1>3, <3>1, <3>2 DEF Alters
  <2> QED  BY <2>2, <2>3, Facts, FilledRest
<1>12. \A w \in LiveIn(heap) : heap'[w].count = heap[w].count
  BY <1>1, <1>3, <1>4 DEF LiveIn
<1>13. VecIn(heap', o)
  BY <1>1, <1>4, <1>8 DEF VecIn
<1> QED  BY <1>1, <1>4, <1>8, <1>9, <1>10, <1>11, <1>12, <1>13 DEF d

\* What the places hold when the cells of the Vec o are written.
LEMMA WritePlaces ==
  ASSUME RuntimeInv, NEW o, VecIn(heap, o), heap[o].count > 0, heap[o].data # Null,
         NEW cells \in Seq(Value \cup {Junk}), Len(cells) = heap[o].cap,
         NEW u \in Nat, u <= heap[o].cap, NEW m \in Seq(Obj), Writes(o, cells, u, m),
         Filled(cells, u, m, IF call'.o = o THEN call' ELSE NoCall)
  PROVE  \A i \in Cells : /\ <<o, i>> \in DOMAIN Holding /\ Holding[<<o, i>>] = Handles(CellsOf(o), i)
                          /\ Holding'[<<o, i>>] = Handles(cells, i)
<1>1. /\ \A i \in Nat : HoldsIn(heap', buffer', stack', o, i) = Handles(cells, i)
      /\ \A i \in Nat : HoldsIn(heap, buffer, stack, o, i) = Handles(CellsOf(o), i)
  BY WriteSound
<1>2. o \in Obj
  BY DEF VecIn, LiveIn
<1> QED  BY <1>1, <1>2, CellsNat, HoldingAt

\* The places outside S hold what they held.
LEMMA WriteElse ==
  ASSUME RuntimeInv, NEW o, VecIn(heap, o), heap[o].count > 0, heap[o].data # Null,
         NEW cells \in Seq(Value \cup {Junk}), Len(cells) = heap[o].cap,
         NEW u \in Nat, u <= heap[o].cap, NEW m \in Seq(Obj), Writes(o, cells, u, m),
         Filled(cells, u, m, IF call'.o = o THEN call' ELSE NoCall),
         NEW S,
         \A x \in Var : <<x, 0>> \in S \/ var'[x] = var[x],
         <<Null, 0>> \in S \/ call'.item = call.item,
         <<Null, 1>> \in S \/ stack' = stack,
         \A i \in Cells : <<o, i>> \in S \/ Handles(cells, i) = Handles(CellsOf(o), i)
  PROVE  \A t \in DOMAIN Holding \ S : Holding'[t] = Holding[t]
<1>1. /\ \A w \in Obj \ {o}, i \in Nat : HoldsIn(heap', buffer', stack', w, i) = HoldsIn(heap, buffer, stack, w, i)
      /\ \A i \in Nat : HoldsIn(heap', buffer', stack', o, i) = Handles(cells, i)
      /\ \A i \in Nat : HoldsIn(heap, buffer, stack, o, i) = Handles(CellsOf(o), i)
  BY WriteSound
<1>2. \A w \in Obj, i \in Cells :
        <<w, i>> \in S \/ HoldsIn(heap', buffer', stack', w, i) = HoldsIn(heap, buffer, stack, w, i)
  <2> SUFFICES ASSUME NEW w \in Obj, NEW i \in Cells
               PROVE  <<w, i>> \in S \/ HoldsIn(heap', buffer', stack', w, i) = HoldsIn(heap, buffer, stack, w, i)
    OBVIOUS
  <2>1. CASE w = o
    BY <1>1, <2>1, CellsNat
  <2>2. CASE w # o
    BY <1>1, <2>2, CellsNat
  <2> QED  BY <2>1, <2>2
<1>3. \A k \in Depth : <<Null, k>> \in S \/ PendingIn(stack', k) = PendingIn(stack, k)
  <2>1. CASE stack' = stack
    BY <2>1
  <2>2. CASE stack = <<>> /\ \E v \in Value : stack' = <<Release(v)>>
    <3>1. \A k \in Depth : k # 1 => PendingIn(stack', k) = PendingIn(stack, k)
      <4>1. stack = <<>> /\ DOMAIN stack' = {1}
        BY <2>2
      <4> QED  BY <4>1 DEF PendingIn
    <3>2. CASE <<Null, 1>> \in S
      BY <3>1, <3>2
    <3>3. CASE stack' = stack
      BY <3>3
    <3> QED  BY <3>2, <3>3
  <2> QED  BY <2>1, <2>2 DEF Writes
<1> QED  BY <1>2, <1>3, PlacesElse

\* An operation that writes cells and leaves every object as many holders.
LEMMA WriteMove ==
  ASSUME RuntimeInv, NEW o, VecIn(heap, o), heap[o].count > 0, heap[o].data # Null,
         NEW cells \in Seq(Value \cup {Junk}), Len(cells) = heap[o].cap,
         NEW u \in Nat, u <= heap[o].cap, NEW m \in Seq(Obj), Writes(o, cells, u, m),
         Filled(cells, u, m, IF call'.o = o THEN call' ELSE NoCall),
         CallSound(var', heap', stack', call'),
         \A w \in Obj : Ways(Holding', w) = Ways(Holding, w)
  PROVE  Sound' /\ [Abstract!Next]_Abstract!vars
<1>1. /\ Typed' /\ MemorySound(heap', buffer', stack') /\ FilledIn(heap', buffer', meant', call')
      /\ LiveIn(heap') = LiveIn(heap) /\ \A w \in LiveIn(heap) : heap'[w].count = heap[w].count
  BY WriteSound
<1>2. mode' = "running"
  BY DEF Writes
<1>3. CountsSound' /\ Abstract!Move
  BY <1>1, <1>2, Facts, MoveStep
<1> QED  BY <1>1, <1>3, MoveNext DEF Sound

\* An operation that writes cells and lets two places exchange what they hold.
LEMMA WriteExchange ==
  ASSUME RuntimeInv, NEW o, VecIn(heap, o), heap[o].count > 0, heap[o].data # Null,
         NEW cells \in Seq(Value \cup {Junk}), Len(cells) = heap[o].cap,
         NEW u \in Nat, u <= heap[o].cap, NEW m \in Seq(Obj), Writes(o, cells, u, m),
         Filled(cells, u, m, IF call'.o = o THEN call' ELSE NoCall),
         CallSound(var', heap', stack', call'),
         NEW p \in DOMAIN Holding, NEW q \in DOMAIN Holding, p # q,
         Holding'[p] = Holding[q], Holding'[q] = Holding[p],
         \A x \in Var : <<x, 0>> \in {p, q} \/ var'[x] = var[x],
         <<Null, 0>> \in {p, q} \/ call'.item = call.item,
         <<Null, 1>> \in {p, q} \/ stack' = stack,
         \A i \in Cells : <<o, i>> \in {p, q} \/ Handles(cells, i) = Handles(CellsOf(o), i)
  PROVE  Sound' /\ [Abstract!Next]_Abstract!vars
<1>1. \A t \in DOMAIN Holding \ {p, q} : Holding'[t] = Holding[t]
  BY WriteElse
<1>2. \A w \in Obj : Ways(Holding', w) = Ways(Holding, w)
  BY <1>1, ExchangeWays
<1> QED  BY <1>2, WriteMove

\* What is known of the operation that is under way.
LEMMA CallFacts ==
  ASSUME RuntimeInv, call.op # "none"
  PROVE  /\ VecIn(heap, call.o) /\ heap[call.o].count > 0 /\ call.o # Null /\ call.o \in Obj
         /\ call.i \in Nat /\ call.at \in Nat /\ call.item \in Value /\ call.x \in Var \cup {Null} /\ call \in Operation
         /\ \E y \in Var : var[y] = call.o
         /\ (call.item # Null <=> call.op \in {"insert", "remove", "set"})
         /\ (call.op \in {"insert", "remove"} => stack = <<>>)
         /\ (call.op = "insert" => call.i <= call.at /\ call.at <= heap[call.o].used /\ heap[call.o].used < heap[call.o].cap)
         /\ (call.op = "remove" => call.i <= call.at /\ call.at < heap[call.o].used /\ call.x \in Var /\ var[call.x] = Null)
         /\ (call.op = "set" => call.i < heap[call.o].used)
         /\ Filled(Storage(heap, buffer, call.o), heap[call.o].used, meant[call.o], call)
<1>1. CallSound(var, heap, stack, call) /\ call \in Operation
  BY Facts
<1>2. VecIn(heap, call.o) /\ heap[call.o].count = 1
  BY <1>1 DEF CallSound
<1>3. call.o # Null /\ call.o \in Obj
  BY <1>2, FreedIs DEF VecIn, LiveIn
<1>4. heap[call.o].count > 0
  BY <1>2
<1>5. Filled(Storage(heap, buffer, call.o), heap[call.o].used, meant[call.o], call)
  <2>1. Filled(Storage(heap, buffer, call.o), heap[call.o].used, meant[call.o], IF call.o = call.o THEN call ELSE NoCall)
    BY <1>2, <1>4, VecFacts
  <2> QED  BY <2>1
<1>6. call.i \in Nat /\ call.at \in Nat /\ call.item \in Value /\ call.x \in Var \cup {Null}
  BY <1>1 DEF Operation
<1>7. /\ \E y \in Var : var[y] = call.o
      /\ (call.item # Null <=> call.op \in {"insert", "remove", "set"})
      /\ (call.op \in {"insert", "remove"} => stack = <<>>)
      /\ (call.op = "insert" => call.i <= call.at /\ call.at <= heap[call.o].used /\ heap[call.o].used < heap[call.o].cap)
      /\ (call.op = "remove" => call.i <= call.at /\ call.at < heap[call.o].used /\ call.x \in Var /\ var[call.x] = Null)
      /\ (call.op = "set" => call.i < heap[call.o].used)
  BY <1>1 DEF CallSound
<1> QED  BY <1>1, <1>2, <1>3, <1>4, <1>5, <1>6, <1>7

\* The operation that moves elements up by one.
LEMMA ShiftUpStep ==
  ASSUME RuntimeInv, ShiftUp
  PROVE  Sound' /\ [Abstract!Next]_Abstract!vars
<1> DEFINE o == call.o
           u == heap[o].used
           m == meant[o]
           old == CellsOf(o)
           cells == MoveCell(old, call.at - 1, call.at)
<1>1. /\ mode = "running" /\ call.op = "insert" /\ call.at > call.i
      /\ buffer' = [buffer EXCEPT ![heap[o].data] = cells] /\ call' = [call EXCEPT !.at = @ - 1]
      /\ UNCHANGED <<var, heap, stack, meant, mode>>
  BY DEF ShiftUp, Running, UpdateCells
<1>2. /\ VecIn(heap, o) /\ heap[o].count > 0 /\ o # Null /\ o \in Obj /\ call \in Operation
      /\ call.i \in Nat /\ call.at \in Nat /\ call.item # Null /\ stack = <<>>
      /\ call.at <= u /\ u < heap[o].cap /\ \E y \in Var : var[y] = o
      /\ Filled(Storage(heap, buffer, o), u, m, call)
  BY <1>1, CallFacts
<1>3. /\ u \in Nat /\ heap[o].cap \in Nat /\ m \in Seq(Obj) /\ heap[o].cap <= MaxWord
      /\ heap[o].data # Null /\ old \in Seq(Value \cup {Junk}) /\ Len(old) = heap[o].cap
      /\ Storage(heap, buffer, o) = old
  <2>1. heap[o].cap # 0 /\ heap[o].data # Null
    BY <1>2, VecFacts
  <2> QED  BY <1>2, <2>1, VecFacts
<1>4. /\ call'.op = "insert" /\ call'.i = call.i /\ call'.item = call.item /\ call'.at = call.at - 1
      /\ call'.o = o /\ call' \in Operation
  BY <1>1, <1>2 DEF Operation
<1>5. /\ cells \in Seq(Value \cup {Junk}) /\ Len(cells) = heap[o].cap
      /\ \A i \in Positive : Handles(cells, i) =
           IF i = call.at + 1 THEN Handles(old, call.at) ELSE IF i = call.at THEN Null ELSE Handles(old, i)
  <2>1. call.at - 1 \in Nat /\ call.at - 1 < Len(old) /\ call.at < Len(old) /\ call.at - 1 # call.at
        /\ (call.at - 1) + 1 = call.at
    BY <1>1, <1>2, <1>3
  <2> HIDE DEF old, o
  <2> QED  BY <1>2, <1>3, <2>1, MoveCellIs
<1> HIDE DEF cells, old, m, u
<1>6. Filled(cells, u, m, call')
  BY <1>1, <1>2, <1>3, <1>4, <1>5, FillShiftUp
<1>7. Writes(o, cells, u, m)
  <2>1. heap' = [heap EXCEPT ![o].used = u] /\ meant' = [meant EXCEPT ![o] = m]
    <3>1. heap[o] = [heap[o] EXCEPT !.used = u]
      BY <1>2, VecFacts DEF Object, u
    <3> QED  BY <1>1, <3>1, Facts DEF u, m
  <2>2. var' \in [Var -> Value]
    BY <1>1, Facts
  <2> QED  BY <1>1, <1>4, <2>1, <2>2 DEF Writes
<1>w. /\ VecIn(heap, o) /\ heap[o].count > 0 /\ heap[o].data # Null
      /\ cells \in Seq(Value \cup {Junk}) /\ Len(cells) = heap[o].cap
      /\ u \in Nat /\ u <= heap[o].cap /\ m \in Seq(Obj) /\ Writes(o, cells, u, m)
      /\ Filled(cells, u, m, IF call'.o = o THEN call' ELSE NoCall)
  BY <1>2, <1>3, <1>4, <1>5, <1>6, <1>7
<1>8. CallSound(var', heap', stack', call')
  <2>1. call'.i <= call'.at /\ call'.at <= heap'[call'.o].used
    BY <1>1, <1>2, <1>3, <1>4 DEF u
  <2>2. CallSound(var, heap, stack, call)
    BY Facts
  <2> QED  BY <1>1, <1>2, <1>4, <2>1, <2>2 DEF CallSound, u
<1>9. /\ call.at \in Cells /\ call.at + 1 \in Cells /\ <<o, call.at>> # <<o, call.at + 1>>
  <2>1. call.at \in Nat /\ call.at > 0 /\ call.at + 1 <= MaxWord
    BY <1>1, <1>2, <1>3, RuntimeAssumption
  <2>2. call.at <= MaxWord /\ call.at + 1 \in Nat /\ call.at + 1 > 0
    BY <2>1, RuntimeAssumption
  <2>3. call.at # call.at + 1
    BY <2>1
  <2> QED  BY <2>1, <2>2, <2>3, CellsNat
<1>10. /\ <<o, call.at>> \in DOMAIN Holding /\ <<o, call.at + 1>> \in DOMAIN Holding
       /\ Holding[<<o, call.at>>] = Handles(old, call.at) /\ Holding[<<o, call.at + 1>>] = Null
       /\ Holding'[<<o, call.at>>] = Null /\ Holding'[<<o, call.at + 1>>] = Handles(old, call.at)
  <2>1. \A i \in Cells : /\ <<o, i>> \in DOMAIN Holding /\ Holding[<<o, i>>] = Handles(old, i)
                         /\ Holding'[<<o, i>>] = Handles(cells, i)
    BY <1>w, WritePlaces DEF old
  <2>2. Handles(old, call.at + 1) = Null
    BY <1>1, <1>2, <1>3, <1>9, CellsNat, FilledIs
  <2>3. Handles(cells, call.at) = Null /\ Handles(cells, call.at + 1) = Handles(old, call.at)
    BY <1>5, <1>9, CellsNat
  <2> QED  BY <1>9, <2>1, <2>2, <2>3
<1>11. \A i \in Cells : <<o, i>> \in {<<o, call.at>>, <<o, call.at + 1>>} \/ Handles(cells, i) = Handles(old, i)
  BY <1>5, CellsNat
<1>12. var' = var /\ call'.item = call.item /\ stack' = stack
  BY <1>1, <1>4
<1> HIDE DEF o
<1> QED  BY SMTT(30), <1>w, <1>8, <1>9, <1>10, <1>11, <1>12, WriteExchange DEF old

\* The handle that the operation carries goes into the empty cell at call.i.
LEMMA StoreStep ==
  ASSUME RuntimeInv, call.op \in {"insert", "set"}, heap[call.o].data # Null,
         call.i < heap[call.o].cap, Handles(CellsOf(call.o), call.i + 1) = Null,
         NEW u \in Nat, u <= heap[call.o].cap,
         Writes(call.o, Put(CellsOf(call.o), call.i, call.item), u, meant[call.o]),
         Filled(Put(CellsOf(call.o), call.i, call.item), u, meant[call.o], NoCall),
         call' = NoCall, var' = var, stack' = stack
  PROVE  Sound' /\ [Abstract!Next]_Abstract!vars
<1> DEFINE o == call.o
           m == meant[o]
           old == CellsOf(o)
           cells == Put(old, call.i, call.item)
<1>1. /\ VecIn(heap, o) /\ heap[o].count > 0 /\ o # Null /\ o \in Obj
      /\ call.i \in Nat /\ call.item \in Obj
  BY CallFacts, NullValue
<1>2. /\ m \in Seq(Obj) /\ heap[o].cap <= MaxWord /\ heap[o].cap \in Nat
      /\ old \in Seq(Value \cup {Junk}) /\ Len(old) = heap[o].cap
  BY <1>1, VecFacts
<1>3. /\ cells \in Seq(Value \cup {Junk}) /\ Len(cells) = heap[o].cap
      /\ \A i \in Positive : Handles(cells, i) = IF i = call.i + 1 THEN call.item ELSE Handles(old, i)
  <2>1. call.item \in Value \cup {Junk} /\ HandleOf(call.item) = call.item
    BY <1>1 DEF Value, HandleOf
  <2> HIDE DEF old, o
  <2> QED  BY <1>1, <1>2, <2>1, PutIs DEF o
<1>4. Writes(o, cells, u, m) /\ Filled(cells, u, m, NoCall) /\ u <= heap[o].cap /\ heap[o].data # Null
      /\ call.i < heap[o].cap /\ Handles(old, call.i + 1) = Null
  OBVIOUS
<1> HIDE DEF cells, old, m
<1>w. /\ cells \in Seq(Value \cup {Junk}) /\ Len(cells) = heap[o].cap
      /\ u <= heap[o].cap /\ m \in Seq(Obj) /\ Writes(o, cells, u, m)
      /\ Filled(cells, u, m, IF call'.o = o THEN call' ELSE NoCall)
  <2>1. call'.o # o
    BY <1>1 DEF NoCall
  <2> QED  BY <1>2, <1>3, <1>4, <2>1
<1>8. CallSound(var', heap', stack', call')
  BY NoCallSound
<1>9. call.i + 1 \in Cells
  <2>1. call.i + 1 \in Nat /\ call.i + 1 > 0 /\ call.i + 1 <= MaxWord
    BY <1>1, <1>2, <1>4, RuntimeAssumption
  <2> QED  BY <2>1, CellsNat
<1>10. /\ <<o, call.i + 1>> \in DOMAIN Holding /\ <<Null, 0>> \in DOMAIN Holding /\ <<Null, 0>> # <<o, call.i + 1>>
       /\ Holding[<<o, call.i + 1>>] = Null /\ Holding'[<<o, call.i + 1>>] = call.item
       /\ Holding[<<Null, 0>>] = call.item /\ Holding'[<<Null, 0>>] = Null
  <2>1. \A i \in Cells : /\ <<o, i>> \in DOMAIN Holding /\ Holding[<<o, i>>] = Handles(old, i)
                         /\ Holding'[<<o, i>>] = Handles(cells, i)
    BY <1>1, <1>4, <1>w, WritePlaces DEF old
  <2>2. Handles(cells, call.i + 1) = call.item
    BY <1>3, <1>9, CellsNat
  <2>3. Holding[<<Null, 0>>] = call.item /\ Holding'[<<Null, 0>>] = Null /\ <<Null, 0>> \in DOMAIN Holding
    BY HoldingAt DEF NoCall
  <2> QED  BY <1>1, <1>4, <1>9, <2>1, <2>2, <2>3
<1>11. \A i \in Cells : <<o, i>> \in {<<Null, 0>>, <<o, call.i + 1>>} \/ Handles(cells, i) = Handles(old, i)
  BY <1>3, CellsNat
<1> DEFINE p == <<Null, 0>>
           q == <<o, call.i + 1>>
<1>12. /\ p \in DOMAIN Holding /\ q \in DOMAIN Holding /\ p # q
       /\ Holding'[p] = Holding[q] /\ Holding'[q] = Holding[p] /\ <<Null, 0>> \in {p, q}
       /\ \A i \in Cells : <<o, i>> \in {p, q} \/ Handles(cells, i) = Handles(CellsOf(o), i)
  BY <1>10, <1>11 DEF old
<1>13. VecIn(heap, o) /\ heap[o].count > 0 /\ heap[o].data # Null /\ \A x \in Var : var'[x] = var[x]
  BY <1>1, <1>4
<1> HIDE DEF o, p, q
<1> QED  BY <1>w, <1>8, <1>12, <1>13, WriteExchange

\* The end of insert.
LEMMA InsertedStep ==
  ASSUME RuntimeInv, Inserted
  PROVE  Sound' /\ [Abstract!Next]_Abstract!vars
<1> DEFINE o == call.o
           m == meant[o]
           old == CellsOf(o)
           cells == Put(old, call.i, call.item)
<1>1. /\ mode = "running" /\ call.op = "insert" /\ call.at <= call.i /\ call' = NoCall
      /\ buffer' = [buffer EXCEPT ![heap[o].data] = cells] /\ heap' = [heap EXCEPT ![o].used = heap[o].used + 1]
      /\ UNCHANGED <<var, stack, meant, mode>>
  BY DEF Inserted, Running, UpdateCells
<1>2. /\ VecIn(heap, o) /\ heap[o].count > 0 /\ o # Null /\ o \in Obj /\ call \in Operation
      /\ call.i \in Nat /\ call.at \in Nat /\ call.item \in Obj /\ call.at = call.i
      /\ call.i <= heap[o].used /\ heap[o].used < heap[o].cap
      /\ Filled(Storage(heap, buffer, o), heap[o].used, m, call)
  <2>1. /\ call.at \in Nat /\ call.i \in Nat /\ call.i <= call.at
    BY <1>1, CallFacts
  <2>2. call.at = call.i
    BY <1>1, <2>1
  <2> QED  BY <1>1, <2>2, CallFacts, NullValue
<1>3. /\ heap[o].used \in Nat /\ heap[o].cap \in Nat /\ m \in Seq(Obj)
      /\ heap[o].data # Null /\ old \in Seq(Value \cup {Junk}) /\ Len(old) = heap[o].cap
      /\ Storage(heap, buffer, o) = old
  <2>1. heap[o].cap # 0 /\ heap[o].data # Null
    BY <1>2, VecFacts
  <2> QED  BY <1>2, <2>1, VecFacts
<1>4. /\ \A i \in Positive : Handles(cells, i) = IF i = call.i + 1 THEN call.item ELSE Handles(old, i)
  <2>1. call.item \in Value \cup {Junk} /\ HandleOf(call.item) = call.item /\ call.i < Len(old)
    BY <1>2, <1>3 DEF Value, HandleOf
  <2> HIDE DEF old, o
  <2> QED  BY <1>2, <1>3, <2>1, PutIs DEF o
<1>5. Handles(old, call.i + 1) = Null
  <2>1. call.i + 1 \in Positive
    BY <1>2 DEF Positive
  <2> HIDE DEF old, m
  <2> QED  BY <1>1, <1>2, <1>3, <2>1, FilledIs
<1>6. Filled(cells, heap[o].used + 1, m, NoCall)
  <2> HIDE DEF cells, old, m
  <2> QED  BY <1>1, <1>2, <1>3, <1>4, FillInserted
<1>7. Writes(o, cells, heap[o].used + 1, m)
  <2>1. meant' = [meant EXCEPT ![o] = m]
    BY <1>1, Facts
  <2>2. var' \in [Var -> Value] /\ call' \in Operation /\ call'.o = Null
    BY <1>1, Facts DEF NoCall, Operation, Value
  <2> HIDE DEF cells
  <2> QED  BY <1>1, <2>1, <2>2 DEF Writes
<1>8. heap[o].used + 1 \in Nat /\ heap[o].used + 1 <= heap[o].cap /\ call.i < heap[o].cap
  BY <1>2, <1>3
<1> QED  BY <1>1, <1>3, <1>5, <1>6, <1>7, <1>8, StoreStep

\* The end of set.
LEMMA VecStoredStep ==
  ASSUME RuntimeInv, VecStored
  PROVE  Sound' /\ [Abstract!Next]_Abstract!vars
<1> DEFINE o == call.o
           m == meant[o]
           old == CellsOf(o)
           cells == Put(old, call.i, call.item)
<1>1. /\ mode = "running" /\ call.op = "set" /\ call' = NoCall
      /\ buffer' = [buffer EXCEPT ![heap[o].data] = cells]
      /\ UNCHANGED <<var, heap, stack, meant, mode>>
  BY DEF VecStored, Running, UpdateCells
<1>2. /\ VecIn(heap, o) /\ heap[o].count > 0 /\ o # Null /\ o \in Obj /\ call \in Operation
      /\ call.i \in Nat /\ call.item \in Obj /\ call.i < heap[o].used
      /\ Filled(Storage(heap, buffer, o), heap[o].used, m, call)
  BY <1>1, CallFacts, NullValue
<1>3. /\ heap[o] \in Object /\ heap[o].used \in Nat /\ heap[o].cap \in Nat /\ m \in Seq(Obj)
      /\ heap[o].used <= heap[o].cap /\ call.i < heap[o].cap
      /\ heap[o].data # Null /\ old \in Seq(Value \cup {Junk}) /\ Len(old) = heap[o].cap
      /\ Storage(heap, buffer, o) = old
  <2>1. heap[o].used \in Nat /\ heap[o].cap \in Nat /\ heap[o].used <= heap[o].cap
    BY <1>2, VecFacts
  <2>2. heap[o].cap # 0 /\ call.i < heap[o].cap
    BY <1>2, <2>1
  <2>3. heap[o].data # Null
    BY <1>2, <2>2, VecFacts
  <2> QED  BY <1>2, <2>1, <2>2, <2>3, VecFacts
<1>4. /\ \A i \in Positive : Handles(cells, i) = IF i = call.i + 1 THEN call.item ELSE Handles(old, i)
  <2>1. call.item \in Value \cup {Junk} /\ HandleOf(call.item) = call.item /\ call.i < Len(old)
    BY <1>2, <1>3 DEF Value, HandleOf
  <2> HIDE DEF old, o
  <2> QED  BY <1>2, <1>3, <2>1, PutIs DEF o
<1>5. Handles(old, call.i + 1) = Null
  <2>1. call.i + 1 \in Positive
    BY <1>2 DEF Positive
  <2> HIDE DEF old, m
  <2> QED  BY <1>1, <1>2, <1>3, <2>1, FilledIs
<1>6. Filled(cells, heap[o].used, m, NoCall)
  <2> HIDE DEF cells, old, m
  <2> QED  BY <1>1, <1>2, <1>3, <1>4, FillStored
<1>7. Writes(o, cells, heap[o].used, m)
  <2>1. meant' = [meant EXCEPT ![o] = m]
    BY <1>1, Facts
  <2>2. var' \in [Var -> Value] /\ call' \in Operation /\ call'.o = Null
    BY <1>1, Facts DEF NoCall, Operation, Value
  <2>3. heap' = [heap EXCEPT ![o].used = heap[o].used]
    <3>1. heap[o] = [heap[o] EXCEPT !.used = heap[o].used]
      BY <1>3 DEF Object
    <3> QED  BY <1>1, <3>1, Facts
  <2> HIDE DEF cells
  <2> QED  BY <1>1, <2>1, <2>2, <2>3 DEF Writes
<1> QED  BY <1>1, <1>3, <1>5, <1>6, <1>7, StoreStep

\* The operation that moves elements down by one.
LEMMA ShiftDownStep ==
  ASSUME RuntimeInv, ShiftDown
  PROVE  Sound' /\ [Abstract!Next]_Abstract!vars
<1> DEFINE o == call.o
           u == heap[o].used
           m == meant[o]
           old == CellsOf(o)
           cells == MoveCell(old, call.at + 1, call.at)
<1>1. /\ mode = "running" /\ call.op = "remove" /\ call.at + 1 < u
      /\ buffer' = [buffer EXCEPT ![heap[o].data] = cells] /\ call' = [call EXCEPT !.at = @ + 1]
      /\ UNCHANGED <<var, heap, stack, meant, mode>>
  BY DEF ShiftDown, Running, UpdateCells
<1>2. /\ VecIn(heap, o) /\ heap[o].count > 0 /\ o # Null /\ o \in Obj /\ call \in Operation
      /\ call.i \in Nat /\ call.at \in Nat /\ call.item # Null /\ stack = <<>>
      /\ call.i <= call.at /\ \E y \in Var : var[y] = o
      /\ Filled(Storage(heap, buffer, o), u, m, call)
  BY <1>1, CallFacts
<1>3. /\ heap[o] \in Object /\ u \in Nat /\ heap[o].cap \in Nat /\ m \in Seq(Obj) /\ heap[o].cap <= MaxWord
      /\ heap[o].data # Null /\ old \in Seq(Value \cup {Junk}) /\ Len(old) = heap[o].cap
      /\ Storage(heap, buffer, o) = old /\ u <= heap[o].cap
  <2>1. u \in Nat /\ heap[o].cap \in Nat /\ u <= heap[o].cap
    BY <1>2, VecFacts
  <2>2. heap[o].cap # 0
    BY <1>1, <1>2, <2>1
  <2>3. heap[o].data # Null
    BY <1>2, <2>2, VecFacts
  <2> QED  BY <1>2, <2>1, <2>3, VecFacts
<1>4. /\ call'.op = "remove" /\ call'.i = call.i /\ call'.item = call.item /\ call'.at = call.at + 1
      /\ call'.o = o /\ call'.x = call.x /\ call' \in Operation
  BY <1>1, <1>2 DEF Operation
<1>5. /\ cells \in Seq(Value \cup {Junk}) /\ Len(cells) = heap[o].cap
      /\ \A i \in Positive : Handles(cells, i) =
           IF i = call.at + 1 THEN Handles(old, call.at + 2) ELSE IF i = call.at + 2 THEN Null ELSE Handles(old, i)
  <2>1. call.at + 1 \in Nat /\ call.at + 1 < Len(old) /\ call.at < Len(old) /\ call.at + 1 # call.at
        /\ (call.at + 1) + 1 = call.at + 2
    BY <1>1, <1>2, <1>3
  <2> HIDE DEF old, o
  <2> QED  BY <1>2, <1>3, <2>1, MoveCellIs
<1> HIDE DEF cells, old, m, u
<1>6. Filled(cells, u, m, call')
  BY <1>1, <1>2, <1>3, <1>4, <1>5, FillShiftDown
<1>7. Writes(o, cells, u, m)
  <2>1. heap' = [heap EXCEPT ![o].used = u] /\ meant' = [meant EXCEPT ![o] = m]
    <3>1. heap[o] = [heap[o] EXCEPT !.used = u]
      BY <1>3 DEF Object, u
    <3> QED  BY <1>1, <3>1, Facts DEF u, m
  <2>2. var' \in [Var -> Value]
    BY <1>1, Facts
  <2> QED  BY <1>1, <1>4, <2>1, <2>2 DEF Writes
<1>w. /\ VecIn(heap, o) /\ heap[o].count > 0 /\ heap[o].data # Null
      /\ cells \in Seq(Value \cup {Junk}) /\ Len(cells) = heap[o].cap
      /\ u \in Nat /\ u <= heap[o].cap /\ m \in Seq(Obj) /\ Writes(o, cells, u, m)
      /\ Filled(cells, u, m, IF call'.o = o THEN call' ELSE NoCall)
  BY <1>2, <1>3, <1>4, <1>5, <1>6, <1>7
<1>8. CallSound(var', heap', stack', call')
  <2>1. call'.i <= call'.at /\ call'.at < heap'[call'.o].used
    BY <1>1, <1>2, <1>3, <1>4 DEF u
  <2>2. CallSound(var, heap, stack, call)
    BY Facts
  <2> QED  BY <1>1, <1>2, <1>4, <2>1, <2>2 DEF CallSound, u
<1> DEFINE p == <<o, call.at + 1>>
           q == <<o, call.at + 2>>
<1>9. /\ call.at + 1 \in Cells /\ call.at + 2 \in Cells /\ p # q
  <2>1. call.at \in Nat /\ call.at + 2 <= MaxWord
    BY SMTT(30), <1>1, <1>2, <1>3, RuntimeAssumption
  <2>2. call.at + 1 <= MaxWord /\ call.at + 1 \in Nat /\ call.at + 1 > 0 /\ call.at + 2 \in Nat /\ call.at + 2 > 0
    BY <2>1, RuntimeAssumption
  <2>3. call.at + 1 # call.at + 2
    BY <2>1
  <2> QED  BY <2>1, <2>2, <2>3, CellsNat
<1>10. /\ p \in DOMAIN Holding /\ q \in DOMAIN Holding
       /\ Holding[p] = Null /\ Holding[q] = Handles(old, call.at + 2)
       /\ Holding'[p] = Handles(old, call.at + 2) /\ Holding'[q] = Null
  <2>1. \A i \in Cells : /\ <<o, i>> \in DOMAIN Holding /\ Holding[<<o, i>>] = Handles(old, i)
                         /\ Holding'[<<o, i>>] = Handles(cells, i)
    BY <1>w, WritePlaces DEF old
  <2>2. Handles(old, call.at + 1) = Null
    BY <1>1, <1>2, <1>3, <1>9, CellsNat, FilledIs
  <2>3. Handles(cells, call.at + 2) = Null /\ Handles(cells, call.at + 1) = Handles(old, call.at + 2)
    BY <1>2, <1>5, <1>9, CellsNat
  <2> QED  BY <1>9, <2>1, <2>2, <2>3
<1>11. \A i \in Cells : <<o, i>> \in {p, q} \/ Handles(cells, i) = Handles(CellsOf(o), i)
  BY <1>5, CellsNat DEF old
<1>12. var' = var /\ call'.item = call.item /\ stack' = stack
  BY <1>1, <1>4
<1> HIDE DEF o, p, q
<1> QED  BY <1>w, <1>8, <1>9, <1>10, <1>11, <1>12, WriteExchange

\* The end of remove.
LEMMA RemovedStep ==
  ASSUME RuntimeInv, Removed
  PROVE  Sound' /\ [Abstract!Next]_Abstract!vars
<1> DEFINE o == call.o
           u == heap[o].used
           m == meant[o]
           old == CellsOf(o)
<1>1. /\ mode = "running" /\ call.op = "remove" /\ call.at + 1 >= u /\ call' = NoCall
      /\ heap' = [heap EXCEPT ![o].used = u - 1] /\ var' = [var EXCEPT ![call.x] = call.item]
      /\ UNCHANGED <<buffer, stack, meant, mode>>
  BY DEF Removed, Running
<1>2. /\ VecIn(heap, o) /\ heap[o].count > 0 /\ o # Null /\ o \in Obj /\ call \in Operation
      /\ call.at \in Nat /\ call.item # Null /\ call.item \in Value
      /\ call.at < u /\ call.x \in Var /\ var[call.x] = Null
      /\ Filled(Storage(heap, buffer, o), u, m, call)
  BY <1>1, CallFacts
<1>3. /\ u \in Nat /\ heap[o].cap \in Nat /\ m \in Seq(Obj)
      /\ heap[o].data # Null /\ old \in Seq(Value \cup {Junk}) /\ Len(old) = heap[o].cap
      /\ Storage(heap, buffer, o) = old /\ u <= heap[o].cap
  <2>1. u \in Nat /\ heap[o].cap \in Nat /\ u <= heap[o].cap
    BY <1>2, VecFacts
  <2>2. heap[o].cap # 0
    BY <1>2, <2>1
  <2>3. heap[o].data # Null
    BY <1>2, <2>2, VecFacts
  <2> QED  BY <1>2, <2>1, <2>3, VecFacts
<1>4. Filled(old, u - 1, m, NoCall) /\ u - 1 \in Nat /\ u - 1 <= heap[o].cap
  <2>1. u - 1 \in Nat /\ u - 1 <= heap[o].cap
    BY <1>2, <1>3
  <2> HIDE DEF old, u, m
  <2> QED  BY <1>1, <1>2, <1>3, <2>1, FillRemoved
<1>5. Writes(o, old, u - 1, m)
  <2>1. meant' = [meant EXCEPT ![o] = m]
    BY <1>1, Facts
  <2>2. buffer' = [buffer EXCEPT ![heap[o].data] = old]
    BY <1>1, Facts DEF CellsOf
  <2>3. var' \in [Var -> Value] /\ call' \in Operation /\ call'.o = Null
    BY <1>1, <1>2, Facts DEF NoCall, Operation, Value
  <2> HIDE DEF old
  <2> QED  BY <1>1, <2>1, <2>2, <2>3 DEF Writes
<1>w. /\ VecIn(heap, o) /\ heap[o].count > 0 /\ heap[o].data # Null
      /\ old \in Seq(Value \cup {Junk}) /\ Len(old) = heap[o].cap
      /\ u - 1 \in Nat /\ u - 1 <= heap[o].cap /\ m \in Seq(Obj) /\ Writes(o, old, u - 1, m)
      /\ Filled(old, u - 1, m, IF call'.o = o THEN call' ELSE NoCall)
  <2>1. call'.o # o
    BY <1>1, <1>2 DEF NoCall
  <2> QED  BY <1>2, <1>3, <1>4, <1>5, <2>1
<1>8. CallSound(var', heap', stack', call')
  BY <1>1, NoCallSound
<1> DEFINE p == <<Null, 0>>
           q == <<call.x, 0>>
<1>10. /\ p \in DOMAIN Holding /\ q \in DOMAIN Holding /\ p # q
       /\ Holding[p] = call.item /\ Holding[q] = Null /\ Holding'[p] = Null /\ Holding'[q] = call.item
  <2>1. var'[call.x] = call.item /\ call'.item = Null
    BY <1>1, <1>2, Facts DEF NoCall
  <2> QED  BY <1>2, <2>1, HoldingAt
<1>11. \A y \in Var : <<y, 0>> \in {p, q} \/ var'[y] = var[y]
  BY <1>1, Facts
<1>12. <<Null, 0>> \in {p, q} /\ stack' = stack /\ \A i \in Cells : Handles(old, i) = Handles(CellsOf(o), i)
  BY <1>1
<1> HIDE DEF o, old, u, m, p, q
<1> QED  BY <1>w, <1>8, <1>10, <1>11, <1>12, WriteExchange

\* What is known of a Vec of which the program asks something.
LEMMA CalledFacts ==
  ASSUME RuntimeInv, NEW y \in Var, Called(y), NEW o, o = var[y]
  PROVE  /\ mode = "running" /\ stack = <<>> /\ call = NoCall
         /\ VecIn(heap, o) /\ heap[o].count > 0 /\ o \in Obj /\ o # Null
         /\ heap[o].used \in Nat /\ heap[o].cap \in Nat /\ heap[o].used <= heap[o].cap /\ heap[o].cap <= MaxWord
         /\ meant[o] \in Seq(Obj) /\ Len(meant[o]) = heap[o].used
         /\ Filled(Storage(heap, buffer, o), heap[o].used, meant[o], NoCall)
         /\ heap[o].used > 0 => heap[o].data # Null
<1>1. /\ mode = "running" /\ stack = <<>> /\ call = NoCall /\ IsVec(o)
      /\ \A w \in LiveIn(heap) : heap[w].count > 0 /\ heap[w].count \in Nat
  BY ReadyFacts DEF Called
<1>2. VecIn(heap, o) /\ heap[o].count > 0 /\ o \in Obj /\ o # Null
  BY <1>1, FreedIs DEF IsVec, VecIn, LiveIn
<1>3. Filled(Storage(heap, buffer, o), heap[o].used, meant[o], NoCall)
  <2>1. Filled(Storage(heap, buffer, o), heap[o].used, meant[o], IF call.o = o THEN call ELSE NoCall)
    BY <1>2, VecFacts
  <2> QED  BY <1>1, <2>1
<1>4. Len(meant[o]) = heap[o].used
  BY <1>3, FilledIs
<1>5. /\ heap[o].used \in Nat /\ heap[o].cap \in Nat /\ heap[o].used <= heap[o].cap /\ heap[o].cap <= MaxWord
      /\ meant[o] \in Seq(Obj) /\ (heap[o].cap = 0 <=> heap[o].data = Null)
  BY <1>2, VecFacts
<1>6. heap[o].used > 0 => heap[o].data # Null
  BY <1>5
<1> QED  BY <1>1, <1>2, <1>3, <1>4, <1>5, <1>6

\* The element at an index that is within bounds is an object.
LEMMA ElementCell ==
  ASSUME RuntimeInv, NEW y \in Var, Called(y), NEW o, o = var[y], NEW i \in Nat, i < heap[o].used
  PROVE  /\ heap[o].data # Null /\ Storage(heap, buffer, o) = CellsOf(o)
         /\ CellsOf(o) \in Seq(Value \cup {Junk}) /\ Len(CellsOf(o)) = heap[o].cap
         /\ i < Len(CellsOf(o)) /\ i + 1 \in Cells
         /\ Cell(o, i) \in Obj /\ Handles(CellsOf(o), i + 1) = Cell(o, i)
<1>1. /\ VecIn(heap, o) /\ heap[o].count > 0
      /\ heap[o].used \in Nat /\ heap[o].cap \in Nat /\ heap[o].used <= heap[o].cap /\ heap[o].cap <= MaxWord
      /\ meant[o] \in Seq(Obj) /\ Len(meant[o]) = heap[o].used
      /\ Filled(Storage(heap, buffer, o), heap[o].used, meant[o], NoCall)
      /\ (heap[o].used > 0 => heap[o].data # Null)
  BY CalledFacts
<1>2. heap[o].used > 0 /\ heap[o].data # Null
  BY <1>1
<1>3. /\ Storage(heap, buffer, o) = CellsOf(o)
      /\ CellsOf(o) \in Seq(Value \cup {Junk}) /\ Len(CellsOf(o)) = heap[o].cap
  BY <1>1, <1>2, VecFacts
<1>4. i < Len(CellsOf(o)) /\ i + 1 \in Positive /\ i + 1 \in Cells
  <2>1. i + 1 \in Nat /\ i + 1 > 0 /\ i + 1 <= MaxWord
    BY SMTT(30), <1>1, RuntimeAssumption
  <2> QED  BY <1>1, <1>3, <2>1, CellsNat
<1>5. Handles(CellsOf(o), i + 1) \in Obj
  <2>1. Handles(CellsOf(o), i + 1) = Element(meant[o], i + 1)
    BY <1>1, <1>3, <1>4, FilledIs
  <2>2. i + 1 \in 1 .. Len(meant[o])
    BY <1>1
  <2> QED  BY <1>1, <2>1, <2>2 DEF Element
<1>6. Handles(CellsOf(o), i + 1) = CellsOf(o)[i + 1]
  BY <1>5, FreedIs DEF Handles
<1> QED  BY <1>2, <1>3, <1>4, <1>5, <1>6 DEF Cell, CellsOf

\* pop.
LEMMA VecPopStep ==
  ASSUME RuntimeInv, NEW y \in Var, NEW x \in Var, VecPop(y, x)
  PROVE  Sound' /\ [Abstract!Next]_Abstract!vars
<1> DEFINE o == var[y]
           u == heap[o].used
           m == meant[o]
           old == CellsOf(o)
           cells == Put(old, u - 1, Null)
<1>1. /\ Called(y) /\ x # y /\ var[x] = Null /\ u > 0
      /\ heap' = [heap EXCEPT ![o].used = u - 1] /\ var' = [var EXCEPT ![x] = Cell(o, u - 1)]
      /\ buffer' = [buffer EXCEPT ![heap[o].data] = cells] /\ meant' = [meant EXCEPT ![o] = Front(m)]
      /\ UNCHANGED <<stack, call, mode>>
  BY DEF VecPop, UpdateCells
<1>2. /\ mode = "running" /\ stack = <<>> /\ call = NoCall
      /\ VecIn(heap, o) /\ heap[o].count > 0 /\ o \in Obj /\ o # Null
      /\ u \in Nat /\ heap[o].cap \in Nat /\ u <= heap[o].cap
      /\ m \in Seq(Obj) /\ Filled(Storage(heap, buffer, o), u, m, NoCall)
  BY <1>1, CalledFacts
<1>3. /\ u - 1 \in Nat /\ u - 1 < u /\ (u - 1) + 1 = u /\ u - 1 <= heap[o].cap
  BY <1>1, <1>2
<1>4. /\ heap[o].data # Null /\ Storage(heap, buffer, o) = old
      /\ old \in Seq(Value \cup {Junk}) /\ Len(old) = heap[o].cap
      /\ u - 1 < Len(old) /\ u \in Cells
      /\ Cell(o, u - 1) \in Obj /\ Handles(old, u) = Cell(o, u - 1)
  <2>1. /\ heap[o].data # Null /\ Storage(heap, buffer, o) = CellsOf(o)
        /\ CellsOf(o) \in Seq(Value \cup {Junk}) /\ Len(CellsOf(o)) = heap[o].cap
        /\ u - 1 < Len(CellsOf(o)) /\ (u - 1) + 1 \in Cells
        /\ Cell(o, u - 1) \in Obj /\ Handles(CellsOf(o), (u - 1) + 1) = Cell(o, u - 1)
    BY <1>1, <1>3, ElementCell
  <2> QED  BY <1>3, <2>1
<1>5. /\ cells \in Seq(Value \cup {Junk}) /\ Len(cells) = heap[o].cap
      /\ \A i \in Positive : Handles(cells, i) = IF i = u THEN Null ELSE Handles(old, i)
  <2>1. Null \in Value \cup {Junk} /\ HandleOf(Null) = Null
    BY FreedIs DEF Value, HandleOf
  <2> HIDE DEF old, o, u
  <2> QED  BY <1>3, <1>4, <2>1, PutIs
<1>6. Front(m) \in Seq(Obj) /\ Filled(cells, u - 1, Front(m), NoCall)
  <2> HIDE DEF cells, old, m, u
  <2> QED  BY <1>1, <1>2, <1>4, <1>5, FillPop
<1>7. Writes(o, cells, u - 1, Front(m))
  <2>1. var' \in [Var -> Value] /\ call' \in Operation /\ call'.o = Null /\ call.o = Null
    <3>1. call'.o = Null /\ call.o = Null
      BY <1>1, <1>2 DEF NoCall
    <3> QED  BY <1>1, <1>4, <3>1, Facts DEF Value
  <2> HIDE DEF cells
  <2> QED  BY <1>1, <1>2, <2>1 DEF Writes
<1>w. /\ VecIn(heap, o) /\ heap[o].count > 0 /\ heap[o].data # Null
      /\ cells \in Seq(Value \cup {Junk}) /\ Len(cells) = heap[o].cap
      /\ u - 1 \in Nat /\ u - 1 <= heap[o].cap /\ Front(m) \in Seq(Obj) /\ Writes(o, cells, u - 1, Front(m))
      /\ Filled(cells, u - 1, Front(m), IF call'.o = o THEN call' ELSE NoCall)
  <2>1. call' = NoCall
    BY <1>1, <1>2
  <2> QED  BY <1>2, <1>3, <1>4, <1>5, <1>6, <1>7, <2>1
<1>8. CallSound(var', heap', stack', call')
  BY <1>1, <1>2, NoCallSound
<1> DEFINE p == <<x, 0>>
           q == <<o, u>>
           f == Front(m)
<1>10. /\ p \in DOMAIN Holding /\ q \in DOMAIN Holding /\ p # q
       /\ Holding[p] = Null /\ Holding[q] = Cell(o, u - 1) /\ Holding'[p] = Cell(o, u - 1) /\ Holding'[q] = Null
  <2> HIDE DEF f, m, cells, u
  <2>1. \A i \in Cells : /\ <<o, i>> \in DOMAIN Holding /\ Holding[<<o, i>>] = Handles(CellsOf(o), i)
                         /\ Holding'[<<o, i>>] = Handles(cells, i)
    BY <1>w, WritePlaces
  <2>2. var'[x] = Cell(o, u - 1)
    BY <1>1, Facts
  <2>3. Handles(cells, u) = Null
    BY <1>4, <1>5, CellsNat
  <2> QED  BY <1>1, <1>2, <1>4, <2>1, <2>2, <2>3, HoldingAt
<1>11. \A z \in Var : <<z, 0>> \in {p, q} \/ var'[z] = var[z]
  BY <1>1, Facts
<1>12. stack' = stack /\ call'.item = call.item
  BY <1>1
<1>13. \A i \in Cells : <<o, i>> \in {p, q} \/ Handles(cells, i) = Handles(CellsOf(o), i)
  BY <1>5, CellsNat
<1> HIDE DEF o, old, u, m, p, q, f, cells
<1> QED  BY <1>w, <1>8, <1>10, <1>11, <1>12, <1>13, WriteExchange

\* The beginning of remove.
LEMMA VecRemoveStep ==
  ASSUME RuntimeInv, NEW y \in Var, NEW i \in Nat, NEW x \in Var, VecRemove(y, i, x)
  PROVE  Sound' /\ [Abstract!Next]_Abstract!vars
<1> DEFINE o == var[y]
           u == heap[o].used
           m == meant[o]
           old == CellsOf(o)
           cells == Put(old, i, Null)
           r == RemoveAt(m, i + 1)
<1>1. /\ Called(y) /\ x # y /\ var[x] = Null /\ ~(i >= u)
      /\ call' = [op |-> "remove", o |-> o, i |-> i, at |-> i, item |-> Cell(o, i), x |-> x]
      /\ buffer' = [buffer EXCEPT ![heap[o].data] = cells] /\ meant' = [meant EXCEPT ![o] = r]
      /\ UNCHANGED <<var, heap, stack, mode>>
  BY DEF VecRemove, UpdateCells, Begin, RemoveRefused
<1>2. /\ mode = "running" /\ stack = <<>> /\ call = NoCall
      /\ VecIn(heap, o) /\ heap[o].count > 0 /\ o \in Obj /\ o # Null
      /\ u \in Nat /\ heap[o].cap \in Nat /\ u <= heap[o].cap /\ i < u
      /\ m \in Seq(Obj) /\ Filled(Storage(heap, buffer, o), u, m, NoCall)
  BY <1>1, CalledFacts
<1>4. /\ heap[o].data # Null /\ Storage(heap, buffer, o) = old
      /\ old \in Seq(Value \cup {Junk}) /\ Len(old) = heap[o].cap
      /\ i < Len(old) /\ i + 1 \in Cells
      /\ Cell(o, i) \in Obj /\ Handles(old, i + 1) = Cell(o, i)
  BY <1>1, <1>2, ElementCell
<1>5. /\ cells \in Seq(Value \cup {Junk}) /\ Len(cells) = heap[o].cap
      /\ \A j \in Positive : Handles(cells, j) = IF j = i + 1 THEN Null ELSE Handles(old, j)
  <2>1. Null \in Value \cup {Junk} /\ HandleOf(Null) = Null
    BY FreedIs DEF Value, HandleOf
  <2> HIDE DEF old, o
  <2> QED  BY <1>4, <2>1, PutIs
<1>c. /\ call'.op = "remove" /\ call'.o = o /\ call'.i = i /\ call'.at = i /\ call'.item = Cell(o, i) /\ call'.x = x
      /\ call' \in Operation
  BY <1>1, <1>2, <1>4 DEF Operation, Value
<1>6. r \in Seq(Obj) /\ Filled(cells, u, r, call')
  <2>1. RemoveAt(m, call'.i + 1) \in Seq(Obj) /\ Filled(cells, u, RemoveAt(m, call'.i + 1), call')
    <3>1. /\ u \in Nat /\ m \in Seq(Obj) /\ Filled(old, u, m, NoCall)
          /\ call' \in Operation /\ call'.op = "remove" /\ call'.i < u /\ call'.at = call'.i
          /\ \A j \in Positive : Handles(cells, j) = IF j = call'.i + 1 THEN Null ELSE Handles(old, j)
      BY <1>2, <1>4, <1>5, <1>c
    <3> HIDE DEF cells, old, m, u
    <3> QED  BY <3>1, FillRemove
  <2> QED  BY <1>c, <2>1
<1> HIDE DEF r
<1>7. Writes(o, cells, u, r)
  <2>1. heap' = [heap EXCEPT ![o].used = u]
    <3>1. heap[o] = [heap[o] EXCEPT !.used = u]
      BY <1>2, VecFacts DEF Object
    <3> QED  BY <1>1, <3>1, Facts
  <2>2. var' \in [Var -> Value] /\ call.o = Null
    BY <1>1, <1>2, Facts DEF NoCall
  <2> HIDE DEF cells
  <2> QED  BY <1>1, <1>2, <1>c, <2>1, <2>2 DEF Writes
<1>w. /\ VecIn(heap, o) /\ heap[o].count > 0 /\ heap[o].data # Null
      /\ cells \in Seq(Value \cup {Junk}) /\ Len(cells) = heap[o].cap
      /\ u \in Nat /\ u <= heap[o].cap /\ r \in Seq(Obj) /\ Writes(o, cells, u, r)
      /\ Filled(cells, u, r, IF call'.o = o THEN call' ELSE NoCall)
  BY <1>2, <1>4, <1>5, <1>6, <1>7, <1>c
<1>8. CallSound(var', heap', stack', call')
  <2>1. heap[o].count = 1
    BY <1>2, VecFacts
  <2>2. call'.item # Null
    BY <1>4, <1>c, FreedIs
  <2>3. \E z \in Var : var'[z] = o
    BY <1>1
  <2> QED  BY <1>1, <1>2, <1>c, <2>1, <2>2, <2>3 DEF CallSound
<1> DEFINE p == <<Null, 0>>
           q == <<o, i + 1>>
<1>10. /\ p \in DOMAIN Holding /\ q \in DOMAIN Holding /\ p # q
       /\ Holding[p] = Null /\ Holding[q] = Cell(o, i) /\ Holding'[p] = Cell(o, i) /\ Holding'[q] = Null
  <2> HIDE DEF m, cells, u
  <2>1. \A j \in Cells : /\ <<o, j>> \in DOMAIN Holding /\ Holding[<<o, j>>] = Handles(CellsOf(o), j)
                         /\ Holding'[<<o, j>>] = Handles(cells, j)
    BY <1>w, WritePlaces
  <2>2. call.item = Null
    BY <1>2 DEF NoCall
  <2>3. Handles(cells, i + 1) = Null
    BY <1>4, <1>5, CellsNat
  <2> QED  BY <1>1, <1>2, <1>4, <1>c, <2>1, <2>2, <2>3, HoldingAt
<1>12. stack' = stack /\ var' = var /\ <<Null, 0>> \in {p, q}
  BY <1>1
<1>13. \A j \in Cells : <<o, j>> \in {p, q} \/ Handles(cells, j) = Handles(CellsOf(o), j)
  BY <1>5, CellsNat
<1> HIDE DEF o, old, u, m, p, q, cells
<1> QED  BY <1>w, <1>8, <1>10, <1>12, <1>13, WriteExchange

\* An element of a Vec that is cleared is released.
LEMMA ClearNextStep ==
  ASSUME RuntimeInv, ClearNext
  PROVE  Sound' /\ [Abstract!Next]_Abstract!vars
<1> DEFINE o == call.o
           u == heap[o].used
           m == meant[o]
           old == CellsOf(o)
           cells == Put(old, u - 1, Null)
<1>1. /\ mode = "running" /\ stack = <<>> /\ call.op \in {"clear", "drop"} /\ u > 0
      /\ heap' = [heap EXCEPT ![o].used = u - 1] /\ stack' = <<Release(Cell(o, u - 1))>>
      /\ buffer' = [buffer EXCEPT ![heap[o].data] = cells]
      /\ UNCHANGED <<var, call, meant, mode>>
  BY DEF ClearNext, UpdateCells, Running
<1>2. /\ VecIn(heap, o) /\ heap[o].count > 0 /\ o # Null /\ o \in Obj /\ call \in Operation
      /\ Filled(Storage(heap, buffer, o), u, m, call)
  BY <1>1, CallFacts
<1>3. /\ u \in Nat /\ heap[o].cap \in Nat /\ u <= heap[o].cap /\ m \in Seq(Obj) /\ heap[o].cap <= MaxWord
      /\ heap[o].data # Null /\ old \in Seq(Value \cup {Junk}) /\ Len(old) = heap[o].cap
      /\ Storage(heap, buffer, o) = old
  <2>1. u \in Nat /\ heap[o].cap \in Nat /\ u <= heap[o].cap
    BY <1>2, VecFacts
  <2>2. heap[o].cap # 0
    BY <1>1, <2>1
  <2>3. heap[o].data # Null
    BY <1>2, <2>2, VecFacts
  <2> QED  BY <1>2, <2>1, <2>3, VecFacts
<1>4. /\ u - 1 \in Nat /\ u - 1 < Len(old) /\ (u - 1) + 1 = u /\ u \in Cells /\ u \in Positive /\ u - 1 <= heap[o].cap
  <2>1. u \in Nat /\ u > 0 /\ u <= MaxWord
    BY <1>1, <1>3, RuntimeAssumption
  <2> QED  BY <1>3, <2>1, CellsNat
<1>v. Cell(o, u - 1) \in Obj /\ Handles(old, u) = Cell(o, u - 1)
  <2>1. Handles(old, u) # Null
    <3> HIDE DEF old, m, u
    <3> QED  BY <1>1, <1>2, <1>3, <1>4, FilledIs
  <2>2. Handles(old, u) = old[u] /\ old[u] \in Obj
    <3> HIDE DEF old, u
    <3> QED  BY <2>1 DEF Handles
  <2> QED  BY <1>4, <2>2 DEF Cell, CellsOf
<1>5. /\ cells \in Seq(Value \cup {Junk}) /\ Len(cells) = heap[o].cap
      /\ \A i \in Positive : Handles(cells, i) = IF i = u THEN Null ELSE Handles(old, i)
  <2>1. Null \in Value \cup {Junk} /\ HandleOf(Null) = Null
    BY FreedIs DEF Value, HandleOf
  <2> HIDE DEF old, o, u
  <2> QED  BY <1>3, <1>4, <2>1, PutIs
<1>6. Filled(cells, u - 1, m, call)
  <2> HIDE DEF cells, old, m, u
  <2> QED  BY <1>1, <1>2, <1>3, <1>5, FillClearNext
<1>7. Writes(o, cells, u - 1, m)
  <2>1. var' \in [Var -> Value] /\ call' \in Operation /\ meant' = [meant EXCEPT ![o] = m]
    BY <1>1, Facts
  <2>2. Cell(o, u - 1) \in Value
    BY <1>v DEF Value
  <2> HIDE DEF cells
  <2> QED  BY <1>1, <1>2, <2>1, <2>2 DEF Writes
<1>w. /\ VecIn(heap, o) /\ heap[o].count > 0 /\ heap[o].data # Null
      /\ cells \in Seq(Value \cup {Junk}) /\ Len(cells) = heap[o].cap
      /\ u - 1 \in Nat /\ u - 1 <= heap[o].cap /\ m \in Seq(Obj) /\ Writes(o, cells, u - 1, m)
      /\ Filled(cells, u - 1, m, IF call'.o = o THEN call' ELSE NoCall)
  BY <1>1, <1>2, <1>3, <1>4, <1>5, <1>6, <1>7
<1> DEFINE c == Cell(o, u - 1)
           k == u - 1
<1>8. CallSound(var', heap', stack', call')
  <2>1. VecIn(heap', o) /\ heap'[o].count = 1
    <3> HIDE DEF cells, m, o, u
    <3> QED  BY <1>w, WriteSound
  <2>2. CallSound(var, heap, stack, call)
    BY Facts
  <2>3. call.op # "none" /\ call.op \notin {"insert", "remove", "set"}
    BY <1>1
  <2> QED  BY <1>1, <2>1, <2>2, <2>3 DEF CallSound
<1> DEFINE p == <<Null, 1>>
           q == <<o, u>>
<1>10. /\ p \in DOMAIN Holding /\ q \in DOMAIN Holding /\ p # q
       /\ Holding[p] = Null /\ Holding[q] = c /\ Holding'[p] = c /\ Holding'[q] = Null
  <2>1. \A i \in Cells : /\ <<o, i>> \in DOMAIN Holding /\ Holding[<<o, i>>] = Handles(CellsOf(o), i)
                         /\ Holding'[<<o, i>>] = Handles(cells, i)
    <3> HIDE DEF cells, m, o, u, c
    <3> QED  BY <1>w, WritePlaces
  <2>2. 1 \in Depth
    BY RuntimeAssumption, FS_CardinalityType DEF Depth
  <2>3. PendingIn(stack, 1) = Null
    BY <1>1 DEF PendingIn
  <2>4. PendingIn(stack', 1) = c
    BY <1>1 DEF PendingIn, Release
  <2>5. p \in DOMAIN Holding /\ Holding[p] = Null /\ Holding'[p] = c
    BY <2>2, <2>3, <2>4, HoldingAt
  <2>6. Handles(cells, u) = Null
    BY <1>4, <1>5
  <2>7. q \in DOMAIN Holding /\ Holding[q] = c /\ Holding'[q] = Null
    BY <1>4, <1>v, <2>1, <2>6
  <2>8. p # q
    BY <1>2
  <2> QED  BY <2>5, <2>7, <2>8
<1>12. var' = var /\ call' = call /\ <<Null, 1>> \in {p, q}
  BY <1>1
<1>13. \A i \in Cells : <<o, i>> \in {p, q} \/ Handles(cells, i) = Handles(CellsOf(o), i)
  BY <1>5, CellsNat
<1> HIDE DEF o, old, u, m, p, q, cells, c
<1> QED  BY <1>w, <1>8, <1>10, <1>12, <1>13, WriteExchange

\* An operation that writes cells and lets places exchange what they hold, first
\* p and q, then r and s; f is what they hold in between.
LEMMA WriteTwice ==
  ASSUME RuntimeInv, NEW o, VecIn(heap, o), heap[o].count > 0, heap[o].data # Null,
         NEW cells \in Seq(Value \cup {Junk}), Len(cells) = heap[o].cap,
         NEW u \in Nat, u <= heap[o].cap, NEW m \in Seq(Obj), Writes(o, cells, u, m),
         Filled(cells, u, m, IF call'.o = o THEN call' ELSE NoCall),
         CallSound(var', heap', stack', call'),
         NEW p \in DOMAIN Holding, NEW q \in DOMAIN Holding, p # q,
         NEW r \in DOMAIN Holding, NEW s \in DOMAIN Holding, r # s,
         NEW f, DOMAIN f = DOMAIN Holding, f[p] = Holding[q], f[q] = Holding[p],
         \A t \in DOMAIN Holding \ {p, q} : f[t] = Holding[t],
         Holding'[r] = f[s], Holding'[s] = f[r],
         \A t \in DOMAIN Holding \ {r, s} : Holding'[t] = f[t]
  PROVE  Sound' /\ [Abstract!Next]_Abstract!vars
<1>1. ASSUME NEW w \in Obj PROVE Ways(Holding', w) = Ways(Holding, w)
  <2>1. IsFiniteSet(DOMAIN Holding) /\ DOMAIN Holding' = DOMAIN Holding
    BY WaysOf
  <2>2. Ways(f, w) = Ways(Holding, w)
    BY <2>1, WaysExchange
  <2>3. Ways(Holding', w) = Ways(f, w)
    BY <2>1, WaysExchange
  <2> QED  BY <2>2, <2>3
<1> QED  BY <1>1, WriteMove

\* The handles of cells after swap_remove.
LEMMA SwapRemovedIs ==
  ASSUME NEW cells \in Seq(Value \cup {Junk}), NEW i \in Nat, NEW k \in Nat, i <= k, k < Len(cells)
  PROVE  /\ SwapRemoved(cells, i, k) \in Seq(Value \cup {Junk}) /\ Len(SwapRemoved(cells, i, k)) = Len(cells)
         /\ \A j \in Positive : Handles(SwapRemoved(cells, i, k), j) =
              IF j = k + 1 THEN Null ELSE IF j = i + 1 THEN Handles(cells, k + 1) ELSE Handles(cells, j)
<1> DEFINE c2 == Put(cells, i, Null)
<1>1. Null \in Value \cup {Junk} /\ HandleOf(Null) = Null /\ i < Len(cells)
  BY FreedIs DEF Value, HandleOf
<1>2. /\ c2 \in Seq(Value \cup {Junk}) /\ Len(c2) = Len(cells)
      /\ \A j \in Positive : Handles(c2, j) = IF j = i + 1 THEN Null ELSE Handles(cells, j)
  BY <1>1, PutIs
<1> HIDE DEF c2
<1>3. CASE i < k
  <2> DEFINE c3 == MoveCell(c2, k, i)
  <2>1. SwapRemoved(cells, i, k) = c3
    BY <1>3 DEF SwapRemoved, c2
  <2>2. /\ c3 \in Seq(Value \cup {Junk}) /\ Len(c3) = Len(c2)
        /\ \A j \in Positive : Handles(c3, j) =
             IF j = i + 1 THEN Handles(c2, k + 1) ELSE IF j = k + 1 THEN Null ELSE Handles(c2, j)
    BY <1>1, <1>2, <1>3, MoveCellIs
  <2>3. i + 1 # k + 1 /\ k + 1 \in Positive
    BY <1>3 DEF Positive
  <2> HIDE DEF c3
  <2> QED  BY <1>2, <2>1, <2>2, <2>3
<1>4. CASE ~(i < k)
  <2>1. i = k /\ SwapRemoved(cells, i, k) = c2
    BY <1>4 DEF SwapRemoved, c2
  <2> QED  BY <1>2, <2>1
<1> QED  BY <1>3, <1>4

\* swap_remove puts the last element where the removed one was.
LEMMA FillSwapRemove ==
  ASSUME NEW cells, NEW cells2, NEW u \in Nat, NEW m \in Seq(Obj), Filled(cells, u, m, NoCall),
         NEW i \in Nat, i < u,
         \A j \in Positive : Handles(cells2, j) =
           IF j = u THEN Null ELSE IF j = i + 1 THEN Handles(cells, u) ELSE Handles(cells, j)
  PROVE  /\ Front([m EXCEPT ![i + 1] = Last(m)]) \in Seq(Obj)
         /\ Filled(cells2, u - 1, Front([m EXCEPT ![i + 1] = Last(m)]), NoCall)
<1> DEFINE m2 == [m EXCEPT ![i + 1] = Last(m)]
           e == Front(m2)
<1>1. Len(m) = u /\ \A j \in Positive : Handles(cells, j) = Element(m, j)
  BY FilledIs
<1>2. Last(m) = m[u] /\ m[u] \in Obj /\ u \in Positive /\ i + 1 \in 1 .. u
  BY <1>1 DEF Last, Positive
<1>3. m2 \in Seq(Obj) /\ Len(m2) = u /\ m2 # <<>> /\ \A j \in 1 .. u : m2[j] = IF j = i + 1 THEN m[u] ELSE m[j]
  BY <1>1, <1>2
<1> HIDE DEF m2
<1>4. /\ e \in Seq(Obj) /\ Len(e) = u - 1 /\ \A j \in Positive : Element(e, j) = IF j = u THEN Null ELSE Element(m2, j)
  BY <1>3, ShorterIs
<1> HIDE DEF e
<1>5. ASSUME NEW j \in Positive PROVE Handles(cells2, j) = Element(e, j)
  <2>1. j \in 1 .. u => Element(m2, j) = IF j = i + 1 THEN m[u] ELSE m[j]
    BY <1>3 DEF Element
  <2>2. j \notin 1 .. u => Element(m2, j) = Null
    BY <1>3 DEF Element
  <2>3. Handles(cells, u) = m[u]
    BY <1>1, <1>2 DEF Element
  <2>4. Handles(cells, j) = IF j \in 1 .. u THEN m[j] ELSE Null
    BY <1>1 DEF Element
  <2>5. j = i + 1 => j \in 1 .. u
    BY <1>2
  <2> QED  BY <1>4, <2>1, <2>2, <2>3, <2>4, <2>5
<1>6. Filled(cells2, u - 1, e, NoCall)
  BY <1>4, <1>5, FilledIs
<1> QED  BY <1>4, <1>6 DEF e, m2

\* swap_remove.
LEMMA VecSwapRemoveStep ==
  ASSUME RuntimeInv, NEW y \in Var, NEW i \in Nat, NEW x \in Var, VecSwapRemove(y, i, x)
  PROVE  Sound' /\ [Abstract!Next]_Abstract!vars
<1> DEFINE o == var[y]
           u == heap[o].used
           m == meant[o]
           old == CellsOf(o)
           k == u - 1
           cells == SwapRemoved(old, i, k)
           m2 == Front([m EXCEPT ![i + 1] = Last(m)])
<1>1. /\ Called(y) /\ x # y /\ var[x] = Null /\ ~(i >= u)
      /\ heap' = [heap EXCEPT ![o].used = k] /\ var' = [var EXCEPT ![x] = Cell(o, i)]
      /\ buffer' = [buffer EXCEPT ![heap[o].data] = cells] /\ meant' = [meant EXCEPT ![o] = m2]
      /\ UNCHANGED <<stack, call, mode>>
  <2>1. meant' = [meant EXCEPT ![o] = Front([@ EXCEPT ![i + 1] = Last(m)])]
    BY DEF VecSwapRemove
  <2> QED  BY <2>1 DEF VecSwapRemove, UpdateCells, RemoveRefused
<1>2. /\ mode = "running" /\ stack = <<>> /\ call = NoCall
      /\ VecIn(heap, o) /\ heap[o].count > 0 /\ o \in Obj /\ o # Null
      /\ u \in Nat /\ heap[o].cap \in Nat /\ u <= heap[o].cap
      /\ m \in Seq(Obj) /\ Filled(Storage(heap, buffer, o), u, m, NoCall)
  BY <1>1, CalledFacts
<1>3. /\ k \in Nat /\ k < u /\ k + 1 = u /\ k <= heap[o].cap /\ i < u /\ i <= k
  BY <1>1, <1>2
<1>4. /\ heap[o].data # Null /\ Storage(heap, buffer, o) = old
      /\ old \in Seq(Value \cup {Junk}) /\ Len(old) = heap[o].cap
      /\ i + 1 \in Cells /\ k + 1 \in Cells /\ k < Len(old)
      /\ Cell(o, i) \in Obj /\ Handles(old, i + 1) = Cell(o, i)
  <2>1. /\ heap[o].data # Null /\ Storage(heap, buffer, o) = old
        /\ old \in Seq(Value \cup {Junk}) /\ Len(old) = heap[o].cap
        /\ i + 1 \in Cells /\ Cell(o, i) \in Obj /\ Handles(old, i + 1) = Cell(o, i)
    BY <1>1, <1>3, ElementCell
  <2>2. k < Len(CellsOf(o)) /\ k + 1 \in Cells
    BY <1>1, <1>3, ElementCell
  <2> QED  BY <2>1, <2>2
<1> HIDE DEF k
<1>5. /\ cells \in Seq(Value \cup {Junk}) /\ Len(cells) = heap[o].cap
      /\ \A j \in Positive : Handles(cells, j) =
           IF j = u THEN Null ELSE IF j = i + 1 THEN Handles(old, u) ELSE Handles(old, j)
  <2> HIDE DEF old, o, u
  <2>1. \A j \in Positive : Handles(cells, j) =
           IF j = k + 1 THEN Null ELSE IF j = i + 1 THEN Handles(old, k + 1) ELSE Handles(old, j)
    BY <1>3, <1>4, SwapRemovedIs
  <2>2. cells \in Seq(Value \cup {Junk}) /\ Len(cells) = Len(old)
    BY <1>3, <1>4, SwapRemovedIs
  <2> QED  BY <1>3, <1>4, <2>1, <2>2
<1>6. m2 \in Seq(Obj) /\ Filled(cells, k, m2, NoCall)
  <2>1. Filled(old, u, m, NoCall)
    BY <1>2, <1>4
  <2>0. /\ u \in Nat /\ m \in Seq(Obj) /\ i \in Nat /\ i < u
        /\ \A j \in Positive : Handles(cells, j) =
             IF j = u THEN Null ELSE IF j = i + 1 THEN Handles(old, u) ELSE Handles(old, j)
    BY <1>2, <1>3, <1>5
  <2> HIDE DEF cells, old, m, u
  <2>2. m2 \in Seq(Obj) /\ Filled(cells, u - 1, m2, NoCall)
    BY <2>0, <2>1, FillSwapRemove
  <2> QED  BY <2>2 DEF k, u
<1> HIDE DEF m2
<1>7. Writes(o, cells, k, m2)
  <2>1. var' \in [Var -> Value] /\ call' \in Operation /\ call'.o = Null /\ call.o = Null
    <3>1. call'.o = Null /\ call.o = Null
      BY <1>1, <1>2 DEF NoCall
    <3> QED  BY <1>1, <1>4, <3>1, Facts DEF Value
  <2> HIDE DEF cells
  <2> QED  BY <1>1, <1>2, <2>1 DEF Writes
<1>w. /\ VecIn(heap, o) /\ heap[o].count > 0 /\ heap[o].data # Null
      /\ cells \in Seq(Value \cup {Junk}) /\ Len(cells) = heap[o].cap
      /\ k \in Nat /\ k <= heap[o].cap /\ m2 \in Seq(Obj) /\ Writes(o, cells, k, m2)
      /\ Filled(cells, k, m2, IF call'.o = o THEN call' ELSE NoCall)
  <2>1. call' = NoCall
    BY <1>1, <1>2
  <2> QED  BY <1>2, <1>3, <1>4, <1>5, <1>6, <1>7, <2>1
<1>8. CallSound(var', heap', stack', call')
  BY <1>1, <1>2, NoCallSound
<1> DEFINE p == <<x, 0>>
           q == <<o, i + 1>>
           s == <<o, u>>
           a == Cell(o, i)
           z == Handles(old, u)
<1>10. /\ p \in DOMAIN Holding /\ q \in DOMAIN Holding /\ s \in DOMAIN Holding /\ p # q /\ p # s
       /\ Holding[p] = Null /\ Holding[q] = a /\ Holding[s] = z /\ Holding'[p] = a /\ Holding'[s] = Null
       /\ i + 1 # u => Holding'[q] = z
  <2> HIDE DEF m, cells, u, a
  <2>1. \A j \in Cells : /\ <<o, j>> \in DOMAIN Holding /\ Holding[<<o, j>>] = Handles(CellsOf(o), j)
                         /\ Holding'[<<o, j>>] = Handles(cells, j)
    BY <1>w, WritePlaces
  <2>2. var'[x] = a
    BY <1>1, Facts DEF a
  <2>3. Handles(cells, u) = Null /\ (i + 1 # u => Handles(cells, i + 1) = z)
    BY <1>3, <1>4, <1>5, CellsNat
  <2>4. p \in DOMAIN Holding /\ p # q /\ p # s /\ Holding[p] = Null /\ Holding'[p] = a
    BY <1>1, <1>2, <1>3, <1>4, <2>2, HoldingAt
  <2>5. Holding[q] = a /\ Holding[s] = z
    BY <1>3, <1>4, <2>1 DEF a
  <2> QED  BY <1>3, <1>4, <2>1, <2>3, <2>4, <2>5
<1>11. \A t \in Var : <<t, 0>> \in {p} \/ var'[t] = var[t]
  BY <1>1, Facts
<1>12. stack' = stack /\ call'.item = call.item
  BY <1>1
<1>13. \A j \in Cells : <<o, j>> \in {q, s} \/ Handles(cells, j) = Handles(CellsOf(o), j)
  BY <1>5, CellsNat
<1> HIDE DEF m, cells, a, z, o, p, q, s, old
<1>14. CASE i + 1 = u
  <2>1. q = s
    BY <1>14 DEF q, s
  <2> HIDE DEF u
  <2> QED  BY <1>w, <1>8, <1>10, <1>11, <1>12, <1>13, <2>1, WriteExchange
<1>15. CASE i + 1 # u
  <2> DEFINE f == [t \in DOMAIN Holding |-> IF t = p THEN a ELSE IF t = q THEN Null ELSE Holding[t]]
  <2>1. q # s
    BY <1>15 DEF q, s
  <2>2. /\ DOMAIN f = DOMAIN Holding /\ f[p] = Holding[q] /\ f[q] = Holding[p]
        /\ \A t \in DOMAIN Holding \ {p, q} : f[t] = Holding[t]
    BY <1>10
  <2>3. \A t \in DOMAIN Holding \ {p, q, s} : Holding'[t] = Holding[t]
    <3> DEFINE S == {p, q, s}
    <3>1. /\ \A t \in Var : <<t, 0>> \in S \/ var'[t] = var[t]
          /\ \A j \in Cells : <<o, j>> \in S \/ Handles(cells, j) = Handles(CellsOf(o), j)
      BY <1>11, <1>13
    <3> HIDE DEF S, u
    <3>2. \A t \in DOMAIN Holding \ S : Holding'[t] = Holding[t]
      BY <1>w, <1>12, <3>1, WriteElse
    <3> QED  BY <3>2 DEF S
  <2>4. Holding'[q] = f[s] /\ Holding'[s] = f[q]
    BY <1>10, <1>15, <2>1
  <2>5. \A t \in DOMAIN Holding \ {q, s} : Holding'[t] = f[t]
    BY <1>10, <2>1, <2>3
  <2> HIDE DEF f, u
  <2> QED  BY <1>w, <1>8, <1>10, <2>1, <2>2, <2>4, <2>5, WriteTwice
<1> QED  BY <1>14, <1>15

\* The beginning of set, which releases the old element.
LEMMA VecSetStep ==
  ASSUME RuntimeInv, NEW y \in Var, NEW i \in Nat, NEW x \in Var, VecSet(y, i, x)
  PROVE  Sound' /\ [Abstract!Next]_Abstract!vars
<1> DEFINE o == var[y]
           u == heap[o].used
           m == meant[o]
           old == CellsOf(o)
           cells == Put(old, i, Null)
           m2 == [m EXCEPT ![i + 1] = var[x]]
           a == Cell(o, i)
<1>1. /\ Called(y) /\ x # y /\ var[x] # Null /\ ~(i >= u)
      /\ call' = [op |-> "set", o |-> o, i |-> i, at |-> i, item |-> var[x], x |-> Null]
      /\ var' = [var EXCEPT ![x] = Null] /\ stack' = <<Release(a)>>
      /\ buffer' = [buffer EXCEPT ![heap[o].data] = cells] /\ meant' = [meant EXCEPT ![o] = m2]
      /\ UNCHANGED <<heap, mode>>
  <2>1. meant' = [meant EXCEPT ![o] = [meant[o] EXCEPT ![i + 1] = var[x]]]
    BY DEF VecSet
  <2> QED  BY <2>1 DEF VecSet, UpdateCells, RemoveRefused, Begin
<1>2. /\ mode = "running" /\ stack = <<>> /\ call = NoCall
      /\ VecIn(heap, o) /\ heap[o].count > 0 /\ o \in Obj /\ o # Null
      /\ u \in Nat /\ heap[o].cap \in Nat /\ u <= heap[o].cap /\ i < u
      /\ m \in Seq(Obj) /\ Filled(Storage(heap, buffer, o), u, m, NoCall)
  BY <1>1, CalledFacts
<1>4. /\ heap[o].data # Null /\ Storage(heap, buffer, o) = old
      /\ old \in Seq(Value \cup {Junk}) /\ Len(old) = heap[o].cap
      /\ i < Len(old) /\ i + 1 \in Cells
      /\ a \in Obj /\ Handles(old, i + 1) = a
  BY <1>1, <1>2, ElementCell
<1>x. var[x] \in Obj /\ var[x] \in Value
  BY <1>1, Facts, NullValue
<1>5. /\ cells \in Seq(Value \cup {Junk}) /\ Len(cells) = heap[o].cap
      /\ \A j \in Positive : Handles(cells, j) = IF j = i + 1 THEN Null ELSE Handles(old, j)
  <2>1. Null \in Value \cup {Junk} /\ HandleOf(Null) = Null
    BY FreedIs DEF Value, HandleOf
  <2> HIDE DEF old, o
  <2> QED  BY <1>4, <2>1, PutIs
<1>c. /\ call'.op = "set" /\ call'.o = o /\ call'.i = i /\ call'.item = var[x]
      /\ call' \in Operation
  BY <1>1, <1>2, <1>x DEF Operation, Value
<1>6. m2 \in Seq(Obj) /\ Filled(cells, u, m2, call')
  <2>1. [m EXCEPT ![call'.i + 1] = call'.item] \in Seq(Obj) /\ Filled(cells, u, [m EXCEPT ![call'.i + 1] = call'.item], call')
    <3>1. /\ u \in Nat /\ m \in Seq(Obj) /\ Filled(old, u, m, NoCall)
          /\ call' \in Operation /\ call'.op = "set" /\ call'.i < u /\ call'.item \in Obj
          /\ \A j \in Positive : Handles(cells, j) = IF j = call'.i + 1 THEN Null ELSE Handles(old, j)
      BY <1>2, <1>4, <1>5, <1>c, <1>x
    <3> HIDE DEF cells, old, m, u
    <3> QED  BY <3>1, FillSet
  <2> QED  BY <1>c, <2>1
<1> HIDE DEF m2
<1>7. Writes(o, cells, u, m2)
  <2>1. heap' = [heap EXCEPT ![o].used = u]
    <3>1. heap[o] = [heap[o] EXCEPT !.used = u]
      BY <1>2, VecFacts DEF Object
    <3> QED  BY <1>1, <3>1, Facts
  <2>2. var' \in [Var -> Value] /\ call.o = Null
    BY <1>1, <1>2, Facts, NullValue DEF NoCall
  <2>3. a \in Value
    BY <1>4 DEF Value
  <2> HIDE DEF cells, a
  <2> QED  BY <1>1, <1>2, <1>c, <2>1, <2>2, <2>3 DEF Writes
<1>w. /\ VecIn(heap, o) /\ heap[o].count > 0 /\ heap[o].data # Null
      /\ cells \in Seq(Value \cup {Junk}) /\ Len(cells) = heap[o].cap
      /\ u \in Nat /\ u <= heap[o].cap /\ m2 \in Seq(Obj) /\ Writes(o, cells, u, m2)
      /\ Filled(cells, u, m2, IF call'.o = o THEN call' ELSE NoCall)
  BY <1>2, <1>4, <1>5, <1>6, <1>7, <1>c
<1>8. CallSound(var', heap', stack', call')
  <2>1. heap[o].count = 1
    BY <1>2, VecFacts
  <2>2. call'.item # Null
    BY <1>1, <1>c
  <2>3. \E z \in Var : var'[z] = o
    <3>1. var'[y] = o
      BY <1>1, Facts
    <3> QED  BY <3>1
  <2> QED  BY <1>1, <1>2, <1>c, <2>1, <2>2, <2>3 DEF CallSound
<1> DEFINE p == <<o, i + 1>>
           q == <<Null, 1>>
           r == <<x, 0>>
           s == <<Null, 0>>
           f == [t \in DOMAIN Holding |-> IF t = p THEN Null ELSE IF t = q THEN a ELSE Holding[t]]
<1>9. /\ p \in DOMAIN Holding /\ q \in DOMAIN Holding /\ r \in DOMAIN Holding /\ s \in DOMAIN Holding
      /\ p # q /\ r # s /\ r # p /\ r # q /\ s # p /\ s # q
  <2>1. 1 \in Depth
    BY RuntimeAssumption, FS_CardinalityType DEF Depth
  <2> QED  BY <1>2, <1>4, <2>1, HoldingAt
<1>10. /\ Holding[p] = a /\ Holding[q] = Null /\ Holding'[p] = Null /\ Holding'[q] = a
       /\ Holding[r] = var[x] /\ Holding[s] = Null /\ Holding'[r] = Null /\ Holding'[s] = var[x]
  <2> HIDE DEF m, cells, u, a
  <2>1. \A j \in Cells : /\ Holding[<<o, j>>] = Handles(CellsOf(o), j)
                         /\ Holding'[<<o, j>>] = Handles(cells, j)
    BY <1>w, WritePlaces
  <2>2. Handles(cells, i + 1) = Null
    BY <1>4, <1>5, CellsNat
  <2>3. Holding[p] = a /\ Holding'[p] = Null
    BY <1>4, <2>1, <2>2
  <2>4. 1 \in Depth
    BY RuntimeAssumption, FS_CardinalityType DEF Depth
  <2>5. PendingIn(stack, 1) = Null /\ PendingIn(stack', 1) = a
    BY <1>1, <1>2 DEF PendingIn, Release
  <2>6. Holding[q] = Null /\ Holding'[q] = a
    BY <2>4, <2>5, HoldingAt
  <2>7. var'[x] = Null /\ call.item = Null /\ call'.item = var[x]
    BY <1>1, <1>2, <1>c, Facts DEF NoCall
  <2>8. Holding[r] = var[x] /\ Holding[s] = Null /\ Holding'[r] = Null /\ Holding'[s] = var[x]
    BY <2>7, HoldingAt
  <2> QED  BY <2>3, <2>6, <2>8
<1>11. \A t \in DOMAIN Holding \ {p, q, r, s} : Holding'[t] = Holding[t]
  <2> DEFINE S == {p, q, r, s}
  <2>1. /\ \A t \in Var : <<t, 0>> \in S \/ var'[t] = var[t]
        /\ \A j \in Cells : <<o, j>> \in S \/ Handles(cells, j) = Handles(CellsOf(o), j)
        /\ <<Null, 0>> \in S /\ <<Null, 1>> \in S
    BY <1>1, <1>5, Facts, CellsNat
  <2> HIDE DEF S, cells, m, a, o, u
  <2>2. \A t \in DOMAIN Holding \ S : Holding'[t] = Holding[t]
    BY <1>w, <2>1, WriteElse
  <2> QED  BY <2>2 DEF S
<1> HIDE DEF p, q, r, s, cells, m, a, o, u
<1>12. /\ DOMAIN f = DOMAIN Holding /\ f[p] = Holding[q] /\ f[q] = Holding[p]
       /\ \A t \in DOMAIN Holding \ {p, q} : f[t] = Holding[t]
  BY <1>9, <1>10
<1>13. /\ Holding'[r] = f[s] /\ Holding'[s] = f[r]
       /\ \A t \in DOMAIN Holding \ {r, s} : Holding'[t] = f[t]
  BY <1>9, <1>10, <1>11
<1> HIDE DEF f
<1> QED  BY <1>w, <1>8, <1>9, <1>12, <1>13, WriteTwice

\* The bytes of n elements fit a word if reserve does not refuse, so that the
\* product is exact.
LEMMA RoomIs ==
  ASSUME NEW n \in Nat, ~ReserveRefused(n)
  PROVE  Room(n) = n /\ n <= MaxWord
<1> DEFINE e == ElementSize
           w == MaxWord
           q == w \div e
<1>1. e \in Nat /\ w \in Nat /\ e >= 1 /\ w >= 1
  BY RuntimeAssumption
<1>2. q \in Nat /\ q * e <= w /\ n <= q
  BY <1>1 DEF ReserveRefused
<1> HIDE DEF e, w, q
<1>3. n * e <= q * e /\ n * e \in Nat
  BY <1>1, <1>2
<1>4. n <= n * e
  BY <1>1
<1>5. n * e <= w
  BY <1>1, <1>2, <1>3
<1>6. (n * e) % (w + 1) = n * e
  BY <1>1, <1>3, <1>5
<1>7. (n * e) \div e = n
  BY <1>1
<1>8. n <= w
  BY <1>1, <1>3, <1>4, <1>5
<1> QED  BY <1>6, <1>7, <1>8 DEF Room, e, w

\* The Vec o has the elements it had, perhaps in another buffer.
Grown(o) ==
  /\ MemorySound(heap', buffer', stack) /\ LiveIn(heap') = LiveIn(heap)
  /\ VecIn(heap', o) /\ heap'[o].count = heap[o].count /\ heap'[o].used = heap[o].used
  /\ \A p \in Obj \ {o} : heap'[p] = heap[p]
  /\ \A p \in Obj, i \in Nat : HoldsIn(heap', buffer', stack, p, i) = HoldsIn(heap, buffer, stack, p, i)
  /\ Same(Storage(heap, buffer, o), Storage(heap', buffer', o))
  /\ \A b \in Buffer : buffer'[b] = buffer[b] \/ Keeps(heap, stack, o, b) \/ buffer[b] = Freed

\* A Vec that has room is left as it is.
LEMMA GrownSame ==
  ASSUME RuntimeInv, NEW o, VecIn(heap, o), UNCHANGED <<heap, buffer>>
  PROVE  Grown(o)
<1>1. MemorySound(heap, buffer, stack) /\ heap' = heap /\ buffer' = buffer
  BY Facts
<1> QED  BY <1>1 DEF Grown, Same

\* A Vec that gets room has the elements that it had.
LEMMA ReserveToSound ==
  ASSUME RuntimeInv, NEW o, VecIn(heap, o), heap[o].count > 0, NEW n \in Nat, n > heap[o].cap,
         ~ReserveRefused(n), ReserveTo(o, n)
  PROVE  Grown(o) /\ heap'[o].cap = n
<1>1. /\ o \in Obj /\ o \in LiveIn(heap) /\ heap[o] \in Object /\ heap[o].kind = "vec" /\ heap[o].count = 1
      /\ heap[o].cells = <<>>
      /\ heap[o].used \in Nat /\ heap[o].cap \in Nat /\ heap[o].used <= heap[o].cap
      /\ heap[o].data \in Buffer \cup {Null} /\ (heap[o].cap = 0 <=> heap[o].data = Null)
      /\ (heap[o].data # Null => /\ heap[o].data \in Buffer /\ buffer[heap[o].data] # Freed
                                 /\ buffer[heap[o].data] \in Seq(Value \cup {Junk}) /\ Len(buffer[heap[o].data]) = heap[o].cap)
  BY VecFacts DEF CellsOf
<1>2. Room(n) = n /\ n <= MaxWord
  BY RoomIs
<1>3. PICK b \in Buffer :
        /\ buffer[b] = Freed \/ (heap[o].cap > 0 /\ b = heap[o].data)
        /\ buffer' = [c \in Buffer |-> IF c = b THEN Reallocated(o, n, b)
                                       ELSE IF c = heap[o].data THEN Freed ELSE buffer[c]]
        /\ heap' = [heap EXCEPT ![o].data = b, ![o].cap = n]
  BY DEF ReserveTo
<1> DEFINE new == Reallocated(o, n, b)
           had == heap[o].data
<1>4. /\ new \in Seq(Value \cup {Junk}) /\ Len(new) = n /\ DOMAIN new = 1 .. n
      /\ \A i \in 1 .. n : new[i] = IF had # Null /\ i <= heap[o].cap THEN buffer[had][i] ELSE Junk
  <2>1. new = [i \in 1 .. n |-> IF heap[o].cap > 0 /\ i <= Len(buffer[had]) THEN buffer[had][i] ELSE Junk]
    BY <1>2 DEF Reallocated
  <2>2. ASSUME NEW i \in 1 .. n
        PROVE  /\ new[i] = IF had # Null /\ i <= heap[o].cap THEN buffer[had][i] ELSE Junk
               /\ new[i] \in Value \cup {Junk}
    <3>1. CASE had = Null
      BY <1>1, <2>1, <3>1
    <3>2. CASE had # Null
      BY <1>1, <2>1, <3>2
    <3> QED  BY <3>1, <3>2
  <2>3. new \in [1 .. n -> Value \cup {Junk}]
    BY <2>1, <2>2
  <2>4. new \in Seq(Value \cup {Junk})
    BY <2>3
  <2> HIDE DEF new
  <2> QED  BY <2>2, <2>3, <2>4
<1>5. /\ buffer'[b] = new /\ \A c \in Buffer : c # b => buffer'[c] = IF c = had THEN Freed ELSE buffer[c]
      /\ had # b => buffer[b] = Freed
  BY <1>3
<1> HIDE DEF new
<1>6. /\ heap'[o] = [heap[o] EXCEPT !.data = b, !.cap = n] /\ \A p \in Obj \ {o} : heap'[p] = heap[p]
  BY <1>1, <1>3, Facts
<1>7. /\ heap'[o] \in Object /\ heap'[o].kind = "vec" /\ heap'[o].count = 1 /\ heap'[o].cells = heap[o].cells
      /\ heap'[o].data = b /\ heap'[o].cap = n /\ heap'[o].used = heap[o].used /\ b # Null
  BY <1>1, <1>6, FreedIs DEF Object
<1>8. heap' \in [Obj -> Object \cup {Freed}]
  BY <1>1, <1>3, <1>6, <1>7, Facts
<1>r. new \in Raw /\ new # Freed
  BY <1>4, FreedIs DEF Raw
<1>9. buffer' \in [Buffer -> Raw \cup {Freed}]
  <2>1. \A c \in Buffer : buffer'[c] \in Raw \cup {Freed}
    BY <1>5, <1>r, Facts
  <2> QED  BY <1>3, <2>1
<1>10. Rebuffers(heap, buffer, heap', buffer', o)
  <2>1. SavedFor(heap, heap', o)
    BY <1>6, <1>8 DEF SavedFor
  <2>2. heap'[o].used <= heap'[o].cap /\ heap'[o].cap <= MaxWord /\ (heap'[o].cap = 0 <=> heap'[o].data = Null)
    BY <1>1, <1>2, <1>7, RuntimeAssumption
  <2>3. /\ \A c \in Buffer : c # had /\ c # heap'[o].data => buffer'[c] = buffer[c]
        /\ (had # Null /\ had # heap'[o].data => buffer'[had] = Freed)
    BY <1>1, <1>5, <1>7
  <2>4. buffer'[heap'[o].data] # Freed /\ Len(buffer'[heap'[o].data]) = heap'[o].cap
        /\ (heap'[o].data = had \/ buffer[heap'[o].data] = Freed)
    BY <1>4, <1>5, <1>7, <1>r
  <2> QED  BY <1>1, <1>7, <1>9, <2>1, <2>2, <2>3, <2>4 DEF Rebuffers
<1>11. /\ MemorySound(heap', buffer', stack) /\ LiveIn(heap') = LiveIn(heap)
       /\ \A p \in Obj \ {o}, i \in Nat : HoldsIn(heap', buffer', stack, p, i) = HoldsIn(heap, buffer, stack, p, i)
       /\ \A i \in Nat : HoldsIn(heap', buffer', stack, o, i) = Handles(Storage(heap', buffer', o), i)
       /\ \A i \in Nat : HoldsIn(heap, buffer, stack, o, i) = Handles(Storage(heap, buffer, o), i)
  <2>1. MemorySound(heap, buffer, stack)
    BY Facts
  <2> QED  BY <1>10, <2>1, RebufferSound
<1>12. \A i \in Nat : Handles(Storage(heap', buffer', o), i) = Handles(Storage(heap, buffer, o), i)
  <2> SUFFICES ASSUME NEW i \in Nat PROVE Handles(new, i) = Handles(Storage(heap, buffer, o), i)
    BY <1>5, <1>7 DEF Storage
  <2>1. CASE had = Null
    <3>1. Storage(heap, buffer, o) = <<>>
      BY <2>1 DEF Storage
    <3>2. \A j \in DOMAIN new : new[j] = Junk
      BY <1>4, <2>1
    <3> QED  BY <3>1, <3>2, FreedIs DEF Handles
  <2>2. CASE had # Null
    <3>1. Storage(heap, buffer, o) = buffer[had] /\ DOMAIN buffer[had] = 1 .. heap[o].cap
      BY <1>1, <2>2 DEF Storage
    <3>2. CASE i \in 1 .. heap[o].cap
      <4>1. i \in 1 .. n /\ new[i] = buffer[had][i]
        BY <1>1, <1>4, <2>2, <3>2
      <4> QED  BY <1>4, <3>1, <3>2, <4>1 DEF Handles
    <3>3. CASE i \notin 1 .. heap[o].cap
      <4>1. i \in DOMAIN new => new[i] = Junk
        BY <1>1, <1>4, <3>3
      <4> QED  BY <3>1, <3>3, <4>1, FreedIs DEF Handles
    <3> QED  BY <3>2, <3>3
  <2> QED  BY <2>1, <2>2
<1>13. \A c \in Buffer : buffer'[c] = buffer[c] \/ Keeps(heap, stack, o, c) \/ buffer[c] = Freed
  <2> SUFFICES ASSUME NEW c \in Buffer, buffer'[c] # buffer[c], buffer[c] # Freed PROVE c = had
    BY DEF Keeps
  <2> QED  BY <1>5
<1>14. Grown(o)
  <2>1. VecIn(heap', o)
    BY <1>1, <1>7, <1>11 DEF VecIn
  <2>2. \A p \in Obj, i \in Nat : HoldsIn(heap', buffer', stack, p, i) = HoldsIn(heap, buffer, stack, p, i)
    <3> SUFFICES ASSUME NEW p \in Obj, NEW i \in Nat
                 PROVE  HoldsIn(heap', buffer', stack, p, i) = HoldsIn(heap, buffer, stack, p, i)
      OBVIOUS
    <3>1. CASE p = o
      BY <1>11, <1>12, <3>1
    <3>2. CASE p # o
      BY <1>11, <3>2
    <3> QED  BY <3>1, <3>2
  <2>3. Same(Storage(heap, buffer, o), Storage(heap', buffer', o))
    BY <1>12 DEF Same, Positive
  <2> QED  BY <1>1, <1>6, <1>7, <1>11, <1>13, <2>1, <2>2, <2>3 DEF Grown
<1> QED  BY <1>7, <1>14

\* grow leaves room for one more element.
LEMMA GrowSound ==
  ASSUME RuntimeInv, NEW o, VecIn(heap, o), heap[o].count > 0, Grow(o)
  PROVE  Grown(o) /\ heap'[o].used < heap'[o].cap
<1>1. /\ heap[o].used \in Nat /\ heap[o].cap \in Nat /\ heap[o].used <= heap[o].cap
  BY VecFacts
<1>2. CASE heap[o].used < heap[o].cap
  <2>1. UNCHANGED <<heap, buffer>>
    BY <1>2 DEF Grow
  <2> QED  BY <1>2, <2>1, GrownSame
<1>3. CASE ~(heap[o].used < heap[o].cap)
  <2> DEFINE n == NextCapacity(o)
  <2>1. n \in Nat /\ n > heap[o].cap
    BY <1>1, RuntimeAssumption DEF NextCapacity
  <2>2. ~(n <= heap[o].cap)
    BY <1>1, <2>1
  <2>3. ~GrowRefused(o) /\ Reserve(o, n)
    BY <1>3 DEF Grow
  <2> HIDE DEF n
  <2>4. ~ReserveRefused(n) /\ ReserveTo(o, n)
    BY <2>2, <2>3 DEF Reserve
  <2>5. Grown(o) /\ heap'[o].cap = n
    BY <2>1, <2>4, ReserveToSound
  <2>6. heap'[o].used = heap[o].used
    BY <2>5 DEF Grown
  <2> QED  BY <1>1, <2>1, <2>5, <2>6
<1> QED  BY <1>2, <1>3

\* reserve.
LEMMA ReserveCalledStep ==
  ASSUME RuntimeInv, NEW y \in Var, NEW n \in Nat, ReserveCalled(y, n)
  PROVE  Sound' /\ [Abstract!Next]_Abstract!vars
<1> DEFINE o == var[y]
           m == meant[o]
<1>1. Called(y) /\ Reserve(o, n) /\ UNCHANGED <<var, stack, call, meant, mode>>
  BY DEF ReserveCalled
<1>2. /\ mode = "running" /\ stack = <<>> /\ call = NoCall
      /\ VecIn(heap, o) /\ heap[o].count > 0 /\ o \in Obj
      /\ heap[o].used \in Nat /\ heap[o].cap \in Nat /\ m \in Seq(Obj)
      /\ Filled(Storage(heap, buffer, o), heap[o].used, m, NoCall)
  BY <1>1, CalledFacts
<1>3. Grown(o)
  <2>1. CASE n <= heap[o].cap
    <3>1. UNCHANGED <<heap, buffer>>
      BY <1>1, <2>1 DEF Reserve
    <3> QED  BY <1>2, <3>1, GrownSame
  <2>2. CASE ~(n <= heap[o].cap)
    <3>1. ~ReserveRefused(n) /\ ReserveTo(o, n) /\ n > heap[o].cap
      BY <1>1, <1>2, <2>2 DEF Reserve
    <3> QED  BY <1>2, <3>1, ReserveToSound
  <2> QED  BY <2>1, <2>2
<1> HIDE DEF m, o
<1>4. /\ MemorySound(heap', buffer', stack') /\ LiveIn(heap') = LiveIn(heap)
      /\ VecIn(heap', o) /\ heap'[o].count = heap[o].count /\ heap'[o].used = heap[o].used
      /\ \A p \in Obj \ {o} : heap'[p] = heap[p]
      /\ \A p \in Obj, i \in Nat : HoldsIn(heap', buffer', stack', p, i) = HoldsIn(heap, buffer, stack, p, i)
      /\ Same(Storage(heap, buffer, o), Storage(heap', buffer', o))
      /\ \A b \in Buffer : buffer'[b] = buffer[b] \/ Keeps(heap, stack, o, b) \/ buffer[b] = Freed
  BY <1>1, <1>3 DEF Grown
<1>5. Typed'
  <2>1. MemoryTyped(heap', buffer', stack')
    BY <1>4 DEF MemorySound
  <2> QED  BY <1>1, <2>1, Facts DEF Typed
<1>6. CallSound(var', heap', stack', call')
  BY <1>1, <1>2, NoCallSound
<1>7. FilledIn(heap', buffer', meant', call')
  <2>1. Filled(Storage(heap', buffer', o), heap'[o].used, m, NoCall)
    BY <1>2, <1>4, FilledIs DEF Same
  <2>2. FilledAt(heap', buffer', meant', call', o)
    <3>1. (IF call'.o = o THEN call' ELSE NoCall) = NoCall
      BY <1>1, <1>2
    <3>2. heap'[o].kind = "vec" /\ meant'[o] = m
      BY <1>1, <1>4 DEF VecIn, m
    <3> QED  BY <1>2, <2>1, <3>1, <3>2 DEF FilledAt
  <2>3. Alters(heap, buffer, stack, meant, call, heap', buffer', meant', call', o)
    BY <1>1, <1>2, <1>4 DEF Alters
  <2> QED  BY <2>2, <2>3, Facts, FilledRest
<1>8. CountsSound' /\ Abstract!Move
  <2>1. \A w \in LiveIn(heap) : heap'[w].count = heap[w].count
    BY <1>4 DEF LiveIn
  <2> QED  BY <1>1, <1>2, <1>4, <1>5, <2>1, Facts, CellsNat, KeepStep
<1> QED  BY <1>4, <1>5, <1>6, <1>7, <1>8, MoveNext DEF Sound

\* The beginning of insert, which may grow the Vec.
LEMMA VecInsertStep ==
  ASSUME RuntimeInv, NEW y \in Var, NEW i \in Nat, NEW x \in Var, VecInsert(y, i, x)
  PROVE  Sound' /\ [Abstract!Next]_Abstract!vars
<1> DEFINE o == var[y]
           u == heap[o].used
           m == meant[o]
           m2 == InsertAt(m, i + 1, var[x])
<1>1. /\ Called(y) /\ x # y /\ var[x] # Null /\ ~(i > u) /\ Grow(o)
      /\ call' = [op |-> "insert", o |-> o, i |-> i, at |-> u, item |-> var[x], x |-> Null]
      /\ var' = [var EXCEPT ![x] = Null] /\ meant' = [meant EXCEPT ![o] = m2]
      /\ UNCHANGED <<stack, mode>>
  BY DEF VecInsert, InsertRefused, Begin
<1>2. /\ mode = "running" /\ stack = <<>> /\ call = NoCall
      /\ VecIn(heap, o) /\ heap[o].count > 0 /\ o \in Obj /\ o # Null
      /\ u \in Nat /\ i <= u /\ m \in Seq(Obj) /\ Len(m) = u
      /\ Filled(Storage(heap, buffer, o), u, m, NoCall)
  BY <1>1, CalledFacts
<1>3. Grown(o) /\ heap'[o].used < heap'[o].cap
  BY <1>1, <1>2, GrowSound
<1>x. var[x] \in Obj /\ var[x] \in Value
  BY <1>1, Facts, NullValue
<1>c. /\ call'.op = "insert" /\ call'.o = o /\ call'.i = i /\ call'.at = u /\ call'.item = var[x]
      /\ call' \in Operation
  BY <1>1, <1>2, <1>x DEF Operation, Value
<1> HIDE DEF m, o, u, m2
<1>4. /\ MemorySound(heap', buffer', stack') /\ LiveIn(heap') = LiveIn(heap)
      /\ VecIn(heap', o) /\ heap'[o].count = heap[o].count /\ heap'[o].used = heap[o].used
      /\ \A p \in Obj \ {o} : heap'[p] = heap[p]
      /\ \A p \in Obj, j \in Nat : HoldsIn(heap', buffer', stack', p, j) = HoldsIn(heap, buffer, stack, p, j)
      /\ Same(Storage(heap, buffer, o), Storage(heap', buffer', o))
      /\ \A b \in Buffer : buffer'[b] = buffer[b] \/ Keeps(heap, stack, o, b) \/ buffer[b] = Freed
  BY <1>1, <1>3 DEF Grown
<1>m. /\ m2 \in Seq(Obj) /\ Filled(Storage(heap', buffer', o), u, m2, call')
  <2>1. /\ InsertAt(m, call'.i + 1, call'.item) \in Seq(Obj)
        /\ Filled(Storage(heap', buffer', o), u, InsertAt(m, call'.i + 1, call'.item), call')
    <3>1. /\ call'.i <= u /\ call'.at = u /\ call'.item \in Obj /\ call'.op = "insert"
      BY <1>2, <1>c, <1>x
    <3> QED  BY <1>2, <1>4, <1>c, <3>1, FillInsert
  <2> QED  BY <1>c, <2>1 DEF m2
<1>5. Typed'
  <2>1. MemoryTyped(heap', buffer', stack')
    BY <1>4 DEF MemorySound
  <2>2. meant' \in [Obj -> Seq(Value)]
    <3>1. m2 \in Seq(Value)
      BY <1>m DEF Value
    <3> QED  BY <1>1, <1>2, <3>1, Facts
  <2>3. var' \in [Var -> Value]
    BY <1>1, Facts, NullValue
  <2> QED  BY <1>1, <1>c, <2>1, <2>2, <2>3, Facts DEF Typed
<1>6. CallSound(var', heap', stack', call')
  <2>1. heap'[o].count = 1
    BY <1>2, <1>4, VecFacts
  <2>2. call'.item # Null
    BY <1>1, <1>c
  <2>3. \E z \in Var : var'[z] = o
    <3>1. var'[y] = o
      BY <1>1, Facts DEF o
    <3> QED  BY <3>1
  <2>4. call'.i <= call'.at /\ call'.at <= heap'[o].used
    BY <1>2, <1>4, <1>c DEF u
  <2> QED  BY <1>1, <1>2, <1>3, <1>4, <1>c, <2>1, <2>2, <2>3, <2>4 DEF CallSound
<1>7. FilledIn(heap', buffer', meant', call')
  <2>2. FilledAt(heap', buffer', meant', call', o)
    <3>1. (IF call'.o = o THEN call' ELSE NoCall) = call'
      BY <1>c
    <3>2. heap'[o].kind = "vec" /\ meant'[o] = m2 /\ heap'[o].used = u
      BY <1>1, <1>2, <1>4, Facts DEF VecIn, u
    <3> QED  BY <1>m, <3>1, <3>2 DEF FilledAt
  <2>3. Alters(heap, buffer, stack, meant, call, heap', buffer', meant', call', o)
    <3>1. \A p \in Obj \ {o} : meant'[p] = meant[p]
      BY <1>1, <1>2, Facts
    <3>2. \A p \in Obj \ {o} : call.o # p /\ call'.o # p
      BY <1>2, <1>c, FreedIs DEF NoCall
    <3> QED  BY <1>2, <1>4, <3>1, <3>2 DEF Alters
  <2> QED  BY <2>2, <2>3, Facts, FilledRest
<1> DEFINE p == <<x, 0>>
           q == <<Null, 0>>
<1>8. /\ p \in DOMAIN Holding /\ q \in DOMAIN Holding /\ p # q
      /\ Holding[p] = var[x] /\ Holding[q] = Null /\ Holding'[p] = Null /\ Holding'[q] = var[x]
  <2>1. var'[x] = Null /\ call'.item = var[x] /\ call.item = Null
    BY <1>1, <1>2, <1>c, Facts DEF NoCall
  <2> QED  BY <2>1, HoldingAt
<1>9. /\ \A z \in Var : <<z, 0>> \in {p, q} \/ var'[z] = var[z]
      /\ <<Null, 0>> \in {p, q}
      /\ \A k \in Depth : PendingIn(stack', k) = PendingIn(stack, k)
  BY <1>1, Facts
<1>10. /\ \A w \in LiveIn(heap) : heap'[w].count = heap[w].count
       /\ \A w \in Obj, j \in Cells : HoldsIn(heap', buffer', stack', w, j) = HoldsIn(heap, buffer, stack, w, j)
       /\ mode' = "running"
  BY <1>1, <1>2, <1>4, CellsNat DEF LiveIn
<1> HIDE DEF p, q
<1>11. CountsSound' /\ Abstract!Move
  BY ZenonT(40), <1>4, <1>5, <1>8, <1>9, <1>10, Facts, ExchangeStep
<1> QED  BY <1>4, <1>5, <1>6, <1>7, <1>11, MoveNext DEF Sound

\* The beginning of clear or of drop.
LEMMA VecClearStep ==
  ASSUME RuntimeInv, NEW y \in Var, NEW op \in {"clear", "drop"}, VecClear(op, y)
  PROVE  Sound' /\ [Abstract!Next]_Abstract!vars
<1> DEFINE o == var[y]
           u == heap[o].used
           m == meant[o]
<1>1. /\ Called(y) /\ call' = [op |-> op, o |-> o, i |-> 0, at |-> 0, item |-> Null, x |-> Null]
      /\ meant' = [meant EXCEPT ![o] = <<>>]
      /\ UNCHANGED <<var, heap, buffer, stack, mode>>
  BY DEF VecClear, Begin, memory
<1>2. /\ mode = "running" /\ stack = <<>> /\ call = NoCall
      /\ VecIn(heap, o) /\ heap[o].count > 0 /\ o \in Obj /\ o # Null
      /\ u \in Nat /\ m \in Seq(Obj)
      /\ Filled(Storage(heap, buffer, o), u, m, NoCall)
  BY <1>1, CalledFacts
<1>c. call'.op = op /\ call'.o = o /\ call'.item = Null /\ call' \in Operation
  BY <1>1, <1>2, NullValue DEF Operation, Value
<1> HIDE DEF m, o, u
<1>4. /\ MemorySound(heap', buffer', stack') /\ heap' = heap /\ buffer' = buffer /\ stack' = stack
  BY <1>1, Facts
<1>m. Filled(Storage(heap', buffer', o), u, <<>>, call')
  BY <1>2, <1>4, <1>c, FillClear
<1>5. Typed'
  <2>1. meant' \in [Obj -> Seq(Value)]
    BY <1>1, <1>2, Facts
  <2> QED  BY <1>1, <1>c, <1>4, <2>1, Facts DEF Typed
<1>6. CallSound(var', heap', stack', call')
  <2>1. heap[o].count = 1
    BY <1>2, VecFacts
  <2>3. \E z \in Var : var'[z] = o
    BY <1>1 DEF o
  <2> QED  BY <1>2, <1>4, <1>c, <2>1, <2>3 DEF CallSound
<1>7. FilledIn(heap', buffer', meant', call')
  <2>1. FilledAt(heap', buffer', meant', call', o)
    <3>1. (IF call'.o = o THEN call' ELSE NoCall) = call'
      BY <1>c
    <3>2. heap'[o].kind = "vec" /\ meant'[o] = <<>> /\ heap'[o].used = u /\ <<>> \in Seq(Obj)
      BY <1>1, <1>2, <1>4, Facts DEF VecIn, u
    <3> QED  BY <1>m, <3>1, <3>2 DEF FilledAt
  <2>2. Alters(heap, buffer, stack, meant, call, heap', buffer', meant', call', o)
    <3>1. \A p \in Obj \ {o} : meant'[p] = meant[p]
      BY <1>1, <1>2, Facts
    <3>2. \A p \in Obj \ {o} : call.o # p /\ call'.o # p
      BY <1>2, <1>c, FreedIs DEF NoCall
    <3> QED  BY <1>2, <1>4, <3>1, <3>2 DEF Alters
  <2> QED  BY <2>1, <2>2, Facts, FilledRest
<1>8. CountsSound' /\ Abstract!Move
  <2>1. call'.item = call.item
    BY <1>2, <1>c DEF NoCall
  <2> QED  BY <1>1, <1>2, <1>4, <1>5, <2>1, Facts, KeepStep
<1> QED  BY <1>4, <1>5, <1>6, <1>7, <1>8, MoveNext DEF Sound

\* The end of clear, and of the method drop, which gives up the buffer.
LEMMA ClearedStep ==
  ASSUME RuntimeInv, Cleared
  PROVE  Sound' /\ [Abstract!Next]_Abstract!vars
<1> DEFINE o == call.o
           m == meant[o]
           old == Storage(heap, buffer, o)
<1>1. /\ mode = "running" /\ stack = <<>> /\ call.op \in {"clear", "drop"} /\ heap[o].used = 0
      /\ call' = NoCall /\ UNCHANGED <<var, stack, meant, mode>>
  BY DEF Cleared, Running
<1>2. /\ VecIn(heap, o) /\ heap[o].count > 0 /\ o # Null /\ o \in Obj /\ call.item = Null
      /\ Filled(old, 0, m, call) /\ call \in Operation
  BY <1>1, CallFacts
<1>3. /\ m \in Seq(Obj) /\ heap[o] \in Object /\ heap[o].cells = <<>> /\ heap[o].count = 1 /\ heap[o].kind = "vec"
      /\ heap[o].data \in Buffer \cup {Null} /\ o \in LiveIn(heap)
  BY <1>2, VecFacts
<1> HIDE DEF old, m
<1>4. /\ Filled(old, 0, m, NoCall) /\ Filled(<<>>, 0, m, NoCall)
      /\ \A i \in Positive : Handles(old, i) = Null
  BY <1>1, <1>2, FillCleared
<1>5. Grown(o) /\ Filled(Storage(heap', buffer', o), 0, m, NoCall)
  <2>1. CASE call.op = "clear"
    <3>1. UNCHANGED <<heap, buffer>>
      BY <2>1 DEF Cleared
    <3>2. Storage(heap', buffer', o) = old
      BY <3>1 DEF old
    <3> QED  BY <1>2, <1>4, <3>1, <3>2, GrownSame
  <2>2. CASE call.op # "clear"
    <3> DEFINE had == heap[o].data
    <3>1. /\ buffer' = [b \in Buffer |-> IF b = had THEN Freed ELSE buffer[b]]
          /\ heap' = [heap EXCEPT ![o] = Emptied(@)]
      BY <2>2 DEF Cleared
    <3>2. /\ heap'[o] = Emptied(heap[o]) /\ \A p \in Obj \ {o} : heap'[p] = heap[p]
          /\ \A b \in Buffer : buffer'[b] = IF b = had THEN Freed ELSE buffer[b]
      BY <1>2, <3>1, Facts
    <3>3. /\ heap'[o] \in Object /\ heap'[o].kind = "vec" /\ heap'[o].count = 1 /\ heap'[o].cells = heap[o].cells
          /\ heap'[o].data = Null /\ heap'[o].used = 0 /\ heap'[o].cap = 0
      <4>1. \A e \in Object : Emptied(e) \in Object
        BY DEF Emptied, Object
      <4> QED  BY <1>3, <3>2, <4>1 DEF Emptied, Object
    <3>4. heap' \in [Obj -> Object \cup {Freed}]
      BY <1>2, <3>1, <3>2, <3>3, Facts
    <3>5. buffer' \in [Buffer -> Raw \cup {Freed}]
      <4>1. \A b \in Buffer : buffer'[b] \in Raw \cup {Freed}
        BY <3>2, Facts
      <4> QED  BY <3>1, <4>1
    <3>6. Rebuffers(heap, buffer, heap', buffer', o)
      <4>1. SavedFor(heap, heap', o)
        BY <3>2, <3>4 DEF SavedFor
      <4>2. heap'[o].used <= heap'[o].cap /\ heap'[o].cap <= MaxWord
        BY <3>3, RuntimeAssumption
      <4>3. /\ \A b \in Buffer : b # had /\ b # heap'[o].data => buffer'[b] = buffer[b]
            /\ (had # Null => buffer'[had] = Freed)
        BY <1>3, <3>2
      <4> QED  BY <1>2, <1>3, <3>3, <3>5, <4>1, <4>2, <4>3 DEF Rebuffers
    <3>7. /\ MemorySound(heap', buffer', stack) /\ LiveIn(heap') = LiveIn(heap)
          /\ \A p \in Obj \ {o}, i \in Nat : HoldsIn(heap', buffer', stack, p, i) = HoldsIn(heap, buffer, stack, p, i)
          /\ \A i \in Nat : HoldsIn(heap', buffer', stack, o, i) = Handles(Storage(heap', buffer', o), i)
          /\ \A i \in Nat : HoldsIn(heap, buffer, stack, o, i) = Handles(old, i)
      <4>1. MemorySound(heap, buffer, stack)
        BY Facts
      <4> QED  BY <3>6, <4>1, RebufferSound DEF old
    <3>8. Storage(heap', buffer', o) = <<>>
      BY <3>3 DEF Storage
    <3>9. \A i \in Nat : Handles(<<>>, i) = Null
      BY DEF Handles
    <3>10. Handles(old, 0) = Null
      <4>1. old = <<>> \/ old \in Seq(Value \cup {Junk})
        BY <1>2, VecFacts DEF old, Storage
      <4>2. 0 \notin DOMAIN old
        BY <4>1
      <4> QED  BY <4>2 DEF Handles
    <3>11. \A i \in Nat : Handles(old, i) = Null
      BY <1>4, <3>10 DEF Positive
    <3>12. \A p \in Obj, i \in Nat : HoldsIn(heap', buffer', stack, p, i) = HoldsIn(heap, buffer, stack, p, i)
      <4> SUFFICES ASSUME NEW p \in Obj, NEW i \in Nat
                   PROVE  HoldsIn(heap', buffer', stack, p, i) = HoldsIn(heap, buffer, stack, p, i)
        OBVIOUS
      <4>1. CASE p = o
        BY <3>7, <3>8, <3>9, <3>11, <4>1
      <4>2. CASE p # o
        BY <3>7, <4>2
      <4> QED  BY <4>1, <4>2
    <3>13. Same(old, Storage(heap', buffer', o))
      BY <3>8, <3>9, <3>11 DEF Same, Positive
    <3>14. \A b \in Buffer : buffer'[b] = buffer[b] \/ Keeps(heap, stack, o, b) \/ buffer[b] = Freed
      BY <1>2, <3>2 DEF Keeps
    <3>15. VecIn(heap', o)
      BY <1>3, <3>3, <3>7 DEF VecIn
    <3>16. Grown(o)
      BY <1>1, <1>3, <3>2, <3>3, <3>7, <3>12, <3>13, <3>14, <3>15 DEF Grown, old
    <3> QED  BY <1>4, <3>8, <3>16
  <2> QED  BY <2>1, <2>2
<1> HIDE DEF o
<1>6. /\ MemorySound(heap', buffer', stack') /\ LiveIn(heap') = LiveIn(heap)
      /\ VecIn(heap', o) /\ heap'[o].count = heap[o].count /\ heap'[o].used = heap[o].used
      /\ \A p \in Obj \ {o} : heap'[p] = heap[p]
      /\ \A p \in Obj, i \in Nat : HoldsIn(heap', buffer', stack', p, i) = HoldsIn(heap, buffer, stack, p, i)
      /\ \A b \in Buffer : buffer'[b] = buffer[b] \/ Keeps(heap, stack, o, b) \/ buffer[b] = Freed
  BY <1>1, <1>5 DEF Grown
<1>7. Typed'
  <2>1. MemoryTyped(heap', buffer', stack')
    BY <1>6 DEF MemorySound
  <2>2. NoCall \in Operation
    BY NullValue DEF NoCall, Operation
  <2> QED  BY <1>1, <2>1, <2>2, Facts DEF Typed
<1>8. CallSound(var', heap', stack', call')
  BY <1>1, NoCallSound
<1>9. FilledIn(heap', buffer', meant', call')
  <2>2. FilledAt(heap', buffer', meant', call', o)
    <3>1. (IF call'.o = o THEN call' ELSE NoCall) = NoCall
      BY <1>1
    <3>2. heap'[o].kind = "vec" /\ meant'[o] = m /\ heap'[o].used = 0
      BY <1>1, <1>6 DEF VecIn, m, o
    <3> QED  BY <1>3, <1>5, <3>1, <3>2 DEF FilledAt
  <2>3. Alters(heap, buffer, stack, meant, call, heap', buffer', meant', call', o)
    <3>1. \A p \in Obj \ {o} : call.o # p /\ call'.o # p
      BY <1>1, FreedIs DEF NoCall, o
    <3> QED  BY <1>1, <1>2, <1>6, <3>1 DEF Alters
  <2> QED  BY <2>2, <2>3, Facts, FilledRest
<1>10. CountsSound' /\ Abstract!Move
  <2>1. \A w \in LiveIn(heap) : heap'[w].count = heap[w].count
    BY <1>6 DEF LiveIn
  <2>2. call'.item = call.item /\ mode' = "running"
    BY <1>1, <1>2 DEF NoCall
  <2> QED  BY <1>1, <1>6, <1>7, <2>1, <2>2, Facts, CellsNat, KeepStep
<1> QED  BY <1>6, <1>7, <1>8, <1>9, <1>10, MoveNext DEF Sound

\* The program ends, or has ended: memory stays as it is.
LEMMA StopStep ==
  ASSUME RuntimeInv, UNCHANGED <<var, heap, buffer, stack, call, meant>>, mode' \in {mode, "panicked"}
  PROVE  Sound' /\ [Abstract!Next]_Abstract!vars
<1>1. Holding' = Holding
  BY HoldingIs
<1>2. CountsSound'
  <2>1. /\ \A w \in LiveIn(heap) : heap[w].count = Ways(Holding, w) /\ heap[w].count <= MaxCount
        /\ (mode = "trapped" => \E w \in LiveIn(heap) : heap[w].count = MaxCount)
    BY Facts, CountsAre
  <2>2. mode' = "trapped" => mode = "trapped"
    OBVIOUS
  <2> QED  BY <1>1, <2>1, <2>2, CountsAre
<1>3. Typed' /\ MemorySound(heap', buffer', stack') /\ CallSound(var', heap', stack', call')
      /\ FilledIn(heap', buffer', meant', call')
  BY Facts DEF Typed
<1>4. UNCHANGED Abstract!vars
  BY <1>1, LiveIs DEF Abstract!vars
<1> QED  BY <1>2, <1>3, <1>4 DEF Sound
-----------------------------------------------------------------------------
(* Every step.                                                             *)

\* Every step of what is under way.
LEMMA RunningStep ==
  ASSUME RuntimeInv, Step
  PROVE  Sound' /\ [Abstract!Next]_Abstract!vars
<1>1. CASE CountDown
  BY <1>1, CountDownStep
<1>2. CASE SkipNull
  BY <1>2, SkipNullStep
<1>3. CASE ReleaseChild
  BY <1>3, ReleaseChildStep
<1>4. CASE Free
  BY <1>4, FreeStep
<1>5. CASE ShiftUp
  BY <1>5, ShiftUpStep
<1>6. CASE Inserted
  BY <1>6, InsertedStep
<1>7. CASE ShiftDown
  BY <1>7, ShiftDownStep
<1>8. CASE Removed
  BY <1>8, RemovedStep
<1>9. CASE VecStored
  BY <1>9, VecStoredStep
<1>10. CASE ClearNext
  BY <1>10, ClearNextStep
<1>11. CASE Cleared
  BY <1>11, ClearedStep
<1> QED
  BY <1>1, <1>2, <1>3, <1>4, <1>5, <1>6, <1>7, <1>8, <1>9, <1>10, <1>11 DEF Step

\* Every call on a Vec.
LEMMA OnVecStep ==
  ASSUME RuntimeInv, NEW x \in Var, NEW y \in Var, OnVec(x, y)
  PROVE  Sound' /\ [Abstract!Next]_Abstract!vars
<1>1. Index \subseteq Nat
  BY RuntimeAssumption DEF Index
<1>2. CASE VecPush(y, x)
  <2>1. VecInsert(y, heap[var[y]].used, x) /\ Called(y)
    BY <1>2 DEF VecPush, VecInsert
  <2>2. heap[var[y]].used \in Nat
    BY <2>1, CalledFacts
  <2> QED  BY <2>1, <2>2, VecInsertStep
<1>3. CASE VecPop(y, x)
  BY <1>3, VecPopStep
<1>4. CASE \E i \in Index : VecInsert(y, i, x)
  BY <1>1, <1>4, VecInsertStep
<1>5. CASE \E i \in Index : VecRemove(y, i, x)
  BY <1>1, <1>5, VecRemoveStep
<1>6. CASE \E i \in Index : VecSwapRemove(y, i, x)
  BY <1>1, <1>6, VecSwapRemoveStep
<1>7. CASE \E i \in Index : VecSet(y, i, x)
  BY <1>1, <1>7, VecSetStep
<1> QED
  BY <1>2, <1>3, <1>4, <1>5, <1>6, <1>7 DEF OnVec

\* Every call.
LEMMA AskStep ==
  ASSUME RuntimeInv, Ask
  PROVE  Sound' /\ [Abstract!Next]_Abstract!vars
<1>1. CASE \E x \in Var, o \in Obj : NewVec(x, o)
  BY <1>1, NewVecStep
<1>2. CASE \E x \in Var, o \in Obj : \E n \in Index : \E parts \in [1 .. n -> Var] : Construct(x, parts, o)
  BY <1>2, ConstructStep
<1>3. CASE \E x \in Var : Drop(x)
  BY <1>3, DropStep
<1>4. CASE \E x, y \in Var : Copy(x, y)
  BY <1>4, AcquireStep DEF Copy
<1>5. CASE \E x, y \in Var : OnVec(x, y)
  BY <1>5, OnVecStep
<1>6. CASE \E x, y \in Var : \E i \in Index : Read(x, y, i)
  <2>1. PICK x \in Var, y \in Var, i \in Index : Read(x, y, i)
    BY <1>6
  <2>2. Acquire(x, heap[var[y]].cells[i]) \/ Acquire(x, Cell(var[y], i))
    BY <2>1 DEF Read
  <2> QED  BY <2>2, AcquireStep
<1>7. CASE \E y \in Var : VecClear("clear", y) \/ VecClear("drop", y)
  BY <1>7, VecClearStep
<1>8. CASE \E y \in Var : \E i \in Index : Refused(y, i)
  <2>1. Panic
    BY <1>8 DEF Refused
  <2>2. UNCHANGED <<var, heap, buffer, stack, call, meant>> /\ mode' \in {mode, "panicked"}
    BY <2>1 DEF Panic
  <2> QED  BY <2>2, StopStep
<1>9. CASE \E y \in Var : \E n \in 0 .. MaxWord : ReserveCalled(y, n)
  <2>1. 0 .. MaxWord \subseteq Nat
    BY RuntimeAssumption
  <2> QED  BY <1>9, <2>1, ReserveCalledStep
<1> QED
  BY <1>1, <1>2, <1>3, <1>4, <1>5, <1>6, <1>7, <1>8, <1>9 DEF Ask

\* Every step keeps the invariant and is one of managed memory, or none.
LEMMA NextStep ==
  ASSUME RuntimeInv, [Next]_vars
  PROVE  RuntimeInv' /\ [Abstract!Next]_Abstract!vars
<1>1. Sound' /\ [Abstract!Next]_Abstract!vars
  <2>1. CASE Ask
    BY <2>1, AskStep
  <2>2. CASE Step
    BY <2>2, RunningStep
  <2>3. CASE Ended \/ UNCHANGED vars
    <3>1. UNCHANGED <<var, heap, buffer, stack, call, meant>> /\ mode' \in {mode, "panicked"}
      BY <2>3 DEF Ended, vars
    <3> QED  BY <3>1, StopStep
  <2> QED  BY <2>1, <2>2, <2>3 DEF Next
<1>2. Abstract!NothingDangles'
  BY <1>1, DanglingStep, Facts DEF RuntimeInv
<1> QED  BY <1>1, <1>2 DEF Sound, RuntimeInv

\* At the start memory is empty.
LEMMA StartSound ==
  ASSUME Init
  PROVE  RuntimeInv /\ Abstract!Init
<1>1. /\ \A x \in Var : var[x] = Null
      /\ \A o \in Obj : heap[o] = Freed /\ meant[o] = <<>>
      /\ \A b \in Buffer : buffer[b] = Freed
      /\ stack = <<>> /\ call = NoCall /\ mode = "running" /\ DOMAIN stack = {}
  BY DEF Init
<1>2. LiveIn(heap) = {}
  BY <1>1 DEF LiveIn
<1>3. MemoryTyped(heap, buffer, stack) /\ Typed
  <2>1. MemoryTyped(heap, buffer, stack)
    BY DEF Init, MemoryTyped
  <2>2. NoCall \in Operation
    BY NullValue DEF NoCall, Operation
  <2>3. var \in [Var -> Value] /\ meant \in [Obj -> Seq(Value)]
    BY NullValue DEF Init
  <2> QED  BY <1>1, <2>1, <2>2, <2>3 DEF Typed
<1>4. MemorySound(heap, buffer, stack)
  <2>1. Nested(heap, stack)
    BY <1>1, <1>2 DEF Nested
  <2>2. Formed(heap, buffer) /\ Walked(heap, buffer, stack)
    BY <1>1, <1>2 DEF Formed, Walked
  <2>3. Kept(heap, buffer, stack)
    BY <1>1, <1>2 DEF Kept, Keeps, VecIn
  <2> QED  BY <1>3, <2>1, <2>2, <2>3 DEF MemorySound
<1>5. CallSound(var, heap, stack, call) /\ FilledIn(heap, buffer, meant, call)
  BY <1>1, <1>2, NoCallSound DEF FilledIn
<1>6. CountsSound
  BY <1>1, <1>2, CountsAre
<1>7. Live = {}
  BY <1>2, LiveIs
<1>8. \A p \in DOMAIN Holding : Holding[p] = Null
  <2> SUFFICES ASSUME NEW p \in DOMAIN Holding PROVE Holding[p] = Null
    OBVIOUS
  <2>1. \/ \E x \in Var : p = <<x, 0>>
        \/ p = <<Null, 0>>
        \/ \E k \in Depth : p = <<Null, k>>
        \/ \E o \in Obj, i \in Cells : p = <<o, i>>
    BY HoldingIs, PlaceIs
  <2>2. CASE \E x \in Var : p = <<x, 0>>
    BY <1>1, <2>2, HoldingAt
  <2>3. CASE p = <<Null, 0>>
    BY <1>1, <2>3, HoldingAt DEF NoCall
  <2>4. CASE \E k \in Depth : p = <<Null, k>>
    BY <1>1, <2>4, HoldingAt DEF PendingIn
  <2>5. CASE \E o \in Obj, i \in Cells : p = <<o, i>>
    <3>1. PICK o \in Obj, i \in Cells : p = <<o, i>>
      BY <2>5
    <3>2. HoldsIn(heap, buffer, stack, o, i) = Null
      BY <1>1, <1>4, CellsNat, HoldsIs DEF MemorySound
    <3> QED  BY <3>1, <3>2, HoldingAt
  <2> QED  BY <2>1, <2>2, <2>3, <2>4, <2>5
<1>9. Abstract!Init
  <2>1. Holding \in [Abstract!Place -> Obj \cup {Null}]
    BY <1>3, HeldTyped
  <2>2. Holding = [p \in Abstract!Place |-> Null]
    BY <1>8, <2>1
  <2> QED  BY <1>7, <2>2 DEF Abstract!Init
<1>10. Abstract!NothingDangles
  BY <1>8, WaysOf DEF Abstract!NothingDangles
<1> QED  BY <1>3, <1>4, <1>5, <1>6, <1>9, <1>10 DEF RuntimeInv
-----------------------------------------------------------------------------
(* Theorems.                                                               *)

\* The invariant of the runtime: releases nest, a destructor knows what it has
\* still to release, every buffer has one Vec, and a Vec in the middle of an
\* operation has every element but the one that the operation carries.
THEOREM RuntimeSafe == Spec => []RuntimeInv
<1>1. Init => RuntimeInv
  BY StartSound
<1>2. RuntimeInv /\ [Next]_vars => RuntimeInv'
  BY NextStep
<1> QED  BY <1>1, <1>2, PTL DEF Spec

\* The runtime implements managed memory: an object is freed only when no place
\* holds it and it holds nothing, and no handle is lost or made up, however deep
\* the destructors of backend.rs nest and whatever Vec does with its buffer.
THEOREM RuntimeRefines == Spec => Implements
<1>1. Init => RuntimeInv /\ Abstract!Init
  BY StartSound
<1>2. RuntimeInv /\ [Next]_vars => RuntimeInv' /\ [Abstract!Next]_Abstract!vars
  BY NextStep
<1> QED  BY <1>1, <1>2, PTL DEF Spec, Implements, Abstract!Spec

\* No variable, cell, release or operation is left with an object that was freed.
THEOREM RuntimeNothingDangles == Spec => []Abstract!NothingDangles
<1>1. RuntimeInv => Abstract!NothingDangles
  BY DEF RuntimeInv
<1> QED  BY <1>1, RuntimeSafe, PTL

\* The counts that retain and release keep are exact, within the range of the
\* counter, and a trap is one of a retain at its end.
THEOREM CountsHold == Spec => []CountsSound
<1>1. RuntimeInv => CountsSound
  BY Facts
<1> QED  BY <1>1, RuntimeSafe, PTL

\* Between releases no destructor is under way, so every count is positive and
\* every buffer has a Vec.
LEMMA ReclaimedNow ==
  ASSUME RuntimeInv
  PROVE  AllReclaimed
<1> SUFFICES ASSUME Running, stack = <<>>
             PROVE  /\ \A o \in Live : Abstract!Owned(o) > 0
                    /\ \A b \in Buffer : buffer[b] # Freed =>
                         Cardinality({o \in Obj : IsVec(o) /\ heap[o].data = b}) = 1
  BY DEF AllReclaimed
<1>1. Nested(heap, stack) /\ Kept(heap, buffer, stack) /\ CountsSound /\ DOMAIN stack = {}
  BY Facts
<1>2. ASSUME NEW o \in Live PROVE Abstract!Owned(o) > 0
  <2>1. o \in LiveIn(heap) /\ heap[o].count = Abstract!Owned(o)
    BY <1>1, <1>2, LiveIs DEF CountsSound
  <2>2. heap[o].count \in Nat /\ heap[o].count # 0
    <3>1. heap[o].count \in Nat
      BY <2>1, Facts, LiveTyped
    <3> QED  BY <1>1, <2>1, <3>1 DEF Nested
  <2> QED  BY <2>1, <2>2
<1>3. ASSUME NEW b \in Buffer, buffer[b] # Freed
      PROVE  Cardinality({o \in Obj : IsVec(o) /\ heap[o].data = b}) = 1
  <2>1. PICK o \in Obj : Keeps(heap, stack, o, b)
    BY <1>1, <1>3 DEF Kept
  <2>2. \A p \in Obj : Keeps(heap, stack, p, b) <=> IsVec(p) /\ heap[p].data = b
    BY <1>1 DEF Keeps, Destroys, VecIn, LiveIn, IsVec
  <2>3. {p \in Obj : IsVec(p) /\ heap[p].data = b} = {o}
    BY <1>1, <2>1, <2>2 DEF Kept
  <2> QED  BY <2>3, FS_Singleton
<1> QED  BY <1>2, <1>3

\* Between releases every object is held and every buffer has one Vec: the
\* destructors of backend.rs and the operations of Vec lose nothing.
THEOREM ReclaimsAll == Spec => []AllReclaimed
BY ReclaimedNow, RuntimeSafe, PTL

\* Between operations there is no gap.
LEMMA VecNow ==
  ASSUME RuntimeInv
  PROVE  VecSound
<1> SUFFICES ASSUME Ready, NEW o \in Live
             PROVE  /\ Contents(o) = meant[o]
                    /\ IsVec(o) => /\ heap[o].used <= heap[o].cap
                                   /\ heap[o].cap > 0 => Len(CellsOf(o)) >= heap[o].cap
                                   /\ \A i \in Cells : i > heap[o].used => CellHolds(o, i) = Null
  BY DEF VecSound
<1>1. /\ o \in LiveIn(heap) /\ heap[o].count > 0 /\ call = NoCall /\ heap[o].kind \in {"shared", "vec"}
      /\ o \in Obj /\ heap[o] # Freed
  <2>1. o \in LiveIn(heap)
    BY LiveIs
  <2> QED  BY <2>1, ReadyFacts, Facts, LiveTyped DEF LiveIn
<1>2. CASE heap[o].kind = "shared"
  <2>1. meant[o] = heap[o].cells
    BY <1>1, <1>2, Facts DEF FilledIn
  <2> QED  BY <1>1, <1>2, <2>1 DEF Contents, IsShared, IsVec
<1>3. CASE heap[o].kind = "vec"
  <2> DEFINE u == heap[o].used
             m == meant[o]
             cells == Storage(heap, buffer, o)
  <2>1. /\ u \in Nat /\ heap[o].cap \in Nat /\ u <= heap[o].cap /\ m \in Seq(Obj)
        /\ (heap[o].cap = 0 <=> heap[o].data = Null)
        /\ (heap[o].data # Null => /\ CellsOf(o) \in Seq(Value \cup {Junk}) /\ Len(CellsOf(o)) = heap[o].cap
                                   /\ cells = CellsOf(o))
        /\ Filled(cells, u, m, IF call.o = o THEN call ELSE NoCall)
        /\ \A i \in Nat : HoldsIn(heap, buffer, stack, o, i) = Handles(cells, i)
    BY <1>1, <1>3, VecFacts DEF VecIn
  <2>2. Len(m) = u /\ \A i \in Positive : Handles(cells, i) = Element(m, i)
    BY <1>1, <2>1, FilledIs
  <2>3. ASSUME NEW i \in Cells, i > u PROVE CellHolds(o, i) = Null
    <3>1. Element(m, i) = Null
      BY <2>1, <2>2, <2>3, CellsNat DEF Element
    <3> QED  BY <2>1, <2>2, <3>1, CellsNat, CellHoldsIn
  <2>4. Contents(o) = m
    <3>1. Contents(o) = IF u > 0 THEN SubSeq(CellsOf(o), 1, u) ELSE <<>>
      BY <1>3 DEF Contents, IsShared
    <3>2. CASE u = 0
      BY <2>1, <2>2, <3>1, <3>2
    <3>3. CASE u # 0
      <4>1. /\ cells = CellsOf(o) /\ cells \in Seq(Value \cup {Junk}) /\ u <= Len(cells)
        BY <2>1, <3>3
      <4>2. \A i \in 1 .. u : cells[i] = m[i]
        <5> SUFFICES ASSUME NEW i \in 1 .. u PROVE cells[i] = m[i]
          OBVIOUS
        <5>1. Element(m, i) = m[i] /\ m[i] \in Obj /\ i \in Positive
          BY <2>1, <2>2 DEF Element, Positive
        <5>2. Handles(cells, i) = m[i] /\ m[i] # Null
          BY <2>2, <5>1, FreedIs
        <5> HIDE DEF cells, m
        <5> QED  BY <5>2 DEF Handles
      <4> HIDE DEF cells, m, u
      <4>3. SubSeq(cells, 1, u) = m
        BY <2>1, <2>2, <4>1, <4>2
      <4> QED  BY <2>1, <3>1, <3>3, <4>1, <4>3
    <3> QED  BY <3>2, <3>3
  <2>5. heap[o].cap > 0 => Len(CellsOf(o)) >= heap[o].cap
    BY <2>1
  <2> QED  BY <2>1, <2>3, <2>4, <2>5
<1> QED  BY <1>1, <1>2, <1>3

\* Between operations a Vec has the elements that the calls made so far ask for,
\* in its own buffer, within its capacity, and owns nothing behind them.
THEOREM VecHolds == Spec => []VecSound
BY VecNow, RuntimeSafe, PTL
=============================================================================
