------------------------------ MODULE Lowering ------------------------------
(***************************************************************************)
(* The compiler from the checked tree to the module the backend emits, as  *)
(* main.rs drives it: the builder makes a module, the verifier looks at    *)
(* it, ownership operations are lowered, the verifier looks again, and,    *)
(* where optimization is asked for, functions are inlined, the peephole    *)
(* passes run over one function after another until a round changes        *)
(* nothing, dead functions go, and the verifier looks a last time.         *)
(*                                                                         *)
(* What the module does at each point is kept in `seen`, a history         *)
(* variable: for every input the trace, the fault and what was left alive. *)
(***************************************************************************)
EXTENDS IrProgram, IrVerify, IrOptimizer

CONSTANTS
    Menu,        \* the programs, a sequence
    Questions,   \* the inputs every program is run on
    MaxFuel      \* bound on the iterations and calls of the reference meaning

VARIABLES
    program,     \* the program of the menu that is compiled
    phase,       \* how far the compiler has come
    m,           \* the module
    fn, pass,    \* the function and the pass the peephole optimizer is at
    changed,     \* whether a pass of this round claims to have changed it
    seen,        \* what the module did when it was last run
    expected     \* what the program means
vars == <<program, phase, m, fn, pass, changed, seen, expected>>

Source == INSTANCE SourceSemantics WITH WordBits <- Word, ByteBits <- Byte

\* A run of the module; a normal end is one without a panic or an exit.
Outcome(module, q) ==
    LET r == Run(module, "main", q)
    IN  [trace |-> r.trace, fault |-> r.fault,
         left  |-> {o \in DOMAIN r.count : r.count[o] # 0},
         normal |-> r.trace = <<>> \/ Last1(r.trace)[1] \notin {"panic", "exit"}]
Watch(module) == [q \in Questions |-> Outcome(module, q)]

Init ==
    /\ program \in DOMAIN Menu
    /\ phase = "tree"
    /\ m = <<>>
    /\ fn = 1 /\ pass = 1 /\ changed = FALSE
    /\ seen = <<>>
    /\ expected = [q \in Questions |-> Source!Meaning(Menu[program], q, MaxFuel).trace]

BuildTree ==
    /\ phase = "tree"
    /\ m' = Build(Menu[program])
    /\ phase' = "built"
    /\ UNCHANGED <<program, fn, pass, changed, seen, expected>>

LowerPhysical ==
    /\ phase = "verified"
    /\ m' = LowerOwnership(m)
    /\ phase' = "physical"
    /\ seen' = Watch(m')
    /\ UNCHANGED <<program, fn, pass, changed, expected>>

\* The verifier looks at what was built, at what was lowered and at what was
\* optimized; the compiler gives up where it objects.
Checked == [built |-> "verified", physical |-> "lowered", shaken |-> "emitted"]
VerifyModule ==
    /\ phase \in DOMAIN Checked
    /\ phase' = IF Verify(m) THEN Checked[phase] ELSE "rejected"
    /\ UNCHANGED <<program, m, fn, pass, changed, seen, expected>>

\* Without --optimize the lowered module is what the backend gets.
EmitLowered ==
    /\ phase = "lowered"
    /\ phase' = "emitted"
    /\ UNCHANGED <<program, m, fn, pass, changed, seen, expected>>

Inline ==
    /\ phase = "lowered"
    /\ m' = InlineFunctions(m)
    /\ phase' = "peephole"
    /\ seen' = Watch(m')
    /\ UNCHANGED <<program, fn, pass, changed, expected>>

RunPass ==
    /\ phase = "peephole"
    /\ fn <= Len(m.functions)
    /\ pass <= Len(Passes)
    /\ LET r == Peephole(Passes[pass], m.functions[fn])
       IN  /\ m' = [m EXCEPT !.functions[fn] = r.f]
           /\ changed' = (changed \/ r.changed)
    /\ pass' = pass + 1
    /\ UNCHANGED <<program, phase, fn, seen, expected>>

EndRound ==
    /\ phase = "peephole"
    /\ pass > Len(Passes)
    /\ fn' = IF changed THEN fn ELSE fn + 1
    /\ pass' = 1
    /\ changed' = FALSE
    /\ seen' = Watch(m)
    /\ UNCHANGED <<program, phase, m, expected>>

RemoveDead ==
    /\ phase = "peephole"
    /\ fn > Len(m.functions)
    /\ m' = EliminateDeadFunctions(m)
    /\ phase' = "shaken"
    /\ seen' = Watch(m')
    /\ UNCHANGED <<program, fn, pass, changed, expected>>

Next ==
    \/ BuildTree
    \/ LowerPhysical
    \/ VerifyModule
    \/ EmitLowered
    \/ Inline
    \/ RunPass
    \/ EndRound
    \/ RemoveDead

Spec == Init /\ [][Next]_vars
-----------------------------------------------------------------------------
\* What ran shows and panics as the program says, after lowering, after
\* inlining, after every function that is optimized and at the end.
SameMeaning == seen # <<>> => \A q \in Questions : seen[q].trace = expected[q]

\* No run reads a cell or a register nothing wrote, touches or releases a
\* destroyed object, divides by zero or runs into an unreachable instruction.
NoFault == seen # <<>> => \A q \in Questions : seen[q].fault = ""

\* A run that ends without a panic has released every object it made, those
\* of the global variables included.
NothingLeaks ==
    seen # <<>> => \A q \in Questions : seen[q].normal => seen[q].left = {}

\* What the type checker and the ownership analysis accept, the verifier never
\* objects to, neither before nor after lowering nor after optimization.
AcceptedVerifies == phase # "rejected"

\* Every pass that claims a change makes its function lighter, and one that
\* claims none leaves it alone: the rounds come to an end.
Weight(f) ==
    LET code == Code(f) IN FoldFunction(+, 0, [k \in DOMAIN code |->
        CASE code[k].op \in {"const", "constbool", "br"} -> 1 [] OTHER -> 2]) + Len(f.blocks)
PassesShrink ==
    [][phase = "peephole" /\ phase' = phase /\ pass' = pass + 1 =>
          IF changed' /\ ~changed THEN Weight(m'.functions[fn]) < Weight(m.functions[fn])
          ELSE IF ~changed' THEN m' = m
          ELSE m' = m \/ Weight(m'.functions[fn]) < Weight(m.functions[fn])]_vars
=============================================================================
