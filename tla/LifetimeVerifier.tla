------------------------- MODULE LifetimeVerifier -------------------------
(***************************************************************************)
(* The worklist of the physical lifetime verifier                          *)
(* (verify_values and verify in src/src/physical_ownership.rs) over the    *)
(* control flow graph of a function, followed by a walk through the        *)
(* function that was accepted.                                             *)
(*                                                                         *)
(* The code runs two worklists of the same shape over the same graph, one  *)
(* for registers and one for cleanup slots; neither reads the other's      *)
(* state, so the model runs them as one over the product LifetimeIr!Flow.  *)
(* The walk takes any path.  Its ledger, exact, is a flow in which every   *)
(* set of alternatives has one member, and it executes without any check:  *)
(* that the checks would all succeed is the property.                      *)
(***************************************************************************)
EXTENDS LifetimeIr

CONSTANTS
  Block, Entry, None,
  Programs,      \* records of code : Block -> Seq(Instr), succ : Block -> Seq(Block)
  Params,        \* the managed parameters of the function
  MaxRounds      \* bound of the reference iteration in LeastSolution

Instr ==
       [op : {"Alloca", "DropSlot"}, s : Slot]
  \cup [op : {"StoreOwned", "TransferSlot"}, s : Slot, v : Reg]
  \cup [op : {"Move"}, d : Reg, s : Slot]
  \cup [op : {"SwapValue"}, d : Reg, s : Slot, v : Reg]
  \cup [op : {"OwnedCast"}, d : Reg, v : Reg]
  \cup [op : {"DropValue"}, v : Reg, recipe : {"Managed", "Temporary"}]
  \cup [op : {"Acquire"}, v : Reg, kind : {"ImmutableBacking", "Evaluation"}]
  \cup [op : {"Wrap"}, d : Reg, v : Reg, kind : {"FatPtr", "Closure"}]
  \cup [op : {"Call"}, d : Reg, args : Seq(Reg)]
  \cup [op : {"Construction"}, s : Shell]
  \cup [op : {"InitializeField"}, s : Shell, i : Field, v : Reg]
  \cup [op : {"ResourceInitialize", "Ret"}, v : Reg]
  \cup [op : {"Alloc", "ResourceTake"}, d : Reg]

ASSUME ProgramAssumption ==
  /\ Entry \in Block /\ None \notin Block /\ None \notin Flow
  /\ Params \subseteq Reg \ Zero
  /\ MaxRounds \in Nat
  /\ \A p \in Programs : /\ p.code \in [Block -> Seq(Instr)]
                         /\ p.succ \in [Block -> Seq(Block)]

\* All that can be said of what arrives in a block: that something does, and
\* each alternative.  A round of the reference iteration adds at least one.
Alternative ==
       {<<"reached">>}
  \cup ({"values"} \X Reg \X Count) \cup ({"leases"} \X Reg \X BOOLEAN)
  \cup ({"cells"} \X Owner \X BOOLEAN) \cup ({"cellLeases"} \X Slot \X BOOLEAN)
  \cup ({"progress"} \X (Shell \X Field) \X BOOLEAN)
  \cup ({"cleanup"} \X Owner \X BOOLEAN)
ASSUME RoundsAssumption ==
  /\ IsFiniteSet(Block) /\ IsFiniteSet(Alternative)
  /\ MaxRounds >= Cardinality(Block \X Alternative)

\* The arm of the match for an instruction: its check and its effect.
Accepts(f, i) ==
  CASE i.op = "Alloca"             -> AllocaOk(f, i.s)
    [] i.op = "DropSlot"           -> TRUE
    [] i.op = "StoreOwned"         -> StoreOwnedOk(f, i.s, i.v)
    [] i.op = "TransferSlot"       -> TransferSlotOk(f, i.s, i.v)
    [] i.op = "Move"               -> MoveOk(f, i.d, i.s)
    [] i.op = "SwapValue"          -> SwapValueOk(f, i.d, i.s, i.v)
    [] i.op = "OwnedCast"          -> OwnedCastOk(f, i.d, i.v)
    [] i.op = "DropValue"          -> DropValueOk(f, i.v, i.recipe)
    [] i.op = "Acquire"            -> AcquireOk(f, i.v, i.kind)
    [] i.op = "Wrap"               -> WrapOk(f, i.d, i.v, i.kind)
    [] i.op = "Call"               -> CallOk(f, i.args, i.d)
    [] i.op = "Construction"       -> ConstructionOk(f, i.s)
    [] i.op = "InitializeField"    -> InitializeFieldOk(f, i.s, i.i, i.v)
    [] i.op = "ResourceInitialize" -> ResourceInitializeOk(f, i.v)
    [] i.op = "ResourceTake"       -> ResourceTakeOk(f, i.d)
    [] i.op = "Alloc"              -> AllocOk(f, i.d)
    [] i.op = "Ret"                -> RetOk(f, i.v)
Apply(f, i) ==
  CASE i.op = "Alloca"             -> Alloca(f, i.s)
    [] i.op = "DropSlot"           -> DropSlot(f, i.s)
    [] i.op = "StoreOwned"         -> StoreOwned(f, i.s, i.v)
    [] i.op = "TransferSlot"       -> TransferSlot(f, i.s, i.v)
    [] i.op = "Move"               -> Move(f, i.d, i.s)
    [] i.op = "SwapValue"          -> SwapValue(f, i.d, i.s, i.v)
    [] i.op = "OwnedCast"          -> OwnedCast(f, i.d, i.v)
    [] i.op = "DropValue"          -> DropValue(f, i.v)
    [] i.op = "Acquire"            -> Acquire(f, i.v, i.kind)
    [] i.op = "Wrap"               -> Wrap(f, i.d, i.v)
    [] i.op = "Call"               -> Call(f, i.args, i.d)
    [] i.op = "Construction"       -> Construction(f, i.s)
    [] i.op = "InitializeField"    -> InitializeField(f, i.s, i.i, i.v)
    [] i.op = "ResourceInitialize" -> ResourceInitialize(f, i.v)
    [] i.op = "ResourceTake"       -> ResourceTake(f, i.d)
    [] i.op = "Alloc"              -> Alloc(f, i.d)
    [] i.op = "Ret"                -> Take(f, Once(i.v))

-----------------------------------------------------------------------------
VARIABLES
  program,   \* the function under verification, chosen at the start
  incoming,  \* per block the joined flow, None if no path was found yet
  work,      \* the queue of blocks
  block, pc, state,  \* the block being visited (or None), its next instruction
  point,     \* the flow last seen before each instruction and after the block
  verdict,   \* "working", "accepted" or "rejected"
  at, next, exact    \* the walk: block, instruction, ledger
visit == <<block, pc, state>>
walk == <<at, next, exact>>
vars == <<program, incoming, work, visit, point, verdict, walk>>

Code(b) == program.code[b]
Targets(b) == program.succ[b]

Init ==
  /\ program \in Programs
  /\ incoming = [b \in Block |-> IF b = Entry THEN EntryFlow(Params) ELSE None]
  /\ work = <<Entry>>
  /\ block = None /\ pc = 1 /\ state = EntryFlow(Params)
  /\ point = [b \in Block |-> <<>>]
  /\ verdict = "working"
  /\ at = Entry /\ next = 1 /\ exact = EntryFlow(Params)

\* work.pop_front
Visit ==
  /\ verdict = "working" /\ block = None /\ work # <<>>
  /\ block' = Head(work) /\ work' = Tail(work)
  /\ pc' = 1 /\ state' = incoming[Head(work)]
  /\ point' = [point EXCEPT ![Head(work)] = <<incoming[Head(work)]>>]
  /\ UNCHANGED <<program, incoming, verdict, walk>>

\* One turn of the loop over the instructions of the block.
Check ==
  /\ verdict = "working" /\ block # None /\ pc <= Len(Code(block))
  /\ \/ /\ Accepts(state, Code(block)[pc])
        /\ state' = Apply(state, Code(block)[pc])
        /\ point' = [point EXCEPT ![block] = Append(@, state')]
        /\ pc' = pc + 1
        /\ UNCHANGED <<block, verdict>>
     \/ /\ ~Accepts(state, Code(block)[pc])
        /\ verdict' = "rejected"
        /\ UNCHANGED <<visit, point>>
  /\ UNCHANGED <<program, incoming, work, walk>>

\* Variants: the first path decides, the last path decides.
MeetFirst(old, f) == IF old = None THEN f ELSE old
MeetLast(old, f) == f
Meet(old, f) == IF old = None THEN f ELSE Join(old, f)

\* Variants: a block is queued when it is reached for the first time only, or
\* every time.
QueueUnreached(t, f) == IF incoming[t] = None THEN Append(work, t) ELSE work
QueueAlways(t, f) == Append(work, t)
Queue(t, f) == IF Meet(incoming[t], f) # incoming[t] THEN Append(work, t) ELSE work

\* One turn of the loop over the successors.
Propagate ==
  /\ verdict = "working" /\ block # None
  /\ LET k == pc - Len(Code(block)) IN
       /\ k \in DOMAIN Targets(block)
       /\ LET t == Targets(block)[k] IN
            /\ incoming' = [incoming EXCEPT ![t] = Meet(@, state)]
            /\ work' = Queue(t, state)
  /\ pc' = pc + 1
  /\ UNCHANGED <<program, block, state, point, verdict, walk>>

Leave ==
  /\ verdict = "working" /\ block # None
  /\ pc > Len(Code(block)) + Len(Targets(block))
  /\ block' = None
  /\ UNCHANGED <<program, incoming, work, pc, state, point, verdict, walk>>

Accept ==
  /\ verdict = "working" /\ block = None /\ work = <<>>
  /\ verdict' = "accepted"
  /\ UNCHANGED <<program, incoming, work, visit, point, walk>>

Verifying == Visit \/ Check \/ Propagate \/ Leave \/ Accept

-----------------------------------------------------------------------------
(* The accepted function runs: any path, and no check on the way.          *)

Execute ==
  /\ verdict = "accepted" /\ next <= Len(Code(at))
  /\ exact' = Apply(exact, Code(at)[next])
  /\ next' = next + 1
  /\ UNCHANGED <<program, incoming, work, visit, point, verdict, at>>
Jump ==
  /\ verdict = "accepted" /\ next > Len(Code(at))
  /\ \E k \in DOMAIN Targets(at) : at' = Targets(at)[k]
  /\ next' = 1
  /\ UNCHANGED <<program, incoming, work, visit, point, verdict, exact>>

Next == Verifying \/ Execute \/ Jump
Spec == Init /\ [][Next]_vars
\* verify is a loop in one thread: it goes on as long as it can.
FairSpec == Spec /\ WF_vars(Verifying)

-----------------------------------------------------------------------------
(* Properties.                                                             *)

TypeOK ==
  /\ program.code \in [Block -> Seq(Instr)] /\ program.succ \in [Block -> Seq(Block)]
  /\ incoming \in [Block -> Flow \cup {None}]
  /\ work \in Seq(Block)
  /\ block \in Block \cup {None} /\ pc \in Nat \ {0} /\ state \in Flow
  /\ point \in [Block -> Seq(Flow)]
  /\ verdict \in {"working", "accepted", "rejected"}
  /\ at \in Block /\ next \in Nat \ {0} /\ next <= Len(Code(at)) + 1

\* No instruction of an accepted function meets a ledger it was not checked
\* for, on any path, however often it loops: operands carry the edges that
\* are consumed, no live slot is overwritten, nothing is owed at a return.
WalkSafe ==
  verdict = "accepted" /\ next <= Len(Code(at)) =>
    Accepts(exact, Code(at)[next])

\* Everything that happens on a walk was foreseen at that program point.
WalkForeseen ==
  verdict = "accepted" => Narrower(exact, point[at][next])

\* The worklist loses nothing: whatever can arrive in a block was followed
\* through the block to all its successors, or the block is still to be done.
Recorded(b, n) ==
  /\ Len(point[b]) = n
  /\ \A k \in 1..n - 1 : /\ Accepts(point[b][k], Code(b)[k])
                         /\ point[b][k + 1] = Apply(point[b][k], Code(b)[k])
Covers(f, t) == incoming[t] # None /\ Narrower(f, incoming[t])
Queued(b) == \E k \in DOMAIN work : work[k] = b
Settled(b) ==
  /\ Recorded(b, Len(Code(b)) + 1)
  /\ point[b][1] = incoming[b]
  /\ \A k \in DOMAIN Targets(b) : Covers(point[b][Len(Code(b)) + 1], Targets(b)[k])
NoLostBlock ==
  \A b \in Block : incoming[b] # None => b = block \/ Queued(b) \/ Settled(b)

\* The verifier answers, also for functions with loops.
Answers == <>(verdict # "working")

\* The answer does not depend on the order of the queue: the flows it ends
\* with are what the paths bring when all blocks are visited at once, round
\* by round, until nothing changes.
BlockFlow(b, f) ==
  LET After[k \in 0..Len(Code(b))] ==
        IF k = 0 THEN f ELSE Apply(After[k - 1], Code(b)[k])
  IN  After[Len(Code(b))]
JoinAll(S) ==
  LET f == CHOOSE f \in S : TRUE
  IN  [c \in DOMAIN f |-> [x \in DOMAIN f[c] |-> UNION {g[c][x] : g \in S}]]
Arrivals(inc, t) ==
  {BlockFlow(b, inc[b]) :
     b \in {b \in Block : inc[b] # None /\ \E k \in DOMAIN Targets(b) : Targets(b)[k] = t}}
  \cup IF t = Entry THEN {EntryFlow(Params)} ELSE {}
Round(inc) ==
  [t \in Block |-> IF Arrivals(inc, t) = {} THEN None ELSE JoinAll(Arrivals(inc, t))]
LeastSolution ==
  verdict = "accepted" /\ exact = EntryFlow(Params) =>
    LET Solution[n \in 0..MaxRounds] ==
          IF n = 0 THEN [b \in Block |-> None] ELSE Round(Solution[n - 1])
    IN  /\ Round(incoming) = incoming
        /\ \E n \in 0..MaxRounds : Solution[n] = incoming

-----------------------------------------------------------------------------
(* The inductive invariant of LifetimeVerifier_proofs.                     *)

\* How far the visit of block has come.  If a path around a loop has just
\* widened what arrives in block itself, block is queued again.
Seen == IF pc <= Len(Code(block)) THEN pc ELSE Len(Code(block)) + 1
VisitSound ==
  block # None =>
    /\ incoming[block] # None
    /\ pc <= Len(Code(block)) + Len(Targets(block)) + 1
    /\ Recorded(block, Seen) /\ state = point[block][Seen]
    /\ Queued(block) \/ point[block][1] = incoming[block]
    /\ \A k \in DOMAIN Targets(block) :
         k < pc - Len(Code(block)) => Covers(state, Targets(block)[k])
Inductive ==
  /\ TypeOK
  /\ \A b \in Block : incoming[b] # None => Narrower(incoming[b], incoming[b])
  /\ Narrower(state, state)
  /\ Covers(EntryFlow(Params), Entry)
  /\ \A b \in Block : Queued(b) => incoming[b] # None
  /\ NoLostBlock
  /\ VisitSound
  /\ verdict # "accepted" => at = Entry /\ next = 1 /\ exact = EntryFlow(Params)
  /\ verdict = "accepted" =>
       /\ work = <<>> /\ block = None
       /\ incoming[at] # None /\ exact \in Flow
       /\ Narrower(exact, point[at][next])
=============================================================================
