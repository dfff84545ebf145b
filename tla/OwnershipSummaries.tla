------------------------- MODULE OwnershipSummaries -------------------------
(***************************************************************************)
(* The source ownership analysis of a whole program (ownership.rs 302-407, *)
(* ownership_ir.rs 389-427).  Functions call each other, so what a call    *)
(* returns, stores and touches is only known by analysing the callee: all  *)
(* functions are analysed, round after round, until no contract grows, and *)
(* once more for the errors.  Each analysis is itself a worklist over the  *)
(* blocks of the function.                                                 *)
(*                                                                         *)
(* A function is [name, fn, blocks]; a block is [code, next], with the     *)
(* operations of OwnershipIr and the blocks that may come after it.  Block *)
(* 1 is the entry.  What the analysis comes to is compared with other ways *)
(* to get there in OwnershipAnswers.                                       *)
(***************************************************************************)
EXTENDS OwnershipIr

CONSTANTS
  Plan,       \* the programs: sequences of functions
  PathBlocks  \* length of the paths that are looked at

\* Blocks are numbered, jumps stay in the function (verify, ownership_ir.rs),
\* and code consists of operations; contracts replace what is said of a call.
IsOperation(op) ==
  /\ op.op \in Kinds
  /\ op.op = "call" =>
       /\ {"op", "target", "summary", "effects", "referenceEffects"} \subseteq DOMAIN op
       /\ op.referenceEffects \in Seq(ToSet(op.referenceEffects))
IsCode(code) == code \in Seq(ToSet(code)) /\ \A op \in ToSet(code) : IsOperation(op)
Successors(blocks) ==
  {<<>>} \cup {<<t>> : t \in DOMAIN blocks} \cup (DOMAIN blocks) \X (DOMAIN blocks)
ASSUME PlanAssumption ==
  /\ PathBlocks \in Nat
  /\ \A p \in Plan :
       /\ p \in Seq(ToSet(p))
       /\ \A k \in DOMAIN p :
            /\ 1 \in DOMAIN p[k].blocks
            /\ \A b \in DOMAIN p[k].blocks :
                 /\ IsCode(p[k].blocks[b].code)
                 /\ p[k].blocks[b].next \in Successors(p[k].blocks)

VARIABLES
  plan,       \* the program
  stage,      \* "contracts", "errors" or "done"
  at,         \* the function that is next, or being analysed
  known,      \* by name: what each function is known to do so far
  seen,       \* by function: the contracts its calls were last analysed with
  solving,    \* is a worklist under way
  incoming,   \* by block: what holds at its entry, if it was reached
  work,       \* blocks to visit
  changed,    \* did a contract grow in this round
  errors      \* pairs <<name, error>>
vars == <<plan, stage, at, known, seen, solving, incoming, work, changed, errors>>

-----------------------------------------------------------------------------
(* Contracts.  Sets of pairs: <<path, origin>> that may be returned,       *)
(* <<destination, origin>> that may be stored, <<global, written>>.        *)

Contract == [summary |-> {}, stores |-> {}, effects |-> {}]
JoinEffects(a, b) ==
  {<<r, <<r, TRUE>> \in a \cup b>> : r \in {e[1] : e \in a \cup b}}
Grown(c, d) ==
  [summary |-> JoinProvenance([Nothing EXCEPT !.components = c.summary],
                              [Nothing EXCEPT !.components = d.summary]).components,
   stores  |-> c.stores \cup d.stores,
   effects |-> JoinEffects(c.effects, d.effects)]

\* The calls of an operation with what is known of the functions they name;
\* contracts are finite.
StoresOf(c) ==
  LET all == {[destination |-> d[1],
               sources |-> {s[2] : s \in {s \in c.stores : s[1] = d[1]}}] : d \in c.stores}
  IN  IF IsFiniteSet(all) THEN SetToSeq(all) ELSE <<>>
Attached(op, contracts) ==
  IF op.op = "call" /\ op.target \in DOMAIN contracts
  THEN LET c == contracts[op.target]
       IN  [op EXCEPT !.summary = c.summary, !.referenceEffects = StoresOf(c),
                      !.effects = JoinEffects(@, c.effects)]
  ELSE op

\* What a function itself does to the globals.
Touched(op) ==
  CASE op.op = "access" -> {<<op.place.root, op.access # "read">>}
    [] op.op = "borrow" -> {<<op.place.root, op.kind = "exclusive">>}
    [] op.op = "assign" -> {<<op.place.root, TRUE>>}
    [] OTHER -> {}
Called(op, contracts) ==
  IF op.op = "call" THEN Attached(op, contracts).effects ELSE {}
OpsOf(f) == UNION {ToSet(f.blocks[b].code) : b \in DOMAIN f.blocks}
DirectEffects(f) ==
  JoinEffects({e \in UNION {Touched(op) : op \in OpsOf(f)} : e[1] \in Globals}, {})
FunctionOf(fs, n) == fs[CHOOSE k \in DOMAIN fs : fs[k].name = n]
FirstContracts(fs) ==
  [n \in {fs[k].name : k \in DOMAIN fs} |->
     [Contract EXCEPT !.effects = DirectEffects(FunctionOf(fs, n))]]
CallEffects(f, contracts) ==
  JoinEffects(UNION {Called(op, contracts) : op \in OpsOf(f)}, {})

-----------------------------------------------------------------------------
(* One function.                                                           *)

\* The state after a block; each state is computed once, as the member of a set.
Flow(f, contracts, an, b) ==
  LET code == f.blocks[b].code
      after[n \in 0..Len(code)] ==
        IF n = 0 THEN an
        ELSE CHOOSE s \in {Transfer(f.fn, a, Attached(code[n], contracts)) : a \in {after[n-1]}} : TRUE
  IN  after[Len(code)]

\* The state of each block is passed on to the blocks after it; those whose
\* state grows are visited again.
Joined(states, target, out) ==
  IF target \in DOMAIN states THEN Put(states, target, JoinState(states[target], out))
  ELSE Put(states, target, Restart(out))
\* Variant: a block that was reached is not visited again.
RequeueOnce(states, target, out, queue) ==
  IF target \in DOMAIN states THEN queue ELSE Append(queue, target)
Requeue(states, target, out, queue) ==
  IF \/ target \in DOMAIN states /\ Joined(states, target, out) = states
     \/ target \in ToSet(queue)
  THEN queue ELSE Append(queue, target)
Step(out, t, from) ==
  [states |-> Joined(from.states, t, out), queue |-> Requeue(from.states, t, out, from.queue)]
\* A block ends with a return, a jump or a branch.
Passed(out, next, start) ==
  CASE Len(next) = 0 -> start
    [] Len(next) = 1 -> Step(out, next[1], start)
    [] Len(next) = 2 -> Step(out, next[2], Step(out, next[1], start))

\* Errors, stores and results are those of the solved states.
Collected(outs) ==
  [errors |-> UNION {out.errors : out \in outs}, stores |-> UNION {out.stores : out \in outs},
   returned |-> JoinAll({out.returned : out \in outs})]
Report(f, contracts, states) ==
  Collected({Flow(f, contracts, Restart(states[b]), b) : b \in DOMAIN states})
\* Origins of the function's own are errors of its return, and no caller's.
Learned(f, contracts, report) ==
  [summary |-> {c \in report.returned.components : ~IsLocal(c[2])},
   stores  |-> {<<d[1], d[2]>> : d \in report.stores},
   effects |-> CallEffects(f, contracts)]

Current == plan[at]

-----------------------------------------------------------------------------
Init ==
  /\ plan \in Plan
  /\ stage = "contracts" /\ at = 1
  /\ known = FirstContracts(plan)
  /\ seen = [k \in DOMAIN plan |-> <<>>]
  /\ solving = FALSE /\ incoming = <<>> /\ work = <<>>
  /\ changed = FALSE /\ errors = {}

\* A function gets the contracts known by now; the last pass keeps them.
Begin ==
  /\ stage # "done" /\ ~solving /\ at <= Len(plan)
  /\ seen' = IF stage = "contracts" THEN [seen EXCEPT ![at] = known] ELSE seen
  /\ solving' = TRUE
  /\ incoming' = <<Start>> /\ work' = <<1>>
  /\ UNCHANGED <<plan, stage, at, known, changed, errors>>

Visit ==
  /\ solving /\ work # <<>>
  /\ \E out \in {Flow(Current, seen[at], incoming[Head(work)], Head(work))} :
     \E new \in {Passed(out, Current.blocks[Head(work)].next,
                       [states |-> incoming, queue |-> Tail(work)])} :
        incoming' = new.states /\ work' = new.queue
  /\ UNCHANGED <<plan, stage, at, known, seen, solving, changed, errors>>

Finish ==
  /\ solving /\ work = <<>>
  /\ \E report \in {Report(Current, seen[at], incoming)} :
     \E grown \in {Grown(known[Current.name], Learned(Current, seen[at], report))} :
         IF stage = "contracts"
         THEN /\ known' = [known EXCEPT ![Current.name] = grown]
              /\ changed' = (changed \/ grown # known[Current.name])
              /\ UNCHANGED errors
         ELSE /\ errors' = errors \cup {<<Current.name, e>> : e \in report.errors}
              /\ UNCHANGED <<known, changed>>
  /\ solving' = FALSE /\ incoming' = <<>> /\ at' = at + 1
  /\ UNCHANGED <<plan, stage, seen, work>>

\* Variants: each function is only analysed once; one change is never forgotten.
EndRoundAlways ==
  /\ stage # "done" /\ ~solving /\ at > Len(plan)
  /\ at' = 1 /\ changed' = FALSE
  /\ stage' = IF stage = "contracts" THEN "errors" ELSE "done"
  /\ UNCHANGED <<plan, known, seen, solving, incoming, work, errors>>
EndRoundChanged ==
  /\ stage # "done" /\ ~solving /\ at > Len(plan)
  /\ at' = 1
  /\ stage' = IF changed THEN "contracts" ELSE IF stage = "contracts" THEN "errors" ELSE "done"
  /\ UNCHANGED <<plan, known, seen, solving, incoming, work, changed, errors>>
EndRound ==
  /\ stage # "done" /\ ~solving /\ at > Len(plan)
  /\ at' = 1 /\ changed' = FALSE
  /\ stage' = IF changed THEN "contracts" ELSE IF stage = "contracts" THEN "errors" ELSE "done"
  /\ UNCHANGED <<plan, known, seen, solving, incoming, work, errors>>

Ended == stage = "done" /\ UNCHANGED vars
Next == Begin \/ Visit \/ Finish \/ EndRound \/ Ended

\* The analysis is a loop of the compiler, it does not stop before it is done:
\* weak fairness of the steps, which are enabled exactly until then (written out,
\* so that ENABLED need not be evaluated).
Running == []<><<Begin \/ Visit \/ Finish \/ EndRound>>_vars \/ <>[](stage = "done")
Spec == Init /\ [][Next]_vars /\ Running

-----------------------------------------------------------------------------
(* What one state, or one contract, knows is known to another.             *)

ProvenanceCovered(p, q) ==
  /\ p.components \subseteq q.components \/ q.components = {<< <<>>, Unknown >>}
  /\ p.loans \subseteq q.loans
StateCovered(s, t) ==
  /\ \A b \in Binding : /\ s.initialized[b] \subseteq t.initialized[b]
                        /\ ProvenanceCovered(s.bindings[b], t.bindings[b])
  /\ \A v \in DOMAIN s.values :
       v \in DOMAIN t.values /\ ProvenanceCovered(s.values[v], t.values[v])
  /\ \A l \in DOMAIN s.loans :
       /\ l \in DOMAIN t.loans
       /\ s.loans[l].origins \subseteq t.loans[l].origins
       /\ s.loans[l].scopes \subseteq t.loans[l].scopes
       /\ s.loans[l].parents \subseteq t.loans[l].parents

\* What holds at the end of a block is covered by the blocks after it.
Settled(f, contracts, states, b) ==
  \A t \in ToSet(f.blocks[b].next) :
    /\ t \in DOMAIN states
    /\ StateCovered(Flow(f, contracts, states[b], b), states[t])

\* States of a function that start where it starts and agree with its code.
Fields == {"initialized", "bindings", "values", "loans", "errors", "stores", "returned"}
Alternatives == {"uninitialized", "live", "moved"}
Shaped(an) ==
  DOMAIN an = Fields /\ an.initialized \in [Binding -> (SUBSET Alternatives) \ {{}}]
Annotation(f, contracts, states) ==
  /\ DOMAIN states \subseteq DOMAIN f.blocks /\ 1 \in DOMAIN states
  /\ \A b \in DOMAIN states : Shaped(states[b])
  /\ StateCovered(Start, states[1])
  /\ \A b \in DOMAIN states : Settled(f, contracts, states, b)

\* A contract says all that a function does.
Keeps(contract, learned) ==
  /\ \/ learned.summary \subseteq contract.summary
     \/ contract.summary = {<< <<>>, Unknown >>}
  /\ learned.stores \subseteq contract.stores
  /\ \A e \in learned.effects :
       /\ e[1] \in {d[1] : d \in contract.effects}
       /\ <<e[1], TRUE>> \in learned.effects => <<e[1], TRUE>> \in contract.effects

\* Paths of PathBlocks blocks through a function, without any state ever being
\* joined: where they lead, and the errors on them.
WalkOn(f, contracts, walk) ==
  LET ends == {<<p[1], Flow(f, contracts, p[2], p[1])>> : p \in walk.points}
  IN  [points |-> UNION {{<<t, Restart(e[2])>> : t \in ToSet(f.blocks[e[1]].next)} : e \in ends},
       errors |-> walk.errors \cup UNION {e[2].errors : e \in ends}]
Walk(f, contracts) ==
  LET after[n \in 0..PathBlocks] ==
        IF n = 0 THEN [points |-> {<<1, Start>>}, errors |-> {}]
        ELSE CHOOSE w \in {WalkOn(f, contracts, v) : v \in {after[n-1]}} : TRUE
  IN  after[PathBlocks]

-----------------------------------------------------------------------------
\* A block whose entry grew is visited again, whatever else was queued and in
\* whichever order (analyze, ownership_ir.rs:396-417): a block that is not
\* queued has handed on all that holds at its end.
NoGrowthForgotten ==
  solving => \A b \in DOMAIN incoming \ ToSet(work) :
               Settled(Current, seen[at], incoming, b)

\* The errors are looked for with the contracts that all functions were last
\* analysed with (ownership.rs:336-402): none has grown since, also where
\* functions call each other.
ContractsAgree ==
  stage # "contracts" => \A k \in DOMAIN plan : seen[k] = known

\* The answer is one solution of the whole program: for every function states
\* that agree with its code and with what is known of the functions that it
\* calls, a contract that says all that the function does in these states, and
\* the errors that are found in these same states.
OneSolution ==
  stage = "done" =>
    \E solution :
      /\ \A k \in DOMAIN plan :
           /\ Annotation(plan[k], known, solution[k])
           /\ Keeps(known[plan[k].name],
                    Learned(plan[k], known, Report(plan[k], known, solution[k])))
      /\ errors = UNION {{<<plan[k].name, e>> : e \in Report(plan[k], known, solution[k]).errors} :
                            k \in DOMAIN plan}

\* Worklist order cannot suppress a moved path (the comment of analyze,
\* ownership_ir.rs:394): a binding that is used on some path through a function
\* where it has been moved, or has not been initialized, is reported.
LiveMessages == {"was moved", "is not initialized", "may have been moved", "may be uninitialized"}
MovesReported ==
  stage = "done" =>
    \A k \in DOMAIN plan : \A b \in Binding :
      (\E m \in LiveMessages : <<m, b>> \in Walk(plan[k], known).errors) =>
        \E m \in LiveMessages : <<plan[k].name, <<m, b>>>> \in errors

\* Contracts only grow and are finite, so the rounds come to an end.
SummariesSettle == <>(stage = "done")
=============================================================================
