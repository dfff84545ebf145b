---------------------------- MODULE OwnershipPath ----------------------------
(***************************************************************************)
(* One execution of a function that the source ownership analysis accepts. *)
(* Each step chooses a statement, elaborates it (OwnershipPlan), applies   *)
(* the rules of the analysis to `an`, and, when no rule reports an error,  *)
(* executes it on a memory that knows nothing of the analysis:             *)
(*                                                                         *)
(*   status, holds   per place: is there a value, which references are in  *)
(*                   it;                                                   *)
(*   refs            each reference with its target, its kind, the         *)
(*                   references it was derived from, and whether it is     *)
(*                   still valid: a write, a move or the end of a place    *)
(*                   invalidates all references to it but those it goes    *)
(*                   through, a read the exclusive ones;                   *)
(*   fault           an invalid reference or a dead place was used.        *)
(*                                                                         *)
(* An `if` is analysed twice and executed once: first the branch that is   *)
(* not taken, on the analysis alone, then the taken one.                   *)
(***************************************************************************)
EXTENDS OwnershipIr

CONSTANTS
  Menu,       \* functions: their parameters and what these refer to
  Repertoire, \* by the function's name, the statements to choose from
  External,   \* places of the caller, reached through formal parameters
  StaticPlace,\* the place of a static value
  OriginOf,   \* the origin that names each external place
  Oracle,     \* what the execution may choose: [arm, pick, rounds]
  MaxSteps, MaxDepth

VARIABLES
  menu,     \* the function
  an,       \* what the analysis knows
  scopeOf,  \* the scope in which each binding is declared, or Outside
  depth,    \* the innermost scope
  mem,      \* the memory
  branch,   \* what is open of an `if`
  mode,     \* "running" or "returned"
  result,   \* the references the function returned
  steps
vars == <<menu, an, scopeOf, depth, mem, branch, mode, result, steps>>

Place == Binding \cup External \cup {StaticPlace}
NoRef == 0

-----------------------------------------------------------------------------
(* The memory.                                                             *)

Above(m, via) == IF via = NoRef THEN {} ELSE {via} \cup m.refs[via].above
Touch(m, place, via, write) ==
  [m EXCEPT
     !.fault = \/ @ \/ m.status[place] # "live"
               \/ via # NoRef /\ ~m.refs[via].valid,
     !.refs = [i \in DOMAIN @ |->
        [@[i] EXCEPT !.valid =
           @ /\ ~ /\ m.refs[i].target = place /\ i \notin Above(m, via)
                  /\ write \/ m.refs[i].kind = "exclusive"]]]
Fill(m, place, ids) ==
  [m EXCEPT !.holds[place] = ids, !.status[place] = "live"]
\* Storing a new value does not need the old one.
Overwrite(m, place, via, ids) ==
  Fill(Touch([m EXCEPT !.status[place] = "live"], place, via, TRUE), place, ids)
Clear(m, places, status) ==
  [m EXCEPT
     !.status = [p \in Place |-> IF p \in places THEN status ELSE @[p]],
     !.holds = [p \in Place |-> IF p \in places THEN {} ELSE @[p]],
     !.refs = [i \in DOMAIN @ |->
        [@[i] EXCEPT !.valid = @ /\ m.refs[i].target \notin places]]]
NewRef(m, place, via, kind) ==
  LET i == Min(1..(Cardinality(DOMAIN m.refs) + 1) \ DOMAIN m.refs)
      t == Touch(m, place, via, kind = "exclusive")
  IN  [m |-> [t EXCEPT !.refs = Put(@, i, [target |-> place, kind |-> kind,
                                   above |-> Above(m, via), valid |-> TRUE])],
       ids |-> {i}]
\* References no place holds are forgotten, but for those of the caller.
Collect(m, more) ==
  LET held == more \cup DOMAIN menu.refs \cup UNION {m.holds[p] : p \in Place}
      kept == held \cup UNION {m.refs[i].above : i \in held}
  IN  [m EXCEPT !.refs = [i \in kept |-> @[i]], !.value = <<>>]
EndOfScope(fn, m, scope) ==
  Clear(m, {b \in Binding : fn.scope[b] = scope}, "out")

-----------------------------------------------------------------------------
(* Execution of an operation.  m.value holds the references in each        *)
(* intermediate value; o decides what the program leaves open.             *)

The(ids) == CHOOSE i \in ids : TRUE
Via(m, place) == IF place.through = NoValue THEN NoRef ELSE The(m.value[place.through])
Target(m, place) ==
  IF place.through = NoValue THEN place.root ELSE m.refs[Via(m, place)].target
Yield(m, value, ids) == [m EXCEPT !.value = Put(@, value, ids)]
Pick(ids, o) == IF ids = {} THEN {} ELSE {IF o.pick = 1 THEN Min(ids) ELSE Max(ids)}

RunAccess(m, op) ==
  LET place == Target(m, op.place)
      seen  == Touch(m, place, Via(m, op.place), op.access # "read")
      kept  == Yield(seen, op.value, seen.holds[place])
  IN  IF op.access = "consume" THEN Clear(kept, {place}, "moved") ELSE kept
RunBorrow(m, op) ==
  LET new == NewRef(m, Target(m, op.place), Via(m, op.place), op.kind)
  IN  Yield(new.m, op.value, new.ids)
RunAssign(m, op) ==
  Overwrite(m, Target(m, op.place), Via(m, op.place), m.value[op.value])
HeldBehind(m, ids) == UNION {m.holds[m.refs[i].target] : i \in ids}
RunStore(m, op) ==
  LET i == The(m.value[op.destination])
  IN  Overwrite(m, m.refs[i].target, i, m.value[op.value])

\* The callee uses the globals it names and every reference it is given, may
\* store through those it may store through, and returns one of those it may
\* return, read before or after its stores.
UseAll(m, ids) ==
  FoldSet(LAMBDA i, a : Touch(a, a.refs[i].target, i,
                              a.refs[i].kind = "exclusive"), m, ids)
Brought(m, call, origins) ==
  UNION {LET ids == m.value[call.arguments[q[2]]]
         IN  IF Deref \in ToSet(q[3]) THEN HeldBehind(m, ids) ELSE ids :
           q \in {q \in origins : IsParameter(q)}}
RunCall(m, call, o) ==
  LET globals == FoldSet(LAMBDA e, a : Touch(a, e[1], NoRef, e[2]), m,
                         call.effects)
      used == UseAll(globals, UNION {m.value[v] : v \in ToSet(call.arguments)})
      store(a, e) ==
        LET i == The(m.value[call.arguments[e.destination[2]]])
            ids == Pick(Brought(used, call, e.sources), o)
        IN  IF o.arm = 1 \/ ids = {} THEN a
            ELSE Overwrite(a, a.refs[i].target, i, ids)
      stored == FoldLeft(store, used, call.referenceEffects)
      origins == {c[2] : c \in call.summary}
      ids == Brought(used, call, origins) \cup Brought(stored, call, origins)
      fixed == NewRef(stored, StaticPlace, NoRef, "shared")
  IN  CASE call.resultLoan = NoValue -> Yield(stored, call.result, {})
        [] Static \in origins /\ (ids = {} \/ o.rounds = 0) ->
             Yield(fixed.m, call.result, fixed.ids)
        [] OTHER -> Yield(stored, call.result, Pick(ids, o))

Execute(fn, m, op, o) ==
  CASE op.op \in {"declare", "parameter"} ->
         Clear(m, {op.binding}, IF op.op = "declare" /\ ~op.initialized
                                THEN "uninitialized" ELSE "live")
    [] op.op = "access" -> RunAccess(m, op)
    [] op.op = "borrow" -> RunBorrow(m, op)
    [] op.op = "bind" -> Fill(m, op.binding, m.value[op.value])
    [] op.op = "assign" -> RunAssign(m, op)
    [] op.op = "store" -> RunStore(m, op)
    [] op.op = "value" ->
         Yield(m, op.value, UNION {m.value[s[1]] : s \in op.sources})
    [] op.op = "contents" -> Yield(m, op.value, HeldBehind(m, m.value[op.of]))
    [] op.op \in {"project", "view"} -> Yield(m, op.value, m.value[op.source])
    [] op.op = "call" -> RunCall(m, op, o)
    [] op.op = "end scope" -> EndOfScope(fn, m, op.scope)
    [] op.op \in {"return", "end loan"} -> m

-----------------------------------------------------------------------------
(* Code: what the analysis makes of it, and one execution.                 *)

RECURSIVE Analyse(_, _, _), Settle(_, _, _), Run(_, _, _, _)
Round(fn, start, body) == Analyse(fn, Restart(start), body)
\* What holds at the head of a loop whatever the number of iterations.
Settle(fn, head, body) ==
  LET wider == JoinState(head, Round(fn, head, body))
  IN  IF wider = head THEN head ELSE Settle(fn, wider, body)
Analyse(fn, start, code) ==
  FoldLeft(LAMBDA a, op :
    CASE op.op = "arms" ->
           LET after == [k \in DOMAIN op.arms |-> Analyse(fn, a, op.arms[k])]
           IN  FoldLeft(Merge, Head(after), Tail(after))
      [] op.op = "loop" ->
           \* The errors are those of one more round from the solved state.
           LET head == Settle(fn, a, op.body)
               last == Round(fn, head, op.body)
           IN  [head EXCEPT !.errors = @ \cup last.errors,
                            !.stores = @ \cup last.stores]
      [] OTHER -> Transfer(fn, a, op), start, code)
Run(fn, start, code, o) ==
  FoldLeft(LAMBDA m, op :
    CASE op.op = "arms" -> Run(fn, m, op.arms[IF o.arm <= Len(op.arms)
                                              THEN o.arm ELSE 1], o)
      [] op.op = "loop" -> FoldLeft(LAMBDA n, k : Run(fn, n, op.body, o), m,
                                    [k \in 1..o.rounds |-> k])
      [] OTHER -> Execute(fn, m, op, o), start, code)

-----------------------------------------------------------------------------
(* The function.                                                           *)

NotInIf == [phase |-> "none", depth |-> 0, dead |-> FALSE]
Executing == branch.phase # "shadow"
FnOf(scopes) ==
  [scope |-> scopes,
   parent |-> [s \in Scope |-> IF s = 0 THEN Outside ELSE s - 1]]
TempsOf == {Temp(s) : s \in Scope}
\* A statement is elaborated for the scope it stands in and for a number
\* that makes the names of its loans unique: the smallest that is free.
Base == Min(1..(Cardinality(DOMAIN an.loans) + 1) \ {l[1] : l \in DOMAIN an.loans})
CodeOf(s) == s.code[depth][Base]

HeldAtFirst(p) == IF p \in DOMAIN menu.held THEN menu.held[p] ELSE {}
Init ==
  /\ menu \in Menu
  /\ scopeOf = [b \in Binding |->
                  IF b \in TempsOf THEN b[2]
                  ELSE IF b \in Globals THEN 0
                  ELSE IF b \in ToSet(menu.formals) THEN 1 ELSE Outside]
  /\ depth = 1
  /\ an = Analyse(FnOf(scopeOf),
            FoldSet(LAMBDA g, a : Declare(a, g, TRUE), Start, Globals),
            menu.entry)
  /\ mem = [status |-> [p \in Place |->
                IF p \in Binding \ (Globals \cup ToSet(menu.formals))
                THEN "out" ELSE "live"],
            holds |-> [p \in Place |-> HeldAtFirst(p)],
            refs |-> menu.refs, value |-> <<>>, fault |-> FALSE]
  /\ branch = NotInIf /\ mode = "running" /\ result = {} /\ steps = 0

Ready(s) ==
  /\ \A b \in s.needs : scopeOf[b] # Outside
  /\ \A d \in s.declares : scopeOf[d[1]] = Outside
ScopesWith(s) ==
  [b \in Binding |-> IF \E d \in s.declares : d[1] = b
                     THEN depth + (CHOOSE d \in s.declares : d[1] = b)[2]
                     ELSE scopeOf[b]]
\* Bindings of scopes that ended are gone, and so are intermediate values.
Leaving(scopes, level) ==
  [b \in Binding |-> IF b \notin TempsOf /\ scopes[b] # Outside
                        /\ scopes[b] > level
                     THEN Outside ELSE scopes[b]]
Forget(a) == [a EXCEPT !.values = <<>>]

Step(s) ==
  /\ Ready(s) /\ ~s.returns
  /\ LET fn == FnOf(ScopesWith(s)) IN
     \E next \in {Analyse(fn, an, CodeOf(s))} :
         /\ next.errors = {}
         /\ an' = Forget(next)
         /\ scopeOf' = Leaving(fn.scope, depth)
         /\ IF Executing
            THEN \E o \in Oracle : mem' = Collect(Run(fn, mem, CodeOf(s), o), {})
            ELSE mem' = mem
  /\ UNCHANGED <<menu, depth, branch, mode, result>>

ReturnFrom(s) ==
  /\ Ready(s) /\ s.returns
  /\ LET fn == FnOf(scopeOf) IN
     \E next \in {Analyse(fn, an, CodeOf(s))} :
         /\ next.errors = {}
         /\ an' = Forget(next)
         /\ IF Executing
            THEN /\ \E o \in Oracle :
                      LET m == Run(fn, mem, CodeOf(s), o)
                      IN  /\ result' = m.value[CodeOf(s)[Len(CodeOf(s))].value]
                          /\ mem' = Collect(m, result')
                 /\ mode' = "returned" /\ UNCHANGED branch
            ELSE /\ branch' = [branch EXCEPT !.dead = TRUE]
                 /\ UNCHANGED <<mem, mode, result>>
  /\ UNCHANGED <<menu, scopeOf, depth>>

BeginBlock ==
  /\ depth < MaxDepth
  /\ depth' = depth + 1
  /\ UNCHANGED <<menu, an, scopeOf, mem, branch, mode, result>>
EndBlock ==
  /\ depth > 1 /\ depth # branch.depth
  /\ an' = EndScope(FnOf(scopeOf), an, depth)
  /\ mem' = IF Executing THEN Collect(EndOfScope(FnOf(scopeOf), mem, depth), {})
            ELSE mem
  /\ scopeOf' = Leaving(scopeOf, depth - 1)
  /\ depth' = depth - 1
  /\ UNCHANGED <<menu, branch, mode, result>>

BeginIf ==
  /\ branch = NotInIf /\ depth < MaxDepth
  /\ branch' = [phase |-> "shadow", before |-> an, depth |-> depth + 1,
                dead |-> FALSE]
  /\ depth' = depth + 1
  /\ UNCHANGED <<menu, an, scopeOf, mem, mode, result>>
\* Back to the test, and down the branch that is executed.
OtherBranch ==
  /\ branch.phase = "shadow" /\ depth = branch.depth
  /\ branch' = [phase |-> "taken", depth |-> depth, dead |-> branch.dead,
                other |-> EndScope(FnOf(scopeOf), an, depth)]
  /\ an' = branch.before
  /\ scopeOf' = Leaving(scopeOf, depth - 1)
  /\ UNCHANGED <<menu, depth, mem, mode, result>>
\* The branches meet, in the order in which the worklist reaches them.
EndIf ==
  /\ branch.phase = "taken" /\ depth = branch.depth
  /\ LET taken == EndScope(FnOf(scopeOf), an, depth)
         other == branch.other
     IN  IF branch.dead
         THEN an' = [taken EXCEPT
                       !.stores = @ \cup other.stores,
                       !.returned = JoinProvenance(@, other.returned)]
         ELSE an' \in {Merge(taken, other), Merge(other, taken)}
  /\ mem' = Collect(EndOfScope(FnOf(scopeOf), mem, depth), {})
  /\ scopeOf' = Leaving(scopeOf, depth - 1)
  /\ depth' = depth - 1 /\ branch' = NotInIf
  /\ UNCHANGED <<menu, mode, result>>

Next ==
  /\ mode = "running" /\ steps < MaxSteps
  /\ steps' = steps + 1
  /\ \/ /\ branch.phase = "shadow" => ~branch.dead
        /\ \E s \in Repertoire[menu.name] : Step(s) \/ ReturnFrom(s)
     \/ menu.blocks /\ (BeginBlock \/ EndBlock)
     \/ menu.branches /\ (BeginIf \/ OtherBranch \/ EndIf)
Spec == Init /\ [][Next]_vars

-----------------------------------------------------------------------------
(* Properties.                                                             *)

\* Whether a binding holds a value is among the alternatives the analysis
\* keeps for it (ownership_ir.rs:291-325, 509-530): after a conditional move,
\* a loop or a reinitialisation, "live" is a promise, and the error message
\* "was moved" is only given when that is certain.
InitializationKnown ==
  Executing /\ mode = "running" =>
    \A b \in Binding \ TempsOf : scopeOf[b] # Outside =>
      mem.status[b] \in an.initialized[b]

\* No statement of an accepted function uses an invalid reference, reads or
\* moves out of a place without a value (transfer, ownership_ir.rs:753-1209).
NoInvalidUse == ~mem.fault

\* Between statements every reference that a place still holds is valid, and
\* its target holds a value: loans last as long as the reference is stored
\* (extend_loans, ownership_ir.rs:568-574; escapes, 575-603).
HeldReferencesValid ==
  \A p \in Place : mem.status[p] = "live" =>
    \A i \in mem.holds[p] : mem.refs[i].valid

Names(o, place) ==
  CASE IsLocal(o) -> o[2] = place
    [] IsParameter(o) -> place \in External /\ Overlap(o, OriginOf[place])
    [] o = Static -> place = StaticPlace \/ place \in Globals
    [] OTHER -> TRUE
\* The provenance of a binding covers every reference it really holds, and
\* one of the loans it carries protects the target, exclusively if the
\* reference is exclusive, while the binding is in scope.
ProvenanceCovers ==
  Executing /\ mode = "running" =>
    \A b \in Binding : mem.status[b] = "live" =>
      \A i \in mem.holds[b] :
        LET p == an.bindings[b]  r == mem.refs[i]
        IN  /\ \E o \in Origins(p) : Names(o, r.target)
            /\ r.target # StaticPlace =>
                 \E l \in p.loans \cap DOMAIN an.loans :
                   /\ \E o \in an.loans[l].origins : Names(o, r.target)
                   /\ r.kind = "exclusive" => an.loans[l].kind = "exclusive"

\* What the function returns points to no place of its own, and the summary
\* built from it names the place (Return, ownership_ir.rs:1134-1167): itself,
\* or what the summary names holds it, at the call or by a reported store.
Stores == {<<d[1], d[2]>> : d \in an.stores}
Holding(o) ==
  {d[1] : d \in {d \in Stores : d[2] = o}}
  \cup {a \in {OriginOf[e] : e \in External} : o = Extend(a, <<Deref>>)}
Covers(origins, o) ==
  o \in origins \/ \E a \in Holding(o) : {a, Extend(a, <<Deref>>)} \cap origins # {}
SummaryCovers ==
  \A i \in result :
    LET t == mem.refs[i].target
    IN  /\ t \in External \cup {StaticPlace} \cup Globals
        /\ Covers(Origins(an.returned), IF t \in External THEN OriginOf[t] ELSE Static)

\* A reference that the function left in a place of the caller's is among the
\* stores reported to the caller (store_reference, ownership_ir.rs:604-676),
\* and points to nothing of the function's.
StoresReported ==
  mode = "returned" =>
    \A p \in External : \A i \in mem.holds[p] \ HeldAtFirst(p) :
      LET t == mem.refs[i].target
      IN  /\ t \notin Binding \ Globals
          /\ LET o == IF t \in External THEN OriginOf[t] ELSE Static
             IN  \E d \in Stores : /\ IsParameter(d[1])
                                   /\ Overlap(d[1], OriginOf[p]) /\ d[2] = o
=============================================================================
