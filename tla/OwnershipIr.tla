---------------------------- MODULE OwnershipIr ----------------------------
(***************************************************************************)
(* The source ownership analysis of FishyC (src/src/ownership_ir.rs): what *)
(* it knows at a program point, how each ownership operation changes it    *)
(* and which errors the operation reports.                                 *)
(*                                                                         *)
(* A reference is described by its PROVENANCE: for each component of the   *)
(* value the set of places it may point to, and the loans it carries.  A   *)
(* loan keeps its origins borrowed until the last of its scopes ends.      *)
(* Every operation X is an operator from an analysis to an analysis; the   *)
(* errors, the stores through parameters and the returned provenance are   *)
(* collected in fields of their own, which the solving pass ignores.       *)
(***************************************************************************)
EXTENDS Integers, FiniteSets, FiniteSetsExt, Sequences, SequencesExt

CONSTANTS
  Binding,    \* the bindings of one function
  Scope,      \* its lexical scopes
  Mutable,    \* the bindings declared mutable
  Globals,    \* the bindings of the module
  MaxPath,    \* longest projection path that is tracked (8 in the code)
  Outside,    \* the parent of the outermost scope
  NoValue     \* a place that is not reached through a reference

ASSUME BoundAssumption ==
  /\ MaxPath \in Nat /\ Outside \notin Scope

-----------------------------------------------------------------------------
(* Projections, origins and provenance.                                    *)

Deref == <<"deref">>
Field(i) == <<"field", i>>
AnyIndex == <<"any index">>

Static == <<"static">>
Unknown == <<"unknown">>
Local(root, path) == <<"local", root, path>>
Parameter(i, path) == <<"parameter", i, path>>
IsLocal(o) == o[1] = "local"
IsParameter(o) == o[1] = "parameter"
Extend(o, path) == <<o[1], o[2], o[3] \o path>>

\* A provenance is a set of pairs <<path, origin>> and a set of loans.
Nothing == [components |-> {}, loans |-> {}]
Whole(origins, loans) ==
  [components |-> {<<>>} \X origins, loans |-> loans]
Origins(p) == {c[2] : c \in p.components}

\* A path that grows too long, or an unknown origin, makes all unknown.
TooDeep(c) ==
  \/ Len(c[1]) > MaxPath
  \/ c[2] = Unknown
  \/ (IsLocal(c[2]) \/ IsParameter(c[2])) /\ Len(c[2][3]) > MaxPath
Normalize(p) ==
  IF \E c \in p.components : TooDeep(c)
  THEN [p EXCEPT !.components = {<< <<>>, Unknown >>}] ELSE p

JoinProvenance(p, q) ==
  Normalize([components |-> p.components \cup q.components,
             loans |-> p.loans \cup q.loans])
JoinAll(ps) ==
  Normalize([components |-> UNION {p.components : p \in ps},
             loans |-> UNION {p.loans : p \in ps}])

\* The component a projection selects; what is known of the whole value is
\* known of every component.
Selects(step, projection) ==
  \/ step = projection
  \/ step = AnyIndex /\ projection[1] = "index"
  \/ step[1] = "index" /\ projection = AnyIndex
Project(p, projection) ==
  IF Unknown \in Origins(p) THEN p
  ELSE Normalize([p EXCEPT !.components =
         {<<Tail(c[1]), c[2]>> : c \in {d \in p.components :
            d[1] # <<>> /\ Selects(Head(d[1]), projection)}}
         \cup {c \in p.components : c[1] = <<>>}])
ProjectAll(p, path) == FoldLeft(Project, p, path)
At(p, path) ==
  Normalize([p EXCEPT !.components = {<<path \o c[1], c[2]>> : c \in @}])

\* A temporary that the builder declares in a scope.
Temp(scope) == <<"temp", scope>>

-----------------------------------------------------------------------------
(* The state of the analysis.  `fn` is what is fixed of the function: the  *)
(* scope of each binding and the parent of each scope.                     *)

Start == [initialized |-> [b \in Binding |-> {"uninitialized"}],
          bindings    |-> [b \in Binding |-> Nothing],
          values      |-> <<>>,
          loans       |-> <<>>,
          errors      |-> {},
          stores      |-> {},
          returned    |-> Nothing]
Restart(an) == [initialized |-> an.initialized,
                bindings    |-> an.bindings,
                values      |-> an.values,
                loans       |-> an.loans,
                errors      |-> {},
                stores      |-> {},
                returned    |-> Nothing]

Put(map, key, x) ==
  [k \in DOMAIN map \cup {key} |-> IF k = key THEN x ELSE map[k]]
Get(map, key) == IF key \in DOMAIN map THEN map[key] ELSE Nothing
Without(map, keys) == [k \in DOMAIN map \ keys |-> map[k]]

JoinLoan(l, m) == [origins |-> l.origins \cup m.origins,
                   kind    |-> l.kind,
                   scopes  |-> l.scopes \cup m.scopes,
                   parents |-> l.parents \cup m.parents]
\* Variant: the path that arrived first decides what is initialised.
JoinStateFirst(an, other) ==
  [an EXCEPT
     !.bindings = [b \in Binding |->
                     JoinProvenance(@[b], other.bindings[b])],
     !.values = [v \in DOMAIN @ \cup DOMAIN other.values |->
                   IF v \in DOMAIN @ THEN @[v] ELSE other.values[v]]]
\* Where paths meet: alternatives add up, a loan lives while either path
\* keeps it; its kind is that of the state that was there first.
JoinState(an, other) ==
  [initialized |-> [b \in Binding |-> an.initialized[b] \cup other.initialized[b]],
   bindings    |-> [b \in Binding |-> JoinProvenance(an.bindings[b], other.bindings[b])],
   values      |-> [v \in DOMAIN an.values \cup DOMAIN other.values |->
                      JoinProvenance(Get(an.values, v), Get(other.values, v))],
   loans       |-> [l \in DOMAIN an.loans \cup DOMAIN other.loans |->
                      IF l \notin DOMAIN an.loans THEN other.loans[l]
                      ELSE IF l \notin DOMAIN other.loans THEN an.loans[l]
                      ELSE JoinLoan(an.loans[l], other.loans[l])],
   errors      |-> an.errors,
   stores      |-> an.stores,
   returned    |-> an.returned]

\* What is reported is reported for every path.
Merge(an, other) ==
  [JoinState(an, other) EXCEPT
     !.errors = an.errors \cup other.errors,
     !.stores = an.stores \cup other.stores,
     !.returned = JoinProvenance(an.returned, other.returned)]

Error(an, message, culprit) ==
  [an EXCEPT !.errors = @ \cup {<<message, culprit>>}]
ErrorIf(condition, an, message, culprit) ==
  IF condition THEN Error(an, message, culprit) ELSE an

-----------------------------------------------------------------------------
(* Questions asked of a place.  A place is [root, path, writable, through, *)
(* raw]; `through` is the reference value by which it is reached.          *)

PlaceOrigins(fn, place, an) ==
  IF place.through \in DOMAIN an.values
  THEN Origins(an.values[place.through])
  ELSE {IF place.root \in Globals THEN Static
        ELSE Local(place.root, place.path)}

Stored(an, root, path) == ProjectAll(an.bindings[root], path)
AfterDeref(path) ==
  LET first == {k \in DOMAIN path : path[k] = Deref}
  IN  IF first = {} THEN <<>>
      ELSE SubSeq(path, 1 + CHOOSE k \in first : \A j \in first : k <= j,
                  Len(path))
\* What is stored in the place: through a reference, what its targets hold.
PlaceProvenance(fn, place, an) ==
  IF place.through \in DOMAIN an.values
  THEN LET rest    == AfterDeref(place.path)
           targets == Origins(an.values[place.through])
           locals  == {o \in targets : IsLocal(o)}
           stored  == JoinAll({Stored(an, o[2], o[3] \o rest) : o \in locals})
       IN  [stored EXCEPT !.components =
              @ \cup ({<<>>} \X (targets \ locals))]
  ELSE Stored(an, place.root, place.path)

\* The message names what is certain: MOVED alone is "was moved".
LiveMessage(alternatives) ==
  IF alternatives = {"moved"} THEN "was moved"
  ELSE IF alternatives = {"uninitialized"} THEN "is not initialized"
  ELSE IF "moved" \in alternatives THEN "may have been moved"
  ELSE "may be uninitialized"
CheckLive(an, root) ==
  ErrorIf(an.initialized[root] # {"live"}, an,
          LiveMessage(an.initialized[root]), root)

Overlap(a, b) ==
  \/ IsLocal(a) /\ IsLocal(b) /\ a[2] = b[2]
  \/ IsParameter(a) /\ IsParameter(b) /\ a[2] = b[2]
  \/ a = Static /\ b = Static
\* Loans and all loans they were derived from.
WithParents(an, loans) ==
  LET up[n \in 0..Cardinality(DOMAIN an.loans)] ==
        IF n = 0 THEN loans
        ELSE up[n-1] \cup
             UNION {an.loans[l].parents : l \in up[n-1] \cap DOMAIN an.loans}
  IN  up[Cardinality(DOMAIN an.loans)]
\* Variant: only exclusive loans are in the way.
ConflictsOfExclusive(fn, place, kind, an) ==
  \E l \in DOMAIN an.loans \ WithParents(an, Get(an.values, place.through).loans) :
    /\ an.loans[l].kind = "exclusive"
    /\ \E a \in PlaceOrigins(fn, place, an), b \in an.loans[l].origins : Overlap(a, b)
Conflicts(fn, place, kind, an) ==
  LET origins   == PlaceOrigins(fn, place, an)
      permitted == WithParents(an, Get(an.values, place.through).loans)
  IN  \E l \in DOMAIN an.loans \ permitted :
        /\ "exclusive" \in {kind, an.loans[l].kind}
        /\ \E a \in origins, b \in an.loans[l].origins : Overlap(a, b)

\* Scopes that enclose a scope, itself included.
Enclosing(fn, scope) ==
  LET up[n \in 0..Cardinality(Scope)] ==
        IF n = 0 THEN {scope} \ {Outside}
        ELSE up[n-1] \cup ({fn.parent[s] : s \in up[n-1]} \ {Outside})
  IN  up[Cardinality(Scope)]
\* Bindings that would not outlive a reference kept in the scope.
Escapes(fn, p, scope, an) ==
  {o[2] : o \in {o \in Origins(p) :
     /\ IsLocal(o)
     /\ \/ fn.scope[o[2]] \notin Enclosing(fn, scope)
        \/ an.initialized[o[2]] # {"live"}}}
CheckEscape(fn, p, scope, an, message) ==
  ErrorIf(Escapes(fn, p, scope, an) # {}, an, message, NoValue)
CheckKnown(p, an) == ErrorIf(Unknown \in Origins(p), an, "unprovable", NoValue)

\* Variant: a stored reference is only protected where it was made.
ExtendNothing(p, scopes, an) == an
ExtendLoans(p, scopes, an) ==
  [an EXCEPT !.loans = [l \in DOMAIN @ |->
     IF l \in p.loans THEN [@[l] EXCEPT !.scopes = @ \cup scopes] ELSE @[l]]]

\* A reference is stored through another one, whose target is one of the
\* destinations.
OuterScope(fn) == CHOOSE s \in Scope : fn.parent[s] = Outside
StoreErrors(fn, source, an, destination) ==
  LET escapes(scope) == IF Escapes(fn, source, scope, an) # {} THEN {"escapes"} ELSE {}
  IN  (IF destination \in Origins(source) THEN {"own storage"} ELSE {})
      \cup CASE IsLocal(destination) -> escapes(fn.scope[destination[2]])
             [] IsParameter(destination) -> escapes(Outside)
             [] destination = Static ->
                  IF Origins(source) \subseteq {Static} THEN {} ELSE {"not static"}
             [] OTHER -> {"unprovable"}
\* Variants: the target of the store does not learn of the reference; the
\* caller does not.
StoreUnseen(fn, destinations, source, an) ==
  ExtendLoans(source, {fn.scope[d[2]] : d \in {d \in destinations : IsLocal(d)}}, an)
StoreUnreported(fn, destinations, source, an) == an
StoreReference(fn, destinations, source, an) ==
  LET locals     == {d \in destinations : IsLocal(d)}
      parameters == {d \in destinations : IsParameter(d)}
      scopes     == {fn.scope[d[2]] : d \in locals} \cup {OuterScope(fn) : d \in parameters}
      outlives   == {o \in Origins(source) : ~IsLocal(o)}
      errors     == UNION {StoreErrors(fn, source, an, d) : d \in destinations}
  IN  [ExtendLoans(source, scopes, an) EXCEPT
         !.bindings = [b \in Binding |-> IF \E d \in locals : d[2] = b
                                         THEN JoinProvenance(@[b], source) ELSE @[b]],
         !.stores = @ \cup (parameters \X outlives),
         !.errors = @ \cup (errors \X {NoValue})]

\* What the targets of a reference contain.
\* Variant: what a parameter refers to is taken to be unknown but harmless.
ContentsOfLocals(p, an) ==
  JoinAll({Stored(an, o[2], o[3]) : o \in {o \in Origins(p) : IsLocal(o)}})
Contents(p, an) ==
  LET locals == {o \in Origins(p) : IsLocal(o)}
      inner  == {IF IsParameter(o) THEN Extend(o, <<Deref>>) ELSE o :
                   o \in Origins(p) \ locals}
  IN  JoinAll({Stored(an, o[2], o[3]) : o \in locals} \cup {Whole(inner, {})})

\* A path of a summary, followed from an argument; one that leads to no
\* reference stays with the whole argument.
WholeOf(p) == Whole(Origins(p), p.loans)
FollowedTo(original, reached, path) ==
  IF reached.components = {} /\ path # <<>> /\ Deref \notin ToSet(path)
  THEN original ELSE reached
Follow(original, path, an) ==
  FollowedTo(original,
             FoldLeft(LAMBDA p, step : IF step = Deref THEN Contents(p, an)
                                       ELSE Project(p, step), original, path),
             path)
\* An origin of a summary in terms of the arguments of a call.
Substitute(origin, arguments, an) ==
  IF ~IsParameter(origin) THEN Whole({origin}, {})
  ELSE IF /\ origin[2] \in DOMAIN arguments
          /\ arguments[origin[2]] \in DOMAIN an.values
  THEN WholeOf(Follow(an.values[arguments[origin[2]]], origin[3], an))
  ELSE Whole({Unknown}, {})

-----------------------------------------------------------------------------
(* The operations.                                                         *)

Reject(an, message) == Error(an, message, NoValue)

Declare(an, binding, initialized) ==
  [an EXCEPT !.initialized[binding] =
                 {IF initialized THEN "live" ELSE "uninitialized"},
             !.bindings[binding] = Nothing]

\* A formal parameter that carries references owns a loan for each component.
OpenLoan(origins, kind, scopes, parents) ==
  [origins |-> origins, kind |-> kind, scopes |-> scopes, parents |-> parents]
OpenParameter(an, op) ==
  LET loan(c) == <<0, c[2][2], c[1]>>
      lent == {loan(c) : c \in op.origins}
  IN  [an EXCEPT
         !.bindings[op.binding] = [components |-> op.origins, loans |-> lent],
         !.loans = [l \in DOMAIN @ \cup lent |-> IF l \notin lent THEN @[l]
                      ELSE OpenLoan({c[2] : c \in {d \in op.origins : loan(d) = l}},
                                    op.kind, {op.scope}, {})]]

\* Some other loan was derived from an exclusive one that the binding holds.
Reborrowed(an, root, access) ==
  LET capability == an.bindings[root].loans
  IN  \E l \in DOMAIN an.loans \ capability :
        /\ access # "read" \/ an.loans[l].kind = "exclusive"
        /\ \E p \in an.loans[l].parents \cap capability \cap DOMAIN an.loans :
             an.loans[p].kind = "exclusive"
AccessKind(access) == IF access = "read" THEN "shared" ELSE "exclusive"
Access(fn, an, place, access, value) ==
  LET root == place.root
      e1 == CheckLive(an, root)
      e2 == ErrorIf(Reborrowed(an, root, access), e1, "reborrowed", root)
      e3 == ErrorIf(Conflicts(fn, place, AccessKind(access), an), e2,
                    IF access = "consume" THEN "moved while borrowed"
                    ELSE "accessed while borrowed", root)
      e4 == ErrorIf(access = "consume" /\ root \in Globals, e3,
                    "move out of global", root)
      e5 == ErrorIf(access = "consume" /\ place.path # <<>>, e4,
                    "move out of field", root)
      e6 == ErrorIf(access = "write" /\ ~place.writable, e5, "immutable", root)
  IN  [e6 EXCEPT
         !.values = Put(@, value, PlaceProvenance(fn, place, an)),
         !.initialized[root] = IF access = "consume" /\ place.path = <<>>
                               THEN {"moved"} ELSE @]

Borrow(fn, an, place, kind, value, scope) ==
  LET root == place.root
      e1 == ErrorIf(place.raw, an, "raw storage", root)
      e2 == CheckLive(e1, root)
      e3 == ErrorIf(kind = "exclusive" /\ ~place.writable, e2, "immutable", root)
      e4 == ErrorIf(Conflicts(fn, place, kind, an), e3,
                    "borrowed while borrowed", root)
      origins == PlaceOrigins(fn, place, an)
      parents == Get(an.values, place.through).loans
  IN  [e4 EXCEPT
         !.loans = Put(@, value, OpenLoan(origins, kind, {scope}, parents)),
         !.values = Put(@, value, Whole(origins, {value}))]

\* The builder only binds to initialise.
Bind(fn, an, binding, value) ==
  LET p  == Get(an.values, value)
      e2 == CheckKnown(p, an)
      e3 == CheckEscape(fn, p, fn.scope[binding], e2, "escapes")
  IN  [ExtendLoans(p, {fn.scope[binding]}, e3) EXCEPT
         !.bindings[binding] = p, !.initialized[binding] = {"live"}]

Assign(fn, an, place, value) ==
  LET root == place.root
      p  == Get(an.values, value)
      e1 == ErrorIf(~place.writable, an, "immutable", root)
      e2 == ErrorIf(Conflicts(fn, place, "exclusive", an), e1,
                    "replaced while borrowed", root)
      e3 == IF place.through # NoValue /\ p.components # {}
            THEN StoreReference(fn, PlaceOrigins(fn, place, an), p, e2) ELSE e2
      e4 == CheckEscape(fn, p, fn.scope[root], e3, "escapes")
      e5 == ExtendLoans(p, {fn.scope[root]}, e4)
  IN  IF place.path = <<>>
      THEN [e5 EXCEPT !.bindings[root] = p, !.initialized[root] = {"live"}]
      ELSE [e5 EXCEPT !.bindings[root] = JoinProvenance(@, At(p, place.path))]

\* The value of a compound expression; sources are pairs <<id, path>>.
Value(an, value, sources) ==
  [an EXCEPT !.values = Put(@, value,
     JoinAll({At(an.values[s[1]], s[2]) :
                s \in {t \in sources : t[1] \in DOMAIN an.values}}))]
ContentsOf(an, value, reference) ==
  [an EXCEPT !.values = Put(@, value, Contents(Get(an.values, reference), an))]
ProjectValue(an, value, source, projection) ==
  [an EXCEPT !.values = Put(@, value, Project(Get(@, source), projection))]
View(an, value, source) ==
  [an EXCEPT !.values = Put(@, value, WholeOf(Get(@, source)))]

-----------------------------------------------------------------------------
(* A call: what the callee may touch, what it returns, what it stores.     *)

WholePlace(root) ==
  [root |-> root, path |-> <<>>, writable |-> root \in Mutable,
   through |-> NoValue, raw |-> FALSE]
\* effects: pairs <<global, whether it is written>>.
TouchGlobal(fn, an, effect) ==
  LET kind == IF effect[2] THEN "exclusive" ELSE "shared"
  IN  ErrorIf(Conflicts(fn, WholePlace(effect[1]), kind, an),
              CheckLive(an, effect[1]), "call touches borrowed", effect[1])
TouchGlobals(fn, an, effects) ==
  [an EXCEPT !.errors = @ \cup UNION {TouchGlobal(fn, an, e).errors : e \in effects}]

\* One stored reference of the callee: a loan of its sources is opened, or
\* extended when an earlier effect of the call already opened it.
EffectKind(kind, origins) ==
  IF /\ kind = "exclusive" /\ Static \in origins
     /\ Globals \cap Mutable = {}
  THEN "shared" ELSE kind
EffectLoan(call, an, source) ==
  IF call.effectLoan \in DOMAIN an.loans
  THEN JoinLoan(an.loans[call.effectLoan],
                OpenLoan(Origins(source), "", {}, source.loans))
  ELSE OpenLoan(Origins(source), EffectKind(call.effectKind, Origins(source)),
                {}, source.loans)
LendSource(fn, call, target, source, an) ==
  IF Origins(source) = {} THEN StoreReference(fn, target, source, an)
  ELSE StoreReference(fn, target,
         [source EXCEPT !.loans = @ \cup {call.effectLoan}],
         [an EXCEPT !.loans = Put(@, call.effectLoan, EffectLoan(call, an, source))])
ApplyEffect(fn, call, an, effect) ==
  LendSource(fn, call, Origins(Substitute(effect.destination, call.arguments, an)),
             JoinAll({Substitute(o, call.arguments, an) : o \in effect.sources}), an)
ApplyEffects(fn, call, an) ==
  LET effects == call.referenceEffects
      after[n \in 0..Len(effects)] ==
        IF n = 0 THEN an
        ELSE CHOOSE a \in {ApplyEffect(fn, call, b, effects[n]) : b \in {after[n-1]}} : TRUE
  IN  after[Len(effects)]

\* What the callee returns, in terms of the arguments; when it contains
\* references, the call lends them to the scope around it.
Returned(call, an) ==
  JoinAll({At(Substitute(c[2], call.arguments, an), c[1]) : c \in call.summary})
Lend(fn, call, an, result) ==
  LET loan == OpenLoan(Origins(result), call.resultLoan, {call.scope}, result.loans)
  IN  [ExtendLoans(result, {call.scope}, an) EXCEPT
         !.loans = Put(@, call.result, loan),
         !.values = Put(@, call.result, [result EXCEPT !.loans = @ \cup {call.result}])]
Yielded(fn, call, an, result) ==
  IF call.resultLoan # NoValue /\ result.components # {}
  THEN Lend(fn, call, an, result)
  ELSE [ExtendLoans(result, {call.scope}, an) EXCEPT
          !.values = Put(@, call.result, result)]
Call(fn, an, call) ==
  LET touched == TouchGlobals(fn, an, call.effects)
  IN  Yielded(fn, call, ApplyEffects(fn, call, touched), Returned(call, touched))

Return(fn, an, value) ==
  LET p  == Get(an.values, value)
      e1 == CheckKnown(p, an)
      e2 == CheckEscape(fn, p, Outside, e1, "returned local")
  IN  IF value = NoValue THEN an
      ELSE [e2 EXCEPT !.returned = JoinProvenance(@, p)]

EndScope(fn, an, scope) ==
  LET rest(l) == an.loans[l].scopes \ {scope}
      ending  == {b \in Binding : fn.scope[b] = scope}
  IN  [an EXCEPT
         !.loans = [l \in {k \in DOMAIN @ : rest(k) # {}} |->
                      [@[l] EXCEPT !.scopes = rest(l)]],
         !.initialized = [b \in Binding |->
              IF b \in ending THEN {"uninitialized"} ELSE @[b]],
         !.bindings = [b \in Binding |->
              IF b \in ending THEN Nothing ELSE @[b]]]
EndLoan(an, loan) == [an EXCEPT !.loans = Without(@, {loan})]

\* A reference stored in raw storage is one more thing its targets hold.
StoreRaw(fn, an, op) ==
  StoreReference(fn, Origins(Get(an.values, op.destination)),
                 Get(an.values, op.value), an)

Kinds == {"reject", "declare", "parameter", "access", "borrow", "bind", "assign", "store",
          "value", "contents", "project", "view", "call", "return", "end scope", "end loan"}
Transfer(fn, an, op) ==
  CASE op.op = "reject" -> Reject(an, op.message)
    [] op.op = "declare" -> Declare(an, op.binding, op.initialized)
    [] op.op = "parameter" -> OpenParameter(an, op)
    [] op.op = "access" -> Access(fn, an, op.place, op.access, op.value)
    [] op.op = "borrow" -> Borrow(fn, an, op.place, op.kind, op.value, op.scope)
    [] op.op = "bind" -> Bind(fn, an, op.binding, op.value)
    [] op.op = "assign" -> Assign(fn, an, op.place, op.value)
    [] op.op = "store" -> StoreRaw(fn, an, op)
    [] op.op = "value" -> Value(an, op.value, op.sources)
    [] op.op = "contents" -> ContentsOf(an, op.value, op.of)
    [] op.op = "project" -> ProjectValue(an, op.value, op.source, op.step)
    [] op.op = "view" -> View(an, op.value, op.source)
    [] op.op = "call" -> Call(fn, an, op)
    [] op.op = "return" -> Return(fn, an, op.value)
    [] op.op = "end scope" -> EndScope(fn, an, op.scope)
    [] op.op = "end loan" -> EndLoan(an, op.loan)
=============================================================================
