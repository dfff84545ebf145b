---------------------------- MODULE ModuleLoader ----------------------------
(***************************************************************************)
(* The module loader of FishyC (src/src/module_loader.rs): it reads the    *)
(* modules that a program imports, gives every declaration a symbol of its *)
(* own, binds the imported names, and flattens all the statements into one *)
(* compilation unit, in which a module stands where it is first imported.  *)
(*                                                                         *)
(* resolve_unit and load_module call each other; the model keeps their     *)
(* frames on an explicit stack.  A file is a sequence of statements, and a *)
(* statement is an import or a declaration, of which only the name, the    *)
(* visibility and the names it refers to matter.  The files do not change  *)
(* while they are read.                                                    *)
(***************************************************************************)
EXTENDS Naturals, FiniteSets, Sequences, SequencesExt

CONSTANTS
  Path, Root,
  Name,
  Reserved,      \* the names that start with __fishy_
  Prelude,       \* public names of the standard library
  Worlds,        \* possible contents of the file system
  Missing,       \* an import path that does not exist
  Unreadable,    \* the contents of a file that cannot be read
  None,
  MaxDepth       \* bound on nested imports, above the number of files

Declaration == [kind : {"declaration"}, name : Name, exported : BOOLEAN,
                refs : SUBSET Name]
Using == [kind : {"using"}, from : Path \cup {Missing}, names : Seq(Name)]
Stmt == Declaration \cup Using

\* The names the compiler makes start with __fishy_ too.
Generated == {"module", "hidden"} \X Nat \X Name
Symbols == Name \cup Generated

ASSUME LoaderAssumption ==
  /\ Root \in Path /\ Missing \notin Path
  /\ Reserved \subseteq Name /\ Prelude \subseteq Name \ Reserved
  /\ Name \cap Generated \subseteq Reserved
  /\ \A N \in SUBSET Name : None \notin [N -> [symbol : Symbols, exported : BOOLEAN]]
  /\ MaxDepth \in Nat /\ MaxDepth > Cardinality(Path)
  /\ \A w \in Worlds : /\ w \in [Path -> Seq(Stmt) \cup {Unreadable}]
                       /\ w[Root] # Unreadable

VARIABLES
  world,
  declarations,  \* per module its published names, None before
  loading,       \* the modules being resolved
  emitted,       \* the modules that were asked for
  next_module,
  errors,
  stack,         \* frames of resolve_unit, the current one last
  output         \* the flattened program, None until resolve_root returns
vars == <<world, declarations, loading, emitted, next_module, errors, stack, output>>

-----------------------------------------------------------------------------
Text(p) == world[p]
Declared(p) == {k \in DOMAIN Text(p) : Text(p)[k].kind = "declaration"}
Imports(p) == {k \in DOMAIN Text(p) : Text(p)[k].kind = "using"}
Names(p) == {Text(p)[k].name : k \in Declared(p)}
Exports(p) ==
  {n \in Names(p) : \E k \in Declared(p) : Text(p)[k].name = n /\ Text(p)[k].exported}

\* Modules mangle their names with their number; the root, number 0, does not.
SymbolOf(id, n) == IF id = 0 THEN n ELSE <<"module", id, n>>
Hidden(id, n) == <<"hidden", id, n>>

Own(p, id) == [n \in Names(p) |-> [symbol |-> SymbolOf(id, n), exported |-> n \in Exports(p)]]
\* Variant: every name may be declared.
NoComplaint(p) == {}
ReservedNames(p) ==
  {[what |-> "reserved", path |-> p, at |-> k, name |-> Text(p)[k].name] :
     k \in {k \in Declared(p) : Text(p)[k].name \in Reserved}}

\* What resolve_unit starts with, before it looks at the first import.
Frame(p, id) ==
  [path |-> p, id |-> id, at |-> 1,
   bindings |-> [n \in Names(p) |-> SymbolOf(id, n)],
   pending |-> [k \in Imports(p) |-> <<>>]]
\* Variant: the declarations are published when the module is complete.
PublishLate(p, id) == declarations
Publish(p, id) == [declarations EXCEPT ![p] = Own(p, id)]

Init ==
  /\ world \in Worlds
  /\ declarations = [p \in Path |-> IF p = Root THEN Own(p, 0) ELSE None]
  /\ loading = {Root} /\ emitted = {Root}
  /\ next_module = 1
  /\ errors = ReservedNames(Root)
  /\ stack = <<Frame(Root, 0)>>
  /\ output = None

Top == stack[Len(stack)]
Stmts == Text(Top.path)
AtUsing(f) == f.at \in Imports(f.path)

-----------------------------------------------------------------------------
(* Binding the names of one import, once its module was dealt with.        *)

\* The k-th name of the import is exported, and taken by nothing before it.
Free(f, u, k) ==
  LET n == u.names[k] IN
    /\ n \notin DOMAIN f.bindings
    /\ \A j \in 1..k - 1 : u.names[j] # n
Bindable(f, u) ==
  {k \in DOMAIN u.names : /\ u.names[k] \in DOMAIN declarations[u.from]
                          /\ declarations[u.from][u.names[k]].exported
                          /\ Free(f, u, k)}
Complaints(f, u) ==
  {[what |-> IF u.names[k] \notin DOMAIN declarations[u.from] THEN "undeclared"
             ELSE IF ~declarations[u.from][u.names[k]].exported THEN "private"
             ELSE "conflict",
    path |-> f.path, at |-> f.at, name |-> u.names[k]] :
     k \in DOMAIN u.names \ Bindable(f, u)}

\* The frame after its import at f.at brought the statements contents.
Bound(f, contents) ==
  LET u == Text(f.path)[f.at]
      g == [f EXCEPT !.at = @ + 1, !.pending[f.at] = contents]
  IN  IF declarations[u.from] = None THEN g
      ELSE [g EXCEPT !.bindings =
              [n \in DOMAIN @ \cup {u.names[k] : k \in Bindable(f, u)} |->
                 IF n \in DOMAIN @ THEN @[n] ELSE declarations[u.from][n].symbol]]
Reports(f) ==
  LET u == Text(f.path)[f.at]
  IN  IF declarations[u.from] = None THEN {} ELSE Complaints(f, u)
Return(contents) ==
  /\ stack' = [stack EXCEPT ![Len(stack)] = Bound(@, contents)]
  /\ errors' = errors \cup Reports(Top)

-----------------------------------------------------------------------------
(* The loop over the statements, and load_module.                          *)

Step(f) == [f EXCEPT !.at = @ + 1]
ReportAt(what, f) == [what |-> what, path |-> f.path, at |-> f.at, name |-> None]

Declare ==
  /\ stack # <<>> /\ Top.at \in Declared(Top.path)
  /\ stack' = [stack EXCEPT ![Len(stack)] = Step(@)]
  /\ UNCHANGED <<world, declarations, loading, emitted, next_module, errors, output>>

NotFound ==
  /\ stack # <<>> /\ AtUsing(Top) /\ Stmts[Top.at].from = Missing
  /\ errors' = errors \cup {ReportAt("not found", Top)}
  /\ stack' = [stack EXCEPT ![Len(stack)] = Step(@)]
  /\ UNCHANGED <<world, declarations, loading, emitted, next_module, output>>

Importing(p) == stack # <<>> /\ AtUsing(Top) /\ Stmts[Top.at].from = p /\ p \in Path
\* Variants: a module is skipped only while it is being loaded, or never.
KnownWhileLoading(p) == p \in loading
KnownNever(p) == FALSE
\* A circular import (with a warning) or one that was met before.
Known(p) == p \in loading \/ p \in emitted

Skip ==
  /\ \E p \in Path : Importing(p) /\ Known(p)
  /\ Return(<<>>)
  /\ UNCHANGED <<world, declarations, loading, emitted, next_module, output>>

FailToRead ==
  \E p \in Path :
    /\ Importing(p) /\ ~Known(p) /\ Text(p) = Unreadable
    /\ emitted' = emitted \cup {p}
    /\ errors' = errors \cup {ReportAt("unreadable", Top)} \cup Reports(Top)
    /\ stack' = [stack EXCEPT ![Len(stack)] = Bound(@, <<>>)]
    /\ UNCHANGED <<world, declarations, loading, next_module, output>>

Descend ==
  \E p \in Path :
    /\ Importing(p) /\ ~Known(p) /\ Text(p) # Unreadable
    /\ Len(stack) < MaxDepth
    /\ emitted' = emitted \cup {p} /\ loading' = loading \cup {p}
    /\ declarations' = Publish(p, next_module)
    /\ next_module' = next_module + 1
    /\ errors' = errors \cup ReservedNames(p)
    /\ stack' = Append(stack, Frame(p, next_module))
    /\ UNCHANGED <<world, output>>

-----------------------------------------------------------------------------
(* The end of a unit: its references are resolved, its imports spliced in. *)

\* Variant: the prelude hides the module's own names.
GlobalPreludeFirst(f, n) ==
  IF n \in Prelude THEN n
  ELSE IF n \in DOMAIN f.bindings THEN f.bindings[n] ELSE Hidden(f.id, n)
Global(f, n) ==
  IF n \in DOMAIN f.bindings THEN f.bindings[n]
  ELSE IF n \in Prelude THEN n ELSE Hidden(f.id, n)
Entry(f, k) ==
  [path |-> f.path, at |-> k, symbol |-> Global(f, Text(f.path)[k].name),
   refs |-> [n \in Text(f.path)[k].refs |-> Global(f, n)]]
\* Variant: the imported contents follow the importing module.
AssembleAfter(f) ==
  FlattenSeq([k \in DOMAIN Text(f.path) |->
                IF k \in Imports(f.path) THEN <<>> ELSE <<Entry(f, k)>>]
             \o [k \in DOMAIN Text(f.path) |->
                   IF k \in Imports(f.path) THEN f.pending[k] ELSE <<>>])
Assemble(f) ==
  FlattenSeq([k \in DOMAIN Text(f.path) |->
                IF k \in Imports(f.path) THEN f.pending[k] ELSE <<Entry(f, k)>>])

\* Variant: a finished module stays marked.
StillLoading(p) == loading
Loaded(p) == loading \ {p}

AtEnd == stack # <<>> /\ Top.at > Len(Stmts)
FinishModule ==
  /\ AtEnd /\ Len(stack) > 1
  /\ LET f == stack[Len(stack) - 1] IN
       /\ stack' = Append(SubSeq(stack, 1, Len(stack) - 2), Bound(f, Assemble(Top)))
       /\ errors' = errors \cup Reports(f)
  /\ loading' = Loaded(Top.path)
  /\ UNCHANGED <<world, declarations, emitted, next_module, output>>
FinishRoot ==
  /\ AtEnd /\ Len(stack) = 1
  /\ output' = Assemble(Top) /\ stack' = <<>>
  /\ loading' = Loaded(Top.path)
  /\ UNCHANGED <<world, declarations, emitted, next_module, errors>>

Next == Declare \/ NotFound \/ Skip \/ FailToRead \/ Descend \/ FinishModule \/ FinishRoot
Spec == Init /\ [][Next]_vars
\* One thread runs the two functions to their end.
FairSpec == Spec /\ WF_vars(Next)

-----------------------------------------------------------------------------
(* Properties.                                                             *)

\* The types of the state: the published names and the emitted statements have
\* symbols, every frame is numbered and stands in its file or at its end.
TypeOK ==
  /\ loading \subseteq Path /\ emitted \subseteq Path
  /\ \A p \in Path :
       declarations[p] # None =>
         \A n \in DOMAIN declarations[p] :
           n \in Name /\ declarations[p][n].symbol \in Symbols
  /\ next_module \in Nat
  /\ \A k \in DOMAIN stack :
       /\ stack[k].path \in Path /\ stack[k].id < next_module
       /\ stack[k].at \in 1..Len(Text(stack[k].path)) + 1
  /\ output = None \/ \A k \in DOMAIN output : output[k].symbol \in Symbols

\* The recursion is as deep as the number of modules at most: no module is
\* resolved twice at the same time, and loading says which ones are.
LoadingIsStack ==
  /\ loading = {stack[k].path : k \in DOMAIN stack}
  /\ \A j, k \in DOMAIN stack : stack[j].path = stack[k].path => j = k
  /\ \A k \in DOMAIN stack : k < Len(stack) =>
       AtUsing(stack[k]) /\ Text(stack[k].path)[stack[k].at].from = stack[k + 1].path

Done == output # None
Clean == Done /\ errors = {}
Read == {p \in emitted : Text(p) # Unreadable}

\* Every declaration of every module that was read is compiled exactly once,
\* private ones included, and the declarations of a module keep their order.
EmittedOnce ==
  Done =>
    \A p \in Read : \A k \in Declared(p) :
      /\ \E i \in DOMAIN output : output[i].path = p /\ output[i].at = k
      /\ \A i, j \in DOMAIN output :
           output[i].path = p /\ output[j].path = p /\ output[i].at <= output[j].at => i <= j

\* Without an error every reference means what the text of its module says:
\* an own declaration, an exported one of an imported module, a public name
\* of the prelude, and nothing otherwise, also through circular imports.
Meaning(p, n) ==
  {declarations[p][n].symbol : m \in Names(p) \cap {n}}
  \cup {declarations[Text(p)[k].from][n].symbol :
          k \in {k \in Imports(p) : n \in ToSet(Text(p)[k].names)}}
References ==
  Clean =>
    /\ \A p \in Read : \A k \in Imports(p) :
         LET u == Text(p)[k] IN u.from \in Read /\ ToSet(u.names) \subseteq Exports(u.from)
    /\ \A i \in DOMAIN output : \A n \in DOMAIN output[i].refs :
         LET p == output[i].path
             s == output[i].refs[n]
         IN  IF Meaning(p, n) # {} THEN Meaning(p, n) = {s}
             ELSE IF n \in Prelude THEN s = n
             ELSE s \notin {output[j].symbol : j \in DOMAIN output}

\* Without an error no two modules declare the same symbol.
UniqueSymbols ==
  Clean =>
    \A i, j \in DOMAIN output :
      output[i].symbol = output[j].symbol =>
        output[i].path = output[j].path

\* What a module imports is initialized before the statements that follow the
\* import, unless the two import each other.
Follow(S) == S \cup {q \in Path : \E p \in S : Text(p) # Unreadable /\
                       \E k \in Imports(p) : Text(p)[k].from = q}
Reach(p) == {q \in Path : \A S \in SUBSET Path : p \in S /\ Follow(S) \subseteq S => q \in S}
DependenciesFirst ==
  Done =>
    \A p \in Read : \A k \in Imports(p) :
      LET q == Text(p)[k].from IN
        q # Missing /\ q \in Read /\ p \notin Reach(q) =>
          \A i, j \in DOMAIN output :
            output[i].path = q /\ output[j].path = p /\ output[j].at > k => i < j

\* The loader comes to an end, circular imports or not.
LoaderEnds == <>Done
=============================================================================
