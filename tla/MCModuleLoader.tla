--------------------------- MODULE MCModuleLoader ---------------------------
(* Three files: a root with up to two imports, and two modules that may    *)
(* import each other, the root and themselves.                             *)
EXTENDS ModuleLoader
CONSTANTS main, left, right, x, y, print

forged == <<"module", 1, x>>
stray == <<"hidden", 1, y>>

Decl(a, e, R) == [kind |-> "declaration", name |-> a, exported |-> e, refs |-> R]
Use(q, ns) == [kind |-> "using", from |-> q, names |-> ns]
MCName == {x, y, print, forged, stray}
MCReserved == {forged, stray}
MCPrelude == {print}

RootUses == {Use(q, <<x>>) : q \in Path}
            \cup {Use(left, <<y>>), Use(left, <<x, y>>), Use(Missing, <<x>>)}
RootLast == {Decl(x, TRUE, {x, y}), Decl(y, FALSE, {x, y}), Decl(print, FALSE, {x, print}),
             Decl(forged, FALSE, {x}), Decl(stray, FALSE, {x, y})}
RootFiles == {<<Use(left, <<x>>), d>> : d \in RootLast}
             \cup {<<u, v, Decl(print, TRUE, {x, y, print})>> : u, v \in RootUses}
             \cup {<<Decl(y, TRUE, {x}), u, Decl(print, FALSE, {x, y})>> : u \in RootUses}

Imported == {Use(q, <<x>>) : q \in Path} \cup {Use(right, <<y>>)}
LastDecl == {Decl(x, TRUE, {x, y}), Decl(y, FALSE, {x, y, print})}
Files == {<<d>> : d \in LastDecl} \cup {<<Decl(x, TRUE, {print}), Decl(print, FALSE, {x})>>}
         \cup {<<u, d>> : u \in Imported, d \in LastDecl}
         \cup {<<Decl(x, TRUE, {y}), u, Decl(y, TRUE, {print})>> : u \in Imported}
MCWorlds ==
  {[p \in Path |-> IF p = main THEN a ELSE IF p = left THEN b ELSE c] :
     a \in RootFiles, b \in Files, c \in Files \cup {Unreadable}}
=============================================================================
