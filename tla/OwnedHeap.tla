----------------------------- MODULE OwnedHeap -----------------------------
(***************************************************************************)
(* What managed memory promises, without counts, destructors or buffers:   *)
(* places hold objects, an object lives from the moment it is made until   *)
(* no place holds it any more and it holds nothing itself, and a place is  *)
(* never left holding an object that is gone.                              *)
(*                                                                         *)
(* A place is a root (a variable or a value in transit) or a part of an    *)
(* object.                                                                 *)
(***************************************************************************)
EXTENDS FiniteSets

CONSTANTS
    Object,   \* the objects there can be at one time
    Root,     \* the places outside objects
    Part,     \* the parts of an object
    Nothing   \* what an empty place holds

Place == Root \cup (Object \X Part)

\* What every use of the module provides.
Finite ==
    /\ Nothing \notin Object
    /\ IsFiniteSet(Place)

VARIABLES
    live,     \* the objects that live
    holds     \* what each place holds
vars == <<live, holds>>

Holders(o) == {p \in Place : holds[p] = o}
Owned(o)   == Cardinality(Holders(o))
SameOwners(S) == \A o \in S : Owned(o)' = Owned(o)

Init ==
    /\ live = {}
    /\ holds = [p \in Place |-> Nothing]

\* A new object takes over what some places held; one place holds it.
Make(o) ==
    /\ o \notin live
    /\ live' = live \cup {o}
    /\ holds' \in [Place -> Object \cup {Nothing}]
    /\ Owned(o)' = 1
    /\ SameOwners(Object \ {o})

\* Values change places; none is lost and none is held once more.
Move ==
    /\ holds' \in [Place -> Object \cup {Nothing}]
    /\ SameOwners(Object)
    /\ UNCHANGED live

\* An object that lives is held by one more place.
Share(p, o) ==
    /\ o \in live
    /\ holds[p] = Nothing
    /\ holds' = [holds EXCEPT ![p] = o]
    /\ UNCHANGED live

Forget(p) ==
    /\ holds[p] # Nothing
    /\ holds' = [holds EXCEPT ![p] = Nothing]
    /\ UNCHANGED live

Reclaim(o) ==
    /\ o \in live
    /\ Owned(o) = 0
    /\ \A i \in Part : holds[<<o, i>>] = Nothing
    /\ live' = live \ {o}
    /\ UNCHANGED holds

Next ==
    \/ Move
    \/ \E o \in Object : Make(o) \/ Reclaim(o)
    \/ \E p \in Place : Forget(p) \/ \E o \in Object : Share(p, o)

Spec == Init /\ [][Next]_vars

\* No place is left with an object that is gone.
NothingDangles == \A p \in Place : holds[p] \in live \cup {Nothing}
=============================================================================
