-------------------------- MODULE OwnedHeap_proofs --------------------------
(***************************************************************************)
(* In managed memory no place is ever left with an object that is gone.    *)
(* The steps say how many places own an object, so the argument is about   *)
(* counts: an object held by a place has an owner, and one with an owner   *)
(* is held by a place.                                                     *)
(***************************************************************************)
EXTENDS OwnedHeap, FiniteSetTheorems, TLAPS

TypeOK ==
    /\ live \subseteq Object
    /\ holds \in [Place -> Object \cup {Nothing}]
IInv == TypeOK /\ NothingDangles

\* An object has an owner exactly when some place holds it.
LEMMA OwnedIsHeld ==
    ASSUME Finite, NEW o \in Object
    PROVE  /\ Owned(o) = 0 <=> \A p \in Place : holds[p] # o
           /\ Owned(o) \in Nat
<1>1. IsFiniteSet(Holders(o))
  BY FS_Subset DEF Holders, Finite
<1>2. Owned(o) = 0 <=> Holders(o) = {}
  BY <1>1, FS_EmptySet DEF Owned
<1>3. Owned(o) \in Nat
  BY <1>1, FS_CardinalityType DEF Owned
<1> QED  BY <1>2, <1>3 DEF Holders

\* The same of the state after a step.
LEMMA OwnedIsHeldNext ==
    ASSUME Finite, NEW o \in Object
    PROVE  Owned(o)' = 0 <=> \A p \in Place : holds'[p] # o
<1> DEFINE H == {p \in Place : holds'[p] = o}
<1>1. IsFiniteSet(H)
  BY FS_Subset DEF Finite
<1>2. Owned(o)' = Cardinality(H)
  BY DEF Owned, Holders
<1>3. Owned(o)' = 0 <=> H = {}
  BY <1>1, <1>2, FS_EmptySet
<1> QED  BY <1>3

\* An object with as many owners as before is held only if it was held, and so
\* lives.
LEMMA SameOwnersLive ==
    ASSUME Finite, IInv, NEW o \in Object, Owned(o)' = Owned(o), NEW p \in Place, holds'[p] = o
    PROVE  o \in live
<1>1. Owned(o)' # 0
  BY OwnedIsHeldNext
<1>2. PICK q \in Place : holds[q] = o
  BY <1>1, OwnedIsHeld
<1>3. o # Nothing
  BY DEF Finite
<1> QED  BY <1>2, <1>3 DEF IInv, NothingDangles

LEMMA StartSound == ASSUME Finite PROVE Init => IInv
BY DEF Finite, Init, IInv, TypeOK, NothingDangles

LEMMA MakeSound == ASSUME Finite, IInv, NEW o \in Object, Make(o) PROVE IInv'
<1>1. TypeOK'
  BY DEF IInv, TypeOK, Make
<1>2. ASSUME NEW p \in Place, holds'[p] # Nothing PROVE holds'[p] \in live'
  <2>1. PICK q \in Object : holds'[p] = q
    BY <1>1, <1>2 DEF TypeOK
  <2>2. CASE q = o
    BY <2>1, <2>2 DEF Make
  <2>3. CASE q # o
    <3>1. Owned(q)' = Owned(q)
      BY <2>3 DEF Make, SameOwners
    <3>2. q \in live
      BY <2>1, <3>1, SameOwnersLive
    <3> QED  BY <2>1, <3>2 DEF Make
  <2> QED  BY <2>2, <2>3
<1> QED  BY <1>1, <1>2 DEF IInv, NothingDangles

LEMMA MoveSound == ASSUME Finite, IInv, Move PROVE IInv'
<1>1. TypeOK'
  BY DEF IInv, TypeOK, Move
<1>2. ASSUME NEW p \in Place, holds'[p] # Nothing PROVE holds'[p] \in live'
  <2>1. PICK q \in Object : holds'[p] = q
    BY <1>1, <1>2 DEF TypeOK
  <2>2. Owned(q)' = Owned(q)
    BY DEF Move, SameOwners
  <2>3. q \in live
    BY <2>1, <2>2, SameOwnersLive
  <2> QED  BY <2>1, <2>3 DEF Move
<1> QED  BY <1>1, <1>2 DEF IInv, NothingDangles

LEMMA ReclaimSound == ASSUME Finite, IInv, NEW o \in Object, Reclaim(o) PROVE IInv'
<1>1. \A p \in Place : holds[p] # o
  BY OwnedIsHeld DEF Reclaim
<1> QED  BY <1>1 DEF Reclaim, IInv, TypeOK, NothingDangles

LEMMA StepSound == ASSUME Finite PROVE IInv /\ [Next]_vars => IInv'
<1> SUFFICES ASSUME IInv, [Next]_vars PROVE IInv'
  OBVIOUS
<1>1. CASE Move
  BY <1>1, MoveSound
<1>2. ASSUME NEW o \in Object, Make(o) PROVE IInv'
  BY <1>2, MakeSound
<1>3. ASSUME NEW o \in Object, Reclaim(o) PROVE IInv'
  BY <1>3, ReclaimSound
<1>4. ASSUME NEW p \in Place, Forget(p) PROVE IInv'
  BY <1>4 DEF Forget, IInv, TypeOK, NothingDangles
<1>5. ASSUME NEW p \in Place, NEW o \in Object, Share(p, o) PROVE IInv'
  BY <1>5 DEF Share, IInv, TypeOK, NothingDangles
<1>6. CASE UNCHANGED vars
  BY <1>6 DEF vars, IInv, TypeOK, NothingDangles
<1> QED  BY <1>1, <1>2, <1>3, <1>4, <1>5, <1>6 DEF Next

\* Whatever implements managed memory leaves no place with an object that is
\* gone; the counts and destructors of backend.rs and Vec do (Implements).
THEOREM NothingEverDangles == ASSUME Finite PROVE Spec => []NothingDangles
<1>1. Init => IInv
  BY StartSound
<1>2. IInv /\ [Next]_vars => IInv'
  BY StepSound
<1>3. IInv => NothingDangles
  BY DEF IInv
<1> QED  BY <1>1, <1>2, <1>3, PTL DEF Spec
=============================================================================
