---------------------------- MODULE MCArcRuntime ----------------------------
(***************************************************************************)
(* Instances of ArcRuntime: every way in which a few variables, objects    *)
(* and buffers can be made, shared, moved in and out of a Vec and dropped. *)
(***************************************************************************)
EXTENDS ArcRuntime, TLC

\* Addresses and variables are interchangeable.
Symmetry == Permutations(Obj) \cup Permutations(Buffer) \cup Permutations(Var)
=============================================================================
