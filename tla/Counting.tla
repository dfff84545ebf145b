------------------------------ MODULE Counting ------------------------------
(* How often a value occurs in a function: the number of ways that lead to *)
(* an object when the function says what is stored where.                  *)
EXTENDS FiniteSets

Ways(places, o) == Cardinality({x \in DOMAIN places : places[x] = o})
=============================================================================
