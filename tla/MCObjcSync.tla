----------------------------- MODULE MCObjcSync -----------------------------
(* Instances of ObjcSync for TLC. *)
EXTENDS ObjcSync, TLC

\* Every object hashes to the same list.
OneStripe == [o \in Objects |-> CHOOSE s \in Stripes : TRUE]

Symmetry == Permutations(Threads) \cup Permutations(Data)
=============================================================================
