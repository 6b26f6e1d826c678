------------------------------ MODULE MCRouting ------------------------------
(* Model-checking instances of Routing: the Discord bridge with one channel.  *)
EXTENDS Routing, TLC

CONSTANT guild

MCServes == [l \in Links |-> {guild}]

AuthorSymmetry == Permutations(Authors)
=============================================================================
