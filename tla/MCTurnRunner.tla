----------------------------- MODULE MCTurnRunner -----------------------------
(* Model-checking instance of TurnRunner: a live turn that may speak, a live  *)
(* turn long enough for its failure streaks, and an agent's turn.             *)
EXTENDS TurnRunner, TLC

MCPolicies == {[live |-> TRUE,  passes |-> 2, sentences |-> 2],
               [live |-> TRUE,  passes |-> 3, sentences |-> 0],
               [live |-> FALSE, passes |-> 3, sentences |-> 0]}

ToolSymmetry == Permutations(Tools \ {Report})
=============================================================================
