---------------------------- MODULE MCEvolution ----------------------------
(* Model-checking instance of Evolution.                                      *)
EXTENDS Evolution

CONSTANTS a, b

MCTexts == {a, b}
MCFit   == {a, b}
=============================================================================
