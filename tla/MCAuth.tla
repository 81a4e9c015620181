------------------------------- MODULE MCAuth -------------------------------
(***************************************************************************)
(* Auth on a small instance for TLC.                                       *)
(***************************************************************************)
EXTENDS Auth, TLC

MCRole == {"admin", "analyst"}
MCAllowed == {{"analyst"}, {"admin"}}
Symmetry == Permutations(Request)
=============================================================================
