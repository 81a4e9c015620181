-------------------------- MODULE MCCirclFallback --------------------------
(***************************************************************************)
(* CirclFallback on a small instance for TLC.                              *)
(***************************************************************************)
EXTENDS CirclFallback, TLC

CONSTANTS c1, c2, g

MCPages == <<{g}, {c1, c2}>>
Symmetry == Permutations(Query) \cup Permutations(Product)
=============================================================================
