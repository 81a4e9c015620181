-------------------------- MODULE MCLeaderElection --------------------------
(***************************************************************************)
(* LeaderElection on small instances.                                      *)
(***************************************************************************)
EXTENDS LeaderElection
=============================================================================
