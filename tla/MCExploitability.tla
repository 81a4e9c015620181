-------------------------- MODULE MCExploitability --------------------------
(***************************************************************************)
(* Exploitability on a small instance: two CVEs, a page of one.          *)
(***************************************************************************)
EXTENDS Exploitability
=============================================================================
