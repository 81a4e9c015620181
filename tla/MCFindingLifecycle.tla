------------------------ MODULE MCFindingLifecycle ------------------------
(***************************************************************************)
(* FindingLifecycle on small instances: all findings are of one product    *)
(* and one CVE, so that a second row takes the place of one that went.     *)
(***************************************************************************)
EXTENDS FindingLifecycle

CONSTANTS p1, c1

MCProduct == {p1}
MCCve == {c1}
MCProductOf == [f \in Finding |-> p1]
MCCveOf == [f \in Finding |-> c1]
=============================================================================
