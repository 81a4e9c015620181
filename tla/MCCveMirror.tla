---------------------------- MODULE MCCveMirror ----------------------------
(***************************************************************************)
(* CveMirror on small instances.                                           *)
(***************************************************************************)
EXTENDS CveMirror
=============================================================================
