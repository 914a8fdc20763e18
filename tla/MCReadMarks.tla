---------------------------- MODULE MCReadMarks ----------------------------
(***************************************************************************)
(* Instances of ReadMarks for TLC.                                         *)
(***************************************************************************)
EXTENDS ReadMarks

CONSTANTS s1, s2
=============================================================================
