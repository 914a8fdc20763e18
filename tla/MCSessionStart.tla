--------------------------- MODULE MCSessionStart ---------------------------
(***************************************************************************)
(* Instances of SessionStart for TLC.                                      *)
(***************************************************************************)
EXTENDS SessionStart, TLC

CONSTANTS n1, n2, d1, d2, r1, r2
=============================================================================
