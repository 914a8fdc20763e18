--------------------------- MODULE MCPwaCommands ----------------------------
(***************************************************************************)
(* Instances of PwaCommands for TLC.                                       *)
(***************************************************************************)
EXTENDS PwaCommands, TLC

CONSTANTS s1, r1, c1, c2
=============================================================================
