---------------------------- MODULE MCDaemonList ----------------------------
(***************************************************************************)
(* Instances of DaemonList for TLC.                                        *)
(***************************************************************************)
EXTENDS DaemonList, TLC

CONSTANTS d1, d2, unnamed, den
=============================================================================
