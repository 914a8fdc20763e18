------------------------- MODULE MCPermissionRelay -------------------------
(***************************************************************************)
(* Instances of PermissionRelay for TLC: everything may happen, once.      *)
(***************************************************************************)
EXTENDS PermissionRelay, TLC

CONSTANTS s1, r1, r2, p1, p2

OneOwner == r1 :> s1

Once == [e \in Events |-> 1]
=============================================================================
