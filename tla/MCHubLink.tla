----------------------------- MODULE MCHubLink -----------------------------
(***************************************************************************)
(* Instances of HubLink for TLC.  The limits of a run are named for what   *)
(* the run lets happen.                                                    *)
(***************************************************************************)
EXTENDS HubLink

CONSTANTS s1, p1

\* Each fault once; a session that comes and may come again.
Faults == [e \in Events |-> IF e = "register" THEN 2 ELSE 1]
=============================================================================
