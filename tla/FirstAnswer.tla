---------------------------- MODULE FirstAnswer ----------------------------
(***************************************************************************)
(* What the relays of permission requests and of questions promise.        *)
(*                                                                         *)
(* A request that the daemon has recorded is decided at most once, by the  *)
(* first answer that arrives, and what the asker hears of it through the   *)
(* relay is that decision, once.  Nothing promises that it is heard: who   *)
(* asked may be gone.  PermissionRelay and AskRelay implement this.        *)
(***************************************************************************)
EXTENDS Integers

CONSTANTS
    Requests,
    Decisions,
    Undecided   \* what stands for no decision

VARIABLES
    recorded,   \* the requests the daemon keeps a record of
    decision,   \* request -> its decision, or Undecided
    heard       \* request -> what its asker was told of it, or Undecided

vars == <<recorded, decision, heard>>

Init ==
    /\ recorded = {}
    /\ decision = [r \in Requests |-> Undecided]
    /\ heard = [r \in Requests |-> Undecided]

Record(r) ==
    /\ recorded' = recorded \cup {r}
    /\ UNCHANGED <<decision, heard>>

\* The first answer wins.
Decide(r, d) ==
    /\ r \in recorded
    /\ decision[r] = Undecided
    /\ decision' = [decision EXCEPT ![r] = d]
    /\ UNCHANGED <<recorded, heard>>

Hear(r) ==
    /\ decision[r] # Undecided
    /\ heard[r] = Undecided
    /\ heard' = [heard EXCEPT ![r] = decision[r]]
    /\ UNCHANGED <<recorded, decision>>

Next == \E r \in Requests :
    \/ Record(r)
    \/ \E d \in Decisions : Decide(r, d)
    \/ Hear(r)

Spec == Init /\ [][Next]_vars
=============================================================================
