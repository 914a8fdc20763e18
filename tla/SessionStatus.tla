--------------------------- MODULE SessionStatus ---------------------------
(***************************************************************************)
(* What the daemon promises about the status badge of a session.           *)
(*                                                                         *)
(* A session has a last observed activity (idle or working) and a number   *)
(* of permission requests nobody has answered.  The status shown to the    *)
(* PWAs is a function of the two: "waiting" while a request is unanswered, *)
(* the activity otherwise.  SessionFsm, the machine of session-fsm.ts,     *)
(* implements this without ever computing that function.                   *)
(***************************************************************************)
EXTENDS Integers

CONSTANT Sessions

VARIABLES
    live,      \* the sessions with a status
    activity,  \* what the last line, or the idle timer, said of each session
    pending,   \* how many permission requests of each session are unanswered
    shown      \* the status last published for each session

vars == <<live, activity, pending, shown>>

Status(a, n) == IF n > 0 THEN "waiting" ELSE a

\* The session s gets activity a and n pending requests, and its status is
\* published.
Becomes(s, a, n) ==
    /\ activity' = [activity EXCEPT ![s] = a]
    /\ pending' = [pending EXCEPT ![s] = n]
    /\ shown' = [shown EXCEPT ![s] = Status(a, n)]

Init ==
    /\ live = {}
    /\ activity = [s \in Sessions |-> "idle"]
    /\ pending = [s \in Sessions |-> 0]
    /\ shown = [s \in Sessions |-> "idle"]

\* A session appears, or an already known one is announced once more.
Open(s) ==
    /\ live' = live \cup {s}
    /\ Becomes(s, IF s \in live THEN activity[s] ELSE "idle",
                  IF s \in live THEN pending[s] ELSE 0)

Close(s) ==
    /\ live' = live \ {s}
    /\ Becomes(s, "idle", 0)

Observe(s, a) ==
    /\ s \in live
    /\ Becomes(s, a, pending[s])
    /\ UNCHANGED live

\* A request of an unknown session makes the session known.
Ask(s) ==
    /\ live' = live \cup {s}
    /\ Becomes(s, activity[s], pending[s] + 1)

\* An answer that matches no pending request changes nothing.
Answer(s) ==
    /\ s \in live
    /\ Becomes(s, activity[s], IF pending[s] > 0 THEN pending[s] - 1 ELSE 0)
    /\ UNCHANGED live

Next == \E s \in Sessions :
    \/ Open(s)
    \/ Close(s)
    \/ Observe(s, "working")
    \/ Observe(s, "idle")
    \/ Ask(s)
    \/ Answer(s)

Spec == Init /\ [][Next]_vars
=============================================================================
