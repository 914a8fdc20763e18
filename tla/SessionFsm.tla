----------------------------- MODULE SessionFsm -----------------------------
(***************************************************************************)
(* The session state machine of the daemon (packages/daemon/src/           *)
(* session-fsm.ts) with the two listeners index.ts installs on it.         *)
(*                                                                         *)
(* `entries' is the Map of the class: a session has a record in it from    *)
(* `register' to `remove'.  `shown' is what the listener of onTransition   *)
(* made of the transitions (the cached snapshot and the session_state      *)
(* frames), `run' what a reader of the AG-UI stream has been told by       *)
(* RUN_STARTED and RUN_FINISHED.                                           *)
(***************************************************************************)
EXTENDS Integers

CONSTANTS
    Sessions,
    MaxPending    \* bound: requests of one session pending at a time

ASSUME MaxPendingAssumption == MaxPending \in Nat

VARIABLES
    entries,   \* session_id -> {state, pendingCount, prevBeforeWaiting}
    shown,     \* session_id -> state of the last session_open/session_state
    run        \* session_id -> "none", "open" or "closed" AG-UI run

vars == <<entries, shown, run>>

SessionState == {"idle", "working", "waiting"}

Entry == [state : SessionState, pendingCount : Nat,
          prevBeforeWaiting : SessionState]

NewEntry == [state |-> "idle", pendingCount |-> 0, prevBeforeWaiting |-> "idle"]

Registered == DOMAIN entries

Init ==
    /\ entries = [s \in {} |-> NewEntry]
    /\ shown = [s \in Sessions |-> "idle"]
    /\ run = [s \in Sessions |-> "none"]

-----------------------------------------------------------------------------

\* The Map entry of s becomes e.
SetEntry(s, e) ==
    entries' = [t \in Registered \cup {s} |-> IF t = s THEN e ELSE entries[t]]

\* What the run listener is told when a session goes from prev to next.
RunAfter(r, prev, next) ==
    IF prev = "idle" /\ next = "working" THEN "open"
    ELSE IF prev = "working" /\ next = "idle" THEN "closed"
    ELSE r

\* transition(): e is the entry of s with its counters already updated.  The
\* listeners hear of it unless the state stays the same.
Transition(s, e, next) ==
    /\ SetEntry(s, [e EXCEPT !.state = next])
    /\ shown' = [shown EXCEPT ![s] = IF e.state = next THEN @ ELSE next]
    /\ run' = [run EXCEPT ![s] = RunAfter(@, e.state, next)]

\* A handler that only touches the entry of s.
Quietly(s, e) == SetEntry(s, e) /\ UNCHANGED <<shown, run>>

-----------------------------------------------------------------------------

\* register(): a no-op for a known session.  The session_open that goes with
\* it carries the state the plugin registered with, which is "idle".
Register(s) ==
    \/ /\ s \notin Registered
       /\ SetEntry(s, NewEntry)
       /\ shown' = [shown EXCEPT ![s] = "idle"]
       /\ run' = [run EXCEPT ![s] = "none"]
    \/ /\ s \in Registered
       /\ UNCHANGED vars

\* remove(): the caller sends session_close; with it nothing is shown and no
\* run is followed any more.
RemoveSession(s) ==
    /\ s \in Registered
    /\ entries' = [t \in Registered \ {s} |-> entries[t]]
    /\ shown' = [shown EXCEPT ![s] = "idle"]
    /\ run' = [run EXCEPT ![s] = "none"]

\* An activity while waiting is only remembered.
Activity(s, to) ==
    /\ s \in Registered
    /\ LET cur == entries[s] IN
       IF cur.state = "waiting"
       THEN Quietly(s, [cur EXCEPT !.prevBeforeWaiting = to])
       ELSE Transition(s, cur, to)

OnJsonlLine(s) == Activity(s, "working")

OnIdleTimer(s) == Activity(s, "idle")

\* The entry a request of s finds: an unknown session is registered first.
EntryFor(s) == IF s \in Registered THEN entries[s] ELSE NewEntry

\* Mutant of OnPermissionRequest: every request stashes the state it finds.
RequestStashesAgain(s) ==
    LET cur == EntryFor(s)
        counted == [cur EXCEPT !.pendingCount = @ + 1,
                               !.prevBeforeWaiting = cur.state]
    IN  /\ cur.pendingCount < MaxPending
        /\ Transition(s, counted, "waiting")

OnPermissionRequest(s) ==
    LET cur == EntryFor(s)
        counted == [cur EXCEPT !.pendingCount = @ + 1]
    IN  /\ cur.pendingCount < MaxPending
        /\ IF cur.state = "waiting"
           THEN Quietly(s, counted)
           ELSE Transition(s, [counted EXCEPT !.prevBeforeWaiting = cur.state],
                           "waiting")

\* Mutant of OnPermissionResolved: the first of several answers ends the wait.
ResolvedIgnoresCount(s) ==
    /\ s \in Registered
    /\ LET cur == entries[s]
           left == IF cur.pendingCount > 0 THEN cur.pendingCount - 1 ELSE 0
           counted == [cur EXCEPT !.pendingCount = left]
       IN  IF cur.state # "waiting"
           THEN Quietly(s, counted)
           ELSE Transition(s, counted, cur.prevBeforeWaiting)

\* The count never goes below zero; the last answer restores the stash.
OnPermissionResolved(s) ==
    /\ s \in Registered
    /\ LET cur == entries[s]
           left == IF cur.pendingCount > 0 THEN cur.pendingCount - 1 ELSE 0
           counted == [cur EXCEPT !.pendingCount = left]
       IN  IF left > 0 \/ cur.state # "waiting"
           THEN Quietly(s, counted)
           ELSE Transition(s, counted, cur.prevBeforeWaiting)

Next == \E s \in Sessions :
    \/ Register(s)
    \/ RemoveSession(s)
    \/ OnJsonlLine(s)
    \/ OnIdleTimer(s)
    \/ OnPermissionRequest(s)
    \/ OnPermissionResolved(s)

Spec == Init /\ [][Next]_vars

-----------------------------------------------------------------------------

\* The entries are records of the Map's type, for known sessions only.
TypeOK ==
    /\ Registered \subseteq Sessions
    /\ entries \in [Registered -> Entry]
    /\ shown \in [Sessions -> SessionState]
    /\ run \in [Sessions -> {"none", "open", "closed"}]

\* A session waits exactly while its pendingCount is positive: no interleaving
\* of lines, timers, requests and answers leaves it stuck in "waiting" with
\* nothing to answer, or out of it with a request counted.
WaitingIffPending ==
    \A s \in Registered :
        entries[s].state = "waiting" <=> entries[s].pendingCount > 0

\* Part of the inductive invariant: the stash is an activity, so the last answer
\* always leaves "waiting".
StashIsActivity ==
    \A s \in Registered : entries[s].prevBeforeWaiting # "waiting"

\* Every change of state was published: the PWAs see the state the machine is
\* in.
ShownIsState ==
    \A s \in Sessions :
        shown[s] = IF s \in Registered THEN entries[s].state ELSE "idle"

\* The inductive invariant behind the three.
FsmInv == TypeOK /\ WaitingIffPending /\ StashIsActivity /\ ShownIsState

\* The activity the abstract status keeps is the stash while waiting.
ActivityOf(s) ==
    IF s \notin Registered THEN "idle"
    ELSE IF entries[s].state = "waiting" THEN entries[s].prevBeforeWaiting
    ELSE entries[s].state

PendingOf(s) == IF s \in Registered THEN entries[s].pendingCount ELSE 0

Status == INSTANCE SessionStatus WITH
    live <- Registered,
    activity <- [s \in Sessions |-> ActivityOf(s)],
    pending <- [s \in Sessions |-> PendingOf(s)]

\* The machine implements the abstract status: what is shown is "waiting"
\* while requests are pending and, as soon as none is, the activity seen last,
\* the one during the wait included.
ImplementsStatus == Status!Spec
=============================================================================
