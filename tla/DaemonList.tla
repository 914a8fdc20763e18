----------------------------- MODULE DaemonList -----------------------------
(***************************************************************************)
(* The daemons of an owner as the settings drawer sees them: useDaemons    *)
(* with its poll, its loads that overtake each other, rename and revoke    *)
(* (useDaemons.ts, the hub's /daemons routes, the router's own copy of the *)
(* name), and the box that shows a pairing code (usePairing.ts,            *)
(* POST /pair/issue) until a daemon pairs with it or it expires.           *)
(*                                                                         *)
(* Screens_proofs extends it together with the other screens it proves     *)
(* about, so Init, Next, Spec, vars and TypeOK carry the prefix Drawer.    *)
(***************************************************************************)
EXTENDS Naturals, FiniteSets

CONSTANTS
    Daemons,
    Names,         \* display names; a daemon starts with the first, NoName
    NoName,
    MaxLoads,      \* bound: GET /daemons without an answer at once
    MaxEvents      \* bound: renames, revocations and codes asked for, links that
                   \* come or go, pairings, requests or answers lost, together

ASSUME NamesAssumption == NoName \in Names
ASSUME DrawerBounds == {MaxLoads, MaxEvents} \subseteq Nat

VARIABLES
    name, row,       \* the daemons table: display_name, and "none", "paired" or "revoked"
    known,           \* the router's DaemonState: display_name of a linked daemon
    linked,          \* the daemons with a connection
    codes,           \* pairing_codes: codes not yet consumed or expired
    open,            \* is the drawer open (useDaemons' enabled)
    list,            \* the Resource: status and rows
    loads,           \* of each load: "free", "sent", or the rows it comes back with
    saves,           \* rename and revoke requests without an answer
    box, issuing,    \* usePairing's state and issuingRef
    seen,            \* the status of the box in the last render
    calls,           \* POST /pair/issue without an answer
    issued,          \* codes issued so far
    events

hub == <<name, row, known, linked, codes>>
pairing == <<box, issuing, seen, calls, issued>>
drawerVars == <<hub, open, list, loads, saves, pairing, events>>

Slots == 1 .. MaxLoads
paired == {d \in Daemons : row[d] = "paired"}
Resource(status, rows) == [status |-> status, rows |-> rows]
Box(status, code) == [status |-> status, code |-> code]
Load(at, rows) == [at |-> at, rows |-> rows]
Free == Load("free", {})

Counts == events < MaxEvents /\ events' = events + 1

DrawerInit ==
    /\ name = [d \in Daemons |-> NoName]
    /\ row \in [Daemons -> {"none", "paired"}]
    /\ known = [d \in Daemons |-> NoName] /\ linked = {} /\ codes = {}
    /\ open = FALSE /\ list = Resource("loading", {})
    /\ loads = [s \in Slots |-> Free] /\ saves = {}
    /\ box = Box("idle", 0) /\ issuing = FALSE /\ seen = "idle" /\ calls = {} /\ issued = 0
    /\ events = 0
-----------------------------------------------------------------------------
(* The list.                                                               *)

\* listDaemonsByOwner with the connected flag.
ListDaemonsByOwner == {[id |-> d, name |-> name[d], connected |-> d \in linked] : d \in paired}

StartLoad(s) ==
    /\ loads[s] = Free
    /\ list' = Resource("loading", {})
    /\ loads' = [loads EXCEPT ![s] = Load("sent", {})]

Open ==
    /\ ~open /\ open' = TRUE
    /\ \E s \in Slots : StartLoad(s)
    /\ UNCHANGED <<hub, saves, pairing, events>>

Close == open /\ open' = FALSE /\ UNCHANGED <<hub, list, loads, saves, pairing, events>>

\* Mutant: only a list that is there is loaded again.
PollWhenReady ==
    /\ open /\ list.status = "ready"
    /\ \E s \in Slots : StartLoad(s)
    /\ UNCHANGED <<hub, open, saves, pairing, events>>

\* The interval of POLL_MS, or the retry button.
Poll ==
    /\ open
    /\ \E s \in Slots : StartLoad(s)
    /\ UNCHANGED <<hub, open, saves, pairing, events>>

Lists(s) ==
    /\ loads[s].at = "sent"
    /\ loads' = [loads EXCEPT ![s] = Load("listed", ListDaemonsByOwner)]
    /\ UNCHANGED <<hub, open, list, saves, pairing, events>>

Arrives(s) ==
    /\ loads[s].at = "listed"
    /\ list' = Resource("ready", loads[s].rows)
    /\ loads' = [loads EXCEPT ![s] = Free]
    /\ UNCHANGED <<hub, open, saves, pairing, events>>

LoadFails(s) ==
    /\ loads[s] # Free /\ Counts
    /\ list' = Resource("error", {})
    /\ loads' = [loads EXCEPT ![s] = Free]
    /\ UNCHANGED <<hub, open, saves, pairing>>
-----------------------------------------------------------------------------
(* Renames and revocations of a row that is shown.                         *)

Save(op, d, n) == [op |-> op, id |-> d, name |-> n, at |-> "sent"]

Ask(op, d, n) ==
    /\ open /\ list.status = "ready" /\ \E r \in list.rows : r.id = d
    /\ Counts /\ Save(op, d, n) \notin saves
    /\ saves' = saves \cup {Save(op, d, n)}
    /\ UNCHANGED <<hub, open, list, loads, pairing>>

Moves(q, at) == saves' = (saves \ {q}) \cup {[q EXCEPT !.at = at]}

\* renameDaemon and, when the row was there, onDaemonRenamed.
OnRename(q) ==
    /\ q.op = "rename" /\ q.at = "sent"
    /\ Moves(q, IF q.id \in paired THEN "done" ELSE "refused")
    /\ name' = IF q.id \in paired THEN [name EXCEPT ![q.id] = q.name] ELSE name
    /\ known' = IF q.id \in paired \cap linked THEN [known EXCEPT ![q.id] = q.name] ELSE known
    /\ UNCHANGED <<row, linked, codes, open, list, loads, pairing, events>>

\* revokeDaemonAuthorized and, when the row was there, closeDaemonConnection.
OnRevoke(q) ==
    /\ q.op = "revoke" /\ q.at = "sent"
    /\ Moves(q, IF q.id \in paired THEN "done" ELSE "refused")
    /\ row' = IF q.id \in paired THEN [row EXCEPT ![q.id] = "revoked"] ELSE row
    /\ linked' = linked \ {q.id}
    /\ known' = [known EXCEPT ![q.id] = NoName]
    /\ UNCHANGED <<name, codes, open, list, loads, pairing, events>>

\* The answer: the list is loaded again.
SaveDone(q) ==
    /\ q.at = "done"
    /\ saves' = saves \ {q}
    /\ \E s \in Slots : StartLoad(s)
    /\ UNCHANGED <<hub, open, pairing, events>>

SaveFails(q) ==
    /\ \/ q.at = "refused" /\ UNCHANGED events
       \/ q.at # "refused" /\ Counts
    /\ saves' = saves \ {q}
    /\ UNCHANGED <<hub, open, list, loads, pairing>>
-----------------------------------------------------------------------------
(* Daemons connect, leave and pair by themselves.                          *)

\* hello: the router reads the name from the table.
Link(d) ==
    /\ d \in paired \ linked /\ Counts
    /\ linked' = linked \cup {d} /\ known' = [known EXCEPT ![d] = name[d]]
    /\ UNCHANGED <<name, row, codes, open, list, loads, saves, pairing>>

Unlink(d) ==
    /\ d \in linked /\ Counts
    /\ linked' = linked \ {d} /\ known' = [known EXCEPT ![d] = NoName]
    /\ UNCHANGED <<name, row, codes, open, list, loads, saves, pairing>>

\* POST /pair of the command line with a code somebody read off the box.
Pair(d, c) ==
    /\ row[d] = "none" /\ c \in codes /\ Counts
    /\ row' = [row EXCEPT ![d] = "paired"] /\ codes' = codes \ {c}
    /\ UNCHANGED <<name, known, linked, open, list, loads, saves, pairing>>
-----------------------------------------------------------------------------
(* The box.  A click works with the status of the last render, the ref     *)
(* with the one of now.                                                    *)

Render ==
    /\ seen # box.status /\ seen' = box.status
    /\ UNCHANGED <<hub, open, list, loads, saves, box, issuing, calls, issued, events>>

\* Mutant: the guard reads the status of the last render, not the ref.
GenerateByStatus ==
    /\ open /\ seen = "idle" /\ Counts
    /\ issuing' = TRUE /\ box' = Box("issuing", 0)
    /\ calls' = calls \cup {[n |-> issued + Cardinality(calls), code |-> 0]}
    /\ UNCHANGED <<hub, open, list, loads, saves, seen, issued>>

Generate ==
    /\ open /\ ~issuing /\ seen = "idle" /\ Counts
    /\ issuing' = TRUE /\ box' = Box("issuing", 0)
    /\ calls' = calls \cup {[n |-> issued + Cardinality(calls), code |-> 0]}
    /\ UNCHANGED <<hub, open, list, loads, saves, seen, issued>>

Issue(c) ==
    /\ c.code = 0
    /\ issued' = issued + 1 /\ codes' = codes \cup {issued'}
    /\ calls' = (calls \ {c}) \cup {[c EXCEPT !.code = issued']}
    /\ UNCHANGED <<name, row, known, linked, open, list, loads, saves, box, issuing, seen, events>>

Issued(c) ==
    /\ c.code # 0
    /\ box' = Box("active", c.code) /\ issuing' = FALSE /\ calls' = calls \ {c}
    /\ UNCHANGED <<hub, open, list, loads, saves, seen, issued, events>>

IssueFails(c) ==
    /\ Counts
    /\ box' = Box("idle", 0) /\ issuing' = FALSE /\ calls' = calls \ {c}
    /\ UNCHANGED <<hub, open, list, loads, saves, seen, issued>>

Cancel ==
    /\ open /\ seen = "active"
    /\ box' = Box("idle", 0)
    /\ UNCHANGED <<hub, open, list, loads, saves, issuing, seen, calls, issued, events>>

\* The code expires at the hub and in the box's own clock, which says so with
\* onPaired: the list is loaded, drawer or not.
CodeExpires(c) ==
    /\ c \in codes /\ codes' = codes \ {c}
    /\ UNCHANGED <<name, row, known, linked, open, list, loads, saves, pairing, events>>

PairingTick ==
    /\ box.status = "active"
    /\ box' = Box("idle", 0)
    /\ \E s \in Slots : StartLoad(s)
    /\ UNCHANGED <<hub, open, saves, issuing, seen, calls, issued, events>>

AnswerLoad(s) == Lists(s) \/ Arrives(s)
AnswerSave(q) == OnRename(q) \/ OnRevoke(q) \/ SaveDone(q) \/ (q.at = "refused" /\ SaveFails(q))
AnswerCall(c) == Issue(c) \/ Issued(c)

Drawer ==
    \/ Open \/ Close \/ Poll
    \/ \E d \in Daemons, n \in Names \ {NoName} : Ask("rename", d, n)
    \/ \E d \in Daemons : Ask("revoke", d, NoName)
    \/ Render \/ Generate \/ Cancel \/ PairingTick

DrawerNext ==
    \/ Drawer
    \/ \E s \in Slots : AnswerLoad(s) \/ LoadFails(s)
    \/ \E q \in saves : AnswerSave(q) \/ SaveFails(q)
    \/ \E c \in calls : AnswerCall(c) \/ IssueFails(c)
    \/ \E d \in Daemons : Link(d) \/ Unlink(d) \/ \E c \in codes : Pair(d, c)
    \/ \E c \in codes : CodeExpires(c)

DrawerSpec == DrawerInit /\ [][DrawerNext]_drawerVars

\* The interval runs while the drawer is open, requests are answered, timers
\* tick and React renders.
Fairness ==
    /\ WF_drawerVars(Poll) /\ WF_drawerVars(Render) /\ WF_drawerVars(PairingTick)
    /\ \A s \in Slots : WF_drawerVars(AnswerLoad(s))
    /\ WF_drawerVars(\E c \in calls : AnswerCall(c)) /\ WF_drawerVars(\E q \in saves : AnswerSave(q))

DrawerFairSpec == DrawerSpec /\ Fairness
-----------------------------------------------------------------------------
(* Correctness.                                                            *)

\* The variables have their types.
DrawerTypeOK ==
    /\ name \in [Daemons -> Names] /\ row \in [Daemons -> {"none", "paired", "revoked"}]
    /\ known \in [Daemons -> Names] /\ linked \subseteq paired
    /\ codes \subseteq 1 .. MaxEvents
    /\ list.status \in {"loading", "error", "ready"}
    /\ \A s \in Slots : loads[s].at \in {"free", "sent", "listed"}
    /\ box.status \in {"idle", "issuing", "active"} /\ (box.status = "active" <=> box.code # 0)
    /\ issued \in 0 .. MaxEvents

\* The name every PWA is told of a linked daemon is the name in the table,
\* whichever way renames, links and lost answers interleave (onDaemonRenamed and
\* hello both write it).
KnownNameIsStored == \A d \in linked : known[d] = name[d]

\* The box shows the last code that was issued, never one a second click
\* overtook: issuingRef holds where the rendered status is behind.
LastCodeIsShown == box.status = "active" => box.code = issued

\* The button works again whatever becomes of a request for a code.
IssuingEnds == issuing ~> ~issuing

\* An open drawer ends up with the daemons as they are, although a load may be
\* answered after a later one: once nothing changes any more, the poll brings
\* the current list and no stale one follows it.
ListCatchesUp ==
    <>[]open => /\ []<>(list.status = "ready")
                /\ <>[](list.status = "ready" => list.rows = ListDaemonsByOwner)

\* What the drawer shows is what the hub last said: names of connected
\* daemons and the code issued last.
DrawerIsTrue == DrawerTypeOK /\ KnownNameIsStored /\ LastCodeIsShown

\* The drawer does not stay behind: issuing a code ends, and the list becomes
\* what is stored.
DrawerCatchesUp == IssuingEnds /\ ListCatchesUp
=============================================================================
