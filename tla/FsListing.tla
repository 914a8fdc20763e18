----------------------------- MODULE FsListing -----------------------------
(***************************************************************************)
(* Directory listing for the autocompletes of the PWA: useFsList with its  *)
(* debounce, its cache and the request that owns a field, sendFsList's     *)
(* listeners, the hub's pendingFsList, and the daemon's handleFsList       *)
(* between realpath and readdir while the directories change.              *)
(*                                                                         *)
(* A listing stands for its directory and the version it was read at.      *)
(* Requests overtake each other: a message is in a set, at a place.        *)
(***************************************************************************)
EXTENDS Naturals, FiniteSets

CONSTANTS
    Fields,        \* inputs that use the hook at once
    Paths,         \* paths a field asks for
    Real,          \* realpath of each path
    Allowed,       \* the paths under a whitelisted root
    MaxRequests,   \* bound: requests
    MaxChanges,    \* bound: changes of directories
    MaxLosses      \* bound: connections that break

None == "none"

ASSUME PathsAssumption ==
    /\ Real \in [Paths -> Paths] /\ \A p \in Paths : Real[Real[p]] = Real[p]
    /\ Allowed \subseteq Paths /\ None \notin Paths
ASSUME BoundsAssumption == {MaxRequests, MaxChanges, MaxLosses} \subseteq Nat

VARIABLES
    want,      \* of each field: the parent it lists, or None
    shown,     \* of each field: what the hook returns
    active,    \* of each field: the request that owns it, or 0
    timer,     \* the fields whose debounce timer runs
    listener,  \* fsListListenersRef: the requests with a callback, with their parent
    cache,     \* of each path: the state kept, or Nothing
    msgs,      \* frames on their way and requests the daemon works on
    pending,   \* the hub's pendingFsList
    pwa,       \* the PWA's connection: its number when up, 0 when down
    link,      \* is the daemon's connection up
    dir,       \* of each real path: its version, or 0 when it is not there
    asked, changes, losses, conns

screen == <<want, shown, active, timer, listener, cache>>
count == <<asked, changes, losses, conns>>
vars == <<screen, msgs, pending, pwa, link, dir, count>>

State(status, of, v) == [status |-> status, of |-> of, v |-> v]
Idle == State("idle", None, 0)
Loading == State("loading", None, 0)
Error == State("error", None, 0)
Nothing == State("nothing", None, 0)

Init ==
    /\ want = [f \in Fields |-> None] /\ shown = [f \in Fields |-> Idle]
    /\ active = [f \in Fields |-> 0] /\ timer = {} /\ listener = {}
    /\ cache = [p \in Paths |-> Nothing]
    /\ msgs = {} /\ pending = {} /\ pwa = 1 /\ link \in BOOLEAN
    /\ dir = [p \in Paths |-> 1]
    /\ asked = 0 /\ changes = 0 /\ losses = 0 /\ conns = 1
-----------------------------------------------------------------------------
(* The hook.  A new parent ends the effect of the old one.                 *)

Known(p) == IF p = None THEN Idle ELSE cache[p]

Seek(f, p) ==
    /\ p # want[f]
    /\ want' = [want EXCEPT ![f] = p]
    /\ listener' = {l \in listener : l.id # active[f]}
    /\ \/ /\ Known(p) # Nothing
          /\ shown' = [shown EXCEPT ![f] = Known(p)]
          /\ active' = [active EXCEPT ![f] = 0]
          /\ timer' = timer \ {f}
          /\ UNCHANGED asked
       \/ /\ Known(p) = Nothing /\ asked < MaxRequests
          /\ asked' = asked + 1
          /\ shown' = [shown EXCEPT ![f] = Loading]
          /\ active' = [active EXCEPT ![f] = asked']
          /\ timer' = timer \cup {f}
    /\ UNCHANGED <<cache, msgs, pending, pwa, link, dir, changes, losses, conns>>

\* sendFsList: the listener is there even when the socket is not.
Debounced(f) ==
    /\ f \in timer
    /\ timer' = timer \ {f}
    /\ listener' = listener \cup {[id |-> active[f], parent |-> want[f], f |-> f]}
    /\ msgs' = IF pwa = 0 THEN msgs
               ELSE msgs \cup {[id |-> active[f], path |-> want[f], at |-> "toHub", is |-> Loading]}
    /\ UNCHANGED <<want, shown, active, cache, pending, pwa, link, dir, count>>

Key(l, m) == IF m.is.status = "ready" THEN m.is.of ELSE l.parent

\* Mutant: every listener takes every result.
OnResultOfAny(m) ==
    /\ m \in msgs /\ m.at = "toPwa"
    /\ msgs' = msgs \ {m}
    /\ \E l \in listener :
          /\ cache' = [cache EXCEPT ![Key(l, m)] = m.is]
          /\ shown' = [shown EXCEPT ![l.f] = m.is]
    /\ UNCHANGED <<want, active, timer, listener, pending, pwa, link, dir, count>>

OnResult(m) ==
    /\ m \in msgs /\ m.at = "toPwa"
    /\ msgs' = msgs \ {m}
    /\ \/ \E l \in listener :
             /\ l.id = m.id
             /\ cache' = [cache EXCEPT ![Key(l, m)] = m.is]
             /\ shown' = IF active[l.f] = l.id THEN [shown EXCEPT ![l.f] = m.is] ELSE shown
       \/ /\ ~ \E l \in listener : l.id = m.id
          /\ UNCHANGED <<cache, shown>>
    /\ UNCHANGED <<want, active, timer, listener, pending, pwa, link, dir, count>>

CacheExpires(p) ==
    /\ cache[p] # Nothing
    /\ cache' = [cache EXCEPT ![p] = Nothing]
    /\ UNCHANGED <<want, shown, active, timer, listener, msgs, pending, pwa, link, dir, count>>
-----------------------------------------------------------------------------
(* The hub.                                                                *)

At(m, at) == msgs' = (msgs \ {m}) \cup {[m EXCEPT !.at = at]}

\* Mutant: a request for a daemon that is away is dropped without a word.
OnPwaFsListQuietly(m) ==
    /\ m \in msgs /\ m.at = "toHub"
    /\ IF link
       THEN /\ pending' = pending \cup {[id |-> m.id, pwa |-> pwa]}
            /\ At(m, "toDaemon")
       ELSE msgs' = msgs \ {m} /\ UNCHANGED pending
    /\ UNCHANGED <<screen, pwa, link, dir, count>>

OnPwaFsList(m) ==
    /\ m \in msgs /\ m.at = "toHub"
    /\ IF link
       THEN /\ pending' = pending \cup {[id |-> m.id, pwa |-> pwa]}
            /\ At(m, "toDaemon")
       ELSE /\ msgs' = (msgs \ {m}) \cup {[m EXCEPT !.at = "toPwa", !.is = Error]}
            /\ UNCHANGED pending
    /\ UNCHANGED <<screen, pwa, link, dir, count>>

OnFsListResult(m) ==
    /\ m \in msgs /\ m.at = "back"
    /\ IF \E e \in pending : e.id = m.id
       THEN At(m, "toPwa") ELSE msgs' = msgs \ {m}
    /\ pending' = {e \in pending : e.id # m.id}
    /\ UNCHANGED <<screen, pwa, link, dir, count>>
-----------------------------------------------------------------------------
(* The daemon.  Its reply waits in hub-client's queue while the link is    *)
(* down.                                                                   *)

Reply(m, is) ==
    msgs' = (msgs \ {m}) \cup {[m EXCEPT !.at = IF link THEN "back" ELSE "queued", !.is = is]}

Resolve(m) ==
    /\ m \in msgs /\ m.at = "toDaemon"
    /\ LET q == Real[m.path] IN
       IF dir[q] = 0 \/ q \notin Allowed
       THEN Reply(m, Error)
       ELSE msgs' = (msgs \ {m}) \cup {[m EXCEPT !.at = "read", !.path = q]}
    /\ UNCHANGED <<screen, pending, pwa, link, dir, count>>

ReadDir(m) ==
    /\ m \in msgs /\ m.at = "read"
    /\ Reply(m, IF dir[m.path] = 0 THEN Error ELSE State("ready", m.path, dir[m.path]))
    /\ UNCHANGED <<screen, pending, pwa, link, dir, count>>

\* A directory changes, goes or comes.
Change(p) ==
    /\ Real[p] = p /\ changes < MaxChanges
    /\ changes' = changes + 1
    /\ \E v \in {0, dir[p] + 1} : v # dir[p] /\ dir' = [dir EXCEPT ![p] = v]
    /\ UNCHANGED <<screen, msgs, pending, pwa, link, asked, losses, conns>>
-----------------------------------------------------------------------------
(* Connections.                                                            *)

PwaDrops ==
    /\ pwa # 0 /\ losses < MaxLosses /\ losses' = losses + 1
    /\ pwa' = 0
    /\ pending' = {e \in pending : e.pwa # pwa}
    /\ msgs' = {m \in msgs : m.at \notin {"toHub", "toPwa"}}
    /\ UNCHANGED <<screen, link, dir, asked, changes, conns>>

PwaConnects ==
    /\ pwa = 0
    /\ conns' = conns + 1 /\ pwa' = conns'
    /\ UNCHANGED <<screen, msgs, pending, link, dir, asked, changes, losses>>

LinkDrops ==
    /\ link /\ losses < MaxLosses /\ losses' = losses + 1
    /\ link' = FALSE
    /\ \E lost \in SUBSET {m \in msgs : m.at \in {"toDaemon", "back"}} : msgs' = msgs \ lost
    /\ UNCHANGED <<screen, pending, pwa, dir, asked, changes, conns>>

LinkComes ==
    /\ ~link /\ link' = TRUE
    /\ msgs' = {[m EXCEPT !.at = IF m.at = "queued" THEN "back" ELSE m.at] : m \in msgs}
    /\ UNCHANGED <<screen, pending, pwa, dir, count>>
-----------------------------------------------------------------------------
Handlers ==
    \/ \E f \in Fields : Debounced(f)
    \/ \E m \in msgs : OnPwaFsList(m) \/ Resolve(m) \/ ReadDir(m) \/ OnFsListResult(m) \/ OnResult(m)
    \/ LinkComes

Next ==
    \/ Handlers
    \/ \E f \in Fields, p \in Paths \cup {None} : Seek(f, p)
    \/ \E p \in Paths : CacheExpires(p) \/ Change(p)
    \/ PwaDrops \/ PwaConnects \/ LinkDrops

Spec == Init /\ [][Next]_vars

\* Timers fire, frames arrive, the daemon's reads end and it reconnects.
\* Every step of Handlers brings a finite number of requests closer to an
\* answer, so fairness of their disjunction serves each.
FairSpec == Spec /\ WF_vars(Handlers)
-----------------------------------------------------------------------------
States == [status : {"idle", "loading", "error", "ready", "nothing"}, of : Paths \cup {None},
           v : 0..(MaxChanges + 1)]

(* Every field, cache entry and frame holds what its code can put there. *)
TypeOK ==
    /\ want \in [Fields -> Paths \cup {None}] /\ shown \in [Fields -> States]
    /\ active \in [Fields -> 0..MaxRequests] /\ timer \subseteq Fields
    /\ cache \in [Paths -> States] /\ \A p \in Paths : cache[p].status \in {"nothing", "error", "ready"}
    /\ \A m \in msgs : m.at \in {"back", "queued", "toPwa"} <=> m.is # Loading
    /\ \A m \in msgs, n \in msgs : m.id = n.id => m = n
    /\ dir \in [Paths -> 0..(MaxChanges + 1)]

(***************************************************************************)
(* A field never offers the entries of another directory than the one it   *)
(* completes, however late and in whatever order the answers come: what it *)
(* shows was read in the directory its parent resolves to (useFsList's     *)
(* active request, sendFsList's disposer, the key of the cache).           *)
(***************************************************************************)
ShownIsOfParent ==
    \A f \in Fields : shown[f].status = "ready" => want[f] # None /\ shown[f].of = Real[want[f]]

(***************************************************************************)
(* The hub remembers requests of connected PWAs only, so pendingFsList     *)
(* does not grow with the connections that come and go (onPwaDisconnect).  *)
(***************************************************************************)
PendingIsConnected == \A e \in pending : pwa # 0 /\ e.pwa = pwa

(***************************************************************************)
(* While no connection breaks, a field that loads gets an answer or asks   *)
(* something else: an offline daemon, a directory that goes away between   *)
(* realpath and readdir and a forbidden path all answer (onPwaFsList,      *)
(* handleFsList).                                                          *)
(***************************************************************************)
LoadingEnds ==
    \A f \in Fields, i \in 1..MaxRequests :
        (active[f] = i /\ shown[f] = Loading /\ losses = 0)
            ~> (active[f] # i \/ shown[f] # Loading \/ losses > 0)

\* A field shows the listing of the directory it asked for, and the hub
\* remembers nobody's request beyond the connection it came from.
ListingsAreOwn == TypeOK /\ ShownIsOfParent /\ PendingIsConnected
=============================================================================
