------------------------------ MODULE HubLink ------------------------------
(***************************************************************************)
(* How the list of live sessions gets from a daemon to the PWAs:           *)
(*                                                                         *)
(*   LiveSessions of the daemon -> (ws) -> cache of the hub -> (ws) -> PWA *)
(*                                                                         *)
(* over connections that are cut, half open or replaced, with the daemon   *)
(* and the hub restarting.  A connection of the daemon is a number; the    *)
(* hub may still have an old one open when the daemon dials the next.      *)
(* The frames that requests travel in are the subject of PermissionRelay.  *)
(***************************************************************************)
EXTENDS Integers, Sequences, FiniteSets, SequencesExt

CONSTANTS
    Sessions,
    Statuses,    \* what a session_state frame can say
    Initial,     \* the status a plugin registers with
    Pwas,
    Limit,       \* bound: how often each kind of event happens, see Events
    MaxEvents    \* bound: how many events happen in all

\* A plugin registers a session, a session changes its status, the network
\* breaks a connection, the daemon closes one that still delivers, the daemon
\* restarts, the hub restarts, a PWA loses its connection.
Events == {"register", "change", "cut", "close", "restart", "hub", "away"}

ASSUME InitialAssumption == Initial \in Statuses
ASSUME LimitAssumption == Limit \in [Events -> Nat] /\ MaxEvents \in Nat

VARIABLES
    live,        \* LiveSessions: session -> status
    inventory,   \* keys of slashInventoryBySession
    scans,       \* session -> inventory scans that have not come back
    pending,     \* hub-client: frames sent while its ws is not open
    conn,        \* the ws of hub-client: number, status, path still carries
    dialed,      \* connections made so far
    open,        \* connections the hub has open
    registered,  \* the connection in DaemonRegistry, 0 when none
    wire,        \* connection -> frames in flight to the hub
    cache,       \* the DaemonState of the router
    pwa,         \* PWA -> its connection and what it shows
    toPwa,       \* PWA -> frames in flight to it
    spent        \* event -> how often it has happened

sessionVars == <<live, inventory, scans>>
clientVars == <<pending, conn, dialed>>
hubVars == <<open, registered, cache>>
pwaVars == <<pwa, toPwa>>
vars == <<sessionVars, clientVars, hubVars, wire, pwaVars, spent>>

\* Every connection but the first follows a fault; bounds the numbers.
Connections ==
    1 .. 1 + Limit["cut"] + Limit["close"] + Limit["restart"] + Limit["hub"]

SpentInAll == FoldFunction(LAMBDA n, m : n + m, 0, spent)

\* One more event of this kind, within both bounds.
Spend(event) ==
    /\ spent[event] < Limit[event]
    /\ SpentInAll < MaxEvents
    /\ spent' = [spent EXCEPT ![event] = @ + 1]

-----------------------------------------------------------------------------
(* Session lists *)

NoSessions == [s \in {} |-> Initial]
With(m, s, status) ==
    [x \in DOMAIN m \cup {s} |-> IF x = s THEN status ELSE m[x]]
Without(m, s) == [x \in DOMAIN m \ {s} |-> m[x]]
Lists == UNION {[S -> Statuses] : S \in SUBSET Sessions}

\* What a session frame does to a list, at the hub and in the PWA's reducer
\* alike; a status of a session that is not listed is ignored.
Listed(m, f) ==
    IF f.type = "session_open" THEN With(m, f.session, f.status)
    ELSE IF f.type = "session_close" THEN Without(m, f.session)
    ELSE IF f.session \in DOMAIN m THEN [m EXCEPT ![f.session] = f.status]
    ELSE m

-----------------------------------------------------------------------------
(* Frames *)

Hello == [type |-> "hello", sessions |-> live]
Opened(s) == [type |-> "session_open", session |-> s, status |-> Initial]
Closed(s) == [type |-> "session_close", session |-> s]
State(s, status) == [type |-> "session_state", session |-> s, status |-> status]
Inventory(s) == [type |-> "slash_inventory", session |-> s]
Online(m) == [type |-> "daemon_online", sessions |-> m]
Offline == [type |-> "daemon_offline"]
Snapshot(k) == [type |-> "snapshot", known |-> k.known, sessions |-> k.sessions]

SessionFrame ==
    [type : {"session_open", "session_state"}, session : Sessions, status : Statuses]
    \cup [type : {"session_close"}, session : Sessions]

DaemonFrame ==
    SessionFrame \cup [type : {"hello"}, sessions : Lists]
    \cup [type : {"slash_inventory"}, session : Sessions]

PwaFrame ==
    SessionFrame \cup [type : {"daemon_online"}, sessions : Lists] \cup {Offline}
    \cup [type : {"snapshot"}, known : BOOLEAN, sessions : Lists]

NoState == [known |-> FALSE, sessions |-> NoSessions, inventory |-> {}]
Unlisted == [listed |-> FALSE, online |-> FALSE, sessions |-> NoSessions]

Init ==
    /\ live = NoSessions
    /\ inventory = {}
    /\ scans = [s \in Sessions |-> 0]
    /\ pending = <<>>
    /\ conn = [id |-> 0, status |-> "waiting", path |-> FALSE]
    /\ dialed = 0
    /\ open = {}
    /\ registered = 0
    /\ wire = [c \in Connections |-> <<>>]
    /\ cache = NoState
    /\ pwa = [p \in Pwas |-> [status |-> "off", view |-> Unlisted]]
    /\ toPwa = [p \in Pwas |-> <<>>]
    /\ spent = [e \in Events |-> 0]

\* send(): on a connection whose path is gone the frame is lost.
HubSend(f) ==
    IF conn.status = "open"
    THEN /\ wire' = IF conn.path THEN [wire EXCEPT ![conn.id] = Append(@, f)]
                                 ELSE wire
         /\ UNCHANGED pending
    ELSE /\ pending' = Append(pending, f)
         /\ UNCHANGED wire

-----------------------------------------------------------------------------
(* The daemon: its sessions *)

\* onAdd: the inventory scan starts with the session and comes back later.
Register(s) ==
    /\ s \notin DOMAIN live
    /\ Spend("register")
    /\ live' = With(live, s, Initial)
    /\ scans' = [scans EXCEPT ![s] = @ + 1]
    /\ HubSend(Opened(s))
    /\ UNCHANGED <<inventory, conn, dialed, hubVars, pwaVars>>

\* The scan comes back, whether or not the session is still there.
Scanned(s) ==
    /\ scans[s] > 0
    /\ scans' = [scans EXCEPT ![s] = @ - 1]
    /\ inventory' = inventory \cup {s}
    /\ HubSend(Inventory(s))
    /\ UNCHANGED <<live, conn, dialed, hubVars, pwaVars, spent>>

ScanFails(s) ==
    /\ scans[s] > 0
    /\ scans' = [scans EXCEPT ![s] = @ - 1]
    /\ UNCHANGED <<live, inventory, clientVars, hubVars, wire, pwaVars, spent>>

\* onTransition of the session machine.
Transition(s, status) ==
    /\ s \in DOMAIN live
    /\ live[s] # status
    /\ Spend("change")
    /\ live' = [live EXCEPT ![s] = status]
    /\ HubSend(State(s, status))
    /\ UNCHANGED <<inventory, scans, conn, dialed, hubVars, pwaVars>>

\* onRemove, after bye or after the socket of the plugin has closed.
Unregister(s) ==
    /\ s \in DOMAIN live
    /\ live' = Without(live, s)
    /\ inventory' = inventory \ {s}
    /\ HubSend(Closed(s))
    /\ UNCHANGED <<scans, conn, dialed, hubVars, pwaVars, spent>>

-----------------------------------------------------------------------------
(* The hub: the connections of the daemon *)

Broadcast(f) ==
    toPwa' = [p \in Pwas |-> IF pwa[p].status = "off" THEN toPwa[p]
                                                     ELSE Append(toPwa[p], f)]

\* Mutant of OnDaemonDisconnect: the router keeps the state of the daemon.
DisconnectRemembers == UNCHANGED <<cache, toPwa>>

OnDaemonDisconnect ==
    IF cache.known
    THEN cache' = NoState /\ Broadcast(Offline)
    ELSE UNCHANGED <<cache, toPwa>>

\* Mutant of Add: the entry is set before the old connection is evicted, and
\* the close handler of that one removes it.
AddBeforeEvict(c) ==
    /\ registered' = IF registered = 0 THEN c ELSE 0
    /\ open' = (open \ {registered}) \cup {c}
    /\ wire' = [wire EXCEPT ![c] = <<>>]
    /\ IF registered = 0 THEN UNCHANGED <<cache, toPwa>> ELSE OnDaemonDisconnect

\* DaemonRegistry.add(): the registered connection is evicted, its close
\* handler runs before the new entry is set.
Add(c) ==
    /\ registered' = c
    /\ open' = (open \ {registered}) \cup {c}
    /\ wire' = [x \in Connections |-> IF x = registered THEN <<>> ELSE wire[x]]
    /\ IF registered = 0 THEN UNCHANGED <<cache, toPwa>> ELSE OnDaemonDisconnect

\* The close handler: the daemon's entry goes, whichever connection it holds.
\* A connection closes when its other end has gone or the watchdog has had no
\* frame from it.
HubCloses(c) ==
    /\ c \in open
    /\ conn.id = c => ~conn.path
    /\ open' = open \ {c}
    /\ registered' = 0
    /\ wire' = [wire EXCEPT ![c] = <<>>]
    /\ OnDaemonDisconnect
    /\ UNCHANGED <<sessionVars, clientVars, pwa, spent>>

\* What the router remembers after a frame of the daemon; only hello creates
\* the state, every other frame is dropped without one.
Cached(k, f) ==
    IF f.type = "hello"
    THEN [known |-> TRUE, sessions |-> f.sessions, inventory |-> {}]
    ELSE IF ~k.known THEN k
    ELSE IF f.type = "slash_inventory"
    THEN [k EXCEPT !.inventory = @ \cup {f.session}]
    ELSE [k EXCEPT !.sessions = Listed(@, f),
                   !.inventory = IF f.type = "session_close"
                                 THEN @ \ {f.session} ELSE @]

\* Mutant of OnDaemonFrame: a change of status is passed on and not remembered.
StateNotCached(c) ==
    /\ c \in open
    /\ wire[c] # <<>>
    /\ wire' = [wire EXCEPT ![c] = Tail(@)]
    /\ LET f == Head(wire[c]) IN
       /\ cache' = IF f.type = "session_state" THEN cache ELSE Cached(cache, f)
       /\ IF f.type = "hello" THEN Broadcast(Online(f.sessions))
          ELSE IF cache.known /\ f \in SessionFrame THEN Broadcast(f)
          ELSE UNCHANGED toPwa
    /\ UNCHANGED <<sessionVars, clientVars, open, registered, pwa, spent>>

\* onDaemonFrame() for the next frame of an open connection.  What is sent on
\* of an inventory only fills the PWA's menu.
OnDaemonFrame(c) ==
    /\ c \in open
    /\ wire[c] # <<>>
    /\ wire' = [wire EXCEPT ![c] = Tail(@)]
    /\ LET f == Head(wire[c]) IN
       /\ cache' = Cached(cache, f)
       /\ \/ f.type = "hello" /\ Broadcast(Online(f.sessions))
          \/ f \in SessionFrame /\ cache.known /\ Broadcast(f)
          \/ f.type = "slash_inventory" /\ UNCHANGED toPwa
          \/ f \in SessionFrame /\ ~cache.known /\ UNCHANGED toPwa
    /\ UNCHANGED <<sessionVars, clientVars, open, registered, pwa, spent>>

-----------------------------------------------------------------------------
(* The daemon: its connection *)

\* connect(): the hub has upgraded the connection and its open handler has run
\* before the daemon hears of it.
Dial ==
    /\ conn.status = "waiting"
    /\ dialed' = dialed + 1
    /\ conn' = [id |-> dialed', status |-> "dialing", path |-> TRUE]
    /\ Add(dialed')
    /\ UNCHANGED <<sessionVars, pending, pwa, spent>>

\* What the open listener sends before the queue.
Greeting == <<Hello>> \o SetToSeq({Inventory(s) : s \in inventory})

\* The open listener: hello, the replays, then the queue in its order.
DaemonOpen ==
    /\ conn.status = "dialing"
    /\ conn.path
    /\ conn' = [conn EXCEPT !.status = "open"]
    /\ wire' = [wire EXCEPT ![conn.id] = @ \o Greeting \o pending]
    /\ pending' = <<>>
    /\ UNCHANGED <<sessionVars, dialed, hubVars, pwaVars, spent>>

\* The network stops carrying the connection; neither end knows yet.
Cut ==
    /\ conn.status # "waiting"
    /\ conn.path
    /\ Spend("cut")
    /\ conn' = [conn EXCEPT !.path = FALSE]
    /\ wire' = [wire EXCEPT ![conn.id] = <<>>]
    /\ UNCHANGED <<sessionVars, pending, dialed, hubVars, pwaVars>>

\* scheduleReconnect()
Waiting == conn' = [id |-> 0, status |-> "waiting", path |-> FALSE]

\* Mutant of DaemonNotices: no watchdog, the half-open ws stays.
DaemonNeverNotices == FALSE /\ UNCHANGED vars

\* The close event of a broken connection, or the watchdog without a pong.
DaemonNotices ==
    /\ conn.status # "waiting"
    /\ ~conn.path
    /\ Waiting
    /\ UNCHANGED <<sessionVars, pending, dialed, hubVars, wire, pwaVars, spent>>

\* Only the pongs are lost: the daemon closes, what it has sent still arrives.
DaemonCloses ==
    /\ conn.status # "waiting"
    /\ conn.path
    /\ Spend("close")
    /\ Waiting
    /\ UNCHANGED <<sessionVars, pending, dialed, hubVars, wire, pwaVars>>

\* A new daemon process; the plugins register their sessions again.
DaemonRestart ==
    /\ Spend("restart")
    /\ live' = NoSessions
    /\ inventory' = {}
    /\ scans' = [s \in Sessions |-> 0]
    /\ pending' = <<>>
    /\ Waiting
    /\ UNCHANGED <<dialed, hubVars, wire, pwaVars>>

HubRestart ==
    /\ Spend("hub")
    /\ open' = {}
    /\ registered' = 0
    /\ cache' = NoState
    /\ wire' = [c \in Connections |-> <<>>]
    /\ conn' = [conn EXCEPT !.path = FALSE]
    /\ pwa' = [p \in Pwas |-> [pwa[p] EXCEPT !.status = "off"]]
    /\ toPwa' = [p \in Pwas |-> <<>>]
    /\ UNCHANGED <<sessionVars, pending, dialed>>

-----------------------------------------------------------------------------
(* The PWAs *)

\* The hub has the connection in PwaRegistry; subscribe is on its way.
PwaOpens(p) ==
    /\ pwa[p].status = "off"
    /\ pwa' = [pwa EXCEPT ![p].status = "open"]
    /\ UNCHANGED <<sessionVars, clientVars, hubVars, wire, toPwa, spent>>

\* onPwaSubscribe()
OnPwaSubscribe(p) ==
    /\ pwa[p].status = "open"
    /\ pwa' = [pwa EXCEPT ![p].status = "subscribed"]
    /\ toPwa' = [toPwa EXCEPT ![p] = Append(@, Snapshot(cache))]
    /\ UNCHANGED <<sessionVars, clientVars, hubVars, wire, spent>>

PwaLost(p) ==
    /\ pwa[p].status # "off"
    /\ Spend("away")
    /\ pwa' = [pwa EXCEPT ![p].status = "off"]
    /\ toPwa' = [toPwa EXCEPT ![p] = <<>>]
    /\ UNCHANGED <<sessionVars, clientVars, hubVars, wire>>

\* The reducer: what is shown after a frame.  A daemon that is not listed has
\* nothing to update.
Shown(v, f) ==
    IF f.type = "snapshot"
    THEN [listed |-> f.known, online |-> f.known, sessions |-> f.sessions]
    ELSE IF f.type = "daemon_online"
    THEN [listed |-> TRUE, online |-> TRUE, sessions |-> f.sessions]
    ELSE IF ~v.listed THEN v
    ELSE IF f.type = "daemon_offline" THEN [v EXCEPT !.online = FALSE]
    ELSE [v EXCEPT !.sessions = Listed(@, f)]

PwaReceive(p) ==
    /\ toPwa[p] # <<>>
    /\ toPwa' = [toPwa EXCEPT ![p] = Tail(@)]
    /\ pwa' = [pwa EXCEPT ![p].view = Shown(@, Head(toPwa[p]))]
    /\ UNCHANGED <<sessionVars, clientVars, hubVars, wire, spent>>

-----------------------------------------------------------------------------

Next ==
    \/ \E s \in Sessions :
        \/ Register(s) \/ Scanned(s) \/ ScanFails(s) \/ Unregister(s)
        \/ \E status \in Statuses : Transition(s, status)
    \/ \E c \in Connections : HubCloses(c) \/ OnDaemonFrame(c)
    \/ Dial \/ DaemonOpen \/ Cut \/ DaemonNotices \/ DaemonCloses
    \/ DaemonRestart \/ HubRestart
    \/ \E p \in Pwas :
        PwaOpens(p) \/ OnPwaSubscribe(p) \/ PwaLost(p) \/ PwaReceive(p)

Spec == Init /\ [][Next]_vars

\* Event loops run, both ends find out that a connection is gone, and whoever
\* dials keeps dialing.  Nothing is assumed of plugins, scans or faults.
Fairness ==
    /\ WF_vars(Dial) /\ WF_vars(DaemonOpen) /\ WF_vars(DaemonNotices)
    /\ \A c \in Connections :
        WF_vars(HubCloses(c)) /\ WF_vars(OnDaemonFrame(c))
    /\ \A p \in Pwas :
        WF_vars(PwaOpens(p)) /\ WF_vars(OnPwaSubscribe(p)) /\ WF_vars(PwaReceive(p))

FairSpec == Spec /\ Fairness

-----------------------------------------------------------------------------
(* Properties *)

\* Every variable has its type: the lists, frames and connections are
\* well-formed, and connection numbers stay within the bound.
TypeOK ==
    /\ live \in Lists
    /\ inventory \subseteq Sessions
    /\ scans \in [Sessions -> Nat]
    /\ pending \in Seq(DaemonFrame)
    /\ conn \in [id : {0} \cup Connections,
                 status : {"waiting", "dialing", "open"}, path : BOOLEAN]
    /\ dialed \in {0} \cup Connections
    /\ open \subseteq Connections
    /\ registered \in {0} \cup Connections
    /\ wire \in [Connections -> Seq(DaemonFrame)]
    /\ cache \in [known : BOOLEAN, sessions : Lists, inventory : SUBSET Sessions]
    /\ pwa \in [Pwas -> [status : {"off", "open", "subscribed"},
                         view : [listed : BOOLEAN, online : BOOLEAN,
                                 sessions : Lists]]]
    /\ toPwa \in [Pwas -> Seq(PwaFrame)]
    /\ spent \in [Events -> Nat]

\* The connection the hub would send to is the only one it has open, whatever
\* order the daemon's connections open, die and are replaced in, and a
\* connection that still works is that one: DaemonRegistry.add() evicts the
\* old connection before it sets the new entry, and the close handler's
\* remove(key) never takes the entry of another connection.
RegistryIsExact ==
    /\ open = {registered} \ {0}
    /\ conn.path => registered = conn.id

\* The hub never answers for a daemon it has no connection of: without one,
\* snapshot() does not list the daemon and no command can be addressed to it.
OfflineIsForgotten == cache.known => registered # 0

Truth == [known |-> TRUE, sessions |-> live, inventory |-> inventory]

\* On a working connection the frames in flight make the hub's cache of the
\* daemon complete: applied in their order they give exactly the sessions,
\* their statuses and the inventories that the daemon has now, also when the
\* queue of an outage is sent after a hello that is newer than the queue.
InFlightCompletes ==
    conn.status = "open" /\ conn.path =>
        FoldLeft(Cached, cache, wire[conn.id]) = Truth

\* While there is no connection the next greeting and the queue together will
\* tell the hub the truth: stale frames in the queue undo nothing that the
\* hello says.
QueueCompletes ==
    FoldLeft(Cached, NoState, Greeting \o pending) = Truth

\* What is in flight to a subscribed PWA turns what it shows into what the hub
\* has: broadcasts before the subscription, the snapshot and the frames after
\* it leave no gap between them.
PwaFollows ==
    \A p \in Pwas : pwa[p].status = "subscribed" =>
        LET v == FoldLeft(Shown, pwa[p].view, toPwa[p]) IN
        /\ v.online = cache.known
        /\ cache.known => v.sessions = cache.sessions

\* Once faults and plugins let go, every PWA shows the daemon online with the
\* sessions it really has, however the connections were lost before.
Mirrored ==
    <>[](\A p \in Pwas : pwa[p].view.online /\ pwa[p].view.sessions = live)

\* The lists on the way from the daemon to the PWA add up: what is queued and
\* what is in flight completes the hub's cache to the daemon's list, and the
\* PWA follows the cache.
ListsAddUp == TypeOK /\ QueueCompletes /\ InFlightCompletes /\ PwaFollows
=============================================================================
