-------------------------- MODULE PermissionRelay --------------------------
(***************************************************************************)
(* The way of a permission request from Claude to the PWAs and of the      *)
(* answer back:                                                            *)
(*                                                                         *)
(*   Claude -> plugin -> (unix socket) -> daemon -> (ws) -> hub -> PWAs    *)
(*                                                                         *)
(* with the connections of both kinds failing and coming back, the daemon  *)
(* restarting, several PWAs answering the same request, and Claude being   *)
(* answered at the terminal meanwhile.  A session has one plugin process;  *)
(* a connection of it to the daemon is a number, so that the Socket that   *)
(* requestToClient remembers can be told from a later one.                 *)
(*                                                                         *)
(* The status of the sessions (entries, shown, run) is the state of        *)
(* SessionFsm, whose operators the handlers of the daemon call.  A session *)
(* is in LiveSessions, in clientToSession and in sessionToClient exactly   *)
(* while it is in the Map of the machine.                                  *)
(***************************************************************************)
EXTENDS Integers, Sequences, FiniteSets, Functions

CONSTANTS
    Sessions,
    Requests,
    Owner,       \* request -> the session whose Claude asks it
    Pwas,
    Limit,       \* bound: how often each kind of event happens, see Events
    MaxEvents    \* bound: how many events happen in all

Decisions == {"allow", "deny"}

\* A plugin connects again, Claude uses the reply tool, the hub link breaks
\* with nothing in flight or takes frames along, the daemon restarts, a PWA
\* goes away, gives up on an answer, Claude is answered at the terminal.
Events == {"reconnect", "chat", "cut", "loss", "restart", "away", "timeout",
           "terminal"}

ASSUME OwnerAssumption == Owner \in [Requests -> Sessions]
ASSUME LimitAssumption == Limit \in [Events -> Nat] /\ MaxEvents \in Nat
ASSUME RequestsAssumption == IsFiniteSet(Requests)

VARIABLES
    claude,      \* request -> what Claude knows of it, and how
    plugin,      \* session -> the plugin process and its connection
    toDaemon,    \* session -> frames on the socket from the plugin
    toPlugin,    \* session -> frames on the socket to the plugin
    db,          \* request -> its row in the daemon's permissions table
    requestToClient,  \* request -> connection that asked, 0 when none
    entries, shown, run,   \* the session machine of the daemon
    link,        \* "up" while the daemon has its connection to the hub
    queued,      \* hub-client: frames sent while there is no connection
    toHub,       \* frames in flight from the daemon to the hub
    replies,     \* permission_reply frames in flight from the hub
    toPwa,       \* PWA -> frames in flight from the hub
    pwa,         \* PWA -> what it shows
    spent        \* event -> how often it has happened

fsmVars == <<entries, shown, run>>
socketVars == <<plugin, toDaemon, toPlugin>>
linkVars == <<link, queued, toHub, replies>>
pwaVars == <<toPwa, pwa>>
vars == <<claude, plugin, toDaemon, toPlugin, db, requestToClient, entries,
          shown, run, link, queued, toHub, replies, toPwa, pwa, spent>>

Fsm == INSTANCE SessionFsm WITH MaxPending <- Cardinality(Requests)

Live == DOMAIN entries

SpentInAll == FoldFunction(LAMBDA n, m : n + m, 0, spent)

\* One more event of this kind, within both bounds.
Spend(event) ==
    /\ spent[event] < Limit[event]
    /\ SpentInAll < MaxEvents
    /\ spent' = [spent EXCEPT ![event] = @ + 1]

\* The plugin has an open socket.
Connected(s) == plugin[s].status \in {"up", "leaving"}

NoView == [pending |-> {}, sent |-> {}, told |-> [r \in Requests |-> "none"]]

Init ==
    /\ claude = [r \in Requests |-> [answer |-> "unasked", via |-> "none"]]
    /\ plugin = [s \in Sessions |->
                    [status |-> "new", conn |-> 0, acks |-> 0, ready |-> FALSE]]
    /\ toDaemon = [s \in Sessions |-> <<>>]
    /\ toPlugin = [s \in Sessions |-> <<>>]
    /\ db = [r \in Requests |-> "none"]
    /\ requestToClient = [r \in Requests |-> 0]
    /\ Fsm!Init
    /\ link = "down"
    /\ queued = <<>> /\ toHub = <<>> /\ replies = <<>>
    /\ toPwa = [p \in Pwas |-> <<>>]
    /\ pwa = [p \in Pwas |-> [online |-> TRUE, view |-> NoView]]
    /\ spent = [e \in Events |-> 0]

-----------------------------------------------------------------------------
(* Frames *)

Bare(type) == [type |-> type]
Request(r) == [type |-> "permission_request", id |-> r]
Reply(r, d) == [type |-> "permission_reply", id |-> r, decision |-> d]
Resolved(r, d) == [type |-> "permission_resolved", id |-> r, decision |-> d]

PluginFrame ==
    [type : {"ack"}] \cup
    [type : {"permission_reply"}, id : Requests, decision : Decisions]

HubFrame ==
    [type : {"chat_out"}] \cup
    [type : {"permission_request"}, id : Requests] \cup
    [type : {"permission_resolved"}, id : Requests, decision : Decisions]

PluginSends(s, f) == toDaemon' = [toDaemon EXCEPT ![s] = Append(@, f)]

\* hub.send(): frames wait in the array of the hub client while it is not open.
HubSend(f) ==
    IF link = "up"
    THEN toHub' = Append(toHub, f) /\ UNCHANGED queued
    ELSE queued' = Append(queued, f) /\ UNCHANGED toHub

-----------------------------------------------------------------------------
(* The plugin *)

\* A new connection, numbered n; register is the first frame on it.
Connect(s, n) ==
    /\ plugin' = [plugin EXCEPT ![s].status = "up", ![s].conn = n, ![s].acks = 1]
    /\ PluginSends(s, Bare("register"))
    /\ UNCHANGED <<claude, toPlugin, db, requestToClient, fsmVars, linkVars, pwaVars>>

Start(s) ==
    /\ plugin[s].status = "new"
    /\ Connect(s, 1)
    /\ UNCHANGED spent

Reconnect(s) ==
    /\ plugin[s].status = "down"
    /\ Spend("reconnect")
    /\ Connect(s, plugin[s].conn + 1)

\* Claude asks.  sendOneWay() writes when there is a socket and returns
\* silently when there is none.
Ask(r) ==
    LET s == Owner[r] IN
    /\ claude[r].answer = "unasked"
    /\ plugin[s].ready
    /\ plugin[s].status # "gone"
    /\ claude' = [claude EXCEPT ![r].answer = "open"]
    /\ IF Connected(s) THEN PluginSends(s, Request(r)) ELSE UNCHANGED toDaemon
    /\ UNCHANGED <<plugin, toPlugin, db, requestToClient, fsmVars, linkVars,
                   pwaVars, spent>>

\* The dialog of the terminal answers the request; nobody else hears of it.
AnswerAtTerminal(r, d) ==
    /\ claude[r].answer = "open"
    /\ Spend("terminal")
    /\ claude' = [claude EXCEPT ![r] = [answer |-> d, via |-> "terminal"]]
    /\ UNCHANGED <<socketVars, db, requestToClient, fsmVars, linkVars, pwaVars>>

\* The reply tool: send() waits for the next frame, whatever it is.
ReplyTool(s) ==
    /\ plugin[s].ready
    /\ Connected(s)
    /\ Spend("chat")
    /\ plugin' = [plugin EXCEPT ![s].acks = @ + 1]
    /\ PluginSends(s, Bare("chat_out"))
    /\ UNCHANGED <<claude, toPlugin, db, requestToClient, fsmVars, linkVars, pwaVars>>

\* The data handler: a waiting send() takes the frame, else it is dispatched.
\* Claude ignores a decision of a request it has an answer for.
PluginData(s) ==
    /\ toPlugin[s] # <<>>
    /\ toPlugin' = [toPlugin EXCEPT ![s] = Tail(@)]
    /\ LET f == Head(toPlugin[s]) IN
       \/ /\ plugin[s].acks > 0
          /\ plugin' = [plugin EXCEPT ![s].acks = @ - 1, ![s].ready = TRUE]
          /\ UNCHANGED claude
       \/ /\ plugin[s].acks = 0
          /\ f.type = "permission_reply"
          /\ claude' = IF claude[f.id].answer = "open"
                       THEN [claude EXCEPT ![f.id] =
                                [answer |-> f.decision, via |-> "relay"]]
                       ELSE claude
          /\ UNCHANGED plugin
       \/ /\ plugin[s].acks = 0
          /\ f.type = "ack"
          /\ UNCHANGED <<plugin, claude>>
    /\ UNCHANGED <<toDaemon, db, requestToClient, fsmVars, linkVars, pwaVars, spent>>

\* goodbye() with an open socket: bye is sent and its ack awaited.
Goodbye(s) ==
    /\ plugin[s].status = "up"
    /\ plugin[s].ready
    /\ plugin' = [plugin EXCEPT ![s].status = "leaving", ![s].acks = @ + 1]
    /\ PluginSends(s, Bare("bye"))
    /\ UNCHANGED <<claude, toPlugin, db, requestToClient, fsmVars, linkVars,
                   pwaVars, spent>>

\* Mutant of SocketClosed: the daemon's onClose keeps the session.
SocketClosedKeepsSession(s, next) ==
    /\ plugin' = [plugin EXCEPT ![s].status = next, ![s].acks = 0, ![s].ready = TRUE]
    /\ toDaemon' = [toDaemon EXCEPT ![s] = <<>>]
    /\ toPlugin' = [toPlugin EXCEPT ![s] = <<>>]
    /\ UNCHANGED <<claude, db, requestToClient, fsmVars, linkVars, pwaVars, spent>>

\* The connection of a plugin closes.  Waiting sends resolve, what is in flight
\* is lost, and onClose of the daemon removes the session, if it is registered.
\* requestToClient keeps the closed connection.
SocketClosed(s, next) ==
    /\ plugin' = [plugin EXCEPT ![s].status = next, ![s].acks = 0, ![s].ready = TRUE]
    /\ toDaemon' = [toDaemon EXCEPT ![s] = <<>>]
    /\ toPlugin' = [toPlugin EXCEPT ![s] = <<>>]
    /\ IF s \in Live THEN Fsm!RemoveSession(s) ELSE UNCHANGED fsmVars
    /\ UNCHANGED <<claude, db, requestToClient, linkVars, pwaVars, spent>>

\* kill_session on a session outside tmux, or a bad frame: the plugin lives on.
Drop(s) ==
    /\ plugin[s].status = "up"
    /\ SocketClosed(s, "down")

\* The process ends: after goodbye(), or killed with its tmux session.
Exit(s) ==
    /\ plugin[s].status \in {"up", "leaving", "down"}
    /\ SocketClosed(s, "gone")

-----------------------------------------------------------------------------
(* The daemon: frames from the plugins *)

\* The daemon takes the next frame of the plugin of s, of this type.
Receive(s, type) ==
    /\ toDaemon[s] # <<>>
    /\ Head(toDaemon[s]).type = type
    /\ toDaemon' = [toDaemon EXCEPT ![s] = Tail(@)]

Acknowledge(s) == toPlugin' = [toPlugin EXCEPT ![s] = Append(@, Bare("ack"))]

OnRegister(s) ==
    /\ Receive(s, "register")
    /\ Fsm!Register(s)
    /\ Acknowledge(s)
    /\ UNCHANGED <<claude, plugin, db, requestToClient, linkVars, pwaVars, spent>>

OnBye(s) ==
    /\ Receive(s, "bye")
    /\ IF s \in Live THEN Fsm!RemoveSession(s) ELSE UNCHANGED fsmVars
    /\ Acknowledge(s)
    /\ UNCHANGED <<claude, plugin, db, requestToClient, linkVars, pwaVars, spent>>

\* A request on a socket that has no session is dropped.
OnPermissionRequest(s) ==
    /\ Receive(s, "permission_request")
    /\ LET r == Head(toDaemon[s]).id IN
       IF s \notin Live
       THEN UNCHANGED <<db, requestToClient, fsmVars, queued, toHub>>
       ELSE /\ db' = [db EXCEPT ![r] = IF @ = "none" THEN "open" ELSE @]
            /\ requestToClient' = [requestToClient EXCEPT ![r] = plugin[s].conn]
            /\ Fsm!OnPermissionRequest(s)
            /\ HubSend(Request(r))
    /\ UNCHANGED <<claude, plugin, toPlugin, link, replies, pwaVars, spent>>

OnChatOut(s) ==
    /\ Receive(s, "chat_out")
    /\ HubSend(Bare("chat_out"))
    /\ Acknowledge(s)
    /\ UNCHANGED <<claude, plugin, db, requestToClient, fsmVars, link, replies,
                   pwaVars, spent>>

-----------------------------------------------------------------------------
(* The daemon: answers from the hub *)

\* Mutant of ResolveRequest: the update has no "resolved_at IS NULL".
ResolveRequestAgain(r, d) ==
    /\ db[r] # "none"
    /\ db' = [db EXCEPT ![r] = d]

\* resolveRequest(): the row is updated while it is unresolved.
ResolveRequest(r, d) ==
    /\ db[r] = "open"
    /\ db' = [db EXCEPT ![r] = d]

\* Mutant of ReplyToAsker: the decision never leaves the daemon.
ReplyToNobody(r, d) ==
    /\ requestToClient' = [requestToClient EXCEPT ![r] = 0]
    /\ UNCHANGED toPlugin

\* The connection that asked gets the decision; on a closed one it is lost.
ReplyToAsker(r, d) ==
    LET s == Owner[r] IN
    /\ requestToClient' = [requestToClient EXCEPT ![r] = 0]
    /\ IF /\ requestToClient[r] # 0
          /\ requestToClient[r] = plugin[s].conn
          /\ Connected(s)
       THEN toPlugin' = [toPlugin EXCEPT ![s] = Append(@, Reply(r, d))]
       ELSE UNCHANGED toPlugin

\* Mutant of OnPermissionReply: the session machine is not told.
ReplyLeavesWaiting ==
    /\ replies # <<>>
    /\ replies' = Tail(replies)
    /\ LET f == Head(replies) IN
       \/ /\ ResolveRequest(f.id, f.decision)
          /\ ReplyToAsker(f.id, f.decision)
          /\ HubSend(Resolved(f.id, f.decision))
       \/ /\ db[f.id] # "open"
          /\ UNCHANGED <<db, requestToClient, toPlugin, queued, toHub>>
    /\ UNCHANGED <<claude, plugin, toDaemon, fsmVars, link, pwaVars, spent>>

\* The session of the frame is the session of the request; its machine may
\* have been removed since.
OnPermissionReply ==
    /\ replies # <<>>
    /\ replies' = Tail(replies)
    /\ LET f == Head(replies)
           s == Owner[f.id]
       IN \/ /\ ResolveRequest(f.id, f.decision)
             /\ ReplyToAsker(f.id, f.decision)
             /\ HubSend(Resolved(f.id, f.decision))
             /\ IF s \in Live THEN Fsm!OnPermissionResolved(s)
                              ELSE UNCHANGED fsmVars
          \/ /\ db[f.id] # "open"
             /\ UNCHANGED <<db, requestToClient, toPlugin, queued, toHub, fsmVars>>
    /\ UNCHANGED <<claude, plugin, toDaemon, link, pwaVars, spent>>

\* shutdown() or a crash, and the next start: the table is all that is kept.
DaemonRestart ==
    /\ Spend("restart")
    /\ plugin' = [s \in Sessions |->
           [plugin[s] EXCEPT
               !.status = CASE @ = "up" -> "down" [] @ = "leaving" -> "gone"
                            [] OTHER -> @,
               !.acks = 0,
               !.ready = @ \/ Connected(s)]]
    /\ toDaemon' = [s \in Sessions |-> <<>>]
    /\ toPlugin' = [s \in Sessions |-> <<>>]
    /\ requestToClient' = [r \in Requests |-> 0]
    /\ entries' = [s \in {} |-> entries[s]]
    /\ shown' = [s \in Sessions |-> "idle"]
    /\ run' = [s \in Sessions |-> "none"]
    /\ link' = "down"
    /\ queued' = <<>> /\ toHub' = <<>> /\ replies' = <<>>
    /\ UNCHANGED <<claude, db, pwaVars>>

-----------------------------------------------------------------------------
(* The link between the daemon and the hub *)

\* The open listener sends hello and its replays, none of which is about a
\* permission, and then what has waited.
LinkUp ==
    /\ link = "down"
    /\ link' = "up"
    /\ toHub' = queued
    /\ queued' = <<>>
    /\ UNCHANGED <<claude, socketVars, db, requestToClient, fsmVars, replies,
                   pwaVars, spent>>

\* The connection breaks, with what is in flight, in both directions.
LinkDown ==
    /\ link = "up"
    /\ Spend(IF toHub = <<>> /\ replies = <<>> THEN "cut" ELSE "loss")
    /\ link' = "down"
    /\ toHub' = <<>> /\ replies' = <<>>
    /\ UNCHANGED <<claude, socketVars, db, requestToClient, fsmVars, queued, pwaVars>>

\* onDaemonFrame(): a frame about a permission goes to the PWAs there are, and
\* nothing of it is kept.
HubForward ==
    /\ toHub # <<>>
    /\ toHub' = Tail(toHub)
    /\ toPwa' = [p \in Pwas |-> IF pwa[p].online THEN Append(toPwa[p], Head(toHub))
                                ELSE toPwa[p]]
    /\ UNCHANGED <<claude, socketVars, db, requestToClient, fsmVars, link, queued,
                   replies, pwa, spent>>

-----------------------------------------------------------------------------
(* The PWAs *)

\* Mutant of Reduce: the card of an answer somebody else gave stays.
ReduceOwnAnswers(view, f) ==
    CASE f.type = "permission_request" ->
            [view EXCEPT !.pending = @ \cup {f.id}]
      [] f.type = "permission_resolved" /\ f.id \in view.sent ->
            [view EXCEPT !.pending = @ \ {f.id}, !.sent = @ \ {f.id},
                         !.told[f.id] = f.decision]
      [] OTHER -> view

\* The reducer: a request is shown until it is resolved.
Reduce(view, f) ==
    CASE f.type = "permission_request" ->
            [view EXCEPT !.pending = @ \cup {f.id}]
      [] f.type = "permission_resolved" ->
            [view EXCEPT !.pending = @ \ {f.id}, !.sent = @ \ {f.id},
                         !.told[f.id] = f.decision]
      [] OTHER -> view

PwaReceive(p) ==
    /\ toPwa[p] # <<>>
    /\ toPwa' = [toPwa EXCEPT ![p] = Tail(@)]
    /\ pwa' = [pwa EXCEPT ![p].view = Reduce(@, Head(toPwa[p]))]
    /\ UNCHANGED <<claude, socketVars, db, requestToClient, fsmVars, linkVars, spent>>

\* A button of the card, which is disabled while an answer is pending.  The hub
\* forwards the answer when the daemon is connected and drops it otherwise.
SendPermissionReply(p, r, d) ==
    /\ pwa[p].online
    /\ r \in pwa[p].view.pending \ pwa[p].view.sent
    /\ pwa' = [pwa EXCEPT ![p].view.sent = @ \cup {r}]
    /\ replies' = IF link = "up" THEN Append(replies, Reply(r, d)) ELSE replies
    /\ UNCHANGED <<claude, socketVars, db, requestToClient, fsmVars, link, queued,
                   toHub, toPwa, spent>>

\* The answer was not confirmed in time: the buttons come back.
CommandTimeout(p, r) ==
    /\ r \in pwa[p].view.sent
    /\ Spend("timeout")
    /\ pwa' = [pwa EXCEPT ![p].view.sent = @ \ {r}]
    /\ UNCHANGED <<claude, socketVars, db, requestToClient, fsmVars, linkVars, toPwa>>

PwaOffline(p) ==
    /\ pwa[p].online
    /\ Spend("away")
    /\ pwa' = [pwa EXCEPT ![p].online = FALSE]
    /\ toPwa' = [toPwa EXCEPT ![p] = <<>>]
    /\ UNCHANGED <<claude, socketVars, db, requestToClient, fsmVars, linkVars>>

\* The PWA reconnects and subscribes, with its view or, after a reload, without.
\* The snapshot has nothing about permissions.
PwaOnline(p) ==
    /\ ~ pwa[p].online
    /\ \E view \in {pwa[p].view, NoView} :
           pwa' = [pwa EXCEPT ![p] = [online |-> TRUE, view |-> view]]
    /\ UNCHANGED <<claude, socketVars, db, requestToClient, fsmVars, linkVars,
                   toPwa, spent>>

-----------------------------------------------------------------------------

Next ==
    \/ \E s \in Sessions :
        \/ Start(s) \/ Reconnect(s) \/ ReplyTool(s) \/ PluginData(s)
        \/ Goodbye(s) \/ Drop(s) \/ Exit(s)
        \/ OnRegister(s) \/ OnBye(s) \/ OnPermissionRequest(s) \/ OnChatOut(s)
    \/ \E r \in Requests :
        \/ Ask(r)
        \/ \E d \in Decisions :
            \/ AnswerAtTerminal(r, d)
            \/ \E p \in Pwas : SendPermissionReply(p, r, d)
        \/ \E p \in Pwas : CommandTimeout(p, r)
    \/ OnPermissionReply \/ DaemonRestart
    \/ LinkUp \/ LinkDown \/ HubForward
    \/ \E p \in Pwas : PwaReceive(p) \/ PwaOffline(p) \/ PwaOnline(p)

Spec == Init /\ [][Next]_vars

\* The event loops take what arrives and the link is retried for ever; nothing
\* is assumed of Claude, of the plugins' lives or of the people at the PWAs.  A
\* plugin that says goodbye waits half a second at most.
Fairness ==
    /\ \A s \in Sessions :
        /\ WF_vars(PluginData(s))
        /\ WF_vars(OnRegister(s)) /\ WF_vars(OnBye(s))
        /\ WF_vars(OnPermissionRequest(s)) /\ WF_vars(OnChatOut(s))
        /\ WF_vars(plugin[s].status = "leaving" /\ Exit(s))
    /\ WF_vars(OnPermissionReply)
    /\ WF_vars(LinkUp)
    /\ WF_vars(HubForward)
    /\ \A p \in Pwas : WF_vars(PwaReceive(p)) /\ WF_vars(PwaOnline(p))

FairSpec == Spec /\ Fairness

-----------------------------------------------------------------------------

DaemonFrame ==
    [type : {"register", "bye", "chat_out"}] \cup
    [type : {"permission_request"}, id : Requests]

ReplyFrame == [type : {"permission_reply"}, id : Requests, decision : Decisions]

View == [pending : SUBSET Requests, sent : SUBSET Requests,
         told : [Requests -> {"none"} \cup Decisions]]

Process == [status : {"new", "up", "down", "leaving", "gone"},
            conn : Nat, acks : Nat, ready : BOOLEAN]

PluginTypes ==
    /\ claude \in [Requests -> [answer : {"unasked", "open"} \cup Decisions,
                                via : {"none", "relay", "terminal"}]]
    /\ plugin \in [Sessions -> Process]

SocketTypes ==
    /\ toDaemon \in [Sessions -> Seq(DaemonFrame)]
    /\ toPlugin \in [Sessions -> Seq(PluginFrame)]

DaemonTypes ==
    /\ db \in [Requests -> {"none", "open"} \cup Decisions]
    /\ requestToClient \in [Requests -> Nat]
    /\ Fsm!TypeOK

LinkTypes ==
    /\ link \in {"up", "down"}
    /\ queued \in Seq(HubFrame)
    /\ toHub \in Seq(HubFrame)
    /\ replies \in Seq(ReplyFrame)

PwaTypes ==
    /\ toPwa \in [Pwas -> Seq(HubFrame)]
    /\ pwa \in [Pwas -> [online : BOOLEAN, view : View]]

\* Frames of every channel and views of every PWA are of the kinds the code
\* knows, and no send() of a plugin is acknowledged more than once.
TypeOK ==
    /\ PluginTypes
    /\ SocketTypes
    /\ DaemonTypes
    /\ LinkTypes
    /\ PwaTypes
    /\ spent \in [Events -> Nat]

\* The frames of q that carry a decision carry the one in the table.
Carries(q) ==
    \A i \in 1..Len(q) :
        q[i].type \in {"permission_reply", "permission_resolved"} =>
            q[i].decision = db[q[i].id]

\* One request, one decision: whatever answers race, what the table says, what
\* is on its way to the plugin and to the PWAs, what Claude was told and what
\* each PWA shows are the same.
Agreement ==
    /\ \A s \in Sessions : Carries(toPlugin[s])
    /\ Carries(queued) /\ Carries(toHub)
    /\ \A p \in Pwas :
        /\ Carries(toPwa[p])
        /\ \A r \in Requests :
            pwa[p].view.told[r] # "none" => pwa[p].view.told[r] = db[r]
    /\ \A r \in Requests : claude[r].via = "relay" => claude[r].answer = db[r]

Unanswered(s) == {r \in Requests : Owner[r] = s /\ db[r] = "open"}

\* No session waits for nothing: through reconnections and restarts the count
\* of the session machine never exceeds the unanswered requests of the table.
NoPhantomWait ==
    \A s \in Live : entries[s].pendingCount <= Cardinality(Unanswered(s))

\* A session is live only while its plugin has the connection it registered on:
\* no interleaving of closing, reconnecting and leaving keeps it in the list.
LiveIsConnected == \A s \in Live : Connected(s)

InFlight(p, r) ==
    \E q \in {queued, toHub, toPwa[p]} :
        \E i \in 1..Len(q) : q[i].type # "chat_out" /\ q[i].id = r

\* No frame has been lost, and nobody has missed one: the events after which
\* the code shows a request to nobody, because nothing replays it.
NothingMissed == \A e \in {"loss", "restart", "away"} : spent[e] = 0

\* As long as no frame is lost, a PWA that nothing is on its way to shows the
\* requests that are open, those asked while the link was down among them ...
OpenIsShown ==
    NothingMissed =>
        \A p \in Pwas, r \in Requests :
            db[r] = "open" /\ ~ InFlight(p, r) => r \in pwa[p].view.pending

\* ... and only those: InlinePermissionCard.tsx:38-40, "When the request is
\* resolved (locally or cross-device), pendingPermissions[request_id]
\* disappears from the reducer".
ShownIsOpen ==
    NothingMissed =>
        \A p \in Pwas, r \in Requests :
            r \in pwa[p].view.pending /\ ~ InFlight(p, r) => db[r] = "open"

Decision == INSTANCE FirstAnswer WITH
    Undecided <- "none",
    recorded <- {r \in Requests : db[r] # "none"},
    decision <- [r \in Requests |-> IF db[r] \in Decisions THEN db[r] ELSE "none"],
    heard <- [r \in Requests |-> IF claude[r].via = "relay" THEN claude[r].answer
                                 ELSE "none"]

\* The relay implements the abstract decision: the first answer that reaches the
\* daemon is the decision, nothing changes it, Claude hears it at most once.
ImplementsDecision == Decision!Spec

\* The plugin still has its first connection.
NeverLeft(s) == Connected(s) /\ plugin[s].conn = 1

\* A request asked over a connection that lasts is shown by every PWA, is
\* decided or is answered at the terminal, if no frame is lost.
AskIsShown ==
    \A r \in Requests :
        (claude[r].answer = "open" /\ NeverLeft(Owner[r])) ~>
            \/ \A p \in Pwas : r \in pwa[p].view.pending
            \/ db[r] \in Decisions
            \/ claude[r].answer # "open"
            \/ ~ NeverLeft(Owner[r])
            \/ ~ NothingMissed

\* A decision reaches Claude if the connection that asked lasts and Claude
\* does not use the reply tool, whose send() may take the decision for its ack.
DecisionDelivered ==
    \A r \in Requests :
        (db[r] \in Decisions /\ claude[r].answer = "open" /\ NeverLeft(Owner[r])) ~>
            \/ claude[r].answer # "open"
            \/ ~ NeverLeft(Owner[r])
            \/ spent["chat"] > 0

\* The cards of the PWAs are the open requests: whatever is open and was not
\* lost on its way is shown or on its way, and what is shown is open or its
\* resolution is on its way.
CardsAreOpen == TypeOK /\ OpenIsShown /\ ShownIsOpen

\* What the relay is for: where no fault took them away, a request comes to
\* be shown and a decision comes to Claude.
RelayDelivers == AskIsShown /\ DecisionDelivered
=============================================================================
