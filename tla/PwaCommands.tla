----------------------------- MODULE PwaCommands ----------------------------
(***************************************************************************)
(* The commands a PWA gives: the table of pending commands and its timers, *)
(* the WebSocket they are sent over with its reconnects and the sign-out   *)
(* after three closes without a frame, what the screens let the user do,   *)
(* and the way of a command through the router to the daemon and of its    *)
(* answer back.  One PWA, one daemon.                                      *)
(*                                                                         *)
(* The id of a command is its key in the table: a fresh one for a message, *)
(* a start or a page of history, that of the request for a reply, and the  *)
(* session for killCommandId.  The reducer and the effect that runs after  *)
(* it are one step.  What a socket of an earlier effect closure still has  *)
(* to say does nothing (it is not wsRef.current) and is left out.          *)
(***************************************************************************)
EXTENDS Naturals, FiniteSets, SequencesExt

CONSTANTS
    Sessions,   \* session ids
    Requests,   \* permission requests
    Fresh,      \* bound: the ids for messages, starts and pages of history
    MaxQueue,   \* bound: frames on their way to the hub
    MaxEvents   \* bound: how many events happen

\* An event: the network swallows frames, the hub closes or refuses a connection, the
\* browser is offline, the token is revoked, the page is opened anew, the user signs out,
\* the daemon loses the hub, a session comes or ends by itself, a pending start expires,
\* another PWA replies.

ASSUME LimitAssumption == MaxEvents \in Nat /\ MaxQueue \in Nat

None == "none"
Decisions == {"allow", "deny"}
ASSUME IdsAssumption ==
    /\ Sessions \cap (Requests \cup Fresh) = {} /\ Requests \cap Fresh = {}
    /\ None \notin Sessions \cup Requests \cup Fresh

VARIABLES
    bearer, valid,  \* the PWA has a token; the hub accepts it
    browserOnline,
    sock,           \* wsRef.current
    connected, got, frameless, stopped,
    cmds, timers,   \* pendingCommands, timersRef
    used,           \* fresh ids given away
    view, cards,    \* what the PWA shows of the daemon; its permission cards
    receipts,       \* permissionResolutions: request -> the decision it was told
    up, down,       \* frames to the hub and from it
    online,        \* the hub has a connection of the daemon
    sessions, starts, asked,        \* the daemon's sessions, pendingStarts, requests
    decision,       \* request -> the decision the daemon has recorded
    done,           \* history: messages handed on, starts that opened a session, pages
                    \* that were sent, sessions that ended
    spent

connection == <<bearer, valid, browserOnline, sock, connected, got, frameless, stopped>>
table == <<cmds, timers, used>>
screen == <<view, cards, receipts>>
daemon == <<online, sessions, starts, asked, decision, done>>
vars == <<connection, table, screen, up, down, daemon, spent>>

Ids == Sessions \cup Requests \cup Fresh

Spend == spent < MaxEvents /\ spent' = spent + 1

Frame(type, id, scope) == [type |-> type, id |-> id, scope |-> scope]
NoTable == [i \in {} |-> None]
NoDecision == [r \in Requests |-> None]
NoDaemon == [online |-> FALSE, sessions |-> {}]
TheDaemon == [online |-> online, sessions |-> IF online THEN sessions ELSE {}]

Init ==
    /\ bearer = TRUE /\ valid = TRUE /\ browserOnline = TRUE
    /\ sock = "connecting" /\ connected = FALSE /\ got = FALSE /\ frameless = 0 /\ stopped = FALSE
    /\ cmds = NoTable /\ timers = {} /\ used = {}
    /\ view = NoDaemon /\ cards = {} /\ receipts = NoDecision /\ up = <<>> /\ down = <<>>
    /\ online = TRUE /\ sessions = Sessions
    /\ starts = <<>> /\ asked = {} /\ decision = NoDecision /\ done = {}
    /\ spent = 0

-----------------------------------------------------------------------------
(* The table of pending commands *)

Pending(i) == i \in DOMAIN cmds /\ cmds[i].status = "pending"
Of(kind, scope) == {i \in DOMAIN cmds : cmds[i].kind = kind /\ cmds[i].scope = scope}

Without(c, ids) == [i \in DOMAIN c \ ids |-> c[i]]
Settle(c, i, status) ==
    IF i \in DOMAIN c /\ c[i].status = "pending" THEN [c EXCEPT ![i].status = status] ELSE c

\* Commits the table; the effect clears the timers of what is not pending in it.
Commit(c, armed) ==
    /\ cmds' = c
    /\ timers' = {i \in timers \cup armed : i \in DOMAIN c /\ c[i].status = "pending"}

\* What a new command of this kind and scope replaces.
Stale(kind, scope, id) ==
    {i \in DOMAIN cmds : /\ cmds[i].kind = kind /\ cmds[i].scope = scope
                         /\ cmds[i].status # "pending"
                         /\ kind = "reply" => i = id}

\* Mutant: settled commands of the scope stay in the table.
CreateBeside(kind, id, scope) ==
    Commit([i \in DOMAIN cmds \cup {id} |->
              IF i = id THEN [kind |-> kind, scope |-> scope, status |-> "pending"] ELSE cmds[i]],
           {id})
Create(kind, id, scope) ==
    LET kept == Without(cmds, Stale(kind, scope, id))
    IN  Commit([i \in DOMAIN kept \cup {id} |->
              IF i = id THEN [kind |-> kind, scope |-> scope, status |-> "pending"] ELSE kept[i]],
           {id})

\* 30 s after it was armed.
CommandTimeout(id) ==
    /\ id \in timers
    /\ Commit(Settle(cmds, id, "timed_out"), {})
    /\ UNCHANGED <<connection, used, screen, up, down, daemon, spent>>

-----------------------------------------------------------------------------
(* The connection *)

\* The effect of useHub runs again for another bearer.
Restart ==
    /\ sock' = "connecting" /\ got' = FALSE /\ frameless' = 0 /\ stopped' = FALSE
    /\ timers' = {}

Open == sock \in {"open", "half"}   \* readyState is OPEN

\* setTimeout(connect)
Dial ==
    /\ sock = "none" /\ ~stopped
    /\ sock' = "connecting" /\ got' = FALSE
    /\ UNCHANGED <<bearer, valid, browserOnline, connected, frameless, stopped, table, screen,
                   up, down, daemon, spent>>

\* The hub accepts the token, and onopen subscribes.
Connect ==
    /\ sock = "connecting" /\ bearer /\ valid /\ browserOnline
    /\ sock' = "open" /\ connected' = TRUE
    /\ up' = <<Frame("subscribe", None, None)>> /\ down' = <<>>
    /\ UNCHANGED <<bearer, valid, browserOnline, got, frameless, stopped, table, screen, daemon,
                   spent>>

\* reconnect(): onAuthFailure after the third close in a row without a frame.
OnClose ==
    /\ connected' = FALSE /\ up' = <<>> /\ down' = <<>> /\ got' = FALSE
    /\ IF browserOnline /\ ~got /\ frameless = 2
       THEN /\ bearer' = FALSE
            /\ IF bearer THEN Restart
               ELSE sock' = "none" /\ stopped' = TRUE /\ frameless' = 3 /\ UNCHANGED timers
       ELSE /\ sock' = "none"
            /\ frameless' = IF got THEN 0 ELSE IF browserOnline THEN frameless + 1 ELSE frameless
            /\ UNCHANGED <<bearer, stopped, timers>>

Closes ==
    /\ OnClose
    /\ UNCHANGED <<valid, browserOnline, cmds, used, screen, daemon>>

\* The hub answers 401, or nobody answers.
Refused ==
    /\ sock = "connecting"
    /\ \/ ~(bearer /\ valid /\ browserOnline) /\ UNCHANGED spent
       \/ Spend
    /\ Closes

\* Mutant: without the watchdog's half of the interval.
HeartbeatOnlyPings ==
    /\ sock = "half" /\ sock' = "half"
    /\ UNCHANGED <<bearer, valid, browserOnline, connected, got, frameless, stopped, table,
                   screen, up, down, daemon, spent>>

\* No pong for 45 s.
Heartbeat ==
    /\ sock = "half" /\ sock' = "closing"
    /\ UNCHANGED <<bearer, valid, browserOnline, connected, got, frameless, stopped, table,
                   screen, up, down, daemon, spent>>

Closed == sock = "closing" /\ Closes /\ UNCHANGED spent

HubCloses == sock = "open" /\ Spend /\ Closes

Cut ==
    /\ sock = "open" /\ Spend
    /\ sock' = "half" /\ up' = <<>> /\ down' = <<>>
    /\ UNCHANGED <<bearer, valid, browserOnline, connected, got, frameless, stopped, table,
                   screen, daemon>>

Offline ==
    /\ browserOnline /\ Spend
    /\ browserOnline' = FALSE
    /\ sock' = IF sock = "open" THEN "half" ELSE sock
    /\ up' = <<>> /\ down' = <<>>
    /\ UNCHANGED <<bearer, valid, connected, got, frameless, stopped, table, screen, daemon>>

Online ==
    /\ ~browserOnline /\ browserOnline' = TRUE
    /\ UNCHANGED <<bearer, valid, sock, connected, got, frameless, stopped, table, screen, up, down,
                   daemon, spent>>

\* The session is revoked: the hub accepts no new connection of this token.
Revoke ==
    /\ valid /\ bearer /\ Spend
    /\ valid' = FALSE
    /\ UNCHANGED <<bearer, browserOnline, sock, connected, got, frameless, stopped, table, screen,
                   up, down, daemon>>

SignOut ==
    /\ bearer /\ Spend
    /\ bearer' = FALSE /\ Restart
    /\ down' = <<>>
    /\ UNCHANGED <<valid, browserOnline, connected, cmds, used, screen, up, daemon>>

\* The page is opened anew, or comes back from the sign-in page.
Reload ==
    /\ Spend
    /\ bearer' = TRUE /\ valid' = (valid \/ ~bearer)
    /\ Restart /\ connected' = FALSE /\ cmds' = NoTable
    /\ view' = NoDaemon /\ cards' = {} /\ receipts' = NoDecision /\ down' = <<>>
    /\ UNCHANGED <<browserOnline, used, up, daemon>>

-----------------------------------------------------------------------------
(* What the user can do *)

Send(frame) == up' = IF sock = "open" THEN Append(up, frame) ELSE up

\* A command is sent: no send*() does anything while the socket is not open.
Command(kind, id, scope, says) ==
    /\ Open /\ bearer /\ Len(up) < MaxQueue
    /\ Send(Frame(kind, id, says))
    /\ Create(kind, id, scope)
    /\ UNCHANGED <<connection, screen, down, daemon, spent>>

Listed(s) == view.online /\ s \in view.sessions
TakesFresh(id) ==
    used # Fresh /\ id = (CHOOSE i \in Fresh \ used : TRUE) /\ used' = used \cup {id}

\* The composer is enabled; it blocks itself while a message of the session is pending.
SendChat(s, id) ==
    /\ Listed(s) /\ connected /\ cards = {}
    /\ \A i \in Of("chat_send", s) : cmds[i].status # "pending"
    /\ TakesFresh(id) /\ Command("chat_send", id, s, s)

\* The form of the daemon's card.
StartSession(id) ==
    /\ view.online
    /\ \A i \in Of("start_session", None) : cmds[i].status # "pending"
    /\ TakesFresh(id) /\ Command("start_session", id, None, None)

\* "Load earlier events"
RequestHistory(s, id) ==
    /\ Listed(s)
    /\ \A i \in Of("request_history", s) : cmds[i].status # "pending"
    /\ TakesFresh(id) /\ Command("request_history", id, s, s)

\* The row has its button only while there is no entry.
CanKill(s) == Listed(s) /\ s \notin DOMAIN cmds
KillSession(s) == CanKill(s) /\ UNCHANGED used /\ Command("kill_session", s, s, s)

\* The buttons of a card.
Reply(r, d) == r \in cards /\ ~Pending(r) /\ UNCHANGED used /\ Command("reply", r, r, d)

\* Of a message that failed or timed out.
Dismiss(id) ==
    /\ id \in DOMAIN cmds /\ bearer
    /\ cmds[id].kind = "chat_send" /\ cmds[id].status # "pending" /\ Listed(cmds[id].scope)
    /\ Commit(Without(cmds, {id}), {})
    /\ UNCHANGED <<connection, used, screen, up, down, daemon, spent>>

-----------------------------------------------------------------------------
(* Hub and daemon *)

Broadcast(frames) == down' = IF sock = "open" THEN down \o frames ELSE down

Snapshot == [Frame("snapshot", None, None) EXCEPT !.scope = TheDaemon]

\* A plugin registers: sessions.onAdd takes the oldest pending start.
SessionOpens(s) ==
    /\ online /\ s \notin sessions
    /\ IF starts = <<>> THEN Spend ELSE UNCHANGED spent
    /\ sessions' = sessions \cup {s}
    /\ starts' = IF starts = <<>> THEN starts ELSE Tail(starts)
    /\ LET id == IF starts = <<>> THEN None ELSE Head(starts)
       IN  /\ done' = IF id = None THEN done ELSE done \cup {id}
           /\ Broadcast(<<Frame("session_open", id, s)>>)
    /\ UNCHANGED <<connection, table, screen, up, online, asked, decision>>

\* sessions.onRemove
Ends(s) ==
    /\ sessions' = sessions \ {s}
    /\ done' = done \cup {s}
    /\ Broadcast(<<Frame("session_close", None, s)>>)

SessionEnds(s) ==
    /\ online /\ s \in sessions /\ Spend /\ Ends(s)
    /\ UNCHANGED <<connection, table, screen, up, online, starts, asked, decision>>

Undecided(r) == r \in asked /\ decision[r] = None

\* Mutant of Decides: the result of resolveRequest() is not looked at.
DecidesAgain(r, d) ==
    /\ decision' = [decision EXCEPT ![r] = d]
    /\ Broadcast(<<Frame("permission_resolved", r, d)>>)

\* permission_reply: the first reply decides the request, whoever it is from, and is told
\* to everybody; the others are dropped without a word.
Decides(r, d) ==
    IF Undecided(r)
    THEN /\ decision' = [decision EXCEPT ![r] = d]
         /\ Broadcast(<<Frame("permission_resolved", r, d)>>)
    ELSE UNCHANGED <<decision, down>>

\* onFrame of the daemon: a start may be rejected, and allow_kill may be off.
DaemonReceive(f) ==
    \/ /\ f.type = "kill_session"
       /\ \/ f.id \in sessions /\ Ends(f.id)
          \/ UNCHANGED <<sessions, done, down>>
       /\ UNCHANGED <<starts, decision>>
    \/ /\ f.type = "start_session"
       /\ \/ Broadcast(<<Frame("start_session_rejected", f.id, None)>>) /\ UNCHANGED starts
          \/ starts' = Append(starts, f.id) /\ UNCHANGED down
       /\ UNCHANGED <<sessions, done, decision>>
    \/ /\ f.type = "request_history"
       /\ Broadcast(<<Frame("history_chunk", f.id, f.scope)>>)
       /\ done' = done \cup {f.id} /\ UNCHANGED <<sessions, starts, decision>>
    \/ f.type = "reply" /\ Decides(f.id, f.scope) /\ UNCHANGED <<sessions, starts, done>>

\* onPwaSubscribe, onPwaChatSend, onPwaCommand
HubReceive ==
    /\ up # <<>>
    /\ up' = Tail(up)
    /\ LET f == Head(up)
       IN  \/ /\ f.type = "subscribe"
              /\ Broadcast(<<Snapshot>>) /\ UNCHANGED <<sessions, starts, decision, done>>
           \/ /\ f.type = "chat_send"
              /\ Broadcast(<<Frame(IF online THEN "chat" ELSE "chat_error", f.id, f.scope)>>)
              /\ done' = IF online THEN done \cup {f.id} ELSE done
              /\ UNCHANGED <<sessions, starts, decision>>
           \/ online /\ DaemonReceive(f)
           \/ /\ ~online /\ f.type \notin {"subscribe", "chat_send"}
              /\ UNCHANGED <<down, sessions, starts, decision, done>>
    /\ UNCHANGED <<connection, table, screen, online, asked, spent>>

\* A permission request, and another PWA that answers it.
Ask(r) ==
    /\ online /\ r \notin asked /\ sessions # {}
    /\ asked' = asked \cup {r}
    /\ Broadcast(<<Frame("permission_request", r, r)>>)
    /\ UNCHANGED <<connection, table, screen, up, online, sessions, starts, decision, done, spent>>

AnotherReplies(r, d) ==
    /\ online /\ Undecided(r) /\ Spend
    /\ Decides(r, d)
    /\ UNCHANGED <<connection, table, screen, up, online, sessions, starts, asked, done>>

\* pendingStarts forgets after 60 s.
StartExpires ==
    /\ starts # <<>> /\ Spend
    /\ starts' = Tail(starts)
    /\ UNCHANGED <<connection, table, screen, up, down, online, sessions, asked, decision, done>>

DaemonLeaves ==
    /\ online /\ Spend
    /\ online' = FALSE
    /\ Broadcast(<<Frame("daemon_offline", None, None)>>)
    /\ UNCHANGED <<connection, table, screen, up, sessions, starts, asked, decision, done>>

DaemonReturns ==
    /\ ~online /\ online' = TRUE
    /\ Broadcast(<<[Snapshot EXCEPT !.scope = [online |-> TRUE, sessions |-> sessions]]>>)
    /\ UNCHANGED <<connection, table, screen, up, sessions, starts, asked, decision, done, spent>>

-----------------------------------------------------------------------------
(* The reducer *)

ShownAfter(f) ==
    CASE f.type = "snapshot" -> f.scope
      [] f.type = "daemon_offline" -> [view EXCEPT !.online = FALSE]
      [] f.type = "session_open" -> [view EXCEPT !.sessions = @ \cup {f.scope}]
      [] f.type = "session_close" -> [view EXCEPT !.sessions = @ \ {f.scope}]
      [] OTHER -> view

\* The commands a frame confirms.
Confirmed(f) ==
    IF f.type = "session_close" THEN {f.scope}
    ELSE IF f.type \in {"session_open", "chat", "history_chunk", "permission_resolved"} THEN {f.id}
    ELSE {}

Failed(f) == IF f.type \in {"chat_error", "start_session_rejected"} THEN f.id ELSE None

Reduce(f) == Commit(Settle(Without(cmds, Confirmed(f)), Failed(f), "failed"), {})

PwaReceive ==
    /\ sock = "open" /\ down # <<>>
    /\ down' = Tail(down)
    /\ got' = TRUE /\ frameless' = 0
    /\ LET f == Head(down)
       IN  /\ view' = ShownAfter(f)
           /\ cards' = IF f.type = "permission_request" THEN cards \cup {f.id}
                       ELSE IF f.type = "permission_resolved" THEN cards \ {f.id} ELSE cards
           /\ receipts' = IF f.type = "permission_resolved"
                          THEN [receipts EXCEPT ![f.id] = f.scope] ELSE receipts
           /\ Reduce(f)
    /\ UNCHANGED <<bearer, valid, browserOnline, sock, connected, stopped, used, up, daemon, spent>>

-----------------------------------------------------------------------------

Next ==
    \/ Dial \/ Connect \/ Refused \/ Heartbeat \/ Closed \/ HubCloses \/ Cut \/ Offline \/ Online
    \/ Revoke \/ SignOut \/ Reload
    \/ \E s \in Sessions, id \in Fresh : SendChat(s, id) \/ RequestHistory(s, id)
    \/ \E id \in Fresh : StartSession(id)
    \/ \E s \in Sessions : KillSession(s) \/ SessionOpens(s) \/ SessionEnds(s)
    \/ \E r \in Requests : Ask(r)
    \/ \E r \in Requests, d \in Decisions : Reply(r, d) \/ AnotherReplies(r, d)
    \/ \E id \in Ids : CommandTimeout(id) \/ Dismiss(id)
    \/ HubReceive \/ StartExpires \/ DaemonLeaves \/ DaemonReturns \/ PwaReceive

Spec == Init /\ [][Next]_vars

\* The socket is dialled, refused, watched and closed by the PWA's timers and its events, and
\* the browser gets its network back.  Nothing is assumed of the hub and the daemon.
FairSpec ==
    Spec /\ WF_vars(Dial \/ Connect \/ Refused \/ Heartbeat \/ Closed) /\ WF_vars(Online)

-----------------------------------------------------------------------------

Kinds == {"chat_send", "start_session", "request_history", "kill_session", "reply"}
Command_ == [kind : Kinds, scope : Ids \cup {None}, status : {"pending", "failed", "timed_out"}]

\* The variables have the shape the code gives them; the count of frameless closes ends
\* at three.
TypeOK ==
    /\ {bearer, valid, browserOnline, connected, got, stopped, online} \subseteq BOOLEAN
    /\ sock \in {"none", "connecting", "open", "half", "closing"}
    /\ frameless \in 0 .. 3
    /\ DOMAIN cmds \subseteq Ids /\ \A i \in DOMAIN cmds : cmds[i] \in Command_
    /\ timers \subseteq Ids /\ used \subseteq Fresh /\ cards \subseteq Requests
    /\ sessions \subseteq Sessions /\ asked \subseteq Requests /\ done \subseteq Ids
    /\ {decision, receipts} \subseteq [Requests -> Decisions \cup {None}]
    /\ \A r \in Requests : decision[r] # None => r \in asked

\* While the user is signed in, exactly the pending commands have a timer: none waits for
\* ever and no timer of an earlier command can hit a later one.
TimerIffPending == bearer => timers = {i \in Ids : Pending(i)}

\* A message, a start, a page or a kill is the only one of its session or daemon in the
\* table, so that what the screen shows of the first it finds is all there is.
OneEntryPerScope ==
    \A i, j \in DOMAIN cmds :
        cmds[i].kind = cmds[j].kind /\ cmds[i].scope = cmds[j].scope => i = j

\* A user who is signed in is connected, connecting or about to: no order of closes, sign-outs
\* and reloads leaves the page without a socket and without a retry.
NeverStranded == bearer => ~stopped

\* A command leaves the table unsettled only when what it asks for has come about: no
\* answer to another command and no late one confirms it.  A reply asks for a decision,
\* and goes with whichever reply was first, an earlier attempt at it or another PWA's, be
\* it the opposite one: the user is then shown the decision that counts.
ConfirmedIsDone ==
    [][\A i \in DOMAIN cmds \ DOMAIN cmds' :
          Pending(i) /\ ~Reload =>
              IF cmds[i].kind = "reply" THEN receipts'[i] # None /\ receipts'[i] = decision'[i]
              ELSE i \in done']_vars

\* When the faults have stopped the PWA is connected for good, or signed out.
Reconnects == <>[](sock = "open" /\ connected) \/ <>[]~bearer

\* The command table is what the screens count on: one entry for each scope,
\* a timer for each entry that is pending, and a socket that is tried again
\* as long as there is somebody signed in.
CommandsAreTracked == TypeOK /\ TimerIffPending /\ OneEntryPerScope /\ NeverStranded
=============================================================================
