------------------------- MODULE PwaCommands_proofs -------------------------
(***************************************************************************)
(* Proofs about PwaCommands: the table of pending commands is what the     *)
(* screens count on, and a command is only confirmed when what it asks for *)
(* has come about, for any sessions, requests and ids and any number of    *)
(* faults.                                                                 *)
(***************************************************************************)
EXTENDS PwaCommands, SequenceTheorems, TLAPS

(* The inductive invariant, in parts by the variables they speak of.       *)

\* Three closes without a frame are counted only for a user whose token is
\* gone; the page then stops trying.
SocketInv ==
    /\ bearer \in BOOLEAN /\ valid \in BOOLEAN /\ browserOnline \in BOOLEAN
    /\ connected \in BOOLEAN /\ got \in BOOLEAN /\ stopped \in BOOLEAN
    /\ sock \in {"none", "connecting", "open", "half", "closing"}
    /\ frameless \in 0 .. 3
    /\ frameless = 3 => stopped
    /\ stopped => sock = "none" /\ ~bearer

\* A session is the id of its kill, a request of its reply, and a fresh id of
\* one of the other commands.
Fits(i, command) ==
    /\ i \in Sessions => command.kind = "kill_session" /\ command.scope = i
    /\ i \in Requests => command.kind = "reply" /\ command.scope = i
    /\ i \in Fresh => command.kind \in {"chat_send", "start_session", "request_history"}

\* A table of commands, with one entry for each kind and scope.
IsTable(c) ==
    /\ DOMAIN c \subseteq Ids
    /\ c \in [DOMAIN c -> Command_]
    /\ \A i \in DOMAIN c : Fits(i, c[i])
    /\ \A i, j \in DOMAIN c : c[i].kind = c[j].kind /\ c[i].scope = c[j].scope => i = j

\* The command i waits for its answer.
Waits(c, i) == i \in DOMAIN c /\ c[i].status = "pending"

\* While the page has its token, a timer runs for each command that waits.
TableInv ==
    /\ IsTable(cmds) /\ used \subseteq Fresh
    /\ timers = IF bearer THEN {i \in Ids : Waits(cmds, i)} ELSE {}

\* What is commanded by another id than that of a permission request.
Others == Sessions \cup Fresh

\* Frames to the hub.
UpFrames ==
    [type : Kinds \ {"reply"}, id : Others, scope : Ids \cup {None}] \cup
    [type : {"reply"}, id : Requests, scope : Decisions] \cup
    {Frame("subscribe", None, None)}

\* What a frame may be about.
Scopes == Ids \cup {None} \cup Decisions \cup [online : BOOLEAN, sessions : SUBSET Sessions]

Types ==
    {"session_open", "chat", "history_chunk", "permission_resolved", "session_close",
     "permission_request", "chat_error", "start_session_rejected", "daemon_offline", "snapshot"}

\* A frame to the PWA tells the decision there is, or confirms only what was done.
Told ==
    {f \in [type : Types, id : Ids \cup {None}, scope : Scopes] :
        /\ f.type = "permission_request" => f.id \in Requests
        /\ IF f.type = "permission_resolved"
           THEN f.id \in Requests /\ f.scope \in Decisions /\ f.scope = decision[f.id]
           ELSE Confirmed(f) \subseteq done \cup {None}}

Answers == [Requests -> Decisions \cup {None}]

DaemonInv ==
    /\ online \in BOOLEAN /\ sessions \subseteq Sessions /\ starts \in Seq(Others)
    /\ asked \subseteq Requests /\ done \subseteq Others
    /\ decision \in Answers /\ \A r \in Requests : decision[r] # None => r \in asked

FramesInv ==
    up \in Seq(UpFrames) /\ down \in Seq(Told) /\ cards \subseteq Requests /\ receipts \in Answers

CommandInv == SocketInv /\ TableInv /\ DaemonInv /\ FramesInv

\* What was done and decided stays so.
Stays ==
    /\ done \subseteq done'
    /\ \A r \in Requests : decision[r] # None => decision'[r] = decision[r]

\* What ConfirmedIsDone says of a step.
Confirms ==
    \A i \in DOMAIN cmds \ DOMAIN cmds' :
        Pending(i) /\ ~Reload =>
            IF cmds[i].kind = "reply" THEN receipts'[i] # None /\ receipts'[i] = decision'[i]
            ELSE i \in done'

\* The invariant has in it what the screens count on.
LEMMA CommandInvImplies == CommandInv => CommandsAreTracked
<1> SUFFICES ASSUME CommandInv PROVE CommandsAreTracked
  OBVIOUS
<1>1. TypeOK
  <2>1. /\ DOMAIN cmds \subseteq Ids /\ \A i \in DOMAIN cmds : cmds[i] \in Command_
        /\ timers \subseteq Ids /\ used \subseteq Fresh
    BY DEF CommandInv, TableInv, IsTable
  <2>2. done \subseteq Ids
    BY DEF CommandInv, DaemonInv, Others, Ids
  <2> QED BY <2>1, <2>2 DEF CommandInv, SocketInv, DaemonInv, FramesInv, Answers, TypeOK
<1>2. TimerIffPending
  BY DEF CommandInv, TableInv, TimerIffPending, Waits, Pending
<1>3. OneEntryPerScope
  BY DEF CommandInv, TableInv, IsTable, OneEntryPerScope
<1>4. NeverStranded
  BY DEF CommandInv, SocketInv, NeverStranded
<1> QED BY <1>1, <1>2, <1>3, <1>4 DEF CommandsAreTracked

\* A page that was just opened.
LEMMA CommandInvInit == Init => CommandInv
<1> SUFFICES ASSUME Init PROVE CommandInv
  OBVIOUS
<1>1. SocketInv
  <2>1. frameless \in 0 .. 3 /\ frameless # 3
    BY DEF Init
  <2>2. /\ bearer = TRUE /\ valid = TRUE /\ browserOnline = TRUE
        /\ connected = FALSE /\ got = FALSE /\ stopped = FALSE /\ sock = "connecting"
    BY DEF Init
  <2> QED BY <2>1, <2>2, Zenon DEF SocketInv
<1>2. TableInv
  <2>1. DOMAIN cmds = {} /\ cmds = NoTable /\ timers = {} /\ used = {}
    BY DEF Init, NoTable
  <2>2. cmds \in [{} -> Command_]
    BY <2>1 DEF NoTable
  <2> QED BY <2>1, <2>2 DEF TableInv, IsTable, Waits
<1>3. DaemonInv
  BY DEF Init, DaemonInv, NoDecision, Answers
<1>4. FramesInv
  BY DEF Init, FramesInv, NoDecision, Answers
<1> QED BY <1>1, <1>2, <1>3, <1>4 DEF CommandInv

-----------------------------------------------------------------------------
(* The table.                                                              *)

\* Entries that go take nothing from the others.
LEMMA WithoutTable ==
    ASSUME NEW c, IsTable(c), NEW ids
    PROVE  /\ IsTable(Without(c, ids)) /\ DOMAIN Without(c, ids) = DOMAIN c \ ids
           /\ \A i : Waits(Without(c, ids), i) <=> Waits(c, i) /\ i \notin ids
<1> DEFINE d == Without(c, ids)
<1>1. DOMAIN d = DOMAIN c \ ids /\ \A i \in DOMAIN d : d[i] = c[i]
  BY DEF Without
<1>2. d \in [DOMAIN d -> Command_]
  BY <1>1 DEF IsTable, Without
<1> HIDE DEF d
<1> QED BY <1>1, <1>2 DEF IsTable, Waits, d

\* An entry that is settled keeps what it is about.
LEMMA SettleTable ==
    ASSUME NEW c, IsTable(c), NEW id, NEW status \in {"failed", "timed_out"}
    PROVE  /\ IsTable(Settle(c, id, status)) /\ DOMAIN Settle(c, id, status) = DOMAIN c
           /\ \A i : Waits(Settle(c, id, status), i) <=> Waits(c, i) /\ i # id
<1>1. CASE id \in DOMAIN c /\ c[id].status = "pending"
  <2> DEFINE d == [c EXCEPT ![id].status = status]
  <2>1. d = Settle(c, id, status) /\ DOMAIN d = DOMAIN c
    BY <1>1 DEF Settle
  <2>2. \A i \in DOMAIN c : c[i] \in [kind : Kinds, scope : Ids \cup {None},
                                      status : {"pending", "failed", "timed_out"}]
    BY DEF IsTable, Command_
  <2>3. /\ \A i \in DOMAIN c \ {id} : d[i] = c[i]
        /\ d[id] = [c[id] EXCEPT !.status = status]
    BY <1>1 DEF IsTable
  <2>4. /\ d[id].kind = c[id].kind /\ d[id].scope = c[id].scope /\ d[id].status = status
        /\ d[id] \in Command_
    BY <1>1, <2>2, <2>3 DEF Command_
  <2>5. d \in [DOMAIN d -> Command_]
    BY <2>1, <2>2, <2>3, <2>4 DEF IsTable
  <2> HIDE DEF d
  <2>6. \A i \in DOMAIN c : d[i].kind = c[i].kind /\ d[i].scope = c[i].scope
    BY <2>3, <2>4
  <2>7. \A i \in DOMAIN c : Fits(i, d[i])
    BY <2>6 DEF IsTable, Fits
  <2>8. IsTable(d)
    BY <2>1, <2>5, <2>6, <2>7 DEF IsTable
  <2>9. \A i : Waits(d, i) <=> Waits(c, i) /\ i # id
    BY <2>1, <2>3, <2>4 DEF Waits
  <2> QED BY <2>1, <2>8, <2>9
<1>2. CASE ~(id \in DOMAIN c /\ c[id].status = "pending")
  <2>1. Settle(c, id, status) = c
    BY <1>2 DEF Settle
  <2> QED BY <1>2, <2>1 DEF Waits
<1> QED BY <1>1, <1>2

\* A table in which nothing new waits is committed with its timers.
LEMMA CommitTable ==
    ASSUME TableInv, NEW c, IsTable(c), Commit(c, {}),
           \A i : Waits(c, i) => Waits(cmds, i),
           bearer' = bearer, used' \subseteq Fresh
    PROVE  TableInv'
<1>1. cmds' = c /\ timers' = {i \in timers : Waits(c, i)}
  BY DEF Commit, Waits
<1>2. CASE bearer
  <2>1. timers' = {i \in Ids : Waits(c, i)}
    BY <1>1, <1>2 DEF TableInv
  <2> QED BY <1>1, <1>2, <2>1 DEF TableInv
<1>3. CASE ~bearer
  BY <1>1, <1>3 DEF TableInv
<1> QED BY <1>2, <1>3

\* A command that is created is the only one of its kind and scope.
LEMMA CreateTable ==
    ASSUME TableInv, bearer, bearer' = bearer, NEW kind \in Kinds, NEW id \in Ids,
           NEW scope \in Ids \cup {None}, Create(kind, id, scope), used' \subseteq Fresh,
           \A command : command.kind = kind /\ command.scope = scope => Fits(id, command),
           \A i \in Of(kind, scope) : cmds[i].status # "pending" \/ i = id,
           kind = "reply" => Of(kind, scope) \subseteq {id}
    PROVE  /\ TableInv'
           /\ \A i \in DOMAIN cmds \ DOMAIN cmds' : ~Pending(i)
<1> DEFINE stale == Stale(kind, scope, id)
           kept == Without(cmds, stale)
           new == [kind |-> kind, scope |-> scope, status |-> "pending"]
           c == [i \in DOMAIN kept \cup {id} |-> IF i = id THEN new ELSE kept[i]]
<1>1. cmds' = c /\ timers' = {i \in timers \cup {id} : Waits(c, i)}
  BY DEF Create, Commit, Waits
<1>2. /\ IsTable(cmds) /\ IsTable(kept) /\ DOMAIN kept = DOMAIN cmds \ stale
      /\ \A i : Waits(kept, i) <=> Waits(cmds, i) /\ i \notin stale
  BY WithoutTable DEF TableInv
<1>3. \A i \in stale : ~Waits(cmds, i)
  BY DEF Stale, Waits
<1>4. \A i \in DOMAIN kept \ {id} : ~(kept[i].kind = kind /\ kept[i].scope = scope)
  <2> SUFFICES ASSUME NEW i \in DOMAIN kept, i # id,
                      kept[i].kind = kind, kept[i].scope = scope
               PROVE  FALSE
    OBVIOUS
  <2>1. i \in DOMAIN cmds /\ i \notin stale /\ kept[i] = cmds[i]
    BY <1>2 DEF Without
  <2>2. i \in Of(kind, scope)
    BY <2>1 DEF Of
  <2> QED BY <2>1, <2>2 DEF Stale
<1>5. /\ DOMAIN c = DOMAIN kept \cup {id} /\ c[id] = new
      /\ \A i \in DOMAIN kept \ {id} : c[i] = kept[i]
  OBVIOUS
<1>6. new \in Command_ /\ new.kind = kind /\ new.scope = scope /\ new.status = "pending"
  BY DEF Command_
<1>7. c \in [DOMAIN c -> Command_]
  BY <1>2, <1>6 DEF IsTable
<1> HIDE DEF c, new, kept, stale
<1>8. \A i \in DOMAIN c : Fits(i, c[i])
  BY <1>2, <1>5, <1>6 DEF IsTable
<1>9. \A i, j \in DOMAIN c : c[i].kind = c[j].kind /\ c[i].scope = c[j].scope => i = j
  BY <1>2, <1>4, <1>5, <1>6 DEF IsTable
<1>10. DOMAIN c \subseteq Ids
  BY <1>2, <1>5 DEF IsTable
<1>11. IsTable(c)
  BY <1>7, <1>8, <1>9, <1>10 DEF IsTable
<1>12. \A i : Waits(c, i) <=> Waits(cmds, i) \/ i = id
  BY <1>2, <1>3, <1>5, <1>6 DEF Waits
<1>13. timers' = {i \in Ids : Waits(c, i)}
  BY <1>1, <1>12 DEF TableInv
<1>14. TableInv'
  BY <1>1, <1>11, <1>13 DEF TableInv
<1>15. \A i \in DOMAIN cmds \ DOMAIN cmds' : ~Pending(i)
  BY <1>1, <1>2, <1>3, <1>5 DEF Pending, Waits
<1> QED BY <1>14, <1>15

-----------------------------------------------------------------------------
(* The steps, by what they leave alone.                                    *)

\* What a frame told stays true.
LEMMA ToldStays ==
    ASSUME Stays, NEW c \in Seq(Told)
    PROVE  c \in Seq(Told')
<1>1. None \notin Decisions
  BY DEF None, Decisions
<1>2. Told \subseteq Told'
  <2> SUFFICES ASSUME NEW f \in Told PROVE f \in Told'
    OBVIOUS
  <2>1. CASE f.type = "permission_resolved"
    <3>1. f.id \in Requests /\ f.scope \in Decisions /\ f.scope = decision[f.id]
      BY <2>1 DEF Told
    <3>2. decision'[f.id] = decision[f.id]
      BY <1>1, <3>1 DEF Stays
    <3> QED BY <2>1, <3>1, <3>2 DEF Told, Scopes, Ids
  <2>2. CASE f.type # "permission_resolved"
    BY <2>2 DEF Told, Stays, Scopes, Ids, Confirmed
  <2> QED BY <2>1, <2>2
<1> QED BY <1>2

\* A frame joins those on their way if there is a socket to carry it.
LEMMA BroadcastTold ==
    ASSUME down \in Seq(Told), Stays, NEW f, f \in Told', Broadcast(<<f>>)
    PROVE  down' \in Seq(Told')
<1> DEFINE T == Told'
           d == down
<1>1. d \in Seq(T) /\ f \in T
  BY ToldStays
<1>2. down' = d \/ down' = d \o <<f>>
  BY DEF Broadcast
<1> HIDE DEF T, d
<1>3. d \o <<f>> \in Seq(T)
  BY <1>1
<1>4. down' \in Seq(T)
  BY <1>1, <1>2, <1>3
<1> QED BY <1>4 DEF T

\* The socket changes and the table stays.
LEMMA SocketStep ==
    ASSUME CommandInv, SocketInv',
           UNCHANGED <<cmds, used, screen, daemon>>,
           \/ bearer' = bearer /\ timers' = timers
           \/ bearer' = FALSE /\ timers' = {},
           up' \in Seq(UpFrames), down' \in {down, <<>>}
    PROVE  CommandInv' /\ Confirms
<1>1. TableInv'
  BY DEF CommandInv, TableInv
<1>2. DaemonInv' /\ cards' = cards /\ receipts' = receipts /\ Stays /\ cmds' = cmds
  BY DEF CommandInv, DaemonInv, Stays, daemon, screen
<1>3. down' \in Seq(Told')
  <2>1. down \in Seq(Told')
    BY <1>2, ToldStays DEF CommandInv, FramesInv
  <2>2. <<>> \in Seq(Told')
    OBVIOUS
  <2> QED BY <2>1, <2>2
<1>4. FramesInv'
  BY <1>2, <1>3 DEF CommandInv, FramesInv, UpFrames, Others, Ids, Answers
<1>5. Confirms
  BY <1>2 DEF Confirms
<1> QED BY <1>1, <1>2, <1>4, <1>5 DEF CommandInv

\* Hub and daemon go on, and the PWA hears nothing yet.
LEMMA FarStep ==
    ASSUME CommandInv, DaemonInv',
           UNCHANGED <<connection, table, screen>>,
           up' \in Seq(UpFrames), down' \in Seq(Told')
    PROVE  CommandInv' /\ Confirms
<1>1. SocketInv'
  BY DEF CommandInv, SocketInv, connection
<1>2. TableInv'
  BY DEF CommandInv, TableInv, connection, table
<1>3. FramesInv'
  BY DEF CommandInv, FramesInv, screen, UpFrames, Others, Ids, Answers
<1>4. Confirms
  BY DEF Confirms, table
<1> QED BY <1>1, <1>2, <1>3, <1>4 DEF CommandInv

\* A command is sent.
LEMMA CommandStep ==
    ASSUME CommandInv, NEW kind \in Kinds, NEW id \in Ids, NEW scope \in Ids \cup {None},
           NEW says, Frame(kind, id, says) \in UpFrames,
           Command(kind, id, scope, says), used' \subseteq Fresh,
           \A command : command.kind = kind /\ command.scope = scope => Fits(id, command),
           \A i \in Of(kind, scope) : cmds[i].status # "pending" \/ i = id,
           kind = "reply" => Of(kind, scope) \subseteq {id}
    PROVE  CommandInv' /\ Confirms
<1>1. /\ bearer /\ Send(Frame(kind, id, says)) /\ Create(kind, id, scope)
      /\ UNCHANGED <<connection, screen, down, daemon, spent>>
  BY DEF Command
<1>2. bearer' = bearer /\ TableInv
  BY <1>1 DEF connection, CommandInv
<1>3. TableInv' /\ \A i \in DOMAIN cmds \ DOMAIN cmds' : ~Pending(i)
  BY <1>1, <1>2, CreateTable
<1>4. SocketInv' /\ DaemonInv'
  BY <1>1 DEF CommandInv, SocketInv, DaemonInv, connection, daemon
<1>5. up' \in Seq(UpFrames)
  <2>1. up \in Seq(UpFrames)
    BY DEF CommandInv, FramesInv
  <2>2. Append(up, Frame(kind, id, says)) \in Seq(UpFrames)
    BY <2>1
  <2> QED BY <1>1, <2>1, <2>2 DEF Send
<1>6. down' \in Seq(Told') /\ cards' = cards /\ receipts' = receipts
  <2>1. Stays
    BY <1>1 DEF Stays, daemon
  <2> QED BY <1>1, <2>1, ToldStays DEF CommandInv, FramesInv, screen
<1>7. FramesInv'
  BY <1>5, <1>6 DEF CommandInv, FramesInv, UpFrames, Others, Ids, Answers
<1>8. Confirms
  BY <1>3 DEF Confirms
<1> QED BY <1>3, <1>4, <1>7, <1>8 DEF CommandInv

-----------------------------------------------------------------------------
(* The connection.                                                         *)

\* reconnect(): a user who is still signed in is never left without a retry.
LEMMA ClosesStep ==
    ASSUME CommandInv, sock # "none", Closes
    PROVE  CommandInv' /\ Confirms
<1>1. /\ connected' = FALSE /\ up' = <<>> /\ down' = <<>> /\ got' = FALSE
      /\ UNCHANGED <<valid, browserOnline, cmds, used, screen, daemon>>
  BY DEF Closes, OnClose
<1>2. SocketInv /\ ~stopped /\ frameless \in 0 .. 2
  BY DEF CommandInv, SocketInv
<1>3. /\ SocketInv'
      /\ \/ bearer' = bearer /\ timers' = timers
         \/ bearer' = FALSE /\ timers' = {}
  <2>1. CASE browserOnline /\ ~got /\ frameless = 2 /\ bearer
    <3>1. /\ bearer' = FALSE /\ sock' = "connecting" /\ stopped' = FALSE
          /\ frameless' = 0 /\ timers' = {}
      BY <2>1 DEF Closes, OnClose, Restart
    <3>2. frameless' \in 0 .. 3 /\ frameless' # 3
      BY <3>1
    <3> QED BY <1>1, <1>2, <3>1, <3>2, Zenon DEF SocketInv
  <2>2. CASE browserOnline /\ ~got /\ frameless = 2 /\ ~bearer
    <3>1. /\ bearer' = FALSE /\ sock' = "none" /\ stopped' = TRUE
          /\ frameless' = 3 /\ timers' = timers
      BY <2>2 DEF Closes, OnClose
    <3>2. frameless' \in 0 .. 3
      BY <3>1
    <3>3. bearer' = bearer
      BY <1>2, <2>2, <3>1 DEF SocketInv
    <3> QED BY <1>1, <1>2, <3>1, <3>2, <3>3, Zenon DEF SocketInv
  <2>3. CASE ~(browserOnline /\ ~got /\ frameless = 2)
    <3>1. /\ bearer' = bearer /\ sock' = "none" /\ stopped' = stopped /\ timers' = timers
          /\ frameless' = IF got THEN 0 ELSE IF browserOnline THEN frameless + 1
                                             ELSE frameless
      BY <2>3 DEF Closes, OnClose
    <3>2. frameless' \in 0 .. 3 /\ frameless' # 3
      <4>1. CASE got
        BY <3>1, <4>1
      <4>2. CASE ~got /\ browserOnline
        BY <1>2, <2>3, <3>1, <4>2
      <4>3. CASE ~got /\ ~browserOnline
        BY <1>2, <3>1, <4>3
      <4> QED BY <4>1, <4>2, <4>3
    <3> QED BY <1>1, <1>2, <3>1, <3>2, Zenon DEF SocketInv
  <2> QED BY <2>1, <2>2, <2>3
<1>4. up' \in Seq(UpFrames) /\ down' \in {down, <<>>}
  BY <1>1
<1> QED BY <1>1, <1>3, <1>4, SocketStep

\* What becomes of the socket, the token and the link.
LEMMA ConnectionStep ==
    ASSUME CommandInv,
           \/ Dial \/ Connect \/ Refused \/ Heartbeat \/ Closed \/ HubCloses
           \/ Cut \/ Offline \/ Online \/ Revoke \/ SignOut
    PROVE  CommandInv' /\ Confirms
<1> USE DEF CommandInv
<1>3. up \in Seq(UpFrames) /\ <<>> \in Seq(UpFrames)
      /\ <<Frame("subscribe", None, None)>> \in Seq(UpFrames)
  BY DEF FramesInv, UpFrames
<1>4. CASE Refused \/ Closed \/ HubCloses
  BY <1>4, ClosesStep DEF Refused, Closed, HubCloses
<1>5. CASE Dial \/ Heartbeat \/ Online
  <2>1. /\ UNCHANGED <<bearer, connected, frameless, stopped, timers, cmds, used, screen, daemon,
                       up, down, valid>>
        /\ stopped => sock = sock'
        /\ sock' \in {"none", "connecting", "open", "half", "closing"}
        /\ got' \in BOOLEAN /\ browserOnline' \in BOOLEAN
    BY <1>5 DEF Dial, Heartbeat, Online, SocketInv, table
  <2>2. SocketInv'
    BY <2>1 DEF SocketInv
  <2> QED BY <1>3, <2>1, <2>2, SocketStep
<1>6. CASE Connect \/ Cut \/ Offline \/ Revoke
  <2>1. /\ UNCHANGED <<bearer, got, frameless, stopped, timers, cmds, used, screen, daemon>>
        /\ stopped => sock = sock'
        /\ sock' \in {"none", "connecting", "open", "half", "closing"}
        /\ connected' \in BOOLEAN /\ browserOnline' \in BOOLEAN /\ valid' \in BOOLEAN
    BY <1>6 DEF Connect, Cut, Offline, Revoke, SocketInv, table
  <2>2. SocketInv'
    BY <2>1 DEF SocketInv
  <2>3. up' \in Seq(UpFrames) /\ down' \in {down, <<>>}
    BY <1>3, <1>6 DEF Connect, Cut, Offline, Revoke
  <2> QED BY <2>1, <2>2, <2>3, SocketStep
<1>7. CASE SignOut
  <2>1. /\ UNCHANGED <<valid, browserOnline, connected, cmds, used, screen, up, daemon>>
        /\ bearer' = FALSE /\ sock' = "connecting" /\ got' = FALSE /\ frameless' = 0
        /\ stopped' = FALSE /\ timers' = {} /\ down' = <<>>
    BY <1>7 DEF SignOut, Restart
  <2>2. frameless' \in 0 .. 3 /\ frameless' # 3
    BY <2>1
  <2>3. SocketInv'
    BY <2>1, <2>2, Zenon DEF SocketInv
  <2> QED BY <1>3, <2>1, <2>3, SocketStep
<1> QED BY <1>4, <1>5, <1>6, <1>7

\* A page that is opened anew starts with an empty table, and so without timers.
LEMMA ReloadStep ==
    ASSUME CommandInv, Reload
    PROVE  CommandInv' /\ Confirms
<1>1. /\ UNCHANGED <<browserOnline, used, up, daemon>>
      /\ bearer' = TRUE /\ valid' = (valid \/ ~bearer) /\ connected' = FALSE
      /\ sock' = "connecting" /\ got' = FALSE /\ frameless' = 0
      /\ stopped' = FALSE /\ timers' = {} /\ down' = <<>> /\ cmds' = NoTable /\ cards' = {}
      /\ receipts' = NoDecision
  BY DEF Reload, Restart
<1>3. SocketInv'
  <2>1. frameless' \in 0 .. 3 /\ frameless' # 3
    BY <1>1
  <2>2. valid' \in BOOLEAN /\ browserOnline' \in BOOLEAN
    BY <1>1 DEF CommandInv, SocketInv
  <2> QED BY <1>1, <2>1, <2>2, Zenon DEF SocketInv
<1>4. TableInv'
  <2>1. NoTable \in [{} -> Command_] /\ DOMAIN NoTable = {}
    BY DEF NoTable
  <2>2. {} = {i \in Ids : Waits(NoTable, i)}
    BY <2>1 DEF Waits
  <2> QED BY <1>1, <2>1, <2>2 DEF TableInv, IsTable, CommandInv
<1>5. DaemonInv'
  BY <1>1 DEF CommandInv, DaemonInv, daemon
<1>6. FramesInv'
  BY <1>1 DEF CommandInv, FramesInv, UpFrames, Others, Ids, NoDecision, Answers
<1> QED BY <1>3, <1>4, <1>5, <1>6 DEF CommandInv, Confirms

-----------------------------------------------------------------------------
(* The user.                                                               *)

\* Which commands are in the table under which id.
LEMMA EntriesFit ==
    ASSUME TableInv
    PROVE  /\ \A i \in DOMAIN cmds : cmds[i].kind = "kill_session" => i \in Sessions
           /\ \A i \in DOMAIN cmds : cmds[i].kind = "reply" => i \in Requests
BY DEF TableInv, IsTable, Fits, Ids

\* A fresh id is in no table.
LEMMA FreshIsNew ==
    ASSUME CommandInv, NEW id, TakesFresh(id)
    PROVE  id \in Fresh /\ used' \subseteq Fresh
<1>1. \E i \in Fresh \ used : TRUE
  BY DEF TakesFresh, CommandInv, TableInv
<1>2. id \in Fresh \ used
  BY <1>1, Zenon DEF TakesFresh
<1> QED BY <1>2 DEF TakesFresh, CommandInv, TableInv

\* A command with a fresh id.
LEMMA FreshCommandStep ==
    ASSUME CommandInv, NEW kind \in {"chat_send", "start_session", "request_history"},
           NEW id, NEW scope \in Ids \cup {None}, TakesFresh(id), Command(kind, id, scope, scope),
           \A i \in Of(kind, scope) : cmds[i].status # "pending"
    PROVE  CommandInv' /\ Confirms
<1>1. id \in Fresh /\ used' \subseteq Fresh
  BY FreshIsNew
<1>2. id \in Ids /\ id \notin Sessions /\ id \notin Requests /\ kind \in Kinds /\ kind # "reply"
  BY <1>1, IdsAssumption DEF Ids, Kinds
<1>3. \A command : command.kind = kind /\ command.scope = scope => Fits(id, command)
  BY <1>2 DEF Fits
<1>4. Frame(kind, id, scope) \in UpFrames
  BY <1>1, <1>2 DEF UpFrames, Frame, Others
<1> QED BY <1>1, <1>2, <1>3, <1>4, CommandStep

\* Whatever the user asks for.
LEMMA UserStep ==
    ASSUME CommandInv,
           \/ \E s \in Sessions, id \in Fresh : SendChat(s, id) \/ RequestHistory(s, id)
           \/ \E id \in Fresh : StartSession(id)
           \/ \E s \in Sessions : KillSession(s)
           \/ \E r \in Requests, d \in Decisions : Reply(r, d)
    PROVE  CommandInv' /\ Confirms
<1>1. ASSUME NEW s \in Sessions, NEW id \in Fresh, SendChat(s, id) \/ RequestHistory(s, id)
      PROVE  CommandInv' /\ Confirms
  <2>1. s \in Ids \cup {None}
    BY DEF Ids
  <2> QED BY <1>1, <2>1, FreshCommandStep DEF SendChat, RequestHistory
<1>2. ASSUME NEW id \in Fresh, StartSession(id)
      PROVE  CommandInv' /\ Confirms
  BY <1>2, FreshCommandStep DEF StartSession
<1>3. ASSUME NEW s \in Sessions, KillSession(s)
      PROVE  CommandInv' /\ Confirms
  <2>1. /\ s \in Ids /\ s \notin Requests /\ s \notin Fresh
        /\ s \notin DOMAIN cmds /\ used' = used /\ Command("kill_session", s, s, s)
    BY <1>3, IdsAssumption DEF KillSession, CanKill, Ids
  <2>2. \A command : command.kind = "kill_session" /\ command.scope = s => Fits(s, command)
    BY <2>1 DEF Fits
  <2>3. Of("kill_session", s) = {}
    <3>1. \A i \in DOMAIN cmds : cmds[i].kind = "kill_session" => cmds[i].scope = i
      BY EntriesFit DEF CommandInv, TableInv, IsTable, Fits
    <3> QED BY <2>1, <3>1 DEF Of
  <2>4. used' \subseteq Fresh /\ "kill_session" \in Kinds
        /\ Frame("kill_session", s, s) \in UpFrames
    BY <2>1 DEF CommandInv, TableInv, Kinds, UpFrames, Frame, Others
  <2> QED BY <2>1, <2>2, <2>3, <2>4, CommandStep
<1>4. ASSUME NEW r \in Requests, NEW d \in Decisions, Reply(r, d)
      PROVE  CommandInv' /\ Confirms
  <2>1. /\ r \in Ids /\ r \notin Sessions /\ r \notin Fresh
        /\ used' = used /\ Command("reply", r, r, d)
    BY <1>4, IdsAssumption DEF Reply, Ids
  <2>2. \A command : command.kind = "reply" /\ command.scope = r => Fits(r, command)
    BY <2>1 DEF Fits
  <2>3. Of("reply", r) \subseteq {r}
    <3>1. \A i \in DOMAIN cmds : cmds[i].kind = "reply" => cmds[i].scope = i
      BY EntriesFit DEF CommandInv, TableInv, IsTable, Fits
    <3> QED BY <3>1 DEF Of
  <2>4. used' \subseteq Fresh /\ "reply" \in Kinds /\ Frame("reply", r, d) \in UpFrames
    BY <2>1 DEF CommandInv, TableInv, Kinds, UpFrames, Frame
  <2> QED BY <2>1, <2>2, <2>3, <2>4, CommandStep
<1> QED BY <1>1, <1>2, <1>3, <1>4

\* A table that only loses what waits or has ended.
LEMMA CommitStep ==
    ASSUME CommandInv, NEW c, IsTable(c), Commit(c, {}),
           \A i : Waits(c, i) => Waits(cmds, i),
           UNCHANGED <<connection, used, screen, up, down, daemon, spent>>,
           \A i \in DOMAIN cmds \ DOMAIN c : ~Pending(i)
    PROVE  CommandInv' /\ Confirms
<1>1. bearer' = bearer /\ used' = used /\ TableInv
  BY DEF connection, CommandInv
<1>2. TableInv'
  BY <1>1, CommitTable DEF TableInv
<1>3. SocketInv' /\ DaemonInv'
  BY DEF CommandInv, SocketInv, DaemonInv, connection, daemon
<1>4. FramesInv'
  <2>1. down \in Seq(Told')
    BY ToldStays DEF CommandInv, FramesInv, Stays, daemon
  <2> QED BY <2>1 DEF CommandInv, FramesInv, UpFrames, Others, Ids, Answers, screen
<1>5. Confirms
  BY DEF Confirms, Commit
<1> QED BY <1>2, <1>3, <1>4, <1>5 DEF CommandInv

\* An entry runs out of time or is dismissed.
LEMMA EndOfEntryStep ==
    ASSUME CommandInv, NEW id, CommandTimeout(id) \/ Dismiss(id)
    PROVE  CommandInv' /\ Confirms
<1>1. IsTable(cmds)
  BY DEF CommandInv, TableInv
<1>2. CASE CommandTimeout(id)
  <2> DEFINE c == Settle(cmds, id, "timed_out")
  <2>1. /\ IsTable(c) /\ DOMAIN c = DOMAIN cmds /\ \A i : Waits(c, i) => Waits(cmds, i)
    BY <1>1, SettleTable
  <2>2. Commit(c, {}) /\ UNCHANGED <<connection, used, screen, up, down, daemon, spent>>
    BY <1>2 DEF CommandTimeout
  <2> HIDE DEF c
  <2> QED BY <2>1, <2>2, CommitStep
<1>3. CASE Dismiss(id)
  <2> DEFINE c == Without(cmds, {id})
  <2>1. /\ IsTable(c) /\ DOMAIN c = DOMAIN cmds \ {id} /\ \A i : Waits(c, i) => Waits(cmds, i)
    BY <1>1, WithoutTable
  <2>2. Commit(c, {}) /\ UNCHANGED <<connection, used, screen, up, down, daemon, spent>>
        /\ ~Pending(id)
    BY <1>3 DEF Dismiss, Pending
  <2> HIDE DEF c
  <2>3. \A i \in DOMAIN cmds \ DOMAIN c : ~Pending(i)
    BY <2>1, <2>2
  <2> QED BY <2>1, <2>2, <2>3, CommitStep
<1> QED BY <1>2, <1>3

-----------------------------------------------------------------------------
(* Hub and daemon.                                                         *)

\* A frame of a type there is, that confirms nothing but what was done.
LEMMA FrameTold ==
    ASSUME NEW type \in Types, NEW id \in Ids \cup {None}, NEW scope \in Ids \cup {None},
           type = "permission_request" => id \in Requests,
           type = "session_close" => scope \in done',
           type \in {"session_open", "chat", "history_chunk"} => id \in done' \cup {None},
           type # "permission_resolved"
    PROVE  Frame(type, id, scope) \in Told'
<1> DEFINE f == Frame(type, id, scope)
<1>1. /\ f.type = type /\ f.id = id /\ f.scope = scope
      /\ f \in [type : Types, id : Ids \cup {None}, scope : Scopes]
  BY DEF Frame, Scopes
<1> HIDE DEF f
<1>2. Confirmed(f) \subseteq done' \cup {None}
  BY <1>1 DEF Confirmed
<1>3. f \in Told'
  BY <1>1, <1>2 DEF Told, Confirmed, Scopes, Ids
<1> QED BY <1>3 DEF f

\* The frames there are.
LEMMA FramesTold ==
    /\ \A id \in Ids \cup {None}, scope \in Ids \cup {None} :
         /\ id \in done' \cup {None} => Frame("session_open", id, scope) \in Told'
         /\ id \in done' => /\ Frame("chat", id, scope) \in Told'
                           /\ Frame("history_chunk", id, scope) \in Told'
         /\ scope \in done' => Frame("session_close", id, scope) \in Told'
         /\ id \in Requests => Frame("permission_request", id, scope) \in Told'
         /\ Frame("chat_error", id, scope) \in Told'
         /\ Frame("start_session_rejected", id, scope) \in Told'
         /\ Frame("daemon_offline", id, scope) \in Told'
<1> SUFFICES ASSUME NEW id \in Ids \cup {None}, NEW scope \in Ids \cup {None}
             PROVE  \A type \in Types \ {"permission_resolved"} :
                       /\ type = "permission_request" => id \in Requests
                       /\ type = "session_close" => scope \in done'
                       /\ type \in {"session_open", "chat", "history_chunk"} =>
                             id \in done' \cup {None}
                       => Frame(type, id, scope) \in Told'
  BY DEF Types
<1> QED BY FrameTold

\* A resolution tells the decision that is recorded.
LEMMA ResolvedTold ==
    ASSUME NEW r \in Requests, NEW d \in Decisions, decision'[r] = d
    PROVE  Frame("permission_resolved", r, d) \in Told'
<1> DEFINE f == Frame("permission_resolved", r, d)
<1>1. /\ f.type = "permission_resolved" /\ f.id = r /\ f.scope = d
      /\ f \in [type : Types, id : Ids \cup {None}, scope : Scopes]
  BY DEF Frame, Scopes, Types, Ids
<1> HIDE DEF f
<1>2. f \in Told'
  BY <1>1 DEF Told, Scopes, Ids
<1> QED BY <1>2 DEF f

\* The snapshot confirms nothing.
LEMMA SnapshotTold ==
    ASSUME NEW scope \in [online : BOOLEAN, sessions : SUBSET Sessions]
    PROVE  [Frame("snapshot", None, None) EXCEPT !.scope = scope] \in Told'
<1> DEFINE f == [Frame("snapshot", None, None) EXCEPT !.scope = scope]
<1>1. /\ f.type = "snapshot"
      /\ f \in [type : Types, id : Ids \cup {None}, scope : Scopes]
  <2>1. f = [type |-> "snapshot", id |-> None, scope |-> scope]
    BY DEF Frame
  <2>2. scope \in Scopes /\ "snapshot" \in Types
    BY DEF Scopes, Types
  <2> HIDE DEF f
  <2> QED BY <2>1, <2>2
<1> HIDE DEF f
<1>2. Confirmed(f) = {}
  BY <1>1 DEF Confirmed
<1>3. f \in Told'
  BY <1>1, <1>2 DEF Told, Confirmed, Scopes, Ids
<1> QED BY <1>3 DEF f

\* The daemon tells the PWA one thing, or nothing, of what was carried out.
LEMMA TellStep ==
    ASSUME CommandInv, DaemonInv', Stays,
           UNCHANGED <<connection, table, screen>>, up' \in Seq(UpFrames),
           down' = down \/ \E f \in Told' : Broadcast(<<f>>)
    PROVE  CommandInv' /\ Confirms
<1>1. down \in Seq(Told)
  BY DEF CommandInv, FramesInv
<1>2. down' \in Seq(Told')
  BY <1>1, BroadcastTold, ToldStays
<1> QED BY <1>2, FarStep

\* Nothing is decided, and what is done is added to.
LEMMA DoneStays ==
    ASSUME UNCHANGED decision, done \subseteq done'
    PROVE  Stays
BY DEF Stays

\* The first reply to a request decides it, and the PWA is told the decision.
LEMMA DecideStep ==
    ASSUME CommandInv, NEW r \in Requests, NEW d \in Decisions, Decides(r, d),
           UNCHANGED <<connection, table, screen, online, sessions, starts, asked, done>>,
           up' \in Seq(UpFrames)
    PROVE  CommandInv' /\ Confirms
<1>1. DaemonInv
  BY DEF CommandInv
<1>2. CASE Undecided(r)
  <2>1. /\ decision' = [decision EXCEPT ![r] = d] /\ decision[r] = None /\ r \in asked
        /\ Broadcast(<<Frame("permission_resolved", r, d)>>)
    BY <1>2 DEF Decides, Undecided
  <2>2. decision' \in Answers /\ decision'[r] = d
    BY <1>1, <2>1 DEF DaemonInv, Answers
  <2>3. Stays
    BY <1>1, <2>1 DEF DaemonInv, Answers, Stays
  <2>4. DaemonInv'
    BY <1>1, <2>1, <2>2 DEF DaemonInv, Others, Answers
  <2>5. Frame("permission_resolved", r, d) \in Told'
    BY <2>2, ResolvedTold
  <2> QED BY <2>1, <2>3, <2>4, <2>5, TellStep
<1>3. CASE ~Undecided(r)
  <2>1. UNCHANGED <<decision, down>>
    BY <1>3 DEF Decides
  <2>2. DaemonInv' /\ Stays
    BY <1>1, <2>1 DEF DaemonInv, Stays, Others, Answers
  <2> QED BY <2>1, <2>2, TellStep
<1> QED BY <1>2, <1>3

\* What the daemon does of itself.
LEMMA DaemonMoves ==
    ASSUME CommandInv,
           \/ \E s \in Sessions : SessionOpens(s) \/ SessionEnds(s)
           \/ \E r \in Requests : Ask(r)
           \/ \E r \in Requests, d \in Decisions : AnotherReplies(r, d)
           \/ StartExpires \/ DaemonLeaves \/ DaemonReturns
    PROVE  CommandInv' /\ Confirms
<1> USE DEF CommandInv
<1>1. up' = up => up' \in Seq(UpFrames)
  BY DEF FramesInv
<1>2. /\ starts \in Seq(Others) /\ sessions \subseteq Sessions /\ done \subseteq Others
      /\ asked \subseteq Requests /\ online \in BOOLEAN
      /\ Sessions \subseteq Ids /\ Requests \subseteq Ids /\ Others \subseteq Ids
      /\ Sessions \subseteq Others
      /\ starts # <<>> => Head(starts) \in Others /\ Tail(starts) \in Seq(Others)
  BY DEF DaemonInv, Ids, Others
<1>3. decision \in Answers /\ \A r \in Requests : decision[r] # None => r \in asked
  BY DEF DaemonInv
<1>4. ASSUME NEW s \in Sessions, SessionOpens(s)
      PROVE  CommandInv' /\ Confirms
  <2> DEFINE id == IF starts = <<>> THEN None ELSE Head(starts)
  <2>1. /\ UNCHANGED <<connection, table, screen, up, online, asked, decision>>
        /\ sessions' = sessions \cup {s}
        /\ starts' = IF starts = <<>> THEN starts ELSE Tail(starts)
        /\ done' = IF starts = <<>> THEN done ELSE done \cup {Head(starts)}
    <3>1. starts # <<>> => Head(starts) # None
      BY <1>2, IdsAssumption DEF Ids
    <3> QED BY <1>4, <3>1 DEF SessionOpens
  <2>2. Broadcast(<<Frame("session_open", id, s)>>)
    BY <1>4 DEF SessionOpens
  <2>3. id \in Ids \cup {None} /\ id \in done' \cup {None}
    BY <1>2, <2>1
  <2> HIDE DEF id
  <2>4. Frame("session_open", id, s) \in Told'
    BY <1>2, <2>3, FramesTold
  <2>5. DaemonInv'
    BY <1>2, <1>3, <2>1 DEF DaemonInv, Others, Answers
  <2>6. Stays
    BY <2>1, DoneStays
  <2> QED BY <1>1, <2>1, <2>2, <2>4, <2>5, <2>6, TellStep
<1>5. ASSUME NEW s \in Sessions, SessionEnds(s)
      PROVE  CommandInv' /\ Confirms
  <2>1. /\ UNCHANGED <<connection, table, screen, up, online, starts, asked, decision>>
        /\ sessions' = sessions \ {s} /\ done' = done \cup {s}
        /\ Broadcast(<<Frame("session_close", None, s)>>)
    BY <1>5 DEF SessionEnds, Ends
  <2>2. Frame("session_close", None, s) \in Told'
    BY <1>2, <2>1, FramesTold
  <2>3. DaemonInv' /\ Stays
    BY <1>2, <1>3, <2>1, DoneStays DEF DaemonInv, Others, Answers
  <2> QED BY <1>1, <2>1, <2>2, <2>3, TellStep
<1>6. ASSUME NEW r \in Requests, Ask(r)
      PROVE  CommandInv' /\ Confirms
  <2>1. /\ UNCHANGED <<connection, table, screen, up, online, sessions, starts, decision, done>>
        /\ asked' = asked \cup {r}
        /\ Broadcast(<<Frame("permission_request", r, r)>>)
    BY <1>6 DEF Ask
  <2>2. Frame("permission_request", r, r) \in Told'
    BY <1>2, FramesTold
  <2>3. DaemonInv' /\ Stays
    BY <1>2, <1>3, <2>1, DoneStays DEF DaemonInv, Others, Answers
  <2> QED BY <1>1, <2>1, <2>2, <2>3, TellStep
<1>7. ASSUME NEW r \in Requests, NEW d \in Decisions, AnotherReplies(r, d)
      PROVE  CommandInv' /\ Confirms
  <2>1. /\ UNCHANGED <<connection, table, screen, up, online, sessions, starts, asked, done>>
        /\ Decides(r, d)
    BY <1>7 DEF AnotherReplies
  <2> QED BY <1>1, <2>1, DecideStep
<1>8. CASE StartExpires
  <2>1. /\ UNCHANGED <<connection, table, screen, up, down, online, sessions, asked, decision, done>>
        /\ starts # <<>> /\ starts' = Tail(starts)
    BY <1>8 DEF StartExpires
  <2>2. DaemonInv' /\ Stays
    BY <1>2, <1>3, <2>1, DoneStays DEF DaemonInv, Others, Answers
  <2> QED BY <1>1, <2>1, <2>2, TellStep
<1>9. CASE DaemonLeaves \/ DaemonReturns
  <2>1. /\ UNCHANGED <<connection, table, screen, up, sessions, starts, asked, decision, done>>
        /\ online' \in BOOLEAN
    BY <1>9 DEF DaemonLeaves, DaemonReturns
  <2>2. \E f \in Told' : Broadcast(<<f>>)
    <3>1. Frame("daemon_offline", None, None) \in Told'
      BY FramesTold
    <3> DEFINE v == [online |-> TRUE, sessions |-> sessions]
               f == [Frame("snapshot", None, None) EXCEPT !.scope = v]
    <3>2. f \in Told'
      BY <1>2, SnapshotTold
    <3>3. CASE DaemonLeaves
      BY <3>1, <3>3 DEF DaemonLeaves
    <3>4. CASE DaemonReturns
      <4>1. Broadcast(<<f>>)
        BY <3>4 DEF DaemonReturns, Snapshot, Frame
      <4> QED BY <3>2, <4>1
    <3> QED BY <1>9, <3>3, <3>4
  <2>3. DaemonInv' /\ Stays
    BY <1>2, <1>3, <2>1, DoneStays DEF DaemonInv, Others, Answers
  <2> QED BY <1>1, <2>1, <2>2, <2>3, TellStep
<1> QED BY <1>4, <1>5, <1>6, <1>7, <1>8, <1>9

\* The router and the daemon take a command.
LEMMA HubStep ==
    ASSUME CommandInv, HubReceive
    PROVE  CommandInv' /\ Confirms
<1> DEFINE f == Head(up)
<1>1. /\ up # <<>> /\ up' = Tail(up) /\ UNCHANGED <<connection, table, screen, online, asked, spent>>
  BY DEF HubReceive
<1>2. up \in Seq(UpFrames)
  BY DEF CommandInv, FramesInv
<1>3. up' \in Seq(UpFrames) /\ f \in UpFrames
  BY <1>1, <1>2
<1>4. /\ f.id \in Ids \cup {None}
      /\ f.type \notin {"subscribe", "reply"} =>
            f.id \in Others /\ f.id \in Ids /\ f.scope \in Ids \cup {None}
      /\ f.type = "reply" => f.id \in Requests /\ f.scope \in Decisions
  BY <1>3 DEF UpFrames, Frame, Kinds, Others, Ids
<1>5. /\ starts \in Seq(Others) /\ sessions \subseteq Sessions /\ done \subseteq Others
      /\ asked \subseteq Requests /\ online \in BOOLEAN /\ decision \in Answers
      /\ \A r \in Requests : decision[r] # None => r \in asked
      /\ None \in Ids \cup {None}
  BY DEF CommandInv, DaemonInv
<1> HIDE DEF f
<1>6. ASSUME UNCHANGED <<sessions, starts, decision, done>>
      PROVE  DaemonInv' /\ Stays
  BY <1>1, <1>5, <1>6, DoneStays DEF DaemonInv, Others, Answers
<1>7. CASE /\ f.type = "subscribe" /\ Broadcast(<<Snapshot>>)
           /\ UNCHANGED <<sessions, starts, decision, done>>
  <2>1. Snapshot \in Told'
    <3>1. TheDaemon \in [online : BOOLEAN, sessions : SUBSET Sessions]
      BY <1>5 DEF TheDaemon
    <3> QED BY <3>1, SnapshotTold DEF Snapshot
  <2> QED BY <1>1, <1>3, <1>6, <1>7, <2>1, TellStep
<1>8. CASE /\ f.type = "chat_send"
           /\ Broadcast(<<Frame(IF online THEN "chat" ELSE "chat_error", f.id, f.scope)>>)
           /\ done' = IF online THEN done \cup {f.id} ELSE done
           /\ UNCHANGED <<sessions, starts, decision>>
  <2>1. DaemonInv' /\ Stays
    BY <1>1, <1>4, <1>5, <1>8, DoneStays DEF DaemonInv, Others, Answers
  <2>2. CASE online
    <3>1. Frame("chat", f.id, f.scope) \in Told'
      BY <1>4, <1>8, <2>2, FramesTold
    <3> QED BY <1>1, <1>3, <1>8, <2>1, <2>2, <3>1, TellStep
  <2>3. CASE ~online
    <3>1. Frame("chat_error", f.id, f.scope) \in Told'
      BY <1>4, <1>8, FramesTold
    <3> QED BY <1>1, <1>3, <1>8, <2>1, <2>3, <3>1, TellStep
  <2> QED BY <2>2, <2>3
<1>9. CASE online /\ DaemonReceive(f)
  <2>1. CASE /\ f.type = "kill_session"
             /\ \/ f.id \in sessions /\ Ends(f.id)
                \/ UNCHANGED <<sessions, done, down>>
             /\ UNCHANGED <<starts, decision>>
    <3>1. CASE f.id \in sessions /\ Ends(f.id)
      <4>1. /\ sessions' = sessions \ {f.id} /\ done' = done \cup {f.id}
            /\ Broadcast(<<Frame("session_close", None, f.id)>>) /\ f.id \in Ids
        BY <1>5, <3>1 DEF Ends, Ids
      <4>2. Frame("session_close", None, f.id) \in Told'
        BY <1>5, <4>1, FramesTold
      <4>3. DaemonInv' /\ Stays
        BY <1>1, <1>4, <1>5, <2>1, <4>1, DoneStays DEF DaemonInv, Others, Answers
      <4> QED BY <1>1, <1>3, <4>1, <4>2, <4>3, TellStep
    <3>2. CASE UNCHANGED <<sessions, done, down>>
      BY <1>1, <1>3, <1>6, <2>1, <3>2, TellStep
    <3> QED BY <2>1, <3>1, <3>2
  <2>2. CASE /\ f.type = "start_session"
             /\ \/ Broadcast(<<Frame("start_session_rejected", f.id, None)>>) /\ UNCHANGED starts
                \/ starts' = Append(starts, f.id) /\ UNCHANGED down
             /\ UNCHANGED <<sessions, done, decision>>
    <3>1. Append(starts, f.id) \in Seq(Others)
      BY <1>4, <1>5, <2>2
    <3>2. DaemonInv' /\ Stays
      BY <1>1, <1>5, <2>2, <3>1, DoneStays DEF DaemonInv, Others, Answers
    <3>3. Frame("start_session_rejected", f.id, None) \in Told'
      BY <1>4, <1>5, FramesTold
    <3> QED BY <1>1, <1>3, <2>2, <3>2, <3>3, TellStep
  <2>3. CASE /\ f.type = "request_history"
             /\ Broadcast(<<Frame("history_chunk", f.id, f.scope)>>)
             /\ done' = done \cup {f.id} /\ UNCHANGED <<sessions, starts, decision>>
    <3>1. DaemonInv' /\ Stays
      BY <1>1, <1>4, <1>5, <2>3, DoneStays DEF DaemonInv, Others, Answers
    <3>2. Frame("history_chunk", f.id, f.scope) \in Told'
      BY <1>4, <2>3, FramesTold
    <3> QED BY <1>1, <1>3, <2>3, <3>1, <3>2, TellStep
  <2>4. CASE f.type = "reply" /\ Decides(f.id, f.scope) /\ UNCHANGED <<sessions, starts, done>>
    BY <1>1, <1>3, <1>4, <2>4, DecideStep
  <2> QED BY <1>9, <2>1, <2>2, <2>3, <2>4 DEF DaemonReceive
<1>10. CASE UNCHANGED <<down, sessions, starts, decision, done>>
  BY <1>1, <1>3, <1>6, <1>10, TellStep
<1> QED BY <1>7, <1>8, <1>9, <1>10 DEF HubReceive, f

\* A frame settles and takes away commands, and only those it confirms go
\* although they wait.
LEMMA PwaStep ==
    ASSUME CommandInv, PwaReceive
    PROVE  CommandInv' /\ Confirms
<1> DEFINE f == Head(down)
           kept == Without(cmds, Confirmed(f))
           c == Settle(kept, Failed(f), "failed")
<1>1. /\ sock = "open" /\ down # <<>> /\ down' = Tail(down)
      /\ got' = TRUE /\ frameless' = 0
      /\ cards' = IF f.type = "permission_request" THEN cards \cup {f.id}
                  ELSE IF f.type = "permission_resolved" THEN cards \ {f.id} ELSE cards
      /\ receipts' = IF f.type = "permission_resolved"
                     THEN [receipts EXCEPT ![f.id] = f.scope] ELSE receipts
      /\ Commit(c, {})
      /\ UNCHANGED <<bearer, valid, browserOnline, sock, connected, stopped, used, up, daemon,
                     spent>>
  BY DEF PwaReceive, Reduce
<1>2. down \in Seq(Told) /\ IsTable(cmds)
  BY DEF CommandInv, FramesInv, TableInv
<1>3. f \in Told /\ down' \in Seq(Told) /\ done' = done /\ UNCHANGED daemon
  BY <1>1, <1>2 DEF daemon
<1> HIDE DEF f
<1>4. /\ IsTable(kept) /\ DOMAIN kept = DOMAIN cmds \ Confirmed(f)
      /\ \A i : Waits(kept, i) <=> Waits(cmds, i) /\ i \notin Confirmed(f)
  BY <1>2, WithoutTable
<1> HIDE DEF kept
<1>5. IsTable(c) /\ DOMAIN c = DOMAIN kept /\ \A i : Waits(c, i) => Waits(kept, i)
  BY <1>4, SettleTable
<1> HIDE DEF c
<1>6. TableInv'
  BY <1>1, <1>4, <1>5, CommitTable DEF CommandInv, TableInv
<1>7. SocketInv'
  <2>1. frameless' \in 0 .. 3 /\ frameless' # 3
    BY <1>1
  <2>2. SocketInv
    BY DEF CommandInv
  <2> QED BY <1>1, <2>1, <2>2, Zenon DEF SocketInv
<1>8. DaemonInv'
  BY <1>1 DEF CommandInv, DaemonInv, daemon
<1>9. FramesInv'
  <2>1. Stays
    BY <1>3 DEF Stays, daemon
  <2>2. down' \in Seq(Told')
    BY <1>3, <2>1, ToldStays
  <2>3. cards' \subseteq Requests
    BY <1>1, <1>3 DEF Told, CommandInv, FramesInv
  <2>4. receipts' \in Answers
    <3>1. receipts \in Answers
      BY DEF CommandInv, FramesInv
    <3>2. CASE f.type = "permission_resolved"
      BY <1>1, <1>3, <3>1, <3>2 DEF Told, Answers
    <3>3. CASE f.type # "permission_resolved"
      BY <1>1, <3>1, <3>3
    <3> QED BY <3>2, <3>3
  <2> QED BY <1>1, <2>2, <2>3, <2>4 DEF CommandInv, FramesInv, UpFrames, Others, Ids, Answers
<1>10. Confirms
  <2> SUFFICES ASSUME NEW i \in DOMAIN cmds \ DOMAIN cmds'
               PROVE  IF cmds[i].kind = "reply"
                      THEN receipts'[i] # None /\ receipts'[i] = decision'[i]
                      ELSE i \in done'
    BY DEF Confirms
  <2>1. i \in Confirmed(f)
    BY <1>1, <1>4, <1>5 DEF Commit
  <2>2. i \in Ids /\ i # None
    BY <1>2, IdsAssumption DEF IsTable, Ids
  <2>3. CASE f.type = "permission_resolved"
    <3>1. i = f.id /\ i \in Requests /\ f.scope \in Decisions /\ f.scope = decision[i]
      BY <1>3, <2>1, <2>3 DEF Told, Confirmed
    <3>2. cmds[i].kind = "reply"
      BY <1>2, <3>1 DEF IsTable, Fits
    <3>3. receipts'[i] = f.scope /\ decision'[i] = decision[i]
      BY <1>1, <1>3, <2>3, <3>1 DEF CommandInv, FramesInv, Answers, daemon
    <3>4. None \notin Decisions
      BY DEF None, Decisions
    <3> QED BY <3>1, <3>2, <3>3, <3>4
  <2>4. CASE f.type # "permission_resolved"
    <3>1. i \in done
      BY <1>3, <2>1, <2>2, <2>4 DEF Told
    <3>2. cmds[i].kind # "reply"
      <4>1. i \in Sessions \cup Fresh
        BY <3>1 DEF CommandInv, DaemonInv, Others
      <4> QED BY <1>2, <4>1 DEF IsTable, Fits
    <3> QED BY <1>3, <3>1, <3>2
  <2> QED BY <2>3, <2>4
<1> QED BY <1>6, <1>7, <1>8, <1>9, <1>10 DEF CommandInv

\* Every step keeps the invariant and confirms only what was done.
LEMMA NextStep ==
    ASSUME CommandInv, [Next]_vars
    PROVE  CommandInv' /\ (Confirms \/ UNCHANGED vars)
<1>1. CASE UNCHANGED vars
  <2>1. /\ UNCHANGED <<bearer, valid, browserOnline, sock, connected, got, frameless, stopped>>
        /\ UNCHANGED <<cmds, timers, used, cards, up, down, online>>
        /\ UNCHANGED <<sessions, starts, asked, decision, done, spent, receipts>>
    BY <1>1 DEF vars, connection, table, screen, daemon
  <2>2. Told' = Told
    BY <2>1 DEF Told, Confirmed, Scopes, Ids
  <2>3. FramesInv'
    BY <2>1, <2>2 DEF CommandInv, FramesInv, UpFrames, Others, Ids, Answers
  <2>4. SocketInv' /\ TableInv' /\ DaemonInv'
    BY <2>1 DEF CommandInv, SocketInv, TableInv, DaemonInv
  <2> QED BY <1>1, <2>3, <2>4 DEF CommandInv
<1>2. CASE Next
  BY <1>2, ConnectionStep, ReloadStep, UserStep, EndOfEntryStep, DaemonMoves, HubStep, PwaStep
     DEF Next
<1> QED BY <1>1, <1>2

\* The invariant holds in every reachable state.
LEMMA CommandInvariant == Spec => []CommandInv
<1>1. ASSUME CommandInv, [Next]_vars PROVE CommandInv'
  BY <1>1, NextStep
<1> QED BY <1>1, CommandInvInit, PTL DEF Spec

\* In every reachable state the table has one entry for each scope and a timer
\* for each that waits, and a user who is signed in has a socket or a retry.
THEOREM CommandsCorrect == Spec => []CommandsAreTracked
<1> QED BY CommandInvariant, CommandInvImplies, PTL

\* Whatever answers are late, lost or meant for others: a command that still
\* waits leaves the table only when its message was handed on, its start opened a
\* session, its page was sent, or its session ended.  A reply leaves it only when
\* the request is decided, by this reply, an earlier attempt at it or another
\* PWA's, and the decision the user is shown is the one that was recorded.
THEOREM ConfirmedCorrect == Spec => ConfirmedIsDone
<1>1. ASSUME CommandInv, [Next]_vars
      PROVE  [\A i \in DOMAIN cmds \ DOMAIN cmds' :
                Pending(i) /\ ~Reload =>
                    IF cmds[i].kind = "reply"
                    THEN receipts'[i] # None /\ receipts'[i] = decision'[i]
                    ELSE i \in done']_vars
  BY <1>1, NextStep DEF Confirms
<1> QED BY <1>1, CommandInvariant, PTL DEF Spec, ConfirmedIsDone
=============================================================================
