---------------------- MODULE PermissionRelay_proofs ----------------------
(***************************************************************************)
(* Proofs about PermissionRelay, for any sessions, requests, PWAs and      *)
(* limits.                                                                 *)
(***************************************************************************)
EXTENDS PermissionRelay, FiniteSetTheorems, SequenceTheorems, TLAPS

Frame == PluginFrame \cup HubFrame

\* The types of the session machine alone.
LEMMA FsmTypes ==
    ASSUME Fsm!TypeOK, NEW s \in Sessions,
           \/ Fsm!Register(s) \/ Fsm!RemoveSession(s) \/ Fsm!OnPermissionRequest(s)
           \/ Fsm!OnPermissionResolved(s) \/ UNCHANGED fsmVars
    PROVE  Fsm!TypeOK'
<1> USE DEF Fsm!TypeOK, Fsm!Registered, Fsm!Entry, Fsm!SessionState
<1>1. CASE UNCHANGED fsmVars
  BY <1>1 DEF fsmVars
<1>2. CASE Fsm!Register(s)
  <2>1. CASE s \notin DOMAIN entries
    BY <1>2, <2>1 DEF Fsm!Register, Fsm!SetEntry, Fsm!NewEntry
  <2>2. CASE s \in DOMAIN entries
    BY <1>2, <2>2 DEF Fsm!Register, Fsm!vars
  <2>3. QED
    BY <2>1, <2>2
<1>3. CASE Fsm!RemoveSession(s)
  BY <1>3 DEF Fsm!RemoveSession
<1>4. CASE Fsm!OnPermissionRequest(s)
  <2> DEFINE cur == Fsm!EntryFor(s)
             counted == [cur EXCEPT !.pendingCount = @ + 1]
             stashed == [counted EXCEPT !.prevBeforeWaiting = cur.state]
  <2>1. cur \in Fsm!Entry
    BY DEF Fsm!EntryFor, Fsm!NewEntry
  <2>2. counted \in Fsm!Entry /\ stashed \in Fsm!Entry
    <3> HIDE DEF cur
    <3>1. counted \in Fsm!Entry /\ cur.state \in Fsm!SessionState
      BY <2>1
    <3> HIDE DEF counted
    <3>2. QED
      BY <3>1
  <2>3. \/ Fsm!Quietly(s, counted)
        \/ Fsm!Transition(s, stashed, "waiting")
    BY <1>4 DEF Fsm!OnPermissionRequest
  <2> HIDE DEF cur, counted, stashed
  <2>4. QED
    BY <2>2, <2>3 DEF Fsm!Quietly, Fsm!Transition, Fsm!SetEntry, Fsm!RunAfter
<1>5. CASE Fsm!OnPermissionResolved(s)
  <2> DEFINE cur == entries[s]
             left == IF cur.pendingCount > 0 THEN cur.pendingCount - 1 ELSE 0
             counted == [cur EXCEPT !.pendingCount = left]
  <2>1. s \in DOMAIN entries /\ cur \in Fsm!Entry
    BY <1>5 DEF Fsm!OnPermissionResolved
  <2>2. counted \in Fsm!Entry /\ cur.prevBeforeWaiting \in Fsm!SessionState
    BY <2>1
  <2>3. \/ Fsm!Quietly(s, counted)
        \/ Fsm!Transition(s, counted, cur.prevBeforeWaiting)
    BY <1>5 DEF Fsm!OnPermissionResolved
  <2> DEFINE next == cur.prevBeforeWaiting
  <2> HIDE DEF cur, counted, next
  <2>4. QED
    BY <2>2, <2>3 DEF Fsm!Quietly, Fsm!Transition, Fsm!SetEntry, Fsm!RunAfter, next
<1>6. QED
  BY <1>1, <1>2, <1>3, <1>4, <1>5

LEMMA FsmUnchanged ==
    ASSUME Fsm!TypeOK, UNCHANGED fsmVars
    PROVE  Fsm!TypeOK'
BY DEF fsmVars, Fsm!TypeOK, Fsm!Registered

LEMMA SpendTypes ==
    ASSUME spent \in [Events -> Nat], NEW event \in Events, Spend(event)
    PROVE  spent' \in [Events -> Nat]
BY DEF Spend

LEMMA EmptyFrames == ASSUME NEW S PROVE <<>> \in Seq(S)
OBVIOUS

\* hub.send() puts its frame in one of the two queues.
LEMMA SendQueues ==
    ASSUME LinkTypes, NEW f \in HubFrame, HubSend(f)
    PROVE  queued' \in Seq(HubFrame) /\ toHub' \in Seq(HubFrame)
<1>1. CASE link = "up"
  BY <1>1 DEF LinkTypes, HubSend
<1>2. CASE link # "up"
  BY <1>2 DEF LinkTypes, HubSend
<1>3. QED
  BY <1>1, <1>2

LEMMA SendTypes ==
    ASSUME LinkTypes, NEW f \in HubFrame, HubSend(f),
           UNCHANGED <<link, replies>>
    PROVE  LinkTypes'
BY SendQueues DEF LinkTypes

\* The daemon writes to the socket of s.
LEMMA PushTypes ==
    ASSUME SocketTypes, NEW s \in Sessions, NEW f \in PluginFrame,
           toPlugin' = [toPlugin EXCEPT ![s] = Append(@, f)], UNCHANGED toDaemon
    PROVE  SocketTypes'
BY DEF SocketTypes

\* A plugin writes to its socket.
LEMMA PluginSendTypes ==
    ASSUME SocketTypes, NEW s \in Sessions, NEW f \in DaemonFrame,
           PluginSends(s, f), UNCHANGED toPlugin
    PROVE  SocketTypes'
BY DEF SocketTypes, PluginSends

LEMMA ClosedProcess ==
    ASSUME NEW q \in Process, NEW next \in {"new", "up", "down", "leaving", "gone"}
    PROVE  [q EXCEPT !.status = next, !.acks = 0, !.ready = TRUE] \in Process
BY DEF Process

\* The plugin process of s becomes e.
LEMMA ProcessTypes ==
    ASSUME PluginTypes, NEW s \in Sessions, NEW e \in Process,
           plugin' = [plugin EXCEPT ![s] = e], UNCHANGED claude
    PROVE  PluginTypes'
BY DEF PluginTypes

LEMMA ConnectTypes ==
    ASSUME PluginTypes, SocketTypes, NEW s \in Sessions, NEW n \in Nat,
           Connect(s, n)
    PROVE  PluginTypes' /\ SocketTypes'
<1>1. Bare("register") \in DaemonFrame
  BY DEF Bare, DaemonFrame
<1>2. SocketTypes'
  BY <1>1, PluginSendTypes DEF Connect
<1>3. PluginTypes'
  <2> DEFINE q == plugin[s]
             e == [q EXCEPT !.status = "up", !.conn = n, !.acks = 1]
  <2>1. plugin' = [plugin EXCEPT ![s] = e] /\ UNCHANGED claude
    BY DEF Connect
  <2>2. q \in Process
    BY DEF PluginTypes
  <2>3. e \in Process
    BY <2>2 DEF Process
  <2> HIDE DEF e
  <2>4. QED
    BY <2>1, <2>3, ProcessTypes
<1>4. QED
  BY <1>2, <1>3

\* Steps of a plugin that write a frame or close the connection.
LEMMA PluginStepTypes ==
    ASSUME TypeOK, NEW s \in Sessions,
           \/ Start(s) \/ Reconnect(s) \/ ReplyTool(s) \/ Goodbye(s)
           \/ Drop(s) \/ Exit(s)
    PROVE  TypeOK'
<1> DEFINE q == plugin[s]
<1> USE DEF fsmVars, linkVars, pwaVars
<1>0. /\ PluginTypes /\ SocketTypes /\ DaemonTypes /\ LinkTypes /\ PwaTypes
      /\ spent \in [Events -> Nat]
  BY DEF TypeOK
<1>1. ASSUME UNCHANGED <<linkVars, pwaVars>>
      PROVE  LinkTypes' /\ PwaTypes'
  BY <1>0, <1>1 DEF LinkTypes, PwaTypes
<1>2. ASSUME UNCHANGED <<db, requestToClient, fsmVars>>
      PROVE  DaemonTypes'
  BY <1>0, <1>2, FsmUnchanged DEF DaemonTypes
<1>3. ASSUME NEW e \in Events, Spend(e)
      PROVE  spent' \in [Events -> Nat]
  BY <1>0, <1>3 DEF Spend
<1>4. CASE Start(s)
  <2>1. Connect(s, 1) /\ UNCHANGED spent
    BY <1>4 DEF Start
  <2>2. PluginTypes' /\ SocketTypes'
    BY <1>0, <2>1, ConnectTypes
  <2>3. QED
    BY <1>0, <1>1, <1>2, <2>1, <2>2 DEF TypeOK, Connect
<1>5. CASE Reconnect(s)
  <2>1. Connect(s, plugin[s].conn + 1) /\ Spend("reconnect")
    BY <1>5 DEF Reconnect
  <2>2. plugin[s].conn + 1 \in Nat
    BY <1>0 DEF PluginTypes, Process
  <2>3. PluginTypes' /\ SocketTypes'
    BY <1>0, <2>1, <2>2, ConnectTypes
  <2>4. "reconnect" \in Events
    BY DEF Events
  <2>5. QED
    BY <1>0, <1>1, <1>2, <1>3, <2>1, <2>3, <2>4 DEF TypeOK, Connect
<1>6. CASE ReplyTool(s)
  <2> DEFINE e == [q EXCEPT !.acks = @ + 1]
  <2>1. /\ plugin' = [plugin EXCEPT ![s] = e]
        /\ UNCHANGED <<claude, toPlugin, db, requestToClient, fsmVars, linkVars, pwaVars>>
        /\ PluginSends(s, Bare("chat_out"))
        /\ Spend("chat")
    BY <1>6 DEF ReplyTool
  <2>2. PluginTypes'
    <3>1. q \in Process
      BY <1>0 DEF PluginTypes
    <3>2. e \in Process
      BY <3>1 DEF Process
    <3> HIDE DEF e
    <3>3. QED
      BY <1>0, <2>1, <3>2, ProcessTypes
  <2>3. Bare("chat_out") \in DaemonFrame /\ "chat" \in Events
    BY DEF Bare, DaemonFrame, Events
  <2>4. SocketTypes'
    BY <1>0, <2>1, <2>3, PluginSendTypes
  <2>5. QED
    BY <1>1, <1>2, <1>3, <2>1, <2>2, <2>3, <2>4 DEF TypeOK
<1>7. CASE Goodbye(s)
  <2> DEFINE e == [q EXCEPT !.status = "leaving", !.acks = @ + 1]
  <2>1. /\ plugin' = [plugin EXCEPT ![s] = e]
        /\ UNCHANGED <<claude, toPlugin, db, requestToClient, fsmVars, linkVars,
                       pwaVars, spent>>
        /\ PluginSends(s, Bare("bye"))
    BY <1>7 DEF Goodbye
  <2>2. PluginTypes'
    <3>1. q \in Process
      BY <1>0 DEF PluginTypes
    <3> DEFINE n == q.acks + 1
    <3>2. n \in Nat
      BY <3>1 DEF Process
    <3> HIDE DEF n
    <3>3. [q EXCEPT !.status = "leaving", !.acks = n] \in Process
      BY <3>1, <3>2 DEF Process
    <3> USE DEF n
    <3> HIDE DEF e
    <3>4. QED
      BY <1>0, <2>1, <3>3, ProcessTypes DEF e
  <2>3. Bare("bye") \in DaemonFrame
    BY DEF Bare, DaemonFrame
  <2>4. SocketTypes'
    BY <1>0, <2>1, <2>3, PluginSendTypes
  <2>5. QED
    BY <1>0, <1>1, <1>2, <2>1, <2>2, <2>4 DEF TypeOK
<1>8. ASSUME NEW next \in {"down", "gone"}, SocketClosed(s, next)
      PROVE  TypeOK'
  <2> DEFINE e == [q EXCEPT !.status = next, !.acks = 0, !.ready = TRUE]
  <2>1. /\ plugin' = [plugin EXCEPT ![s] = e]
        /\ toDaemon' = [toDaemon EXCEPT ![s] = <<>>]
        /\ toPlugin' = [toPlugin EXCEPT ![s] = <<>>]
        /\ UNCHANGED <<claude, db, requestToClient, linkVars, pwaVars, spent>>
        /\ Fsm!RemoveSession(s) \/ UNCHANGED fsmVars
    BY <1>8 DEF SocketClosed
  <2>2. PluginTypes'
    <3> DEFINE closed == [q EXCEPT !.status = next, !.acks = 0, !.ready = TRUE]
    <3>1. q \in Process
      BY <1>0 DEF PluginTypes, Process
    <3>2. closed \in Process
      BY <3>1 DEF Process
    <3>3. plugin' = [plugin EXCEPT ![s] = closed] /\ UNCHANGED claude
      BY <2>1
    <3> HIDE DEF closed
    <3>4. QED
      BY <1>0, <3>2, <3>3 DEF PluginTypes
  <2>3. SocketTypes'
    BY <1>0, <2>1 DEF SocketTypes
  <2>4. DaemonTypes'
    BY <1>0, <2>1, FsmTypes DEF DaemonTypes
  <2>5. QED
    BY <1>0, <1>1, <2>1, <2>2, <2>3, <2>4 DEF TypeOK
<1>9. QED
  BY <1>4, <1>5, <1>6, <1>7, <1>8 DEF Drop, Exit

LEMMA PluginDataTypes ==
    ASSUME TypeOK, NEW s \in Sessions, PluginData(s)
    PROVE  TypeOK'
<1> DEFINE f == Head(toPlugin[s])
           q == plugin[s]
<1>1. /\ PluginTypes /\ SocketTypes /\ DaemonTypes /\ LinkTypes /\ PwaTypes
      /\ spent \in [Events -> Nat]
  BY DEF TypeOK
<1>2. /\ toPlugin[s] # <<>>
      /\ toPlugin' = [toPlugin EXCEPT ![s] = Tail(@)]
      /\ UNCHANGED <<toDaemon, db, requestToClient, fsmVars, linkVars, pwaVars, spent>>
  BY DEF PluginData
<1>3. f \in PluginFrame
  BY <1>1, <1>2 DEF SocketTypes
<1>4. SocketTypes'
  BY <1>1, <1>2 DEF SocketTypes
<1>5. LinkTypes' /\ PwaTypes' /\ spent' \in [Events -> Nat]
  BY <1>1, <1>2 DEF LinkTypes, PwaTypes, linkVars, pwaVars
<1>6. DaemonTypes'
  BY <1>1, <1>2, FsmUnchanged DEF DaemonTypes
<1>7. PluginTypes'
  <2>1. CASE q.acks > 0
    <3> DEFINE left == q.acks - 1
               taken == [q EXCEPT !.acks = left, !.ready = TRUE]
    <3>1. q \in Process
      BY <1>1 DEF PluginTypes, Process
    <3>2. left \in Nat /\ q.acks # 0
      BY <2>1, <3>1 DEF Process
    <3>3. plugin' = [plugin EXCEPT ![s] = taken] /\ UNCHANGED claude
      <4> HIDE DEF f
      <4>1. QED
        BY <3>2, Zenon DEF PluginData
    <3> HIDE DEF left
    <3>4. taken \in Process
      BY <3>1, <3>2 DEF Process
    <3> HIDE DEF taken
    <3>5. QED
      BY <1>1, <3>3, <3>4, ProcessTypes
  <2>2. CASE q.acks = 0 /\ f.type = "permission_reply"
    <3>1. f.id \in Requests /\ f.decision \in Decisions
      BY <1>3, <2>2 DEF PluginFrame
    <3>2. /\ plugin' = plugin
          /\ \/ claude' = claude
             \/ claude' = [claude EXCEPT ![f.id] = [answer |-> f.decision, via |-> "relay"]]
      BY <2>2 DEF PluginData
    <3> HIDE DEF f
    <3>3. QED
      BY <1>1, <3>1, <3>2 DEF PluginTypes, Process
  <2>3. CASE q.acks = 0 /\ f.type = "ack"
    BY <1>1, <2>3 DEF PluginData, PluginTypes
  <2>4. QED
    BY <2>1, <2>2, <2>3 DEF PluginData
<1>8. QED
  BY <1>4, <1>5, <1>6, <1>7 DEF TypeOK

\* What Claude and the person at the terminal do keeps the types.
LEMMA ClaudeTypes ==
    ASSUME TypeOK, NEW r \in Requests,
           Ask(r) \/ \E d \in Decisions : AnswerAtTerminal(r, d)
    PROVE  TypeOK'
<1>1. /\ PluginTypes /\ SocketTypes /\ DaemonTypes /\ LinkTypes /\ PwaTypes
      /\ spent \in [Events -> Nat]
  BY DEF TypeOK
<1>2. UNCHANGED <<plugin, toPlugin, db, requestToClient, fsmVars, linkVars, pwaVars>>
  BY DEF Ask, AnswerAtTerminal, socketVars
<1>3. DaemonTypes' /\ LinkTypes' /\ PwaTypes'
  BY <1>1, <1>2, FsmUnchanged DEF DaemonTypes, LinkTypes, PwaTypes, linkVars, pwaVars
<1>4. CASE Ask(r)
  <2>1. PluginTypes'
    BY <1>1, <1>4 DEF Ask, PluginTypes
  <2>2. Owner[r] \in Sessions /\ Request(r) \in DaemonFrame
    BY OwnerAssumption DEF Request, DaemonFrame
  <2>3. PluginSends(Owner[r], Request(r)) \/ UNCHANGED toDaemon
    BY <1>4 DEF Ask
  <2>4. SocketTypes'
    BY <1>1, <1>2, <2>2, <2>3, PluginSendTypes DEF SocketTypes
  <2>5. QED
    BY <1>1, <1>3, <1>4, <2>1, <2>4 DEF TypeOK, Ask
<1>5. ASSUME NEW d \in Decisions, AnswerAtTerminal(r, d)
      PROVE  TypeOK'
  <2>1. /\ claude' = [claude EXCEPT ![r] = [answer |-> d, via |-> "terminal"]]
        /\ UNCHANGED <<plugin, toDaemon, toPlugin>>
        /\ spent' = [spent EXCEPT !["terminal"] = @ + 1]
    BY <1>5 DEF AnswerAtTerminal, Spend, socketVars
  <2>2. PluginTypes'
    BY <1>1, <2>1 DEF PluginTypes, Process
  <2>3. SocketTypes'
    BY <1>1, <2>1 DEF SocketTypes
  <2>4. spent' \in [Events -> Nat]
    BY <1>1, <2>1 DEF Events
  <2>5. QED
    BY <1>3, <2>2, <2>3, <2>4 DEF TypeOK
<1>6. QED
  BY <1>4, <1>5

LEMMA AcknowledgeTypes ==
    ASSUME SocketTypes, NEW s \in Sessions, NEW type, Receive(s, type), Acknowledge(s)
    PROVE  SocketTypes'
<1>1. Bare("ack") \in PluginFrame
  BY DEF Bare, PluginFrame
<1>2. QED
  BY <1>1 DEF SocketTypes, Receive, Acknowledge

\* The handlers of the daemon for the frames of the plugins keep the types.
LEMMA DaemonFrameTypes ==
    ASSUME TypeOK, NEW s \in Sessions,
           OnRegister(s) \/ OnBye(s) \/ OnPermissionRequest(s) \/ OnChatOut(s)
    PROVE  TypeOK'
<1>1. /\ PluginTypes /\ SocketTypes /\ DaemonTypes /\ LinkTypes /\ PwaTypes
      /\ spent \in [Events -> Nat]
  BY DEF TypeOK
<1>2. UNCHANGED <<claude, plugin, link, replies, pwaVars, spent>>
  BY DEF OnRegister, OnBye, OnPermissionRequest, OnChatOut, linkVars
<1>3. PluginTypes' /\ PwaTypes' /\ spent' \in [Events -> Nat]
  BY <1>1, <1>2 DEF PluginTypes, PwaTypes, pwaVars
<1>4. CASE OnRegister(s)
  <2>1. SocketTypes'
    BY <1>1, <1>4, AcknowledgeTypes DEF OnRegister
  <2>2. DaemonTypes'
    BY <1>1, <1>4, FsmTypes DEF OnRegister, DaemonTypes
  <2>3. LinkTypes'
    BY <1>1, <1>4 DEF OnRegister, LinkTypes, linkVars
  <2>4. QED
    BY <1>3, <2>1, <2>2, <2>3 DEF TypeOK
<1>5. CASE OnBye(s)
  <2>1. SocketTypes'
    BY <1>1, <1>5, AcknowledgeTypes DEF OnBye
  <2>2. DaemonTypes'
    BY <1>1, <1>5, FsmTypes DEF OnBye, DaemonTypes
  <2>3. LinkTypes'
    BY <1>1, <1>5 DEF OnBye, LinkTypes, linkVars
  <2>4. QED
    BY <1>3, <2>1, <2>2, <2>3 DEF TypeOK
<1>6. CASE OnChatOut(s)
  <2>1. SocketTypes'
    BY <1>1, <1>6, AcknowledgeTypes DEF OnChatOut
  <2>2. DaemonTypes'
    BY <1>1, <1>6, FsmUnchanged DEF OnChatOut, DaemonTypes
  <2>3. Bare("chat_out") \in HubFrame
    BY DEF Bare, HubFrame
  <2>4. LinkTypes'
    BY <1>1, <1>2, <1>6, <2>3, SendTypes DEF OnChatOut
  <2>5. QED
    BY <1>3, <2>1, <2>2, <2>4 DEF TypeOK
<1>7. CASE OnPermissionRequest(s)
  <2> DEFINE f == Head(toDaemon[s])
  <2>1. /\ toDaemon[s] # <<>> /\ f.type = "permission_request"
        /\ toDaemon' = [toDaemon EXCEPT ![s] = Tail(@)]
        /\ UNCHANGED toPlugin
    BY <1>7 DEF OnPermissionRequest, Receive
  <2>2. SocketTypes'
    BY <1>1, <2>1 DEF SocketTypes
  <2>3. f \in DaemonFrame
    BY <1>1, <2>1 DEF SocketTypes
  <2>4. f.id \in Requests
    BY <2>1, <2>3 DEF DaemonFrame
  <2>5. CASE s \notin Live
    <3>1. UNCHANGED <<db, requestToClient, fsmVars, queued, toHub>>
      BY <1>7, <2>5 DEF OnPermissionRequest
    <3>2. DaemonTypes' /\ LinkTypes'
      BY <1>1, <1>2, <3>1, FsmUnchanged DEF DaemonTypes, LinkTypes
    <3>3. QED
      BY <1>3, <2>2, <3>2 DEF TypeOK
  <2>6. CASE s \in Live
    <3> HIDE DEF f
    <3>1. /\ db' = [db EXCEPT ![f.id] = IF @ = "none" THEN "open" ELSE @]
          /\ requestToClient' = [requestToClient EXCEPT ![f.id] = plugin[s].conn]
          /\ Fsm!OnPermissionRequest(s)
          /\ HubSend(Request(f.id))
      BY <1>7, <2>6 DEF OnPermissionRequest, f
    <3>2. plugin[s].conn \in Nat
      BY <1>1 DEF PluginTypes, Process
    <3>3. DaemonTypes'
      BY <1>1, <2>4, <3>1, <3>2, FsmTypes DEF DaemonTypes
    <3>4. Request(f.id) \in HubFrame
      BY <2>4 DEF Request, HubFrame
    <3>5. LinkTypes'
      BY <1>1, <1>2, <3>1, <3>4, SendTypes
    <3>6. QED
      BY <1>3, <2>2, <3>3, <3>5 DEF TypeOK
  <2>7. QED
    BY <2>5, <2>6
<1>8. QED
  BY <1>4, <1>5, <1>6, <1>7

LEMMA PermissionReplyTypes ==
    ASSUME TypeOK, OnPermissionReply
    PROVE  TypeOK'
<1> DEFINE f == Head(replies)
           r == f.id
           d == f.decision
           s == Owner[f.id]
<1>1. /\ PluginTypes /\ SocketTypes /\ DaemonTypes /\ LinkTypes /\ PwaTypes
      /\ spent \in [Events -> Nat]
  BY DEF TypeOK
<1>2. /\ replies # <<>> /\ replies' = Tail(replies)
      /\ UNCHANGED <<claude, plugin, toDaemon, link, pwaVars, spent>>
  BY DEF OnPermissionReply
<1>3. f \in ReplyFrame /\ replies' \in Seq(ReplyFrame)
  BY <1>1, <1>2 DEF LinkTypes
<1>4. r \in Requests /\ d \in Decisions /\ s \in Sessions
  BY <1>3, OwnerAssumption DEF ReplyFrame
<1>5. PluginTypes' /\ PwaTypes' /\ spent' \in [Events -> Nat]
  BY <1>1, <1>2 DEF PluginTypes, PwaTypes, pwaVars
<1>6. CASE UNCHANGED <<db, requestToClient, toPlugin, queued, toHub, fsmVars>>
  <2>1. DaemonTypes'
    BY <1>1, <1>6, FsmUnchanged DEF DaemonTypes
  <2>2. SocketTypes' /\ LinkTypes'
    BY <1>1, <1>2, <1>3, <1>6 DEF SocketTypes, LinkTypes
  <2>3. QED
    BY <1>5, <2>1, <2>2 DEF TypeOK
<1>7. CASE /\ ResolveRequest(r, d) /\ ReplyToAsker(r, d) /\ HubSend(Resolved(r, d))
           /\ Fsm!OnPermissionResolved(s) \/ UNCHANGED fsmVars
  <2> HIDE DEF f, r, d, s
  <2>1. db' \in [Requests -> {"none", "open"} \cup Decisions]
    BY <1>1, <1>4, <1>7 DEF ResolveRequest, DaemonTypes
  <2>2. requestToClient' \in [Requests -> Nat]
    BY <1>1, <1>4, <1>7 DEF ReplyToAsker, DaemonTypes
  <2>3. DaemonTypes'
    BY <1>1, <1>4, <1>7, <2>1, <2>2, FsmTypes DEF DaemonTypes
  <2>4. Reply(r, d) \in PluginFrame /\ Resolved(r, d) \in HubFrame
    BY <1>4 DEF Reply, Resolved, PluginFrame, HubFrame
  <2>5. Owner[r] \in Sessions
    BY <1>4, OwnerAssumption
  <2>6. \/ toPlugin' = toPlugin
        \/ toPlugin' = [toPlugin EXCEPT ![Owner[r]] = Append(@, Reply(r, d))]
    BY <1>7 DEF ReplyToAsker
  <2>7. SocketTypes'
    <3>1. CASE toPlugin' = toPlugin
      BY <1>1, <1>2, <3>1 DEF SocketTypes
    <3>2. CASE toPlugin' = [toPlugin EXCEPT ![Owner[r]] = Append(@, Reply(r, d))]
      BY <1>1, <1>2, <2>4, <2>5, <3>2, PushTypes
    <3>3. QED
      BY <2>6, <3>1, <3>2
  <2>8. queued' \in Seq(HubFrame) /\ toHub' \in Seq(HubFrame)
    BY <1>1, <1>7, <2>4, SendQueues
  <2>9. LinkTypes'
    BY <1>1, <1>2, <1>3, <2>8 DEF LinkTypes
  <2>10. QED
    BY <1>5, <2>3, <2>7, <2>9 DEF TypeOK
<1>8. QED
  BY <1>6, <1>7 DEF OnPermissionReply

LEMMA RestartTypes ==
    ASSUME TypeOK, DaemonRestart
    PROVE  TypeOK'
<1>1. /\ PluginTypes /\ SocketTypes /\ DaemonTypes /\ LinkTypes /\ PwaTypes
      /\ spent \in [Events -> Nat]
  BY DEF TypeOK
<1>2. PluginTypes'
  <2> DEFINE next(t) == CASE t = "up" -> "down" [] t = "leaving" -> "gone"
                          [] OTHER -> t
             e(s) == [plugin[s] EXCEPT !.status = next(@), !.acks = 0,
                                       !.ready = @ \/ Connected(s)]
  <2>1. plugin' = [s \in Sessions |-> e(s)] /\ UNCHANGED claude
    BY DEF DaemonRestart
  <2>2. ASSUME NEW s \in Sessions
        PROVE  e(s) \in Process
    <3> DEFINE q == plugin[s]
               st == next(q.status)
               b == q.ready \/ Connected(s)
    <3>1. q \in Process
      BY <1>1 DEF PluginTypes
    <3>2. st \in {"new", "up", "down", "leaving", "gone"}
      BY <3>1 DEF Process
    <3>3. b \in BOOLEAN
      OBVIOUS
    <3> HIDE DEF st, b
    <3>4. [q EXCEPT !.status = st, !.acks = 0, !.ready = b] \in Process
      BY <3>1, <3>2, <3>3 DEF Process
    <3>5. QED
      BY <3>4 DEF st, b
  <2> HIDE DEF e
  <2>3. QED
    BY <1>1, <2>1, <2>2 DEF PluginTypes
<1>3. SocketTypes'
  <2>1. /\ toDaemon' = [s \in Sessions |-> <<>>]
        /\ toPlugin' = [s \in Sessions |-> <<>>]
    BY DEF DaemonRestart
  <2>2. QED
    BY <2>1, EmptyFrames DEF SocketTypes
<1>4. LinkTypes' /\ PwaTypes'
  <2>1. /\ link' = "down" /\ queued' = <<>> /\ toHub' = <<>> /\ replies' = <<>>
        /\ UNCHANGED pwaVars
    BY DEF DaemonRestart
  <2>2. QED
    BY <1>1, <2>1, EmptyFrames DEF LinkTypes, PwaTypes, pwaVars
<1>5. DaemonTypes'
  BY <1>1 DEF DaemonRestart, DaemonTypes, Fsm!TypeOK, Fsm!Registered, Fsm!SessionState
<1>6. spent' \in [Events -> Nat]
  BY <1>1, SpendTypes DEF DaemonRestart, Events
<1>7. QED
  BY <1>2, <1>3, <1>4, <1>5, <1>6 DEF TypeOK

LEMMA HubTypes ==
    ASSUME TypeOK, LinkUp \/ LinkDown \/ HubForward
    PROVE  TypeOK'
<1>1. /\ PluginTypes /\ SocketTypes /\ DaemonTypes /\ LinkTypes /\ PwaTypes
      /\ spent \in [Events -> Nat]
  BY DEF TypeOK
<1>2. PluginTypes' /\ SocketTypes' /\ DaemonTypes'
  BY <1>1, FsmUnchanged DEF LinkUp, LinkDown, HubForward, PluginTypes,
     SocketTypes, DaemonTypes, socketVars
<1>3. LinkTypes'
  <2>1. CASE LinkUp \/ LinkDown
    BY <1>1, <2>1, EmptyFrames DEF LinkUp, LinkDown, LinkTypes
  <2>2. CASE HubForward
    BY <1>1, <2>2 DEF HubForward, LinkTypes
  <2>3. QED
    BY <2>1, <2>2
<1>4. spent' \in [Events -> Nat]
  BY <1>1, SpendTypes DEF LinkUp, LinkDown, HubForward, Events
<1>5. PwaTypes'
  <2>1. CASE HubForward
    <3>1. Head(toHub) \in HubFrame
      BY <1>1, <2>1 DEF HubForward, LinkTypes
    <3>2. QED
      BY <1>1, <2>1, <3>1 DEF HubForward, PwaTypes
  <2>2. CASE LinkUp \/ LinkDown
    BY <1>1, <2>2 DEF LinkUp, LinkDown, PwaTypes, pwaVars
  <2>3. QED
    BY <2>1, <2>2
<1>6. QED
  BY <1>2, <1>3, <1>4, <1>5 DEF TypeOK

LEMMA ReduceTypes ==
    ASSUME NEW view \in View, NEW f \in HubFrame
    PROVE  Reduce(view, f) \in View
<1>1. CASE f.type = "permission_request"
  <2>1. f.id \in Requests
    BY <1>1 DEF HubFrame
  <2>2. Reduce(view, f) = [view EXCEPT !.pending = @ \cup {f.id}]
    BY <1>1 DEF Reduce
  <2>3. QED
    BY <2>1, <2>2 DEF View
<1>2. CASE f.type = "permission_resolved"
  <2>1. f.id \in Requests /\ f.decision \in Decisions
    BY <1>2 DEF HubFrame
  <2> DEFINE told == [view.told EXCEPT ![f.id] = f.decision]
  <2>2. Reduce(view, f) = [view EXCEPT !.pending = @ \ {f.id},
                                       !.sent = @ \ {f.id}, !.told = told]
    BY <1>2 DEF Reduce
  <2>3. told \in [Requests -> {"none"} \cup Decisions]
    BY <2>1 DEF View
  <2> HIDE DEF told
  <2>4. QED
    BY <2>1, <2>2, <2>3 DEF View
<1>3. CASE f.type = "chat_out"
  BY <1>3 DEF Reduce
<1>4. f.type \in {"chat_out", "permission_request", "permission_resolved"}
  BY DEF HubFrame
<1>5. QED
  BY <1>1, <1>2, <1>3, <1>4

\* The view of a PWA becomes v.
LEMMA ViewTypes ==
    ASSUME PwaTypes, NEW p \in Pwas, NEW v \in View,
           pwa' = [pwa EXCEPT ![p].view = v]
    PROVE  pwa' \in [Pwas -> [online : BOOLEAN, view : View]]
<1> DEFINE q == pwa[p]
           e == [q EXCEPT !.view = v]
<1>1. q \in [online : BOOLEAN, view : View]
  BY DEF PwaTypes
<1> HIDE DEF q
<1>2. e \in [online : BOOLEAN, view : View]
  BY <1>1
<1>3. pwa' = [pwa EXCEPT ![p] = e]
  BY DEF q
<1> HIDE DEF e
<1>4. QED
  BY <1>2, <1>3 DEF PwaTypes

LEMMA ProcessesUnchanged ==
    ASSUME PluginTypes, SocketTypes, DaemonTypes,
           UNCHANGED <<claude, socketVars, db, requestToClient, fsmVars>>
    PROVE  PluginTypes' /\ SocketTypes' /\ DaemonTypes'
BY FsmUnchanged DEF PluginTypes, SocketTypes, DaemonTypes, socketVars

\* Steps of a PWA keep the types.
LEMMA PwaStepTypes ==
    ASSUME TypeOK, NEW p \in Pwas,
           \/ PwaReceive(p) \/ PwaOffline(p) \/ PwaOnline(p)
           \/ \E r \in Requests : \/ CommandTimeout(p, r)
                                 \/ \E d \in Decisions : SendPermissionReply(p, r, d)
    PROVE  TypeOK'
<1> DEFINE view == pwa[p].view
<1>1. /\ PluginTypes /\ SocketTypes /\ DaemonTypes /\ LinkTypes /\ PwaTypes
      /\ spent \in [Events -> Nat]
  BY DEF TypeOK
<1>2. /\ view \in View /\ toPwa[p] \in Seq(HubFrame)
      /\ toPwa \in [Pwas -> Seq(HubFrame)]
      /\ "away" \in Events /\ "timeout" \in Events
  BY <1>1 DEF PwaTypes, Events
<1>3. CASE PwaReceive(p)
  <2> DEFINE v == Reduce(view, Head(toPwa[p]))
  <2>1. /\ toPwa[p] # <<>> /\ toPwa' = [toPwa EXCEPT ![p] = Tail(@)]
        /\ pwa' = [pwa EXCEPT ![p].view = v]
        /\ UNCHANGED <<claude, socketVars, db, requestToClient, fsmVars, linkVars, spent>>
    BY <1>3 DEF PwaReceive
  <2>2. v \in View
    BY <1>2, <2>1, ReduceTypes
  <2> HIDE DEF v
  <2>3. PwaTypes'
    <3>1. toPwa' \in [Pwas -> Seq(HubFrame)]
      BY <1>2, <2>1
    <3>2. pwa' \in [Pwas -> [online : BOOLEAN, view : View]]
      BY <1>1, <2>1, <2>2, ViewTypes
    <3>3. QED
      BY <3>1, <3>2 DEF PwaTypes
  <2>4. QED
    BY <1>1, <2>1, <2>3, ProcessesUnchanged DEF TypeOK, LinkTypes, linkVars
<1>4. CASE PwaOffline(p)
  <2>1. /\ toPwa' = [toPwa EXCEPT ![p] = <<>>]
        /\ pwa' = [pwa EXCEPT ![p] = [@ EXCEPT !.online = FALSE]]
        /\ Spend("away")
        /\ UNCHANGED <<claude, socketVars, db, requestToClient, fsmVars, linkVars>>
    BY <1>4 DEF PwaOffline
  <2> DEFINE q == pwa[p]
             e == [q EXCEPT !.online = FALSE]
  <2>2. q \in [online : BOOLEAN, view : View]
    BY <1>1 DEF PwaTypes
  <2>3. pwa' = [pwa EXCEPT ![p] = e]
    BY <2>1
  <2> HIDE DEF q
  <2>4. e \in [online : BOOLEAN, view : View]
    BY <2>2
  <2> HIDE DEF e
  <2>5. PwaTypes'
    <3>1. toPwa' \in [Pwas -> Seq(HubFrame)]
      BY <1>2, <2>1, EmptyFrames
    <3>2. pwa' \in [Pwas -> [online : BOOLEAN, view : View]]
      BY <1>1, <2>3, <2>4 DEF PwaTypes
    <3>3. QED
      BY <3>1, <3>2 DEF PwaTypes
  <2>6. spent' \in [Events -> Nat]
    BY <1>1, <1>2, <2>1, SpendTypes
  <2>7. QED
    BY <1>1, <2>1, <2>5, <2>6, ProcessesUnchanged DEF TypeOK, LinkTypes, linkVars
<1>5. CASE PwaOnline(p)
  <2>1. PICK v \in {view, NoView} :
           pwa' = [pwa EXCEPT ![p] = [online |-> TRUE, view |-> v]]
    BY <1>5 DEF PwaOnline
  <2>2. UNCHANGED <<claude, socketVars, db, requestToClient, fsmVars, linkVars,
                    toPwa, spent>>
    BY <1>5 DEF PwaOnline
  <2>3. v \in View
    BY <1>2 DEF View, NoView
  <2> DEFINE e == [online |-> TRUE, view |-> v]
  <2>4. e \in [online : BOOLEAN, view : View]
    BY <2>3
  <2>5. pwa' = [pwa EXCEPT ![p] = e]
    BY <2>1
  <2> HIDE DEF e
  <2>6. PwaTypes'
    BY <1>1, <1>2, <2>2, <2>4, <2>5 DEF PwaTypes
  <2>7. QED
    BY <1>1, <2>2, <2>6, ProcessesUnchanged DEF TypeOK, LinkTypes, linkVars
<1>6. ASSUME NEW r \in Requests, CommandTimeout(p, r)
      PROVE  TypeOK'
  <2> DEFINE v == [view EXCEPT !.sent = @ \ {r}]
  <2>1. /\ pwa' = [pwa EXCEPT ![p].view = v] /\ Spend("timeout")
        /\ UNCHANGED <<claude, socketVars, db, requestToClient, fsmVars, linkVars, toPwa>>
    BY <1>6 DEF CommandTimeout
  <2>2. v \in View
    BY <1>2 DEF View
  <2> HIDE DEF v
  <2>3. PwaTypes' /\ spent' \in [Events -> Nat]
    BY <1>1, <1>2, <2>1, <2>2, ViewTypes, SpendTypes DEF PwaTypes
  <2>4. QED
    BY <1>1, <2>1, <2>3, ProcessesUnchanged DEF TypeOK, LinkTypes, linkVars
<1>7. ASSUME NEW r \in Requests, NEW d \in Decisions, SendPermissionReply(p, r, d)
      PROVE  TypeOK'
  <2> DEFINE v == [view EXCEPT !.sent = @ \cup {r}]
  <2>1. /\ pwa' = [pwa EXCEPT ![p].view = v]
        /\ replies' = IF link = "up" THEN Append(replies, Reply(r, d)) ELSE replies
        /\ UNCHANGED <<claude, socketVars, db, requestToClient, fsmVars, link, queued,
                       toHub, toPwa, spent>>
    BY <1>7 DEF SendPermissionReply
  <2>2. v \in View
    BY <1>2 DEF View
  <2>3. Reply(r, d) \in ReplyFrame
    BY DEF Reply, ReplyFrame
  <2> HIDE DEF v
  <2>4. PwaTypes'
    BY <1>1, <1>2, <2>1, <2>2, ViewTypes DEF PwaTypes
  <2>5. LinkTypes'
    BY <1>1, <2>1, <2>3 DEF LinkTypes
  <2>6. QED
    BY <1>1, <2>1, <2>4, <2>5, ProcessesUnchanged DEF TypeOK
<1>8. QED
  BY <1>3, <1>4, <1>5, <1>6, <1>7

LEMMA InitTypes == Init => TypeOK
<1> SUFFICES ASSUME Init PROVE TypeOK
  OBVIOUS
<1>1. PluginTypes
  BY DEF Init, PluginTypes, Process
<1>2. SocketTypes /\ LinkTypes
  BY EmptyFrames DEF Init, SocketTypes, LinkTypes
<1>3. DaemonTypes
  BY DEF Init, DaemonTypes, Fsm!Init, Fsm!TypeOK, Fsm!Registered, Fsm!SessionState
<1>4. PwaTypes
  BY EmptyFrames DEF Init, PwaTypes, View, NoView
<1>5. spent \in [Events -> Nat]
  BY DEF Init
<1>6. QED
  BY <1>1, <1>2, <1>3, <1>4, <1>5 DEF TypeOK

LEMMA TypesKept ==
    ASSUME TypeOK, [Next]_vars
    PROVE  TypeOK'
<1>1. CASE UNCHANGED vars
  <2>1. PluginTypes' /\ SocketTypes' /\ DaemonTypes'
    BY <1>1, ProcessesUnchanged DEF vars, TypeOK, socketVars, fsmVars
  <2>2. QED
    BY <1>1, <2>1 DEF vars, TypeOK, LinkTypes, PwaTypes
<1>2. CASE Next
  BY <1>2, PluginStepTypes, PluginDataTypes, ClaudeTypes, DaemonFrameTypes,
     PermissionReplyTypes, RestartTypes, HubTypes, PwaStepTypes DEF Next
<1>3. QED
  BY <1>1, <1>2

\* Whatever the sessions, the requests, the PWAs and the limits are, every
\* channel carries frames of its kind, and a plugin's count of awaited acks
\* stays a natural number.
THEOREM TypeCorrect == Spec => []TypeOK
BY InitTypes, TypesKept, PTL DEF Spec

-----------------------------------------------------------------------------

\* A plugin without a connection has nothing on the way and no session.
NothingOfTheGone ==
    \A s \in Sessions : ~ Connected(s) => toDaemon[s] = <<>> /\ s \notin Live

LEMMA PluginsConnected ==
    ASSUME TypeOK, NothingOfTheGone, NEW s \in Sessions,
           \/ Start(s) \/ Reconnect(s) \/ ReplyTool(s) \/ PluginData(s)
           \/ Goodbye(s) \/ Drop(s) \/ Exit(s)
    PROVE  NothingOfTheGone'
<1> USE DEF NothingOfTheGone, Connected, Live
<1>1. /\ plugin \in [Sessions -> Process]
      /\ toDaemon \in [Sessions -> Seq(DaemonFrame)]
  BY DEF TypeOK, PluginTypes, SocketTypes
<1>2. CASE \E n : Connect(s, n)
  BY <1>1, <1>2 DEF Connect, PluginSends, fsmVars
<1>3. CASE ReplyTool(s)
  BY <1>1, <1>3 DEF ReplyTool, PluginSends, fsmVars
<1>4. CASE PluginData(s)
  <2>1. UNCHANGED <<toDaemon, fsmVars>>
    BY <1>4 DEF PluginData
  <2>2. \/ plugin' = plugin
        \/ plugin' = [plugin EXCEPT ![s].acks = @ - 1, ![s].ready = TRUE]
    BY <1>4, Zenon DEF PluginData
  <2>3. \A t \in Sessions : plugin'[t].status = plugin[t].status
    BY <1>1, <2>2 DEF Process
  <2>4. QED
    BY <2>1, <2>3 DEF fsmVars
<1>5. CASE Goodbye(s)
  BY <1>1, <1>5 DEF Goodbye, PluginSends, fsmVars
<1>6. CASE \E next \in {"down", "gone"} : SocketClosed(s, next)
  <2>1. /\ \A t \in Sessions \ {s} : /\ plugin'[t] = plugin[t]
                                    /\ toDaemon'[t] = toDaemon[t]
        /\ toDaemon'[s] = <<>>
    BY <1>1, <1>6 DEF SocketClosed
  <2>2. DOMAIN entries' = DOMAIN entries \ {s}
    BY <1>6 DEF SocketClosed, fsmVars, Fsm!RemoveSession, Fsm!Registered
  <2>3. QED
    BY <2>1, <2>2
<1>7. QED
  BY <1>2, <1>3, <1>4, <1>5, <1>6 DEF Start, Reconnect, Drop, Exit

\* What the operators of the session machine do to the set of live sessions.
LEMMA LiveSteps ==
    ASSUME NEW s
    PROVE  /\ Fsm!Register(s) => Live' = Live \cup {s}
           /\ Fsm!RemoveSession(s) => Live' = Live \ {s}
           /\ Fsm!OnPermissionRequest(s) => Live' = Live \cup {s}
           /\ Fsm!OnPermissionResolved(s) => Live' = Live
           /\ UNCHANGED fsmVars => Live' = Live
<1> USE DEF Live, Fsm!Registered, Fsm!Quietly, Fsm!Transition, Fsm!SetEntry
<1>1. Fsm!Register(s) => Live' = Live \cup {s}
  BY DEF Fsm!Register, Fsm!vars
<1>2. Fsm!RemoveSession(s) => Live' = Live \ {s}
  BY DEF Fsm!RemoveSession
<1>3. Fsm!OnPermissionRequest(s) => Live' = Live \cup {s}
  BY DEF Fsm!OnPermissionRequest
<1>4. Fsm!OnPermissionResolved(s) => Live' = Live
  BY DEF Fsm!OnPermissionResolved
<1>5. UNCHANGED fsmVars => Live' = Live
  BY DEF fsmVars
<1>6. QED
  BY <1>1, <1>2, <1>3, <1>4, <1>5

LEMMA DaemonConnected ==
    ASSUME TypeOK, NothingOfTheGone, NEW s \in Sessions,
           OnRegister(s) \/ OnBye(s) \/ OnPermissionRequest(s) \/ OnChatOut(s)
    PROVE  NothingOfTheGone'
<1> USE DEF NothingOfTheGone, Connected
<1>1. toDaemon \in [Sessions -> Seq(DaemonFrame)]
  BY DEF TypeOK, SocketTypes
<1>2. /\ toDaemon[s] # <<>>
      /\ toDaemon' = [toDaemon EXCEPT ![s] = Tail(@)]
      /\ plugin' = plugin
  BY DEF OnRegister, OnBye, OnPermissionRequest, OnChatOut, Receive
<1>3. Live' \subseteq Live \cup {s}
  BY LiveSteps DEF OnRegister, OnBye, OnPermissionRequest, OnChatOut
<1>4. QED
  BY <1>1, <1>2, <1>3

LEMMA ConnectedKept ==
    ASSUME TypeOK, NothingOfTheGone, [Next]_vars
    PROVE  NothingOfTheGone'
<1>1. CASE UNCHANGED <<plugin, toDaemon>> /\ Live' = Live
  BY <1>1 DEF NothingOfTheGone, Connected
<1>2. CASE UNCHANGED <<plugin, toDaemon, fsmVars>>
  BY <1>1, <1>2, LiveSteps
<1>3. CASE OnPermissionReply
  <2>1. UNCHANGED <<plugin, toDaemon>>
    BY <1>3 DEF OnPermissionReply
  <2>2. Live' = Live
    BY <1>3, LiveSteps DEF OnPermissionReply
  <2>3. QED
    BY <1>1, <2>1, <2>2
<1>4. CASE DaemonRestart
  BY <1>4 DEF DaemonRestart, NothingOfTheGone, Live
<1>5. ASSUME NEW r \in Requests, Ask(r)
      PROVE  NothingOfTheGone'
  <2>1. toDaemon \in [Sessions -> Seq(DaemonFrame)]
    BY DEF TypeOK, SocketTypes
  <2>2. QED
    BY <1>2, <1>5, <2>1, OwnerAssumption, LiveSteps
       DEF Ask, PluginSends, NothingOfTheGone, Connected
<1>6. ASSUME NEW r \in Requests, NEW d \in Decisions, AnswerAtTerminal(r, d)
      PROVE  NothingOfTheGone'
  BY <1>2, <1>6 DEF AnswerAtTerminal, socketVars
<1>7. CASE LinkUp \/ LinkDown \/ HubForward
  BY <1>2, <1>7 DEF LinkUp, LinkDown, HubForward, socketVars
<1>8. ASSUME NEW p \in Pwas,
             \/ PwaReceive(p) \/ PwaOffline(p) \/ PwaOnline(p)
             \/ \E r \in Requests : \/ CommandTimeout(p, r)
                                   \/ \E d \in Decisions : SendPermissionReply(p, r, d)
      PROVE  NothingOfTheGone'
  BY <1>2, <1>8 DEF PwaReceive, PwaOffline, PwaOnline, CommandTimeout,
     SendPermissionReply, socketVars
<1>9. CASE UNCHANGED vars
  BY <1>2, <1>9 DEF vars, fsmVars
<1>10. QED
  BY <1>3, <1>4, <1>5, <1>6, <1>7, <1>8, <1>9, PluginsConnected, DaemonConnected
     DEF Next

\* No order of closing, reconnecting, registering and leaving keeps a session in
\* the daemon's list whose plugin has no connection.
THEOREM ConnectedCorrect == Spec => []LiveIsConnected
<1>1. Init => NothingOfTheGone
  BY DEF Init, NothingOfTheGone, Live, Fsm!Init
<1>2. TypeOK /\ NothingOfTheGone => LiveIsConnected
  BY DEF TypeOK, DaemonTypes, Fsm!TypeOK, Fsm!Registered, NothingOfTheGone,
     LiveIsConnected, Live
<1>3. QED
  BY <1>1, <1>2, ConnectedKept, TypeCorrect, PTL DEF Spec

-----------------------------------------------------------------------------

CarriesIn(q, table) ==
    \A i \in 1..Len(q) :
        q[i].type \in {"permission_reply", "permission_resolved"} =>
            q[i].decision = table[q[i].id]

\* A frame that carries a decision carries that of the table.
Truthful(f, table) ==
    f.type \in {"permission_reply", "permission_resolved"} =>
        f.decision = table[f.id]

\* No decision of the first table is changed in the second.
Stands(table, later) ==
    \A r \in Requests : table[r] \in Decisions => later[r] = table[r]

LEMMA FrameFields ==
    ASSUME NEW f \in Frame, f.type \in {"permission_reply", "permission_resolved"}
    PROVE  f.id \in Requests /\ f.decision \in Decisions
BY DEF Frame, PluginFrame, HubFrame

LEMMA CarriesKept ==
    ASSUME NEW q \in Seq(Frame), NEW table, NEW later,
           CarriesIn(q, table), Stands(table, later)
    PROVE  CarriesIn(q, later)
<1> SUFFICES ASSUME NEW i \in 1..Len(q),
                    q[i].type \in {"permission_reply", "permission_resolved"}
             PROVE  q[i].decision = later[q[i].id]
  BY DEF CarriesIn
<1>1. q[i] \in Frame
  OBVIOUS
<1>2. q[i].id \in Requests /\ q[i].decision \in Decisions
  BY <1>1, FrameFields
<1>3. q[i].decision = table[q[i].id]
  BY DEF CarriesIn
<1>4. QED
  BY <1>2, <1>3 DEF Stands

LEMMA CarriesAppend ==
    ASSUME NEW q \in Seq(Frame), NEW f \in Frame, NEW table,
           CarriesIn(q, table), Truthful(f, table)
    PROVE  CarriesIn(Append(q, f), table)
BY DEF CarriesIn, Truthful

LEMMA CarriesTail ==
    ASSUME NEW q \in Seq(Frame), NEW table, q # <<>>, CarriesIn(q, table)
    PROVE  CarriesIn(Tail(q), table) /\ Truthful(Head(q), table)
BY DEF CarriesIn, Truthful

LEMMA CarriesNothing == ASSUME NEW table PROVE CarriesIn(<<>>, table)
BY DEF CarriesIn

LEMMA FrameSeqs ==
    /\ \A q \in Seq(PluginFrame) : q \in Seq(Frame)
    /\ \A q \in Seq(HubFrame) : q \in Seq(Frame)
BY DEF Frame

PluginAgrees == \A s \in Sessions : CarriesIn(toPlugin[s], db)

HubAgrees == CarriesIn(queued, db) /\ CarriesIn(toHub, db)

PwaAgrees ==
    \A p \in Pwas :
        /\ CarriesIn(toPwa[p], db)
        /\ \A r \in Requests :
            pwa[p].view.told[r] # "none" => pwa[p].view.told[r] = db[r]

\* What Claude heard through the relay is a decision, and the table's.
ClaudeAgrees ==
    \A r \in Requests :
        claude[r].via = "relay" =>
            claude[r].answer \in Decisions /\ claude[r].answer = db[r]

\* Agreement is inductive but for one thing: that a request answered through
\* the relay is answered.
AgreementInv == PluginAgrees /\ HubAgrees /\ PwaAgrees /\ ClaudeAgrees

LEMMA AgreementParts == AgreementInv => Agreement
BY DEF AgreementInv, PluginAgrees, HubAgrees, PwaAgrees, ClaudeAgrees,
   Agreement, Carries, CarriesIn

LEMMA ChannelTypes ==
    ASSUME TypeOK
    PROVE  /\ \A s \in Sessions : toPlugin[s] \in Seq(PluginFrame)
                               /\ toPlugin[s] \in Seq(Frame)
           /\ queued \in Seq(HubFrame) /\ queued \in Seq(Frame)
           /\ toHub \in Seq(HubFrame) /\ toHub \in Seq(Frame)
           /\ \A p \in Pwas : /\ toPwa[p] \in Seq(HubFrame) /\ toPwa[p] \in Seq(Frame)
                           /\ pwa[p].view.told \in [Requests -> {"none"} \cup Decisions]
BY FrameSeqs DEF TypeOK, SocketTypes, LinkTypes, PwaTypes, View

\* What is untouched agrees with a table in which the decisions stand.
LEMMA UntouchedAgree ==
    ASSUME TypeOK, AgreementInv, Stands(db, db')
    PROVE  /\ UNCHANGED toPlugin => PluginAgrees'
           /\ UNCHANGED <<queued, toHub>> => HubAgrees'
           /\ UNCHANGED pwaVars => PwaAgrees'
           /\ UNCHANGED claude => ClaudeAgrees'
           /\ \A s \in Sessions : CarriesIn(toPlugin[s], db')
           /\ CarriesIn(queued, db') /\ CarriesIn(toHub, db')
<1>1. \A s \in Sessions : CarriesIn(toPlugin[s], db')
  BY ChannelTypes, CarriesKept DEF AgreementInv, PluginAgrees
<1>2. CarriesIn(queued, db') /\ CarriesIn(toHub, db')
  BY ChannelTypes, CarriesKept DEF AgreementInv, HubAgrees
<1>3. \A p \in Pwas : CarriesIn(toPwa[p], db')
  BY ChannelTypes, CarriesKept DEF AgreementInv, PwaAgrees
<1>4. ASSUME NEW p \in Pwas, NEW r \in Requests, pwa[p].view.told[r] # "none"
      PROVE  pwa[p].view.told[r] = db'[r]
  <2>1. pwa[p].view.told[r] \in Decisions
    BY <1>4, ChannelTypes
  <2>2. QED
    BY <1>4, <2>1 DEF AgreementInv, PwaAgrees, Stands
<1>5. UNCHANGED claude => ClaudeAgrees'
  BY DEF AgreementInv, ClaudeAgrees, Stands
<1>6. UNCHANGED toPlugin => PluginAgrees'
  BY <1>1 DEF PluginAgrees
<1>7. UNCHANGED <<queued, toHub>> => HubAgrees'
  BY <1>2 DEF HubAgrees
<1>8. UNCHANGED pwaVars => PwaAgrees'
  BY <1>3, <1>4 DEF PwaAgrees, pwaVars
<1>9. QED
  BY <1>1, <1>2, <1>5, <1>6, <1>7, <1>8

LEMMA SameTable == ASSUME UNCHANGED db PROVE Stands(db, db')
BY DEF Stands

\* A frame sent by the daemon to the hub is truthful.
LEMMA SendAgrees ==
    ASSUME TypeOK, AgreementInv, Stands(db, db'),
           NEW f \in HubFrame, Truthful(f, db'), HubSend(f)
    PROVE  HubAgrees'
<1>1. f \in Frame
  BY DEF Frame
<1>2. CarriesIn(queued, db') /\ CarriesIn(toHub, db')
  BY UntouchedAgree
<1>3. CarriesIn(Append(queued, f), db') /\ CarriesIn(Append(toHub, f), db')
  BY <1>1, <1>2, ChannelTypes, CarriesAppend
<1>4. CASE link = "up"
  BY <1>2, <1>3, <1>4 DEF HubSend, HubAgrees
<1>5. CASE link # "up"
  BY <1>2, <1>3, <1>5 DEF HubSend, HubAgrees
<1>6. QED
  BY <1>4, <1>5

\* A frame sent by the daemon to a plugin is truthful.
LEMMA PushAgrees ==
    ASSUME TypeOK, AgreementInv, Stands(db, db'),
           NEW s \in Sessions, NEW f \in PluginFrame, Truthful(f, db'),
           toPlugin' = [toPlugin EXCEPT ![s] = Append(@, f)]
    PROVE  PluginAgrees'
<1>1. f \in Frame
  BY DEF Frame
<1>2. CarriesIn(Append(toPlugin[s], f), db')
  BY <1>1, UntouchedAgree, ChannelTypes, CarriesAppend
<1>3. \A t \in Sessions : CarriesIn(toPlugin[t], db')
  BY UntouchedAgree
<1>4. \A t \in Sessions : toPlugin'[t] = IF t = s THEN Append(toPlugin[s], f)
                                      ELSE toPlugin[t]
  BY DEF TypeOK, SocketTypes
<1>5. QED
  BY <1>2, <1>3, <1>4 DEF PluginAgrees

\* A decision Claude takes from the channel is the table's; an ack says nothing.
LEMMA PluginDataAgrees ==
    ASSUME TypeOK, AgreementInv, NEW s \in Sessions, PluginData(s)
    PROVE  AgreementInv'
<1> DEFINE f == Head(toPlugin[s])
<1>1. /\ toPlugin[s] # <<>>
      /\ toPlugin' = [toPlugin EXCEPT ![s] = Tail(@)]
      /\ UNCHANGED <<db, queued, toHub, pwaVars>>
  BY DEF PluginData, linkVars
<1>2. Stands(db, db') /\ db' = db
  BY <1>1, SameTable
<1>3. toPlugin[s] \in Seq(Frame) /\ f \in PluginFrame
  BY <1>1, ChannelTypes
<1>4. CarriesIn(Tail(toPlugin[s]), db) /\ Truthful(f, db)
  BY <1>1, <1>3, CarriesTail DEF AgreementInv, PluginAgrees
<1>5. \A t \in Sessions : toPlugin'[t] = IF t = s THEN Tail(toPlugin[s]) ELSE toPlugin[t]
  BY <1>1 DEF TypeOK, SocketTypes
<1>6. PluginAgrees'
  BY <1>2, <1>4, <1>5 DEF AgreementInv, PluginAgrees
<1>7. HubAgrees' /\ PwaAgrees'
  BY <1>1, <1>2, UntouchedAgree
<1>8. ClaudeAgrees'
  <2>1. CASE claude' = claude
    BY <1>2, <2>1, UntouchedAgree
  <2>2. CASE /\ f.type = "permission_reply"
             /\ claude' = [claude EXCEPT ![f.id] = [answer |-> f.decision, via |-> "relay"]]
    <3>1. f.id \in Requests /\ f.decision \in Decisions /\ f.decision = db[f.id]
      BY <1>3, <1>4, <2>2 DEF PluginFrame, Truthful
    <3> HIDE DEF f
    <3>2. \A r \in Requests : claude'[r] =
             IF r = f.id THEN [answer |-> f.decision, via |-> "relay"] ELSE claude[r]
      BY <2>2 DEF TypeOK, PluginTypes
    <3>3. QED
      BY <1>2, <3>1, <3>2 DEF AgreementInv, ClaudeAgrees
  <2>3. \/ claude' = claude
        \/ /\ f.type = "permission_reply"
           /\ claude' = [claude EXCEPT ![f.id] = [answer |-> f.decision, via |-> "relay"]]
    BY DEF PluginData
  <2>4. QED
    BY <2>1, <2>2, <2>3
<1>9. QED
  BY <1>6, <1>7, <1>8 DEF AgreementInv

\* Nothing else a plugin or Claude does touches a decision.
LEMMA PluginsAgree ==
    ASSUME TypeOK, AgreementInv,
           \/ \E s \in Sessions : \/ Start(s) \/ Reconnect(s) \/ ReplyTool(s)
                                \/ Goodbye(s) \/ Drop(s) \/ Exit(s)
           \/ \E r \in Requests : Ask(r) \/ \E d \in Decisions : AnswerAtTerminal(r, d)
    PROVE  AgreementInv'
<1>1. UNCHANGED <<db, queued, toHub, pwaVars>>
  BY DEF Start, Reconnect, Connect, ReplyTool, Goodbye, Drop, Exit, SocketClosed,
     Ask, AnswerAtTerminal, linkVars
<1>2. HubAgrees' /\ PwaAgrees' /\ db' = db /\ Stands(db, db')
  BY <1>1, SameTable, UntouchedAgree
<1>3. PluginAgrees'
  <2>1. CASE UNCHANGED toPlugin
    BY <1>2, <2>1, UntouchedAgree
  <2>2. CASE \E s \in Sessions : toPlugin' = [toPlugin EXCEPT ![s] = <<>>]
    <3>1. PICK s \in Sessions : toPlugin' = [toPlugin EXCEPT ![s] = <<>>]
      BY <2>2
    <3>2. \A t \in Sessions : toPlugin'[t] = IF t = s THEN <<>> ELSE toPlugin[t]
      BY <3>1 DEF TypeOK, SocketTypes
    <3>3. QED
      BY <1>2, <3>2, CarriesNothing DEF AgreementInv, PluginAgrees
  <2>3. QED
    BY <2>1, <2>2 DEF Start, Reconnect, Connect, ReplyTool, Goodbye, Drop, Exit,
       SocketClosed, Ask, AnswerAtTerminal, socketVars
<1>4. ClaudeAgrees'
  <2>1. CASE UNCHANGED claude
    BY <1>2, <2>1, UntouchedAgree
  <2>2. ASSUME NEW r \in Requests, Ask(r)
        PROVE  ClaudeAgrees'
    <3>1. /\ claude[r].answer = "unasked"
          /\ claude' = [claude EXCEPT ![r].answer = "open"]
      BY <2>2 DEF Ask
    <3>2. claude[r].via # "relay"
      BY <3>1 DEF AgreementInv, ClaudeAgrees, Decisions
    <3>3. QED
      BY <1>2, <3>1, <3>2 DEF AgreementInv, ClaudeAgrees, TypeOK, PluginTypes
  <2>3. ASSUME NEW r \in Requests, NEW d \in Decisions, AnswerAtTerminal(r, d)
        PROVE  ClaudeAgrees'
    <3>1. claude' = [claude EXCEPT ![r] = [answer |-> d, via |-> "terminal"]]
      BY <2>3 DEF AnswerAtTerminal
    <3>2. QED
      BY <1>2, <3>1 DEF AgreementInv, ClaudeAgrees, TypeOK, PluginTypes
  <2>4. QED
    BY <2>1, <2>2, <2>3 DEF Start, Reconnect, Connect, ReplyTool, Goodbye, Drop,
       Exit, SocketClosed
<1>5. QED
  BY <1>2, <1>3, <1>4 DEF AgreementInv

\* The table changes only where a request is recorded or decided.
LEMMA DaemonAgrees ==
    ASSUME TypeOK, AgreementInv, NEW s \in Sessions,
           OnRegister(s) \/ OnBye(s) \/ OnPermissionRequest(s) \/ OnChatOut(s)
    PROVE  AgreementInv'
<1>1. UNCHANGED <<claude, pwaVars>>
  BY DEF OnRegister, OnBye, OnPermissionRequest, OnChatOut
<1>2. ASSUME UNCHANGED db, Acknowledge(s)
      PROVE  PluginAgrees'
  <2>1. Bare("ack") \in PluginFrame /\ Truthful(Bare("ack"), db')
    BY DEF Bare, PluginFrame, Truthful
  <2>2. QED
    BY <1>2, <2>1, PushAgrees, SameTable DEF Acknowledge
<1>3. CASE OnRegister(s) \/ OnBye(s)
  <2>1. UNCHANGED <<db, queued, toHub>> /\ Acknowledge(s)
    BY <1>3 DEF OnRegister, OnBye, linkVars
  <2>2. QED
    BY <1>1, <1>2, <2>1, SameTable, UntouchedAgree DEF AgreementInv
<1>4. CASE OnChatOut(s)
  <2>1. UNCHANGED db /\ Acknowledge(s) /\ HubSend(Bare("chat_out"))
    BY <1>4 DEF OnChatOut
  <2>2. Bare("chat_out") \in HubFrame /\ Truthful(Bare("chat_out"), db')
    BY DEF Bare, HubFrame, Truthful
  <2>3. QED
    BY <1>1, <1>2, <2>1, <2>2, SameTable, UntouchedAgree, SendAgrees DEF AgreementInv
<1>5. CASE OnPermissionRequest(s)
  <2> DEFINE f == Head(toDaemon[s])
  <2>1. /\ toDaemon[s] # <<>> /\ f.type = "permission_request"
        /\ UNCHANGED toPlugin
    BY <1>5 DEF OnPermissionRequest, Receive
  <2>2. f.id \in Requests
    <3>1. toDaemon[s] \in Seq(DaemonFrame)
      BY DEF TypeOK, SocketTypes
    <3>2. f \in DaemonFrame
      BY <2>1, <3>1
    <3>3. QED
      BY <2>1, <3>2 DEF DaemonFrame
  <2>3. CASE s \notin Live
    BY <1>1, <1>5, <2>1, <2>3, SameTable, UntouchedAgree
       DEF OnPermissionRequest, AgreementInv
  <2>4. CASE s \in Live
    <3> HIDE DEF f
    <3>1. /\ db' = [db EXCEPT ![f.id] = IF @ = "none" THEN "open" ELSE @]
          /\ HubSend(Request(f.id))
      BY <1>5, <2>4 DEF OnPermissionRequest, f
    <3>2. Stands(db, db')
      BY <3>1 DEF Stands, Decisions, TypeOK, DaemonTypes
    <3>3. Request(f.id) \in HubFrame /\ Truthful(Request(f.id), db')
      BY <2>2 DEF Request, HubFrame, Truthful
    <3>4. QED
      BY <1>1, <2>1, <3>1, <3>2, <3>3, UntouchedAgree, SendAgrees DEF AgreementInv
  <2>5. QED
    BY <2>3, <2>4
<1>6. QED
  BY <1>3, <1>4, <1>5

\* What the daemon does with an answer: either the row is resolved already, or
\* this answer becomes the decision and is what is sent in both directions.
LEMMA AnswerSteps ==
    ASSUME TypeOK, OnPermissionReply
    PROVE  \/ UNCHANGED <<db, toPlugin, queued, toHub>>
           \/ \E r \in Requests, d \in Decisions :
                /\ ResolveRequest(r, d)
                /\ ReplyToAsker(r, d)
                /\ HubSend(Resolved(r, d))
<1> DEFINE f == Head(replies)
<1>1. replies # <<>> /\ replies \in Seq(ReplyFrame)
  BY DEF OnPermissionReply, TypeOK, LinkTypes
<1>2. f \in ReplyFrame
  BY <1>1
<1>3. f.id \in Requests /\ f.decision \in Decisions
  BY <1>2 DEF ReplyFrame
<1>4. QED
  BY <1>3 DEF OnPermissionReply

LEMMA ReplyAgrees ==
    ASSUME TypeOK, AgreementInv, OnPermissionReply
    PROVE  AgreementInv'
<1>1. UNCHANGED <<claude, pwaVars>>
  BY DEF OnPermissionReply
<1>2. CASE UNCHANGED <<db, toPlugin, queued, toHub>>
  BY <1>1, <1>2, SameTable, UntouchedAgree DEF AgreementInv
<1>3. ASSUME NEW r \in Requests, NEW d \in Decisions, ResolveRequest(r, d),
             ReplyToAsker(r, d), HubSend(Resolved(r, d))
      PROVE  AgreementInv'
  <2>1. Stands(db, db') /\ db'[r] = d
    BY <1>3 DEF ResolveRequest, Stands, Decisions, TypeOK, DaemonTypes
  <2>2. /\ Reply(r, d) \in PluginFrame /\ Truthful(Reply(r, d), db')
        /\ Resolved(r, d) \in HubFrame /\ Truthful(Resolved(r, d), db')
    BY <2>1 DEF Reply, Resolved, PluginFrame, HubFrame, Truthful
  <2>3. HubAgrees'
    BY <1>3, <2>1, <2>2, SendAgrees
  <2>4. Owner[r] \in Sessions
    BY OwnerAssumption
  <2>5. \/ toPlugin' = [toPlugin EXCEPT ![Owner[r]] = Append(@, Reply(r, d))]
        \/ UNCHANGED toPlugin
    BY <1>3 DEF ReplyToAsker
  <2>6. PluginAgrees'
    BY <2>1, <2>2, <2>4, <2>5, PushAgrees, UntouchedAgree
  <2>7. QED
    BY <1>1, <2>1, <2>3, <2>6, UntouchedAgree DEF AgreementInv
<1>4. QED
  BY <1>2, <1>3, AnswerSteps

LEMMA LinkAgrees ==
    ASSUME TypeOK, AgreementInv, DaemonRestart \/ LinkUp \/ LinkDown \/ HubForward
    PROVE  AgreementInv'
<1>1. UNCHANGED <<claude, db>>
  BY DEF DaemonRestart, LinkUp, LinkDown, HubForward
<1>2. ClaudeAgrees' /\ db' = db /\ Stands(db, db')
  BY <1>1, SameTable, UntouchedAgree
<1>3. PluginAgrees'
  <2>1. CASE DaemonRestart
    <3>1. toPlugin' = [s \in Sessions |-> <<>>]
      BY <2>1 DEF DaemonRestart
    <3>2. QED
      BY <3>1, CarriesNothing DEF PluginAgrees
  <2>2. CASE UNCHANGED toPlugin
    BY <1>2, <2>2, UntouchedAgree
  <2>3. QED
    BY <2>1, <2>2 DEF LinkUp, LinkDown, HubForward, socketVars
<1>4. HubAgrees'
  <2>1. CASE DaemonRestart
    BY <2>1, CarriesNothing DEF DaemonRestart, HubAgrees
  <2>2. CASE LinkUp
    BY <1>2, <2>2, CarriesNothing DEF LinkUp, AgreementInv, HubAgrees
  <2>3. CASE LinkDown
    BY <1>2, <2>3, CarriesNothing DEF LinkDown, AgreementInv, HubAgrees
  <2>4. CASE HubForward
    BY <1>2, <2>4, ChannelTypes, CarriesTail DEF HubForward, AgreementInv, HubAgrees
  <2>5. QED
    BY <2>1, <2>2, <2>3, <2>4
<1>5. PwaAgrees'
  <2>1. CASE UNCHANGED pwaVars
    BY <1>2, <2>1, UntouchedAgree
  <2>2. CASE HubForward
    <3> DEFINE f == Head(toHub)
    <3>1. toHub # <<>> /\ UNCHANGED pwa
      BY <2>2 DEF HubForward
    <3>2. f \in Frame /\ Truthful(f, db)
      BY <3>1, ChannelTypes, CarriesTail DEF AgreementInv, HubAgrees
    <3>3. \A p \in Pwas : toPwa'[p] \in {toPwa[p], Append(toPwa[p], f)}
      BY <2>2 DEF HubForward
    <3> HIDE DEF f
    <3>4. \A p \in Pwas : CarriesIn(Append(toPwa[p], f), db)
      BY <3>2, ChannelTypes, CarriesAppend DEF AgreementInv, PwaAgrees
    <3>5. QED
      BY <1>2, <3>1, <3>3, <3>4 DEF AgreementInv, PwaAgrees
  <2>3. QED
    BY <2>1, <2>2 DEF DaemonRestart, LinkUp, LinkDown
<1>6. QED
  BY <1>2, <1>3, <1>4, <1>5 DEF AgreementInv

LEMMA ReduceAgrees ==
    ASSUME NEW view \in View, NEW f \in HubFrame, Truthful(f, db),
           \A r \in Requests : view.told[r] # "none" => view.told[r] = db[r]
    PROVE  \A r \in Requests : Reduce(view, f).told[r] # "none" =>
                               Reduce(view, f).told[r] = db[r]
<1>1. f.type \in {"chat_out", "permission_request", "permission_resolved"}
  BY DEF HubFrame
<1>2. CASE f.type = "permission_resolved"
  <2>1. f.decision = db[f.id] /\ f.id \in Requests
    BY <1>2 DEF Truthful, HubFrame
  <2>2. Reduce(view, f).told = [view.told EXCEPT ![f.id] = f.decision]
    BY <1>2 DEF Reduce, View
  <2>3. QED
    BY <2>1, <2>2 DEF View
<1>3. CASE f.type # "permission_resolved"
  <2>1. Reduce(view, f).told = view.told
    BY <1>1, <1>3 DEF Reduce, View
  <2>2. QED
    BY <2>1
<1>4. QED
  BY <1>2, <1>3

LEMMA PwasAgree ==
    ASSUME TypeOK, AgreementInv, NEW p \in Pwas,
           \/ PwaReceive(p) \/ PwaOffline(p) \/ PwaOnline(p)
           \/ \E r \in Requests : \/ CommandTimeout(p, r)
                                 \/ \E d \in Decisions : SendPermissionReply(p, r, d)
    PROVE  AgreementInv'
<1> DEFINE view == pwa[p].view
<1>1. UNCHANGED <<claude, toPlugin, db, queued, toHub>>
  BY DEF PwaReceive, PwaOffline, PwaOnline, CommandTimeout, SendPermissionReply,
     socketVars, linkVars
<1>2. /\ ClaudeAgrees' /\ PluginAgrees' /\ HubAgrees'
      /\ db' = db /\ Stands(db, db')
  BY <1>1, SameTable, UntouchedAgree
<1>3. /\ pwa \in [Pwas -> [online : BOOLEAN, view : View]]
      /\ toPwa \in [Pwas -> Seq(HubFrame)] /\ toPwa[p] \in Seq(Frame)
      /\ view \in View
  BY ChannelTypes DEF TypeOK, PwaTypes
<1>4. ASSUME NEW q, NEW told, toPwa' = [toPwa EXCEPT ![p] = q],
             CarriesIn(q, db),
             \A t \in Pwas : t # p => pwa'[t] = pwa[t],
             pwa'[p].view.told = told,
             \A r \in Requests : told[r] # "none" => told[r] = db[r]
      PROVE  PwaAgrees'
  <2>1. \A t \in Pwas : toPwa'[t] = IF t = p THEN q ELSE toPwa[t]
    BY <1>3, <1>4
  <2>2. QED
    BY <1>2, <1>4, <2>1 DEF AgreementInv, PwaAgrees
<1>5. CASE PwaReceive(p)
  <2> DEFINE f == Head(toPwa[p])
             next == Reduce(view, f)
  <2>1. /\ toPwa[p] # <<>> /\ toPwa' = [toPwa EXCEPT ![p] = Tail(toPwa[p])]
        /\ pwa' = [pwa EXCEPT ![p].view = next]
    BY <1>5 DEF PwaReceive
  <2>2. f \in HubFrame /\ CarriesIn(Tail(toPwa[p]), db) /\ Truthful(f, db)
    BY <1>3, <2>1, CarriesTail DEF AgreementInv, PwaAgrees
  <2>3. \A r \in Requests : next.told[r] # "none" => next.told[r] = db[r]
    BY <1>3, <2>2, ReduceAgrees DEF AgreementInv, PwaAgrees
  <2> HIDE DEF next
  <2>4. pwa'[p].view = next /\ \A t \in Pwas : t # p => pwa'[t] = pwa[t]
    BY <1>3, <2>1
  <2>5. PwaAgrees'
    BY <1>4, <2>1, <2>2, <2>3, <2>4
  <2>6. QED
    BY <1>2, <2>5 DEF AgreementInv
<1>6. CASE PwaOffline(p)
  <2>1. /\ toPwa' = [toPwa EXCEPT ![p] = <<>>]
        /\ pwa' = [pwa EXCEPT ![p].online = FALSE]
    BY <1>6 DEF PwaOffline
  <2>2. pwa'[p].view.told = view.told /\ \A t \in Pwas : t # p => pwa'[t] = pwa[t]
    BY <1>3, <2>1
  <2>3. \A r \in Requests : view.told[r] # "none" => view.told[r] = db[r]
    BY DEF AgreementInv, PwaAgrees
  <2>4. CarriesIn(<<>>, db)
    BY CarriesNothing
  <2> HIDE DEF view
  <2>5. PwaAgrees'
    BY <1>4, <2>1, <2>2, <2>3, <2>4
  <2>6. QED
    BY <1>2, <2>5 DEF AgreementInv
<1>7. CASE PwaOnline(p)
  <2>1. PICK v \in {view, NoView} :
           pwa' = [pwa EXCEPT ![p] = [online |-> TRUE, view |-> v]]
    BY <1>7 DEF PwaOnline
  <2>2. UNCHANGED toPwa
    BY <1>7 DEF PwaOnline
  <2>3. \A r \in Requests : v.told[r] # "none" => v.told[r] = db[r]
    BY DEF NoView, AgreementInv, PwaAgrees
  <2>4. pwa'[p].view = v /\ \A t \in Pwas : t # p => pwa'[t] = pwa[t]
    BY <1>3, <2>1
  <2>5. PwaAgrees'
    BY <1>2, <2>2, <2>3, <2>4 DEF AgreementInv, PwaAgrees
  <2>6. QED
    BY <1>2, <2>5 DEF AgreementInv
<1>8. CASE \E sent : pwa' = [pwa EXCEPT ![p].view.sent = sent] /\ UNCHANGED toPwa
  <2>1. PICK sent : pwa' = [pwa EXCEPT ![p].view.sent = sent]
    BY <1>8
  <2>2. pwa'[p].view.told = view.told /\ \A t \in Pwas : t # p => pwa'[t] = pwa[t]
    BY <1>3, <2>1 DEF View
  <2>3. PwaAgrees'
    BY <1>2, <1>8, <2>2 DEF AgreementInv, PwaAgrees
  <2>4. QED
    BY <1>2, <2>3 DEF AgreementInv
<1>9. QED
  BY <1>5, <1>6, <1>7, <1>8 DEF CommandTimeout, SendPermissionReply

LEMMA AgreementKept ==
    ASSUME TypeOK, AgreementInv, [Next]_vars
    PROVE  AgreementInv'
<1>1. CASE UNCHANGED vars
  <2>1. UNCHANGED <<claude, toPlugin, db, queued, toHub, pwaVars>>
    BY <1>1 DEF vars, pwaVars
  <2>2. QED
    BY <2>1, SameTable, UntouchedAgree DEF AgreementInv
<1>2. CASE Next
  BY <1>2, PluginDataAgrees, PluginsAgree, DaemonAgrees, ReplyAgrees, LinkAgrees,
     PwasAgree DEF Next
<1>3. QED
  BY <1>1, <1>2

LEMMA AgreementInvariant == Spec => [](TypeOK /\ AgreementInv)
<1>1. Init => AgreementInv
  BY CarriesNothing DEF Init, AgreementInv, PluginAgrees, HubAgrees, PwaAgrees,
     ClaudeAgrees, NoView
<1>2. QED
  BY <1>1, AgreementKept, TypeCorrect, PTL DEF Spec

\* However many PWAs answer a request, and whatever fails meanwhile, the table,
\* the frames on their way, what Claude heard through the relay and what each
\* PWA was told are one decision.
THEOREM AgreementCorrect == Spec => []Agreement
BY AgreementInvariant, AgreementParts, PTL

-----------------------------------------------------------------------------

\* The refinement mapping, by name.
RecordedOf == {r \in Requests : db[r] # "none"}

DecisionOf == [r \in Requests |-> IF db[r] \in Decisions THEN db[r] ELSE "none"]

HeardOf == [r \in Requests |-> IF claude[r].via = "relay" THEN claude[r].answer
                               ELSE "none"]

\* A step that leaves the table and what was heard through the relay alone
\* stutters.
LEMMA Stutters ==
    ASSUME UNCHANGED db,
           \/ UNCHANGED claude
           \/ \A r \in Requests : claude'[r] # claude[r] =>
                                  claude[r].via # "relay" /\ claude'[r].via # "relay"
    PROVE  UNCHANGED <<RecordedOf, DecisionOf, HeardOf>>
<1>1. UNCHANGED <<RecordedOf, DecisionOf>>
  BY DEF RecordedOf, DecisionOf
<1>2. HeardOf' = HeardOf
  BY DEF HeardOf
<1>3. QED
  BY <1>1, <1>2

LEMMA RequestMaps ==
    ASSUME TypeOK, NEW s \in Sessions, OnPermissionRequest(s)
    PROVE  (\E r \in Requests : Decision!Record(r))
             \/ UNCHANGED <<RecordedOf, DecisionOf, HeardOf>>
<1> DEFINE id == Head(toDaemon[s]).id
<1>1. /\ UNCHANGED claude
      /\ toDaemon[s] # <<>> /\ Head(toDaemon[s]).type = "permission_request"
      /\ \/ db' = db
         \/ db' = [db EXCEPT ![id] = IF @ = "none" THEN "open" ELSE @]
  BY DEF OnPermissionRequest, Receive
<1>2. id \in Requests
  <2>1. toDaemon[s] \in Seq(DaemonFrame)
    BY DEF TypeOK, SocketTypes
  <2>2. Head(toDaemon[s]) \in DaemonFrame
    BY <1>1, <2>1
  <2>3. QED
    BY <1>1, <2>2 DEF DaemonFrame
<1>3. CASE db' = db
  BY <1>1, <1>3, Stutters
<1>4. CASE db' = [db EXCEPT ![id] = IF @ = "none" THEN "open" ELSE @]
  <2> HIDE DEF id
  <2> PICK r \in Requests : r = id
    BY <1>2
  <2>0. db \in [Requests -> {"none", "open"} \cup Decisions]
    BY DEF TypeOK, DaemonTypes
  <2>1. RecordedOf' = RecordedOf \cup {r}
    BY <1>2, <1>4, <2>0 DEF RecordedOf, Decisions
  <2>2. DecisionOf' = DecisionOf
    BY <1>2, <1>4, <2>0 DEF DecisionOf, Decisions
  <2>3. HeardOf' = HeardOf
    BY <1>1 DEF HeardOf
  <2>4. Decision!Record(r)
    BY <2>1, <2>2, <2>3 DEF Decision!Record, RecordedOf, DecisionOf, HeardOf
  <2>5. QED
    BY <2>4
<1>5. QED
  BY <1>1, <1>3, <1>4

LEMMA ReplyMaps ==
    ASSUME TypeOK, OnPermissionReply
    PROVE  (\E r \in Requests, d \in Decisions : Decision!Decide(r, d))
             \/ UNCHANGED <<RecordedOf, DecisionOf, HeardOf>>
<1>1. UNCHANGED claude
  BY DEF OnPermissionReply
<1>2. ASSUME NEW r \in Requests, NEW d \in Decisions, ResolveRequest(r, d)
      PROVE  Decision!Decide(r, d)
  <2>1. /\ db \in [Requests -> {"none", "open"} \cup Decisions]
        /\ db[r] = "open" /\ db' = [db EXCEPT ![r] = d]
        /\ d # "none" /\ d # "open"
    BY <1>2 DEF ResolveRequest, TypeOK, DaemonTypes, Decisions
  <2>2. RecordedOf' = RecordedOf /\ r \in RecordedOf
    BY <2>1 DEF RecordedOf
  <2>3. DecisionOf[r] = "none" /\ DecisionOf' = [DecisionOf EXCEPT ![r] = d]
    BY <2>1 DEF DecisionOf, Decisions
  <2>4. HeardOf' = HeardOf
    BY <1>1 DEF HeardOf
  <2>5. QED
    BY <2>2, <2>3, <2>4 DEF Decision!Decide, RecordedOf, DecisionOf, HeardOf
<1>3. CASE UNCHANGED <<db, toPlugin, queued, toHub>>
  BY <1>1, <1>3, Stutters
<1>4. QED
  BY <1>2, <1>3, AnswerSteps

LEMMA PluginDataMaps ==
    ASSUME TypeOK, AgreementInv, NEW s \in Sessions, PluginData(s)
    PROVE  (\E r \in Requests : Decision!Hear(r))
             \/ UNCHANGED <<RecordedOf, DecisionOf, HeardOf>>
<1> DEFINE f == Head(toPlugin[s])
           id == f.id
<1>1. UNCHANGED db /\ toPlugin[s] # <<>>
  BY DEF PluginData
<1>2. \/ claude' = claude
      \/ /\ f.type = "permission_reply"
         /\ claude[id].answer = "open"
         /\ claude' = [claude EXCEPT ![id] = [answer |-> f.decision, via |-> "relay"]]
  BY DEF PluginData
<1>3. CASE claude' = claude
  BY <1>1, <1>3, Stutters
<1>4. CASE /\ f.type = "permission_reply"
           /\ claude[id].answer = "open"
           /\ claude' = [claude EXCEPT ![id] = [answer |-> f.decision, via |-> "relay"]]
  <2>1. f \in PluginFrame /\ toPlugin[s] \in Seq(Frame)
    BY <1>1, ChannelTypes
  <2>2. id \in Requests /\ f.decision \in Decisions
    BY <1>4, <2>1 DEF PluginFrame
  <2>3. f.decision = db[id]
    BY <1>1, <1>4, <2>1, CarriesTail DEF AgreementInv, PluginAgrees, Truthful
  <2> HIDE DEF f, id
  <2> PICK r \in Requests : r = id
    BY <2>2
  <2>4. claude[r].via # "relay"
    BY <1>4, <2>2 DEF AgreementInv, ClaudeAgrees, Decisions
  <2>5. HeardOf[r] = "none" /\ DecisionOf[r] = db[r] /\ db[r] # "none"
    BY <2>2, <2>3, <2>4 DEF HeardOf, DecisionOf, Decisions
  <2>6. claude \in [Requests -> [answer : {"unasked", "open"} \cup Decisions,
                                via : {"none", "relay", "terminal"}]]
    BY DEF TypeOK, PluginTypes
  <2>7. HeardOf' = [HeardOf EXCEPT ![r] = DecisionOf[r]]
    BY <1>4, <2>2, <2>3, <2>5, <2>6 DEF HeardOf
  <2>8. RecordedOf' = RecordedOf /\ DecisionOf' = DecisionOf
    BY <1>1 DEF RecordedOf, DecisionOf
  <2>9. Decision!Hear(r)
    BY <2>5, <2>7, <2>8 DEF Decision!Hear, RecordedOf, DecisionOf, HeardOf
  <2>10. QED
    BY <2>9
<1>5. QED
  BY <1>2, <1>3, <1>4

\* All the other steps stutter.
LEMMA OthersStutter ==
    ASSUME TypeOK, AgreementInv,
           \/ \E s \in Sessions : \/ Start(s) \/ Reconnect(s) \/ ReplyTool(s)
                                \/ Goodbye(s) \/ Drop(s) \/ Exit(s)
                                \/ OnRegister(s) \/ OnBye(s) \/ OnChatOut(s)
           \/ \E r \in Requests : Ask(r) \/ \E d \in Decisions : AnswerAtTerminal(r, d)
           \/ DaemonRestart \/ LinkUp \/ LinkDown \/ HubForward
           \/ \E p \in Pwas : \/ PwaReceive(p) \/ PwaOffline(p) \/ PwaOnline(p)
                            \/ \E r \in Requests :
                                \/ CommandTimeout(p, r)
                                \/ \E d \in Decisions : SendPermissionReply(p, r, d)
    PROVE  UNCHANGED <<RecordedOf, DecisionOf, HeardOf>>
<1>1. UNCHANGED db
  BY DEF Start, Reconnect, Connect, ReplyTool, Goodbye, Drop, Exit, SocketClosed,
     OnRegister, OnBye, OnChatOut, Ask, AnswerAtTerminal, DaemonRestart, LinkUp,
     LinkDown, HubForward, PwaReceive, PwaOffline, PwaOnline, CommandTimeout,
     SendPermissionReply
<1>2. CASE UNCHANGED claude
  BY <1>1, <1>2, Stutters
<1>3. ASSUME NEW r \in Requests, Ask(r) \/ \E d \in Decisions : AnswerAtTerminal(r, d)
      PROVE  UNCHANGED <<RecordedOf, DecisionOf, HeardOf>>
  <2>1. claude \in [Requests -> [answer : {"unasked", "open"} \cup Decisions,
                                via : {"none", "relay", "terminal"}]]
    BY DEF TypeOK, PluginTypes
  <2>2. claude[r].answer \in {"unasked", "open"}
    BY <1>3 DEF Ask, AnswerAtTerminal
  <2>3. claude[r].via # "relay"
    BY <2>2 DEF AgreementInv, ClaudeAgrees, Decisions
  <2>4. \/ claude' = [claude EXCEPT ![r].answer = "open"]
        \/ \E d \in Decisions : claude' = [claude EXCEPT ![r] =
                                          [answer |-> d, via |-> "terminal"]]
    BY <1>3 DEF Ask, AnswerAtTerminal
  <2>5. claude'[r].via # "relay" /\ \A t \in Requests : t # r => claude'[t] = claude[t]
    BY <2>1, <2>3, <2>4
  <2>6. QED
    BY <1>1, <2>3, <2>5, Stutters
<1>4. QED
  BY <1>2, <1>3
     DEF Start, Reconnect, Connect, ReplyTool, Goodbye, Drop, Exit, SocketClosed,
     OnRegister, OnBye, OnChatOut, DaemonRestart, LinkUp, LinkDown, HubForward,
     PwaReceive, PwaOffline, PwaOnline, CommandTimeout, SendPermissionReply

\* The relay implements the abstract decision: the first answer that reaches the
\* daemon decides, nothing changes that, and Claude hears of it at most once.
THEOREM DecisionRefinement == Spec => ImplementsDecision
<1>1. Init => Decision!Init
  BY DEF Init, Decision!Init, Decisions
<1>2. TypeOK /\ AgreementInv /\ [Next]_vars => [Decision!Next]_(Decision!vars)
  <2> SUFFICES ASSUME TypeOK, AgreementInv, [Next]_vars
               PROVE  [Decision!Next]_(Decision!vars)
    OBVIOUS
  <2>1. CASE UNCHANGED <<RecordedOf, DecisionOf, HeardOf>>
    BY <2>1 DEF Decision!vars, RecordedOf, DecisionOf, HeardOf
  <2>2. CASE UNCHANGED vars
    BY <2>1, <2>2, Stutters DEF vars
  <2>3. CASE Next
    <3>1. \/ UNCHANGED <<RecordedOf, DecisionOf, HeardOf>>
          \/ \E r \in Requests : Decision!Record(r)
          \/ \E r \in Requests, d \in Decisions : Decision!Decide(r, d)
          \/ \E r \in Requests : Decision!Hear(r)
      <4>1. CASE \E s \in Sessions : OnPermissionRequest(s)
        BY <4>1, RequestMaps
      <4>2. CASE OnPermissionReply
        BY <4>2, ReplyMaps
      <4>3. CASE \E s \in Sessions : PluginData(s)
        BY <4>3, PluginDataMaps
      <4>4. QED
        BY <2>3, <4>1, <4>2, <4>3, OthersStutter DEF Next
    <3>2. QED
      BY <2>1, <3>1 DEF Decision!Next
  <2>4. QED
    BY <2>2, <2>3
<1>3. QED
  BY <1>1, <1>2, AgreementInvariant, PTL DEF Spec, Decision!Spec, ImplementsDecision

-----------------------------------------------------------------------------
(* Each request reaches the daemon once.                                   *)

\* The frame f asks the request r.
Asks(f, r) == f.type = "permission_request" /\ f.id = r

\* The requests on the socket of s are of s, were asked by Claude, are not in
\* the table yet, and no one is there twice.
FreshIn(q, s, table, asked) ==
    \A i \in 1..Len(q), r \in Requests :
        Asks(q[i], r) =>
            /\ Owner[r] = s
            /\ table[r] = "none"
            /\ asked[r].answer # "unasked"
            /\ \A j \in 1..Len(q) : Asks(q[j], r) => j = i

\* A request is in the table only after Claude asked it, and is on its way to
\* the daemon at most once, before it is in the table.
AskedOnce ==
    /\ \A s \in Sessions : FreshIn(toDaemon[s], s, db, claude)
    /\ \A r \in Requests : claude[r].answer = "unasked" => db[r] = "none"

\* What is fresh stays so while its rows are untouched.
LEMMA FreshKept ==
    ASSUME NEW q, NEW s, NEW table, NEW later, NEW asked, NEW heard,
           FreshIn(q, s, table, asked),
           \A r \in Requests :
               /\ asked[r].answer # "unasked" => heard[r].answer # "unasked"
               /\ (table[r] = "none" /\ Owner[r] = s
                     /\ \E i \in 1..Len(q) : Asks(q[i], r)) => later[r] = "none"
    PROVE  FreshIn(q, s, later, heard)
BY DEF FreshIn

LEMMA FreshNothing ==
    ASSUME NEW s, NEW table, NEW asked
    PROVE  FreshIn(<<>>, s, table, asked)
BY DEF FreshIn

\* A frame that asks nothing, or asks what is on no way yet.
LEMMA FreshAppend ==
    ASSUME NEW q \in Seq(DaemonFrame), NEW f \in DaemonFrame, NEW s, NEW table,
           NEW asked, FreshIn(q, s, table, asked),
           \A r \in Requests : Asks(f, r) =>
               /\ Owner[r] = s /\ table[r] = "none" /\ asked[r].answer # "unasked"
               /\ \A i \in 1..Len(q) : ~ Asks(q[i], r)
    PROVE  FreshIn(Append(q, f), s, table, asked)
<1> DEFINE p == Append(q, f)
<1>1. /\ Len(p) = Len(q) + 1
      /\ \A i \in 1..Len(q) : p[i] = q[i]
      /\ p[Len(q) + 1] = f
  BY AppendProperties
<1>2. Len(q) \in Nat
  OBVIOUS
<1> HIDE DEF p
<1>3. SUFFICES ASSUME NEW i \in 1..Len(p), NEW r \in Requests, Asks(p[i], r)
               PROVE  /\ Owner[r] = s /\ table[r] = "none" /\ asked[r].answer # "unasked"
                      /\ \A j \in 1..Len(p) : Asks(p[j], r) => j = i
  BY DEF FreshIn, p
<1>4. CASE i \in 1..Len(q)
  <2>1. Asks(q[i], r)
    BY <1>1, <1>3, <1>4
  <2>2. ~ Asks(f, r)
    BY <1>4, <2>1
  <2>3. ASSUME NEW j \in 1..Len(p), Asks(p[j], r)
        PROVE  j \in 1..Len(q) /\ Asks(q[j], r)
    BY <1>1, <1>2, <2>2, <2>3
  <2>4. QED
    BY <1>4, <2>1, <2>3 DEF FreshIn
<1>5. CASE i = Len(q) + 1
  <2>1. Asks(f, r)
    BY <1>1, <1>3, <1>5
  <2>2. ASSUME NEW j \in 1..Len(p), Asks(p[j], r)
        PROVE  j = i
    BY <1>1, <1>2, <1>5, <2>1, <2>2
  <2>3. QED
    BY <2>1, <2>2
<1>6. QED
  BY <1>1, <1>2, <1>4, <1>5

\* The daemon takes a frame: the others stay fresh, and ask something else.
LEMMA FreshTail ==
    ASSUME NEW q \in Seq(DaemonFrame), q # <<>>, NEW s, NEW table, NEW asked,
           FreshIn(q, s, table, asked)
    PROVE  /\ FreshIn(Tail(q), s, table, asked)
           /\ \A r \in Requests : Asks(Head(q), r) =>
                 /\ Owner[r] = s /\ table[r] = "none"
                 /\ asked[r].answer # "unasked"
                 /\ \A i \in 1..Len(Tail(q)) : ~ Asks(Tail(q)[i], r)
<1> DEFINE p == Tail(q)
<1>1. /\ Len(p) = Len(q) - 1
      /\ \A i \in 1..Len(p) : p[i] = q[i + 1]
      /\ Head(q) = q[1]
  BY HeadTailProperties
<1>2. Len(q) \in Nat /\ 1 \in 1..Len(q)
  BY EmptySeq
<1> HIDE DEF p
<1>3. \A i \in 1..Len(p) : i + 1 \in 1..Len(q) /\ i + 1 # 1
  BY <1>1, <1>2
<1>4. FreshIn(p, s, table, asked)
  <2> SUFFICES ASSUME NEW i \in 1..Len(p), NEW r \in Requests, Asks(p[i], r)
               PROVE  /\ Owner[r] = s /\ table[r] = "none" /\ asked[r].answer # "unasked"
                      /\ \A j \in 1..Len(p) : Asks(p[j], r) => j = i
    BY DEF FreshIn
  <2>1. Asks(q[i + 1], r)
    BY <1>1
  <2>2. ASSUME NEW j \in 1..Len(p), Asks(p[j], r)
        PROVE  j = i
    <3>1. Asks(q[j + 1], r)
      BY <1>1, <2>2
    <3>2. j + 1 = i + 1
      BY <1>3, <2>1, <3>1 DEF FreshIn
    <3>3. QED
      BY <3>2
  <2>3. QED
    BY <1>3, <2>1, <2>2 DEF FreshIn
<1>5. ASSUME NEW r \in Requests, Asks(Head(q), r)
      PROVE  /\ Owner[r] = s /\ table[r] = "none" /\ asked[r].answer # "unasked"
             /\ \A i \in 1..Len(p) : ~ Asks(p[i], r)
  <2>1. Asks(q[1], r)
    BY <1>1, <1>5
  <2>2. \A j \in 1..Len(q) : Asks(q[j], r) => j = 1
    BY <1>2, <2>1 DEF FreshIn
  <2>3. \A i \in 1..Len(p) : ~ Asks(p[i], r)
    BY <1>1, <1>3, <2>2
  <2>4. QED
    BY <1>2, <2>1, <2>3 DEF FreshIn
<1>6. QED
  BY <1>4, <1>5 DEF p

\* Nothing is asked or answered, and nothing new is on the way to the daemon.
LEMMA FreshUntouched ==
    ASSUME AskedOnce, UNCHANGED <<claude, db>>,
           \A s \in Sessions : toDaemon'[s] = toDaemon[s] \/ toDaemon'[s] = <<>>
    PROVE  AskedOnce'
BY FreshNothing DEF AskedOnce

LEMMA PluginsAskOnce ==
    ASSUME TypeOK, AskedOnce, NEW s \in Sessions,
           \/ Start(s) \/ Reconnect(s) \/ ReplyTool(s) \/ PluginData(s)
           \/ Goodbye(s) \/ Drop(s) \/ Exit(s)
    PROVE  AskedOnce'
<1>1. toDaemon \in [Sessions -> Seq(DaemonFrame)]
  BY DEF TypeOK, SocketTypes
<1>2. CASE Drop(s) \/ Exit(s)
  BY <1>1, <1>2, FreshUntouched DEF Drop, Exit, SocketClosed
<1>3. ASSUME NEW type \in {"register", "chat_out", "bye"},
             PluginSends(s, Bare(type)), UNCHANGED <<claude, db>>
      PROVE  AskedOnce'
  <2>1. Bare(type) \in DaemonFrame /\ \A r \in Requests : ~ Asks(Bare(type), r)
    BY DEF Bare, DaemonFrame, Asks
  <2>2. FreshIn(Append(toDaemon[s], Bare(type)), s, db, claude)
    BY <1>1, <2>1, FreshAppend DEF AskedOnce
  <2>3. \A t \in Sessions : toDaemon'[t] = IF t = s THEN Append(toDaemon[s], Bare(type))
                                           ELSE toDaemon[t]
    BY <1>1, <1>3 DEF PluginSends
  <2>4. QED
    BY <1>3, <2>2, <2>3 DEF AskedOnce
<1>4. CASE Start(s) \/ Reconnect(s) \/ ReplyTool(s) \/ Goodbye(s)
  BY <1>3, <1>4 DEF Start, Reconnect, Connect, ReplyTool, Goodbye
<1>5. CASE PluginData(s)
  <2>1. toPlugin[s] \in Seq(PluginFrame) /\ toPlugin[s] # <<>>
    BY <1>5 DEF TypeOK, SocketTypes, PluginData
  <2> DEFINE f == Head(toPlugin[s])
  <2>2. f \in PluginFrame
    BY <2>1
  <2>3. UNCHANGED <<toDaemon, db>>
    BY <1>5 DEF PluginData
  <2>4. \/ UNCHANGED claude
        \/ /\ f.type = "permission_reply"
           /\ claude' = [claude EXCEPT ![f.id] = [answer |-> f.decision, via |-> "relay"]]
    BY <1>5 DEF PluginData
  <2> HIDE DEF f
  <2>5. CASE UNCHANGED claude
    BY <2>3, <2>5, FreshUntouched
  <2>6. CASE /\ f.type = "permission_reply"
             /\ claude' = [claude EXCEPT ![f.id] = [answer |-> f.decision, via |-> "relay"]]
    <3>1. f.id \in Requests /\ f.decision \in Decisions
      BY <2>2, <2>6 DEF PluginFrame
    <3>2. \A r \in Requests : claude'[r].answer = "unasked" => claude[r].answer = "unasked"
      BY <2>6, <3>1 DEF TypeOK, PluginTypes, Decisions
    <3>3. \A t \in Sessions : FreshIn(toDaemon[t], t, db, claude')
      BY <3>2, FreshKept DEF AskedOnce
    <3>4. QED
      BY <2>3, <3>2, <3>3 DEF AskedOnce
  <2>7. QED
    BY <2>4, <2>5, <2>6
<1>6. QED
  BY <1>2, <1>4, <1>5

LEMMA ClaudeAsksOnce ==
    ASSUME TypeOK, AskedOnce, NEW r \in Requests,
           Ask(r) \/ \E d \in Decisions : AnswerAtTerminal(r, d)
    PROVE  AskedOnce'
<1>1. /\ toDaemon \in [Sessions -> Seq(DaemonFrame)]
      /\ claude \in [Requests -> [answer : {"unasked", "open"} \cup Decisions,
                                  via : {"none", "relay", "terminal"}]]
      /\ Owner[r] \in Sessions
  BY OwnerAssumption DEF TypeOK, SocketTypes, PluginTypes
<1>2. UNCHANGED db
  BY DEF Ask, AnswerAtTerminal
<1>3. \A t \in Requests : claude'[t].answer = "unasked" => claude[t].answer = "unasked"
  BY <1>1 DEF Ask, AnswerAtTerminal, Decisions
<1>4. \A s \in Sessions : FreshIn(toDaemon[s], s, db, claude')
  BY <1>3, FreshKept DEF AskedOnce
<1>5. CASE UNCHANGED toDaemon
  BY <1>2, <1>3, <1>4, <1>5 DEF AskedOnce
<1>6. CASE Ask(r) /\ PluginSends(Owner[r], Request(r))
  <2> DEFINE s == Owner[r]
  <2>1. Request(r) \in DaemonFrame /\ \A t \in Requests : Asks(Request(r), t) => t = r
    BY DEF Request, DaemonFrame, Asks
  <2>2. db[r] = "none" /\ \A i \in 1..Len(toDaemon[s]) : ~ Asks(toDaemon[s][i], r)
    BY <1>1, <1>6 DEF Ask, AskedOnce, FreshIn
  <2>3. claude'[r].answer # "unasked"
    BY <1>1, <1>6 DEF Ask
  <2>4. FreshIn(Append(toDaemon[s], Request(r)), s, db, claude')
    BY <1>1, <1>4, <2>1, <2>2, <2>3, FreshAppend
  <2>5. \A t \in Sessions : toDaemon'[t] = IF t = s THEN Append(toDaemon[s], Request(r))
                                           ELSE toDaemon[t]
    BY <1>1, <1>6 DEF PluginSends
  <2>6. QED
    BY <1>2, <1>3, <1>4, <2>4, <2>5 DEF AskedOnce
<1>7. QED
  BY <1>5, <1>6 DEF Ask, AnswerAtTerminal, socketVars

LEMMA DaemonHearsOnce ==
    ASSUME TypeOK, AskedOnce, NEW s \in Sessions,
           OnRegister(s) \/ OnBye(s) \/ OnPermissionRequest(s) \/ OnChatOut(s)
    PROVE  AskedOnce'
<1> DEFINE f == Head(toDaemon[s])
<1>1. /\ toDaemon \in [Sessions -> Seq(DaemonFrame)]
      /\ db \in [Requests -> {"none", "open"} \cup Decisions]
  BY DEF TypeOK, SocketTypes, DaemonTypes
<1>2. /\ toDaemon[s] # <<>>
      /\ toDaemon' = [toDaemon EXCEPT ![s] = Tail(@)]
      /\ UNCHANGED claude
  BY DEF OnRegister, OnBye, OnPermissionRequest, OnChatOut, Receive
<1>3. \A t \in Sessions : toDaemon'[t] = IF t = s THEN Tail(toDaemon[s]) ELSE toDaemon[t]
  BY <1>1, <1>2
<1>4. /\ FreshIn(Tail(toDaemon[s]), s, db, claude)
      /\ \A r \in Requests : Asks(f, r) =>
            /\ Owner[r] = s /\ db[r] = "none" /\ claude[r].answer # "unasked"
            /\ \A i \in 1..Len(Tail(toDaemon[s])) : ~ Asks(Tail(toDaemon[s])[i], r)
  BY <1>1, <1>2, FreshTail DEF AskedOnce
<1>5. \A t \in Sessions : FreshIn(toDaemon'[t], t, db, claude)
  BY <1>3, <1>4 DEF AskedOnce
<1>6. CASE UNCHANGED db
  BY <1>2, <1>5, <1>6 DEF AskedOnce
<1>7. CASE OnPermissionRequest(s) /\ db' # db
  <2>1. f \in DaemonFrame /\ f.type = "permission_request"
    BY <1>1, <1>2, <1>7 DEF OnPermissionRequest, Receive
  <2>2. f.id \in Requests /\ Asks(f, f.id)
    BY <2>1 DEF DaemonFrame, Asks
  <2>3. db' = [db EXCEPT ![f.id] = IF @ = "none" THEN "open" ELSE @]
    BY <1>7 DEF OnPermissionRequest
  <2>4. \A t \in Sessions : \A i \in 1..Len(toDaemon'[t]) : ~ Asks(toDaemon'[t][i], f.id)
    <3> DEFINE r == f.id
    <3>1. /\ Owner[r] = s
          /\ \A i \in 1..Len(Tail(toDaemon[s])) : ~ Asks(Tail(toDaemon[s])[i], r)
      BY <1>4, <2>2
    <3> HIDE DEF f, r
    <3>2. ASSUME NEW t \in Sessions, t # s, NEW i \in 1..Len(toDaemon[t]),
                 Asks(toDaemon[t][i], r)
          PROVE  FALSE
      BY <2>2, <3>1, <3>2 DEF AskedOnce, FreshIn, r
    <3>3. QED
      BY <1>3, <3>1, <3>2 DEF r
  <2> HIDE DEF f
  <2>5. \A r \in Requests : r # f.id => db'[r] = db[r]
    BY <1>1, <2>2, <2>3
  <2>6. \A t \in Sessions : FreshIn(toDaemon'[t], t, db', claude)
    BY <1>5, <2>4, <2>5, FreshKept
  <2>7. claude[f.id].answer # "unasked"
    BY <1>4, <2>2 DEF f
  <2>8. QED
    BY <1>2, <2>5, <2>6, <2>7 DEF AskedOnce
<1>8. QED
  BY <1>6, <1>7 DEF OnRegister, OnBye, OnChatOut

\* What the daemon does with an answer, and what it tells the session machine.
LEMMA ReplySteps ==
    ASSUME TypeOK, OnPermissionReply
    PROVE  \/ UNCHANGED <<db, queued, toHub, fsmVars>>
           \/ \E r \in Requests, d \in Decisions :
                /\ db[r] = "open"
                /\ db' = [db EXCEPT ![r] = d]
                /\ HubSend(Resolved(r, d))
                /\ IF Owner[r] \in Live THEN Fsm!OnPermissionResolved(Owner[r])
                                        ELSE UNCHANGED fsmVars
<1> DEFINE f == Head(replies)
<1>1. replies # <<>> /\ replies \in Seq(ReplyFrame)
  BY DEF OnPermissionReply, TypeOK, LinkTypes
<1>2. f \in ReplyFrame
  BY <1>1
<1>3. f.id \in Requests /\ f.decision \in Decisions
  BY <1>2 DEF ReplyFrame
<1>4. QED
  BY <1>3 DEF OnPermissionReply, ResolveRequest

LEMMA AskedOnceKept ==
    ASSUME TypeOK, AskedOnce, [Next]_vars
    PROVE  AskedOnce'
<1>1. CASE OnPermissionReply
  <2>1. UNCHANGED <<claude, toDaemon>>
    BY <1>1 DEF OnPermissionReply
  <2>2. CASE UNCHANGED db
    BY <2>1, <2>2, FreshUntouched
  <2>3. ASSUME NEW r \in Requests, NEW d \in Decisions, db[r] = "open",
               db' = [db EXCEPT ![r] = d]
        PROVE  AskedOnce'
    <3>1. \A t \in Requests : db[t] = "none" => db'[t] = "none"
      BY <2>3 DEF TypeOK, DaemonTypes
    <3>2. \A s \in Sessions : FreshIn(toDaemon[s], s, db', claude)
      BY <3>1, FreshKept DEF AskedOnce
    <3>3. QED
      BY <2>1, <3>1, <3>2 DEF AskedOnce
  <2>4. QED
    BY <1>1, <2>2, <2>3, ReplySteps
<1>2. CASE DaemonRestart
  BY <1>2, FreshUntouched DEF DaemonRestart
<1>3. CASE UNCHANGED <<claude, toDaemon, db>>
  BY <1>3, FreshUntouched
<1>4. CASE LinkUp \/ LinkDown \/ HubForward \/ UNCHANGED vars
  BY <1>3, <1>4 DEF LinkUp, LinkDown, HubForward, socketVars, vars
<1>5. ASSUME NEW p \in Pwas,
             \/ PwaReceive(p) \/ PwaOffline(p) \/ PwaOnline(p)
             \/ \E r \in Requests : \/ CommandTimeout(p, r)
                                   \/ \E d \in Decisions : SendPermissionReply(p, r, d)
      PROVE  AskedOnce'
  BY <1>3, <1>5 DEF PwaReceive, PwaOffline, PwaOnline, CommandTimeout,
     SendPermissionReply, socketVars
<1>6. QED
  BY <1>1, <1>2, <1>4, <1>5, PluginsAskOnce, ClaudeAsksOnce, DaemonHearsOnce
     DEF Next

LEMMA AskedOnceInvariant == Spec => []AskedOnce
<1>1. Init => AskedOnce
  BY FreshNothing DEF Init, AskedOnce
<1>2. QED
  BY <1>1, AskedOnceKept, TypeCorrect, PTL DEF Spec

-----------------------------------------------------------------------------
(* The count of the session machine.                                       *)

\* The requests of a session are finitely many, so they can be counted.
LEMMA UnansweredFinite ==
    ASSUME NEW s
    PROVE  IsFiniteSet(Unanswered(s)) /\ Cardinality(Unanswered(s)) \in Nat
<1>1. Unanswered(s) \in SUBSET Requests
  BY DEF Unanswered
<1>2. QED
  BY <1>1, RequestsAssumption, FS_Subset, FS_CardinalityType

LEMMA UnansweredFiniteNext ==
    ASSUME NEW s
    PROVE  IsFiniteSet(Unanswered(s)') /\ Cardinality(Unanswered(s)') \in Nat
<1>1. Unanswered(s)' \in SUBSET Requests
  BY DEF Unanswered
<1>2. QED
  BY <1>1, RequestsAssumption, FS_Subset, FS_CardinalityType

\* The machine counts one more request, in the entry of s alone.
LEMMA RequestCounts ==
    ASSUME Fsm!TypeOK, NEW s \in Live, Fsm!OnPermissionRequest(s)
    PROVE  /\ Live' = Live
           /\ entries'[s].pendingCount = entries[s].pendingCount + 1
           /\ \A t \in Live : t # s => entries'[t] = entries[t]
<1> USE DEF Fsm!TypeOK, Fsm!Registered, Fsm!Entry, Live
<1> DEFINE cur == entries[s]
           counted == [cur EXCEPT !.pendingCount = @ + 1]
           stashed == [counted EXCEPT !.prevBeforeWaiting = cur.state]
<1>1. cur \in Fsm!Entry
  OBVIOUS
<1>2. counted \in Fsm!Entry /\ counted.pendingCount = cur.pendingCount + 1
  <2> HIDE DEF cur
  <2>1. QED
    BY <1>1
<1>3. stashed \in Fsm!Entry /\ stashed.pendingCount = counted.pendingCount
  <2>1. cur.state \in Fsm!SessionState
    BY <1>1
  <2> HIDE DEF cur, counted
  <2>2. QED
    BY <1>2, <2>1 DEF stashed
<1>4. Fsm!Quietly(s, counted) \/ Fsm!Transition(s, stashed, "waiting")
  BY DEF Fsm!OnPermissionRequest, Fsm!EntryFor
<1> HIDE DEF cur, counted, stashed
<1>5. \E e \in Fsm!Entry : /\ Fsm!SetEntry(s, e)
                           /\ e.pendingCount = cur.pendingCount + 1
  <2>1. [stashed EXCEPT !.state = "waiting"] \in Fsm!Entry
    BY <1>3 DEF Fsm!SessionState
  <2>2. [stashed EXCEPT !.state = "waiting"].pendingCount = cur.pendingCount + 1
    BY <1>2, <1>3
  <2>3. QED
    BY <1>2, <1>4, <2>1, <2>2 DEF Fsm!Quietly, Fsm!Transition
<1>6. QED
  BY <1>5 DEF Fsm!SetEntry, cur

\* The machine counts one request less, in the entry of s alone, and never
\* less than none.
LEMMA ResolvedCounts ==
    ASSUME Fsm!TypeOK, NEW s \in Live, Fsm!OnPermissionResolved(s)
    PROVE  /\ Live' = Live
           /\ entries'[s].pendingCount = IF entries[s].pendingCount > 0
                                         THEN entries[s].pendingCount - 1 ELSE 0
           /\ \A t \in Live : t # s => entries'[t] = entries[t]
<1> USE DEF Fsm!TypeOK, Fsm!Registered, Fsm!Entry, Live
<1> DEFINE cur == entries[s]
           left == IF cur.pendingCount > 0 THEN cur.pendingCount - 1 ELSE 0
           counted == [cur EXCEPT !.pendingCount = left]
<1>1. cur \in Fsm!Entry
  OBVIOUS
<1>2. left \in Nat
  <2> HIDE DEF cur
  <2>1. QED
    BY <1>1
<1>3. counted \in Fsm!Entry /\ counted.pendingCount = left
  <2> HIDE DEF cur, left
  <2>1. QED
    BY <1>1, <1>2
<1>4. Fsm!Quietly(s, counted) \/ Fsm!Transition(s, counted, cur.prevBeforeWaiting)
  BY DEF Fsm!OnPermissionResolved
<1>5. cur.prevBeforeWaiting \in Fsm!SessionState
  BY <1>1
<1> HIDE DEF cur, left, counted
<1>6. \E e \in Fsm!Entry : Fsm!SetEntry(s, e) /\ e.pendingCount = left
  <2> DEFINE moved == [counted EXCEPT !.state = cur.prevBeforeWaiting]
  <2>1. moved \in Fsm!Entry /\ moved.pendingCount = left
    BY <1>3, <1>5
  <2>2. QED
    BY <1>3, <1>4, <2>1 DEF Fsm!Quietly, Fsm!Transition
<1>7. QED
  BY <1>6 DEF Fsm!SetEntry, cur, left

\* The table and the machine change together.
LEMMA PhantomKept ==
    ASSUME TypeOK, AskedOnce, NoPhantomWait, [Next]_vars
    PROVE  NoPhantomWait'
<1> USE DEF Unanswered
<1>1. /\ Fsm!TypeOK /\ db \in [Requests -> {"none", "open"} \cup Decisions]
      /\ Live \subseteq Sessions
      /\ \A s \in Live : entries[s].pendingCount \in Nat
  BY DEF TypeOK, DaemonTypes, Fsm!TypeOK, Fsm!Registered, Live, Fsm!Entry
<1>2. ASSUME UNCHANGED db,
             \A s \in Live' : \/ s \in Live /\ entries'[s] = entries[s]
                              \/ entries'[s].pendingCount = 0
      PROVE  NoPhantomWait'
  <2> SUFFICES ASSUME NEW s \in Live'
               PROVE  entries'[s].pendingCount <= Cardinality(Unanswered(s)')
    BY DEF NoPhantomWait
  <2>1. Unanswered(s)' = Unanswered(s)
    BY <1>2
  <2>2. QED
    <3> HIDE DEF Unanswered
    <3>1. QED
      BY <1>2, <2>1, UnansweredFinite DEF NoPhantomWait
<1>3. CASE UNCHANGED <<db, fsmVars>>
  BY <1>2, <1>3 DEF fsmVars, Live
<1>4. ASSUME NEW s \in Sessions, UNCHANGED db,
             Fsm!Register(s) \/ Fsm!RemoveSession(s) \/ UNCHANGED fsmVars
      PROVE  NoPhantomWait'
  <2>1. CASE Fsm!Register(s)
    BY <1>2, <1>4, <2>1 DEF Fsm!Register, Fsm!SetEntry, Fsm!NewEntry, Fsm!vars,
       Fsm!Registered, Live
  <2>2. CASE Fsm!RemoveSession(s)
    BY <1>2, <1>4, <2>2 DEF Fsm!RemoveSession, Fsm!Registered, Live
  <2>3. QED
    BY <1>3, <1>4, <2>1, <2>2
<1>5. CASE DaemonRestart
  <2>1. UNCHANGED db /\ Live' = {}
    BY <1>5 DEF DaemonRestart, Live
  <2>2. QED
    BY <1>2, <2>1
<1>6. ASSUME NEW s \in Sessions, OnPermissionRequest(s)
      PROVE  NoPhantomWait'
  <2> DEFINE f == Head(toDaemon[s])
             r == f.id
  <2>1. CASE s \notin Live
    BY <1>3, <1>6, <2>1 DEF OnPermissionRequest
  <2>2. CASE s \in Live
    <3>1. /\ toDaemon[s] # <<>> /\ toDaemon[s] \in Seq(DaemonFrame)
          /\ f.type = "permission_request"
          /\ db' = [db EXCEPT ![r] = IF @ = "none" THEN "open" ELSE @]
          /\ Fsm!OnPermissionRequest(s)
      BY <1>6, <2>2 DEF OnPermissionRequest, Receive, TypeOK, SocketTypes
    <3>2. r \in Requests /\ Asks(f, r)
      <4>1. f \in DaemonFrame
        BY <3>1
      <4>2. QED
        BY <3>1, <4>1 DEF DaemonFrame, Asks
    <3>3. Owner[r] = s /\ db[r] = "none"
      BY <3>1, <3>2, FreshTail DEF AskedOnce
    <3> HIDE DEF f, r
    <3>4. /\ Unanswered(s)' = Unanswered(s) \cup {r} /\ r \notin Unanswered(s)
          /\ \A t : t # s => Unanswered(t)' = Unanswered(t)
      BY <1>1, <3>1, <3>2, <3>3
    <3>5. Cardinality(Unanswered(s)') = Cardinality(Unanswered(s)) + 1
      <4> HIDE DEF Unanswered
      <4>1. QED
        BY <3>4, UnansweredFinite, FS_AddElement
    <3>6. /\ Live' = Live
          /\ entries'[s].pendingCount = entries[s].pendingCount + 1
          /\ \A t \in Live : t # s => entries'[t] = entries[t]
      BY <1>1, <2>2, <3>1, RequestCounts
    <3> SUFFICES ASSUME NEW t \in Live
                 PROVE  entries'[t].pendingCount <= Cardinality(Unanswered(t)')
      BY <3>6 DEF NoPhantomWait
    <3> HIDE DEF Unanswered
    <3>7. CASE t = s
      BY <1>1, <2>2, <3>5, <3>6, <3>7, UnansweredFinite DEF NoPhantomWait
    <3>8. CASE t # s
      BY <3>4, <3>6, <3>8 DEF NoPhantomWait
    <3>9. QED
      BY <3>7, <3>8
  <2>3. QED
    BY <2>1, <2>2
<1>7. CASE OnPermissionReply
  <2>1. CASE UNCHANGED <<db, fsmVars>>
    BY <1>3, <2>1
  <2>2. ASSUME NEW r \in Requests, NEW d \in Decisions, db[r] = "open",
               db' = [db EXCEPT ![r] = d],
               IF Owner[r] \in Live THEN Fsm!OnPermissionResolved(Owner[r])
                                    ELSE UNCHANGED fsmVars
        PROVE  NoPhantomWait'
    <3> DEFINE s == Owner[r]
    <3>1. /\ Unanswered(s)' = Unanswered(s) \ {r} /\ r \in Unanswered(s)
          /\ \A t : t # s => Unanswered(t)' = Unanswered(t)
      BY <1>1, <2>2 DEF Decisions
    <3>2. Cardinality(Unanswered(s)') = Cardinality(Unanswered(s)) - 1
      <4> HIDE DEF Unanswered
      <4>1. QED
        BY <3>1, UnansweredFinite, FS_RemoveElement
    <3>3. CASE s \in Live
      <4>1. /\ Live' = Live
            /\ entries'[s].pendingCount = IF entries[s].pendingCount > 0
                                          THEN entries[s].pendingCount - 1 ELSE 0
            /\ \A t \in Live : t # s => entries'[t] = entries[t]
        BY <1>1, <2>2, <3>3, ResolvedCounts
      <4> SUFFICES ASSUME NEW t \in Live
                   PROVE  entries'[t].pendingCount <= Cardinality(Unanswered(t)')
        BY <4>1 DEF NoPhantomWait
      <4> HIDE DEF Unanswered
      <4>2. CASE t = s
        <5>1. entries[s].pendingCount <= Cardinality(Unanswered(s))
          BY <3>3 DEF NoPhantomWait
        <5> HIDE DEF s
        <5>2. Cardinality(Unanswered(s)') \in Nat
          BY UnansweredFiniteNext
        <5>3. QED
          BY <1>1, <3>2, <3>3, <4>1, <4>2, <5>1, <5>2, UnansweredFinite
      <4>3. CASE t # s
        BY <3>1, <4>1, <4>3 DEF NoPhantomWait
      <4>4. QED
        BY <4>2, <4>3
    <3>4. CASE s \notin Live
      <4>1. entries' = entries /\ Live' = Live
        BY <2>2, <3>4 DEF fsmVars, Live
      <4> SUFFICES ASSUME NEW t \in Live
                   PROVE  entries[t].pendingCount <= Cardinality(Unanswered(t)')
        BY <4>1 DEF NoPhantomWait
      <4>2. t # s
        BY <3>4
      <4> HIDE DEF Unanswered
      <4>3. QED
        BY <3>1, <4>2 DEF NoPhantomWait
    <3>5. QED
      BY <3>3, <3>4
  <2>3. QED
    BY <1>7, <2>1, <2>2, ReplySteps
<1>8. ASSUME NEW s \in Sessions,
             \/ Start(s) \/ Reconnect(s) \/ ReplyTool(s) \/ PluginData(s)
             \/ Goodbye(s) \/ OnChatOut(s)
      PROVE  UNCHANGED <<db, fsmVars>>
  BY <1>8 DEF Start, Reconnect, Connect, ReplyTool, PluginData, Goodbye, OnChatOut
<1>9. ASSUME NEW s \in Sessions, Drop(s) \/ Exit(s) \/ OnRegister(s) \/ OnBye(s)
      PROVE  NoPhantomWait'
  BY <1>4, <1>9 DEF Drop, Exit, SocketClosed, OnRegister, OnBye
<1>10. ASSUME NEW r \in Requests, Ask(r) \/ \E d \in Decisions : AnswerAtTerminal(r, d)
       PROVE  UNCHANGED <<db, fsmVars>>
  BY <1>10 DEF Ask, AnswerAtTerminal
<1>11. CASE LinkUp \/ LinkDown \/ HubForward \/ UNCHANGED vars
  BY <1>3, <1>11 DEF LinkUp, LinkDown, HubForward, vars, fsmVars
<1>12. ASSUME NEW p \in Pwas,
              \/ PwaReceive(p) \/ PwaOffline(p) \/ PwaOnline(p)
              \/ \E r \in Requests : \/ CommandTimeout(p, r)
                                    \/ \E d \in Decisions : SendPermissionReply(p, r, d)
       PROVE  UNCHANGED <<db, fsmVars>>
  BY <1>12 DEF PwaReceive, PwaOffline, PwaOnline, CommandTimeout, SendPermissionReply
<1>13. QED
  BY <1>3, <1>5, <1>6, <1>7, <1>8, <1>9, <1>10, <1>11, <1>12 DEF Next

\* No order of requests, answers, reconnections and restarts leaves a session
\* waiting for a request that nobody can answer any more.
THEOREM NoPhantomWaitCorrect == Spec => []NoPhantomWait
<1>1. Init => NoPhantomWait
  BY DEF Init, NoPhantomWait, Live, Fsm!Init
<1>2. QED
  BY <1>1, PhantomKept, AskedOnceInvariant, TypeCorrect, PTL DEF Spec

-----------------------------------------------------------------------------
(* The cards of the PWAs.                                                  *)

\* The frame f is about the request r.
About(f, r) == f.type # "chat_out" /\ f.id = r

\* Once a view with these cards has received all of q, it shows r: the last
\* frame about r asks it, or there is none and r is shown already.
WillShow(cards, q, r) ==
    \/ r \in cards /\ \A i \in 1..Len(q) : ~ About(q[i], r)
    \/ \E i \in 1..Len(q) :
          Asks(q[i], r) /\ \A j \in 1..Len(q) : j > i => ~ About(q[j], r)

\* The frames before the PWA p, in the order it will receive them.
Way(p) == toPwa[p] \o (toHub \o queued)

\* While the link is up nothing waits, while it is down nothing is in flight.
LinkQueues ==
    /\ link = "up" => queued = <<>>
    /\ link = "down" => toHub = <<>>

\* As long as no frame was lost, a PWA that has received all that is before it
\* shows the open requests and no other.
CardsFollow ==
    NothingMissed =>
        \A p \in Pwas :
            /\ pwa[p].online
            /\ \A r \in Requests :
                  WillShow(pwa[p].view.pending, Way(p), r) <=> db[r] = "open"

LEMMA HubFrameKinds ==
    ASSUME NEW f \in HubFrame
    PROVE  \/ f.type = "chat_out"
           \/ f.type = "permission_request" /\ f.id \in Requests
           \/ f.type = "permission_resolved" /\ f.id \in Requests
BY DEF HubFrame

\* A frame that is about another request, one that asks r, one that ends it.
LEMMA WillShowAppend ==
    ASSUME NEW q \in Seq(HubFrame), NEW f \in HubFrame, NEW cards, NEW r
    PROVE  /\ ~ About(f, r) =>
                 (WillShow(cards, Append(q, f), r) <=> WillShow(cards, q, r))
           /\ Asks(f, r) => WillShow(cards, Append(q, f), r)
           /\ About(f, r) /\ ~ Asks(f, r) => ~ WillShow(cards, Append(q, f), r)
<1> DEFINE p == Append(q, f)
           n == Len(q)
<1>1. /\ Len(p) = n + 1 /\ n \in Nat
      /\ \A i \in 1..n : p[i] = q[i]
      /\ p[n + 1] = f
  BY AppendProperties
<1> HIDE DEF p, n
<1>2. /\ \A i \in 1..n : i \in 1..Len(p) /\ n + 1 > i
      /\ n + 1 \in 1..Len(p)
      /\ \A i \in 1..Len(p) : i \in 1..n \/ i = n + 1
      /\ \A i \in 1..Len(p) : ~ (i > n + 1)
  BY <1>1
<1>3. ASSUME ~ About(f, r)
      PROVE  WillShow(cards, p, r) <=> WillShow(cards, q, r)
  <2>1. (\A i \in 1..Len(p) : ~ About(p[i], r)) <=> (\A i \in 1..n : ~ About(q[i], r))
    BY <1>1, <1>2, <1>3
  <2>2. ~ Asks(f, r)
    BY <1>3 DEF Asks, About
  <2>3. ASSUME NEW i \in 1..n
        PROVE  (\A j \in 1..Len(p) : j > i => ~ About(p[j], r)) <=>
               (\A j \in 1..n : j > i => ~ About(q[j], r))
    BY <1>1, <1>2, <1>3
  <2>4. (\E i \in 1..Len(p) : /\ Asks(p[i], r)
                              /\ \A j \in 1..Len(p) : j > i => ~ About(p[j], r)) <=>
        (\E i \in 1..n : Asks(q[i], r) /\ \A j \in 1..n : j > i => ~ About(q[j], r))
    BY <1>1, <1>2, <2>2, <2>3
  <2>5. QED
    BY <2>1, <2>4 DEF WillShow, n
<1>4. ASSUME Asks(f, r)
      PROVE  WillShow(cards, p, r)
  BY <1>1, <1>2, <1>4 DEF WillShow
<1>5. ASSUME About(f, r), ~ Asks(f, r)
      PROVE  ~ WillShow(cards, p, r)
  BY <1>1, <1>2, <1>5 DEF WillShow
<1>6. QED
  BY <1>3, <1>4, <1>5 DEF p

\* Receiving a frame changes the cards, not what they will be.
LEMMA WillShowTail ==
    ASSUME NEW q \in Seq(HubFrame), q # <<>>, NEW view \in View, NEW r \in Requests
    PROVE  WillShow(Reduce(view, Head(q)).pending, Tail(q), r) <=>
           WillShow(view.pending, q, r)
<1> DEFINE p == Tail(q)
           f == Head(q)
           n == Len(p)
           cards == Reduce(view, f).pending
<1>1. /\ Len(q) = n + 1 /\ n \in Nat
      /\ \A i \in 1..n : p[i] = q[i + 1]
      /\ f = q[1] /\ f \in HubFrame
  <2>1. Len(q) \in Nat /\ Len(q) # 0
    BY EmptySeq
  <2>2. QED
    BY <2>1, HeadTailProperties
<1>2. /\ Asks(f, r) => r \in cards
      /\ About(f, r) /\ ~ Asks(f, r) => r \notin cards
      /\ ~ About(f, r) => (r \in cards <=> r \in view.pending)
  <2>1. CASE f.type = "permission_request"
    <3>1. cards = view.pending \cup {f.id}
      BY <2>1 DEF Reduce, View
    <3> HIDE DEF cards, f
    <3>2. QED
      BY <2>1, <3>1 DEF Asks, About
  <2>2. CASE f.type = "permission_resolved"
    <3>1. cards = view.pending \ {f.id}
      BY <2>2 DEF Reduce, View
    <3> HIDE DEF cards, f
    <3>2. QED
      BY <2>2, <3>1 DEF Asks, About
  <2>3. CASE f.type = "chat_out"
    <3>1. cards = view.pending
      BY <2>3 DEF Reduce
    <3> HIDE DEF cards, f
    <3>2. QED
      BY <2>3, <3>1 DEF Asks, About
  <2>4. QED
    <3> HIDE DEF cards, f
    <3>1. QED
      BY <1>1, <2>1, <2>2, <2>3, HubFrameKinds
<1> HIDE DEF p, f, n, cards
<1>3. /\ \A i \in 1..n : i + 1 \in 1..Len(q) /\ i + 1 > 1
      /\ 1 \in 1..Len(q)
      /\ \A i \in 1..Len(q) : i = 1 \/ (i - 1 \in 1..n /\ (i - 1) + 1 = i /\ i > 1)
      /\ \A i, j \in 1..n : j > i <=> j + 1 > i + 1
  BY <1>1
<1>4. (\A i \in 1..Len(q) : ~ About(q[i], r)) <=>
      (~ About(f, r) /\ \A i \in 1..n : ~ About(p[i], r))
  BY <1>1, <1>3
<1>5. (\A j \in 1..Len(q) : j > 1 => ~ About(q[j], r)) <=>
      (\A j \in 1..n : ~ About(p[j], r))
  <2>1. ASSUME \A j \in 1..Len(q) : j > 1 => ~ About(q[j], r), NEW j \in 1..n
        PROVE  ~ About(p[j], r)
    <3>1. p[j] = q[j + 1] /\ j + 1 \in 1..Len(q) /\ j + 1 > 1
      BY <1>1, <1>3
    <3>2. QED
      BY <2>1, <3>1
  <2>2. ASSUME \A j \in 1..n : ~ About(p[j], r), NEW j \in 1..Len(q), j > 1
        PROVE  ~ About(q[j], r)
    <3>1. j - 1 \in 1..n /\ (j - 1) + 1 = j
      BY <1>1, <2>2
    <3>2. p[j - 1] = q[j]
      BY <1>1, <3>1
    <3>3. QED
      BY <2>2, <3>1, <3>2
  <2>3. QED
    BY <2>1, <2>2
<1>6. ASSUME NEW i \in 1..n
      PROVE  (\A j \in 1..Len(q) : j > i + 1 => ~ About(q[j], r)) <=>
             (\A j \in 1..n : j > i => ~ About(p[j], r))
  <2>1. ASSUME \A j \in 1..Len(q) : j > i + 1 => ~ About(q[j], r), NEW j \in 1..n, j > i
        PROVE  ~ About(p[j], r)
    BY <1>1, <1>3, <2>1
  <2>2. ASSUME \A j \in 1..n : j > i => ~ About(p[j], r),
               NEW j \in 1..Len(q), j > i + 1
        PROVE  ~ About(q[j], r)
    <3>1. j - 1 \in 1..n /\ (j - 1) + 1 = j /\ j - 1 > i
      BY <1>1, <2>2
    <3>2. p[j - 1] = q[j]
      BY <1>1, <3>1
    <3>3. QED
      BY <2>2, <3>1, <3>2
  <2>3. QED
    BY <2>1, <2>2
<1>7. (\E i \in 1..Len(q) : /\ Asks(q[i], r)
                            /\ \A j \in 1..Len(q) : j > i => ~ About(q[j], r)) <=>
      \/ Asks(f, r) /\ \A j \in 1..n : ~ About(p[j], r)
      \/ \E i \in 1..n : Asks(p[i], r) /\ \A j \in 1..n : j > i => ~ About(p[j], r)
  <2>1. ASSUME NEW i \in 1..Len(q), Asks(q[i], r),
               \A j \in 1..Len(q) : j > i => ~ About(q[j], r)
        PROVE  \/ Asks(f, r) /\ \A j \in 1..n : ~ About(p[j], r)
               \/ \E k \in 1..n : Asks(p[k], r) /\ \A j \in 1..n : j > k => ~ About(p[j], r)
    <3>1. CASE i = 1
      BY <1>1, <1>5, <2>1, <3>1
    <3>2. CASE i # 1
      <4> DEFINE k == i - 1
      <4>1. k \in 1..n /\ k + 1 = i
        BY <1>1, <3>2
      <4>2. p[k] = q[i]
        BY <1>1, <4>1
      <4> HIDE DEF k
      <4>3. \A j \in 1..n : j > k => ~ About(p[j], r)
        BY <1>6, <2>1, <4>1
      <4>4. QED
        BY <2>1, <4>1, <4>2, <4>3
    <3>3. QED
      BY <3>1, <3>2
  <2>2. ASSUME Asks(f, r), \A j \in 1..n : ~ About(p[j], r)
        PROVE  \E i \in 1..Len(q) : /\ Asks(q[i], r)
                                    /\ \A j \in 1..Len(q) : j > i => ~ About(q[j], r)
    BY <1>1, <1>3, <1>5, <2>2
  <2>3. ASSUME NEW i \in 1..n, Asks(p[i], r), \A j \in 1..n : j > i => ~ About(p[j], r)
        PROVE  \E k \in 1..Len(q) : /\ Asks(q[k], r)
                                    /\ \A j \in 1..Len(q) : j > k => ~ About(q[j], r)
    <3>1. Asks(q[i + 1], r) /\ \A j \in 1..Len(q) : j > i + 1 => ~ About(q[j], r)
      BY <1>1, <1>6, <2>3
    <3>2. QED
      BY <1>3, <3>1
  <2>4. QED
    BY <2>1, <2>2, <2>3
<1>8. WillShow(view.pending, q, r) <=>
      \/ r \in view.pending /\ ~ About(f, r) /\ \A i \in 1..n : ~ About(p[i], r)
      \/ Asks(f, r) /\ \A j \in 1..n : ~ About(p[j], r)
      \/ \E i \in 1..n : Asks(p[i], r) /\ \A j \in 1..n : j > i => ~ About(p[j], r)
  BY <1>4, <1>7 DEF WillShow
<1>9. WillShow(cards, p, r) <=>
      \/ r \in cards /\ \A i \in 1..n : ~ About(p[i], r)
      \/ \E i \in 1..n : Asks(p[i], r) /\ \A j \in 1..n : j > i => ~ About(p[j], r)
  BY DEF WillShow, n
<1>10. Asks(f, r) => About(f, r)
  BY DEF Asks, About
<1>11. QED
  BY <1>2, <1>8, <1>9, <1>10 DEF cards, p, f

-----------------------------------------------------------------------------

LEMMA ConcatAppend ==
    ASSUME NEW S, NEW q \in Seq(S), NEW t \in Seq(S), NEW f \in S
    PROVE  q \o Append(t, f) = Append(q \o t, f)
<1>1. Append(t, f) = t \o <<f>> /\ q \o t \in Seq(S)
  BY AppendIsConcat, ConcatProperties
<1>2. Append(q \o t, f) = (q \o t) \o <<f>>
  BY <1>1, AppendIsConcat
<1>3. <<f>> \in Seq(S)
  OBVIOUS
<1>4. QED
  BY <1>1, <1>2, <1>3

\* A frame goes from the front of one queue to the end of the one before it.
LEMMA ConcatMove ==
    ASSUME NEW S, NEW q \in Seq(S), NEW t \in Seq(S), t # <<>>, NEW u \in Seq(S)
    PROVE  Append(q, Head(t)) \o (Tail(t) \o u) = q \o (t \o u)
<1> DEFINE h == <<Head(t)>>
           v == Tail(t)
<1>1. Head(t) \in S /\ h \in Seq(S) /\ v \in Seq(S)
  BY HeadTailProperties
<1>2. h \o v = t
  OBVIOUS
<1>3. Append(q, Head(t)) = q \o h
  BY <1>1, AppendIsConcat
<1> HIDE DEF h, v
<1>4. v \o u \in Seq(S)
  BY <1>1
<1>5. (q \o h) \o (v \o u) = q \o (h \o (v \o u))
  BY <1>1, <1>4
<1>6. h \o (v \o u) = (h \o v) \o u
  BY <1>1
<1>7. QED
  BY <1>2, <1>3, <1>5, <1>6 DEF v

LEMMA ConcatFront ==
    ASSUME NEW S, NEW q \in Seq(S), q # <<>>, NEW t \in Seq(S)
    PROVE  q \o t # <<>> /\ Head(q \o t) = Head(q) /\ Tail(q \o t) = Tail(q) \o t
<1> DEFINE h == <<Head(q)>>
           v == Tail(q)
           w == v \o t
<1>1. Head(q) \in S /\ h \in Seq(S) /\ v \in Seq(S) /\ w \in Seq(S)
  BY HeadTailProperties, ConcatProperties
<1>2. h \o v = q
  OBVIOUS
<1>3. q \o t = h \o w
  <2> HIDE DEF h, v
  <2>1. (h \o v) \o t = h \o (v \o t)
    BY <1>1
  <2>2. QED
    BY <1>2, <2>1
<1> HIDE DEF w
<1>4. h \o w # <<>> /\ Head(h \o w) = Head(q) /\ Tail(h \o w) = w
  BY <1>1
<1>5. QED
  BY <1>3, <1>4 DEF w

LEMMA Ways ==
    ASSUME TypeOK, NEW p \in Pwas
    PROVE  /\ toPwa[p] \in Seq(HubFrame) /\ toHub \in Seq(HubFrame)
           /\ queued \in Seq(HubFrame) /\ toHub \o queued \in Seq(HubFrame)
           /\ Way(p) \in Seq(HubFrame)
           /\ pwa[p].view \in View
<1>1. toPwa[p] \in Seq(HubFrame) /\ toHub \in Seq(HubFrame) /\ queued \in Seq(HubFrame)
  BY DEF TypeOK, PwaTypes, LinkTypes
<1>2. pwa[p].view \in View
  BY DEF TypeOK, PwaTypes
<1>3. QED
  BY <1>1, <1>2, ConcatProperties DEF Way

\* A frame of the daemon goes to the end of the way to every PWA.
LEMMA SendExtends ==
    ASSUME TypeOK, LinkQueues, NEW f \in HubFrame, HubSend(f),
           UNCHANGED <<link, toPwa>>
    PROVE  LinkQueues' /\ \A p \in Pwas : Way(p)' = Append(Way(p), f)
<1>1. CASE link = "up"
  <2>1. toHub' = Append(toHub, f) /\ queued' = <<>> /\ queued = <<>> /\ link' = "up"
    BY <1>1 DEF HubSend, LinkQueues
  <2>2. LinkQueues'
    BY <2>1 DEF LinkQueues
  <2>3. ASSUME NEW p \in Pwas
        PROVE  Way(p)' = Append(Way(p), f)
    <3>1. toHub \in Seq(HubFrame) /\ Append(toHub, f) \in Seq(HubFrame)
          /\ toPwa[p] \in Seq(HubFrame)
      BY Ways, AppendProperties
    <3>2. Way(p)' = toPwa[p] \o (Append(toHub, f) \o <<>>)
      BY <2>1 DEF Way
    <3>3. Way(p)' = toPwa[p] \o Append(toHub, f)
      BY <3>1, <3>2, ConcatEmptySeq
    <3>4. Way(p) = toPwa[p] \o (toHub \o <<>>)
      BY <2>1 DEF Way
    <3>5. Way(p) = toPwa[p] \o toHub
      BY <3>1, <3>4, ConcatEmptySeq
    <3> DEFINE a == toPwa[p]
    <3>6. a \in Seq(HubFrame)
      BY <3>1
    <3> HIDE DEF a
    <3>7. a \o Append(toHub, f) = Append(a \o toHub, f)
      BY <3>1, <3>6, ConcatAppend
    <3>8. QED
      BY <3>3, <3>5, <3>7 DEF a
  <2>4. QED
    BY <2>2, <2>3
<1>2. CASE link # "up"
  <2>1. queued' = Append(queued, f) /\ toHub' = toHub /\ link' # "up"
    BY <1>2 DEF HubSend
  <2>2. LinkQueues'
    BY <2>1 DEF LinkQueues
  <2>3. ASSUME NEW p \in Pwas
        PROVE  Way(p)' = Append(Way(p), f)
    <3>1. Way(p)' = toPwa[p] \o (toHub \o Append(queued, f))
      BY <2>1 DEF Way
    <3>2. /\ toPwa[p] \in Seq(HubFrame) /\ toHub \in Seq(HubFrame)
          /\ queued \in Seq(HubFrame) /\ toHub \o queued \in Seq(HubFrame)
      BY Ways
    <3>3. toHub \o Append(queued, f) = Append(toHub \o queued, f)
      BY <3>2, ConcatAppend
    <3> DEFINE a == toPwa[p]
               q == toHub \o queued
    <3>4. a \in Seq(HubFrame) /\ q \in Seq(HubFrame)
      BY <3>2
    <3> HIDE DEF a, q
    <3>5. a \o Append(q, f) = Append(a \o q, f)
      BY <3>4, ConcatAppend
    <3>6. QED
      BY <3>1, <3>3, <3>5 DEF Way, a, q
  <2>4. QED
    BY <2>2, <2>3
<1>3. QED
  BY <1>1, <1>2

\* What was missed stays missed, and a fault of these kinds makes one miss.
LEMMA MissedStays ==
    ASSUME TypeOK, NEW e \in Events, Spend(e)
    PROVE  /\ NothingMissed' => NothingMissed
           /\ e \in {"loss", "restart", "away"} => ~ NothingMissed'
<1>1. spent \in [Events -> Nat] /\ spent' = [spent EXCEPT ![e] = @ + 1]
  BY DEF TypeOK, Spend
<1>2. {"loss", "restart", "away"} \subseteq Events
  BY DEF Events
<1>3. \A x \in Events : spent'[x] = IF x = e THEN spent[x] + 1 ELSE spent[x]
  BY <1>1
<1>4. \A x \in Events : spent'[x] = 0 => spent[x] = 0 /\ x # e
  BY <1>1, <1>3
<1>5. QED
  BY <1>2, <1>4 DEF NothingMissed

\* Nothing changes of what the PWAs have before them.
LEMMA CardsUntouched ==
    ASSUME CardsFollow, NothingMissed' => NothingMissed, UNCHANGED db,
           \A p \in Pwas : /\ pwa[p].online => pwa'[p].online
                           /\ pwa'[p].view.pending = pwa[p].view.pending
                           /\ Way(p)' = Way(p)
    PROVE  CardsFollow'
BY DEF CardsFollow

\* The same, where not even the queues change.
LEMMA CardsIdle ==
    ASSUME TypeOK, LinkQueues, CardsFollow,
           UNCHANGED <<db, link, queued, toHub, toPwa, pwa>>,
           UNCHANGED spent \/ \E e \in Events : Spend(e)
    PROVE  LinkQueues' /\ CardsFollow'
<1>1. NothingMissed' => NothingMissed
  BY MissedStays DEF NothingMissed
<1>2. QED
  BY <1>1, CardsUntouched DEF LinkQueues, Way

\* What a frame at the end of every way changes of what the PWAs will show.
LEMMA CardsExtended ==
    ASSUME TypeOK, NEW f \in HubFrame, NEW p \in Pwas, Way(p)' = Append(Way(p), f),
           NEW r \in Requests
    PROVE  /\ ~ About(f, r) => (WillShow(pwa[p].view.pending, Way(p)', r) <=>
                                WillShow(pwa[p].view.pending, Way(p), r))
           /\ Asks(f, r) => WillShow(pwa[p].view.pending, Way(p)', r)
           /\ About(f, r) /\ ~ Asks(f, r) =>
                 ~ WillShow(pwa[p].view.pending, Way(p)', r)
<1> DEFINE q == Way(p)
           cards == pwa[p].view.pending
<1>1. q \in Seq(HubFrame) /\ Way(p)' = Append(q, f)
  BY Ways
<1> HIDE DEF q, cards
<1>2. /\ ~ About(f, r) => (WillShow(cards, Append(q, f), r) <=> WillShow(cards, q, r))
      /\ Asks(f, r) => WillShow(cards, Append(q, f), r)
      /\ About(f, r) /\ ~ Asks(f, r) => ~ WillShow(cards, Append(q, f), r)
  BY <1>1, WillShowAppend
<1>3. QED
  BY <1>1, <1>2 DEF q, cards

LEMMA DaemonCards ==
    ASSUME TypeOK, AskedOnce, LinkQueues, CardsFollow, NEW s \in Sessions,
           OnRegister(s) \/ OnBye(s) \/ OnPermissionRequest(s) \/ OnChatOut(s)
    PROVE  LinkQueues' /\ CardsFollow'
<1>1. UNCHANGED <<link, toPwa, pwa, spent>> /\ (NothingMissed' <=> NothingMissed)
  BY DEF OnRegister, OnBye, OnPermissionRequest, OnChatOut, linkVars, pwaVars,
     NothingMissed
<1>2. CASE OnRegister(s) \/ OnBye(s)
  BY <1>1, <1>2, CardsIdle DEF OnRegister, OnBye, linkVars
<1>3. CASE OnChatOut(s)
  <2>1. Bare("chat_out") \in HubFrame /\ \A r : ~ About(Bare("chat_out"), r)
    BY DEF Bare, HubFrame, About
  <2>2. LinkQueues' /\ \A p \in Pwas : Way(p)' = Append(Way(p), Bare("chat_out"))
    BY <1>1, <1>3, <2>1, SendExtends DEF OnChatOut
  <2>3. UNCHANGED db
    BY <1>3 DEF OnChatOut
  <2>4. \A p \in Pwas, r \in Requests :
            WillShow(pwa[p].view.pending, Way(p)', r) <=>
            WillShow(pwa[p].view.pending, Way(p), r)
    BY <2>1, <2>2, CardsExtended
  <2>5. QED
    BY <1>1, <2>2, <2>3, <2>4 DEF CardsFollow
<1>4. CASE OnPermissionRequest(s)
  <2> DEFINE f == Head(toDaemon[s])
             r == f.id
  <2>1. CASE s \notin Live
    BY <1>1, <1>4, <2>1, CardsIdle DEF OnPermissionRequest
  <2>2. CASE s \in Live
    <3>1. /\ toDaemon[s] # <<>> /\ toDaemon[s] \in Seq(DaemonFrame)
          /\ f.type = "permission_request"
          /\ db' = [db EXCEPT ![r] = IF @ = "none" THEN "open" ELSE @]
          /\ HubSend(Request(r))
      BY <1>4, <2>2 DEF OnPermissionRequest, Receive, TypeOK, SocketTypes
    <3>2. r \in Requests /\ Asks(f, r)
      <4>1. f \in DaemonFrame
        BY <3>1
      <4>2. QED
        BY <3>1, <4>1 DEF DaemonFrame, Asks
    <3>3. db[r] = "none"
      BY <3>1, <3>2, FreshTail DEF AskedOnce
    <3> HIDE DEF f, r
    <3>4. /\ db'[r] = "open"
          /\ \A t \in Requests : t # r => db'[t] = db[t]
      BY <3>1, <3>2, <3>3 DEF TypeOK, DaemonTypes
    <3>5. /\ Request(r) \in HubFrame /\ Asks(Request(r), r)
          /\ \A t : t # r => ~ About(Request(r), t)
      BY <3>2 DEF Request, HubFrame, Asks, About
    <3>6. LinkQueues' /\ \A p \in Pwas : Way(p)' = Append(Way(p), Request(r))
      BY <1>1, <3>1, <3>5, SendExtends
    <3>7. \A p \in Pwas : /\ WillShow(pwa[p].view.pending, Way(p)', r)
                          /\ \A t \in Requests : t # r =>
                                (WillShow(pwa[p].view.pending, Way(p)', t) <=>
                                 WillShow(pwa[p].view.pending, Way(p), t))
      BY <3>2, <3>5, <3>6, CardsExtended
    <3>8. QED
      BY <1>1, <3>4, <3>6, <3>7 DEF CardsFollow
  <2>3. QED
    BY <2>1, <2>2
<1>5. QED
  BY <1>2, <1>3, <1>4

LEMMA ReplyCards ==
    ASSUME TypeOK, LinkQueues, CardsFollow, OnPermissionReply
    PROVE  LinkQueues' /\ CardsFollow'
<1>1. UNCHANGED <<link, toPwa, pwa, spent>> /\ (NothingMissed' <=> NothingMissed)
  BY DEF OnPermissionReply, pwaVars, NothingMissed
<1>2. CASE UNCHANGED <<db, queued, toHub>>
  BY <1>1, <1>2, CardsIdle
<1>3. ASSUME NEW r \in Requests, NEW d \in Decisions, db[r] = "open",
             db' = [db EXCEPT ![r] = d], HubSend(Resolved(r, d))
      PROVE  LinkQueues' /\ CardsFollow'
  <2>1. /\ db'[r] # "open"
        /\ \A t \in Requests : t # r => db'[t] = db[t]
    BY <1>3 DEF TypeOK, DaemonTypes, Decisions
  <2>2. /\ Resolved(r, d) \in HubFrame
        /\ About(Resolved(r, d), r) /\ ~ Asks(Resolved(r, d), r)
        /\ \A t : t # r => ~ About(Resolved(r, d), t)
    BY DEF Resolved, HubFrame, Asks, About
  <2>3. LinkQueues' /\ \A p \in Pwas : Way(p)' = Append(Way(p), Resolved(r, d))
    BY <1>1, <1>3, <2>2, SendExtends
  <2>4. \A p \in Pwas : /\ ~ WillShow(pwa[p].view.pending, Way(p)', r)
                        /\ \A t \in Requests : t # r =>
                              (WillShow(pwa[p].view.pending, Way(p)', t) <=>
                               WillShow(pwa[p].view.pending, Way(p), t))
    BY <2>2, <2>3, CardsExtended
  <2>5. QED
    BY <1>1, <2>1, <2>3, <2>4 DEF CardsFollow
<1>4. QED
  BY <1>2, <1>3, ReplySteps

LEMMA LinkCards ==
    ASSUME TypeOK, LinkQueues, CardsFollow,
           DaemonRestart \/ LinkUp \/ LinkDown \/ HubForward
    PROVE  LinkQueues' /\ CardsFollow'
<1>1. CASE DaemonRestart
  <2>1. link' = "down" /\ toHub' = <<>> /\ ~ NothingMissed'
    BY <1>1, MissedStays DEF DaemonRestart, Events
  <2>2. QED
    BY <2>1 DEF LinkQueues, CardsFollow
<1>2. CASE LinkUp
  <2>1. /\ link' = "up" /\ toHub = <<>> /\ toHub' = queued /\ queued' = <<>>
        /\ UNCHANGED <<db, toPwa, pwa, spent>>
    BY <1>2 DEF LinkUp, LinkQueues, pwaVars
  <2>2. \A p \in Pwas : Way(p)' = Way(p)
    <3>1. \A p \in Pwas : queued \o <<>> = queued /\ <<>> \o queued = queued
      BY Ways, ConcatEmptySeq
    <3>2. QED
      BY <2>1, <3>1 DEF Way
  <2>3. QED
    BY <2>1, <2>2, CardsUntouched DEF LinkQueues, NothingMissed
<1>3. CASE LinkDown
  <2>1. link' = "down" /\ toHub' = <<>> /\ UNCHANGED <<db, queued, toPwa, pwa>>
    BY <1>3 DEF LinkDown, pwaVars
  <2>2. CASE toHub = <<>>
    BY <1>3, <2>1, <2>2, MissedStays, CardsUntouched
       DEF LinkDown, LinkQueues, Way, Events
  <2>3. CASE toHub # <<>>
    <3>1. ~ NothingMissed'
      BY <1>3, <2>3, MissedStays DEF LinkDown, Events
    <3>2. QED
      BY <2>1, <3>1 DEF LinkQueues, CardsFollow
  <2>4. QED
    BY <2>2, <2>3
<1>4. CASE HubForward
  <2>1. /\ toHub # <<>> /\ toHub' = Tail(toHub)
        /\ toPwa' = [p \in Pwas |-> IF pwa[p].online THEN Append(toPwa[p], Head(toHub))
                                    ELSE toPwa[p]]
        /\ UNCHANGED <<db, link, queued, pwa, spent>>
    BY <1>4 DEF HubForward
  <2>2. link # "down" /\ LinkQueues'
    BY <2>1 DEF LinkQueues
  <2>3. ASSUME NothingMissed, NEW p \in Pwas
        PROVE  Way(p)' = Way(p)
    <3>1. toPwa'[p] = Append(toPwa[p], Head(toHub))
      BY <2>1, <2>3 DEF CardsFollow
    <3>2. Way(p)' = Append(toPwa[p], Head(toHub)) \o (Tail(toHub) \o queued)
      BY <2>1, <3>1 DEF Way
    <3>3. Append(toPwa[p], Head(toHub)) \o (Tail(toHub) \o queued)
             = toPwa[p] \o (toHub \o queued)
      <4> DEFINE a == toPwa[p]
                 b == toHub
                 c == queued
      <4>1. /\ a \in Seq(HubFrame) /\ b \in Seq(HubFrame) /\ c \in Seq(HubFrame)
            /\ b # <<>>
        BY <2>1, Ways
      <4> HIDE DEF a, b, c
      <4>2. Append(a, Head(b)) \o (Tail(b) \o c) = a \o (b \o c)
        BY <4>1, ConcatMove
      <4>3. QED
        BY <4>2 DEF a, b, c
    <3>4. QED
      BY <3>2, <3>3 DEF Way
  <2>4. NothingMissed' <=> NothingMissed
    BY <2>1 DEF NothingMissed
  <2>5. QED
    BY <2>1, <2>2, <2>3, <2>4, CardsUntouched DEF CardsFollow
<1>5. QED
  BY <1>1, <1>2, <1>3, <1>4

LEMMA PwaCards ==
    ASSUME TypeOK, LinkQueues, CardsFollow, NEW p \in Pwas,
           \/ PwaReceive(p) \/ PwaOffline(p) \/ PwaOnline(p)
           \/ \E r \in Requests : \/ CommandTimeout(p, r)
                                 \/ \E d \in Decisions : SendPermissionReply(p, r, d)
    PROVE  LinkQueues' /\ CardsFollow'
<1>1. UNCHANGED <<db, link, queued, toHub>>
  BY DEF PwaReceive, PwaOffline, PwaOnline, CommandTimeout, SendPermissionReply,
     linkVars
<1>2. LinkQueues'
  BY <1>1 DEF LinkQueues
<1>3. /\ pwa \in [Pwas -> [online : BOOLEAN, view : View]]
      /\ toPwa \in [Pwas -> Seq(HubFrame)]
  BY DEF TypeOK, PwaTypes
<1>4. CASE PwaReceive(p)
  <2> DEFINE f == Head(toPwa[p])
             next == Reduce(pwa[p].view, f)
  <2>1. /\ toPwa[p] # <<>> /\ toPwa' = [toPwa EXCEPT ![p] = Tail(toPwa[p])]
        /\ pwa' = [pwa EXCEPT ![p].view = next]
        /\ NothingMissed' <=> NothingMissed
    BY <1>4 DEF PwaReceive, NothingMissed
  <2>2. /\ Way(p) # <<>> /\ Head(Way(p)) = f /\ Way(p)' = Tail(Way(p))
        /\ \A q \in Pwas : q # p => Way(q)' = Way(q)
    <3>1. /\ Way(p) # <<>> /\ Head(Way(p)) = f
          /\ Tail(Way(p)) = Tail(toPwa[p]) \o (toHub \o queued)
      BY <2>1, Ways, ConcatFront DEF Way
    <3>2. \A q \in Pwas : toPwa'[q] = IF q = p THEN Tail(toPwa[p]) ELSE toPwa[q]
      BY <1>3, <2>1
    <3>3. QED
      BY <1>1, <3>1, <3>2 DEF Way
  <2>3. \A r \in Requests : WillShow(next.pending, Way(p)', r) <=>
                            WillShow(pwa[p].view.pending, Way(p), r)
    BY <2>2, Ways, WillShowTail
  <2> HIDE DEF next
  <2>4. /\ \A q \in Pwas : pwa'[q].online = pwa[q].online
        /\ pwa'[p].view = next /\ \A q \in Pwas : q # p => pwa'[q] = pwa[q]
    BY <1>3, <2>1
  <2>5. QED
    BY <1>1, <1>2, <2>1, <2>2, <2>3, <2>4 DEF CardsFollow
<1>5. CASE PwaOffline(p)
  BY <1>2, <1>5, MissedStays DEF PwaOffline, Events, CardsFollow
<1>6. CASE PwaOnline(p)
  BY <1>2, <1>6 DEF PwaOnline, CardsFollow, NothingMissed
<1>7. ASSUME NEW sent, pwa' = [pwa EXCEPT ![p].view.sent = sent], UNCHANGED toPwa,
             NothingMissed' => NothingMissed
      PROVE  CardsFollow'
  <2>1. \A q \in Pwas : /\ pwa'[q].online = pwa[q].online
                        /\ pwa'[q].view.pending = pwa[q].view.pending
    BY <1>3, <1>7 DEF View
  <2>2. QED
    BY <1>1, <1>7, <2>1, CardsUntouched DEF Way
<1>8. ASSUME NEW r \in Requests, CommandTimeout(p, r)
      PROVE  CardsFollow'
  BY <1>7, <1>8, MissedStays DEF CommandTimeout, Events
<1>9. ASSUME NEW r \in Requests, NEW d \in Decisions, SendPermissionReply(p, r, d)
      PROVE  CardsFollow'
  BY <1>7, <1>9 DEF SendPermissionReply, NothingMissed
<1>10. QED
  BY <1>2, <1>4, <1>5, <1>6, <1>8, <1>9

LEMMA CardsKept ==
    ASSUME TypeOK, AskedOnce, LinkQueues, CardsFollow, [Next]_vars
    PROVE  LinkQueues' /\ CardsFollow'
<1>1. ASSUME NEW s \in Sessions,
             \/ Start(s) \/ Reconnect(s) \/ ReplyTool(s) \/ PluginData(s)
             \/ Goodbye(s) \/ Drop(s) \/ Exit(s)
      PROVE  LinkQueues' /\ CardsFollow'
  <2>1. UNCHANGED <<db, linkVars, pwaVars>>
    BY <1>1 DEF Start, Reconnect, Connect, ReplyTool, PluginData, Goodbye, Drop,
       Exit, SocketClosed
  <2>2. UNCHANGED spent \/ \E e \in Events : Spend(e)
    BY <1>1 DEF Start, Reconnect, Connect, ReplyTool, PluginData, Goodbye, Drop,
       Exit, SocketClosed, Events
  <2>3. QED
    BY <2>1, <2>2, CardsIdle DEF linkVars, pwaVars
<1>2. ASSUME NEW r \in Requests, Ask(r) \/ \E d \in Decisions : AnswerAtTerminal(r, d)
      PROVE  LinkQueues' /\ CardsFollow'
  BY <1>2, CardsIdle DEF Ask, AnswerAtTerminal, linkVars, pwaVars, Events
<1>3. CASE UNCHANGED vars
  BY <1>3, CardsIdle DEF vars
<1>4. QED
  BY <1>1, <1>2, <1>3, DaemonCards, ReplyCards, LinkCards, PwaCards DEF Next

\* A PWA that nothing about r is on its way to.
LEMMA NothingOnTheWay ==
    ASSUME TypeOK, NEW p \in Pwas, NEW r \in Requests, ~ InFlight(p, r)
    PROVE  \A i \in 1..Len(Way(p)) : ~ About(Way(p)[i], r)
<1> DEFINE a == toPwa[p]
           b == toHub
           c == queued
<1>1. \A q \in {a, b, c} : \A i \in 1..Len(q) : ~ About(q[i], r)
  BY DEF InFlight, About
<1>2. a \in Seq(HubFrame) /\ b \in Seq(HubFrame) /\ c \in Seq(HubFrame)
  BY Ways
<1> HIDE DEF a, b, c
<1>3. ASSUME NEW q \in Seq(HubFrame), NEW t \in Seq(HubFrame),
             \A i \in 1..Len(q) : ~ About(q[i], r),
             \A i \in 1..Len(t) : ~ About(t[i], r)
      PROVE  \A i \in 1..Len(q \o t) : ~ About((q \o t)[i], r)
  <2>1. /\ Len(q) \in Nat /\ Len(t) \in Nat
        /\ Len(q \o t) = Len(q) + Len(t)
        /\ \A i \in 1..(Len(q) + Len(t)) :
              (q \o t)[i] = IF i <= Len(q) THEN q[i] ELSE t[i - Len(q)]
    BY ConcatProperties
  <2>2. \A i \in 1..(Len(q) + Len(t)) :
            i \in 1..Len(q) \/ (~ i <= Len(q) /\ i - Len(q) \in 1..Len(t))
    BY <2>1
  <2>3. QED
    BY <1>3, <2>1, <2>2
<1>4. \A i \in 1..Len(b \o c) : ~ About((b \o c)[i], r)
  BY <1>1, <1>2, <1>3
<1>5. b \o c \in Seq(HubFrame)
  BY <1>2, ConcatProperties
<1>6. \A i \in 1..Len(a \o (b \o c)) : ~ About((a \o (b \o c))[i], r)
  BY <1>1, <1>2, <1>3, <1>4, <1>5
<1>7. QED
  BY <1>6 DEF Way, a, b, c

\* As long as no frame is lost, every PWA shows the open requests and no other,
\* but for those a frame about is on its way to it.
THEOREM CardsCorrect == Spec => []CardsAreOpen
<1>1. Init => LinkQueues /\ CardsFollow
  <2> SUFFICES ASSUME Init PROVE LinkQueues /\ CardsFollow
    OBVIOUS
  <2>1. LinkQueues
    BY DEF Init, LinkQueues
  <2>2. ASSUME NEW p \in Pwas, NEW r \in Requests
        PROVE  /\ pwa[p].online
               /\ WillShow(pwa[p].view.pending, Way(p), r) <=> db[r] = "open"
    <3>1. Way(p) = <<>> \o (<<>> \o <<>>)
      BY DEF Way, Init
    <3>2. Way(p) = <<>>
      BY <3>1, EmptyFrames, ConcatEmptySeq
    <3>3. pwa[p].online /\ pwa[p].view.pending = {} /\ db[r] = "none"
      BY DEF Init, NoView
    <3>4. QED
      BY <3>2, <3>3 DEF WillShow
  <2>3. \A p \in Pwas : pwa[p].online
    BY DEF Init
  <2>4. QED
    BY <2>1, <2>2, <2>3 DEF CardsFollow
<1>2. ASSUME TypeOK, CardsFollow
      PROVE  CardsAreOpen
  <2>1. ASSUME NothingMissed, NEW p \in Pwas, NEW r \in Requests, ~ InFlight(p, r)
        PROVE  r \in pwa[p].view.pending <=> db[r] = "open"
    <3>1. \A i \in 1..Len(Way(p)) : ~ About(Way(p)[i], r)
      BY <1>2, <2>1, NothingOnTheWay
    <3>2. WillShow(pwa[p].view.pending, Way(p), r) <=> r \in pwa[p].view.pending
      BY <3>1 DEF WillShow, Asks, About
    <3>3. QED
      BY <1>2, <2>1, <3>2 DEF CardsFollow
  <2>2. QED
    BY <1>2, <2>1 DEF CardsAreOpen, OpenIsShown, ShownIsOpen
<1>3. QED
  BY <1>1, <1>2, CardsKept, AskedOnceInvariant, TypeCorrect, PTL DEF Spec
=============================================================================
