# open-cc-remote: specifications and proofs

open-cc-remote lets a person follow and steer Claude Code sessions from a phone.
This directory holds TLA+ models of its protocol code, the TLC runs that check
them on small instances, and TLAPS proofs of what matters most for every
instance. `PROJECT.json` maps each definition to the lines it stands for.

## 1. The system

```
Claude Code  --MCP stdio--  plugin  --unix socket--  daemon  --WebSocket--  hub  --WebSocket--  PWA(s)
     \--log file (JSONL)-------------------------------/            HTTP --/------------------/
```

One plugin process runs per Claude session, one daemon per machine, one hub for
everybody; a person has several PWAs (devices, tabs). All of the processes are
single-threaded event loops: what interleaves is handlers, and the order of
handlers is the order in which frames, timers and promises arrive. Every channel
is FIFO; connections break, and what is in flight breaks with them. HTTP requests
and the daemon's asynchronous file reads are not FIFO: they overtake each other.

| Component | Source (packages/) | State | Operations | What makes it correct |
|---|---|---|---|---|
| session status machine | daemon/src/session-fsm.ts | state, stash and pending count per session | register, remove, line, idle timer, permission request / resolved | waiting exactly while requests are pending; what is shown is the state |
| permission relay | plugin/src/permission.ts, daemon/src/index.ts, repos/permissions.ts, hub/src/router.ts, pwa useHub.ts | audit table, requestToClient, cards | ask, record, show, answer, resolve, deliver | one decision for everybody, cards are the open requests, requests and decisions arrive |
| ask-user-question relay | plugin/src/tools.ts, daemon/src/index.ts, hub/src/router.ts, useHub.ts | askToClient with timers, pendingAskQuestions, cards | ask, expire, answer, replay | a question ends once; the hook is answered |
| hub link and session list | daemon/src/hub-client.ts, hub/src/connections.ts, routes.ts, router.ts | socket, send queue, registry of daemons, sessions per daemon | connect, hello and replays, evict, watchdog, close | one connection per daemon; the PWA shows the daemon's list |
| live sessions, plugin connection | daemon/src/registry.ts, socket-server.ts, plugin/src/daemon-client.ts | client <-> session maps, queue of awaited acks | register, bye, close, send, reconnect | no session outlives its plugin's connection |
| wire codec | proto/src/codec.ts | a buffer | push, drain | frames survive any cut |
| JSONL binding, watching, history | daemon/src/jsonl-*.ts, rebind-arming.ts, index.ts | watchers, offsets, arming | bind, drain, rebind, history | no hole in the timeline, no watcher of a session that is not bound |
| AG-UI events, timeline | proto/src/ag-ui, pwa useSessionTimeline.ts, buildTimeline.ts | buffers, items | adapt, merge, group | independent of the order of arrival |
| unread counts | pwa useLastSeen.ts, SessionView.tsx | anchors, localStorage | mark, flush, enter, scroll | nothing unseen is marked, nothing seen is unmarked |
| session start | daemon/src/start-session.ts, pending-starts.ts, process-registry.ts | pending starts, registry file | start, dismiss dialogs, match, reconcile, kill | one confirmation per start, the file has what tmux holds |
| PWA commands and connection | pwa useHub.ts, commands | pending commands with timers, epochs of sockets | send, time out, settle, retry, reconnect, sign out | one entry and timer per scope; what a confirmed command asks for has come about |
| accounts | hub/src/pair.ts, auth/*, routes.ts, daemon/bin/cc-remote.ts | codes, daemons, tokens, files of the machine | init, pair, refresh, rotate, revoke, dial | a code pairs once; a daemon that is online when it is revoked is cut off |
| hub front | hub/src/proxy.ts, rate-limit.ts | hit windows | resolve, check, collect | the limit of a window is exact; headers count from trusted proxies only |
| push | hub/src/push*.ts, dnd.ts, ias.ts, devices.ts, pwa usePushTopics.ts, sw.js | topics, quiet hours, subscriptions, tray | sign in, subscribe, set, dispatch, revoke | who is pushed to is who the settings page says |
| daemon drawer | pwa useDaemons.ts, usePairing.ts, SettingsDrawer.tsx | rows, loads, code box | poll, rename, revoke, issue | names agree, the code shown is the last one |
| directory listing, text fields | daemon/src/fs-list.ts, pwa useFsList.ts, MentionAutocomplete.tsx, SlashMenu.tsx, PathAutocomplete.tsx | requests, caches, roots | ask, answer, complete, pick | a field shows the directory it completes |
| slash inventory, agent probe | daemon/src/slash-inventory.ts, agent-probe.ts | caches | scan, probe | nothing unreadable hides what can be read |
| receipts | pwa cards, insertWithLru | bounded caches | remember, resolve, draw | a receipt shows what was asked and answered here |
| round trips | daemon/src/otel.ts, observability/session-map.ts | map of open spans | open, join, end, sweep | every root ends once |
| installation | daemon/src/installer.ts, login-shell.ts, mcp-config.ts, config.ts | unit, configuration files | init, pair, install, uninstall | no edit of the user is lost; uninstall leaves nothing |

What is hard here:

* a socket that closes and a session that registers again under the same id;
* answers that race (several PWAs, retries after a timeout, deadlines, the
  terminal), and answers that arrive after the asker has gone;
* frames lost with a link, sent while there is none, or replayed when it is back;
* state read before an await and used after it: binding, scanning, verifying a
  daemon, pairing, listing a directory, the registry file;
* requests that are matched with their answers by something that is not unique:
  acks by order, starts by directory, events by offset, permissions by a count;
* optimistic state in the browser against loads that overtake the save;
* logs that rotate, and lines and pages of them that arrive in any order.

`PROJECT.json` lists these hazards at their lines, with the properties that
cover them.

## 2. Modules

| Module | Models | Run |
|---|---|---|
| `SessionStatus` | abstract: the status shown is a function of the last activity and the unanswered requests | `session_fsm` |
| `SessionFsm`, `Session_proofs` | the session machine and its listeners; implements `SessionStatus` | `session_fsm` |
| `FirstAnswer` | abstract: a recorded request is decided once, by the first answer, and heard of at most once | `relay`, `ask_relay` |
| `PermissionRelay`, `..._proofs` | plugin, daemon, hub and PWAs as far as permission requests go through them, calling the operators of `SessionFsm`; implements `FirstAnswer` | `relay` |
| `HubLink`, `..._proofs` | connections of daemon, hub and PWAs with the session list they carry | `hub_link` |
| `AskRelay`, `..._proofs` | questions, their deadline, the hook's socket, the hub's replay; implements `FirstAnswer` | `ask_relay` |
| `Receipts` | what is drawn of requests and questions that are over; its proofs are in `AskRelay_proofs` | `ask_relay` |
| `EventPath`, `Session_proofs` | a line from Claude's log to the timeline: bind, tail, rebind, history, merge | `event_path` |
| `Framing`, `Timeline`, `RoundTrips` | the codec and drain(); rows to events to items; spans | `event_path` |
| `PwaCommands`, `..._proofs` | pending commands of a PWA, its socket, and the way of a command to the daemon and back | `pwa_commands` |
| `SessionStart`, `Session_proofs` | start_session, tmux, the dialogs, pending starts, the registry file, kill | `session_start` |
| `Accounts`, `..._proofs` | pairing, tokens, the cc-remote commands and their files, dialling | `accounts` |
| `Edge`, `Setup` | proxies and rate limiter; installing and uninstalling; their proofs are in `Accounts_proofs` | `accounts` |
| `FsListing`, `Screens_proofs` | directory listings from a field to readdir and back | `fs_listing` |
| `FsRoots`, `Composer`, `AgentProbe`, `SlashInventory`, `Screens_proofs` | what is listed; the text fields; the probe of `claude`; the scan for commands | `fs_listing` |
| `PushSettings`, `Accounts_proofs` | sign-in, devices, subscriptions, settings, the choice of targets | `push_settings` |
| `Notices`, `Accounts_proofs` | payloads, delivery and the tray of a device | `push_settings` |
| `DaemonList`, `Screens_proofs` | the settings drawer over the hub's tables, pairing codes | `daemon_list` |
| `ReadMarks`, `Screens_proofs` | anchors of what was read, their storage, entering and scrolling | `read_marks` |
| `ListOps` | putting sequences together, and what a sort leaves | |
| `Folding` | lemmas: induction, folds over sequences of any length, arithmetic of lengths | |
| `MC...` | the instances of these modules that TLC checks | |

Every variable is commented where it is declared and mapped to its lines. The
modules without variables (`Receipts`, `Framing`, `Timeline`, `RoundTrips`,
`Edge`, `Setup`, `FsRoots`, `Composer`, `AgentProbe`, `SlashInventory`,
`Notices`) hold pure algorithms, or components driven by one caller whose calls
are enumerated as bounded histories. Each defines the set of inputs, within its bounds,
on which the algorithm and a reference definition disagree; the run states that
this set is empty, by a formula without variables (`Init => ... = {}`) that TLC evaluates
in the initial states.

One proofs module may extend several components. So that their names do not meet, the
definitions of `DaemonList`, `ReadMarks`, `EventPath`, `SessionStart` and `PushSettings` that
every module has (`Init`, `Next`, `Spec`, `vars`, the types) carry a prefix: `Drawer`, `Marks`,
`Path`, `Start`, `Push`.

Who composes what: `PermissionRelay` uses the status machine by
`Fsm == INSTANCE SessionFsm`, and its handlers call `Fsm!OnPermissionRequest` and
the others as `daemon/src/index.ts` calls the methods. `HubLink` takes the session
list as something plugins change and looks at how it gets to the PWAs;
`PermissionRelay`, `AskRelay` and `PwaCommands` have a simpler link (cut at both ends at
once, frames lost) and look at what travels on it. `EventPath` takes what
`Framing` and `Timeline` check of a line and of a row as given and looks at the order of lines and
pages. `FsListing` takes what `FsRoots` checks as a function `Real` and a set `Allowed`,
and `Composer` takes what `FsListing` shows.

### 2.1 SessionFsm and SessionStatus

`entries` is the Map of `SessionFsm`; `shown` and `run` are what the two listeners
of `index.ts` make visible: the state in the snapshot and in the last
`session_state` frame, and whether a `RUN_STARTED` is open. Each method is an
action. `OnJsonlLine` and `OnIdleTimer` share `Activity`: while a permission wait
is on they change the stashed state only. `EntryFor` is the lazy registration in
`onPermissionRequest`. `SessionStatus` says what a reader of the state expects,
with neither stash nor counter.

### 2.2 PermissionRelay and FirstAnswer

| State | Code |
|---|---|
| `claude` | whether Claude asked, was answered, and by whom (external) |
| `plugin` | per session: process state, number of its connection, waiting `send()` calls (`acks`), whether start-up is over |
| `toDaemon`, `toPlugin` | bytes on the unix socket, as frames |
| `db` | the `permissions` table: no row, open, decided |
| `requestToClient` | the Map of that name, with the number of the connection in place of the Socket |
| `entries`, `shown`, `run` | the session machine |
| `link`, `queued`, `toHub`, `replies` | the ws of `hub-client.ts`, its array of unsent frames, frames under way in both directions |
| `toPwa`, `pwa` | per PWA: frames under way, online, cards (`pending`), answers waiting for their confirmation (`sent`), decisions seen (`told`) |

* The close of a unix socket is one step for both ends. What either end writes
  after the other has closed is lost, which is what losing the frames in flight
  says. The plugin waits at least a second before it connects again, so the
  daemon has handled the old close when the new `register` arrives.
* A session id is made by the plugin process and kept over its reconnections.
* A half-open hub link is a link that loses what is in flight when it goes down.
* The leg from PWA to hub is merged with the one from hub to daemon: the hub only
  passes a `permission_reply` on.
* A PWA keeps its reducer over a reconnection (the reducer is not reset).
* The first connection of a plugin is merged with its `register`, which is the
  first frame on it.
* The answer at the terminal is Claude's own and is external.

### 2.3 HubLink

| State | Code |
|---|---|
| `live` | `LiveSessions`: the sessions and the status in their snapshots |
| `inventory`, `scans` | the keys of `slashInventoryBySession`; scans that have not come back |
| `pending`, `conn` | `pending` and `ws` of `hub-client.ts`; `path` is whether the network still carries the connection |
| `open`, `registered` | WebSockets of this daemon the hub has open; the entry of `DaemonRegistry` |
| `cache` | the `DaemonState` of the router |
| `wire`, `toPwa` | frames under way on each connection, to each PWA |
| `pwa` | per PWA: its connection and its list (`daemons` of the reducer) |

A connection is open at the hub (`Dial`, with the eviction in `Add`) before the
daemon hears of it (`DaemonOpen`). A broken connection is noticed by the two ends
apart (`DaemonNotices`, `HubCloses`), each by a close event or its watchdog; in
between the daemon writes into nothing. `DaemonCloses` is the opposite case: the
daemon gives up on a connection that still delivers what it has sent.

`ServerWebSocket.close()` of the server runtime calls the close handler before
it returns. The order in `DaemonRegistry.add` depends on it: evict, then set.
This is the one assumption on the runtime, and `Add` is written with it. One
daemon is modelled: the router and the registry keep daemons apart by id and no
handler looks at two of them.

### 2.4 AskRelay

`hook` and `reply` are the process that asks and the socket of its own it waits on;
`askToClient` and `late` are the daemon's map with its timers; `cache` is
`pendingAskQuestions`. `ended` is a history variable: how the daemon ended a
question; `unheard` is another: the questions whose end a PWA will not be told, because the
hook went away, the daemon restarted, or the resolution was lost. An answer names who
gave it and the question whose options it was picked
from, because the surface of the PWA is reused for the next question. Link and
channels are those of 2.2.

### 2.5 EventPath

A file is its number of lines and the byte offset of the end of line n is n. `binds`
are calls of `bindJsonl` that wait for a file, `tails` and `watcher` the open
watchers and the one in the Map (`watchers.set` replaces without closing, so the two may
differ), `dirs` and `dirWatcher` the same for the directory, `armed` is
`rebindArming`. `clock` counts RUN events, whose offset is `-Date.now()`. `asked`
are requests for history; a page goes to every PWA, as `router.ts` sends it.
`Buffer` is `PER_SESSION_BUFFER`, with one event for a line.
The link to the hub is always up here.

### 2.6 PwaCommands

`cmds` and `timers` are `pendingCommands` and `timersRef`; `sock`, `connected`,
`got`, `frameless` and `stopped` are the socket with the counters of the effect that dials;
`decision` is the `decision` column of the daemon's table, `receipts` the PWA's
`permissionResolutions`; `done` is a history variable: the messages, starts, pages and
kills that were carried out. What a screen disables guards the action that screen would
start.

### 2.7 SessionStart

A process is a Claude Code with its plugin. `file` and `chain` are the registry file
and its promise chain, whose head has read the file and writes it in another step.
`loop` is `dismissClaudeDialogs` per tmux session, `pending` the queue of
`pending-starts.ts`, `killing` the `tmux kill-session` calls that run. `HasEnv` says
which processes tell the daemon their tmux session.

### 2.8 Accounts

`asks` holds HTTP requests; one that awaits a signature is there between two steps
with what it has read. `cli`, `disk` and `mem` are the command a machine runs, its
`config.json` and `state.json`, and what its daemon read at boot; `dial` and `link`
are a dial in `verifyDaemonAuth` and the registered connection, with what became of its
`hello`: the router knows a daemon from there on, and closes none it does not know.
`sub` is the id a token was signed for, which a refresh goes by. `lost` is a history
variable: tokens that nobody can have any more.

`Edge` lets the client send the `X-Forwarded-*` headers it likes, through proxies that
overwrite or append to each of them.

### 2.9 FsListing, DaemonList, PushSettings, ReadMarks

These are a browser hook each, with the hub's handlers behind it. Requests and
answers are records in a set and overtake each other. `FsListing`: `active` and `timer` are
the request that owns a field and its debounce, `listener` the callbacks of `useHub`,
`pending` the hub's map, `dir` the versions of directories on disk. `DaemonList`:
`loads` are reads of `/daemons` with the rows they come back with, `box`, `issuing` and `seen` the
state of `usePairing`. `PushSettings`: a request is "sent", "let_in" (authenticated,
the body still awaited) or answered; `shown` is what the settings page says, and
`doubtful` (history) the keys of it a failed or overtaken request has touched.
`ReadMarks`: `latest` is the ref a flush writes and `lastSeen` the state it trails;
`met`, `carried`, `overtaken` and `unanswered` are history. Its buffer has no limit: a mark looks at
the last event, and a full buffer drops the first.

## 3. Runs

Bounds are named: `Limit`, `MaxEvents` or `MaxIncidents` say how often each kind of event, or all
of them together, may happen in a behaviour, `MaxLost` how many frames a
breaking link takes along. Queues are as long as what these events put into them.

| Run | Instance (distinct states) | Invariants and properties |
|---|---|---|
| `session_fsm` | 2 sessions, 2 pending requests (441) | `FsmInv`, `ImplementsStatus` |
| `relay` | 1 request, 2 PWAs, each fault once, 2 of them in one behaviour (243 thousand) | `Agreement`, `NoPhantomWait`, `LiveIsConnected`, `CardsAreOpen`, `ImplementsDecision`, `RelayDelivers` |
| `hub_link` | a session that registers twice and changes once, 1 PWA, 3 events (736 thousand) | `RegistryIsExact`, `OfflineIsForgotten`, `ListsAddUp`, `Mirrored` |
| `ask_relay` | 1 question, 2 PWAs, 2 events, 2 frames lost at a cut (220 thousand) | `ToldIsEnd`, `CardsAreOpen`, `ReceiptsAreTrue`, `ImplementsDecision`, `HookIsAnswered` |
| `event_path` | 2 files, pages of 2, a buffer of 5, 3 lines, 2 events (778 thousand) | `TimelineIsWhole`, `RowsAreReadAndDrawn`, `NothingIsTakenAway`, `LastLineIsShown` |
| `pwa_commands` | 1 session, 1 request, 2 other commands, 1 event of any kind (1.3 million) | `CommandsAreTracked`, `ConfirmedIsDone`, `Reconnects` |
| `session_start` | 2 processes, 2 directories, 2 requests, 2 dialogs, 2 events (532 thousand) | `StartsAreTracked`, `StartsUnattended`, `KilledStaysDead` |
| `accounts` | 2 machines of one hostname, 2 ids, 1 code, 2 tokens, 2 faults, 3 commands (155 thousand) | `AccessIsExact`, `FrontIsExact`, `SetupIsWhole`, `LetInAtLast` |
| `fs_listing` | 2 fields, 3 paths of which one is `~`, 2 requests, 1 change, 1 loss (323 thousand) | `ListingsAreOwn`, `FieldsDescend`, `ReadsAreWhole`, `LoadingEnds` |
| `push_settings` | 2 devices, 2 topics, 1 sign-in, 3 acts, 1 failure, 5 minutes of a day (2.8 million) | `PushesAreWanted` |
| `daemon_list` | 2 daemons, 2 names, 2 loads, 3 events (405 thousand) | `DrawerIsTrue`, `DrawerCatchesUp` |
| `read_marks` | 2 sessions, pages of 2, 3 lines, 4 steps (146 thousand) | `MarksAreTrue`, `MarksCatchUp` |

Several of these are conjunctions of named parts, defined next to the property:

| Property | Parts, and what they say |
|---|---|
| `FsmInv` | types, `WaitingIffPending`, `ShownIsState` |
| `CardsAreOpen` (relay) | types, `OpenIsShown`, `ShownIsOpen`: a card for every open request that was not lost, and for no other |
| `RelayDelivers` | `AskIsShown`, `DecisionDelivered`: what no fault took away arrives |
| `ListsAddUp` | types, `QueueCompletes`, `InFlightCompletes`, `PwaFollows`: cache plus frames is the daemon's list, all the way to the PWA |
| `CardsAreOpen` (questions) | types, `OpenIsShown`, `ShownIsHeld`, `CachedIsHeld`: what can be answered is shown, what is shown is held or its end is on its way or was lost, what the hub offers newcomers is held |
| `ConfirmedIsDone` | one formula: a command is confirmed only when what it asks for has come about; a reply, when the request is decided and the user is shown that decision |
| `ReceiptsAreTrue` | `ReceiptsShowTheRequest`, `ReceiptsShowOwnAnswers`, `CommandsAreWhole` |
| `TimelineIsWhole` | types, `WholeWhenQuiet` (no hole), `BoundIsWatched`, `WorkingIsTimed`, `RebindsAreAskedFor` |
| `RowsAreReadAndDrawn` | `FramesSurviveCuts`, `DrainFindsWhatHistoryFinds`, `TimelineIgnoresArrival`, `CallsShownOnce`, `ThoughtsEnd`, `RootsEndOnce`, `LinesJoinOpenRoots` |
| `CommandsAreTracked` | types, `TimerIffPending`, `OneEntryPerScope`, `NeverStranded` |
| `StartsAreTracked` | types, `RecordedUntilGone`, `ConfirmedOnce`, `EnterMeetsDialog` |
| `AccessIsExact` | types, `CodePairsOnce`, `CurrentIsHeld`, `RevokedIsClosed`: no connection whose hello was handled outlives the revocation |
| `FrontIsExact` | `PrefixesMatch`, `HeadersAreWeighed`, `LimiterIsExact`, `BucketsAreForgotten` |
| `SetupIsWhole` | `EditsSurvive`, `InstallRunsWhatItWrote`, `UninstallLeavesNothing`, `NoSilentMisses`, `PathReadsBack` |
| `ListingsAreOwn` | types, `ShownIsOfParent`, `PendingIsConnected` |
| `FieldsDescend` | `MentionPickDescends`, `PathPickDescends`, `EnterPicksThenSends` |
| `ReadsAreWhole` | `NewerCanMore`, `NoHalfIsBelieved`, `ModeIsTheProjects`, `ListedIsUnderRoot`, `CapCutsTheLast`, `MetaIsTheFrontMatter`, `UnreadableHidesNothing` |
| `PushesAreWanted` | types, `OneDevicePerLogin`, `RevokedGetsNothing`, `ShownIsStored`, `PushAsShown`, `OneNoticeEach` |
| `DrawerIsTrue`, `DrawerCatchesUp` | types, `KnownNameIsStored`, `LastCodeIsShown`; `IssuingEnds`, `ListCatchesUp` |
| `MarksAreTrue`, `MarksCatchUp` | types, `SeenWasShown`, `SeenIsKept`; `BottomIsRead`, `EntryFills` |

**Why the bounds are enough.** A race for one request needs two answerers and
something that happens between them, which two PWAs and two events give. A second
fault of a kind finds the state the first has found, up to what is in flight.
Sessions share nothing in `PermissionRelay` and `HubLink` but the hub link, so one is
enough there; in `hub_link` it registers twice because the hazard of the send
queue is a session that goes and comes back during an outage. Things matched by
something that is not unique need two that look alike: two starts and two directories, two
machines of one hostname, two files of one session, two fields over one cache and
two loads under way. Two pages and one line more are what it takes for a page to overlap what is
there. The minutes of `push_settings` are the two boundaries of the quiet
hours, one on each side and midnight. What section 5 proves holds for
any constants.

**What two bounds keep out of `event_path`.** `LeaveEarly = FALSE`: a session does
not leave while its file is being looked for. `Crossing = FALSE`: a page of history asked for
before a page was opened anew does not reach it. In both cases the code does
something else than the properties say; section 6 tells what. A full buffer is reached
in the run, but `WholeWhenQuiet` and `LastLineIsShown` speak of buffers that are not full,
for the same reason.

**Deadlock** is checked in `session_fsm` only. In the other runs the events are
limited, and when the limits are spent or everybody has gone, nothing is left to do.

## 4. Fairness

Only what runs by itself is fair, and only weakly: handlers of frames and answers
(event loops take the next), timers, and dialling again. Nothing is assumed of
Claude, of people, of plugins registering or of faults; the liveness properties speak of
what follows when the faults, which are bounded, are over.

| Module | Fair actions | Why |
|---|---|---|
| `PermissionRelay` | data handlers of plugin, daemon, hub and PWA; `Exit` of a plugin that leaves; `LinkUp`, `PwaOnline` | a leaving plugin waits for its ack half a second at most, then exits; `hub-client.ts:62-69` retries for ever with a bounded delay |
| `HubLink` | `Dial`, `DaemonOpen`, `DaemonNotices`, `HubCloses`, handlers, the PWA's `PwaOpens` | both ends have watchdogs (`hub-client.ts:111-120`, `routes.ts:472-487`); a PWA gives up after three connections in a row without a frame (`useHub.ts:859-866`), which these bounds do not reach and `PwaCommands` models |
| `AskRelay` | `HookHears`, `Deadline`, `Expire`, `OnAnswer`, `LinkUp`, `HubReceive`, `PwaReceive` | the expiry is a timer of the daemon; the rest are handlers |
| `EventPath` | `OnLines`, `BindResolves`, `OnDirEvent`, `OnRequestHistory`, `OnFrame`, `OnIdle`, `PluginRegisters`, `PluginLearns`, `Enter` | watchers poll, the plugin reconnects for ever; `Enter` asks for the first page as an effect of the screen that is open |
| `PwaCommands` | dial, connect, refused, heartbeat and closed as one choice; `Online` | of these one is always due; which, the network decides |
| `SessionStart` | the steps of boot, the head of the chain, `Poll`, `PressEnter`, `ClaudeStarts`, `TmuxKills` | promises and processes that go on when nobody stops them |
| `Accounts` | `Dial`, `VerifyDaemonAuth`, `Accept` of each machine | `hub-client.ts` again, and the awaits of the hub |
| `FsListing` | `Handlers` | frames, the debounce timer, realpath and readdir |
| `DaemonList` | `Poll`, `Render`, `PairingTick`, answers | intervals, React and HTTP |
| `ReadMarks` | `MarkSeen`, `LatestFollows`, `TimerFlush`, `HistoryChunk` | effects, the debounce timer and answers |

`SessionFsm` and `PushSettings` are checked for safety only.

## 5. Proofs

All hold for any values of the constants, from their named assumptions alone, but
for one theorem with two hypotheses (`TimelineCorrect`, below). `PROJECT.json` lists
the 47 theorems; seven modules hold them, and an eighth, `Folding`, the lemmas they share.

* **SessionFsm.** `FsmInv` joins the types to `WaitingIffPending` and
  `ShownIsState`; neither is inductive without the other, because
  `OnPermissionResolved` restores a stash that is only known to be no wait while
  the count is above zero. Theorems `FsmInvariant` and `StatusRefinement`, where
  every method maps to a step of `SessionStatus` or a stutter.
* **PermissionRelay.** `TypeCorrect` goes by one lemma per group of actions.
  `LiveIsConnected` is not inductive: a `register` may be under way on a socket that
  has just closed; the strengthening `NothingOfTheGone` says that of a plugin without
  connection nothing is under way to the daemon (`ConnectedCorrect`). `Agreement`
  compares frames with the table. The step that could break it is `ResolveRequest`: it
  is safe because frames carry a decision only of a row that is decided, and a
  decided row is never written again. `AgreementInv` states it with the table as
  a parameter (`CarriesIn(q, table)`), so that one lemma (`CarriesKept`) moves every
  channel from the old table to the new. Theorems `AgreementCorrect` and
  `DecisionRefinement`, which uses the same invariant: a decision Claude hears is the
  recorded one. `NoPhantomWait` compares a count with a cardinality: both move together
  because a request is before the daemon at most once and is not in the table yet
  (`AskedOnce`); were it recorded twice, the count would be two and the row one.
  `CardsAreOpen` looks at a card and at the last frame about its request on the
  whole way to a PWA, through three queues (`Way`): after all of them the PWA shows
  the request exactly if it is open (`CardsFollow`), which every step keeps as long
  as no frame was lost.
* **HubLink.** `RegistryInv` adds to `RegistryIsExact` and `OfflineIsForgotten` that
  a connection which carries frames is dialed and numbered (`ConnectionOrder`). The
  close handler removes by daemon id; it is right because the only connection that
  can close is the registered one, which is `RegistryIsExact` again. Theorems
  `RegistryCorrect`, `OfflineCorrect`. `ListsAddUp` folds the handlers over frames in
  flight. The proof has its own theory of such folds (`Trace`, `After`): a fold is the end
  of a trace, traces extend by a frame at either end, and what every frame keeps the
  fold keeps. `InFlightCompletes` needs that the queue, taken after the truth, changes
  nothing (`QueueIsStale`), for the greeting replays the truth and the stale queue follows
  it; `PwaFollows` needs that no view shows a daemon online that it does not list
  (`Sound`), since such a view would not follow a status. Theorem `ListsCorrect`.
* **AskRelay.** `AskInv` has the types with `HeldIsOpen` (what the daemon holds has not
  ended) and says of each channel, cache and view that what it tells is the end in the
  table. `Stands(table, later)` moves all of them when a question ends. Theorems
  `TypeCorrect`, `ToldCorrect` and `DecisionRefinement`: held questions map to open
  requests, `ended` to decided ones. `CardsCorrect`: a question that can be answered is
  in the hub or before it, and in every PWA online or before it (`OfferInv`); what the hub
  will have, once all before it has come, is held or its hook went away (`HeldInv`), which
  rests on the order of `hello` and what follows it (`LinkInv`); and what a PWA will show,
  once all on the whole way to it has come, is held, or its end is in `unheard` (`ShownInv`).
  A newcomer takes its cards from the cache, which is why `ShownInv` needs `HeldInv`.
* **EventPath.** `WholeWhenQuiet` says nothing while something moves, so `PathInv` says
  what the timeline will show once the frames under way have arrived (`Showing`): lines of
  the file the plugin knows or is about to be told (`Current`), such that after a line
  that is there all lines up to the reader's place are there, that a page asked for
  reaches up to what is there, and that after a rebind nothing is missing (`Holds`). The
  first two are said of a buffer with room (`room`): a full one drops lines, and has room
  again only when a rebind empties it, after which nothing is missing (`HoldsWhole`). A
  session is away, waits for its file, or has exactly one watcher of each kind
  (`BindInv`), which gives `BoundIsWatched`. `TimelineCorrect` has the hypotheses
  `LeaveEarly = FALSE` and `Crossing = FALSE`, the values of the run: where one is
  true the code does otherwise, as section 6 tells, and TLC finds it.
  `NothingIsLostCorrect`, the action property, has no hypothesis: `LooseInv`, types and
  well-formed watchers, is enough, since merging adds, only a rebind empties, and what
  was trimmed is as long as the buffer may be (`TrimmedBuffer`).
  The pages are sorted by rank in the model, because the provers cannot expand
  `SortSeq`, whose argument is an operator.
* **PwaCommands.** `TableInv` says that the running timers are the commands that wait, as
  long as the page has its token, and that an id fits its command (`Fits`): a kill has
  the id of its session, so two entries of one scope would be one entry. `FramesInv` says
  of each frame to the PWA that what it confirms was carried out, and of a resolution that
  it is the recorded decision (`Told`); neither is ever taken back (`Stays`), because a
  request that is decided is not decided again. So whatever confirms a command, it has come
  about. `NeverStranded` needs the
  counter of connections without a frame to be at its limit only for a user whose token
  is gone (`SocketInv`). Theorems `CommandsCorrect`, `ConfirmedCorrect` (action property).
* **FsListing.** `ListingsAreOwn` says what fields show, and a field takes what its
  listener was called with. The strengthening `MatchInv` says that a frame is about the parent of
  the listener waiting for it, up to the link `Real` resolves. It holds because no two fields
  own one request (`FieldInv`), the request that owns a field was made for the parent
  the field has now (`ListenerInv`), and what is cached of a path was read from it
  (`CacheInv`). Theorem `ListingsCorrect`.
* **DaemonList.** A code is the last one because at most one `POST /pair/issue` is under way
  (`OneCall`), and every code was issued for a call (`Counted`); the name in the router is
  the one in the table while the daemon is connected (`NamesInv`). Theorem
  `DrawerCorrect`.
* **ReadMarks.** A mark takes the last offset of the buffer, which was seen only if the
  timeline is at its bottom: `BottomIsMet` says that of the selected session everything in the
  buffer has met the eye while it sticks there. `latestRef` and the store never run ahead of
  the anchor (`AnchorsFollow`), so no flush writes what was not marked. Theorem
  `MarksCorrect`.
* **SessionStart.** Of the registry's queue only the head has read, and what it has read
  is the file (`ChainInv`), so its write loses nothing; while reconcile compares the
  file with tmux nothing starts (`BootInv`); a start is once in the queue and
  unconfirmed (`PendingInv`). Theorem `StartsCorrect`.
* **Accounts.** What a request has read before its await may be stale afterwards. A
  code pairs once because a row's code is consumed and no two rows have one code
  (`RowsInv`). The new token of a refresh is written without a condition; it is safe
  because a token is of one row (`TokensInv`) and what a rotating command is about
  to overwrite on its disk is no row's token any more: one command runs at a time
  on a machine, and the request that waits carries the token its machine has
  (`HeldInv`); the id of a refresh is the one its token was signed for (`sub`). A
  revocation finds the connection it has to close because a connection whose hello was
  handled is one the router knows. Theorem `AccessCorrect`.
* **PushSettings.** The page is optimistic: `shown` changes before the hub has the request, and
  a load may come back with what a save has overtaken. `PushInv` says per part of it what
  may be under way: a request carries the value that is shown or one its key doubts
  (`RequestsInv`), a browser's login and its device agree (`LoginInv`), a load that runs will
  bring what is stored unless something was asked for since (`LoadingInv`), and after it
  what is shown is stored, asked for, or doubtful (`ReadyInv`). Revoking is safe because the
  subscription goes in the same step as the device. Theorem `SettingsCorrect`; with
  `TraysAreRight` it gives `PushesCorrect`.

**The pure modules** have theorems about inputs of any length; that the property of
the run holds, whose inputs are bounded, is a corollary.

* **Notices.** `TraysAreRight`: a fold over pushes, taps and lost devices keeps that a tray
  has the last notice of each context, since the tag that replaces is the context.
* **Edge.** `ClientIsFound`: a proxy overwrites a header or appends to it. Appending keeps what is
  first in it (`AddingKeeps`), which a fold over any chain does, and the hub reads the first; so
  the last proxy that overwrites decides (`LastDecides`), and where none does, the client.
  Prefixes are compared bit by bit (`PrefixesMatch`). `LimiterIsRight`: of every key the
  bucket holds as many hits of the last window as requests were let through in it (`Sound`), so
  what a check or a collection drops does not count any more.
* **Setup.** `SetupLosesNothing`: after any history of init, pair, edits and damage the files of the
  computer are such (`WholeComputers`) that no step loses what somebody wrote. `PathReads`:
  an escaped text reads back as itself, by induction over its length. `UnitsInOrder`: a unit
  that is loaded or enabled has its file (`UnitInv`), also after commands that stop half way.
* **FsRoots.** `ListedIsRight`: the code compares strings, the theorem names. A string with a "/"
  behind it starts another exactly if the names do (`RunsStart`), for names without a "/", so a
  root "/a" does not admit "/ab". `CapIsRight`: the comparison of entries, made strict by their
  places, is an order of any listing (`PrecedeOrders`), and in such an order every place has
  exactly one entry (`OneEachRank`).
* **AgentProbe.** `NewerIsAble`: `cmpVersion` is transitive, also between versions with unequal
  numbers of parts, because a missing part counts as zero (`ComparedOn`).
* **SlashInventory.** `MetaIsRight`: a fold over the lines leaves the last value of each key
  (`MetaIsLast`). `MenuIsRight`: a scan keeps that its entries are those of the files it has
  read, each once (`Listing`); places in the four scans, positions in the menu and files
  expected correspond one to one (`PlacesStand`), so the counts agree in every order. With these
  three modules `ReadsCorrect`.
* **Composer.** `MentionDescends`, `PathDescends`: the token at the cursor is found again in any
  draft (`TokenIs`) and replaced by itself with the picked name behind its last slash; the slash of
  a directory makes that the directory listed next. Drafts, tokens and paths have any length; a
  token has no blank and no "@", a name no slash either. `EnterSends`: the order of the menu is one
  (`LexicalOrders`), so each place has one command and a command typed in full, a prefix of
  itself and the shortest such, has the first; ArrowDown, folded, goes round (`DownsReach`). It
  asks that no two commands differ in case only, since the code compares them in lower case:
  of `/a` and `/A` the one typed need not be first. With these `FieldsCorrect`.
* **Receipts.** `ReceiptsAreRight`: a bounded history holds the newest different keys
  (`NewestIn`), and a receipt is drawn of one that is there. `CommandsReadBack`: a command is cut
  at its ends of tokens (`CutAt`), and each piece is coloured for itself. Together `ReceiptsCorrect`.

Sequences here have any length. Where a proof needs induction over one, it is stated for
a set of numbers and applied to the set of the lengths that are fine, since a
theorem with an operator as parameter cannot be instantiated by the provers; folds of the
community modules are handled by expanding them into the function they iterate, which
`Folding` does once: a step that is a function (`StepOf`) gives the fold its recursion.

The named assumptions say what the code's ids are: finite sets of files and requests, and
that `None` or "none", which stand for no id, are not among them.

Only model-checked: all liveness, which this prover does not reach (`RelayDelivers`,
`Mirrored`, `HookIsAnswered`, `LastLineIsShown`, `Reconnects`, `StartsUnattended`,
`KilledStaysDead`, `LetInAtLast`, `LoadingEnds`, `DrawerCatchesUp`, `MarksCatchUp`); and
one invariant about pure algorithms, `RowsAreReadAndDrawn`: its rows are merged and
sorted by an operator given as an argument (`SortSeq`), which the provers cannot expand.
Where a sort is proved about it is written as what it leaves (`SortedBy` in `ListOps`: the place
of a member is the number of those before it).

## 6. Where code, documentation and expectation part

Met while modelling. Each is written into the model as the code has it; where a
property would fail on it, the property is stated around it and says so in its comment.

Status and permissions

* A run that is open when a wait starts is never finished if the session turns idle
  meanwhile (`session-fsm.ts:137`; `docs/superpowers/specs/2026-05-25-ag-ui-design.md:102`
  pairs every start with a finish).
* An answer to a request of an earlier connection ends the wait of a later request
  (`index.ts:277`; `session-fsm.ts:12`).
* A permission request lost with the link is not sent again (`index.ts:227`;
  `hub-client.ts:12-14`), one made while the daemon is away is dropped and not
  denied (`daemon-client.ts:187`), and a decision may be taken for the ack of the
  reply tool (`daemon-client.ts:115`).
* A PWA that was away keeps the card of a request resolved meanwhile, since the
  snapshot says nothing of cards.
* The daemon never hears of an answer given at the terminal, so the table may later
  record another one: `Agreement` speaks of what went through the relay (`via = "relay"`).

Questions and receipts

* A hook that hangs up takes its question out of the daemon without a resolution: the
  hub's cache and the cards keep it. `bye` leaves it held until the hook's own socket closes.
* A receipt says "answered on another device" for expired questions as well; a device that lost
  the race shows its own answers, and others say "you allowed this".

Hub link and inventory

* The inventory scanned for a session that has gone stays and is replayed
  (`index.ts:726`; `index.ts:245`).
* Events are not deduplicated by the hub, as `index.ts:505-507` says they are.

Log and timeline

* `bindJsonl` resolves for a session that has left and opens watchers nobody closes.
* A page of history goes to every PWA of the owner (`router.ts:192-199`); to one that asked for
  another it looks like its own.
* RUN events have the offset `-Date.now()` and are appended unsorted
  (`useSessionTimeline.ts:88` says otherwise); the last offset may so be negative and
  marking is skipped, and "load earlier" may ask before a negative offset and conclude
  that there is no more history.
* A full buffer drops the events that stand first. After a plugin has reconnected the
  file is read again and lines stand behind later ones, so a line may be dropped
  between two that stay (TLC shows it with a buffer of 3), and RUN events, which are
  not lines of the log, push lines out.
* `drain()` measures the rest of a line after decoding it: a cut inside a character
  moves the offset.
  A file replaced by one at least as long is not noticed.
* With two messages under way a line joins the trace of the newer; after a rebind the anchor of what was read
  keeps its old number; a flush between a mark and the effect that
  copies it writes the older one.

Starting, killing, commands

* Nothing in `src/` sets `TMUX_SESSION` for a session the daemon spawns, so killing it does
  not kill its tmux (`docs/superpowers/specs/2026-06-07-process-registry-design.md:180`).
* A directory picked in the PWA ends in a slash, and its start is never matched
  (`pending-starts.ts:31-40`).
* A start is matched by directory with the oldest that waits: a session opened by hand or a
  reconnecting plugin may take it. Its time to live is twice the timeout of the PWA.
* The loop of a tmux session whose dialogs never come polls for ever. If
  `registry.add` fails, the start is rejected though Claude was spawned.
* `readFileSafe` takes any read error for an empty file.
* A reply is confirmed by any resolution of its request (`useHub.ts:511-512`), also by that of
  another PWA or of its own earlier attempt, which may be the opposite decision; the receipt
  shows the one that counts, and nothing says that one's own was dropped. `ConfirmedIsDone`
  says that much of replies.
* `sendChat` drops silently while `connected` is true and the socket is not open, and
  the draft is cleared. "Kill not confirmed. Try again." cannot be retried
  (`HomeScreen.tsx:383`).

Listings and fields

* A field whose answer is lost says "loading" until it asks for another directory; an
  error stays cached for 30 s.
* `~` is not expanded in `CC_REMOTE_FS_ROOTS`. Of more than 200 entries the field filters
  the first 200.
* Enter while the menu loads submits the draft. "@" or a blank in a name that was picked
  ends the token.
* A project's settings without `defaultMode` hide the user's. A file without front matter
  has its body read as front matter (`slash-inventory.ts:115`).

Accounts, hub, installation

* A daemon reads its token at boot only and never refreshes it
  (`README.md:160`); rotating invalidates the running daemon's. An answer of
  `/pair/refresh` that is lost locks the machine out; one of `/pair` makes its id
  "already taken".
* A daemon revoked while `verifyDaemonAuth` awaits is let in, and one that has been upgraded but has
  not yet said `hello` stays: `closeDaemonConnection` closes only what the router has a
  `DaemonState` of (`router.ts:69`), and the hello that comes later puts the revoked daemon
  online. "Side-effects: revoke + clear JTI + close WS"
  (`docs/superpowers/specs/2026-05-23-settings-page-design.md:131`) holds from the hello on;
  `RevokedIsClosed` says no more.
* Revoking a device does not close its open socket. Signing out leaves device and subscription.
* The first entry of `X-Forwarded-For` is believed (`proxy.ts:159`). Behind a proxy that appends to
  this header, as the documented nginx configuration does
  (`docs/operations/reverse-proxy.md:100`), that entry is the client's own if it sent one: the
  limiter then counts an address the client has named. Scheme and host are overwritten there
  (`:101-102`). `HeadersAreWeighed` says which header decides what.
* `proxy.ts:104` says it strips `::ffff:` and does not.
* Optimistic settings are not rolled back when their request fails; "Reset to defaults" may send
  nothing (`2026-05-25-push-topics-design.md:255`); quiet hours that were cleared and are
  switched on again are refused.
* When a code expires, the drawer behaves as if it had been used, and the command it offers
  to copy lacks the flags the program wants.
* Reinstalling over a daemon that runs keeps the old unit until it restarts; `init --force` sets the
  id back to the hostname; the `PATH` of a unit is not quoted.

## 7. Not modelled

What the properties above leave out of the hazards of `PROJECT.json`: with its one request
`relay` does not reach the answer that ends another request's wait (the proof of
`NoPhantomWait` covers any number). The close of a unix socket is one step for both ends.
`TmuxKills` succeeds in the end, and the commands `uninstall` itself runs do not fail. That
no Enter goes to the prompt rests on Claude having repainted when the pane is read again. The
handlers of a WebSocket the PWA has abandoned do nothing and are left out. The settings page may
differ from the hub in a key a failed or overtaken request has touched, and a mark may be behind
after an overtaken flush; that the storage refuses a mark (`useLastSeen.ts:57-61`) is not modelled.

Whole parts left out:

The demo app (`pwa/src/demo`): a scripted tour with made-up data. Rendering, layout
and wording of the screens, themes and column widths. Logging, exporters and propagation
headers. Static files, health and the admin command line, which issues a code as
`POST /pair/issue` does. Schemas and migrations. Signatures, key storage and the jti
cache of DPoP proofs: a request is taken to be signed by the key it names.
`encodeCwd`, with which two directories may share a projects directory. The hub's
handshake cache, which works as the inventory's, and its event ring, which is never
replayed. Parsing of flags and environment. `PROJECT.json` lists every component
with its status and reason.

## 8. What is left

In the order of what matters most:

1. The frames of `Framing` for inputs of any length, as `Folding` has made it possible for the
   other algorithms.
2. The merge and the grouping of `Timeline`, with a sort by rank as in `EventPath`.
3. Two sessions in one projects directory (`encodeCwd`), where the directory watcher of
   one sees the files of the other.
4. The link of `HubLink` under `AskRelay` and `PwaCommands`: half-open in place of cut.
5. The jti cache of DPoP proofs with its expiry against the clock of the daemon.
