----------------------------- MODULE EventPath ------------------------------
(***************************************************************************)
(* The way of a line from Claude Code's log to the timeline of a PWA, for  *)
(* one session: the daemon finds the log file of the session in the        *)
(* projects directory, tails it from its beginning, follows Claude to a    *)
(* new file when a command that rotates the conversation was submitted,    *)
(* serves pages of history, and the PWA merges the lines and the pages.    *)
(*                                                                         *)
(* A file is its number of lines and the byte offset of the end of line n  *)
(* is n; how drain() puts a line together that is written in pieces is     *)
(* checked in Framing, what is drawn of the lines in Timeline.  The link   *)
(* between daemon and hub is the subject of HubLink; here the hub passes a *)
(* frame on when it is sent.                                               *)
(*                                                                         *)
(* Session_proofs extends it together with SessionFsm, so Init, Next,      *)
(* Spec, vars and TypeOK carry the prefix Path.                            *)
(***************************************************************************)
EXTENDS Integers, FiniteSets, SequencesExt

CONSTANTS
    Files,       \* the .jsonl files of the projects directory
    Pages,       \* HISTORY_PAGE_SIZE
    Buffer,      \* PER_SESSION_BUFFER, one event for a line
    MaxLines,    \* bound: lines in all
    Limit,       \* bound: how often each kind of event happens, see Events
    MaxEvents,   \* bound: how many events happen in all
    LeaveEarly,  \* bound: may the session leave before its file is found
    Crossing     \* bound: may a page of history asked for by one page reach another

\* A rotating command is submitted, the arming of a rebind expires, files grow
\* old, another claude writes, the plugin's connection ends, the daemon
\* restarts, the page is opened anew, a request for history times out, the user
\* asks for an earlier page.
Events == {"command", "expire", "age", "stray", "leave", "restart", "reload", "timeout", "page"}

ASSUME LimitAssumption ==
    /\ Limit \in [Events -> Nat] /\ MaxLines \in Nat /\ MaxEvents \in Nat
    /\ Pages \in Nat /\ Buffer \in Nat \ {0}
ASSUME FilesAssumption == IsFiniteSet(Files) /\ Files # {} /\ "none" \notin Files

VARIABLES
    size, fresh,     \* the lines of a file; the files written recently
    talks,           \* the file Claude of the session writes to
    rotates,         \* Claude is about to go on in another file
    registered,      \* the plugin's: is it connected and registered
    known,           \* the plugin's: registeredSession.claude_session_id
    resolved,        \* bind_resolved frames on their way to the plugin
    bound,           \* the daemon's: claude_session_id of the session
    binds,           \* pending bindJsonl: for each, the files it heard of
    tails, watcher,  \* open file watchers; the one in the map of watchers
    dirs, dirWatcher,\* open directory watchers; the one in projectsDirWatchers
    armed,           \* rebindArming
    state, idleTimer,\* the session machine without its permissions; idleTimers
    toPwa, asked,    \* frames to the PWA, requests for history to the daemon
    pwa,
    clock, spent     \* RUN events so far; bounds

claude == <<size, fresh, talks, rotates>>
plugin == <<registered, known, resolved>>
watchers == <<binds, tails, watcher, dirs, dirWatcher>>
session == <<bound, armed, state, idleTimer>>
page == <<toPwa, asked, pwa>>
pathVars == <<claude, plugin, watchers, session, page, clock, spent>>

None == "none"

Spend(event) ==
    /\ spent[event] < Limit[event]
    /\ FoldFunction(LAMBDA n, m : n + m, 0, spent) < MaxEvents
    /\ spent' = [spent EXCEPT ![event] = @ + 1]

NewPage == [events |-> <<>>, noMore |-> FALSE, fetched |-> FALSE,
            pending |-> "none", turned |-> 0]

PathInit ==
    /\ size = [f \in Files |-> 0] /\ fresh = {}
    /\ talks = CHOOSE f \in Files : TRUE
    /\ rotates = FALSE
    /\ registered = FALSE /\ known = None /\ resolved = <<>>
    /\ bound = None
    /\ binds = <<>> /\ tails = {} /\ watcher = 0 /\ dirs = {} /\ dirWatcher = 0
    /\ armed = FALSE /\ state = "gone" /\ idleTimer = FALSE
    /\ toPwa = <<>> /\ asked = <<>> /\ pwa = NewPage
    /\ clock = 0 /\ spent = [e \in Events |-> 0]

-----------------------------------------------------------------------------
(* The log *)

Written == {r \in [file : Files, line : 1 .. MaxLines] : r.line <= size[r.file]}

\* A line: every watcher of the directory hears of it.  What a directory watcher
\* hears of the bound file it ignores at once.
Write(f) ==
    /\ Cardinality(Written) < MaxLines
    /\ size' = [size EXCEPT ![f] = @ + 1]
    /\ fresh' = fresh \cup {f}
    /\ binds' = [i \in DOMAIN binds |-> binds[i] \cup {f}]
    /\ dirs' = {[w EXCEPT !.heard = @ \cup ({f} \ {bound})] : w \in dirs}
    /\ UNCHANGED <<plugin, session, page, tails, watcher, dirWatcher, clock>>

Talk == Write(talks) /\ UNCHANGED <<talks, rotates, spent>>

\* Claude goes on in a file nobody has written to.
Rotate ==
    /\ rotates
    /\ \E f \in Files : size[f] = 0 /\ talks' = f /\ Write(f)
    /\ rotates' = FALSE
    /\ UNCHANGED spent

\* Another claude in the same directory.
StrayWrites ==
    /\ Spend("stray")
    /\ \E f \in Files \ {talks} : Write(f)
    /\ UNCHANGED <<talks, rotates>>

\* So much time passes that nothing counts as just written.
Age ==
    /\ Spend("age")
    /\ fresh' = {}
    /\ UNCHANGED <<size, talks, rotates, plugin, watchers, session, page, clock>>

-----------------------------------------------------------------------------
(* Daemon: watchers *)

FreeId(ws) == CHOOSE n \in 1 .. Cardinality(ws) + 1 : \A w \in ws : w.id # n

RunEvent == [offset |-> -(clock + 1), row |-> [file |-> None, line |-> clock + 1]]
LineEvent(f, n) == [offset |-> n, row |-> [file |-> f, line |-> n]]

\* fsm.onJsonlLine after the first of the frames, or fsm.onIdleTimer, with the
\* RUN event of a change.
EnterStateAfter(next, frames) ==
    IF state \in {"gone", next}
    THEN /\ toPwa' = toPwa \o frames
         /\ UNCHANGED <<state, clock>>
    ELSE /\ toPwa' = toPwa \o IF frames = <<>> THEN <<<<"event", RunEvent>>>>
                              ELSE InsertAt(frames, 2, <<"event", RunEvent>>)
         /\ state' = next
         /\ clock' = clock + 1

\* What onLine sends for lines it is called with.
Lines(f, from, to) == [i \in 1 .. to - from |-> <<"event", LineEvent(f, from + i)>>]

\* drain() of a watcher: the lines since the last time.
Drain(w) ==
    /\ w.offset < size[w.file]
    /\ tails' = (tails \ {w}) \cup {[w EXCEPT !.offset = size[w.file]]}
    /\ EnterStateAfter("working", Lines(w.file, w.offset, size[w.file]))
    /\ idleTimer' = TRUE
    /\ UNCHANGED <<claude, plugin, binds, watcher, dirs, dirWatcher,
                    bound, armed, asked, pwa, spent>>

OnLines == \E w \in tails : Drain(w)

\* Mutant: the file is read from where it ends.
StartSessionWatcherAtEnd(open, f) ==
    LET id == FreeId(open)
    IN /\ tails' = open \cup {[id |-> id, file |-> f, offset |-> size[f]]}
       /\ watcher' = id

\* startSessionWatcher: the file is read from its beginning.  `open` are the
\* watchers that stay open; the map forgets the one it had.
StartSessionWatcher(open, f) ==
    LET id == FreeId(open)
    IN /\ tails' = open \cup {[id |-> id, file |-> f, offset |-> 0]}
       /\ watcher' = id

StartProjectsDirWatcher ==
    LET id == FreeId(dirs)
    IN /\ dirs' = dirs \cup {[id |-> id, heard |-> {}]}
       /\ dirWatcher' = id

TellPlugin(f) ==
    resolved' = IF registered THEN Append(resolved, f) ELSE resolved

\* What follows when bindJsonl has found a file, be the session still there
\* or not.
Bind(f) ==
    /\ bound' = IF state = "gone" THEN bound ELSE f
    /\ TellPlugin(f)
    /\ StartSessionWatcher(tails, f)
    /\ StartProjectsDirWatcher

BindResolves ==
    \E i \in DOMAIN binds, f \in Files :
        /\ f \in binds[i]
        /\ binds' = RemoveAt(binds, i)
        /\ Bind(f)
        /\ UNCHANGED <<claude, registered, known, armed, state, idleTimer,
                        page, clock, spent>>

-----------------------------------------------------------------------------
(* Daemon: the session comes and goes *)

KnownFile == {f \in Files : f = known /\ size[f] > 0}

\* sessions.onAdd: the file is known, or found at once, or waited for.
OnAdd ==
    /\ state' = "idle"
    /\ \/ /\ KnownFile # {}
          /\ bound' = known
          /\ StartSessionWatcher(tails, known)
          /\ StartProjectsDirWatcher
          /\ UNCHANGED <<resolved, binds>>
       \/ /\ KnownFile = {}
          /\ \E f \in fresh :
               /\ bound' = f
               /\ resolved' = Append(resolved, f)
               /\ StartSessionWatcher(tails, f)
               /\ StartProjectsDirWatcher
               /\ UNCHANGED binds
       \/ /\ KnownFile = {}
          /\ fresh = {}
          /\ bound' = known
          /\ binds' = Append(binds, {})
          /\ UNCHANGED <<resolved, tails, watcher, dirs, dirWatcher>>

\* The plugin connects and registers with what it knows.
PluginRegisters ==
    /\ ~registered
    /\ registered' = TRUE
    /\ OnAdd
    /\ UNCHANGED <<claude, known, armed, idleTimer, page, clock, spent>>

PluginLearns ==
    /\ resolved # <<>>
    /\ known' = Head(resolved)
    /\ resolved' = Tail(resolved)
    /\ UNCHANGED <<claude, registered, watchers, session, page, clock, spent>>

\* sessions.onRemove
OnRemove ==
    /\ bound' = None /\ state' = "gone"
    /\ tails' = {w \in tails : w.id # watcher} /\ watcher' = 0
    /\ dirs' = {w \in dirs : w.id # dirWatcher} /\ dirWatcher' = 0
    /\ armed' = FALSE /\ idleTimer' = FALSE

\* The plugin's connection ends.  What it was being told is lost.
Leave ==
    /\ Spend("leave")
    /\ registered
    /\ LeaveEarly \/ (binds = <<>> /\ resolved = <<>>)
    /\ registered' = FALSE /\ resolved' = <<>>
    /\ OnRemove
    /\ UNCHANGED <<claude, known, binds, page, clock>>

\* The daemon ends and starts: its files are only watched again when the
\* plugin is back.
Restart ==
    /\ Spend("restart")
    /\ LeaveEarly \/ (binds = <<>> /\ resolved = <<>>)
    /\ registered' = FALSE /\ resolved' = <<>>
    /\ bound' = None /\ state' = "gone" /\ armed' = FALSE /\ idleTimer' = FALSE
    /\ binds' = <<>> /\ tails' = {} /\ watcher' = 0 /\ dirs' = {} /\ dirWatcher' = 0
    /\ asked' = <<>>
    /\ UNCHANGED <<claude, known, toPwa, pwa, clock>>

\* Nothing was written for idle_window_ms.
OnIdle ==
    /\ idleTimer /\ \A w \in tails : w.offset = size[w.file]
    /\ idleTimer' = FALSE
    /\ EnterStateAfter("idle", <<>>)
    /\ UNCHANGED <<claude, plugin, watchers, bound, armed, asked, pwa, spent>>

-----------------------------------------------------------------------------
(* Daemon: rotation *)

\* A command that rotates the conversation arrives: the rebind is armed
\* before the keys are sent to Claude.
OnCliCommand ==
    /\ Spend("command")
    /\ armed' = TRUE
    /\ rotates' = (state # "gone")
    /\ UNCHANGED <<size, fresh, talks, plugin, watchers, bound, state, idleTimer,
                    page, clock>>

\* The arming expires after 30 s.
ArmingExpires ==
    /\ Spend("expire")
    /\ armed
    /\ armed' = FALSE
    /\ UNCHANGED <<claude, plugin, watchers, bound, state, idleTimer, page, clock>>

RebindSession(f) ==
    /\ StartSessionWatcher({w \in tails : w.id # watcher}, f)
    /\ bound' = f
    /\ TellPlugin(f)
    /\ toPwa' = Append(toPwa, <<"session_rebound", f>>)

\* A directory watcher calls back for a file.
OnDirEvent ==
    \E w \in dirs : \E f \in w.heard :
        /\ dirs' = (dirs \ {w}) \cup {[w EXCEPT !.heard = @ \ {f}]}
        /\ IF state # "gone" /\ bound # f /\ armed /\ f \in fresh
           THEN armed' = FALSE /\ RebindSession(f)
           ELSE UNCHANGED <<armed, tails, watcher, bound, resolved, toPwa>>
        /\ UNCHANGED <<claude, registered, known, binds, dirWatcher, state, idleTimer,
                        asked, pwa, clock, spent>>

-----------------------------------------------------------------------------
(* History *)

\* readHistory: the last `limit` lines that end at or before `before`.
ReadHistory(f, before) ==
    LET lines == {n \in 1 .. size[f] : n <= before}
        count == Cardinality(lines)
    IN IF before <= 0 THEN <<>>
       ELSE [i \in 1 .. IF count < Pages THEN count ELSE Pages |->
                LineEvent(f, i + count - IF count < Pages THEN count ELSE Pages)]

OnRequestHistory ==
    /\ asked # <<>>
    /\ toPwa' = Append(toPwa,
                  <<"history_chunk",
                    IF state = "gone" \/ bound = None THEN <<>>
                    ELSE ReadHistory(bound, Head(asked))>>)
    /\ asked' = Tail(asked)
    /\ UNCHANGED <<claude, plugin, watchers, session, pwa, clock, spent>>

-----------------------------------------------------------------------------
(* PWA *)

Offsets(events) == {events[i].offset : i \in DOMAIN events}

\* The user enters the session: if nothing is there, the last page is asked.
Everything == MaxLines + 1
Enter ==
    /\ ~pwa.fetched
    /\ pwa' = [pwa EXCEPT !.fetched = TRUE,
                          !.pending = IF pwa.events = <<>> THEN "pending" ELSE @]
    /\ asked' = IF pwa.events = <<>> THEN Append(asked, Everything) ELSE asked
    /\ UNCHANGED <<claude, plugin, watchers, session, toPwa, clock, spent>>

LoadEarlier ==
    /\ Spend("page")
    /\ pwa.fetched /\ pwa.events # <<>> /\ ~pwa.noMore /\ pwa.pending # "pending"
    /\ asked' = Append(asked, pwa.events[1].offset)
    /\ pwa' = [pwa EXCEPT !.pending = "pending"]
    /\ UNCHANGED <<claude, plugin, watchers, session, toPwa, clock>>

\* Of more events than the buffer holds the first ones go.
Trimmed(events) ==
    IF Len(events) <= Buffer THEN events
    ELSE SubSeq(events, Len(events) - Buffer + 1, Len(events))

\* The reducer, for an event, a page and a rebound.
AppendEventToBuffer(view, e) ==
    IF e.offset \in Offsets(view.events) THEN view
    ELSE [view EXCEPT !.events = Trimmed(Append(@, e)), !.noMore = FALSE]

\* Mutant: a page replaces what is there.
MergeChunkReplaces(view, chunk) ==
    [view EXCEPT !.events = chunk, !.pending = "none", !.noMore = @ \/ chunk = <<>>]

\* Events in ascending order of their offsets, of which no two are the same:
\* the i-th has i - 1 below it.
SortedByOffset(events) ==
    [i \in 1 .. Cardinality(events) |->
        CHOOSE e \in events : Cardinality({x \in events : x.offset < e.offset}) = i - 1]

MergeChunk(view, chunk) ==
    LET new == {e \in Range(chunk) : e.offset \notin Offsets(view.events)}
    IN [view EXCEPT !.events = IF new = {} THEN @
                                  ELSE Trimmed(SortedByOffset(new \cup Range(@))),
                    !.pending = "none",
                    !.noMore = @ \/ chunk = <<>>]

\* Mutant: the old lines stay.
DropTimelineNot(view) == [view EXCEPT !.noMore = FALSE, !.turned = @ + 1]

DropTimeline(view) == [view EXCEPT !.events = <<>>, !.noMore = FALSE, !.turned = @ + 1]

Reduce(view, frame) ==
    CASE frame[1] = "event" -> AppendEventToBuffer(view, frame[2])
      [] frame[1] = "history_chunk" -> MergeChunk(view, frame[2])
      [] frame[1] = "session_rebound" -> DropTimeline(view)

OnFrame ==
    /\ toPwa # <<>>
    /\ toPwa' = Tail(toPwa)
    /\ pwa' = Reduce(pwa, Head(toPwa))
    /\ UNCHANGED <<claude, plugin, watchers, session, asked, clock, spent>>

CommandTimeout ==
    /\ Spend("timeout")
    /\ pwa.pending = "pending"
    /\ pwa' = [pwa EXCEPT !.pending = "timed_out"]
    /\ UNCHANGED <<claude, plugin, watchers, session, toPwa, asked, clock>>

\* The page is opened anew.  What is asked stays asked: pages go to every PWA.
Reload ==
    /\ Spend("reload")
    /\ Crossing \/ (asked = <<>> /\ \A i \in DOMAIN toPwa : toPwa[i][1] # "history_chunk")
    /\ pwa' = NewPage /\ toPwa' = <<>>
    /\ UNCHANGED <<claude, plugin, watchers, session, asked, clock>>

-----------------------------------------------------------------------------
ClaudeNext == Talk \/ Rotate \/ StrayWrites \/ Age
DaemonNext == OnLines \/ BindResolves \/ OnDirEvent \/ OnIdle \/ OnRequestHistory
PluginNext == PluginRegisters \/ PluginLearns \/ Leave \/ Restart
PwaNext == Enter \/ LoadEarlier \/ OnFrame \/ CommandTimeout \/ Reload
                \/ OnCliCommand \/ ArmingExpires

PathNext == ClaudeNext \/ DaemonNext \/ PluginNext \/ PwaNext

PathSpec == PathInit /\ [][PathNext]_pathVars
PathFairSpec ==
    /\ PathSpec
    /\ WF_pathVars(OnLines) /\ WF_pathVars(BindResolves) /\ WF_pathVars(OnDirEvent)
    /\ WF_pathVars(OnRequestHistory) /\ WF_pathVars(OnFrame) /\ WF_pathVars(OnIdle)
    /\ WF_pathVars(PluginRegisters) /\ WF_pathVars(PluginLearns) /\ WF_pathVars(Enter)

-----------------------------------------------------------------------------
(* Properties *)

Rows(view) == {e.row : e \in {x \in Range(view.events) : x.offset > 0}}

PathTypeOK ==
    /\ size \in [Files -> 0 .. MaxLines] /\ fresh \subseteq Files /\ talks \in Files
    /\ rotates \in BOOLEAN /\ registered \in BOOLEAN
    /\ known \in Files \cup {None} /\ bound \in Files \cup {None}
    /\ resolved \in Seq(Files) /\ binds \in Seq(SUBSET Files)
    /\ \A w \in tails : w.file \in Files /\ w.offset \in 0 .. size[w.file]
    /\ \A w \in dirs : w.heard \subseteq Files
    /\ armed \in BOOLEAN /\ idleTimer \in BOOLEAN
    /\ state \in {"gone", "idle", "working"}
    /\ pwa.pending \in {"none", "pending", "timed_out"}
    /\ asked \in Seq(Int)

\* Whatever the order of lines, pages, restarts and rotations: when all lines
\* are read and all frames have arrived, the timeline shows one stretch of the
\* file the session is bound to, without a hole, up to its last line.  A buffer
\* that is full is left out: it drops what stands first, and after a plugin has
\* reconnected that need not be its oldest line.
Quiet == toPwa = <<>> /\ \A w \in tails : w.offset = size[w.file]
WholeWhenQuiet ==
    Quiet /\ Len(pwa.events) < Buffer => \A f \in Files : f = bound =>
        \E first \in 1 .. MaxLines + 1 :
            Rows(pwa) = [file : {f}, line : first .. size[f]]

\* What the timeline shows is only taken away when another conversation is
\* announced, the page is opened anew, or the buffer is full and stays so.
NothingIsTakenAway ==
    [][Rows(pwa) \subseteq Rows(pwa')
       \/ pwa'.turned = pwa.turned + 1
       \/ Len(pwa'.events) = Buffer
       \/ spent'["reload"] = spent["reload"] + 1]_pwa

\* index.ts 560: a session that works has a timer that will end the work, so
\* it cannot stay "working" for ever.
WorkingIsTimed == state = "working" => idleTimer

\* A session whose file is found is watched, and by the watcher that the
\* daemon would close: the file, and the directory for the next file.
BoundIsWatched ==
    bound # None /\ binds = <<>> =>
        /\ \E w \in tails : w.id = watcher /\ w.file = bound
        /\ \E w \in dirs : w.id = dirWatcher

\* rebind-arming.ts 22: the daemon goes from a file to another one only after
\* a command that rotates the conversation, and once for each.
RebindsAreAskedFor ==
    Cardinality({i \in DOMAIN toPwa : toPwa[i][1] = "session_rebound"}) + pwa.turned
        + (IF armed THEN 1 ELSE 0) <= spent["command"]

\* A page that was open from the beginning shows in the end the last line of
\* the file the session is bound to, unless RUN events have filled the buffer.
LastLineIsShown ==
    <>[](spent["reload"] = 0 /\ Len(pwa.events) < Buffer =>
            \A f \in Files : f = bound /\ size[f] > 0 =>
                [file |-> f, line |-> size[f]] \in Rows(pwa))

\* The timeline and the watchers behind it are whole: a session at rest shows
\* every line of the file it is bound to, that file is watched, a session
\* that works has its timer, and none is rebound that did not ask for it.
TimelineIsWhole ==
    PathTypeOK /\ WholeWhenQuiet /\ BoundIsWatched /\ WorkingIsTimed /\ RebindsAreAskedFor
=============================================================================
