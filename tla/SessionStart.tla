---------------------------- MODULE SessionStart ----------------------------
(***************************************************************************)
(* Sessions started from the PWA: start_session with its checks, the tmux  *)
(* session it spawns, the loop that answers Claude Code's dialogs in it,   *)
(* the requests waiting for a registration (pending-starts), the registry  *)
(* file of tmux sessions with its queue of operations and the reconcile at *)
(* boot, kill_session, and the plugin's connection through crashes.        *)
(*                                                                         *)
(* A process is a Claude Code with its plugin, and stands for its session  *)
(* and its tmux session, which the daemon spawned or the user opened by    *)
(* hand.  Frames to the PWA arrive at once (HubLink has their way), and    *)
(* claude repaints its pane within the 400 ms it is given.                 *)
(***************************************************************************)
EXTENDS Naturals, SequencesExt

CONSTANTS
    Procs,         \* processes
    Dirs,          \* directories
    Slashes,       \* subset of BOOLEAN: is the path of a start given with a slash at its end
    HasEnv,        \* the processes with TMUX_SESSION in their environment
    Requests,      \* ids of start requests
    MaxDialogs,    \* bound: dialogs claude shows as it starts
    MaxIncidents   \* bound: crashes, failures, kills, processes that end or start by hand, in all

NoProc == "none"

ASSUME ProcsAssumption == HasEnv \subseteq Procs /\ NoProc \notin Procs
ASSUME BoundsAssumption ==
    {MaxDialogs, MaxIncidents} \subseteq Nat /\ Slashes \subseteq BOOLEAN

VARIABLES
    st, left, dir,   \* of each process: how far it is, the dialogs to answer, its directory
    plug,            \* of each process: its plugin's connection
    phase,           \* the daemon: down, reading or listing in reconcile, up
    file, alive,     \* the registry file; what tmux list-sessions said at boot
    chain,           \* the registry's queue
    loop,            \* of each tmux session: dismissClaudeDialogs
    pending,         \* pendingStarts
    killing,         \* tmux kill-session that run
    answer, asks, by,\* of each request: what the PWA shows, the process it spawned, the one that confirmed it
    added, killed,   \* names in the file once; processes killed from the PWA
    events

procs == <<st, left, dir, plug>>
registry == <<file, alive, chain, added>>
starting == <<answer, asks, by>>
startVars == <<procs, phase, registry, loop, pending, killing, starting, killed, events>>

Running(p) == st[p] \in {"dialog", "ready"}
Live == {p \in Procs : plug[p] = "up"}  \* LiveSessions, sessionToClient
TmuxOf(p) == IF p \in HasEnv THEN p ELSE NoProc
Path(d, slash) == [dir |-> d, slash |-> slash]

StartInit ==
    /\ st = [p \in Procs |-> "unborn"] /\ left = [p \in Procs |-> 0]
    /\ dir \in [Procs -> Dirs] /\ plug = [p \in Procs |-> "none"]
    /\ phase = "up" /\ file = {} /\ alive = {} /\ chain = <<>> /\ added = {}
    /\ loop = [n \in Procs |-> "off"] /\ pending = <<>> /\ killing = {}
    /\ answer = [r \in Requests |-> "unsent"]
    /\ asks = [r \in Requests |-> NoProc] /\ by = [r \in Requests |-> NoProc]
    /\ killed = {} /\ events = 0

Incident == events < MaxIncidents /\ events' = events + 1

-----------------------------------------------------------------------------
(* The registry of tmux sessions *)

Op(kind, name) == [op |-> kind, name |-> name, cur |-> <<>>]

\* Mutant: the operations do not wait for each other.
ReadsAtOnce(i) ==
    /\ chain[i].cur = <<>>
    /\ chain' = [chain EXCEPT ![i].cur = <<file>>]
    /\ UNCHANGED <<procs, phase, file, alive, added, loop, pending, killing, starting, killed, events>>

\* enqueue: an operation reads the file when those before it are done.
Reads(i) ==
    /\ i = 1 /\ chain[i].cur = <<>>
    /\ chain' = [chain EXCEPT ![i].cur = <<file>>]
    /\ UNCHANGED <<procs, phase, file, alive, added, loop, pending, killing, starting, killed, events>>

\* writeFileAtomic; behind an add waits the rest of start_session.
Writes(i) ==
    /\ chain[i].cur # <<>>
    /\ LET o == chain[i]
       IN  /\ file' = IF o.op = "add" THEN o.cur[1] \cup {o.name} ELSE o.cur[1] \ {o.name}
           /\ added' = IF o.op = "add" THEN added \cup {o.name} ELSE added \ {o.name}
           /\ loop' = IF o.op = "add" THEN [loop EXCEPT ![o.name] = "poll"] ELSE loop
    /\ chain' = RemoveAt(chain, i)
    /\ UNCHANGED <<procs, phase, alive, pending, killing, starting, killed, events>>

\* The disk is full: a start that has spawned its session is rejected.
WriteFails(i) ==
    /\ chain[i].cur # <<>> /\ Incident
    /\ LET lost == {r \in Requests : chain[i].op = "add" /\ asks[r] = chain[i].name}
       IN  answer' = [r \in Requests |->
                        IF r \in lost /\ answer[r] = "sent" THEN "failed" ELSE answer[r]]
    /\ chain' = RemoveAt(chain, i)
    /\ UNCHANGED <<procs, phase, file, alive, added, loop, pending, killing, asks, by, killed>>

\* systemd restarts the daemon after two seconds, when what it has spawned is there:
\* reconcile reads the file,
BootReads ==
    /\ phase = "down" /\ phase' = "listing"
    /\ \A n \in Procs : st[n] # "spawning"
    /\ chain' = <<[Op("reconcile", NoProc) EXCEPT !.cur = <<file>>]>>
    /\ UNCHANGED <<procs, file, alive, added, loop, pending, killing, starting, killed, events>>

\* asks tmux for its sessions (none, if it says that there is no server; all that the file
\* has, if tmux fails),
BootLists ==
    /\ phase = "listing" /\ phase' = "writing"
    /\ \/ alive' = {n \in Procs : Running(n)} /\ UNCHANGED events
       \/ /\ Incident
          /\ alive' = chain[1].cur[1]
    /\ UNCHANGED <<procs, file, chain, added, loop, pending, killing, starting, killed>>

\* and writes the survivors, before the daemon dials the hub and opens its socket.
BootWrites ==
    /\ phase = "writing" /\ phase' = "up"
    /\ file' = chain[1].cur[1] \cap alive /\ chain' = <<>> /\ alive' = {}
    /\ UNCHANGED <<procs, added, loop, pending, killing, starting, killed, events>>

Crash ==
    /\ phase = "up" /\ Incident
    /\ phase' = "down" /\ chain' = <<>> /\ pending' = <<>>
    /\ loop' = [n \in Procs |-> "off"]
    /\ plug' = [p \in Procs |-> IF plug[p] = "up" THEN "away" ELSE plug[p]]
    /\ UNCHANGED <<st, left, dir, file, alive, added, killing, starting, killed>>

-----------------------------------------------------------------------------
(* start_session *)

\* precheckStartSession: not allowed, outside the prefixes, no command, mkdir failed.
StartRejected(r) ==
    /\ phase = "up" /\ answer[r] = "unsent" /\ Incident
    /\ answer' = [answer EXCEPT ![r] = "failed"]
    /\ UNCHANGED <<procs, phase, registry, loop, pending, killing, asks, by, killed>>

\* The form of the daemon's card takes one start at a time.
StartSession(r, n, slash) ==
    /\ phase = "up" /\ answer[r] = "unsent" /\ st[n] = "unborn"
    /\ \A q \in Requests : answer[q] # "sent"
    /\ answer' = [answer EXCEPT ![r] = "sent"] /\ asks' = [asks EXCEPT ![r] = n]
    /\ st' = [st EXCEPT ![n] = "spawning"]
    /\ pending' = Append(pending, [req |-> r, cwd |-> Path(dir[n], slash)])
    /\ chain' = Append(chain, Op("add", n))
    /\ UNCHANGED <<left, dir, plug, phase, file, alive, added, loop, killing, by, killed, events>>

\* The child emits 'error': there is no tmux.
SpawnFails(n) ==
    /\ st[n] = "spawning" /\ Incident
    /\ st' = [st EXCEPT ![n] = "dead"]
    /\ answer' = [r \in Requests |->
                    IF asks[r] = n /\ answer[r] = "sent" /\ phase = "up" THEN "failed" ELSE answer[r]]
    /\ UNCHANGED <<left, dir, plug, phase, registry, loop, pending, killing, asks, by, killed>>

\* After 60 s; the PWA has given up after 30.
PendingExpires ==
    /\ pending # <<>> /\ answer[Head(pending).req] # "sent"
    /\ pending' = Tail(pending)
    /\ UNCHANGED <<procs, phase, registry, loop, killing, starting, killed, events>>

StartTimesOut(r) ==
    /\ answer[r] = "sent" /\ answer' = [answer EXCEPT ![r] = "timed_out"]
    /\ UNCHANGED <<procs, phase, registry, loop, pending, killing, asks, by, killed, events>>

-----------------------------------------------------------------------------
(* Claude Code and the loop that answers its dialogs *)

ClaudeStarts(p) ==
    /\ st[p] = "spawning"
    /\ \E k \in 0 .. MaxDialogs : /\ left' = [left EXCEPT ![p] = k]
                                  /\ st' = [st EXCEPT ![p] = IF k > 0 THEN "dialog" ELSE "ready"]
    /\ UNCHANGED <<dir, plug, phase, registry, loop, pending, killing, starting, killed, events>>

\* The user starts claude in a terminal, and answers its dialogs there.
StartedByHand(p) ==
    /\ st[p] = "unborn" /\ Incident
    /\ st' = [st EXCEPT ![p] = "ready"]
    /\ UNCHANGED <<left, dir, plug, phase, registry, loop, pending, killing, starting, killed>>

\* Mutant: the pattern does not know the dialog.
PollReadyOnly(n) ==
    /\ loop[n] = "poll" /\ st[n] = "ready"
    /\ loop' = [loop EXCEPT ![n] = "off"]
    /\ UNCHANGED <<procs, phase, registry, pending, killing, starting, killed, events>>

\* The poll that matches the pane; a tmux that is gone shows nothing.
Poll(n) ==
    /\ loop[n] = "poll" /\ Running(n)
    /\ loop' = [loop EXCEPT ![n] = IF st[n] = "ready" THEN "off" ELSE "settle"]
    /\ UNCHANGED <<procs, phase, registry, pending, killing, starting, killed, events>>

\* 400 ms after the match, and 400 ms before the next poll.
PressEnter(n) ==
    /\ loop[n] = "settle"
    /\ loop' = [loop EXCEPT ![n] = "poll"]
    /\ IF st[n] = "dialog"
       THEN /\ left' = [left EXCEPT ![n] = @ - 1]
            /\ st' = [st EXCEPT ![n] = IF left[n] = 1 THEN "ready" ELSE @]
       ELSE UNCHANGED <<left, st>>
    /\ UNCHANGED <<dir, plug, phase, registry, pending, killing, starting, killed, events>>

-----------------------------------------------------------------------------
(* The plugin and its session *)

\* consume: the first start of the directory, compared as text.
Matches(p) == {i \in DOMAIN pending : pending[i].cwd = Path(dir[p], FALSE)}

\* register: sessions.onAdd sends session_open.
Registers(p) ==
    /\ plug' = [plug EXCEPT ![p] = "up"]
    /\ \/ Matches(p) = {} /\ UNCHANGED <<pending, answer, by>>
       \/ \E i \in Matches(p) :
             /\ \A j \in Matches(p) : i <= j
             /\ pending' = RemoveAt(pending, i)
             /\ answer' = [answer EXCEPT ![pending[i].req] = "confirmed"]
             /\ by' = [by EXCEPT ![pending[i].req] = p]

\* The first connection must succeed: the plugin exits otherwise.
PluginStarts(p) ==
    /\ plug[p] = "none" /\ st[p] = "ready"
    /\ IF phase = "up" THEN Registers(p)
       ELSE plug' = [plug EXCEPT ![p] = "gone"] /\ UNCHANGED <<pending, answer, by>>
    /\ UNCHANGED <<st, left, dir, phase, registry, loop, killing, asks, killed, events>>

PluginReconnects(p) ==
    /\ plug[p] = "away" /\ phase = "up" /\ Registers(p)
    /\ UNCHANGED <<st, left, dir, phase, registry, loop, killing, asks, killed, events>>

ProcessEnds(p) ==
    /\ st' = [st EXCEPT ![p] = "dead"] /\ plug' = [plug EXCEPT ![p] = "gone"]

ClaudeExits(p) ==
    /\ Running(p) /\ Incident /\ ProcessEnds(p)
    /\ UNCHANGED <<left, dir, phase, registry, loop, pending, killing, starting, killed>>

\* Mutant: the connection is closed and the tmux session lives on.
KillOnlyCloses(p) ==
    /\ p \in Live /\ Incident
    /\ plug' = [plug EXCEPT ![p] = "away"] /\ killed' = killed \cup {p}
    /\ UNCHANGED <<st, left, dir, phase, registry, loop, pending, killing, starting>>

\* kill_session
KillSession(p) ==
    /\ p \in Live /\ Incident
    /\ plug' = [plug EXCEPT ![p] = "away"] /\ killed' = killed \cup {p}
    /\ IF TmuxOf(p) = NoProc THEN UNCHANGED <<killing, chain>>
       ELSE killing' = killing \cup {p} /\ chain' = Append(chain, Op("remove", p))
    /\ UNCHANGED <<st, left, dir, phase, file, alive, added, loop, pending, starting>>

TmuxKills(p) ==
    /\ p \in killing /\ killing' = killing \ {p} /\ ProcessEnds(p)
    /\ UNCHANGED <<left, dir, phase, registry, loop, pending, starting, killed, events>>

-----------------------------------------------------------------------------

StartNext ==
    \/ \E i \in DOMAIN chain : phase = "up" /\ (Reads(i) \/ Writes(i) \/ WriteFails(i))
    \/ BootReads \/ BootLists \/ BootWrites \/ Crash \/ PendingExpires
    \/ \E r \in Requests : \/ StartRejected(r) \/ StartTimesOut(r)
                           \/ \E n \in Procs, slash \in Slashes : StartSession(r, n, slash)
    \/ \E n \in Procs : SpawnFails(n) \/ Poll(n) \/ PressEnter(n)
    \/ \E p \in Procs : \/ ClaudeStarts(p) \/ StartedByHand(p) \/ ClaudeExits(p)
                        \/ PluginStarts(p) \/ PluginReconnects(p) \/ KillSession(p) \/ TmuxKills(p)

StartSpec == StartInit /\ [][StartNext]_startVars

\* tmux carries out what it is told, systemd restarts the daemon, its polls and its queue go on.
FairStartSpec ==
    /\ StartSpec
    /\ WF_startVars(BootReads) /\ WF_startVars(BootLists) /\ WF_startVars(BootWrites)
    /\ WF_startVars(\E i \in DOMAIN chain : phase = "up" /\ (Reads(i) \/ Writes(i)))
    /\ \A n \in Procs : WF_startVars(Poll(n)) /\ WF_startVars(PressEnter(n)) /\ WF_startVars(ClaudeStarts(n))
    /\ \A p \in Procs : WF_startVars(TmuxKills(p))

-----------------------------------------------------------------------------

OpRecord == [op : {"add", "remove", "reconcile"}, name : Procs \cup {NoProc},
             cur : {<<>>} \cup {<<s>> : s \in SUBSET Procs}]

\* The variables have the shape the code gives them; only a tmux session whose name the
\* plugin has told is asked to end.
StartTypeOK ==
    /\ st \in [Procs -> {"unborn", "spawning", "dialog", "ready", "dead"}]
    /\ left \in [Procs -> 0 .. MaxDialogs] /\ dir \in [Procs -> Dirs]
    /\ plug \in [Procs -> {"none", "up", "away", "gone"}]
    /\ phase \in {"down", "listing", "writing", "up"}
    /\ file \subseteq Procs /\ alive \subseteq Procs /\ added \subseteq Procs
    /\ \A i \in DOMAIN chain : chain[i] \in OpRecord
    /\ loop \in [Procs -> {"off", "poll", "settle"}]
    /\ killing \subseteq HasEnv /\ killed \subseteq Procs
    /\ answer \in [Requests -> {"unsent", "sent", "confirmed", "failed", "timed_out"}]

\* The registry file has every tmux session that the daemon has recorded, still runs and
\* was not killed: whatever the order of starts, kills, crashes and failures of tmux.
RecordedUntilGone == \A n \in added \ killed : Running(n) => n \in file

\* Enter is pressed only in a pane that waits for it, never into the prompt.
EnterMeetsDialog == \A n \in Procs : loop[n] = "settle" => st[n] \in {"dialog", "dead"}

\* A start is confirmed by a session of its own directory, and once: it does not stay in
\* the queue for the next registration of the directory.
ConfirmedOnce ==
    /\ \A r \in Requests : by[r] # NoProc => dir[by[r]] = dir[asks[r]]
    /\ \A r \in Requests : by[r] # NoProc => ~\E i \in DOMAIN pending : pending[i].req = r

\* The dialogs of a recorded start are answered although nobody sits before it.
StartsUnattended ==
    \A n \in Procs : loop[n] # "off" ~> (st[n] \in {"ready", "dead"} \/ phase # "up")

\* A session that is killed and tells the name of its tmux is gone for good.
KilledStaysDead == \A p \in HasEnv : p \in killed ~> [](p \notin Live)

\* A session that was started is in the registry file until it is gone, its
\* start is confirmed once, and keys are sent to it only while it asks.
StartsAreTracked == StartTypeOK /\ RecordedUntilGone /\ ConfirmedOnce /\ EnterMeetsDialog
=============================================================================
