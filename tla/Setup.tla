------------------------------- MODULE Setup -------------------------------
(***************************************************************************)
(* Installing the daemon (cc-remote init, pair, install, uninstall;        *)
(* installer.ts, login-shell.ts, mcp-config.ts, config.ts): what the files *)
(* hold and what the service manager does after the commands, of which any *)
(* may fail.                                                               *)
(*                                                                         *)
(* Commands are functions of the machine.  The files have the settings a   *)
(* property tells apart; a unit has the version of the program it starts,  *)
(* whether it starts with the machine and whether a daemon that ends is    *)
(* started again.  systemctl and launchctl are modelled by what they do to *)
(* a unit and are not part of this code.                                   *)
(***************************************************************************)
EXTENDS Integers, ListOps

\* config.json: does it parse, its daemon_id ("" when it has none), does it
\* allow sessions to be started, did somebody add a setting by hand.
NoFile == [there |-> FALSE, parses |-> FALSE, id |-> "", starts |-> FALSE, own |-> FALSE]
Nothing == [program |-> 0, at_boot |-> FALSE, restarts |-> FALSE]
NoUnit == [file |-> Nothing, loaded |-> Nothing, running |-> Nothing, enabled |-> FALSE]
Clean == [config |-> NoFile, mcp |-> NoFile, paired |-> "", version |-> 1, unit |-> NoUnit, warned |-> FALSE]

-----------------------------------------------------------------------------
(* The login shell.  What a shell answers: "none" (not there, too slow or  *)
(* not successful), "" or its output.                                      *)

\* runInLoginShell(): the first of bash, zsh and sh that answers something.
RunInLoginShell(shells) ==
    LET answering == {i \in DOMAIN shells : shells[i] \notin {"none", ""}}
    IN  IF answering = {} THEN "none" ELSE shells[Min(answering)]

\* resolveBinaryViaLoginShell(): an alias or a builtin is no program.
ResolveBinary(shells) ==
    LET out == RunInLoginShell(shells) IN IF out = "/bin/claude" THEN out ELSE "none"

\* cmdInstall: the PATH of the login shell, or a warning.
PathEnv(shells) == [path |-> RunInLoginShell(shells), warned |-> RunInLoginShell(shells) = "none"]

-----------------------------------------------------------------------------
(* The files *)

\* cmdInit: the token that spawn_command starts with, and whether it warns.
SpawnToken(shells) ==
    LET abs == ResolveBinary(shells)
    IN  [token |-> IF abs = "none" THEN "claude" ELSE abs, warned |-> abs = "none"]

CmdInit(m, force) ==
    IF m.config.there /\ ~force THEN m
    ELSE [m EXCEPT !.config = [there |-> TRUE, parses |-> TRUE, id |-> "host", starts |-> TRUE, own |-> FALSE]]

\* cmdPair: what does not parse is overwritten, with a warning.
CmdPair(m, id) ==
    LET existing == IF m.config.parses THEN m.config ELSE NoFile
    IN  [m EXCEPT !.config = [existing EXCEPT !.there = TRUE, !.parses = TRUE, !.id = id],
                  !.paired = id,
                  !.warned = @ \/ (m.config.there /\ ~m.config.parses)]

\* loadConfig() throws without an id.
Loads(m) == m.config.parses /\ m.config.id # ""

\* The daemon starts: ensureMcpConfig() writes the file once.
Daemon(m) ==
    IF ~Loads(m) \/ m.mcp.there THEN m
    ELSE [m EXCEPT !.mcp = [NoFile EXCEPT !.there = TRUE, !.parses = TRUE]]

-----------------------------------------------------------------------------
(* The unit.  The service managers: a reload reads the file; enabling it   *)
(* reads it too; a start starts what was read, if nothing runs.  launchctl *)
(* load does all three, and knows nothing of a file that changed since.    *)

Manager(u, argv) ==
    CASE argv = "daemon-reload" -> [u EXCEPT !.loaded = u.file]
      [] argv = "enable" -> [u EXCEPT !.loaded = u.file, !.enabled = TRUE]
      [] argv \in {"start", "launchctl start"} -> [u EXCEPT !.running = IF @ = Nothing THEN u.loaded ELSE @]
      [] argv = "load -w" ->
           LET read == IF u.loaded = Nothing THEN u.file ELSE u.loaded
           IN  [u EXCEPT !.enabled = TRUE, !.loaded = read, !.running = IF @ = Nothing THEN read ELSE @]
      [] argv = "stop" -> [u EXCEPT !.running = Nothing]
      [] argv = "disable" -> IF u.file = Nothing THEN u ELSE [u EXCEPT !.enabled = FALSE]
      [] argv = "unload -w" -> IF u.file = Nothing THEN u ELSE [NoUnit EXCEPT !.file = u.file]

Reboot(m) ==
    LET up == IF m.unit.enabled /\ m.unit.file.at_boot THEN m.unit.file ELSE Nothing
    IN  [m EXCEPT !.unit.loaded = up, !.unit.running = up]

\* The daemon ends on its own.
Crash(m) == [m EXCEPT !.unit.running = IF @.restarts THEN m.unit.loaded ELSE Nothing]

\* unitContent(): the plist and the systemd unit say the same.
UnitContent(m) == [program |-> m.version, at_boot |-> TRUE, restarts |-> TRUE]

InstallCommands(p) ==
    IF p = "darwin" THEN <<"load -w", "launchctl start">> ELSE <<"daemon-reload", "enable", "start">>

UninstallCommands(p) == IF p = "darwin" THEN <<"unload -w">> ELSE <<"stop", "disable">>

\* The commands, one after the other.
RunAll(u, argvs) == FoldLeft(Manager, u, argvs)

\* cmdInstall: stops at the first command that fails, here the one behind `good`.
CmdInstall(m, p, good) ==
    [m EXCEPT !.unit = RunAll([@ EXCEPT !.file = UnitContent(m)],
                              SubSeq(InstallCommands(p), 1, Min({good, Len(InstallCommands(p))})))]

\* Mutant: the file goes first.
CmdUninstallFileFirst(m, p) ==
    [m EXCEPT !.unit = RunAll([@ EXCEPT !.file = Nothing], UninstallCommands(p))]

CmdUninstall(m, p) ==
    [m EXCEPT !.unit = [RunAll(@, UninstallCommands(p)) EXCEPT !.file = Nothing]]

-----------------------------------------------------------------------------
(* The PATH in a unit, letter by letter: a plist is XML.  What follows an  *)
(* ampersand in an entity, its semicolon included, is one letter.          *)

Entity(x) == CASE x = "&" -> <<"&", "amp">> [] x = "<" -> <<"&", "lt">> [] OTHER -> <<x>>
Escaped(s, x) == Joined([i \in DOMAIN s |-> IF s[i] = x THEN Entity(x) ELSE <<s[i]>>])

\* escapeXml(): the ampersand first.
EscapeXml(s) == Escaped(Escaped(s, "&"), "<")

\* What launchd reads, or a plist that is none.
Parsed(s) ==
    IF \E i \in DOMAIN s : s[i] = "<" \/ (s[i] = "&" /\ (i = Len(s) \/ s[i + 1] \notin {"amp", "lt"}))
    THEN <<"broken">>
    ELSE LET entity(i) == i > 1 /\ s[i - 1] = "&"
             read(i) == CASE s[i] = "&" -> <<>>
                          [] s[i] = "amp" /\ entity(i) -> <<"&">>
                          [] s[i] = "lt" /\ entity(i) -> <<"<">>
                          [] OTHER -> <<s[i]>>
         IN  Joined([i \in DOMAIN s |-> read(i)])

-----------------------------------------------------------------------------
(* What may happen to a machine, and what must hold of it *)

Platforms == {"darwin", "linux"}
Upgrade(m) == [m EXCEPT !.version = @ + 1]
EditConfig(m) == IF m.config.parses THEN [m EXCEPT !.config.own = TRUE] ELSE m
Corrupt(m) == IF m.config.there THEN [m EXCEPT !.config = [NoFile EXCEPT !.there = TRUE]] ELSE m
EditMcp(m) == IF m.mcp.there THEN [m EXCEPT !.mcp.own = TRUE] ELSE m

Steps == {"init", "force", "pair", "pair other", "daemon", "edit", "corrupt", "edit mcp"}
Done(m, step) ==
    CASE step = "init" -> CmdInit(m, FALSE)
      [] step = "force" -> CmdInit(m, TRUE)
      [] step = "pair" -> CmdPair(m, "host")
      [] step = "pair other" -> CmdPair(m, "other")
      [] step = "daemon" -> Daemon(m)
      [] step = "edit" -> EditConfig(m)
      [] step = "corrupt" -> Corrupt(m)
      [] step = "edit mcp" -> EditMcp(m)

Histories(steps, n) == UNION {[1 .. k -> steps] : k \in 0 .. n}
SomeMachines == {FoldLeft(Done, Clean, h) : h \in Histories(Steps, 5)}

\* Steps that lose what somebody wrote by hand, or that pair a daemon which
\* does not start, or starts under another name than its token's.
LostEdits ==
    {c \in SomeMachines \X Steps :
        LET m == c[1]
            n == Done(m, c[2])
            pairs == c[2] \in {"pair", "pair other"}
        IN  \/ m.mcp.own /\ ~n.mcp.own
            \/ m.config.own /\ ~n.config.own /\ c[2] \notin {"force", "corrupt"}
            \/ m.config.starts /\ ~n.config.starts /\ c[2] # "corrupt"
            \/ pairs /\ ~(Loads(n) /\ n.config.id = n.paired)
            \/ pairs /\ m.config.there /\ ~m.config.parses /\ ~n.warned
            \/ c[2] = "daemon" /\ Loads(m) /\ ~n.mcp.there}

UnitSteps == {"upgrade", "reboot", "crash", "install", "install fails", "install half", "uninstall"}
UnitDone(p, m, step) ==
    CASE step = "upgrade" -> Upgrade(m)
      [] step = "reboot" -> Reboot(m)
      [] step = "crash" -> Crash(m)
      [] step = "install" -> CmdInstall(m, p, 3)
      [] step = "install fails" -> CmdInstall(m, p, 0)
      [] step = "install half" -> CmdInstall(m, p, 1)
      [] step = "uninstall" -> CmdUninstall(m, p)
Installed(p) == {FoldLeft(LAMBDA m, s : UnitDone(p, m, s), Clean, h) : h \in Histories(UnitSteps, 4)}

\* Machines on which the installation, with nothing running, does not run and
\* bring back after a reboot what it has just written.
OldUnits ==
    {c \in UNION {{p} \X Installed(p) : p \in Platforms} :
        LET m == CmdInstall(c[2], c[1], 3)
            runs(n) == n.unit.running.program = m.version
        IN  c[2].unit.running = Nothing /\ ~(runs(m) /\ runs(Reboot(m)) /\ runs(Crash(m)))}

\* Machines on which something is left of the daemon when it is uninstalled.
Leftovers ==
    {c \in UNION {{p} \X Installed(p) : p \in Platforms} :
        LET m == CmdUninstall(c[2], c[1]) IN
        \/ m.unit.enabled \/ m.unit.file # Nothing
        \/ \E n \in {m, Reboot(m), Crash(m)} : n.unit.running # Nothing}

Answers == {"none", "", "alias", "/bin/claude"}
SilentMisses ==
    {shells \in [1 .. 3 -> Answers] :
        LET t == SpawnToken(shells) IN
        \/ ~(t.token = "/bin/claude" \/ (t.warned /\ t.token = "claude"))
        \/ PathEnv(shells).path \notin Range(shells) \ {"none", ""} /\ ~PathEnv(shells).warned}

MisreadPaths == {s \in Histories({"a", "&", "<", "amp"}, 4) : Parsed(EscapeXml(s)) # s}
=============================================================================
