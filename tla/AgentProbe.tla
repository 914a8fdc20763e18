----------------------------- MODULE AgentProbe -----------------------------
(***************************************************************************)
(* What the daemon finds out about the `claude` binary and advertises with *)
(* a session: the version, the modes of --help, the default mode of the    *)
(* settings files and the capabilities that come with a version            *)
(* (agent-probe.ts).                                                       *)
(*                                                                         *)
(* A version is a sequence of numbers; what a process prints is a sequence *)
(* of chunks, each at a time.  Time is in ticks.                           *)
(***************************************************************************)
EXTENDS ListOps, Integers, FiniteSets, SequencesExt, FiniteSetsExt

NoVersion == <<>>

-----------------------------------------------------------------------------
(* cmpVersion *)

Part(version, i) == IF i \in DOMAIN version THEN version[i] ELSE 0

CmpVersion(a, b) ==
    LET diff == {i \in DOMAIN a \union DOMAIN b : Part(a, i) # Part(b, i)}
    IN  IF diff = {} THEN 0
        ELSE IF Part(a, Min(diff)) < Part(b, Min(diff)) THEN -1 ELSE 1

Gte(a, b) == a # NoVersion /\ CmpVersion(a, b) >= 0

\* capabilitiesFor: the least version of each; 2.1.139, 2.1.146 and 2.1.150
\* stand as 2.1.1, 2.1.2 and 2.2.0.
Since(bit) ==
    CASE bit = "jsonl_flush_quirk" -> <<2, 1, 1>>
      [] bit = "supports_notification_hook" -> <<2, 1, 2>>
      [] bit = "supports_ack" -> <<2, 2, 0>>
GatedBits == {"jsonl_flush_quirk", "supports_notification_hook", "supports_ack"}

CapabilitiesFor(version) ==
    {bit \in GatedBits : Gte(version, Since(bit))} \union {"has_mcp", "has_plugin"}

\* Reference: a version of three or four parts as one number.
SomeVersions == {<<2>> \o v : v \in [1 .. 2 -> 0 .. 2]} \union {<<2>> \o v : v \in [1 .. 3 -> 0 .. 2]}
Value(v) == 27 * Part(v, 1) + 9 * Part(v, 2) + 3 * Part(v, 3) + Part(v, 4)

Misordered ==
    {p \in SomeVersions \X SomeVersions :
        \/ (CmpVersion(p[1], p[2]) < 0) # (Value(p[1]) < Value(p[2]))
        \/ (CmpVersion(p[1], p[2]) = 0) # (Value(p[1]) = Value(p[2]))
        \/ Value(p[1]) <= Value(p[2]) /\ ~(CapabilitiesFor(p[1]) \subseteq CapabilitiesFor(p[2]))}
-----------------------------------------------------------------------------
(* readWithTimeout, runVersion and runHelpModes.  A process prints chunks  *)
(* of the digits that end its version, or of its modes, closes its output  *)
(* at `closes` and exits with `code`; times are ticks, Timeout is 2000 ms. *)

Timeout == 3
Process(chunks, times, closes, code) ==
    [chunks |-> chunks, times |-> times, closes |-> closes, code |-> code]

NothingRead == <<>>

\* Mutant: what came before the timer is taken for the whole.
ReadSoFar(process) ==
    IF process.code # 0 THEN NothingRead
    ELSE Joined([i \in DOMAIN process.chunks |->
                   IF process.times[i] < Timeout THEN process.chunks[i] ELSE NothingRead])

\* Each read races the one timer; then the exit code is awaited.
ReadWithTimeout(process) ==
    IF process.closes < Timeout /\ process.code = 0 THEN Joined(process.chunks) ELSE NothingRead

NumberOf(digits) == FoldLeft(LAMBDA n, d : 10 * n + d, 0, digits)

\* The version ends with the digits read; without any the pattern of three
\* numbers does not match.
RunVersion(process) ==
    LET digits == ReadWithTimeout(process)
    IN  IF digits = NothingRead THEN NoVersion
        ELSE <<2, 1, NumberOf(digits)>>

HardcodedModes == {"acceptEdits", "auto", "bypassPermissions", "default", "dontAsk", "plan"}

\* The list between the brackets, when it was read to the closing one.
RunHelpModes(process) ==
    LET listed == ReadWithTimeout(process)
    IN  IF listed # NothingRead /\ Last(listed) = "]" /\ Len(listed) > 1
        THEN Range(Front(listed)) ELSE HardcodedModes

Outputs == {<<<<4>>, <<6>>>>, <<<<>>, <<4, 6>>>>, <<>>}
ModeLists == {<<<<"plan">>, <<"auto", "]">>>>, <<<<"]">>>>, <<<<"plan">>>>}
Times(n) == {t \in [1 .. n -> 1 .. 4] : \A i, j \in 1 .. n : i < j => t[i] <= t[j]}
Prints(outputs) ==
    {p \in UNION {{Process(chunks, t, closes, code) :
                     t \in Times(Len(chunks)), closes \in 1 .. 5, code \in 0 .. 1} : chunks \in outputs} :
        \A i \in DOMAIN p.times : p.times[i] <= p.closes}

\* Of a slow, failing or chatty binary no half is believed: the version is
\* the whole one or none, and the modes are its own or the fallback.
HalfBelieved ==
    {p \in Prints(Outputs) : RunVersion(p) \notin {NoVersion, <<2, 1, 46>>}}
    \union {p \in Prints(ModeLists) : RunHelpModes(p) \notin {{"plan", "auto"}, HardcodedModes}}
-----------------------------------------------------------------------------
(* readDefaultMode: the settings of the project and of the user.  A file   *)
(* is absent, unreadable, without the key, or names a mode.                *)

NoFile == "absent"
Unparseable == "unparseable"
NoKey == "nokey"
Null == "null"
Files == {NoFile, Unparseable, NoKey, "plan", "default"}

ReadSettingsMode(file) == IF file \in {NoFile, Unparseable} THEN NoFile
                          ELSE IF file = NoKey THEN Null ELSE file

ReadDefaultMode(project, user) ==
    IF ReadSettingsMode(project) # NoFile THEN ReadSettingsMode(project)
    ELSE IF ReadSettingsMode(user) # NoFile THEN ReadSettingsMode(user) ELSE Null

\* The mode advertised is that of the project where it names one, and that
\* of the user only where the project has no settings that can be read.
MistakenModes ==
    {f \in Files \X Files :
        LET mode == ReadDefaultMode(f[1], f[2])
        IN  \/ f[1] \in {"plan", "default"} /\ mode # f[1]
            \/ mode # Null /\ mode # f[1] /\ (mode # f[2] \/ f[1] = NoKey)}
=============================================================================
