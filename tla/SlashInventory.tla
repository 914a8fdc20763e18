--------------------------- MODULE SlashInventory ---------------------------
(***************************************************************************)
(* The slash commands of a session (slash-inventory.ts): the built-in      *)
(* ones, and what four scans that run at once find in the command and      *)
(* skill directories of the home and of the project.                       *)
(*                                                                         *)
(* A directory can be read or not, and has its files in the order readdir  *)
(* gives them.  A file is its name, what kind of thing it is, whether the  *)
(* name is a valid one, and its text, a sequence of lines.                 *)
(***************************************************************************)
EXTENDS Integers, SequencesExt

Builtin == <<"clear", "compact", "context">>
Unreadable == [readable |-> FALSE, files |-> <<>>]
Dir(files) == [readable |-> TRUE, files |-> files]

-----------------------------------------------------------------------------
(* Front matter.  A line that is not a fence is a key with its value or    *)
(* prose; a fence is a line that starts with three dashes.                 *)

NoValue == "none"
NoMeta == [description |-> NoValue, argument_hint |-> NoValue]
Prose == [key |-> "prose", value |-> NoValue]
Fence == [key |-> "---", value |-> NoValue]
Line(key, value) == [key |-> key, value |-> value]

\* The fences that can close the front matter: indexOf("\n---", 4) starts
\* behind the newline of the first line, so it misses one on line 2.
Closing(text) == {i \in 3 .. Len(text) : text[i] = Fence}

MetaLines(text) ==
    IF text = <<>> \/ text[1] # Fence \/ Closing(text) = {} THEN <<>>
    ELSE SubSeq(text, 2, Min(Closing(text)) - 1)

HintKeys == {"argument-hint", "argument_hint"}

Noted(meta, line) ==
    CASE line.key = "description" -> [meta EXCEPT !.description = line.value]
      [] line.key \in HintKeys -> [meta EXCEPT !.argument_hint = line.value]
      [] OTHER -> meta

ReadFrontmatter(text) == FoldLeft(Noted, NoMeta, MetaLines(text))

-----------------------------------------------------------------------------
(* The scans *)

MakeEntry(source, f) == [id |-> <<source, f.name>>, name |-> f.name, meta |-> ReadFrontmatter(f.text)]

Suits(f, kind) == f.kind = kind /\ f.valid
Pushed(entries, f, source, kind) ==
    IF Suits(f, kind) THEN Append(entries, MakeEntry(source, f)) ELSE entries

Taken(files, source, kind) == FoldLeft(LAMBDA entries, f : Pushed(entries, f, source, kind), <<>>, files)

Scanned(dir, source, kind) == IF dir.readable THEN Taken(dir.files, source, kind) ELSE <<>>

ScanCommandDir(dir, source) == Scanned(dir, source, "markdown")
ScanSkillDir(dir) == Scanned(dir, "skill", "skill")

Scans(m) ==
    <<ScanCommandDir(m.homeCommands, "user"), ScanCommandDir(m.cwdCommands, "project"),
      ScanSkillDir(m.homeSkills), ScanSkillDir(m.cwdSkills)>>

\* The orders in which the scans push their entries: each its own in order.
Positions(scans) == UNION {{<<k, n>> : n \in DOMAIN scans[k]} : k \in DOMAIN scans}
Orders(scans) ==
    {o \in Bijection(1 .. Cardinality(Positions(scans)), Positions(scans)) :
        \A i, j \in DOMAIN o : i < j /\ o[i][1] = o[j][1] => o[i][2] < o[j][2]}

Found(m, order) == [i \in DOMAIN order |-> Scans(m)[order[i][1]][order[i][2]]]
ScanInventory(m, order) ==
    [i \in DOMAIN Builtin |-> [id |-> <<"builtin", Builtin[i]>>, name |-> Builtin[i], meta |-> NoMeta]]
    \o Found(m, order)

-----------------------------------------------------------------------------
(* Small homes and projects, and what must be in their menu *)

Texts == UNION {[1 .. n -> {Fence, Prose, Line("description", "d"), Line("description", "e"),
                            Line("argument-hint", "h")}] : n \in 0 .. 5}

\* What stands between the first line and the next fence.
Fences(t) == {i \in 2 .. Len(t) : t[i] = Fence}
Given(t, keys) ==
    IF t = <<>> \/ t[1] # Fence \/ Fences(t) = {} THEN {}
    ELSE {i \in 2 .. Min(Fences(t)) : t[i].key \in keys}
LastGiven(t, keys) == IF Given(t, keys) = {} THEN NoValue ELSE t[Max(Given(t, keys))].value

\* Texts whose entry shows anything else.  Left out: a fence on line 2.
Misread ==
    {t \in Texts :
        /\ Len(t) >= 2 => t[2] # Fence
        /\ ReadFrontmatter(t) # [description |-> LastGiven(t, {"description"}),
                                 argument_hint |-> LastGiven(t, HintKeys)]}

File(name, kind, valid) == [name |-> name, kind |-> kind, valid |-> valid, text |-> <<>>]
Dirs(kind) ==
    {Unreadable, Dir(<<File("x", kind, TRUE)>>), Dir(<<File("x", kind, TRUE), File("y", kind, TRUE)>>),
     Dir(<<File("bad", kind, FALSE), File("y", "other", TRUE)>>)}
Few(kind) == {Unreadable, Dir(<<File("x", kind, TRUE)>>)}
Machines ==
    [homeCommands : Dirs("markdown"), cwdCommands : Few("markdown"),
     homeSkills : Few("skill"), cwdSkills : Few("skill")]

\* Machines and orders for which the menu misses an entry of a directory that
\* can be read, or shows one twice that is there once.
Expected(m) ==
    LET readable == {k \in DOMAIN m : m[k].readable}
        valid(k) == {f \in ToSet(m[k].files) : f.valid /\ f.kind # "other"}
        source == [homeCommands |-> "user", cwdCommands |-> "project", homeSkills |-> "skill", cwdSkills |-> "skill"]
    IN  UNION {{<<k, source[k], f.name>> : f \in valid(k)} : k \in readable}
Miscounted ==
    {c \in UNION {{<<m, o>> : o \in Orders(Scans(m))} : m \in Machines} :
        LET out == ScanInventory(c[1], c[2])
            found == SubSeq(out, Len(Builtin) + 1, Len(out))
            named(id) == Cardinality({e \in Expected(c[1]) : <<e[2], e[3]>> = id})
        IN  \/ Len(found) # Cardinality(Expected(c[1]))
            \/ \E i \in DOMAIN found :
                  Cardinality({j \in DOMAIN found : found[j].id = found[i].id}) # named(found[i].id)}
=============================================================================
