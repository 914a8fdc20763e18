------------------------------ MODULE Composer ------------------------------
(***************************************************************************)
(* The PWA's text fields as functions of what is typed: the composer of    *)
(* SessionView with its SlashMenu and its MentionAutocomplete, and         *)
(* PathAutocomplete, the working directory of a new session.               *)
(*                                                                         *)
(* A text is a sequence of characters, counted from 1: a cursor is the     *)
(* number of characters before it.  A field is a record; a key maps it to  *)
(* the field after the handlers and the effects they cause.  What the      *)
(* daemon lists for a directory (module FsListing) is a parameter.         *)
(***************************************************************************)
EXTENDS ListOps, Integers

\* A character of its own; what the code splits at.
Blank == "blank"
Slash == <<"/">>

\* Letters of either case and the characters the code gives a meaning to,
\* in an order of localeCompare's.
Collation == <<Blank, "-", ".", "/", "@", "~", "a", "A", "b">>
Alphabet == ToSet(Collation)
Lower(s) == [i \in DOMAIN s |-> IF s[i] = "A" THEN "a" ELSE s[i]]
Rank(c) == CHOOSE i \in DOMAIN Collation : Collation[i] = c
LocaleBefore(s, t) ==
    \/ IsStrictPrefix(s, t)
    \/ \E i \in DOMAIN s \cap DOMAIN t :
          Rank(s[i]) < Rank(t[i]) /\ \A k \in 1..(i - 1) : s[k] = t[k]

Trim(s) ==
    LET ink == {i \in DOMAIN s : s[i] # Blank}
    IN  IF ink = {} THEN <<>> ELSE SubSeq(s, Min(ink), Max(ink))
FirstWord(s) == SubSeq(s, 1, Min({i \in DOMAIN s : s[i] = Blank} \cup {Len(s) + 1}) - 1)
AfterSlash(s) == Max({i \in DOMAIN s : s[i] = "/"} \cup {0})

NextActiveIndex(active, len, dir) ==
    IF len = 0 THEN 1 ELSE 1 + ((active - 1 + dir + len) % len)
-----------------------------------------------------------------------------
(* Paths: PathAutocomplete.tsx and the token functions of                  *)
(* MentionAutocomplete.tsx.                                                *)

SplitPath(value) ==
    IF AfterSlash(value) = 0 THEN [parent |-> Slash, prefix |-> value]
    ELSE [parent |-> SubSeq(value, 1, AfterSlash(value)),
          prefix |-> SubSeq(value, AfterSlash(value) + 1, Len(value))]

Offered(e, prefix, mode) ==
    /\ mode = "dirs" => e.is_dir
    /\ IsPrefix(<<".">>, e.name) => IsPrefix(<<".">>, prefix)
    /\ IsPrefix(Lower(prefix), Lower(e.name))

DirsFirst(S) ==
    {p \in S \X S : IF p[1].is_dir # p[2].is_dir THEN p[1].is_dir ELSE LocaleBefore(p[1].name, p[2].name)}

FilterFsEntries(entries, prefix, mode) ==
    LET offered == {e \in entries : Offered(e, prefix, mode)} IN SortedBy(offered, DirsFirst(offered))

NormalizeParent(parent) ==
    IF parent \in {<<>>, Slash} THEN Slash
    ELSE IF Last(parent) = "/" THEN Front(parent) ELSE parent

Named(e) == e.name \o (IF e.is_dir THEN Slash ELSE <<>>)

NoToken == [start |-> 0, end |-> 0, text |-> <<>>]

\* Mutation for TLC: the part of the token behind the cursor is left out.
FindMentionUpToCursor(draft, cursor) ==
    LET ats == {i \in 1..cursor : draft[i] = "@" /\ \A k \in i..cursor : draft[k] # Blank}
    IN  IF ats = {} THEN NoToken
        ELSE [start |-> Max(ats), end |-> cursor, text |-> SubSeq(draft, Max(ats) + 1, cursor)]

\* The "@" nearest before the cursor with no blank between; the token runs
\* to the next blank.
FindMentionAtCursor(draft, cursor) ==
    LET ats == {i \in 1..cursor : draft[i] = "@" /\ \A k \in i..cursor : draft[k] # Blank}
        end == Min({j \in cursor..Len(draft) : j = Len(draft) \/ draft[j + 1] = Blank})
    IN  IF ats = {} THEN NoToken
        ELSE [start |-> Max(ats), end |-> end, text |-> SubSeq(draft, Max(ats) + 1, end)]

JoinCwd(cwd, rel) ==
    IF cwd = <<>> THEN Slash \o rel
    ELSE IF Last(cwd) = "/" THEN cwd \o rel ELSE cwd \o Slash \o rel

ResolveMentionPath(token, cwd) ==
    SplitPath(CASE IsPrefix(Slash, token) \/ IsPrefix(<<"~">>, token) -> token
                [] IsPrefix(<<".", "/">>, token) -> JoinCwd(cwd, SubSeq(token, 3, Len(token)))
                [] OTHER -> JoinCwd(cwd, token))

ReplaceMentionToken(draft, token, newToken, trailingSpace) ==
    SubSeq(draft, 1, token.start) \o newToken
      \o (IF trailingSpace THEN <<Blank>> ELSE <<>>)
      \o SubSeq(draft, token.end + 1, Len(draft))

NextTokenText(tokenText, e) == SubSeq(tokenText, 1, AfterSlash(tokenText)) \o Named(e)
-----------------------------------------------------------------------------
(* SlashMenu.tsx: the commands a draft may mean, best first.               *)

IsSubsequence(q, name) ==
    FoldLeft(LAMBDA i, c : IF i < Len(q) /\ q[i + 1] = c THEN i + 1 ELSE i, 0, name) = Len(q)

StartsAWord(q, name) ==
    /\ "-" \notin ToSet(q)
    /\ \E i \in DOMAIN name : /\ i = 1 \/ name[i - 1] = "-"
                              /\ IsPrefix(q, SubSeq(name, i, Len(name)))

Score(q, command) ==
    LET name == Lower(Tail(command))
    IN  IF IsPrefix(q, name) THEN 3
        ELSE IF StartsAWord(q, name) THEN 2
        ELSE IF IsSubsequence(q, name) THEN 1
        ELSE 0

BestFirst(q, S) ==
    {p \in S \X S : IF Score(q, p[1]) # Score(q, p[2]) THEN Score(q, p[1]) > Score(q, p[2])
                    ELSE IF Len(p[1]) # Len(p[2]) THEN Len(p[1]) < Len(p[2]) ELSE LocaleBefore(p[1], p[2])}

Ranked(commands, q) ==
    LET fit == {n \in commands : Score(q, n) > 0} IN SortedBy(fit, BestFirst(q, fit))

Alphabetic(S) == {p \in S \X S : LocaleBefore(p[1], p[2])}

FilterEntries(commands, draft) ==
    LET head == FirstWord(Tail(draft))
    IN  IF ~IsPrefix(Slash, draft) \/ Len(draft) > Len(head) + 1 THEN <<>>
        ELSE IF head = <<>> THEN SortedBy(commands, Alphabetic(commands))
        ELSE Ranked(commands, Lower(head))

ExactSingleMatch(filtered, draft) == Len(filtered) = 1 /\ Trim(draft) = filtered[1]
-----------------------------------------------------------------------------
(* The composer: its draft and cursor, the active row and whether Escape   *)
(* closed the mention popover, and what was sent last.  A changed draft    *)
(* resets the active row and opens the popover again, after a picked file  *)
(* too: setSuppressed(true) is undone by the effect on the draft.          *)

Unsent == [kind |-> "none", text |-> <<>>]
Field(draft, cursor) ==
    [draft |-> draft, cursor |-> cursor, active |-> 1, suppressed |-> FALSE, sent |-> Unsent]

IsSlashSubmit(t, commands) == IsPrefix(Slash, t) /\ FirstWord(t) \in commands

HandleSend(c, commands) ==
    LET t == Trim(c.draft)
    IN  IF t = <<>> THEN c
        ELSE [Field(<<>>, 0) EXCEPT !.sent =
                [kind |-> IF IsSlashSubmit(t, commands) THEN "cli" ELSE "chat", text |-> t]]

Moved(c, len, dir) == [c EXCEPT !.active = NextActiveIndex(c.active, len, dir)]

SlashKey(c, key, commands) ==
    LET filtered == FilterEntries(commands, c.draft)
        picks == filtered # <<>> /\ ~ExactSingleMatch(filtered, c.draft)
    IN  CASE key = "ArrowDown" -> Moved(c, Len(filtered), 1)
          [] key = "ArrowUp" -> Moved(c, Len(filtered), -1)
          [] key = "Enter" /\ picks ->
                LET head == filtered[c.active] \o <<Blank>> IN Field(head, Len(head))
          [] key = "Enter" /\ ~picks -> HandleSend(c, commands)
          [] key = "Escape" -> IF filtered = <<>> THEN c ELSE Field(<<>>, 0)
          [] OTHER -> c

Accept(c, token, e) ==
    LET newToken == NextTokenText(token.text, e)
    IN  Field(ReplaceMentionToken(c.draft, token, newToken, ~e.is_dir),
              token.start + Len(newToken) + (IF e.is_dir THEN 0 ELSE 1))

MentionKey(c, key, commands, cwd, entries) ==
    LET token == FindMentionAtCursor(c.draft, c.cursor)
        resolved == ResolveMentionPath(token.text, cwd)
        filtered == FilterFsEntries(entries, resolved.prefix, "all")
        open == token # NoToken /\ ~c.suppressed /\ filtered # <<>>
    IN  CASE open /\ key = "ArrowDown" -> Moved(c, Len(filtered), 1)
          [] open /\ key = "ArrowUp" -> Moved(c, Len(filtered), -1)
          [] open /\ key \in {"Enter", "Tab"} /\ c.active <= Len(filtered) ->
                Accept(c, token, filtered[c.active])
          [] open /\ key = "Escape" -> [c EXCEPT !.suppressed = TRUE]
          [] key = "Enter" /\ ~(open /\ c.active <= Len(filtered)) -> HandleSend(c, commands)
          [] OTHER -> c

ComposerKey(c, key, commands, cwd, entries) ==
    IF IsPrefix(Slash, c.draft) THEN SlashKey(c, key, commands)
    ELSE MentionKey(c, key, commands, cwd, entries)
-----------------------------------------------------------------------------
(* The working directory of a new session: "~/" is listed while the field  *)
(* is empty, and Enter starts a session only while no row is offered.      *)

BaseHint == <<"~", "/">>

SplitField(value) ==
    IF value = <<>> THEN [parent |-> BaseHint, prefix |-> <<>>] ELSE SplitPath(value)

PathAccept(value, e) == SplitField(value).parent \o Named(e)

PathKey(c, key, entries) ==
    LET path == SplitField(c.draft)
        filtered == FilterFsEntries(entries, path.prefix, "dirs")
        hide == c.suppressed \/ filtered = <<>>
        t == Trim(c.draft)
    IN  CASE ~hide /\ key = "ArrowDown" -> Moved(c, Len(filtered), 1)
          [] ~hide /\ key = "ArrowUp" -> Moved(c, Len(filtered), -1)
          [] ~hide /\ key \in {"Enter", "Tab"} /\ c.active <= Len(filtered) ->
                LET next == PathAccept(c.draft, filtered[c.active]) IN Field(next, Len(next))
          [] ~hide /\ key = "Escape" -> [c EXCEPT !.suppressed = TRUE]
          [] hide /\ key = "Enter" /\ t # <<>> ->
                [Field(<<>>, 0) EXCEPT !.sent = [kind |-> "start_session", text |-> t]]
          [] OTHER -> c
-----------------------------------------------------------------------------
(* Bounded inputs, and those of them with which the fields would go wrong: *)
(* MCFsListing says that there are none.                                   *)

SomeNames == {<<"a">>, <<"a", "b">>, <<"b", "A">>, <<".", "a">>}
SomeEntries == [name : SomeNames, is_dir : BOOLEAN]
SomeCommands == {<<"/", "a">>, <<"/", "a", "b">>, <<"/", "b", "-", "a">>, <<"/", "b", "b">>}

Mentions ==
    [before : {<<>>, <<"b", Blank>>}, text : SeqOf({"a", "/", ".", "~"}, 3), cursor : 0..3,
     rest : {<<>>, <<Blank, "b">>}, cwd : {<<>>, Slash, <<"/", "b">>}, entry : SomeEntries]

PickedWell(m) ==
    LET from == ResolveMentionPath(m.text, m.cwd)
        draft == m.before \o <<"@">> \o m.text \o m.rest
        after == ComposerKey(Field(draft, Len(m.before) + 1 + m.cursor), "Enter", {}, m.cwd, {m.entry})
        token == FindMentionAtCursor(after.draft, after.cursor)
    IN  /\ after.sent = Unsent
        /\ IsPrefix(m.before, after.draft) /\ IsSuffix(m.rest, after.draft)
        /\ IF m.entry.is_dir
           THEN ResolveMentionPath(token.text, m.cwd)
                  = [parent |-> from.parent \o m.entry.name \o Slash, prefix |-> <<>>]
           ELSE token = NoToken /\ after.cursor = Len(after.draft) - Len(m.rest)

MispickedMentions ==
    {m \in Mentions :
        /\ m.cursor <= Len(m.text)
        /\ FilterFsEntries({m.entry}, ResolveMentionPath(m.text, m.cwd).prefix, "all") # <<>>
        /\ ~PickedWell(m)}

PickedPathWell(value, e) ==
    LET from == SplitField(value)
        after == PathKey(Field(value, Len(value)), "Enter", {e})
    IN  /\ e.is_dir
        /\ after.sent = Unsent
        /\ SplitField(after.draft) = [parent |-> from.parent \o e.name \o Slash, prefix |-> <<>>]
        /\ PathKey(after, "Enter", {}).sent = [kind |-> "start_session", text |-> after.draft]

MispickedPaths ==
    {p \in SeqOf({"a", "/", ".", "~"}, 4) \X SomeEntries :
        /\ FilterFsEntries({p[2]}, SplitField(p[1]).prefix, "dirs") # <<>>
        /\ ~PickedPathWell(p[1], p[2])}

Drafts == {Slash \o typed : typed \in SeqOf({"a", "b", "-", Blank}, 3)}

Press(c, key, commands) == ComposerKey(c, key, commands, Slash, {})
PressDown(c, commands, downs) ==
    FoldLeft(LAMBDA d, key : Press(d, key, commands), c, [i \in 1..downs |-> "ArrowDown"])

SentWell(commands, draft, downs) ==
    LET filtered == FilterEntries(commands, draft)
        once == Press(PressDown(Field(draft, Len(draft)), commands, downs), "Enter", commands)
    IN  /\ draft \in commands => filtered[1] = draft
        /\ IF filtered = <<>> \/ ExactSingleMatch(filtered, draft)
           THEN once.sent = [kind |-> IF FirstWord(draft) \in commands THEN "cli" ELSE "chat",
                             text |-> Trim(draft)]
           ELSE /\ once.sent = Unsent
                /\ Press(once, "Enter", commands).sent
                     = [kind |-> "cli", text |-> filtered[1 + (downs % Len(filtered))]]

MissentDrafts ==
    {d \in (SUBSET SomeCommands) \X Drafts \X (0..2) : ~SentWell(d[1], d[2], d[3])}
=============================================================================
