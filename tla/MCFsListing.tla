---------------------------- MODULE MCFsListing ----------------------------
(***************************************************************************)
(* Instances of FsListing for TLC, and the properties of Composer,         *)
(* FsRoots, SlashInventory and AgentProbe.  These are formulas without     *)
(* variables: evaluated in the initial states only.                        *)
(***************************************************************************)
EXTENDS FsListing, Composer, AgentProbe, FsRoots, SlashInventory

CONSTANTS f1, f2, home, tilde, sub

\* Versions of three and of four parts are compared as numbers, and a newer
\* `claude` has every capability of an older one (agent-probe.ts).
NewerCanMore == Init => Misordered = {}

\* Whenever the 2 s of the probe end and however the process ends, neither a
\* version nor a list of modes cut short is advertised.
NoHalfIsBelieved == Init => HalfBelieved = {}

\* The default mode is the project's where its settings name one; where
\* they do not, the user's is not asked for.
ModeIsTheProjects == Init => MistakenModes = {}

\* "~" resolves to the home directory.
Tilde == [p \in Paths |-> IF p = tilde THEN home ELSE p]

\* Picking a directory for a mention lists that directory next, whatever
\* the token is relative to and wherever in it the cursor stood; picking a
\* file ends the token, and what stands around the token is kept
\* (MentionAutocomplete.tsx).  Names hold neither "@" nor a blank:
\* findMentionAtCursor would cut the token there, so below
\* node_modules/@scope the listing is of another directory.
MentionPickDescends == Init => MispickedMentions = {}

\* Picking a directory for a new session lists that directory next, and the
\* session is started in exactly the path shown, once nothing is listed
\* below it; a file is never offered (PathAutocomplete.tsx).  The path ends
\* with the slash for which pending-starts does not find the start: see
\* module SessionStart.
PathPickDescends == Init => MispickedPaths = {}

\* Enter on a command half typed never sends it: it picks the active row,
\* and the next Enter sends the command picked.  A command typed in full is
\* the first row, and what no command matches is sent as it stands
\* (SlashMenu.tsx, SessionView.tsx).
EnterPicksThenSends == Init => MissentDrafts = {}

\* A request is answered with the directory it names when that is one of
\* the roots or below one, and refused otherwise: through "~", "..", links
\* and roots that are links or missing, for names that are prefixes of each
\* other and for the root "/" (fs-list.ts).
ListedIsUnderRoot == Init => Mislisted = {}

\* The cap cuts what comes last, entries with a dot first, whatever order
\* readdir gives: never a directory that would have been on top.
CapCutsTheLast == Init => Miscut = {}

\* The description and the hint of a command are those between the first
\* line and the next fence, the last of each; a file without a front matter
\* has none (slash-inventory.ts).  Left out: a fence on line 2, which
\* readFrontmatter does not see, so that the body is read as front matter.
MetaIsTheFrontMatter == Init => Misread = {}

\* A directory that cannot be read, or a file that does not fit, hides
\* nothing else, in whatever order the four scans push their entries, and
\* nothing is listed twice that is there once.
UnreadableHidesNothing == Init => Miscounted = {}

\* Picking a row in any of the three menus leads one step down or ends.
FieldsDescend == MentionPickDescends /\ PathPickDescends /\ EnterPicksThenSends

\* What the daemon reads of the machine - versions, modes, directories and
\* commands - is all of it and nothing besides.
ReadsAreWhole ==
    /\ NewerCanMore /\ NoHalfIsBelieved /\ ModeIsTheProjects
    /\ ListedIsUnderRoot /\ CapCutsTheLast
    /\ MetaIsTheFrontMatter /\ UnreadableHidesNothing
=============================================================================
