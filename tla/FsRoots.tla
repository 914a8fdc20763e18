------------------------------ MODULE FsRoots ------------------------------
(***************************************************************************)
(* What the daemon lists (fs-list.ts): the whitelisted roots, the way of a *)
(* requested path to the directory it names, the test that this is under a *)
(* root, and the order and the cap of what is returned.                    *)
(*                                                                         *)
(* A path is a sequence of names, a name a sequence of letters: the test   *)
(* is one on strings, where "/a" is a prefix of "/ab".  A file system is   *)
(* its directories and what its symbolic links resolve to.                 *)
(***************************************************************************)
EXTENDS Integers, SequencesExt

Missing == << <<"?">> >>
Up == <<".", ".">>
TildeName == <<"~">>

\* path.resolve(): drops the names in front of "..", looks at no file.
Entered(p, name) == IF name # Up THEN Append(p, name) ELSE IF p = <<>> THEN p ELSE Front(p)
ResolvePath(path) == FoldLeft(Entered, <<>>, path)

\* realpath(): follows the link at each name.
Opened(fs, p) ==
    CASE p \in DOMAIN fs.links -> fs.links[p]
      [] p \notin DOMAIN fs.links /\ p \in fs.dirs -> p
      [] OTHER -> Missing
Followed(fs, p, name) == IF p = Missing THEN Missing ELSE Opened(fs, Append(p, name))
RealPath(fs, path) == FoldLeft(LAMBDA p, name : Followed(fs, p, name), <<>>, path)

ResolveRoot(fs, path) ==
    LET real == RealPath(fs, ResolvePath(path)) IN IF real = Missing THEN ResolvePath(path) ELSE real

\* The home and what CC_REMOTE_FS_ROOTS names; "~" is not expanded there.
ComputeWhitelistRoots(fs, home, more) == {ResolveRoot(fs, p) : p \in {home} \cup more}

ExpandTilde(home, path) == IF path # <<>> /\ path[1] = TildeName THEN home \o Tail(path) ELSE path

\* The string of a path.
Slashed(s, name) == s \o <<"/">> \o name
Text(path) == IF path = <<>> THEN <<"/">> ELSE FoldLeft(Slashed, <<>>, path)

\* The root "/" ends in the separator already.
IsUnderRoot(resolved, root) ==
    \/ resolved = root
    \/ IsPrefix(IF root = <<>> THEN Text(root) ELSE Text(root) \o <<"/">>, Text(resolved))

HandleFsList(fs, home, more, path) ==
    LET resolved == RealPath(fs, ResolvePath(ExpandTilde(home, path))) IN
    IF resolved = Missing \/ ~ \E r \in ComputeWhitelistRoots(fs, home, more) : IsUnderRoot(resolved, r)
    THEN Missing ELSE resolved

-----------------------------------------------------------------------------
(* Order and cap.  An entry: has it a dot in front, its letters without    *)
(* their case, and its case.                                               *)

Cap == 2   \* MAX_ENTRIES

\* compareEntries(a, b) <= 0
NotAfter(a, b) == IF a.dot # b.dot THEN b.dot ELSE a.letters <= b.letters

\* sort() is stable.
Before(entries, j, i) ==
    \/ ~ NotAfter(entries[i], entries[j])
    \/ j < i /\ NotAfter(entries[j], entries[i])

SortEntries(entries) ==
    LET rank == [i \in DOMAIN entries |-> Cardinality({j \in DOMAIN entries : Before(entries, j, i)})]
    IN  [n \in DOMAIN entries |-> entries[CHOOSE i \in DOMAIN entries : rank[i] = n - 1]]

Capped(s) == SubSeq(s, 1, Min({Cap, Len(s)}))

Listed(entries) == Capped(SortEntries(entries))

-----------------------------------------------------------------------------
(* Small file systems, and what must hold of them *)

A == <<"a">>
AB == <<"a", "b">>
DirNames == {A, AB}
SomePaths == UNION {[1 .. n -> DirNames] : n \in 0 .. 2}
Requests == (UNION {[1 .. n -> DirNames \cup {Up}] : n \in 0 .. 3})
            \cup {<<TildeName>> \o p : p \in SomePaths \cup {<<Up>>}}

\* Trees with at most one link to a directory.
Trees == {t \in SUBSET (SomePaths \ {<<>>}) : \A p \in t : Len(p) = 2 => Front(p) \in t}
Tree(dirs, links) == [dirs |-> dirs, links |-> links]
LinkTo(from, to) == [p \in {from} |-> to]
WithLink(t) ==
    {Tree(t, LinkTo(l, to)) : l \in {p \in (SomePaths \ {<<>>}) \ t : Front(p) \in t \cup {<<>>}},
                            to \in t \cup {<<>>}}
FileSystems == UNION {{Tree(t, [p \in {} |-> <<>>])} \cup WithLink(t) : t \in Trees}

\* The directory a request names: "..", as far as path.resolve sees it.
NamedDir(fs, homeDir, path) == RealPath(fs, ResolvePath(ExpandTilde(homeDir, path)))

Mislisted ==
    {c \in FileSystems \X {<<>>, <<A>>, <<AB>>} \X (SUBSET {<<>>, <<AB>>, <<A, A>>}) \X Requests :
        LET fs == c[1]
            homeDir == c[2]
            dir == NamedDir(fs, homeDir, c[4])
            under(root) == Len(root) <= Len(dir) /\ SubSeq(dir, 1, Len(root)) = root
            may == dir # Missing /\ \E r \in ComputeWhitelistRoots(fs, homeDir, c[3]) : under(r)
        IN  HandleFsList(fs, homeDir, c[3], c[4]) # IF may THEN dir ELSE Missing}

Entries == [dot : BOOLEAN, letters : 1 .. 2, upper : BOOLEAN]
Miscut ==
    {s \in UNION {[1 .. n -> Entries] : n \in 0 .. 4} :
        /\ Cardinality(ToSet(s)) = Len(s)
        /\ LET out == Listed(s) IN
           \/ Len(out) # Min({Cap, Len(s)}) \/ ~ ToSet(out) \subseteq ToSet(s)
           \/ \E e \in ToSet(out), f \in ToSet(s) \ ToSet(out) : ~ NotAfter(e, f)
           \/ \E i, j \in DOMAIN out : i < j /\ ~ NotAfter(out[i], out[j])}
=============================================================================
