--------------------------- MODULE Session_proofs ---------------------------
(***************************************************************************)
(* Proofs about one session of the daemon, for any values of the           *)
(* constants.                                                              *)
(*                                                                         *)
(* EventPath: PathInv is inductive, and a timeline at rest is one stretch  *)
(* of the log without a hole, up to its end.  The heart of it is HoldInv:  *)
(* of the rows that the timeline will show when all frames on their way    *)
(* have arrived it says that none of the lines read so far is missing      *)
(* after one that is there.                                                *)
(*                                                                         *)
(* SessionFsm: FsmInv is inductive, and the machine implements             *)
(* SessionStatus.                                                          *)
(*                                                                         *)
(* SessionStart: the registry file has what tmux holds, a start is         *)
(* confirmed once and by a session of its directory, and Enter is pressed  *)
(* on a dialog only.                                                       *)
(***************************************************************************)
EXTENDS SessionFsm, EventPath, SessionStart, FiniteSetTheorems, SequenceTheorems,
        WellFoundedInduction, TLAPS

-----------------------------------------------------------------------------
(* EventPath *)

\* An event with a positive offset is a line of the log.
LogEvent ==
    {e \in [offset : Int, row : [file : Files \cup {None}, line : Int]] :
        e.offset > 0 => e.row.file \in Files /\ e.row.line = e.offset}

LogRow == [file : Files, line : Nat \ {0}]

\* No two events of a buffer or of a page have the same offset.
IsBuffer(es) ==
    /\ es \in Seq(LogEvent)
    /\ \A i, j \in 1 .. Len(es) : es[i].offset = es[j].offset => i = j

Apart(S) == \A e, x \in S : e.offset = x.offset => e = x

Frame ==
    {<<"event", e>> : e \in LogEvent}
        \cup {<<"history_chunk", es>> : es \in {x \in Seq(LogEvent) : IsBuffer(x)}}
        \cup {<<"session_rebound", f>> : f \in Files}

View == [events : {x \in Seq(LogEvent) : IsBuffer(x) /\ Len(x) <= Buffer},
         noMore : BOOLEAN, fetched : BOOLEAN,
         pending : {"none", "pending", "timed_out"}, turned : Nat]

\* The rows of a set of events.
RowsOf(S) == {e.row : e \in {x \in S : x.offset > 0}}

\* The events a frame brings.
Carried(frame) ==
    {e \in LogEvent : \/ frame[1] = "event" /\ e = frame[2]
                      \/ frame[1] = "history_chunk" /\ e \in Range(frame[2])}

IsRebound(frame) == frame[1] = "session_rebound"

\* No conversation is announced after the i-th frame.
Stays(c, i) == \A j \in 1 .. Len(c) : j > i => ~IsRebound(c[j])

\* What a timeline with the events S will show when the frames c have arrived.
Will(S, c) ==
    {r \in LogRow :
        \/ Stays(c, 0) /\ r \in RowsOf(S)
        \/ \E i \in 1 .. Len(c) : Stays(c, i) /\ r \in RowsOf(Carried(c[i]))}

-----------------------------------------------------------------------------
(* Buffers *)

LEMMA NoneIsNoFile == None \notin Files /\ Files # {} /\ IsFiniteSet(Files)
BY FilesAssumption DEF None

LEMMA RowsAreLogRows ==
    ASSUME NEW S \in SUBSET LogEvent
    PROVE  RowsOf(S) \subseteq LogRow /\ \A e \in S : e.offset > 0 => e.row \in RowsOf(S)
BY DEF RowsOf, LogEvent, LogRow

LEMMA RowsOfUnion ==
    ASSUME NEW S, NEW T PROVE RowsOf(S \cup T) = RowsOf(S) \cup RowsOf(T)
BY DEF RowsOf

LEMMA SeqRange ==
    ASSUME NEW X, NEW s \in Seq(X)
    PROVE  /\ Range(s) \subseteq X /\ \A i \in 1 .. Len(s) : s[i] \in Range(s)
           /\ \A e \in Range(s) : \E i \in 1 .. Len(s) : e = s[i]
           /\ Len(s) \in Nat /\ DOMAIN s = 1 .. Len(s)
<1>1. Len(s) \in Nat /\ DOMAIN s = 1 .. Len(s) /\ \A i \in 1 .. Len(s) : s[i] \in X
  BY LenProperties, ElementOfSeq
<1>2. QED
  BY <1>1 DEF Range

LEMMA BufferRange ==
    ASSUME NEW es, IsBuffer(es)
    PROVE  /\ Range(es) \subseteq LogEvent /\ Apart(Range(es)) /\ IsFiniteSet(Range(es))
           /\ \A i \in 1 .. Len(es) : es[i] \in Range(es)
           /\ Len(es) \in Nat
<1>1. es \in Seq(LogEvent)
  BY DEF IsBuffer
<1>2. /\ Range(es) \subseteq LogEvent /\ \A i \in 1 .. Len(es) : es[i] \in Range(es)
      /\ \A e \in Range(es) : \E i \in 1 .. Len(es) : e = es[i]
      /\ Len(es) \in Nat /\ DOMAIN es = 1 .. Len(es)
  BY <1>1, SeqRange
<1>3. Apart(Range(es))
  BY <1>2 DEF IsBuffer, Apart
<1>4. es \in Surjection(1 .. Len(es), Range(es))
  <2>1. es \in [1 .. Len(es) -> Range(es)]
    BY <1>1, <1>2, LenProperties
  <2>2. QED
    BY <1>2, <2>1 DEF Surjection
<1>5. \A m \in Nat : IsFiniteSet(1 .. m)
  BY FS_Interval
<1>6. IsFiniteSet(Range(es))
  BY <1>2, <1>4, <1>5, FS_Surjection
<1>7. QED
  BY <1>2, <1>3, <1>6

LEMMA EmptyBuffer == IsBuffer(<<>>) /\ Range(<<>>) = {}
BY EmptySeq DEF IsBuffer, Range

\* An event whose offset is not there joins the end.
LEMMA BufferAppend ==
    ASSUME NEW es, IsBuffer(es), NEW e \in LogEvent, \A x \in Range(es) : x.offset # e.offset
    PROVE  IsBuffer(Append(es, e)) /\ Range(Append(es, e)) = Range(es) \cup {e}
<1>1. es \in Seq(LogEvent) /\ \A i, j \in 1 .. Len(es) : es[i].offset = es[j].offset => i = j
  BY DEF IsBuffer
<1>2. /\ \A i \in 1 .. Len(es) : es[i] \in Range(es) /\ es[i].offset # e.offset
      /\ \A x \in Range(es) : \E i \in 1 .. Len(es) : x = es[i]
      /\ Len(es) \in Nat
  BY <1>1, SeqRange
<1> DEFINE a == Append(es, e)
<1>3. /\ a \in Seq(LogEvent) /\ Len(a) = Len(es) + 1 /\ a[Len(es) + 1] = e
      /\ \A i \in 1 .. Len(es) : a[i] = es[i]
  BY <1>1, AppendProperties
<1> HIDE DEF a
<1>4. \A i, j \in 1 .. Len(a) : a[i].offset = a[j].offset => i = j
  <2>1. \A i \in 1 .. Len(a) : i = Len(es) + 1 \/ i \in 1 .. Len(es)
    BY <1>2, <1>3
  <2>2. QED
    BY <1>1, <1>2, <1>3, <2>1
<1>5. Range(a) = Range(es) \cup {e}
  <2>1. /\ \A i \in 1 .. Len(a) : a[i] \in Range(a)
        /\ \A x \in Range(a) : \E i \in 1 .. Len(a) : x = a[i]
    BY <1>3, SeqRange
  <2>2. \A i \in 1 .. Len(a) : i = Len(es) + 1 \/ i \in 1 .. Len(es)
    BY <1>2, <1>3
  <2>3. Len(es) + 1 \in 1 .. Len(a) /\ \A i \in 1 .. Len(es) : i \in 1 .. Len(a)
    BY <1>2, <1>3
  <2>4. QED
    BY <1>2, <1>3, <2>1, <2>2, <2>3
<1>6. QED
  BY <1>3, <1>4, <1>5 DEF IsBuffer, a

\* How many events of S come before e.
Before(S, e) == Cardinality({x \in S : x.offset < e.offset})

LEMMA EveryPlace ==
    ASSUME NEW S \in SUBSET LogEvent, IsFiniteSet(S), Apart(S)
    PROVE  /\ Cardinality(S) \in Nat
           /\ \A e \in S : Before(S, e) \in 0 .. (Cardinality(S) - 1)
           /\ \A e, x \in S : Before(S, e) = Before(S, x) => e = x
           /\ \A i \in 1 .. Cardinality(S) : \E e \in S : Before(S, e) = i - 1
<1> DEFINE n == Cardinality(S)
           r == [e \in S |-> Before(S, e)]
<1>1. n \in Nat /\ \A e \in S : e.offset \in Int
  BY FS_CardinalityType DEF LogEvent
<1>2. ASSUME NEW e \in S PROVE r[e] \in 0 .. (n - 1)
  <2> DEFINE U == {x \in S : x.offset < e.offset}
  <2>1. U \in SUBSET S /\ U # S
    BY <1>1
  <2>2. IsFiniteSet(U) /\ Cardinality(U) <= n /\ Cardinality(U) # n
    <3> HIDE DEF U
    <3>1. QED
      BY <2>1, FS_Subset
  <2>3. Cardinality(U) \in Nat
    <3> HIDE DEF U
    <3>1. QED
      BY <2>2, FS_CardinalityType
  <2>4. Cardinality(U) \in 0 .. (n - 1)
    BY <1>1, <2>2, <2>3
  <2>5. QED
    BY <2>4 DEF Before
<1>3. ASSUME NEW e \in S, NEW x \in S, e.offset < x.offset PROVE r[e] < r[x]
  <2> DEFINE U == {y \in S : y.offset < e.offset}
             V == {y \in S : y.offset < x.offset}
  <2>1. U \in SUBSET V /\ U # V /\ V \in SUBSET S
    BY <1>1, <1>3
  <2>2. Cardinality(U) <= Cardinality(V) /\ Cardinality(U) # Cardinality(V)
        /\ IsFiniteSet(U) /\ IsFiniteSet(V)
    <3> HIDE DEF U, V
    <3>1. IsFiniteSet(V)
      BY <2>1, FS_Subset
    <3>2. QED
      BY <2>1, <3>1, FS_Subset
  <2>3. Cardinality(U) \in Nat /\ Cardinality(V) \in Nat
    BY <2>2, FS_CardinalityType
  <2>4. Cardinality(U) < Cardinality(V)
    BY <2>2, <2>3
  <2>5. QED
    BY <2>4 DEF Before
<1>4. r \in [S -> 0 .. (n - 1)]
  BY <1>2
<1>5. \A e, x \in S : r[e] = r[x] => e = x
  <2> SUFFICES ASSUME NEW e \in S, NEW x \in S, e # x PROVE r[e] # r[x]
    OBVIOUS
  <2>1. e.offset < x.offset \/ x.offset < e.offset
    BY <1>1 DEF Apart
  <2>2. r[e] \in Int /\ r[x] \in Int
    BY <1>2
  <2>3. r[e] < r[x] \/ r[x] < r[e]
    BY <2>1, <1>3
  <2> HIDE DEF r
  <2>4. QED
    BY <2>2, <2>3
<1>6. IsFiniteSet(0 .. (n - 1)) /\ Cardinality(0 .. (n - 1)) = n
  BY <1>1, FS_Interval
<1>7. r \in Injection(S, 0 .. (n - 1))
  BY <1>4, <1>5 DEF Injection, IsInjective
<1>8. r \in Surjection(S, 0 .. (n - 1))
  <2> HIDE DEF r
  <2>1. QED
    BY <1>6, <1>7, FS_Injection
<1>9. \A y \in 0 .. (n - 1) : \E e \in S : r[e] = y
  <2> HIDE DEF r
  <2>1. QED
    BY <1>8 DEF Surjection
<1>10. ASSUME NEW i \in 1 .. n PROVE \E e \in S : Before(S, e) = i - 1
  <2>1. i - 1 \in 0 .. (n - 1)
    BY <1>1
  <2>2. QED
    BY <1>9, <2>1
<1>11. QED
  BY <1>1, <1>2, <1>5, <1>10

\* Sorting loses nothing and adds nothing.
LEMMA SortedBuffer ==
    ASSUME NEW S \in SUBSET LogEvent, IsFiniteSet(S), Apart(S)
    PROVE  /\ IsBuffer(SortedByOffset(S)) /\ Range(SortedByOffset(S)) = S
           /\ Len(SortedByOffset(S)) = Cardinality(S)
<1> DEFINE n == Cardinality(S)
           Nth(i) == CHOOSE e \in S : Cardinality({x \in S : x.offset < e.offset}) = i - 1
           q == SortedByOffset(S)
<1>1. /\ n \in Nat
      /\ \A e \in S : Before(S, e) \in 0 .. (n - 1)
      /\ \A e, x \in S : Before(S, e) = Before(S, x) => e = x
      /\ \A i \in 1 .. n : \E e \in S : Before(S, e) = i - 1
  BY EveryPlace
<1>2. \A i \in 1 .. n : Nth(i) \in S /\ Before(S, Nth(i)) = i - 1
  BY <1>1 DEF Before
<1>3. q = [i \in 1 .. n |-> Nth(i)]
  BY DEF SortedByOffset
<1> HIDE DEF Nth, n, q
<1>4. \A i \in 1 .. n : Nth(i) \in LogEvent
  BY <1>2
<1>5. [i \in 1 .. n |-> Nth(i)] \in Seq(LogEvent)
  BY <1>1, <1>4, IsASeq
<1>6. /\ q \in Seq(LogEvent) /\ Len(q) = n /\ \A i \in 1 .. n : q[i] = Nth(i)
      /\ DOMAIN q = 1 .. n
  BY <1>1, <1>3, <1>5
<1>7. \A i, j \in 1 .. n : Nth(i).offset = Nth(j).offset => i = j
  <2> SUFFICES ASSUME NEW i \in 1 .. n, NEW j \in 1 .. n, Nth(i).offset = Nth(j).offset
               PROVE  i = j
    OBVIOUS
  <2>1. Nth(i) = Nth(j)
    BY <1>2 DEF Apart
  <2>2. i - 1 = j - 1 /\ i \in Int /\ j \in Int
    BY <1>1, <1>2, <2>1
  <2>3. QED
    BY <2>2
<1>8. IsBuffer(q)
  BY <1>6, <1>7 DEF IsBuffer
<1>9. ASSUME NEW e \in S PROVE e \in Range(q)
  <2>1. Before(S, e) + 1 \in 1 .. n /\ Before(S, e) + 1 - 1 = Before(S, e)
    BY <1>1
  <2>2. Nth(Before(S, e) + 1) = e
    BY <1>1, <1>2, <2>1
  <2>3. QED
    BY <1>6, <2>1, <2>2 DEF Range
<1>10. Range(q) \subseteq S
  BY <1>2, <1>6 DEF Range
<1>11. QED
  BY <1>6, <1>8, <1>9, <1>10 DEF q, n

\* A buffer has as many events as there are in it.
LEMMA BufferSize ==
    ASSUME NEW es, IsBuffer(es) PROVE Cardinality(Range(es)) = Len(es)
<1>1. /\ es \in Seq(LogEvent) /\ \A i \in 1 .. Len(es) : es[i] \in Range(es)
      /\ \A e \in Range(es) : \E i \in 1 .. Len(es) : e = es[i]
      /\ Len(es) \in Nat /\ DOMAIN es = 1 .. Len(es)
  BY SeqRange DEF IsBuffer
<1>2. es \in [1 .. Len(es) -> Range(es)]
  BY <1>1, LenProperties
<1>3. es \in Bijection(1 .. Len(es), Range(es))
  BY <1>1, <1>2 DEF IsBuffer, Bijection, Injection, IsInjective, Surjection
<1>4. ExistsBijection(1 .. Len(es), Range(es))
  BY <1>3 DEF ExistsBijection
<1>5. QED
  BY <1>1, <1>4, FS_CountingElements

\* What is left of a buffer is a buffer, and no longer than it may be; one that
\* is shorter is whole.
LEMMA TrimmedBuffer ==
    ASSUME NEW es, IsBuffer(es)
    PROVE  /\ IsBuffer(Trimmed(es)) /\ Range(Trimmed(es)) \subseteq Range(es)
           /\ Len(Trimmed(es)) <= Buffer
           /\ Len(Trimmed(es)) < Buffer => Trimmed(es) = es
<1>1. /\ es \in Seq(LogEvent) /\ \A i \in 1 .. Len(es) : es[i] \in Range(es)
      /\ \A e \in Range(es) : \E i \in 1 .. Len(es) : e = es[i]
      /\ Len(es) \in Nat /\ Buffer \in Nat \ {0}
      /\ \A i \in 1 .. Len(es) : es[i] \in LogEvent
      /\ \A i, j \in 1 .. Len(es) : es[i].offset = es[j].offset => i = j
  BY SeqRange, ElementOfSeq, LimitAssumption DEF IsBuffer
<1>2. CASE Len(es) <= Buffer
  BY <1>2 DEF Trimmed
<1>3. CASE Len(es) > Buffer
  <2> DEFINE k == Len(es) - Buffer
             q == SubSeq(es, k + 1, Len(es))
  <2>1. k \in Nat /\ \A i \in k + 1 .. Len(es) : i \in 1 .. Len(es)
    BY <1>1, <1>3
  <2>2. \A i \in k + 1 .. Len(es) : es[i] \in LogEvent
    BY <1>1, <2>1
  <2>3. /\ q \in Seq(LogEvent) /\ Len(q) = Len(es) - (k + 1) + 1
        /\ \A i \in 1 .. Len(es) - (k + 1) + 1 : q[i] = es[(k + 1) + i - 1]
    <3>1. k + 1 \in Int /\ Len(es) \in Int /\ k + 1 <= Len(es)
      BY <1>1, <1>3
    <3> HIDE DEF k
    <3>2. QED
      BY <2>2, <3>1, SubSeqProperties
  <2>4. Trimmed(es) = q
    BY <1>1, <1>3 DEF Trimmed
  <2>5. Len(q) = Buffer
    BY <1>1, <2>3
  <2>6. \A i \in 1 .. Buffer : k + i \in 1 .. Len(es) /\ q[i] = es[k + i]
    <3>1. \A i \in 1 .. Buffer : (k + 1) + i - 1 = k + i /\ k + i \in 1 .. Len(es)
      BY <1>1, <1>3
    <3> HIDE DEF q
    <3>2. Len(es) - (k + 1) + 1 = Buffer
      BY <1>1
    <3> HIDE DEF k
    <3>3. QED
      BY <2>3, <3>1, <3>2
  <2> HIDE DEF q, k
  <2>7. \A i, j \in 1 .. Len(q) : q[i].offset = q[j].offset => i = j
    <3> SUFFICES ASSUME NEW i \in 1 .. Buffer, NEW j \in 1 .. Buffer,
                        q[i].offset = q[j].offset
                 PROVE  i = j
      BY <2>5
    <3>1. k + i = k + j
      BY <1>1, <2>6
    <3>2. QED
      BY <1>1, <2>1, <3>1
  <2>8. Range(q) \subseteq Range(es)
    <3>1. \A e \in Range(q) : \E i \in 1 .. Len(q) : e = q[i]
      BY <2>3, SeqRange
    <3>2. QED
      BY <1>1, <2>5, <2>6, <3>1
  <2>9. IsBuffer(q)
    BY <2>3, <2>7 DEF IsBuffer
  <2>10. QED
    BY <1>1, <2>4, <2>5, <2>8, <2>9
<1>4. QED
  BY <1>1, <1>2, <1>3

-----------------------------------------------------------------------------
(* What a frame does to the timeline *)

LEMMA FrameKinds ==
    ASSUME NEW fr \in Frame
    PROVE  \/ \E e \in LogEvent : fr = <<"event", e>>
           \/ \E es \in Seq(LogEvent) : IsBuffer(es) /\ fr = <<"history_chunk", es>>
           \/ \E f \in Files : fr = <<"session_rebound", f>>
BY DEF Frame

LEMMA OffsetsOfRange ==
    ASSUME NEW es \in Seq(LogEvent)
    PROVE  Offsets(es) = {e.offset : e \in Range(es)}
<1>1. DOMAIN es = 1 .. Len(es)
  BY LenProperties
<1>2. QED
  BY <1>1 DEF Offsets, Range

\* The events a timeline has after a frame: those it had and those the frame
\* brings, of which one that is there already is left out; none after a rebound.
LEMMA Reduced ==
    ASSUME NEW view \in View, NEW fr \in Frame
    PROVE  /\ Reduce(view, fr) \in View
           /\ IsRebound(fr) => /\ Range(Reduce(view, fr).events) = {}
                               /\ Reduce(view, fr).turned = view.turned + 1
           /\ ~IsRebound(fr) =>
                /\ Range(Reduce(view, fr).events) \subseteq Range(view.events) \cup Carried(fr)
                /\ Reduce(view, fr).turned = view.turned
                /\ Len(Reduce(view, fr).events) < Buffer =>
                     /\ Len(view.events) < Buffer
                     /\ Range(view.events) \subseteq Range(Reduce(view, fr).events)
                     /\ \A e \in Carried(fr) :
                          \E x \in Range(Reduce(view, fr).events) : x.offset = e.offset
<1> DEFINE es == view.events
           v == Reduce(view, fr)
           S == Range(es)
<1>1. /\ es \in Seq(LogEvent) /\ IsBuffer(es) /\ Len(es) <= Buffer /\ view.turned \in Nat
      /\ Len(es) \in Nat /\ Buffer \in Nat \ {0}
  BY LenProperties, LimitAssumption DEF View
<1>2. /\ S \subseteq LogEvent /\ Apart(S) /\ IsFiniteSet(S)
      /\ Offsets(es) = {e.offset : e \in S}
  BY <1>1, BufferRange, OffsetsOfRange
<1>3. CASE \E e \in LogEvent : fr = <<"event", e>>
  <2>1. PICK e \in LogEvent : fr = <<"event", e>>
    BY <1>3
  <2>2. fr[1] = "event" /\ fr[2] = e
    BY <2>1
  <2>3. v = AppendEventToBuffer(view, e) /\ ~IsRebound(fr) /\ Carried(fr) = {e}
    BY <2>2 DEF Reduce, IsRebound, Carried
  <2>4. CASE e.offset \in Offsets(es)
    <3>1. v = view
      BY <2>3, <2>4 DEF AppendEventToBuffer
    <3>2. \E x \in S : x.offset = e.offset
      BY <1>2, <2>4
    <3> HIDE DEF v
    <3>3. QED
      BY <2>3, <3>1, <3>2 DEF v
  <2>5. CASE e.offset \notin Offsets(es)
    <3> DEFINE a == Append(es, e)
               t == Trimmed(a)
    <3>1. v = [view EXCEPT !.events = t, !.noMore = FALSE]
      BY <2>3, <2>5 DEF AppendEventToBuffer
    <3>2. \A x \in S : x.offset # e.offset
      BY <1>2, <2>5
    <3>3. IsBuffer(a) /\ Range(a) = S \cup {e} /\ Len(a) = Len(es) + 1
      BY <1>1, <3>2, BufferAppend, AppendProperties
    <3> HIDE DEF a
    <3>4. /\ IsBuffer(t) /\ Range(t) \subseteq S \cup {e} /\ Len(t) <= Buffer
          /\ Len(t) < Buffer => t = a
      BY <3>3, TrimmedBuffer
    <3> HIDE DEF t
    <3>5. v.events = t /\ v.turned = view.turned /\ v \in View
      BY <3>1, <3>4 DEF View, IsBuffer
    <3> HIDE DEF v
    <3>6. Len(v.events) < Buffer => Len(es) < Buffer /\ Range(v.events) = S \cup {e}
      BY <1>1, <3>3, <3>4, <3>5
    <3>7. QED
      BY <2>3, <3>4, <3>5, <3>6 DEF v
  <2>6. QED
    BY <2>4, <2>5
<1>4. CASE \E c \in Seq(LogEvent) : IsBuffer(c) /\ fr = <<"history_chunk", c>>
  <2>1. PICK c \in Seq(LogEvent) : IsBuffer(c) /\ fr = <<"history_chunk", c>>
    BY <1>4
  <2>2. fr[1] = "history_chunk" /\ fr[2] = c
    BY <2>1
  <2> DEFINE new == {e \in Range(c) : e.offset \notin Offsets(es)}
             sorted == SortedByOffset(new \cup S)
             next == IF new = {} THEN es ELSE Trimmed(sorted)
  <2>3. v = [view EXCEPT !.events = next, !.pending = "none", !.noMore = @ \/ c = <<>>]
    BY <2>2 DEF Reduce, MergeChunk
  <2>4. Range(c) \subseteq LogEvent /\ Apart(Range(c)) /\ IsFiniteSet(Range(c))
    BY <2>1, BufferRange
  <2>5. Carried(fr) = Range(c) /\ ~IsRebound(fr)
    BY <2>2, <2>4 DEF Carried, IsRebound
  <2>6. new \cup S \in SUBSET LogEvent /\ Apart(new \cup S)
    BY <1>2, <2>4 DEF Apart
  <2>7. IsFiniteSet(new \cup S)
    <3>1. new \in SUBSET Range(c)
      OBVIOUS
    <3> HIDE DEF new
    <3>2. IsFiniteSet(new)
      BY <2>4, <3>1, FS_Subset
    <3>3. QED
      BY <1>2, <3>2, FS_Union
  <2>8. /\ IsBuffer(next) /\ Range(next) \subseteq new \cup S /\ Len(next) <= Buffer
        /\ Len(next) < Buffer => Len(es) < Buffer /\ Range(next) = new \cup S
    <3>1. /\ IsBuffer(sorted) /\ Range(sorted) = new \cup S
          /\ Len(sorted) = Cardinality(new \cup S)
      <4> HIDE DEF new
      <4>1. QED
        BY <2>6, <2>7, SortedBuffer
    <3>2. Len(es) <= Len(sorted) /\ Len(sorted) \in Nat
      <4>1. S \in SUBSET (new \cup S)
        OBVIOUS
      <4>2. Cardinality(S) = Len(es)
        BY <1>1, BufferSize
      <4> HIDE DEF new, S
      <4>3. Cardinality(S) <= Cardinality(new \cup S) /\ Cardinality(new \cup S) \in Nat
        BY <2>7, <4>1, FS_Subset, FS_CardinalityType
      <4>4. QED
        BY <3>1, <4>2, <4>3
    <3> HIDE DEF new, sorted
    <3>3. CASE new = {}
      BY <1>1, <3>3
    <3>4. CASE new # {}
      <4>1. next = Trimmed(sorted)
        BY <3>4
      <4>2. /\ IsBuffer(next) /\ Range(next) \subseteq Range(sorted) /\ Len(next) <= Buffer
            /\ Len(next) < Buffer => next = sorted
        BY <3>1, <4>1, TrimmedBuffer
      <4> HIDE DEF next
      <4>3. QED
        BY <1>1, <3>1, <3>2, <4>2
    <3>5. QED
      BY <3>3, <3>4
  <2>9. next \in Seq(LogEvent)
    BY <2>8 DEF IsBuffer
  <2> HIDE DEF next
  <2>10. v.events = next /\ v.turned = view.turned /\ v \in View
    BY <2>3, <2>8, <2>9 DEF View
  <2>11. \A e \in Range(c) : \E x \in new \cup S : x.offset = e.offset
    BY <1>2
  <2> HIDE DEF v, new
  <2>12. new \subseteq Range(c)
    BY DEF new
  <2>13. QED
    BY <2>5, <2>8, <2>10, <2>11, <2>12 DEF v
<1>5. CASE \E f \in Files : fr = <<"session_rebound", f>>
  <2>1. fr[1] = "session_rebound"
    BY <1>5
  <2>2. v = [view EXCEPT !.events = <<>>, !.noMore = FALSE, !.turned = @ + 1]
    BY <2>1 DEF Reduce, DropTimeline
  <2>3. <<>> \in Seq(LogEvent) /\ IsBuffer(<<>>) /\ Range(<<>>) = {} /\ Len(<<>>) <= Buffer
    BY EmptyBuffer, EmptySeq, LimitAssumption
  <2> HIDE DEF v
  <2>4. view.turned + 1 \in Nat
    BY <1>1
  <2>5. v.events = <<>> /\ v.turned = view.turned + 1 /\ v.noMore = FALSE
    BY <2>2 DEF View
  <2>6. v \in View
    BY <2>2, <2>3, <2>4 DEF View
  <2>7. QED
    BY <2>1, <2>3, <2>5, <2>6 DEF v, IsRebound
<1>6. QED
  BY <1>3, <1>4, <1>5, FrameKinds

-----------------------------------------------------------------------------
(* What a timeline will show *)

LEMMA CarriedAreEvents ==
    ASSUME NEW fr \in Frame
    PROVE  Carried(fr) \in SUBSET LogEvent /\ (IsRebound(fr) => Carried(fr) = {})
BY DEF Carried, IsRebound

LEMMA WillBeRows ==
    ASSUME NEW S, NEW c PROVE Will(S, c) \subseteq LogRow
BY DEF Will

LEMMA WillAtRest ==
    ASSUME NEW S \in SUBSET LogEvent
    PROVE  Will(S, <<>>) = RowsOf(S)
<1>1. Len(<<>>) = 0 /\ Stays(<<>>, 0)
  BY EmptySeq DEF Stays
<1>2. 1 .. Len(<<>>) = {}
  BY <1>1
<1>3. QED
  BY <1>1, <1>2, RowsAreLogRows DEF Will

\* A frame that arrives changes nothing of it, when the rows are of one file:
\* then an event left out has the row of the one that is there.
LEMMA WillTail ==
    ASSUME NEW S \in SUBSET LogEvent, NEW T \in SUBSET LogEvent,
           NEW c \in Seq(Frame), c # <<>>,
           IsRebound(c[1]) => T = {},
           ~IsRebound(c[1]) => /\ S \subseteq T /\ T \subseteq S \cup Carried(c[1])
                               /\ \A e \in Carried(c[1]) : \E x \in T : x.offset = e.offset,
           \A r, q \in Will(S, c) : r.file = q.file
    PROVE  Will(T, Tail(c)) = Will(S, c)
<1> DEFINE b == Tail(c)
<1>1. /\ b \in Seq(Frame) /\ Len(b) = Len(c) - 1 /\ Len(c) \in Nat /\ Len(c) > 0
      /\ \A i \in 1 .. Len(b) : b[i] = c[i + 1]
  BY HeadTailProperties, LenProperties, EmptySeq
<1> HIDE DEF b
<1>2. c[1] \in Frame
  BY <1>1, ElementOfSeq
<1>3. ASSUME NEW i \in Nat PROVE Stays(b, i) <=> Stays(c, i + 1)
  <2>1. ASSUME Stays(b, i), NEW j \in 1 .. Len(c), j > i + 1 PROVE ~IsRebound(c[j])
    <3>1. j - 1 \in 1 .. Len(b) /\ j - 1 > i /\ j - 1 + 1 = j
      BY <1>1, <2>1
    <3>2. b[j - 1] = c[j]
      BY <1>1, <3>1
    <3>3. QED
      BY <2>1, <3>1, <3>2 DEF Stays
  <2>2. ASSUME Stays(c, i + 1), NEW j \in 1 .. Len(b), j > i PROVE ~IsRebound(b[j])
    <3>1. j + 1 \in 1 .. Len(c) /\ j + 1 > i + 1
      BY <1>1, <2>2
    <3>2. QED
      BY <1>1, <2>2, <3>1 DEF Stays
  <2>3. QED
    BY <2>1, <2>2 DEF Stays
<1>4. Stays(c, 0) <=> ~IsRebound(c[1]) /\ Stays(c, 1)
  <2>1. \A j \in 1 .. Len(c) : j = 1 \/ j > 1
    OBVIOUS
  <2>2. 1 \in 1 .. Len(c)
    BY <1>1
  <2>3. QED
    BY <2>1, <2>2 DEF Stays
<1>5. Stays(b, 0) <=> Stays(c, 1)
  <2>1. 0 + 1 = 1
    OBVIOUS
  <2>2. QED
    BY <1>3, <2>1
<1>6. ASSUME NEW r \in Will(T, b) PROVE r \in Will(S, c)
  <2>1. CASE Stays(b, 0) /\ r \in RowsOf(T)
    <3>1. ~IsRebound(c[1])
      BY <2>1 DEF RowsOf
    <3>2. PICK x \in T : x.offset > 0 /\ r = x.row
      BY <2>1 DEF RowsOf
    <3>3. CASE x \in S
      BY <1>4, <1>5, <2>1, <3>1, <3>2, <3>3 DEF Will, RowsOf
    <3>4. CASE x \in Carried(c[1])
      <4>1. 1 \in 1 .. Len(c) /\ Stays(c, 1)
        BY <1>1, <1>5, <2>1
      <4>2. r \in RowsOf(Carried(c[1]))
        BY <3>2, <3>4 DEF RowsOf
      <4>3. QED
        BY <4>1, <4>2 DEF Will
    <3>5. QED
      BY <3>1, <3>2, <3>3, <3>4
  <2>2. CASE \E i \in 1 .. Len(b) : Stays(b, i) /\ r \in RowsOf(Carried(b[i]))
    <3>1. PICK i \in 1 .. Len(b) : Stays(b, i) /\ r \in RowsOf(Carried(b[i]))
      BY <2>2
    <3>2. i + 1 \in 1 .. Len(c) /\ i \in Nat /\ b[i] = c[i + 1]
      BY <1>1
    <3>3. Stays(c, i + 1)
      BY <1>3, <3>1, <3>2
    <3>4. QED
      BY <3>1, <3>2, <3>3 DEF Will
  <2>3. QED
    BY <2>1, <2>2 DEF Will
<1>7. ASSUME NEW r \in Will(S, c) PROVE r \in Will(T, b)
  <2>1. CASE Stays(c, 0) /\ r \in RowsOf(S)
    <3>1. S \subseteq T /\ Stays(b, 0)
      BY <1>4, <1>5, <2>1
    <3>2. r \in RowsOf(T)
      BY <2>1, <3>1 DEF RowsOf
    <3>3. QED
      BY <3>1, <3>2 DEF Will
  <2>2. CASE \E i \in 1 .. Len(c) : Stays(c, i) /\ r \in RowsOf(Carried(c[i]))
    <3>1. PICK i \in 1 .. Len(c) : Stays(c, i) /\ r \in RowsOf(Carried(c[i]))
      BY <2>2
    <3>2. CASE i = 1
      <4>1. PICK e \in Carried(c[1]) : e.offset > 0 /\ r = e.row
        BY <3>1, <3>2 DEF RowsOf
      <4>2. ~IsRebound(c[1]) /\ e \in LogEvent
        BY <1>2, <4>1, CarriedAreEvents
      <4>3. PICK x \in T : x.offset = e.offset
        BY <4>1, <4>2
      <4>4. Stays(c, 0) /\ Stays(c, 1) /\ Stays(b, 0)
        BY <1>4, <1>5, <3>1, <3>2, <4>2
      <4>5. x.row \in RowsOf(S) \/ x.row \in RowsOf(Carried(c[1]))
        BY <4>1, <4>2, <4>3 DEF RowsOf
      <4>6. x.row \in LogRow
        BY <4>1, <4>3 DEF LogEvent, LogRow
      <4>7. x.row \in Will(S, c)
        <5>1. 1 \in 1 .. Len(c)
          BY <1>1
        <5>2. QED
          BY <4>4, <4>5, <4>6, <5>1 DEF Will
      <4>8. x.row.file = r.file
        BY <4>7
      <4>9. x.row.line = x.offset /\ e.row.line = e.offset
        BY <4>1, <4>2, <4>3 DEF LogEvent
      <4>10. x.row = r
        <5>1. r \in LogRow
          BY DEF Will
        <5>2. QED
          BY <4>1, <4>3, <4>6, <4>8, <4>9, <5>1 DEF LogRow
      <4>11. r \in RowsOf(T)
        BY <4>1, <4>3, <4>10 DEF RowsOf
      <4>12. QED
        BY <4>4, <4>6, <4>10, <4>11 DEF Will
    <3>3. CASE i # 1
      <4>1. i - 1 \in 1 .. Len(b) /\ i - 1 \in Nat /\ i - 1 + 1 = i
        BY <1>1, <3>3
      <4>2. b[i - 1] = c[i] /\ Stays(b, i - 1)
        BY <1>1, <1>3, <3>1, <4>1
      <4>3. r \in LogRow
        BY DEF Will
      <4>4. QED
        BY <3>1, <4>1, <4>2, <4>3 DEF Will
    <3>4. QED
      BY <3>2, <3>3
  <2>3. QED
    BY <2>1, <2>2 DEF Will
<1>8. QED
  BY <1>6, <1>7 DEF b

\* The rows that the frames bring.
Brought(c) == {r \in LogRow : \E i \in 1 .. Len(c) : r \in RowsOf(Carried(c[i]))}

LEMMA WillConcat ==
    ASSUME NEW S \in SUBSET LogEvent, NEW c \in Seq(Frame), NEW d \in Seq(Frame),
           \A i \in 1 .. Len(d) : ~IsRebound(d[i])
    PROVE  Will(S, c \o d) = Will(S, c) \cup Brought(d)
<1> DEFINE b == c \o d
<1>1. /\ b \in Seq(Frame) /\ Len(b) = Len(c) + Len(d) /\ Len(c) \in Nat /\ Len(d) \in Nat
      /\ \A i \in 1 .. Len(c) + Len(d) :
            b[i] = IF i <= Len(c) THEN c[i] ELSE d[i - Len(c)]
  BY ConcatProperties, LenProperties
<1> HIDE DEF b
<1>2. /\ \A i \in 1 .. Len(c) : i \in 1 .. Len(b) /\ b[i] = c[i]
      /\ \A i \in 1 .. Len(d) : Len(c) + i \in 1 .. Len(b) /\ b[Len(c) + i] = d[i]
  <2>1. ASSUME NEW i \in 1 .. Len(c) PROVE i \in 1 .. Len(b) /\ b[i] = c[i]
    BY <1>1
  <2>2. ASSUME NEW i \in 1 .. Len(d)
        PROVE  Len(c) + i \in 1 .. Len(b) /\ b[Len(c) + i] = d[i]
    <3>1. /\ Len(c) + i \in 1 .. Len(c) + Len(d) /\ ~(Len(c) + i <= Len(c))
          /\ Len(c) + i - Len(c) = i
      BY <1>1
    <3>2. QED
      BY <1>1, <3>1
  <2>3. QED
    BY <2>1, <2>2
<1>3. \A i \in 1 .. Len(b) : i \in 1 .. Len(c) \/ \E k \in 1 .. Len(d) : i = Len(c) + k
  <2> SUFFICES ASSUME NEW i \in 1 .. Len(b), i \notin 1 .. Len(c)
               PROVE  \E k \in 1 .. Len(d) : i = Len(c) + k
    OBVIOUS
  <2>1. i - Len(c) \in 1 .. Len(d) /\ i = Len(c) + (i - Len(c))
    BY <1>1
  <2>2. QED
    BY <2>1
<1>4. ASSUME NEW i \in Nat PROVE Stays(b, i) <=> Stays(c, i)
  <2>1. ASSUME Stays(b, i) PROVE Stays(c, i)
    BY <1>2, <2>1 DEF Stays
  <2>2. ASSUME Stays(c, i), NEW j \in 1 .. Len(b), j > i PROVE ~IsRebound(b[j])
    <3>1. CASE j \in 1 .. Len(c)
      BY <1>2, <2>2, <3>1 DEF Stays
    <3>2. CASE \E k \in 1 .. Len(d) : j = Len(c) + k
      BY <1>2, <3>2
    <3>3. QED
      BY <1>3, <3>1, <3>2
  <2>3. QED
    BY <2>1, <2>2 DEF Stays
<1>5. \A k \in 1 .. Len(d) : Stays(b, Len(c) + k)
  <2> SUFFICES ASSUME NEW k \in 1 .. Len(d), NEW j \in 1 .. Len(b), j > Len(c) + k
               PROVE  ~IsRebound(b[j])
    BY DEF Stays
  <2>1. j \notin 1 .. Len(c)
    BY <1>1
  <2>2. QED
    BY <1>2, <1>3, <2>1
<1>6. ASSUME NEW r \in Will(S, b) PROVE r \in Will(S, c) \cup Brought(d)
  <2>1. r \in LogRow
    BY DEF Will
  <2>2. CASE Stays(b, 0) /\ r \in RowsOf(S)
    BY <1>4, <2>1, <2>2 DEF Will
  <2>3. CASE \E i \in 1 .. Len(b) : Stays(b, i) /\ r \in RowsOf(Carried(b[i]))
    <3>1. PICK i \in 1 .. Len(b) : Stays(b, i) /\ r \in RowsOf(Carried(b[i]))
      BY <2>3
    <3>2. i \in Nat
      OBVIOUS
    <3>3. CASE i \in 1 .. Len(c)
      BY <1>2, <1>4, <2>1, <3>1, <3>2, <3>3 DEF Will
    <3>4. CASE \E k \in 1 .. Len(d) : i = Len(c) + k
      BY <1>2, <2>1, <3>1, <3>4 DEF Brought
    <3>5. QED
      BY <1>3, <3>3, <3>4
  <2>4. QED
    BY <2>2, <2>3 DEF Will
<1>7. ASSUME NEW r \in Will(S, c) PROVE r \in Will(S, b)
  <2>1. r \in LogRow
    BY DEF Will
  <2>2. CASE Stays(c, 0) /\ r \in RowsOf(S)
    BY <1>4, <2>1, <2>2 DEF Will
  <2>3. CASE \E i \in 1 .. Len(c) : Stays(c, i) /\ r \in RowsOf(Carried(c[i]))
    <3>1. PICK i \in 1 .. Len(c) : Stays(c, i) /\ r \in RowsOf(Carried(c[i]))
      BY <2>3
    <3>2. i \in Nat
      OBVIOUS
    <3>3. QED
      BY <1>2, <1>4, <2>1, <3>1, <3>2 DEF Will
  <2>4. QED
    BY <2>2, <2>3 DEF Will
<1>8. ASSUME NEW r \in Brought(d) PROVE r \in Will(S, b)
  <2>1. PICK k \in 1 .. Len(d) : r \in RowsOf(Carried(d[k]))
    BY DEF Brought
  <2>2. Len(c) + k \in 1 .. Len(b) /\ b[Len(c) + k] = d[k] /\ Stays(b, Len(c) + k)
    BY <1>2, <1>5
  <2>3. r \in LogRow
    BY DEF Brought
  <2>4. QED
    BY <2>1, <2>2, <2>3 DEF Will
<1>9. QED
  BY <1>6, <1>7, <1>8 DEF b

\* One frame that is not a rebound.
LEMMA WillAppend ==
    ASSUME NEW S \in SUBSET LogEvent, NEW c \in Seq(Frame), NEW fr \in Frame
    PROVE  /\ ~IsRebound(fr) => Will(S, Append(c, fr)) = Will(S, c) \cup RowsOf(Carried(fr))
           /\ IsRebound(fr) => Will(S, Append(c, fr)) = {}
<1>1. CASE ~IsRebound(fr)
  <2> DEFINE d == <<fr>>
  <2>1. d \in Seq(Frame) /\ Len(d) = 1 /\ d[1] = fr
    OBVIOUS
  <2>2. Append(c, fr) = c \o d
    BY AppendIsConcat
  <2> HIDE DEF d
  <2>3. \A i \in 1 .. Len(d) : ~IsRebound(d[i])
    BY <1>1, <2>1
  <2>4. Will(S, c \o d) = Will(S, c) \cup Brought(d)
    BY <2>1, <2>3, WillConcat
  <2>5. Brought(d) = RowsOf(Carried(fr))
    <3>1. RowsOf(Carried(fr)) \subseteq LogRow
      BY CarriedAreEvents, RowsAreLogRows
    <3>2. 1 .. Len(d) = {1}
      BY <2>1
    <3>3. QED
      BY <2>1, <3>1, <3>2 DEF Brought
  <2>6. QED
    BY <1>1, <2>2, <2>4, <2>5
<1>2. CASE IsRebound(fr)
  <2> DEFINE a == Append(c, fr)
  <2>1. a \in Seq(Frame) /\ Len(a) = Len(c) + 1 /\ a[Len(c) + 1] = fr /\ Len(c) \in Nat
    BY AppendProperties, LenProperties
  <2> HIDE DEF a
  <2>2. Len(a) \in 1 .. Len(a) /\ IsRebound(a[Len(a)])
    BY <1>2, <2>1
  <2>3. ~Stays(a, 0) /\ \A i \in 1 .. Len(a) : Stays(a, i) => i = Len(a)
    <3>1. \A i \in 0 .. Len(a) : i = Len(a) \/ Len(a) > i
      BY <2>1
    <3>2. QED
      BY <2>1, <2>2, <3>1 DEF Stays
  <2>4. RowsOf(Carried(a[Len(a)])) = {}
    <3>1. Carried(fr) = {}
      BY <1>2, CarriedAreEvents
    <3>2. QED
      BY <2>1, <3>1 DEF RowsOf
  <2>5. Will(S, a) = {}
    BY <2>3, <2>4 DEF Will
  <2>6. QED
    BY <1>2, <2>5 DEF a
<1>3. QED
  BY <1>1, <1>2

-----------------------------------------------------------------------------
(* Counting rebounds *)

Announced(c) == {i \in DOMAIN c : c[i][1] = "session_rebound"}

\* What is there now shows as long as nothing is announced.
LEMMA WillOfMore ==
    ASSUME NEW S, NEW T, S \subseteq T, NEW c \in Seq(Frame)
    PROVE  /\ Will(S, c) \subseteq Will(T, c)
           /\ Announced(c) # {} => Will(S, c) = Will(T, c)
<1>1. RowsOf(S) \subseteq RowsOf(T)
  BY DEF RowsOf
<1>2. Announced(c) # {} => ~Stays(c, 0)
  BY LenProperties DEF Stays, Announced, IsRebound
<1>3. QED
  BY <1>1, <1>2 DEF Will

LEMMA AnnouncedIsFinite ==
    ASSUME NEW c \in Seq(Frame)
    PROVE  /\ Announced(c) = {i \in 1 .. Len(c) : IsRebound(c[i])}
           /\ IsFiniteSet(Announced(c)) /\ Cardinality(Announced(c)) \in Nat
<1>1. DOMAIN c = 1 .. Len(c) /\ Len(c) \in Nat
  BY LenProperties
<1>2. Announced(c) = {i \in 1 .. Len(c) : IsRebound(c[i])}
  BY <1>1 DEF Announced, IsRebound
<1>3. Announced(c) \in SUBSET (1 .. Len(c)) /\ IsFiniteSet(1 .. Len(c))
  <2>1. \A m \in Nat : IsFiniteSet(1 .. m)
    BY FS_Interval
  <2>2. QED
    BY <1>1, <1>2, <2>1
<1>4. IsFiniteSet(Announced(c))
  BY <1>3, FS_Subset
<1>5. QED
  BY <1>2, <1>4, FS_CardinalityType

LEMMA AnnouncedFirst ==
    ASSUME NEW c \in Seq(Frame), c # <<>>, IsRebound(c[1])
    PROVE  Announced(c) # {}
<1>1. 1 \in 1 .. Len(c)
  BY EmptySeq, LenProperties
<1>2. QED
  BY <1>1, AnnouncedIsFinite

LEMMA NoneAnnounced ==
    ASSUME NEW c \in Seq(Frame), NEW d \in Seq(Frame),
           \A i \in 1 .. Len(d) : ~IsRebound(d[i])
    PROVE  Announced(c \o d) = Announced(c)
<1> DEFINE b == c \o d
<1>1. /\ b \in Seq(Frame) /\ Len(b) = Len(c) + Len(d) /\ Len(c) \in Nat /\ Len(d) \in Nat
      /\ \A i \in 1 .. Len(c) + Len(d) :
            b[i] = IF i <= Len(c) THEN c[i] ELSE d[i - Len(c)]
  BY ConcatProperties, LenProperties
<1> HIDE DEF b
<1>2. ASSUME NEW i \in 1 .. Len(b)
      PROVE  \/ i \in 1 .. Len(c) /\ b[i] = c[i]
             \/ i \notin 1 .. Len(c) /\ i - Len(c) \in 1 .. Len(d) /\ b[i] = d[i - Len(c)]
  BY <1>1
<1>3. \A i \in 1 .. Len(c) : i \in 1 .. Len(b)
  BY <1>1
<1>4. /\ Announced(b) = {i \in 1 .. Len(b) : IsRebound(b[i])}
      /\ Announced(c) = {i \in 1 .. Len(c) : IsRebound(c[i])}
  BY <1>1, AnnouncedIsFinite
<1>5. QED
  BY <1>2, <1>3, <1>4 DEF b

LEMMA OneAnnounced ==
    ASSUME NEW c \in Seq(Frame), NEW fr \in Frame
    PROVE  /\ IsRebound(fr) =>
                Cardinality(Announced(Append(c, fr))) = Cardinality(Announced(c)) + 1
           /\ ~IsRebound(fr) => Announced(Append(c, fr)) = Announced(c)
<1> DEFINE a == Append(c, fr)
<1>1. /\ a \in Seq(Frame) /\ Len(a) = Len(c) + 1 /\ a[Len(c) + 1] = fr /\ Len(c) \in Nat
      /\ \A i \in 1 .. Len(c) : a[i] = c[i]
  BY AppendProperties, LenProperties
<1> HIDE DEF a
<1>2. /\ \A i \in 1 .. Len(a) : i \in 1 .. Len(c) \/ i = Len(c) + 1
      /\ Len(c) + 1 \in 1 .. Len(a) /\ Len(c) + 1 \notin 1 .. Len(c)
      /\ \A i \in 1 .. Len(c) : i \in 1 .. Len(a)
  BY <1>1
<1>3. /\ Announced(a) = {i \in 1 .. Len(a) : IsRebound(a[i])}
      /\ Announced(c) = {i \in 1 .. Len(c) : IsRebound(c[i])}
  BY <1>1, AnnouncedIsFinite
<1>4. CASE IsRebound(fr)
  <2>1. Announced(a) = Announced(c) \cup {Len(c) + 1} /\ Len(c) + 1 \notin Announced(c)
    BY <1>1, <1>2, <1>3, <1>4
  <2>2. IsFiniteSet(Announced(c))
    BY AnnouncedIsFinite
  <2>3. Cardinality(Announced(a)) = Cardinality(Announced(c)) + 1
    BY <2>1, <2>2, FS_AddElement
  <2>4. QED
    BY <1>4, <2>3 DEF a
<1>5. CASE ~IsRebound(fr)
  <2>1. Announced(a) = Announced(c)
    BY <1>1, <1>2, <1>3, <1>5
  <2>2. QED
    BY <1>5, <2>1 DEF a
<1>6. QED
  BY <1>4, <1>5

LEMMA AnnouncedTail ==
    ASSUME NEW c \in Seq(Frame), c # <<>>
    PROVE  /\ IsRebound(c[1]) =>
                Cardinality(Announced(Tail(c))) + 1 <= Cardinality(Announced(c))
           /\ Cardinality(Announced(Tail(c))) <= Cardinality(Announced(c))
           /\ Announced(Tail(c)) # {} => Announced(c) # {}
<1> DEFINE b == Tail(c)
           D == Announced(c)
           E == Announced(b)
           f == [i \in E |-> i + 1]
<1>1. /\ b \in Seq(Frame) /\ Len(b) = Len(c) - 1 /\ Len(c) \in Nat /\ Len(c) > 0
      /\ \A i \in 1 .. Len(b) : b[i] = c[i + 1]
  BY HeadTailProperties, LenProperties, EmptySeq
<1> HIDE DEF b
<1>2. /\ D = {i \in 1 .. Len(c) : IsRebound(c[i])} /\ IsFiniteSet(D) /\ Cardinality(D) \in Nat
      /\ E = {i \in 1 .. Len(b) : IsRebound(b[i])} /\ Cardinality(E) \in Nat
  BY <1>1, AnnouncedIsFinite
<1>3. ASSUME NEW i \in E PROVE i + 1 \in D \ {1} /\ i \in Int
  BY <1>1, <1>2
<1>10. E # {} => D # {}
  BY <1>3
<1>4. f \in Injection(E, D \ {1})
  <2>1. f \in [E -> D \ {1}]
    BY <1>3
  <2>2. \A i, j \in E : f[i] = f[j] => i = j
    BY <1>3
  <2>3. QED
    BY <2>1, <2>2 DEF Injection, IsInjective
<1> HIDE DEF f, D, E
<1>5. /\ IsFiniteSet(D \ {1})
      /\ Cardinality(D \ {1}) = IF 1 \in D THEN Cardinality(D) - 1 ELSE Cardinality(D)
  BY <1>2, FS_RemoveElement
<1>6. Cardinality(E) <= Cardinality(D \ {1})
  BY <1>4, <1>5, FS_Injection
<1>7. IsRebound(c[1]) => 1 \in D
  <2>1. 1 \in 1 .. Len(c)
    BY <1>1
  <2>2. QED
    BY <2>1, <1>2
<1>8. /\ IsRebound(c[1]) => Cardinality(E) + 1 <= Cardinality(D)
      /\ Cardinality(E) <= Cardinality(D)
  BY <1>2, <1>5, <1>6, <1>7
<1>9. QED
  BY <1>8, <1>10 DEF D, E, b

-----------------------------------------------------------------------------
(* What a drain, a page and a line are *)

Batch(d) == d \in Seq(Frame) /\ \A i \in 1 .. Len(d) : ~IsRebound(d[i])

LEMMA RunEventIsNoLine ==
    ASSUME clock \in Nat
    PROVE  /\ RunEvent \in LogEvent /\ <<"event", RunEvent>> \in Frame
           /\ RowsOf(Carried(<<"event", RunEvent>>)) = {}
           /\ ~IsRebound(<<"event", RunEvent>>)
<1> DEFINE ev == RunEvent
           fr == <<"event", ev>>
<1>1. ev \in LogEvent /\ ~(ev.offset > 0)
  BY DEF RunEvent, LogEvent
<1>2. fr[1] = "event" /\ fr[2] = ev
  OBVIOUS
<1> HIDE DEF ev
<1>3. fr \in Frame
  BY <1>1 DEF Frame
<1> HIDE DEF fr
<1>4. RowsOf(Carried(fr)) = {}
  BY <1>1, <1>2 DEF RowsOf, Carried
<1>5. ~IsRebound(fr)
  BY <1>2 DEF IsRebound
<1>6. QED
  BY <1>1, <1>3, <1>4, <1>5 DEF fr, ev

LEMMA LineEventIsLine ==
    ASSUME NEW f \in Files, NEW n \in Nat \ {0}
    PROVE  /\ LineEvent(f, n) \in LogEvent /\ <<"event", LineEvent(f, n)>> \in Frame
           /\ LineEvent(f, n).offset = n /\ LineEvent(f, n).row = [file |-> f, line |-> n]
           /\ RowsOf(Carried(<<"event", LineEvent(f, n)>>)) = {[file |-> f, line |-> n]}
           /\ ~IsRebound(<<"event", LineEvent(f, n)>>)
<1> DEFINE ev == LineEvent(f, n)
           fr == <<"event", ev>>
<1>1. ev \in LogEvent /\ ev.offset = n /\ ev.row = [file |-> f, line |-> n] /\ n > 0
  BY DEF LineEvent, LogEvent
<1>2. fr[1] = "event" /\ fr[2] = ev
  OBVIOUS
<1> HIDE DEF ev
<1>3. fr \in Frame
  BY <1>1 DEF Frame
<1> HIDE DEF fr
<1>4. RowsOf(Carried(fr)) = {[file |-> f, line |-> n]}
  BY <1>1, <1>2 DEF RowsOf, Carried
<1>5. ~IsRebound(fr)
  BY <1>2 DEF IsRebound
<1>6. QED
  BY <1>1, <1>3, <1>4, <1>5 DEF fr, ev

\* The lines that a drain sends.
LEMMA LinesAreLines ==
    ASSUME NEW f \in Files, NEW a \in Nat, NEW b \in Nat, a < b
    PROVE  /\ Batch(Lines(f, a, b)) /\ Lines(f, a, b) # <<>>
           /\ Brought(Lines(f, a, b)) = {[file |-> f, line |-> m] : m \in a + 1 .. b}
<1> DEFINE n == b - a
           e(i) == <<"event", LineEvent(f, a + i)>>
           d == Lines(f, a, b)
<1>1. n \in Nat /\ n > 0
  OBVIOUS
<1>2. ASSUME NEW i \in 1 .. n PROVE a + i \in Nat \ {0} /\ a + i \in a + 1 .. b
  OBVIOUS
<1>3. \A i \in 1 .. n : /\ e(i) \in Frame /\ ~IsRebound(e(i))
                        /\ RowsOf(Carried(e(i))) = {[file |-> f, line |-> a + i]}
  BY <1>2, LineEventIsLine
<1>4. d = [i \in 1 .. n |-> e(i)]
  BY DEF Lines
<1> HIDE DEF e, d, n
<1>5. [i \in 1 .. n |-> e(i)] \in Seq(Frame)
  BY <1>1, <1>3, IsASeq
<1>6. d \in Seq(Frame) /\ Len(d) = n /\ \A i \in 1 .. n : d[i] = e(i)
  BY <1>1, <1>4, <1>5
<1>7. Batch(d)
  BY <1>3, <1>6 DEF Batch
<1>8. d # <<>>
  BY <1>1, <1>6, EmptySeq
<1>9. ASSUME NEW m \in a + 1 .. b PROVE [file |-> f, line |-> m] \in Brought(d)
  <2>1. m - a \in 1 .. n /\ a + (m - a) = m /\ m \in Nat \ {0}
    BY DEF n
  <2>2. [file |-> f, line |-> m] \in RowsOf(Carried(d[m - a]))
    BY <1>3, <1>6, <2>1
  <2>3. QED
    BY <1>6, <2>1, <2>2 DEF Brought, LogRow
<1>10. ASSUME NEW r \in Brought(d) PROVE \E m \in a + 1 .. b : r = [file |-> f, line |-> m]
  <2>1. PICK i \in 1 .. n : r \in RowsOf(Carried(d[i]))
    BY <1>6 DEF Brought
  <2>2. r = [file |-> f, line |-> a + i]
    BY <1>3, <1>6, <2>1
  <2>3. a + i \in a + 1 .. b
    BY DEF n
  <2>4. QED
    BY <2>2, <2>3
<1>11. QED
  BY <1>7, <1>8, <1>9, <1>10 DEF d

\* The RUN event goes in after the first of the frames, or alone.
LEMMA Entered ==
    ASSUME clock \in Nat, toPwa \in Seq(Frame), NEW next, NEW frames, Batch(frames),
           EnterStateAfter(next, frames)
    PROVE  /\ \E d \in Seq(Frame) :
                Batch(d) /\ toPwa' = toPwa \o d /\ Brought(d) = Brought(frames)
           /\ clock' \in Nat
           /\ state' = IF state = "gone" THEN state ELSE next
<1> DEFINE fr == <<"event", RunEvent>>
           put == InsertAt(frames, 2, fr)
<1>1. fr \in Frame /\ RowsOf(Carried(fr)) = {} /\ ~IsRebound(fr)
  BY RunEventIsNoLine
<1> HIDE DEF fr
<1>2. CASE state \in {"gone", next}
  BY <1>2 DEF EnterStateAfter, Batch
<1>3. CASE state \notin {"gone", next} /\ frames = <<>>
  <2> DEFINE d == <<fr>>
  <2>1. d \in Seq(Frame) /\ Len(d) = 1 /\ d[1] = fr
    BY <1>1
  <2>2. toPwa' = toPwa \o d /\ state' = next /\ clock' = clock + 1
    BY <1>3 DEF EnterStateAfter, fr
  <2> HIDE DEF d
  <2>3. 1 .. Len(d) = {1} /\ 1 .. Len(<<>>) = {}
    BY <2>1, EmptySeq
  <2>4. Batch(d)
    BY <1>1, <2>1, <2>3 DEF Batch
  <2>5. Brought(d) = {} /\ Brought(frames) = {}
    BY <1>1, <1>3, <2>1, <2>3 DEF Brought
  <2>6. Batch(d) /\ toPwa' = toPwa \o d /\ Brought(d) = Brought(frames)
    BY <2>2, <2>4, <2>5
  <2>7. clock' \in Nat /\ state' = IF state = "gone" THEN state ELSE next
    BY <1>3, <2>2
  <2>8. QED
    BY <2>1, <2>6, <2>7
<1>4. CASE state \notin {"gone", next} /\ frames # <<>>
  <2> DEFINE n == Len(frames)
             h == SubSeq(frames, 1, 1)
             t == SubSeq(frames, 2, n)
             m == <<fr>>
  <2>1. frames \in Seq(Frame) /\ n \in Nat /\ n > 0 /\ \A i \in 1 .. n : frames[i] \in Frame
    BY <1>4, EmptySeq, ElementOfSeq, LenProperties DEF Batch
  <2> HIDE DEF n
  <2>2. /\ h \in Seq(Frame) /\ Len(h) = 1 /\ h[1] = frames[1]
    <3>1. \A i \in 1 .. 1 : frames[i] \in Frame
      BY <2>1
    <3>2. /\ h \in Seq(Frame) /\ Len(h) = IF 1 <= 1 THEN 1 - 1 + 1 ELSE 0
          /\ \A i \in 1 .. 1 - 1 + 1 : h[i] = frames[1 + i - 1]
      BY <3>1, SubSeqProperties
    <3> HIDE DEF h
    <3>3. QED
      BY <3>2
  <2>3. /\ t \in Seq(Frame) /\ Len(t) = n - 1
        /\ \A i \in 1 .. n - 1 : t[i] = frames[i + 1]
    <3>1. \A i \in 2 .. n : frames[i] \in Frame
      BY <2>1
    <3>2. /\ t \in Seq(Frame) /\ Len(t) = IF 2 <= n THEN n - 2 + 1 ELSE 0
          /\ \A i \in 1 .. n - 2 + 1 : t[i] = frames[2 + i - 1]
      BY <2>1, <3>1, SubSeqProperties
    <3> HIDE DEF t
    <3>3. Len(t) = n - 1
      BY <2>1, <3>2
    <3>4. ASSUME NEW i \in 1 .. n - 1 PROVE t[i] = frames[i + 1]
      <4>1. i \in 1 .. n - 2 + 1 /\ 2 + i - 1 = i + 1
        BY <2>1
      <4>2. QED
        BY <3>2, <4>1
    <3>5. QED
      BY <3>2, <3>3, <3>4
  <2>4. m \in Seq(Frame) /\ Len(m) = 1 /\ m[1] = fr
    BY <1>1
  <2>5. put = h \o m \o t
    BY DEF InsertAt, n
  <2> HIDE DEF h, t, m, put
  <2>6. /\ h \o m \in Seq(Frame) /\ Len(h \o m) = 2
        /\ (h \o m)[1] = frames[1] /\ (h \o m)[2] = fr
    <3>1. /\ h \o m \in Seq(Frame) /\ Len(h \o m) = Len(h) + Len(m)
          /\ \A i \in 1 .. Len(h) + Len(m) :
                (h \o m)[i] = IF i <= Len(h) THEN h[i] ELSE m[i - Len(h)]
      BY <2>2, <2>4, ConcatProperties
    <3>2. QED
      BY <2>2, <2>4, <3>1
  <2>7. /\ put \in Seq(Frame) /\ Len(put) = n + 1
        /\ put[1] = frames[1] /\ put[2] = fr
        /\ \A i \in 3 .. n + 1 : put[i] = frames[i - 1]
    <3> DEFINE p == h \o m
    <3> HIDE DEF p
    <3>1. p \in Seq(Frame) /\ Len(p) = 2 /\ p[1] = frames[1] /\ p[2] = fr /\ put = p \o t
      BY <2>5, <2>6 DEF p
    <3>2. /\ p \o t \in Seq(Frame) /\ Len(p \o t) = Len(p) + Len(t)
          /\ \A i \in 1 .. Len(p) + Len(t) :
                (p \o t)[i] = IF i <= Len(p) THEN p[i] ELSE t[i - Len(p)]
      BY <2>3, <3>1, ConcatProperties
    <3>3. put \in Seq(Frame) /\ Len(put) = n + 1
      BY <2>1, <2>3, <3>1, <3>2
    <3>4. put[1] = frames[1] /\ put[2] = fr
      <4>1. /\ 1 \in 1 .. Len(p) + Len(t) /\ 1 <= Len(p)
            /\ 2 \in 1 .. Len(p) + Len(t) /\ 2 <= Len(p)
        BY <2>1, <2>3, <3>1
      <4>2. QED
        BY <3>1, <3>2, <4>1
    <3>5. ASSUME NEW i \in 3 .. n + 1 PROVE put[i] = frames[i - 1]
      <4>1. i \in 1 .. Len(p) + Len(t) /\ ~(i <= Len(p)) /\ i - Len(p) = i - 2
            /\ i - 2 \in 1 .. n - 1 /\ i - 2 + 1 = i - 1
        BY <2>1, <2>3, <3>1
      <4>2. put[i] = t[i - 2] /\ t[i - 2] = frames[i - 2 + 1]
        BY <2>3, <3>1, <3>2, <4>1
      <4>3. QED
        BY <4>1, <4>2
    <3>6. QED
      BY <3>3, <3>4, <3>5
  <2>8. toPwa' = toPwa \o put /\ state' = next /\ clock' = clock + 1
    BY <1>4 DEF EnterStateAfter, fr, put
  <2>9. \A i \in 1 .. Len(put) : put[i] = fr \/ \E k \in 1 .. n : put[i] = frames[k]
    <3> SUFFICES ASSUME NEW i \in 1 .. Len(put)
                 PROVE  put[i] = fr \/ \E k \in 1 .. n : put[i] = frames[k]
      OBVIOUS
    <3>1. i = 1 \/ i = 2 \/ (i \in 3 .. n + 1 /\ i - 1 \in 1 .. n)
      BY <2>1, <2>7
    <3>2. 1 \in 1 .. n
      BY <2>1
    <3>3. QED
      BY <2>7, <3>1, <3>2
  <2>10. \A k \in 1 .. n : \E i \in 1 .. Len(put) : put[i] = frames[k]
    <3> SUFFICES ASSUME NEW k \in 1 .. n PROVE \E i \in 1 .. Len(put) : put[i] = frames[k]
      OBVIOUS
    <3>1. k = 1 \/ (k + 1 \in 3 .. n + 1 /\ k + 1 - 1 = k)
      BY <2>1
    <3>2. 1 \in 1 .. Len(put) /\ k + 1 \in 1 .. Len(put)
      BY <2>1, <2>7
    <3>3. QED
      BY <2>7, <3>1, <3>2
  <2>11. Batch(put)
    BY <1>1, <2>7, <2>9 DEF Batch, n
  <2>12. Brought(put) = Brought(frames)
    <3>1. Len(frames) = n
      BY DEF n
    <3>2. QED
      BY <1>1, <2>9, <2>10, <3>1 DEF Brought
  <2>13. QED
    BY <1>4, <2>7, <2>8, <2>11, <2>12
<1>5. QED
  BY <1>2, <1>3, <1>4

\* Line m of file f as the timeline shows it.
LineOf(f, m) == [file |-> f, line |-> m]

\* A page of history: lines a + 1 to c, and c is the last line there is or the
\* one that was asked for.
LEMMA PageIsLines ==
    ASSUME NEW f \in Files, size[f] \in Nat, NEW before \in Int
    PROVE  /\ <<"history_chunk", ReadHistory(f, before)>> \in Frame
           /\ ~IsRebound(<<"history_chunk", ReadHistory(f, before)>>)
           /\ \E a, c \in Nat :
                /\ a <= c /\ c <= size[f] /\ (a < c => c = size[f] \/ c = before)
                /\ RowsOf(Carried(<<"history_chunk", ReadHistory(f, before)>>))
                        = {LineOf(f, m) : m \in a + 1 .. c}
<1> DEFINE n == size[f]
           lines == {m \in 1 .. n : m <= before}
           count == Cardinality(lines)
           k == IF count < Pages THEN count ELSE Pages
           e(i) == LineEvent(f, i + count - k)
           p == ReadHistory(f, before)
           fr == <<"history_chunk", p>>
<1>1. fr[1] = "history_chunk" /\ fr[2] = p
  OBVIOUS
<1>2. ASSUME IsBuffer(p)
      PROVE  /\ fr \in Frame /\ ~IsRebound(fr)
             /\ RowsOf(Carried(fr)) = RowsOf(Range(p))
  <2>1. p \in Seq(LogEvent) /\ Range(p) \subseteq LogEvent
    BY <1>2, BufferRange DEF IsBuffer
  <2>2. fr \in Frame
    BY <1>2, <2>1 DEF Frame
  <2>3. ~IsRebound(fr)
    BY <1>1 DEF IsRebound
  <2>4. Carried(fr) = Range(p)
    BY <1>1, <2>1 DEF Carried
  <2>5. QED
    BY <2>2, <2>3, <2>4
<1>3. CASE before <= 0
  <2>1. p = <<>>
    BY <1>3 DEF ReadHistory
  <2>2. IsBuffer(p) /\ Range(p) = {}
    BY <2>1, EmptyBuffer
  <2> HIDE DEF p
  <2>3. RowsOf(Carried(fr)) = {}
    BY <1>2, <2>2 DEF RowsOf
  <2>4. {LineOf(f, m) : m \in 0 + 1 .. 0} = {} /\ 0 <= n
    OBVIOUS
  <2>5. QED
    BY <1>2, <2>2, <2>3, <2>4 DEF p
<1>4. CASE before > 0
  <2> DEFINE c == IF before < n THEN before ELSE n
  <2>1. c \in Nat /\ c <= n /\ (c = n \/ c = before)
    BY <1>4
  <2>2. lines = 1 .. c
    BY <1>4
  <2>3. \A m \in Nat : IsFiniteSet(1 .. m) /\ Cardinality(1 .. m) = m
    <3> SUFFICES ASSUME NEW m \in Nat PROVE IsFiniteSet(1 .. m) /\ Cardinality(1 .. m) = m
      OBVIOUS
    <3>1. /\ IsFiniteSet(1 .. m)
          /\ Cardinality(1 .. m) = IF 1 > m THEN 0 ELSE m - 1 + 1
      BY FS_Interval
    <3>2. QED
      BY <3>1
  <2> HIDE DEF c, lines
  <2>4. count = c
    BY <2>1, <2>2, <2>3
  <2>5. k \in Nat /\ k <= c
    BY <2>1, <2>4, LimitAssumption
  <2> DEFINE a == c - k
  <2>6. a \in Nat /\ a <= c
    BY <2>1, <2>5
  <2>7. p = [i \in 1 .. k |-> e(i)]
    BY <1>4 DEF ReadHistory, lines
  <2> HIDE DEF p, k, count
  <2>8. \A i \in 1 .. k : i + count - k = a + i /\ a + i \in Nat \ {0} /\ a + i \in a + 1 .. c
    BY <2>1, <2>4, <2>5
  <2>9. \A i \in 1 .. k : /\ e(i) \in LogEvent /\ e(i).offset = a + i
                          /\ e(i).row = LineOf(f, a + i)
    <3> SUFFICES ASSUME NEW i \in 1 .. k
                 PROVE  /\ e(i) \in LogEvent /\ e(i).offset = a + i
                        /\ e(i).row = LineOf(f, a + i)
      OBVIOUS
    <3> DEFINE m == a + i
    <3>1. m \in Nat \ {0} /\ e(i) = LineEvent(f, m)
      BY <2>8
    <3> HIDE DEF e, m
    <3>2. /\ LineEvent(f, m) \in LogEvent /\ LineEvent(f, m).offset = m
          /\ LineEvent(f, m).row = LineOf(f, m)
      BY <3>1, LineEventIsLine DEF LineOf
    <3>3. e(i) \in LogEvent /\ e(i).offset = m /\ e(i).row = LineOf(f, m)
      BY <3>1, <3>2, Zenon
    <3>4. QED
      BY <3>3 DEF m
  <2> HIDE DEF e
  <2>10. [i \in 1 .. k |-> e(i)] \in Seq(LogEvent)
    BY <2>5, <2>9, IsASeq
  <2>11. p \in Seq(LogEvent) /\ Len(p) = k /\ \A i \in 1 .. k : p[i] = e(i)
    BY <2>5, <2>7, <2>10
  <2>12. IsBuffer(p)
    <3>1. \A i, j \in 1 .. k : a + i = a + j => i = j
      BY <2>5, <2>6
    <3>2. QED
      BY <2>9, <2>11, <3>1 DEF IsBuffer
  <2> HIDE DEF a
  <2>13. RowsOf(Range(p)) = {LineOf(f, m) : m \in a + 1 .. c}
    <3>1. ASSUME NEW r \in RowsOf(Range(p)) PROVE \E m \in a + 1 .. c : r = LineOf(f, m)
      <4>1. PICK i \in 1 .. k : r = p[i].row
        BY <2>11, SeqRange DEF RowsOf
      <4>2. QED
        BY <2>8, <2>9, <2>11, <4>1
    <3>2. ASSUME NEW m \in a + 1 .. c PROVE LineOf(f, m) \in RowsOf(Range(p))
      <4>1. m - a \in 1 .. k /\ a + (m - a) = m /\ m > 0
        BY <2>1, <2>5, <2>6 DEF a
      <4>2. p[m - a] \in Range(p)
        BY <2>11, <4>1, SeqRange
      <4>3. p[m - a].row = LineOf(f, m) /\ p[m - a].offset > 0
        BY <2>9, <2>11, <4>1
      <4>4. QED
        BY <4>2, <4>3 DEF RowsOf
    <3>3. QED
      BY <3>1, <3>2
  <2>14. /\ a <= c /\ c <= n /\ (a < c => c = n \/ c = before)
         /\ RowsOf(Carried(fr)) = {LineOf(f, m) : m \in a + 1 .. c}
    BY <1>2, <2>1, <2>6, <2>12, <2>13
  <2>15. QED
    BY <1>2, <2>1, <2>6, <2>12, <2>14 DEF p
<1> HIDE DEF p, fr, k, lines, count, n
<1>5. before <= 0 \/ before > 0
  OBVIOUS
<1>6. QED
  BY <1>3, <1>4, <1>5

\* As long as not all lines are written, every file has room for one.
LEMMA RoomForALine ==
    ASSUME size \in [Files -> 0 .. MaxLines], Cardinality(Written) < MaxLines, NEW f \in Files
    PROVE  size[f] + 1 \in 0 .. MaxLines
<1> DEFINE X == [file : Files, line : 1 .. MaxLines]
           g == [r \in X |-> <<r.file, r.line>>]
           U == {LineOf(f, m) : m \in 1 .. MaxLines}
           h == [m \in 1 .. MaxLines |-> LineOf(f, m)]
<1>1. MaxLines \in Nat /\ size[f] \in 0 .. MaxLines
  BY LimitAssumption
<1>2. IsFiniteSet(1 .. MaxLines) /\ Cardinality(1 .. MaxLines) = MaxLines
  <2>1. /\ IsFiniteSet(1 .. MaxLines)
        /\ Cardinality(1 .. MaxLines) = IF 1 > MaxLines THEN 0 ELSE MaxLines - 1 + 1
    BY <1>1, FS_Interval
  <2>2. QED
    BY <1>1, <2>1
<1>3. IsFiniteSet(Files \X (1 .. MaxLines))
  BY <1>2, FilesAssumption, FS_Product
<1>4. g \in Injection(X, Files \X (1 .. MaxLines))
  BY DEF Injection, IsInjective
<1>5. IsFiniteSet(X)
  <2> HIDE DEF g, X
  <2>1. QED
    BY <1>3, <1>4, FS_Injection
<1>6. IsFiniteSet(Written) /\ Cardinality(Written) \in Nat
  <2>1. Written \in SUBSET X
    BY DEF Written
  <2> HIDE DEF X
  <2>2. IsFiniteSet(Written)
    BY <1>5, <2>1, FS_Subset
  <2>3. QED
    BY <2>2, FS_CardinalityType
<1>7. ASSUME size[f] = MaxLines PROVE FALSE
  <2>1. h \in Injection(1 .. MaxLines, Written)
    <3>1. \A m \in 1 .. MaxLines : LineOf(f, m) \in Written
      BY <1>7 DEF LineOf, Written
    <3>2. h \in [1 .. MaxLines -> Written]
      BY <3>1
    <3>3. \A m, n \in 1 .. MaxLines : h[m] = h[n] => m = n
      BY DEF LineOf
    <3>4. QED
      BY <3>2, <3>3 DEF Injection, IsInjective
  <2> HIDE DEF h
  <2>2. Cardinality(1 .. MaxLines) <= Cardinality(Written)
    BY <1>6, <2>1, FS_Injection
  <2>3. QED
    BY <1>1, <1>2, <1>6, <2>2
<1>8. QED
  BY <1>1, <1>7

LEMMA Spends ==
    ASSUME spent \in [Events -> Nat], NEW e \in Events, Spend(e)
    PROVE  /\ spent' \in [Events -> Nat]
           /\ spent'[e] = spent[e] + 1
           /\ \A x \in Events \ {e} : spent'[x] = spent[x]
<1>1. spent' = [spent EXCEPT ![e] = @ + 1]
  BY DEF Spend
<1>2. QED
  BY <1>1

-----------------------------------------------------------------------------
(* The inductive invariant *)

TypesInv ==
    /\ size \in [Files -> 0 .. MaxLines] /\ fresh \subseteq Files /\ talks \in Files
    /\ rotates \in BOOLEAN /\ registered \in BOOLEAN
    /\ known \in Files \cup {None} /\ bound \in Files \cup {None}
    /\ resolved \in Seq(Files) /\ binds \in Seq(SUBSET Files)
    /\ armed \in BOOLEAN /\ idleTimer \in BOOLEAN
    /\ state \in {"gone", "idle", "working"}
    /\ toPwa \in Seq(Frame) /\ asked \in Seq(Int) /\ pwa \in View
    /\ clock \in Nat /\ spent \in [Events -> Nat]

\* Only files that have lines are found, told and learnt.
WrittenInv ==
    /\ \A f \in fresh : size[f] > 0
    /\ known # None => size[known] > 0
    /\ \A i \in 1 .. Len(resolved) : size[resolved[i]] > 0
    /\ \A i \in 1 .. Len(binds) : \A f \in binds[i] : size[f] > 0

\* What the plugin knows, or will know when it has been told all.
Current == IF resolved = <<>> THEN known ELSE resolved[Len(resolved)]

\* The plugin is away; its session waits for a file; its file is read, up to
\* line o.
Away ==
    /\ ~registered /\ resolved = <<>> /\ binds = <<>>
    /\ tails = {} /\ dirs = {} /\ bound = None /\ state = "gone"
Waiting ==
    /\ registered /\ known = None /\ resolved = <<>> /\ Len(binds) = 1
    /\ tails = {} /\ dirs = {} /\ bound = None /\ state # "gone"
Watching(o, h) ==
    /\ registered /\ binds = <<>> /\ state # "gone"
    /\ bound \in Files /\ bound = Current /\ o <= size[bound]
    /\ tails = {[id |-> watcher, file |-> bound, offset |-> o]}
    /\ dirs = {[id |-> dirWatcher, heard |-> h]}
BindInv == Away \/ Waiting \/ \E o \in Nat, h \in SUBSET Files : Watching(o, h)

\* Up to where the file is read.
Depth == IF tails = {} THEN 0 ELSE (CHOOSE w \in tails : TRUE).offset

\* What the timeline will show when the frames on their way have arrived.
Showing == Will(Range(pwa.events), toPwa)

\* W are lines of file f, which has `top` of them.  A line that is read is there
\* if an earlier one is, or if a page up to it is asked for, as long as there is
\* room in the buffer, and all of them are after a rebound.
Holds(W, f, top, d, requests, anew, room) ==
    /\ \A r \in W : r.file = f /\ f \in Files /\ r.line \in 1 .. top
    /\ room => \A r \in W : \A m \in r.line .. d : LineOf(f, m) \in W
    /\ room => \A i \in 1 .. Len(requests) :
          requests[i] > 0 => \A m \in requests[i] .. d : LineOf(f, m) \in W
    /\ anew => \A m \in 1 .. d : LineOf(f, m) \in W

HoldInv ==
    Holds(Showing, Current, size[Current], Depth, asked, Announced(toPwa) # {},
          Len(pwa.events) < Buffer)

PathInv ==
    TypesInv /\ WrittenInv /\ BindInv /\ HoldInv /\ WorkingIsTimed /\ RebindsAreAskedFor

-----------------------------------------------------------------------------
(* What keeps Holds *)

LEMMA HoldStands ==
    ASSUME HoldInv, UNCHANGED <<pwa.events, toPwa, known, resolved, size, asked>>,
           Depth' = Depth
    PROVE  HoldInv'
<1>1. Showing' = Showing /\ Current' = Current /\ Announced(toPwa)' = Announced(toPwa)
  BY DEF Showing, Current, Announced
<1>2. size[Current]' = size[Current]
  BY <1>1
<1>3. QED
  BY <1>1, <1>2 DEF HoldInv

\* More lines are written.
LEMMA HoldsLonger ==
    ASSUME NEW W, NEW f, NEW top \in Nat, NEW top2 \in Nat, NEW d, NEW requests, NEW anew,
           NEW room,
           Holds(W, f, top, d, requests, anew, room), top <= top2
    PROVE  Holds(W, f, top2, d, requests, anew, room)
<1>1. \A x \in 1 .. top : x \in 1 .. top2
  OBVIOUS
<1>2. QED
  BY <1>1 DEF Holds

\* Nothing is read yet.
LEMMA HoldsUnread ==
    ASSUME NEW W \in SUBSET LogRow, NEW f, NEW top, NEW requests \in Seq(Int), NEW anew,
           NEW room,
           \A r \in W : r.file = f /\ f \in Files /\ r.line \in 1 .. top
    PROVE  Holds(W, f, top, 0, requests, anew, room)
<1>1. \A n \in Int : n > 0 => n .. 0 = {}
  OBVIOUS
<1>2. \A r \in W : r.line \in Int /\ r.line > 0
  BY DEF LogRow
<1>3. \A i \in 1 .. Len(requests) : requests[i] \in Int
  BY ElementOfSeq
<1>4. 1 .. 0 = {}
  BY <1>1
<1>5. QED
  BY <1>1, <1>2, <1>3, <1>4 DEF Holds

\* All lines are read.
LEMMA HoldsDrained ==
    ASSUME NEW W \in SUBSET LogRow, NEW f \in Files, NEW top \in Nat, NEW d \in Nat, d <= top,
           NEW requests \in Seq(Int), NEW anew, NEW room,
           Holds(W, f, top, d, requests, anew, room)
    PROVE  Holds(W \cup {LineOf(f, m) : m \in d + 1 .. top}, f, top, top, requests, anew, room)
<1> DEFINE V == W \cup {LineOf(f, m) : m \in d + 1 .. top}
<1>1. ASSUME NEW n \in Int, \A m \in n .. d : LineOf(f, m) \in W
      PROVE  \A m \in n .. top : LineOf(f, m) \in V
  <2> SUFFICES ASSUME NEW m \in n .. top PROVE LineOf(f, m) \in V
    OBVIOUS
  <2>1. m \in n .. d \/ m \in d + 1 .. top
    OBVIOUS
  <2>2. QED
    BY <1>1, <2>1
<1>2. \A i \in 1 .. Len(requests) : requests[i] \in Int
  BY ElementOfSeq
<1>3. ASSUME NEW r \in V
      PROVE  /\ r.file = f /\ r.line \in 1 .. top
             /\ room => \A m \in r.line .. top : LineOf(f, m) \in V
  <2>1. CASE r \in W
    <3>1. r.line \in Int /\ r.file = f /\ r.line \in 1 .. top
      BY <2>1 DEF Holds, LogRow
    <3>2. room => \A m \in r.line .. d : LineOf(f, m) \in W
      BY <2>1 DEF Holds
    <3> HIDE DEF V
    <3>3. QED
      BY <1>1, <3>1, <3>2
  <2>2. CASE \E k \in d + 1 .. top : r = LineOf(f, k)
    <3>1. PICK k \in d + 1 .. top : r = LineOf(f, k)
      BY <2>2
    <3>2. r.file = f /\ r.line = k /\ k \in 1 .. top
      BY <3>1 DEF LineOf
    <3>3. \A m \in k .. top : m \in d + 1 .. top
      OBVIOUS
    <3>4. QED
      BY <3>2, <3>3
  <2>3. QED
    BY <2>1, <2>2
<1>4. ASSUME room, NEW i \in 1 .. Len(requests), requests[i] > 0
      PROVE  \A m \in requests[i] .. top : LineOf(f, m) \in V
  <2>1. \A m \in requests[i] .. d : LineOf(f, m) \in W
    BY <1>4 DEF Holds
  <2> HIDE DEF V
  <2>2. QED
    BY <1>1, <1>2, <2>1
<1>5. ASSUME anew PROVE \A m \in 1 .. top : LineOf(f, m) \in V
  <2>1. \A m \in 1 .. d : LineOf(f, m) \in W
    BY <1>5 DEF Holds
  <2> HIDE DEF V
  <2>2. QED
    BY <1>1, <2>1
<1> HIDE DEF V
<1>6. Holds(V, f, top, top, requests, anew, room)
  BY <1>3, <1>4, <1>5 DEF Holds
<1>7. QED
  BY <1>6 DEF V

\* The first request is answered: lines a + 1 to c.
LEMMA HoldsAnswered ==
    ASSUME NEW W \in SUBSET LogRow, NEW f \in Files, NEW top \in Nat, NEW d \in Nat, d <= top,
           NEW requests \in Seq(Int), requests # <<>>, NEW anew, NEW room,
           NEW a \in Nat, NEW c \in Nat, a <= c, c <= top,
           a < c => c = top \/ c = requests[1],
           Holds(W, f, top, d, requests, anew, room)
    PROVE  Holds(W \cup {LineOf(f, m) : m \in a + 1 .. c}, f, top, d, Tail(requests), anew,
                 room)
<1> DEFINE V == W \cup {LineOf(f, m) : m \in a + 1 .. c}
<1>1. /\ Len(requests) \in Nat /\ Len(requests) > 0
      /\ \A i \in 1 .. Len(requests) : requests[i] \in Int
      /\ Len(Tail(requests)) = Len(requests) - 1
      /\ \A i \in 1 .. Len(Tail(requests)) : Tail(requests)[i] = requests[i + 1]
  BY ElementOfSeq, LenProperties, EmptySeq, HeadTailProperties
<1>2. ASSUME NEW r \in V
      PROVE  /\ r.file = f /\ r.line \in 1 .. top
             /\ room => \A m \in r.line .. d : LineOf(f, m) \in V
  <2>1. CASE r \in W
    BY <2>1 DEF Holds
  <2>2. CASE \E k \in a + 1 .. c : r = LineOf(f, k)
    <3>1. PICK k \in a + 1 .. c : r = LineOf(f, k)
      BY <2>2
    <3>2. r.file = f /\ r.line = k /\ k \in 1 .. top /\ a < c
      BY <3>1 DEF LineOf
    <3>3. ASSUME room, NEW m \in k .. d PROVE LineOf(f, m) \in V
      <4>1. m \in a + 1 .. c \/ m > c
        OBVIOUS
      <4>2. ASSUME m > c PROVE LineOf(f, m) \in W
        <5>1. c = requests[1] /\ c > 0 /\ m \in c .. d
          BY <3>2, <4>2
        <5>2. 1 \in 1 .. Len(requests)
          BY <1>1
        <5>3. QED
          BY <3>3, <5>1, <5>2 DEF Holds
      <4>3. QED
        BY <4>1, <4>2
    <3>4. QED
      BY <3>2, <3>3
  <2>3. QED
    BY <2>1, <2>2
<1>3. ASSUME room, NEW i \in 1 .. Len(Tail(requests)), Tail(requests)[i] > 0
      PROVE  \A m \in Tail(requests)[i] .. d : LineOf(f, m) \in V
  <2>1. i + 1 \in 1 .. Len(requests) /\ Tail(requests)[i] = requests[i + 1]
    BY <1>1
  <2>2. QED
    BY <1>3, <2>1 DEF Holds
<1>4. anew => \A m \in 1 .. d : LineOf(f, m) \in V
  BY DEF Holds
<1> HIDE DEF V
<1>5. Holds(V, f, top, d, Tail(requests), anew, room)
  BY <1>2, <1>3, <1>4 DEF Holds
<1>6. QED
  BY <1>5 DEF V

\* A page is asked for, up to line n.
LEMMA HoldsAsked ==
    ASSUME NEW W, NEW f, NEW top, NEW d \in Nat, NEW requests \in Seq(Int), NEW anew, NEW room,
           NEW n \in Int, room /\ n > 0 => \A m \in n .. d : LineOf(f, m) \in W,
           Holds(W, f, top, d, requests, anew, room)
    PROVE  Holds(W, f, top, d, Append(requests, n), anew, room)
<1>1. /\ Len(Append(requests, n)) = Len(requests) + 1 /\ Len(requests) \in Nat
      /\ \A i \in 1 .. Len(requests) : Append(requests, n)[i] = requests[i]
      /\ Append(requests, n)[Len(requests) + 1] = n
  BY AppendProperties, LenProperties
<1>2. \A i \in 1 .. Len(Append(requests, n)) : i = Len(requests) + 1 \/ i \in 1 .. Len(requests)
  BY <1>1
<1>3. QED
  BY <1>1, <1>2 DEF Holds

\* Nothing that is read is missing: then it may be counted on after a rebound.
LEMMA HoldsWhole ==
    ASSUME NEW W \in SUBSET LogRow, NEW f, NEW top, NEW d \in Nat, NEW requests \in Seq(Int),
           NEW was, NEW room, NEW anew, NEW room2,
           Holds(W, f, top, d, requests, was, room), was
    PROVE  Holds(W, f, top, d, requests, anew, room2)
<1>1. \A m \in 1 .. d : LineOf(f, m) \in W
  BY DEF Holds
<1>2. \A n \in Int : n > 0 => \A m \in n .. d : m \in 1 .. d
  OBVIOUS
<1>3. /\ \A r \in W : r.line \in Int /\ r.line > 0
      /\ \A i \in 1 .. Len(requests) : requests[i] \in Int
  BY ElementOfSeq DEF LogRow
<1>4. QED
  BY <1>1, <1>2, <1>3 DEF Holds

LEMMA DepthIs ==
    /\ Away \/ Waiting => Depth = 0
    /\ \A o, h : Watching(o, h) => Depth = o
<1>1. Away \/ Waiting => Depth = 0
  BY DEF Away, Waiting, Depth
<1>2. ASSUME NEW o, NEW h, Watching(o, h) PROVE Depth = o
  <2> DEFINE w == [id |-> watcher, file |-> bound, offset |-> o]
  <2>1. tails = {w} /\ w.offset = o
    BY <1>2 DEF Watching
  <2> HIDE DEF w
  <2>2. QED
    BY <2>1 DEF Depth
<1>3. QED
  BY <1>1, <1>2

LEMMA ShowingAre ==
    ASSUME TypesInv
    PROVE  /\ Showing \in SUBSET LogRow
           /\ pwa.events \in Seq(LogEvent) /\ IsBuffer(pwa.events)
           /\ Range(pwa.events) \in SUBSET LogEvent
           /\ toPwa \in Seq(Frame)
<1>1. pwa.events \in Seq(LogEvent) /\ IsBuffer(pwa.events) /\ toPwa \in Seq(Frame)
  BY DEF TypesInv, View
<1>2. Range(pwa.events) \in SUBSET LogEvent
  BY <1>1, BufferRange
<1>3. Showing \in SUBSET LogRow
  BY WillBeRows DEF Showing
<1>4. QED
  BY <1>1, <1>2, <1>3

\* A session without a file shows nothing.
LEMMA NothingUnknown ==
    ASSUME HoldInv, Current = None PROVE Showing = {}
BY NoneIsNoFile DEF HoldInv, Holds

\* The plugin is told of a file.
LEMMA Told ==
    ASSUME resolved \in Seq(Files), NEW f \in Files, resolved' = Append(resolved, f)
    PROVE  /\ resolved' \in Seq(Files) /\ Current' = f
           /\ Len(resolved') = Len(resolved) + 1 /\ Len(resolved) \in Nat
           /\ \A i \in 1 .. Len(resolved') : resolved'[i] = f \/ \E k \in 1 .. Len(resolved) :
                                                                      resolved'[i] = resolved[k]
<1>1. /\ resolved' \in Seq(Files) /\ resolved' # <<>>
      /\ Len(resolved') = Len(resolved) + 1 /\ Len(resolved) \in Nat
      /\ resolved'[Len(resolved) + 1] = f
      /\ \A i \in 1 .. Len(resolved) : resolved'[i] = resolved[i]
  BY AppendProperties, LenProperties
<1>2. Current' = f
  BY <1>1 DEF Current
<1>3. \A i \in 1 .. Len(resolved') : i = Len(resolved) + 1 \/ i \in 1 .. Len(resolved)
  BY <1>1
<1>4. QED
  BY <1>1, <1>2, <1>3

-----------------------------------------------------------------------------
(* Claude *)

\* Handlers that leave what is read, what is shown and what is asked for.
LEMMA QuietStep ==
    ASSUME PathInv,
           UNCHANGED <<size, talks, plugin, binds, tails, watcher, dirWatcher, bound, state,
                       toPwa, asked, clock, pwa.events, pwa.turned>>,
           fresh' \subseteq fresh, rotates' \in BOOLEAN, armed' \in BOOLEAN,
           idleTimer' = idleTimer,
           pwa' \in View, dirs' = dirs,
           spent' \in [Events -> Nat], spent'["command"] >= spent["command"],
           armed' = armed \/ armed' = FALSE \/ spent'["command"] = spent["command"] + 1
    PROVE  PathInv'
<1>1. TypesInv'
  BY DEF PathInv, TypesInv, plugin
<1>2. WrittenInv'
  BY DEF PathInv, WrittenInv, plugin
<1>3. BindInv'
  <2>1. Away => Away'
    BY DEF Away, plugin
  <2>2. Waiting => Waiting'
    BY DEF Waiting, plugin
  <2>3. \A o \in Nat, h \in SUBSET Files : Watching(o, h) => Watching(o, h)'
    BY DEF Watching, plugin, Current
  <2>4. QED
    BY <2>1, <2>2, <2>3 DEF PathInv, BindInv
<1>4. HoldInv'
  <2>1. Depth' = Depth
    BY DEF Depth
  <2>2. QED
    BY <2>1, HoldStands DEF PathInv, plugin
<1>5. WorkingIsTimed'
  BY DEF PathInv, WorkingIsTimed
<1>6. RebindsAreAskedFor'
  <2> DEFINE n == Cardinality({i \in DOMAIN toPwa : toPwa[i][1] = "session_rebound"})
  <2>1. n \in Nat
    <3>1. toPwa \in Seq(Frame)
      BY DEF PathInv, TypesInv
    <3>2. QED
      BY <3>1, AnnouncedIsFinite DEF Announced
  <2>2. n' = n
    OBVIOUS
  <2>3. /\ pwa.turned \in Nat /\ pwa'.turned = pwa.turned
        /\ spent["command"] \in Nat /\ spent'["command"] \in Nat
    BY DEF PathInv, TypesInv, View, Events
  <2> HIDE DEF n
  <2>4. n + pwa.turned + (IF armed THEN 1 ELSE 0) <= spent["command"]
    BY DEF PathInv, RebindsAreAskedFor, n
  <2>5. n' + pwa'.turned + (IF armed' THEN 1 ELSE 0) <= spent'["command"]
    BY <2>1, <2>2, <2>3, <2>4
  <2>6. QED
    BY <2>5 DEF RebindsAreAskedFor, n
<1>7. QED
  BY <1>1, <1>2, <1>3, <1>4, <1>5, <1>6 DEF PathInv

LEMMA WriteStep ==
    ASSUME PathInv, NEW f \in Files, Write(f), talks' \in Files, rotates' \in BOOLEAN,
           spent' \in [Events -> Nat], spent'["command"] = spent["command"]
    PROVE  PathInv'
<1>1. /\ Cardinality(Written) < MaxLines /\ size' = [size EXCEPT ![f] = @ + 1]
      /\ fresh' = fresh \cup {f}
      /\ binds' = [i \in DOMAIN binds |-> binds[i] \cup {f}]
      /\ dirs' = {[w EXCEPT !.heard = @ \cup ({f} \ {bound})] : w \in dirs}
      /\ UNCHANGED <<registered, known, resolved, bound, armed, state, idleTimer, toPwa, asked,
                     pwa, tails, watcher, dirWatcher, clock>>
  BY DEF Write, plugin, session, page
<1>2. size \in [Files -> 0 .. MaxLines] /\ binds \in Seq(SUBSET Files)
  BY DEF PathInv, TypesInv
<1>3. /\ size' \in [Files -> 0 .. MaxLines]
      /\ \A g \in Files : size[g] \in Nat /\ size'[g] \in Nat /\ size[g] <= size'[g]
      /\ size'[f] > 0
  <2>1. size[f] + 1 \in 0 .. MaxLines
    BY <1>1, <1>2, RoomForALine
  <2>2. QED
    BY <1>1, <1>2, <2>1
<1>4. /\ binds' \in Seq(SUBSET Files) /\ Len(binds') = Len(binds)
      /\ \A i \in 1 .. Len(binds) : binds'[i] = binds[i] \cup {f}
      /\ binds = <<>> => binds' = <<>>
  <2> DEFINE x(i) == binds[i] \cup {f}
             n == Len(binds)
  <2>1. n \in Nat /\ DOMAIN binds = 1 .. n /\ \A i \in 1 .. n : x(i) \in SUBSET Files
    BY <1>2, LenProperties, ElementOfSeq
  <2>2. binds' = [i \in 1 .. n |-> x(i)]
    BY <1>1, <2>1
  <2> HIDE DEF x, n
  <2>3. [i \in 1 .. n |-> x(i)] \in Seq(SUBSET Files)
    BY <2>1, IsASeq
  <2>4. binds' \in Seq(SUBSET Files) /\ Len(binds') = n /\ \A i \in 1 .. n : binds'[i] = x(i)
    BY <2>1, <2>2, <2>3
  <2>5. binds = <<>> => binds' = <<>>
    BY <2>4, EmptySeq DEF n
  <2>6. QED
    BY <2>4, <2>5 DEF x, n
<1>5. TypesInv'
  BY <1>1, <1>3, <1>4 DEF PathInv, TypesInv
<1>6. WrittenInv'
  <2>1. \A g \in Files : size[g] > 0 => size'[g] > 0
    BY <1>3
  <2>2. /\ \A g \in fresh' : g \in fresh \/ g = f
        /\ fresh \subseteq Files /\ (known # None => known \in Files)
        /\ \A i \in 1 .. Len(resolved) : resolved[i] \in Files
        /\ \A i \in 1 .. Len(binds) : binds[i] \in SUBSET Files
    <3>1. resolved \in Seq(Files)
      BY DEF PathInv, TypesInv
    <3>2. QED
      BY <1>1, <1>2, <3>1, ElementOfSeq DEF PathInv, TypesInv
  <2>3. \A i \in 1 .. Len(binds) : \A g \in binds'[i] : g \in binds[i] \/ g = f
    BY <1>4
  <2>4. /\ \A g \in fresh : size[g] > 0
        /\ known # None => size[known] > 0
        /\ \A i \in 1 .. Len(resolved) : size[resolved[i]] > 0
        /\ \A i \in 1 .. Len(binds) : \A g \in binds[i] : size[g] > 0
    BY DEF PathInv, WrittenInv
  <2>5. \A i \in 1 .. Len(binds) : \A g \in binds'[i] : size'[g] > 0
    BY <1>3, <2>1, <2>2, <2>3, <2>4
  <2>6. \A g \in fresh' : size'[g] > 0
    BY <1>3, <2>1, <2>2, <2>4
  <2>7. \A i \in 1 .. Len(resolved) : size'[resolved[i]] > 0
    BY <2>1, <2>2, <2>4
  <2>8. known # None => size'[known] > 0
    BY <2>1, <2>2, <2>4
  <2>9. QED
    BY <1>1, <1>4, <2>5, <2>6, <2>7, <2>8 DEF WrittenInv
<1>7. BindInv'
  <2>1. CASE Away
    BY <1>1, <1>4, <2>1 DEF Away, BindInv
  <2>2. CASE Waiting
    BY <1>1, <1>4, <2>2 DEF Waiting, BindInv
  <2>3. ASSUME NEW o \in Nat, NEW h \in SUBSET Files, Watching(o, h) PROVE BindInv'
    <3>1. PICK k \in SUBSET Files : k = h \cup ({f} \ {bound})
      OBVIOUS
    <3>2. dirs' = {[id |-> dirWatcher, heard |-> k]}
      BY <1>1, <2>3, <3>1 DEF Watching
    <3>3. o <= size'[bound]
      BY <1>3, <2>3 DEF Watching
    <3>4. Watching(o, k)'
      BY <1>1, <1>4, <2>3, <3>2, <3>3 DEF Watching, Current
    <3>5. QED
      BY <3>4 DEF BindInv
  <2>4. QED
    BY <2>1, <2>2, <2>3 DEF PathInv, BindInv
<1>8. HoldInv'
  <2>1. Showing' = Showing /\ Current' = Current /\ Depth' = Depth
        /\ Announced(toPwa)' = Announced(toPwa)
    BY <1>1 DEF Showing, Current, Depth, Announced
  <2>2. CASE Current \in Files
    <3>1. Holds(Showing, Current, size'[Current], Depth, asked, Announced(toPwa) # {},
            Len(pwa.events) < Buffer)
      BY <1>3, <2>2, HoldsLonger DEF PathInv, HoldInv
    <3>2. QED
      BY <1>1, <2>1, <3>1 DEF HoldInv
  <2>3. CASE Current \notin Files
    <3>1. Showing = {}
      BY <2>3 DEF PathInv, HoldInv, Holds
    <3>2. Holds(Showing, Current, size'[Current], Depth, asked, Announced(toPwa) # {},
            Len(pwa.events) < Buffer)
      BY <3>1 DEF PathInv, HoldInv, Holds
    <3>3. QED
      BY <1>1, <2>1, <3>2 DEF HoldInv
  <2>4. QED
    BY <2>2, <2>3
<1>9. WorkingIsTimed'
  BY <1>1 DEF PathInv, WorkingIsTimed
<1>10. RebindsAreAskedFor'
  BY <1>1 DEF PathInv, RebindsAreAskedFor
<1>11. QED
  BY <1>5, <1>6, <1>7, <1>8, <1>9, <1>10 DEF PathInv

LEMMA ClaudeStep ==
    ASSUME PathInv, ClaudeNext PROVE PathInv'
<1>1. /\ talks \in Files /\ rotates \in BOOLEAN
      /\ spent \in [Events -> Nat] /\ pwa \in View
      /\ {"stray", "age", "command"} \subseteq Events
  BY DEF PathInv, TypesInv, Events
<1>2. CASE Talk
  <2>1. Write(talks) /\ UNCHANGED <<talks, rotates, spent>>
    BY <1>2 DEF Talk
  <2>2. talks' \in Files /\ rotates' \in BOOLEAN /\ spent' \in [Events -> Nat]
        /\ spent'["command"] = spent["command"]
    BY <1>1, <2>1
  <2>3. QED
    BY <1>1, <2>1, <2>2, WriteStep
<1>3. CASE Rotate
  <2>1. PICK f \in Files : talks' = f /\ Write(f)
    BY <1>3 DEF Rotate
  <2>2. talks' \in Files /\ rotates' \in BOOLEAN /\ spent' \in [Events -> Nat]
        /\ spent'["command"] = spent["command"]
    BY <1>1, <1>3, <2>1 DEF Rotate
  <2>3. QED
    BY <2>1, <2>2, WriteStep
<1>4. CASE StrayWrites
  <2>1. PICK f \in Files : Write(f)
    BY <1>4 DEF StrayWrites
  <2>2. spent' \in [Events -> Nat] /\ spent'["command"] = spent["command"]
    <3>1. Spend("stray")
      BY <1>4 DEF StrayWrites
    <3>2. QED
      BY <1>1, <3>1, Spends
  <2>3. talks' \in Files /\ rotates' \in BOOLEAN
    BY <1>1, <1>4 DEF StrayWrites
  <2>4. QED
    BY <2>1, <2>2, <2>3, WriteStep
<1>5. CASE Age
  <2>1. spent' \in [Events -> Nat] /\ spent'["command"] = spent["command"]
        /\ spent["command"] \in Nat
    <3>1. Spend("age")
      BY <1>5 DEF Age
    <3>2. QED
      BY <1>1, <3>1, Spends
  <2>2. spent'["command"] >= spent["command"]
    BY <2>1
  <2>3. /\ UNCHANGED <<size, talks, plugin, binds, tails, watcher, dirWatcher, bound, state,
                       toPwa, asked, clock, pwa.events, pwa.turned>>
        /\ fresh' \subseteq fresh /\ rotates' = rotates /\ armed' = armed
        /\ idleTimer' = idleTimer /\ pwa' = pwa /\ dirs' = dirs
    BY <1>5 DEF Age, watchers, session, page
  <2>4. armed \in BOOLEAN
    BY DEF PathInv, TypesInv
  <2>5. QED
    BY <1>1, <2>1, <2>2, <2>3, <2>4, QuietStep
<1>6. QED
  BY <1>2, <1>3, <1>4, <1>5 DEF ClaudeNext

-----------------------------------------------------------------------------
(* The daemon and the plugin *)

LEMMA RebindsStand ==
    ASSUME PathInv, toPwa' \in Seq(Frame), pwa' \in View,
           spent' \in [Events -> Nat], spent'["command"] >= spent["command"],
           armed' \in BOOLEAN,
           Cardinality(Announced(toPwa')) + pwa'.turned + (IF armed' THEN 1 ELSE 0)
                <= Cardinality(Announced(toPwa)) + pwa.turned + (IF armed THEN 1 ELSE 0)
    PROVE  RebindsAreAskedFor'
<1> DEFINE n == Cardinality(Announced(toPwa))
           m == Cardinality(Announced(toPwa'))
<1>1. n \in Nat /\ m \in Nat
  <2>1. toPwa \in Seq(Frame)
    BY DEF PathInv, TypesInv
  <2>2. QED
    BY <2>1, AnnouncedIsFinite
<1>2. /\ pwa.turned \in Nat /\ pwa'.turned \in Nat /\ spent["command"] \in Nat
      /\ spent'["command"] \in Nat
  BY DEF PathInv, TypesInv, View, Events
<1>3. n + pwa.turned + (IF armed THEN 1 ELSE 0) <= spent["command"]
  BY DEF PathInv, RebindsAreAskedFor, Announced
<1> HIDE DEF n, m
<1>4. m + pwa'.turned + (IF armed' THEN 1 ELSE 0) <= spent'["command"]
  <2>1. m + pwa'.turned + (IF armed' THEN 1 ELSE 0)
           <= n + pwa.turned + (IF armed THEN 1 ELSE 0)
    BY DEF n, m
  <2>2. QED
    BY <1>1, <1>2, <1>3, <2>1
<1>5. QED
  BY <1>4 DEF RebindsAreAskedFor, m, Announced

LEMMA RebindsSame ==
    ASSUME PathInv, Announced(toPwa') = Announced(toPwa), toPwa' \in Seq(Frame), pwa' = pwa,
           spent' \in [Events -> Nat], spent'["command"] = spent["command"],
           armed' \in BOOLEAN, armed' => armed
    PROVE  RebindsAreAskedFor'
<1>1. toPwa \in Seq(Frame) /\ pwa \in View /\ spent["command"] \in Nat
  BY DEF PathInv, TypesInv, Events
<1>2. Cardinality(Announced(toPwa)) \in Nat /\ pwa.turned \in Nat
  BY <1>1, AnnouncedIsFinite DEF View
<1>3. Cardinality(Announced(toPwa')) + pwa'.turned + (IF armed' THEN 1 ELSE 0)
        <= Cardinality(Announced(toPwa)) + pwa.turned + (IF armed THEN 1 ELSE 0)
  BY <1>2
<1>4. spent'["command"] >= spent["command"]
  BY <1>1
<1>5. QED
  BY <1>1, <1>3, <1>4, RebindsStand

LEMMA BoundAnew ==
    ASSUME TypesInv, size' = size, registered', binds' = <<>>, state' # "gone",
           NEW f \in Files, bound' = f, Current' = f,
           tails' = {[id |-> watcher', file |-> f, offset |-> 0]},
           NEW h \in SUBSET Files, dirs' = {[id |-> dirWatcher', heard |-> h]}
    PROVE  BindInv' /\ Depth' = 0
<1>1. 0 <= size'[f] /\ 0 \in Nat
  BY DEF TypesInv
<1>2. Watching(0, h)'
  BY <1>1 DEF Watching
<1>3. BindInv'
  BY <1>1, <1>2 DEF BindInv
<1> DEFINE w == [id |-> watcher', file |-> f, offset |-> 0]
<1>4. tails' = {w} /\ w.offset = 0
  OBVIOUS
<1> HIDE DEF w
<1>5. Depth' = 0
  BY <1>4 DEF Depth
<1>6. QED
  BY <1>3, <1>5

\* A file from which nothing is read yet, or no file.
LEMMA HoldAnew ==
    ASSUME Depth' = 0, asked' \in Seq(Int),
           \A r \in Showing' : r.file = Current' /\ Current' \in Files
                                  /\ r.line \in 1 .. size'[Current']
    PROVE  HoldInv'
<1> DEFINE W == Will(Range(pwa'.events), toPwa')
           f == IF resolved' = <<>> THEN known' ELSE resolved'[Len(resolved')]
           anew == Announced(toPwa') # {}
           room == Len(pwa'.events) < Buffer
<1>1. W = Showing' /\ f = Current'
  BY DEF Showing, Current
<1>2. W \in SUBSET LogRow
  BY WillBeRows
<1> HIDE DEF W, f, anew, room
<1>3. Holds(W, f, size'[f], 0, asked', anew, room)
  BY <1>1, <1>2, HoldsUnread
<1>4. QED
  BY <1>1, <1>3 DEF HoldInv, anew, room

\* Nothing of what is shown, and of what the plugin knows, changes.
LEMMA HoldUnread ==
    ASSUME PathInv, Depth' = 0, asked' \in Seq(Int), size' = size, Current' = Current,
           Showing' = Showing
    PROVE  HoldInv'
<1>1. \A r \in Showing : r.file = Current /\ Current \in Files
                            /\ r.line \in 1 .. size[Current]
  BY DEF PathInv, HoldInv, Holds
<1>2. QED
  BY <1>1, HoldAnew

LEMMA OneBind ==
    ASSUME NEW b \in Seq(SUBSET Files), Len(b) = 1, NEW i \in DOMAIN b
    PROVE  i = 1 /\ RemoveAt(b, i) = <<>>
<1>1. DOMAIN b = 1 .. 1
  BY LenProperties
<1>2. i = 1
  BY <1>1
<1>3. SubSeq(b, 1, 1 - 1) = <<>> /\ SubSeq(b, 1 + 1, 1) = <<>>
  <2>1. 1 - 1 < 1 /\ 1 < 1 + 1 /\ 1 - 1 \in Int /\ 1 + 1 \in Int
    OBVIOUS
  <2>2. QED
    BY <2>1, SubSeqEmpty
<1>4. <<>> \o <<>> = <<>>
  BY EmptySeq, ConcatEmptySeq
<1>5. QED
  BY <1>2, <1>3, <1>4 DEF RemoveAt

LEMMA BindResolvesStep ==
    ASSUME PathInv, BindResolves PROVE PathInv'
<1>1. PICK i \in DOMAIN binds, f \in Files :
        /\ f \in binds[i]
        /\ binds' = RemoveAt(binds, i)
        /\ Bind(f)
        /\ UNCHANGED <<claude, registered, known, armed, state, idleTimer, page, clock, spent>>
  BY DEF BindResolves
<1>2. binds \in Seq(SUBSET Files) /\ Waiting
  <2>1. binds \in Seq(SUBSET Files) /\ DOMAIN binds = 1 .. Len(binds)
    BY LenProperties DEF PathInv, TypesInv
  <2>2. binds # <<>>
    <3>1. 1 .. 0 = {}
      OBVIOUS
    <3>2. QED
      BY <2>1, <3>1, <1>1, EmptySeq
  <2>3. QED
    BY <2>1, <2>2 DEF PathInv, BindInv, Away, Watching
<1>3. binds' = <<>> /\ i = 1 /\ size[f] > 0
  <2>1. i = 1 /\ RemoveAt(binds, i) = <<>>
    BY <1>2, OneBind DEF Waiting
  <2>2. 1 \in 1 .. Len(binds)
    BY <1>2 DEF Waiting
  <2>3. QED
    BY <1>1, <2>1, <2>2 DEF PathInv, WrittenInv
<1>4. /\ UNCHANGED <<size, fresh, talks, rotates, registered, known, armed, state, idleTimer,
                     toPwa, asked, pwa, clock, spent>>
      /\ bound' = f /\ resolved' = Append(resolved, f)
      /\ tails' = {[id |-> watcher', file |-> f, offset |-> 0]}
      /\ dirs' = {[id |-> dirWatcher', heard |-> {}]}
  BY <1>1, <1>2 DEF Bind, TellPlugin, StartSessionWatcher, StartProjectsDirWatcher,
                    Waiting, claude, page
<1>5. /\ resolved' \in Seq(Files) /\ Current' = f /\ resolved = <<>> /\ Len(resolved) = 0
      /\ \A k \in 1 .. Len(resolved') : resolved'[k] = f
  <2>1. resolved \in Seq(Files) /\ resolved = <<>> /\ Len(resolved) = 0
    BY <1>2, EmptySeq DEF PathInv, TypesInv, Waiting
  <2>2. \A k \in 1 .. Len(resolved) : FALSE
    BY <2>1
  <2>3. QED
    BY <1>4, <2>1, <2>2, Told
<1>6. TypesInv'
  BY <1>3, <1>4, <1>5, EmptySeq DEF PathInv, TypesInv
<1>7. WrittenInv'
  <2>1. 1 .. Len(binds') = {}
    BY <1>3, EmptySeq
  <2>2. QED
    BY <1>3, <1>4, <1>5, <2>1 DEF PathInv, WrittenInv
<1>8. BindInv' /\ Depth' = 0
  <2>1. registered' /\ state' # "gone" /\ {} \in SUBSET Files /\ TypesInv
    BY <1>2, <1>4 DEF Waiting, PathInv
  <2>2. QED
    BY <1>3, <1>4, <1>5, <2>1, BoundAnew
<1>9. HoldInv'
  <2>1. Showing = {}
    <3>1. Current = None
      BY <1>2 DEF Waiting, Current
    <3>2. QED
      BY <3>1, NothingUnknown DEF PathInv
  <2>2. Showing' = {} /\ asked' \in Seq(Int)
    BY <1>4, <1>6, <2>1 DEF Showing, TypesInv
  <2>3. QED
    BY <1>8, <2>2, HoldAnew
<1>10. WorkingIsTimed' /\ RebindsAreAskedFor'
  BY <1>4 DEF PathInv, WorkingIsTimed, RebindsAreAskedFor
<1>11. QED
  BY <1>6, <1>7, <1>8, <1>9, <1>10 DEF PathInv

LEMMA RegistersStep ==
    ASSUME PathInv, PluginRegisters PROVE PathInv'
<1>1. /\ Away /\ TypesInv
      /\ UNCHANGED <<size, fresh, talks, rotates, known, armed, idleTimer,
                     toPwa, asked, pwa, clock, spent>>
      /\ registered' /\ registered' \in BOOLEAN /\ state' = "idle"
  BY DEF PluginRegisters, OnAdd, PathInv, BindInv, Away, Waiting, Watching, claude, page
<1>2. /\ resolved = <<>> /\ Len(resolved) = 0 /\ binds = <<>> /\ resolved \in Seq(Files)
      /\ binds \in Seq(SUBSET Files) /\ Current = known
  BY <1>1, EmptySeq DEF Away, TypesInv, Current
<1>3. WorkingIsTimed' /\ RebindsAreAskedFor' /\ Showing' = Showing
  BY <1>1 DEF PathInv, WorkingIsTimed, RebindsAreAskedFor, Showing
<1>4. CASE /\ KnownFile # {}
           /\ bound' = known
           /\ StartSessionWatcher(tails, known)
           /\ StartProjectsDirWatcher
           /\ UNCHANGED <<resolved, binds>>
  <2>1. known \in Files
    BY <1>4 DEF KnownFile
  <2>2. /\ tails' = {[id |-> watcher', file |-> known, offset |-> 0]}
        /\ dirs' = {[id |-> dirWatcher', heard |-> {}]}
    BY <1>1, <1>4 DEF StartSessionWatcher, StartProjectsDirWatcher, Away
  <2>3. Current' = Current
    BY <1>1, <1>4 DEF Current
  <2>4. TypesInv'
    BY <1>1, <1>4, <2>1 DEF TypesInv
  <2>5. WrittenInv'
    BY <1>1, <1>4 DEF PathInv, WrittenInv
  <2>6. BindInv' /\ Depth' = 0
    <3>1. binds' = <<>> /\ state' # "gone" /\ {} \in SUBSET Files /\ Current' = known
      BY <1>1, <1>2, <1>4, <2>3
    <3>2. QED
      BY <1>1, <1>4, <2>1, <2>2, <3>1, BoundAnew
  <2>7. HoldInv'
    <3>1. asked' \in Seq(Int) /\ size' = size
      BY <1>1, <2>4 DEF TypesInv
    <3>2. QED
      BY <1>3, <2>3, <2>6, <3>1, HoldUnread
  <2>8. QED
    BY <1>3, <2>4, <2>5, <2>6, <2>7 DEF PathInv
<1>5. ASSUME KnownFile = {} PROVE known = None /\ Showing = {}
  <2>1. known = None
    BY <1>1, <1>5 DEF PathInv, KnownFile, WrittenInv, TypesInv
  <2>2. QED
    BY <1>2, <2>1, NothingUnknown DEF PathInv
<1>6. CASE /\ KnownFile = {}
           /\ \E f \in fresh :
                /\ bound' = f
                /\ resolved' = Append(resolved, f)
                /\ StartSessionWatcher(tails, f)
                /\ StartProjectsDirWatcher
                /\ UNCHANGED binds
  <2>1. PICK f \in fresh :
                /\ bound' = f
                /\ resolved' = Append(resolved, f)
                /\ StartSessionWatcher(tails, f)
                /\ StartProjectsDirWatcher
                /\ UNCHANGED binds
    BY <1>6
  <2>2. f \in Files /\ size[f] > 0
    BY <1>1 DEF PathInv, TypesInv, WrittenInv
  <2>3. /\ tails' = {[id |-> watcher', file |-> f, offset |-> 0]}
        /\ dirs' = {[id |-> dirWatcher', heard |-> {}]}
    BY <1>1, <2>1 DEF StartSessionWatcher, StartProjectsDirWatcher, Away
  <2>4. /\ resolved' \in Seq(Files) /\ Current' = f
        /\ \A k \in 1 .. Len(resolved') : resolved'[k] = f
    <3>1. \A k \in 1 .. Len(resolved) : FALSE
      BY <1>2
    <3>2. QED
      BY <1>2, <2>1, <2>2, <3>1, Told
  <2>5. TypesInv'
    BY <1>1, <2>1, <2>2, <2>4 DEF TypesInv
  <2>6. WrittenInv'
    BY <1>1, <2>1, <2>2, <2>4 DEF PathInv, WrittenInv
  <2>7. BindInv' /\ Depth' = 0
    <3>1. binds' = <<>> /\ state' # "gone" /\ {} \in SUBSET Files
      BY <1>1, <1>2, <2>1
    <3>2. QED
      BY <1>1, <2>1, <2>2, <2>3, <2>4, <3>1, BoundAnew
  <2>8. HoldInv'
    <3>1. asked' \in Seq(Int) /\ Showing' = {}
      BY <1>3, <1>5, <1>6, <2>5 DEF TypesInv
    <3>2. QED
      BY <2>7, <3>1, HoldAnew
  <2>9. QED
    BY <1>3, <2>5, <2>6, <2>7, <2>8 DEF PathInv
<1>7. CASE /\ KnownFile = {}
           /\ fresh = {}
           /\ bound' = known
           /\ binds' = Append(binds, {})
           /\ UNCHANGED <<resolved, tails, watcher, dirs, dirWatcher>>
  <2>1. known = None /\ Showing = {}
    BY <1>5, <1>7
  <2>2. /\ binds' \in Seq(SUBSET Files) /\ Len(binds') = 1
        /\ \A k \in 1 .. Len(binds') : binds'[k] = {}
    <3>1. {} \in SUBSET Files /\ Len(binds) = 0
      BY <1>2, EmptySeq
    <3>2. /\ binds' \in Seq(SUBSET Files) /\ Len(binds') = Len(binds) + 1
          /\ binds'[Len(binds) + 1] = {}
      BY <1>2, <1>7, <3>1, AppendProperties
    <3>3. Len(binds') = 1 /\ 1 .. 1 = {1} /\ binds'[1] = {}
      BY <3>1, <3>2
    <3>4. QED
      BY <3>2, <3>3
  <2>3. TypesInv'
    BY <1>1, <1>7, <2>2 DEF TypesInv
  <2>4. WrittenInv'
    BY <1>1, <1>7, <2>2 DEF PathInv, WrittenInv
  <2>5. Waiting'
    BY <1>1, <1>2, <1>7, <2>1, <2>2 DEF Waiting, Away
  <2>6. BindInv' /\ Depth' = 0
    BY <2>5 DEF BindInv, Depth, Waiting
  <2>7. HoldInv'
    <3>1. asked' \in Seq(Int) /\ Showing' = {}
      BY <1>3, <2>1, <2>3 DEF TypesInv
    <3>2. QED
      BY <2>6, <3>1, HoldAnew
  <2>8. QED
    BY <1>3, <2>3, <2>4, <2>6, <2>7 DEF PathInv
<1>8. QED
  BY <1>4, <1>6, <1>7 DEF PluginRegisters, OnAdd

LEMMA LearnsStep ==
    ASSUME PathInv, PluginLearns PROVE PathInv'
<1>1. /\ resolved # <<>> /\ known' = Head(resolved) /\ resolved' = Tail(resolved)
      /\ UNCHANGED <<size, fresh, talks, rotates, registered, binds, tails, watcher, dirs,
                     dirWatcher, bound, armed, state, idleTimer, toPwa, asked, pwa,
                     clock, spent>>
  BY DEF PluginLearns, claude, watchers, session, page
<1>2. resolved \in Seq(Files)
  BY DEF PathInv, TypesInv
<1>3. /\ Len(resolved) \in Nat /\ Len(resolved) > 0 /\ Head(resolved) = resolved[1]
      /\ \A k \in 1 .. Len(resolved) : resolved[k] \in Files
      /\ resolved' \in Seq(Files) /\ Len(resolved') = Len(resolved) - 1
      /\ \A k \in 1 .. Len(resolved') : resolved'[k] = resolved[k + 1]
  BY <1>1, <1>2, EmptySeq, LenProperties, ElementOfSeq, HeadTailProperties
<1>4. Current' = Current
  <2>1. Current = resolved[Len(resolved)]
    BY <1>1 DEF Current
  <2>2. CASE resolved' = <<>>
    <3>1. Len(resolved) = 1
      BY <1>3, <2>2, EmptySeq
    <3>2. QED
      BY <1>1, <1>3, <2>1, <2>2, <3>1 DEF Current
  <2>3. CASE resolved' # <<>>
    <3>1. Len(resolved') \in 1 .. Len(resolved') /\ Len(resolved') + 1 = Len(resolved)
      BY <1>3, <2>3, EmptySeq
    <3>2. resolved'[Len(resolved')] = resolved[Len(resolved)]
      BY <1>3, <3>1
    <3>3. QED
      BY <2>1, <2>3, <3>2 DEF Current
  <2>4. QED
    BY <2>2, <2>3
<1>5. 1 \in 1 .. Len(resolved) /\ \A k \in 1 .. Len(resolved') : k + 1 \in 1 .. Len(resolved)
  BY <1>3
<1>6. TypesInv'
  <2>1. known' \in Files
    BY <1>1, <1>3, <1>5
  <2>2. QED
    BY <1>1, <1>3, <2>1 DEF PathInv, TypesInv
<1>7. WrittenInv'
  <2>1. \A k \in 1 .. Len(resolved) : size[resolved[k]] > 0
    BY DEF PathInv, WrittenInv
  <2>2. QED
    BY <1>1, <1>3, <1>5, <2>1 DEF PathInv, WrittenInv
<1>8. BindInv'
  <2>1. PICK o \in Nat, h \in SUBSET Files : Watching(o, h)
    BY <1>1 DEF PathInv, BindInv, Away, Waiting
  <2>2. Watching(o, h)'
    BY <1>1, <1>4, <2>1 DEF Watching
  <2>3. QED
    BY <2>2 DEF BindInv
<1>9. HoldInv'
  <2>1. Showing' = Showing /\ Depth' = Depth /\ Announced(toPwa)' = Announced(toPwa)
        /\ asked' = asked /\ size' = size
    BY <1>1 DEF Showing, Depth, Announced
  <2>2. HoldInv
    BY DEF PathInv
  <2>3. QED
    BY <1>1, <1>4, <2>1, <2>2 DEF HoldInv, page
<1>10. WorkingIsTimed' /\ RebindsAreAskedFor'
  BY <1>1 DEF PathInv, WorkingIsTimed, RebindsAreAskedFor
<1>11. QED
  BY <1>6, <1>7, <1>8, <1>9, <1>10 DEF PathInv

\* The session ends when its file is found and the plugin knows it, or when it
\* was not there.
LEMMA GoneStep ==
    ASSUME PathInv, binds = <<>>, resolved = <<>>, ~registered', registered' \in BOOLEAN,
           resolved' = <<>>, binds' = <<>>, tails' = {}, dirs' = {}, bound' = None,
           state' = "gone",
           armed' = FALSE, idleTimer' = FALSE, asked' \in Seq(Int),
           UNCHANGED <<claude, known, toPwa, pwa, clock>>,
           spent' \in [Events -> Nat], spent'["command"] = spent["command"]
    PROVE  PathInv'
<1>1. UNCHANGED <<size, fresh, talks, rotates>>
  BY DEF claude
<1>2. TypesInv'
  BY <1>1, EmptySeq DEF PathInv, TypesInv
<1>3. WrittenInv'
  <2>1. 1 .. Len(binds') = {} /\ 1 .. Len(resolved') = {}
    BY EmptySeq
  <2>2. QED
    BY <1>1, <2>1 DEF PathInv, WrittenInv
<1>4. BindInv' /\ Depth' = 0
  BY DEF BindInv, Away, Depth
<1>5. HoldInv'
  <2>1. Current' = Current /\ Showing' = Showing
    BY DEF Current, Showing
  <2>2. QED
    BY <1>1, <1>4, <2>1, HoldUnread
<1>6. WorkingIsTimed'
  BY DEF WorkingIsTimed
<1>7. RebindsAreAskedFor'
  <2>1. Announced(toPwa') = Announced(toPwa)
    BY DEF Announced
  <2>2. toPwa' \in Seq(Frame) /\ armed' \in BOOLEAN /\ pwa' = pwa /\ (armed' => armed)
    BY DEF PathInv, TypesInv
  <2>3. QED
    BY <2>1, <2>2, RebindsSame
<1>8. QED
  BY <1>2, <1>3, <1>4, <1>5, <1>6, <1>7 DEF PathInv

LEMMA LeaveStep ==
    ASSUME PathInv, LeaveEarly = FALSE, Leave PROVE PathInv'
<1>1. /\ Spend("leave") /\ registered /\ binds = <<>> /\ resolved = <<>>
      /\ registered' = FALSE /\ resolved' = <<>>
      /\ bound' = None /\ state' = "gone" /\ armed' = FALSE /\ idleTimer' = FALSE
      /\ tails' = {w \in tails : w.id # watcher} /\ dirs' = {w \in dirs : w.id # dirWatcher}
      /\ UNCHANGED <<claude, known, binds, toPwa, asked, pwa, clock>>
  BY DEF Leave, OnRemove, page
<1>2. PICK o \in Nat, h \in SUBSET Files : Watching(o, h)
  <2>1. ~Waiting
    BY <1>1, EmptySeq DEF Waiting
  <2>2. QED
    BY <1>1, <2>1 DEF PathInv, BindInv, Away
<1>3. tails' = {} /\ dirs' = {}
  BY <1>1, <1>2 DEF Watching
<1>4. spent' \in [Events -> Nat] /\ spent'["command"] = spent["command"]
  <2>1. spent \in [Events -> Nat] /\ "leave" \in Events /\ "command" \in Events \ {"leave"}
    BY DEF PathInv, TypesInv, Events
  <2>2. QED
    BY <1>1, <2>1, Spends
<1>5. asked' \in Seq(Int)
  BY <1>1 DEF PathInv, TypesInv
<1>6. QED
  BY <1>1, <1>3, <1>4, <1>5, GoneStep

LEMMA RestartStep ==
    ASSUME PathInv, LeaveEarly = FALSE, Restart PROVE PathInv'
<1>1. /\ Spend("restart") /\ binds = <<>> /\ resolved = <<>>
      /\ registered' = FALSE /\ resolved' = <<>> /\ binds' = <<>> /\ tails' = {} /\ dirs' = {}
      /\ bound' = None /\ state' = "gone" /\ armed' = FALSE /\ idleTimer' = FALSE
      /\ asked' = <<>> /\ UNCHANGED <<claude, known, toPwa, pwa, clock>>
  BY DEF Restart
<1>2. spent' \in [Events -> Nat] /\ spent'["command"] = spent["command"]
  <2>1. spent \in [Events -> Nat] /\ "restart" \in Events /\ "command" \in Events \ {"restart"}
    BY DEF PathInv, TypesInv, Events
  <2>2. QED
    BY <1>1, <2>1, Spends
<1>3. asked' \in Seq(Int)
  BY <1>1, EmptySeq
<1>4. QED
  BY <1>1, <1>2, <1>3, GoneStep

\* Frames on their way without a rebound.
LEMMA Joined ==
    ASSUME PathInv, NEW d \in Seq(Frame), Batch(d), toPwa' = toPwa \o d, pwa' = pwa
    PROVE  /\ toPwa' \in Seq(Frame) /\ Announced(toPwa)' = Announced(toPwa)
           /\ Announced(toPwa') = Announced(toPwa)
           /\ Showing' = Showing \cup Brought(d)
<1>1. toPwa \in Seq(Frame) /\ Range(pwa.events) \in SUBSET LogEvent
  BY ShowingAre DEF PathInv
<1>2. \A i \in 1 .. Len(d) : ~IsRebound(d[i])
  BY DEF Batch
<1>3. toPwa \o d \in Seq(Frame)
  BY <1>1, ConcatProperties
<1>4. Announced(toPwa \o d) = Announced(toPwa)
  BY <1>1, <1>2, NoneAnnounced
<1>5. Will(Range(pwa.events), toPwa \o d) = Will(Range(pwa.events), toPwa) \cup Brought(d)
  BY <1>1, <1>2, WillConcat
<1>6. QED
  BY <1>3, <1>4, <1>5 DEF Showing, Announced

LEMMA DrainStep ==
    ASSUME PathInv, OnLines PROVE PathInv'
<1>1. PICK w \in tails : Drain(w)
  BY DEF OnLines
<1>2. PICK o \in Nat, h \in SUBSET Files : Watching(o, h)
  BY DEF PathInv, BindInv, Away, Waiting
<1> DEFINE top == size[bound]
<1>3. /\ w = [id |-> watcher, file |-> bound, offset |-> o]
      /\ w.file = bound /\ w.offset = o /\ tails = {w}
      /\ bound \in Files /\ bound = Current /\ top \in Nat /\ o <= top
  BY <1>2 DEF Watching, PathInv, TypesInv
<1>4. /\ o < top /\ EnterStateAfter("working", Lines(bound, o, top)) /\ idleTimer' = TRUE
      /\ tails' = (tails \ {w}) \cup {[w EXCEPT !.offset = top]}
      /\ UNCHANGED <<size, fresh, talks, rotates, registered, known, resolved, binds, watcher,
                     dirs, dirWatcher, bound, armed, asked, pwa, spent>>
  BY <1>1, <1>3 DEF Drain, claude, plugin
<1>5. /\ Batch(Lines(bound, o, top))
      /\ Brought(Lines(bound, o, top)) = {LineOf(bound, m) : m \in o + 1 .. top}
  BY <1>3, <1>4, LinesAreLines DEF LineOf
<1>6. /\ \E d \in Seq(Frame) : Batch(d) /\ toPwa' = toPwa \o d
                               /\ Brought(d) = Brought(Lines(bound, o, top))
      /\ clock' \in Nat /\ state' = IF state = "gone" THEN state ELSE "working"
  <2>1. clock \in Nat /\ toPwa \in Seq(Frame)
    BY DEF PathInv, TypesInv
  <2> HIDE DEF top
  <2>2. QED
    BY <1>4, <1>5, <2>1, Entered
<1>7. PICK d \in Seq(Frame) : /\ Batch(d) /\ toPwa' = toPwa \o d
                              /\ Brought(d) = {LineOf(bound, m) : m \in o + 1 .. top}
  BY <1>5, <1>6
<1>8. /\ toPwa' \in Seq(Frame) /\ Announced(toPwa)' = Announced(toPwa)
      /\ Announced(toPwa') = Announced(toPwa)
      /\ Showing' = Showing \cup {LineOf(bound, m) : m \in o + 1 .. top}
  BY <1>4, <1>7, Joined
<1>9. state' = "working"
  BY <1>2, <1>6 DEF Watching
<1>10. TypesInv'
  BY <1>4, <1>6, <1>8, <1>9 DEF PathInv, TypesInv
<1>11. WrittenInv'
  BY <1>4 DEF PathInv, WrittenInv
<1>12. tails' = {[id |-> watcher, file |-> bound, offset |-> top]}
  BY <1>3, <1>4
<1>13. BindInv'
  <2>1. PICK t \in Nat : t = top
    BY <1>3
  <2>2. Watching(t, h)'
    BY <1>2, <1>4, <1>9, <1>12, <2>1 DEF Watching, Current
  <2>3. QED
    BY <2>2 DEF BindInv
<1>14. HoldInv'
  <2>1. Depth = o
    BY <1>2, DepthIs
  <2>2. Depth' = top
    <3> DEFINE x == [id |-> watcher, file |-> bound, offset |-> top]
    <3>1. tails' = {x} /\ x.offset = top
      BY <1>12
    <3> HIDE DEF x, top
    <3>2. QED
      BY <3>1 DEF Depth
  <2>3. Holds(Showing, bound, top, o, asked, Announced(toPwa) # {},
            Len(pwa.events) < Buffer)
    BY <1>3, <2>1 DEF PathInv, HoldInv
  <2>4. Showing \in SUBSET LogRow /\ asked \in Seq(Int)
    BY ShowingAre DEF PathInv, TypesInv
  <2>5. Holds(Showing \cup {LineOf(bound, m) : m \in o + 1 .. top}, bound, top, top, asked,
              Announced(toPwa) # {}, Len(pwa.events) < Buffer)
    <3> HIDE DEF top
    <3>1. QED
      BY <1>3, <2>3, <2>4, HoldsDrained
  <2>6. Current' = bound /\ size'[bound] = top /\ asked' = asked
    BY <1>3, <1>4 DEF Current
  <2> HIDE DEF top
  <2>7. QED
    BY <1>4, <1>8, <2>2, <2>5, <2>6 DEF HoldInv
<1>15. WorkingIsTimed'
  BY <1>4 DEF WorkingIsTimed
<1>16. RebindsAreAskedFor'
  <2>1. spent' \in [Events -> Nat] /\ armed' \in BOOLEAN
    BY <1>10 DEF TypesInv
  <2>2. QED
    BY <1>4, <1>8, <2>1, RebindsSame
<1>17. QED
  BY <1>10, <1>11, <1>13, <1>14, <1>15, <1>16 DEF PathInv

LEMMA IdleStep ==
    ASSUME PathInv, OnIdle PROVE PathInv'
<1>1. /\ idleTimer' = FALSE /\ EnterStateAfter("idle", <<>>)
      /\ UNCHANGED <<size, fresh, talks, rotates, registered, known, resolved, binds, tails,
                     watcher, dirs, dirWatcher, bound, armed, asked, pwa, spent>>
  BY DEF OnIdle, claude, plugin, watchers
<1>2. Batch(<<>>) /\ Brought(<<>>) = {}
  <2>1. <<>> \in Seq(Frame) /\ 1 .. Len(<<>>) = {}
    BY EmptySeq
  <2>2. QED
    BY <2>1 DEF Batch, Brought
<1>3. /\ \E d \in Seq(Frame) : Batch(d) /\ toPwa' = toPwa \o d /\ Brought(d) = {}
      /\ clock' \in Nat /\ state' = IF state = "gone" THEN state ELSE "idle"
  <2>1. clock \in Nat /\ toPwa \in Seq(Frame)
    BY DEF PathInv, TypesInv
  <2>2. QED
    BY <1>1, <1>2, <2>1, Entered
<1>4. /\ toPwa' \in Seq(Frame) /\ Announced(toPwa)' = Announced(toPwa)
      /\ Announced(toPwa') = Announced(toPwa) /\ Showing' = Showing
  BY <1>1, <1>3, Joined
<1>5. TypesInv'
  BY <1>1, <1>3, <1>4 DEF PathInv, TypesInv
<1>6. WrittenInv'
  BY <1>1 DEF PathInv, WrittenInv
<1>7. BindInv'
  <2>1. Away => Away'
    BY <1>1, <1>3 DEF Away
  <2>2. Waiting => Waiting'
    BY <1>1, <1>3 DEF Waiting
  <2>3. \A o \in Nat, h \in SUBSET Files : Watching(o, h) => Watching(o, h)'
    BY <1>1, <1>3 DEF Watching, Current
  <2>4. QED
    BY <2>1, <2>2, <2>3 DEF PathInv, BindInv
<1>8. HoldInv'
  <2>1. Depth' = Depth /\ Current' = Current /\ size' = size /\ asked' = asked
    BY <1>1 DEF Depth, Current
  <2>2. HoldInv
    BY DEF PathInv
  <2>3. QED
    BY <1>1, <1>4, <2>1, <2>2 DEF HoldInv
<1>9. WorkingIsTimed'
  BY <1>3 DEF WorkingIsTimed
<1>10. RebindsAreAskedFor'
  <2>1. spent' \in [Events -> Nat] /\ armed' \in BOOLEAN
    BY <1>5 DEF TypesInv
  <2>2. QED
    BY <1>1, <1>4, <2>1, RebindsSame
<1>11. QED
  BY <1>5, <1>6, <1>7, <1>8, <1>9, <1>10 DEF PathInv

LEMMA DirEventStep ==
    ASSUME PathInv, OnDirEvent PROVE PathInv'
<1>1. PICK w \in dirs, f \in Files :
        /\ f \in w.heard
        /\ dirs' = (dirs \ {w}) \cup {[w EXCEPT !.heard = @ \ {f}]}
        /\ IF state # "gone" /\ bound # f /\ armed /\ f \in fresh
           THEN armed' = FALSE /\ RebindSession(f)
           ELSE UNCHANGED <<armed, tails, watcher, bound, resolved, toPwa>>
        /\ UNCHANGED <<size, fresh, talks, rotates, registered, known, binds, dirWatcher, state,
                       idleTimer, asked, pwa, clock, spent>>
  <2>1. \A w \in dirs : w.heard \subseteq Files
    BY DEF PathInv, BindInv, Away, Waiting, Watching
  <2>2. QED
    BY <2>1 DEF OnDirEvent, claude
<1>2. PICK o \in Nat, h \in SUBSET Files : Watching(o, h)
  BY <1>1 DEF PathInv, BindInv, Away, Waiting
<1>3. PICK k \in SUBSET Files : dirs' = {[id |-> dirWatcher, heard |-> k]}
  <2>1. w = [id |-> dirWatcher, heard |-> h] /\ dirs = {w}
    BY <1>2 DEF Watching
  <2>2. dirs' = {[id |-> dirWatcher, heard |-> h \ {f}]}
    BY <1>1, <2>1
  <2>3. QED
    BY <2>2
<1>4. CASE ~(state # "gone" /\ bound # f /\ armed /\ f \in fresh)
  <2>1. UNCHANGED <<armed, tails, watcher, bound, resolved, toPwa>>
    BY <1>1, <1>4
  <2>2. TypesInv' /\ WrittenInv'
    BY <1>1, <2>1 DEF PathInv, TypesInv, WrittenInv
  <2>3. BindInv'
    <3>1. Watching(o, k)'
      BY <1>1, <1>2, <1>3, <2>1 DEF Watching, Current
    <3>2. QED
      BY <3>1 DEF BindInv
  <2>4. HoldInv'
    <3>1. Depth' = Depth
      BY <2>1 DEF Depth
    <3>2. QED
      BY <1>1, <2>1, <3>1, HoldStands DEF PathInv
  <2>5. WorkingIsTimed' /\ RebindsAreAskedFor'
    BY <1>1, <2>1 DEF PathInv, WorkingIsTimed, RebindsAreAskedFor
  <2>6. QED
    BY <2>2, <2>3, <2>4, <2>5 DEF PathInv
<1>5. CASE state # "gone" /\ bound # f /\ armed /\ f \in fresh
  <2> DEFINE fr == <<"session_rebound", f>>
  <2>1. /\ armed' = FALSE /\ bound' = f /\ resolved' = Append(resolved, f)
        /\ toPwa' = Append(toPwa, fr)
        /\ StartSessionWatcher({x \in tails : x.id # watcher}, f)
    BY <1>1, <1>2, <1>5 DEF RebindSession, TellPlugin, Watching
  <2>2. tails' = {[id |-> watcher', file |-> f, offset |-> 0]}
    <3>1. {x \in tails : x.id # watcher} = {}
      BY <1>2 DEF Watching
    <3>2. QED
      BY <2>1, <3>1 DEF StartSessionWatcher
  <2>3. fr \in Frame /\ IsRebound(fr)
    BY DEF Frame, IsRebound
  <2>4. toPwa \in Seq(Frame) /\ Range(pwa.events) \in SUBSET LogEvent
    BY ShowingAre DEF PathInv
  <2> HIDE DEF fr
  <2>5. toPwa' \in Seq(Frame) /\ Showing' = {}
    <3>1. Append(toPwa, fr) \in Seq(Frame)
      BY <2>3, <2>4, AppendProperties
    <3>2. Will(Range(pwa.events), Append(toPwa, fr)) = {}
      BY <2>3, <2>4, WillAppend
    <3>3. QED
      BY <1>1, <2>1, <3>1, <3>2 DEF Showing
  <2>6. /\ resolved' \in Seq(Files) /\ Current' = f
        /\ \A i \in 1 .. Len(resolved') : resolved'[i] = f \/ \E j \in 1 .. Len(resolved) :
                                                                   resolved'[i] = resolved[j]
    <3>1. resolved \in Seq(Files)
      BY DEF PathInv, TypesInv
    <3>2. QED
      BY <2>1, <3>1, Told
  <2>7. TypesInv'
    BY <1>1, <2>1, <2>5, <2>6 DEF PathInv, TypesInv
  <2>8. WrittenInv'
    <3>1. size[f] > 0
      BY <1>5 DEF PathInv, WrittenInv
    <3>2. QED
      BY <1>1, <2>6, <3>1 DEF PathInv, WrittenInv
  <2>9. BindInv' /\ Depth' = 0
    <3>1. /\ TypesInv /\ size' = size /\ registered' /\ binds' = <<>> /\ state' # "gone"
          /\ dirs' = {[id |-> dirWatcher', heard |-> k]}
      BY <1>1, <1>2, <1>3 DEF Watching, PathInv
    <3>2. QED
      BY <2>1, <2>2, <2>6, <3>1, BoundAnew
  <2>10. HoldInv'
    <3>1. asked' \in Seq(Int)
      BY <2>7 DEF TypesInv
    <3>2. QED
      BY <2>5, <2>9, <3>1, HoldAnew
  <2>11. WorkingIsTimed'
    BY <1>1 DEF PathInv, WorkingIsTimed
  <2>12. RebindsAreAskedFor'
    <3>1. Cardinality(Announced(Append(toPwa, fr))) = Cardinality(Announced(toPwa)) + 1
      BY <2>3, <2>4, OneAnnounced
    <3>2. Cardinality(Announced(toPwa)) \in Nat /\ pwa.turned \in Nat
      BY <2>4, AnnouncedIsFinite DEF PathInv, TypesInv, View
    <3>3. armed /\ armed' = FALSE /\ pwa' = pwa
      BY <1>1, <1>5, <2>1
    <3>4. Cardinality(Announced(toPwa')) = Cardinality(Announced(toPwa)) + 1
      BY <2>1, <3>1
    <3>5. Cardinality(Announced(toPwa')) + pwa'.turned + (IF armed' THEN 1 ELSE 0)
            <= Cardinality(Announced(toPwa)) + pwa.turned + (IF armed THEN 1 ELSE 0)
      BY <3>2, <3>3, <3>4
    <3>6. /\ spent' \in [Events -> Nat] /\ spent'["command"] >= spent["command"]
          /\ armed' \in BOOLEAN /\ pwa' \in View
      BY <1>1, <2>7 DEF TypesInv, PathInv, Events
    <3>7. QED
      BY <2>5, <3>5, <3>6, RebindsStand
  <2>13. QED
    BY <2>7, <2>8, <2>9, <2>10, <2>11, <2>12 DEF PathInv
<1>6. QED
  BY <1>4, <1>5

-----------------------------------------------------------------------------
(* History and the PWA *)

LEMMA DepthBound ==
    ASSUME PathInv
    PROVE  /\ Depth \in Nat /\ Depth <= MaxLines
           /\ Depth # 0 => \E h \in SUBSET Files : Watching(Depth, h)
<1>1. CASE Away \/ Waiting
  BY <1>1, DepthIs, LimitAssumption
<1>2. ASSUME NEW o \in Nat, NEW h \in SUBSET Files, Watching(o, h)
      PROVE  Depth \in Nat /\ Depth <= MaxLines /\ Watching(Depth, h)
  <2>1. Depth = o
    BY <1>2, DepthIs
  <2>2. size[bound] \in 0 .. MaxLines /\ o <= size[bound] /\ MaxLines \in Nat
    BY <1>2, LimitAssumption DEF Watching, PathInv, TypesInv
  <2>3. QED
    BY <1>2, <2>1, <2>2
<1>3. QED
  BY <1>1, <1>2 DEF PathInv, BindInv

LEMMA AnswerStep ==
    ASSUME PathInv, OnRequestHistory PROVE PathInv'
<1> DEFINE chunk == IF state = "gone" \/ bound = None THEN <<>>
                    ELSE ReadHistory(bound, Head(asked))
           fr == <<"history_chunk", chunk>>
<1>1. /\ asked # <<>> /\ asked' = Tail(asked) /\ toPwa' = Append(toPwa, fr)
      /\ UNCHANGED <<size, fresh, talks, rotates, registered, known, resolved, binds, tails,
                     watcher, dirs, dirWatcher, bound, armed, state, idleTimer, pwa,
                     clock, spent>>
  BY DEF OnRequestHistory, claude, plugin, watchers, session
<1>2. /\ asked \in Seq(Int) /\ asked' \in Seq(Int) /\ Head(asked) \in Int
      /\ Head(asked) = asked[1]
      /\ toPwa \in Seq(Frame) /\ Range(pwa.events) \in SUBSET LogEvent
      /\ Showing \in SUBSET LogRow
  <2>1. asked \in Seq(Int)
    BY DEF PathInv, TypesInv
  <2>2. Head(asked) \in Int /\ Tail(asked) \in Seq(Int) /\ Head(asked) = asked[1]
    BY <1>1, <2>1, HeadTailProperties
  <2>3. QED
    BY <1>1, <2>1, <2>2, ShowingAre DEF PathInv
<1>3. ASSUME fr \in Frame, ~IsRebound(fr)
      PROVE  /\ toPwa' \in Seq(Frame) /\ Announced(toPwa') = Announced(toPwa)
             /\ Announced(toPwa)' = Announced(toPwa)
             /\ Showing' = Showing \cup RowsOf(Carried(fr))
  <2> HIDE DEF fr
  <2>1. Append(toPwa, fr) \in Seq(Frame)
    BY <1>2, <1>3, AppendProperties
  <2>2. Announced(Append(toPwa, fr)) = Announced(toPwa)
    BY <1>2, <1>3, OneAnnounced
  <2>3. Will(Range(pwa.events), Append(toPwa, fr))
            = Will(Range(pwa.events), toPwa) \cup RowsOf(Carried(fr))
    BY <1>2, <1>3, WillAppend
  <2>4. QED
    BY <1>1, <2>1, <2>2, <2>3 DEF Showing, Announced
<1>4. ASSUME fr \in Frame, ~IsRebound(fr), HoldInv' PROVE PathInv'
  <2>1. toPwa' \in Seq(Frame) /\ Announced(toPwa') = Announced(toPwa)
    BY <1>3, <1>4
  <2>2. TypesInv'
    BY <1>1, <1>2, <2>1 DEF PathInv, TypesInv
  <2>3. WrittenInv'
    BY <1>1 DEF PathInv, WrittenInv
  <2>4. BindInv'
    <3>1. Away => Away'
      BY <1>1 DEF Away
    <3>2. Waiting => Waiting'
      BY <1>1 DEF Waiting
    <3>3. \A o \in Nat, h \in SUBSET Files : Watching(o, h) => Watching(o, h)'
      BY <1>1 DEF Watching, Current
    <3>4. QED
      BY <3>1, <3>2, <3>3 DEF PathInv, BindInv
  <2>5. WorkingIsTimed'
    BY <1>1 DEF PathInv, WorkingIsTimed
  <2>6. RebindsAreAskedFor'
    <3>1. spent' \in [Events -> Nat] /\ armed' \in BOOLEAN
      BY <2>2 DEF TypesInv
    <3>2. QED
      BY <1>1, <2>1, <3>1, RebindsSame
  <2>7. QED
    BY <1>4, <2>2, <2>3, <2>4, <2>5, <2>6 DEF PathInv
<1>5. CASE state = "gone" \/ bound = None
  <2>1. chunk = <<>> /\ fr[1] = "history_chunk" /\ fr[2] = <<>>
    BY <1>5
  <2>2. fr \in Frame
    <3>1. IsBuffer(<<>>) /\ <<>> \in Seq(LogEvent)
      BY EmptyBuffer, EmptySeq
    <3>2. QED
      BY <2>1, <3>1 DEF Frame
  <2> HIDE DEF fr, chunk
  <2>3. ~IsRebound(fr) /\ RowsOf(Carried(fr)) = {}
    BY <2>1, EmptyBuffer DEF IsRebound, Carried, RowsOf
  <2>4. Showing' = Showing
    BY <1>3, <2>2, <2>3
  <2>5. Depth' = 0
    <3>1. Away \/ Waiting
      BY <1>5, NoneIsNoFile DEF PathInv, BindInv, Watching
    <3>2. Depth' = Depth
      BY <1>1 DEF Depth
    <3>3. QED
      BY <3>1, <3>2, DepthIs
  <2>6. Current' = Current
    BY <1>1 DEF Current
  <2>7. HoldInv'
    BY <1>1, <1>2, <2>4, <2>5, <2>6, HoldUnread
  <2>8. QED
    BY <1>4, <2>2, <2>3, <2>7
<1>6. CASE ~(state = "gone" \/ bound = None)
  <2>1. PICK o \in Nat, h \in SUBSET Files : Watching(o, h)
    BY <1>6 DEF PathInv, BindInv, Away, Waiting
  <2> DEFINE top == size[bound]
             before == Head(asked)
  <2>2. bound \in Files /\ bound = Current /\ top \in Nat /\ o <= top /\ before \in Int
    BY <1>2, <2>1 DEF Watching, PathInv, TypesInv
  <2>3. fr = <<"history_chunk", ReadHistory(bound, before)>>
    BY <1>6
  <2>4. /\ fr \in Frame /\ ~IsRebound(fr)
        /\ \E a, c \in Nat :
              /\ a <= c /\ c <= top /\ (a < c => c = top \/ c = before)
              /\ RowsOf(Carried(fr)) = {LineOf(bound, m) : m \in a + 1 .. c}
    <3> HIDE DEF fr, before
    <3>1. size[bound] \in Nat
      BY <2>2
    <3>2. QED
      BY <2>2, <2>3, <3>1, PageIsLines
  <2>5. PICK a \in Nat, c \in Nat :
              /\ a <= c /\ c <= top /\ (a < c => c = top \/ c = before)
              /\ RowsOf(Carried(fr)) = {LineOf(bound, m) : m \in a + 1 .. c}
    BY <2>4
  <2> HIDE DEF fr
  <2>6. /\ Showing' = Showing \cup {LineOf(bound, m) : m \in a + 1 .. c}
        /\ Announced(toPwa)' = Announced(toPwa)
    BY <1>3, <2>4, <2>5
  <2>7. Depth = o /\ Depth' = Depth
    BY <1>1, <2>1, DepthIs DEF Depth
  <2>8. Holds(Showing, bound, top, o, asked, Announced(toPwa) # {},
            Len(pwa.events) < Buffer)
    BY <2>2, <2>7 DEF PathInv, HoldInv
  <2>9. Holds(Showing \cup {LineOf(bound, m) : m \in a + 1 .. c}, bound, top, o, Tail(asked),
              Announced(toPwa) # {}, Len(pwa.events) < Buffer)
    <3>1. a < c => c = top \/ c = asked[1]
      BY <1>2, <2>5
    <3> HIDE DEF top, before
    <3>2. QED
      BY <1>1, <1>2, <2>2, <2>5, <2>8, <3>1, HoldsAnswered
  <2>10. Current' = bound /\ size'[bound] = top
    BY <1>1, <2>2 DEF Current
  <2> HIDE DEF top
  <2>11. HoldInv'
    BY <1>1, <2>6, <2>7, <2>9, <2>10 DEF HoldInv
  <2>12. QED
    BY <1>4, <2>4, <2>11
<1>7. QED
  BY <1>5, <1>6

\* The page asks for lines, or only takes note.
LEMMA AskStep ==
    ASSUME PathInv,
           UNCHANGED <<size, fresh, talks, rotates, registered, known, resolved, binds, tails,
                       watcher, dirs, dirWatcher, bound, armed, state, idleTimer, toPwa,
                       clock>>,
           pwa' \in View, pwa'.events = pwa.events, pwa'.turned = pwa.turned,
           spent' \in [Events -> Nat], spent'["command"] = spent["command"],
           NEW n \in Int, asked' = Append(asked, n),
           Len(pwa.events) < Buffer /\ n > 0 =>
               \A m \in n .. Depth : LineOf(Current, m) \in Showing
    PROVE  PathInv'
<1>1. asked \in Seq(Int) /\ asked' \in Seq(Int) /\ Depth \in Nat
  <2>1. asked \in Seq(Int)
    BY DEF PathInv, TypesInv
  <2>2. QED
    BY <2>1, AppendProperties, DepthBound
<1>2. TypesInv'
  BY <1>1 DEF PathInv, TypesInv
<1>3. WrittenInv'
  BY DEF PathInv, WrittenInv
<1>4. BindInv'
  <2>1. Away => Away'
    BY DEF Away
  <2>2. Waiting => Waiting'
    BY DEF Waiting
  <2>3. \A o \in Nat, h \in SUBSET Files : Watching(o, h) => Watching(o, h)'
    BY DEF Watching, Current
  <2>4. QED
    BY <2>1, <2>2, <2>3 DEF PathInv, BindInv
<1>5. HoldInv'
  <2>1. Showing' = Showing /\ Current' = Current /\ Depth' = Depth /\ size' = size
        /\ Announced(toPwa)' = Announced(toPwa)
    BY DEF Showing, Current, Depth, Announced
  <2>2. Holds(Showing, Current, size[Current], Depth, asked, Announced(toPwa) # {},
            Len(pwa.events) < Buffer)
    BY DEF PathInv, HoldInv
  <2>3. Holds(Showing, Current, size[Current], Depth, Append(asked, n), Announced(toPwa) # {},
            Len(pwa.events) < Buffer)
    BY <1>1, <2>2, HoldsAsked
  <2>4. QED
    BY <2>1, <2>3 DEF HoldInv
<1>6. WorkingIsTimed'
  BY DEF PathInv, WorkingIsTimed
<1>7. RebindsAreAskedFor'
  BY DEF PathInv, RebindsAreAskedFor
<1>8. QED
  BY <1>2, <1>3, <1>4, <1>5, <1>6, <1>7 DEF PathInv

LEMMA EnterStep ==
    ASSUME PathInv, Enter PROVE PathInv'
<1>1. /\ UNCHANGED <<size, fresh, talks, rotates, registered, known, resolved, binds, tails,
                     watcher, dirs, dirWatcher, bound, armed, state, idleTimer, toPwa, clock,
                     spent>>
      /\ UNCHANGED <<plugin, talks>>
  BY DEF Enter, claude, plugin, watchers, session
<1>2. pwa' \in View /\ pwa'.events = pwa.events /\ pwa'.turned = pwa.turned
  BY DEF Enter, PathInv, TypesInv, View
<1>3. spent' \in [Events -> Nat] /\ spent'["command"] = spent["command"]
      /\ spent["command"] \in Nat
  BY <1>1 DEF PathInv, TypesInv, Events
<1>4. CASE pwa.events = <<>>
  <2>1. asked' = Append(asked, Everything)
    BY <1>4 DEF Enter
  <2>2. Everything \in Int /\ \A m \in Everything .. Depth : FALSE
    BY DepthBound, LimitAssumption DEF Everything
  <2>3. QED
    BY <1>1, <1>2, <1>3, <2>1, <2>2, AskStep
<1>5. CASE pwa.events # <<>>
  <2>1. asked' = asked
    BY <1>5 DEF Enter
  <2>2. spent'["command"] >= spent["command"] /\ rotates' \in BOOLEAN /\ armed' \in BOOLEAN
    BY <1>1, <1>3 DEF PathInv, TypesInv
  <2>3. QED
    BY <1>1, <1>2, <1>3, <2>1, <2>2, QuietStep
<1>6. QED
  BY <1>4, <1>5

LEMMA EarlierStep ==
    ASSUME PathInv, LoadEarlier PROVE PathInv'
<1> DEFINE n == pwa.events[1].offset
<1>1. /\ Spend("page") /\ pwa.events # <<>> /\ asked' = Append(asked, n)
      /\ pwa' = [pwa EXCEPT !.pending = "pending"]
      /\ UNCHANGED <<size, fresh, talks, rotates, registered, known, resolved, binds, tails,
                     watcher, dirs, dirWatcher, bound, armed, state, idleTimer, toPwa, clock>>
  BY DEF LoadEarlier, claude, plugin, watchers, session
<1>2. pwa' \in View /\ pwa'.events = pwa.events /\ pwa'.turned = pwa.turned
  BY <1>1 DEF PathInv, TypesInv, View
<1>3. spent' \in [Events -> Nat] /\ spent'["command"] = spent["command"]
  <2>1. spent \in [Events -> Nat] /\ "page" \in Events /\ "command" \in Events \ {"page"}
    BY DEF PathInv, TypesInv, Events
  <2>2. QED
    BY <1>1, <2>1, Spends
<1>4. /\ pwa.events \in Seq(LogEvent) /\ toPwa \in Seq(Frame)
      /\ Range(pwa.events) \in SUBSET LogEvent
  BY ShowingAre DEF PathInv
<1>5. pwa.events[1] \in LogEvent /\ pwa.events[1] \in Range(pwa.events)
  <2>1. 1 \in 1 .. Len(pwa.events)
    BY <1>1, <1>4, EmptySeq
  <2>2. QED
    BY <1>4, <2>1, SeqRange
<1>6. n \in Int
  BY <1>5 DEF LogEvent
<1>7. ASSUME Len(pwa.events) < Buffer, n > 0, NEW m \in n .. Depth
      PROVE  LineOf(Current, m) \in Showing
  <2>1. Depth \in Nat
    BY DepthBound
  <2>2. CASE Announced(toPwa) # {}
    <3>1. m \in 1 .. Depth
      BY <1>6, <1>7, <2>1
    <3>2. QED
      BY <2>2, <3>1 DEF PathInv, HoldInv, Holds
  <2>3. CASE Announced(toPwa) = {}
    <3>1. Stays(toPwa, 0)
      <4>1. Announced(toPwa) = {i \in 1 .. Len(toPwa) : IsRebound(toPwa[i])}
        BY <1>4, AnnouncedIsFinite
      <4>2. QED
        BY <2>3, <4>1 DEF Stays
    <3> DEFINE r == pwa.events[1].row
    <3>2. r \in LogRow /\ r.line = n
      BY <1>5, <1>7 DEF LogEvent, LogRow
    <3>3. r \in RowsOf(Range(pwa.events))
      BY <1>5, <1>7 DEF RowsOf
    <3> HIDE DEF r, n
    <3>4. r \in Showing
      BY <3>1, <3>2, <3>3 DEF Showing, Will
    <3>5. QED
      BY <1>7, <3>2, <3>4 DEF PathInv, HoldInv, Holds
  <2>4. QED
    BY <2>2, <2>3
<1> HIDE DEF n
<1>8. QED
  BY <1>1, <1>2, <1>3, <1>6, <1>7, AskStep

LEMMA FrameStep ==
    ASSUME PathInv, OnFrame PROVE PathInv'
<1> DEFINE S == Range(pwa.events)
           T == Range(pwa'.events)
           fr == toPwa[1]
<1>1. /\ toPwa # <<>> /\ toPwa' = Tail(toPwa) /\ pwa' = Reduce(pwa, Head(toPwa))
      /\ UNCHANGED <<size, fresh, talks, rotates, registered, known, resolved, binds, tails,
                     watcher, dirs, dirWatcher, bound, armed, state, idleTimer, asked,
                     clock, spent>>
  BY DEF OnFrame, claude, plugin, watchers, session
<1>2. /\ toPwa \in Seq(Frame) /\ toPwa' \in Seq(Frame) /\ fr \in Frame
      /\ pwa \in View /\ pwa' = Reduce(pwa, fr) /\ S \in SUBSET LogEvent
  <2>1. toPwa \in Seq(Frame) /\ pwa \in View /\ S \in SUBSET LogEvent
    BY ShowingAre DEF PathInv, TypesInv
  <2>2. 1 \in 1 .. Len(toPwa) /\ Head(toPwa) = fr
    BY <1>1, <2>1, EmptySeq
  <2>3. fr \in Frame
    BY <2>1, <2>2, ElementOfSeq
  <2>4. Tail(toPwa) \in Seq(Frame)
    BY <1>1, <2>1, HeadTailProperties
  <2>5. QED
    BY <1>1, <2>1, <2>2, <2>3, <2>4
<1> HIDE DEF fr
<1>3. /\ pwa' \in View
      /\ IsRebound(fr) => T = {} /\ pwa'.turned = pwa.turned + 1
      /\ ~IsRebound(fr) =>
            /\ T \subseteq S \cup Carried(fr) /\ pwa'.turned = pwa.turned
            /\ Len(pwa'.events) < Buffer =>
                 /\ Len(pwa.events) < Buffer /\ S \subseteq T
                 /\ \A e \in Carried(fr) : \E x \in T : x.offset = e.offset
  BY <1>2, Reduced
<1>4. T \in SUBSET LogEvent
  <2>1. IsBuffer(pwa'.events)
    BY <1>3 DEF View
  <2>2. QED
    BY <2>1, BufferRange
<1>5. /\ Showing' \subseteq Showing
      /\ Announced(toPwa)' # {} \/ IsRebound(fr) \/ Len(pwa'.events) < Buffer
            => Showing' = Showing
  <2>1. \A r, q \in Will(S, toPwa) : r.file = q.file
    BY DEF PathInv, HoldInv, Holds, Showing
  <2>2. Showing = Will(S, toPwa) /\ Showing' = Will(T, Tail(toPwa))
    BY <1>1 DEF Showing
  <2>3. Announced(toPwa)' = Announced(Tail(toPwa)) /\ Tail(toPwa) \in Seq(Frame)
    BY <1>1, <1>2 DEF Announced
  <2> HIDE DEF S, T
  <2>4. IsRebound(fr) \/ Len(pwa'.events) < Buffer => Will(T, Tail(toPwa)) = Will(S, toPwa)
    BY <1>1, <1>2, <1>3, <1>4, <2>1, WillTail DEF fr
  <2>5. ASSUME ~IsRebound(fr)
        PROVE  /\ Will(T, Tail(toPwa)) \subseteq Will(S, toPwa)
               /\ Announced(Tail(toPwa)) # {} => Will(T, Tail(toPwa)) = Will(S, toPwa)
    <3> DEFINE U == S \cup Carried(fr)
               c == Tail(toPwa)
    <3>1. U \in SUBSET LogEvent
      BY <1>2, CarriedAreEvents
    <3>2. Will(U, Tail(toPwa)) = Will(S, toPwa)
      <4>1. S \subseteq U /\ \A e \in Carried(fr) : \E x \in U : x.offset = e.offset
        OBVIOUS
      <4>2. U \subseteq S \cup Carried(fr)
        OBVIOUS
      <4> HIDE DEF U
      <4>3. QED
        BY <1>1, <1>2, <2>1, <2>5, <3>1, <4>1, <4>2, WillTail DEF fr
    <3>3. T \subseteq U
      BY <1>3, <2>5
    <3> HIDE DEF U
    <3>4. Will(T, c) \subseteq Will(U, c) /\ (Announced(c) # {} => Will(T, c) = Will(U, c))
      BY <2>3, <3>3, WillOfMore
    <3>5. QED
      BY <3>2, <3>4
  <2>6. QED
    BY <2>2, <2>3, <2>4, <2>5
<1>6. TypesInv'
  BY <1>1, <1>2, <1>3 DEF PathInv, TypesInv
<1>7. WrittenInv'
  BY <1>1 DEF PathInv, WrittenInv
<1>8. BindInv'
  <2>1. Away => Away'
    BY <1>1 DEF Away
  <2>2. Waiting => Waiting'
    BY <1>1 DEF Waiting
  <2>3. \A o \in Nat, h \in SUBSET Files : Watching(o, h) => Watching(o, h)'
    BY <1>1 DEF Watching, Current
  <2>4. QED
    BY <2>1, <2>2, <2>3 DEF PathInv, BindInv
<1>9. HoldInv'
  <2>1. Current' = Current /\ Depth' = Depth /\ size' = size /\ asked' = asked
    BY <1>1 DEF Current, Depth
  <2>2. Announced(toPwa)' # {} => Announced(toPwa) # {}
    <3>1. Announced(Tail(toPwa)) # {} => Announced(toPwa) # {}
      BY <1>1, <1>2, AnnouncedTail
    <3>2. Announced(toPwa)' = Announced(Tail(toPwa))
      BY <1>1 DEF Announced
    <3>3. QED
      BY <3>1, <3>2
  <2>3. Holds(Showing, Current, size[Current], Depth, asked, Announced(toPwa) # {},
              Len(pwa.events) < Buffer)
    BY DEF PathInv, HoldInv
  <2>4. /\ asked \in Seq(Int) /\ Depth \in Nat /\ Showing \in SUBSET LogRow
        /\ IsRebound(fr) => Announced(toPwa) # {}
    BY <1>1, <1>2, DepthBound, ShowingAre, AnnouncedFirst DEF PathInv, TypesInv, fr
  <2> DEFINE anew == Announced(toPwa)' # {}
             room == Len(pwa'.events) < Buffer
  <2>5. Holds(Showing', Current, size[Current], Depth, asked, anew, room)
    <3>1. CASE IsRebound(fr)
      <4>1. Holds(Showing, Current, size[Current], Depth, asked, anew, room)
        BY <2>3, <2>4, <3>1, HoldsWhole
      <4>2. QED
        BY <1>5, <3>1, <4>1
    <3>2. CASE ~IsRebound(fr)
      <4>1. room => Len(pwa.events) < Buffer /\ Showing' = Showing
        BY <1>3, <1>5, <3>2
      <4>2. anew => Announced(toPwa) # {} /\ Showing' = Showing
        BY <1>5, <2>2
      <4> HIDE DEF anew, room
      <4>3. QED
        BY <1>5, <2>3, <4>1, <4>2 DEF Holds
    <3>3. QED
      BY <3>1, <3>2
  <2>6. QED
    BY <2>1, <2>5 DEF HoldInv
<1>10. WorkingIsTimed'
  BY <1>1 DEF PathInv, WorkingIsTimed
<1>11. RebindsAreAskedFor'
  <2>1. /\ IsRebound(fr) =>
             Cardinality(Announced(toPwa')) + 1 <= Cardinality(Announced(toPwa))
        /\ Cardinality(Announced(toPwa')) <= Cardinality(Announced(toPwa))
    BY <1>1, <1>2, AnnouncedTail DEF fr
  <2>2. /\ Cardinality(Announced(toPwa)) \in Nat /\ Cardinality(Announced(toPwa')) \in Nat
        /\ pwa.turned \in Nat /\ pwa'.turned \in Nat /\ armed' = armed
    BY <1>1, <1>2, <1>3, AnnouncedIsFinite DEF View
  <2>3. Cardinality(Announced(toPwa')) + pwa'.turned
            <= Cardinality(Announced(toPwa)) + pwa.turned
    BY <1>3, <2>1, <2>2
  <2>4. Cardinality(Announced(toPwa')) + pwa'.turned + (IF armed' THEN 1 ELSE 0)
            <= Cardinality(Announced(toPwa)) + pwa.turned + (IF armed THEN 1 ELSE 0)
    BY <2>2, <2>3
  <2>5. /\ spent' \in [Events -> Nat] /\ spent'["command"] >= spent["command"]
        /\ armed' \in BOOLEAN
    BY <1>1, <1>6 DEF TypesInv, PathInv, Events
  <2>6. QED
    BY <1>2, <1>3, <2>4, <2>5, RebindsStand
<1>12. QED
  BY <1>6, <1>7, <1>8, <1>9, <1>10, <1>11 DEF PathInv

LEMMA NewPageIsView ==
    NewPage \in View /\ Range(NewPage.events) = {} /\ Announced(<<>>) = {}
    /\ Will({}, <<>>) = {}
<1>1. /\ IsBuffer(<<>>) /\ <<>> \in Seq(LogEvent) /\ Range(<<>>) = {}
      /\ Len(<<>>) <= Buffer
  BY EmptyBuffer, EmptySeq, LimitAssumption
<1>2. NewPage \in View /\ NewPage.events = <<>>
  BY <1>1 DEF NewPage, View
<1>3. Announced(<<>>) = {}
  BY DEF Announced
<1>4. Will({}, <<>>) = {}
  <2>1. {} \in SUBSET LogEvent /\ RowsOf({}) = {}
    BY DEF RowsOf
  <2>2. QED
    BY <2>1, WillAtRest
<1>5. QED
  BY <1>1, <1>2, <1>3, <1>4

LEMMA ReloadStep ==
    ASSUME PathInv, Crossing = FALSE, Reload PROVE PathInv'
<1>1. /\ Spend("reload") /\ asked = <<>> /\ asked' = asked /\ pwa' = NewPage /\ toPwa' = <<>>
      /\ UNCHANGED <<size, fresh, talks, rotates, registered, known, resolved, binds, tails,
                     watcher, dirs, dirWatcher, bound, armed, state, idleTimer, clock>>
  BY DEF Reload, claude, plugin, watchers, session
<1>2. spent' \in [Events -> Nat] /\ spent'["command"] = spent["command"]
      /\ spent["command"] \in Nat
  <2>1. spent \in [Events -> Nat] /\ "reload" \in Events /\ "command" \in Events \ {"reload"}
    BY DEF PathInv, TypesInv, Events
  <2>2. spent["command"] \in Nat
    BY <2>1
  <2>3. QED
    BY <1>1, <2>1, <2>2, Spends
<1>3. TypesInv'
  BY <1>1, <1>2, NewPageIsView, EmptySeq DEF PathInv, TypesInv
<1>4. WrittenInv'
  BY <1>1 DEF PathInv, WrittenInv
<1>5. BindInv'
  <2>1. Away => Away'
    BY <1>1 DEF Away
  <2>2. Waiting => Waiting'
    BY <1>1 DEF Waiting
  <2>3. \A o \in Nat, h \in SUBSET Files : Watching(o, h) => Watching(o, h)'
    BY <1>1 DEF Watching, Current
  <2>4. QED
    BY <2>1, <2>2, <2>3 DEF PathInv, BindInv
<1>6. HoldInv'
  <2>1. Will(Range(pwa'.events), toPwa') = {} /\ Announced(toPwa') = {}
    BY <1>1, NewPageIsView
  <2>2. Showing' = {} /\ Announced(toPwa)' = {}
    BY <2>1 DEF Showing, Announced
  <2>3. 1 .. Len(asked') = {}
    BY <1>1, EmptySeq
  <2>4. QED
    BY <2>2, <2>3 DEF HoldInv, Holds
<1>7. WorkingIsTimed'
  BY <1>1 DEF PathInv, WorkingIsTimed
<1>8. RebindsAreAskedFor'
  <2>1. pwa'.turned = 0 /\ Cardinality(Announced(toPwa')) = 0
    BY <1>1, NewPageIsView, FS_EmptySet DEF NewPage
  <2>2. Cardinality(Announced(toPwa)) \in Nat /\ pwa.turned \in Nat /\ armed' = armed
    BY <1>1, AnnouncedIsFinite DEF PathInv, TypesInv, View
  <2>3. Cardinality(Announced(toPwa')) + pwa'.turned + (IF armed' THEN 1 ELSE 0)
            <= Cardinality(Announced(toPwa)) + pwa.turned + (IF armed THEN 1 ELSE 0)
    BY <2>1, <2>2
  <2>4. armed' \in BOOLEAN /\ toPwa' \in Seq(Frame) /\ pwa' \in View
    BY <1>3 DEF TypesInv
  <2>5. spent'["command"] >= spent["command"]
    BY <1>2
  <2>6. QED
    BY <1>2, <2>3, <2>4, <2>5, RebindsStand
<1>9. QED
  BY <1>3, <1>4, <1>5, <1>6, <1>7, <1>8 DEF PathInv

LEMMA NotedStep ==
    ASSUME PathInv, CommandTimeout \/ OnCliCommand \/ ArmingExpires PROVE PathInv'
<1>1. /\ spent \in [Events -> Nat] /\ pwa \in View /\ armed \in BOOLEAN /\ rotates \in BOOLEAN
      /\ {"timeout", "expire"} \subseteq Events \ {"command"} /\ "command" \in Events
      /\ spent["command"] \in Nat
  BY DEF PathInv, TypesInv, Events
<1>2. CASE CommandTimeout
  <2>1. /\ Spend("timeout") /\ pwa' = [pwa EXCEPT !.pending = "timed_out"]
        /\ UNCHANGED <<size, talks, plugin, binds, tails, watcher, dirWatcher, bound, state,
                       toPwa, asked, clock, fresh, rotates, armed, idleTimer, dirs>>
    BY <1>2 DEF CommandTimeout, claude, watchers, session
  <2>2. spent' \in [Events -> Nat] /\ spent'["command"] = spent["command"]
    BY <1>1, <2>1, Spends
  <2>3. pwa' \in View /\ pwa'.events = pwa.events /\ pwa'.turned = pwa.turned
    BY <1>1, <2>1 DEF View
  <2>4. spent'["command"] >= spent["command"]
    BY <1>1, <2>2
  <2>5. QED
    BY <1>1, <2>1, <2>2, <2>3, <2>4, QuietStep
<1>3. CASE OnCliCommand
  <2>1. /\ Spend("command") /\ armed' = TRUE /\ rotates' \in BOOLEAN
        /\ UNCHANGED <<size, talks, plugin, binds, tails, watcher, dirWatcher, bound, state,
                       toPwa, asked, clock, fresh, idleTimer, dirs, pwa>>
    BY <1>3 DEF OnCliCommand, watchers, page
  <2>2. spent' \in [Events -> Nat] /\ spent'["command"] = spent["command"] + 1
    BY <1>1, <2>1, Spends
  <2>3. spent'["command"] >= spent["command"]
    BY <1>1, <2>2
  <2>4. QED
    BY <1>1, <2>1, <2>2, <2>3, QuietStep
<1>4. CASE ArmingExpires
  <2>1. /\ Spend("expire") /\ armed' = FALSE
        /\ UNCHANGED <<size, talks, plugin, binds, tails, watcher, dirWatcher, bound, state,
                       toPwa, asked, clock, fresh, rotates, idleTimer, dirs, pwa>>
    BY <1>4 DEF ArmingExpires, claude, watchers, page
  <2>2. spent' \in [Events -> Nat] /\ spent'["command"] = spent["command"]
    BY <1>1, <2>1, Spends
  <2>3. spent'["command"] >= spent["command"]
    BY <1>1, <2>2
  <2>4. QED
    BY <1>1, <2>1, <2>2, <2>3, QuietStep
<1>5. QED
  BY <1>2, <1>3, <1>4

-----------------------------------------------------------------------------
(* The invariant is inductive *)

LEMMA PathInvInit == PathInit => PathInv
<1> SUFFICES ASSUME PathInit PROVE PathInv
  OBVIOUS
<1>1. /\ \A f \in Files : size[f] = 0
      /\ size \in [Files -> 0 .. MaxLines] /\ talks \in Files
      /\ toPwa = <<>> /\ asked = <<>> /\ pwa = NewPage /\ binds = <<>> /\ resolved = <<>>
  BY FilesAssumption, LimitAssumption DEF PathInit
<1>2. /\ <<>> \in Seq(Files) /\ <<>> \in Seq(SUBSET Files) /\ <<>> \in Seq(Frame)
      /\ <<>> \in Seq(Int) /\ 1 .. Len(<<>>) = {}
  BY EmptySeq
<1>3. TypesInv
  <2>1. clock \in Nat /\ spent \in [Events -> Nat]
    BY DEF PathInit
  <2>2. pwa \in View
    BY <1>1, NewPageIsView
  <2>3. known = None /\ bound = None /\ state = "gone" /\ fresh = {}
        /\ rotates = FALSE /\ registered = FALSE /\ armed = FALSE /\ idleTimer = FALSE
    BY DEF PathInit
  <2>4. QED
    BY <1>1, <1>2, <2>1, <2>2, <2>3 DEF TypesInv
<1>4. WrittenInv
  BY <1>1, <1>2 DEF PathInit, WrittenInv
<1>5. BindInv
  BY DEF PathInit, BindInv, Away
<1>6. HoldInv
  <2>1. Will(Range(pwa.events), toPwa) = {} /\ Announced(toPwa) = {}
    BY <1>1, NewPageIsView
  <2>2. Showing = {}
    BY <2>1 DEF Showing
  <2>3. 1 .. Len(asked) = {}
    BY <1>1, <1>2
  <2>4. QED
    BY <2>1, <2>2, <2>3 DEF HoldInv, Holds
<1>7. WorkingIsTimed
  BY DEF PathInit, WorkingIsTimed
<1>8. RebindsAreAskedFor
  <2>1. Cardinality(Announced(toPwa)) = 0
    BY <1>1, NewPageIsView, FS_EmptySet
  <2>2. pwa.turned = 0 /\ armed = FALSE /\ spent["command"] = 0
    BY DEF PathInit, NewPage, Events
  <2>3. Cardinality(Announced(toPwa)) + pwa.turned + (IF armed THEN 1 ELSE 0)
            <= spent["command"]
    BY <2>1, <2>2
  <2>4. QED
    BY <2>3 DEF RebindsAreAskedFor, Announced
<1>9. QED
  BY <1>3, <1>4, <1>5, <1>6, <1>7, <1>8 DEF PathInv

LEMMA PathInvStep ==
    ASSUME LeaveEarly = FALSE, Crossing = FALSE, PathInv, [PathNext]_pathVars
    PROVE  PathInv'
<1>1. CASE ClaudeNext
  BY <1>1, ClaudeStep
<1>2. CASE DaemonNext
  BY <1>2, DrainStep, BindResolvesStep, DirEventStep, IdleStep, AnswerStep DEF DaemonNext
<1>3. CASE PluginNext
  BY <1>3, RegistersStep, LearnsStep, LeaveStep, RestartStep DEF PluginNext
<1>4. CASE PwaNext
  BY <1>4, EnterStep, EarlierStep, FrameStep, NotedStep, ReloadStep DEF PwaNext
<1>5. CASE UNCHANGED pathVars
  <2>1. /\ UNCHANGED <<size, talks, plugin, binds, tails, watcher, dirWatcher, bound, state,
                       toPwa, asked, clock, pwa, fresh, rotates, armed, idleTimer, dirs,
                       spent>>
    BY <1>5 DEF pathVars, claude, watchers, session, page
  <2>2. /\ spent["command"] \in Nat /\ spent \in [Events -> Nat] /\ pwa \in View
        /\ rotates \in BOOLEAN /\ armed \in BOOLEAN
    BY DEF PathInv, TypesInv, Events
  <2>3. spent'["command"] >= spent["command"] /\ fresh' \subseteq fresh
    BY <2>1, <2>2
  <2>4. QED
    BY <2>1, <2>2, <2>3, QuietStep
<1>6. QED
  BY <1>1, <1>2, <1>3, <1>4, <1>5 DEF PathNext

-----------------------------------------------------------------------------
(* What follows from it *)

LEMMA LeastLine ==
    ASSUME NEW L \in SUBSET Nat, L # {}
    PROVE  \E n \in L : \A m \in L : n <= m
<1> DEFINE R == {p \in Nat \X Nat : p[1] < p[2]}
<1>1. PICK n \in L : \A m \in L : <<m, n>> \notin R
  <2>1. IsWellFoundedOn(R, Nat)
    BY NatLessThanWellFounded DEF OpToRel
  <2> HIDE DEF R
  <2>2. QED
    BY <2>1, WFMin
<1>2. \A m \in L : ~(m < n)
  BY <1>1
<1>3. \A m \in L : n <= m
  BY <1>2
<1>4. QED
  BY <1>3

LEMMA QuietIsWhole == PathInv => WholeWhenQuiet
<1> SUFFICES ASSUME PathInv, Quiet, Len(pwa.events) < Buffer, NEW f \in Files, f = bound
             PROVE  \E first \in 1 .. MaxLines + 1 :
                        Rows(pwa) = [file : {f}, line : first .. size[f]]
  BY DEF WholeWhenQuiet
<1>1. PICK o \in Nat, h \in SUBSET Files : Watching(o, h)
  BY NoneIsNoFile DEF PathInv, BindInv, Away, Waiting
<1> DEFINE top == size[f]
           W == Showing
<1>2. top \in 0 .. MaxLines /\ MaxLines \in Nat /\ f = Current
  BY <1>1, LimitAssumption DEF Watching, PathInv, TypesInv
<1>3. Depth = top
  <2>1. Depth = o
    BY <1>1, DepthIs
  <2> DEFINE w == [id |-> watcher, file |-> bound, offset |-> o]
  <2>2. w \in tails /\ w.offset = o /\ w.file = bound
    BY <1>1 DEF Watching
  <2> HIDE DEF w
  <2>3. QED
    BY <2>1, <2>2 DEF Quiet
<1>4. Rows(pwa) = W
  <2>1. toPwa = <<>> /\ Range(pwa.events) \in SUBSET LogEvent
    BY ShowingAre DEF Quiet, PathInv
  <2>2. Will(Range(pwa.events), <<>>) = RowsOf(Range(pwa.events))
    BY <2>1, WillAtRest
  <2>3. Rows(pwa) = RowsOf(Range(pwa.events))
    BY DEF Rows, RowsOf
  <2>4. QED
    BY <2>1, <2>2, <2>3 DEF Showing
<1>5. /\ \A r \in W : r.file = f /\ r.line \in 1 .. top
      /\ \A r \in W : \A m \in r.line .. top : LineOf(f, m) \in W
      /\ W \in SUBSET LogRow
  BY <1>2, <1>3, ShowingAre DEF PathInv, HoldInv, Holds
<1> HIDE DEF W
<1>6. CASE W = {}
  <2>1. top + 1 \in 1 .. MaxLines + 1 /\ top + 1 .. top = {}
    BY <1>2
  <2>2. [file : {f}, line : top + 1 .. top] = {}
    BY <2>1
  <2>3. QED
    BY <1>4, <1>6, <2>1, <2>2
<1>7. CASE W # {}
  <2> DEFINE L == {r.line : r \in W}
  <2>1. L \in SUBSET Nat /\ L # {}
    BY <1>2, <1>5, <1>7
  <2> HIDE DEF L
  <2>2. PICK n \in L : \A m \in L : n <= m
    BY <2>1, LeastLine
  <2>3. PICK q \in W : q.line = n
    BY DEF L
  <2>4. n \in 1 .. MaxLines + 1
    BY <1>2, <1>5, <2>3
  <2>5. ASSUME NEW r \in W PROVE r \in [file : {f}, line : n .. top]
    <3>1. r.line \in L
      BY DEF L
    <3>2. n <= r.line /\ r.line \in 1 .. top /\ n \in Nat /\ r.file = f
      BY <1>5, <2>1, <2>2, <3>1
    <3>3. r = [file |-> r.file, line |-> r.line]
      BY <1>5 DEF LogRow
    <3>4. r.line \in n .. top
      BY <1>2, <3>2
    <3>5. QED
      BY <3>2, <3>3, <3>4
  <2>6. ASSUME NEW r \in [file : {f}, line : n .. top] PROVE r \in W
    <3>1. r = LineOf(f, r.line) /\ r.line \in n .. top
      BY DEF LineOf
    <3>2. QED
      BY <1>5, <2>3, <3>1
  <2>7. W = [file : {f}, line : n .. top]
    BY <2>5, <2>6
  <2>8. QED
    BY <1>4, <2>4, <2>7
<1>8. QED
  BY <1>6, <1>7

LEMMA WholeFromInv == PathInv => TimelineIsWhole
<1> SUFFICES ASSUME PathInv PROVE TimelineIsWhole
  OBVIOUS
<1>1. PathTypeOK
  <2>1. \A w \in tails : w.file \in Files /\ w.offset \in 0 .. size[w.file]
    <3>1. ASSUME NEW o \in Nat, NEW h \in SUBSET Files, Watching(o, h)
          PROVE  \A w \in tails : w.file \in Files /\ w.offset \in 0 .. size[w.file]
      <4> DEFINE x == [id |-> watcher, file |-> bound, offset |-> o]
      <4>1. tails = {x} /\ x.file = bound /\ x.offset = o /\ bound \in Files
            /\ o <= size[bound] /\ size[bound] \in Nat
        BY <3>1 DEF Watching, PathInv, TypesInv
      <4>2. o \in 0 .. size[bound]
        BY <4>1
      <4> HIDE DEF x
      <4>3. QED
        BY <4>1, <4>2
    <3>2. QED
      BY <3>1 DEF PathInv, BindInv, Away, Waiting
  <2>2. \A w \in dirs : w.heard \subseteq Files
    BY DEF PathInv, BindInv, Away, Waiting, Watching
  <2>3. pwa.pending \in {"none", "pending", "timed_out"}
    BY DEF PathInv, TypesInv, View
  <2>4. QED
    BY <2>1, <2>2, <2>3 DEF PathInv, TypesInv, PathTypeOK
<1>2. WholeWhenQuiet
  BY QuietIsWhole
<1>3. BoundIsWatched
  <2> SUFFICES ASSUME bound # None PROVE /\ \E w \in tails : w.id = watcher /\ w.file = bound
                                         /\ \E w \in dirs : w.id = dirWatcher
    BY DEF BoundIsWatched
  <2>1. PICK o \in Nat, h \in SUBSET Files : Watching(o, h)
    BY DEF PathInv, BindInv, Away, Waiting
  <2>2. QED
    BY <2>1 DEF Watching
<1>4. QED
  BY <1>1, <1>2, <1>3 DEF PathInv, TimelineIsWhole

\* While the session does not leave before its file is found, and no page is
\* reached by the history another one asked for: a timeline at rest is one
\* stretch of the log without a hole, up to its end, and the watchers behind it
\* are those of the file the session is bound to (jsonl-watcher.ts, index.ts
\* and useHub.ts together).
THEOREM TimelineCorrect ==
    ASSUME LeaveEarly = FALSE, Crossing = FALSE
    PROVE  PathSpec => []TimelineIsWhole
<1>1. PathInit => PathInv
  BY PathInvInit
<1>2. PathInv /\ [PathNext]_pathVars => PathInv'
  BY PathInvStep
<1>3. PathInv => TimelineIsWhole
  BY WholeFromInv
<1>4. QED
  BY <1>1, <1>2, <1>3, PTL DEF PathSpec

-----------------------------------------------------------------------------
(* Types, also of a session that leaves early *)

\* Every open watcher is of a file, and not beyond its end.
OpenInv ==
    /\ \A w \in tails : /\ w = [id |-> w.id, file |-> w.file, offset |-> w.offset]
                        /\ w.file \in Files /\ w.offset \in Nat /\ w.offset <= size[w.file]
    /\ \A w \in dirs : w = [id |-> w.id, heard |-> w.heard] /\ w.heard \subseteq Files

LooseInv == TypesInv /\ OpenInv

LEMMA SpendTypes ==
    ASSUME TypesInv, NEW e \in Events, Spend(e) PROVE spent' \in [Events -> Nat]
BY Spends DEF TypesInv

LEMMA LooseWrite ==
    ASSUME LooseInv, NEW f \in Files, Write(f), talks' \in Files, rotates' \in BOOLEAN,
           spent' \in [Events -> Nat]
    PROVE  LooseInv'
<1>1. /\ Cardinality(Written) < MaxLines /\ size' = [size EXCEPT ![f] = @ + 1]
      /\ fresh' = fresh \cup {f}
      /\ binds' = [i \in DOMAIN binds |-> binds[i] \cup {f}]
      /\ dirs' = {[w EXCEPT !.heard = @ \cup ({f} \ {bound})] : w \in dirs}
      /\ UNCHANGED <<registered, known, resolved, bound, armed, state, idleTimer, toPwa, asked,
                     pwa, tails, clock>>
  BY DEF Write, plugin, session, page
<1>2. size \in [Files -> 0 .. MaxLines] /\ binds \in Seq(SUBSET Files)
  BY DEF LooseInv, TypesInv
<1>3. /\ size' \in [Files -> 0 .. MaxLines]
      /\ \A g \in Files : size[g] \in Nat /\ size'[g] \in Nat /\ size[g] <= size'[g]
  <2>1. size[f] + 1 \in 0 .. MaxLines
    BY <1>1, <1>2, RoomForALine
  <2>2. QED
    BY <1>1, <1>2, <2>1
<1>4. binds' \in Seq(SUBSET Files)
  <2> DEFINE x(i) == binds[i] \cup {f}
             n == Len(binds)
  <2>1. n \in Nat /\ DOMAIN binds = 1 .. n /\ \A i \in 1 .. n : x(i) \in SUBSET Files
    BY <1>2, LenProperties, ElementOfSeq
  <2>2. binds' = [i \in 1 .. n |-> x(i)]
    BY <1>1, <2>1
  <2> HIDE DEF x, n
  <2>3. QED
    BY <2>1, <2>2, IsASeq
<1>5. TypesInv'
  BY <1>1, <1>3, <1>4 DEF LooseInv, TypesInv
<1>6. \A w \in tails : w.offset <= size'[w.file]
  BY <1>3 DEF LooseInv, OpenInv
<1>7. OpenInv'
  BY <1>1, <1>6 DEF LooseInv, OpenInv
<1>8. QED
  BY <1>5, <1>7 DEF LooseInv

LEMMA LooseClaude ==
    ASSUME LooseInv, ClaudeNext PROVE LooseInv'
<1>1. /\ talks \in Files /\ rotates \in BOOLEAN /\ spent \in [Events -> Nat] /\ TypesInv
      /\ {"stray", "age"} \subseteq Events
  BY DEF LooseInv, TypesInv, Events
<1>2. CASE Talk \/ Rotate \/ StrayWrites
  <2>1. /\ \E f \in Files : Write(f)
        /\ talks' \in Files /\ rotates' \in BOOLEAN /\ spent' \in [Events -> Nat]
    <3>1. CASE Talk
      BY <1>1, <3>1 DEF Talk
    <3>2. CASE Rotate
      BY <1>1, <3>2 DEF Rotate
    <3>3. CASE StrayWrites
      BY <1>1, <3>3, SpendTypes DEF StrayWrites
    <3>4. QED
      BY <1>2, <3>1, <3>2, <3>3
  <2>2. QED
    BY <2>1, LooseWrite
<1>3. CASE Age
  <2>1. spent' \in [Events -> Nat]
    BY <1>1, <1>3, SpendTypes DEF Age
  <2>2. QED
    BY <1>3, <2>1 DEF Age, LooseInv, TypesInv, OpenInv, plugin, watchers, session, page
<1>4. QED
  BY <1>2, <1>3 DEF ClaudeNext

LEMMA LooseDrain ==
    ASSUME LooseInv, OnLines PROVE LooseInv'
<1>1. PICK w \in tails : Drain(w)
  BY DEF OnLines
<1> DEFINE top == size[w.file]
           o == w.offset
<1>2. w.file \in Files /\ o \in Nat /\ top \in Nat /\ o < top
      /\ w = [id |-> w.id, file |-> w.file, offset |-> o]
  BY <1>1 DEF Drain, LooseInv, TypesInv, OpenInv
<1>3. /\ EnterStateAfter("working", Lines(w.file, o, top)) /\ idleTimer' = TRUE
      /\ tails' = (tails \ {w}) \cup {[w EXCEPT !.offset = top]}
      /\ UNCHANGED <<size, fresh, talks, rotates, registered, known, resolved, binds,
                     dirs, bound, armed, asked, pwa, spent>>
  BY <1>1 DEF Drain, claude, plugin
<1>4. Batch(Lines(w.file, o, top))
  <2> HIDE DEF o, top
  <2>1. QED
    BY <1>2, LinesAreLines
<1>5. toPwa' \in Seq(Frame) /\ clock' \in Nat /\ state' \in {state, "working"}
  <2>1. clock \in Nat /\ toPwa \in Seq(Frame)
    BY DEF LooseInv, TypesInv
  <2> HIDE DEF o, top
  <2>2. /\ \E d \in Seq(Frame) : toPwa' = toPwa \o d
        /\ clock' \in Nat /\ state' = IF state = "gone" THEN state ELSE "working"
    BY <1>3, <1>4, <2>1, Entered
  <2>3. QED
    BY <2>1, <2>2, ConcatProperties
<1>6. TypesInv'
  BY <1>3, <1>5 DEF LooseInv, TypesInv
<1> DEFINE x == [id |-> w.id, file |-> w.file, offset |-> top]
<1>7. [w EXCEPT !.offset = top] = x
  BY <1>2
<1>8. /\ x = [id |-> x.id, file |-> x.file, offset |-> x.offset]
      /\ x.file = w.file /\ x.offset = top
  OBVIOUS
<1> HIDE DEF x
<1>9. OpenInv'
  BY <1>2, <1>3, <1>7, <1>8 DEF LooseInv, OpenInv
<1>10. QED
  BY <1>6, <1>9 DEF LooseInv

LEMMA LooseStart ==
    ASSUME LooseInv, NEW f \in Files, NEW open \in SUBSET tails, StartSessionWatcher(open, f),
           size' = size
    PROVE  \A w \in tails' :
              /\ w = [id |-> w.id, file |-> w.file, offset |-> w.offset]
              /\ w.file \in Files /\ w.offset \in Nat /\ w.offset <= size'[w.file]
<1> DEFINE x == [id |-> FreeId(open), file |-> f, offset |-> 0]
<1>1. tails' = open \cup {x}
  BY DEF StartSessionWatcher
<1>2. /\ x = [id |-> x.id, file |-> x.file, offset |-> x.offset]
      /\ x.file = f /\ x.offset = 0 /\ size[f] \in Nat
  BY DEF LooseInv, TypesInv
<1> HIDE DEF x
<1>3. QED
  BY <1>1, <1>2 DEF LooseInv, OpenInv

LEMMA LooseDirs ==
    ASSUME LooseInv, StartProjectsDirWatcher
    PROVE  \A w \in dirs' : w = [id |-> w.id, heard |-> w.heard] /\ w.heard \subseteq Files
<1> DEFINE x == [id |-> FreeId(dirs), heard |-> {}]
<1>1. dirs' = dirs \cup {x}
  BY DEF StartProjectsDirWatcher
<1>2. x = [id |-> x.id, heard |-> x.heard] /\ x.heard = {}
  OBVIOUS
<1> HIDE DEF x
<1>3. QED
  BY <1>1, <1>2 DEF LooseInv, OpenInv

LEMMA Removed ==
    ASSUME NEW X, NEW s \in Seq(X), NEW i \in DOMAIN s
    PROVE  RemoveAt(s, i) \in Seq(X)
<1>1. DOMAIN s = 1 .. Len(s) /\ Len(s) \in Nat /\ \A k \in 1 .. Len(s) : s[k] \in X
  BY LenProperties, ElementOfSeq
<1>2. i \in 1 .. Len(s) /\ i - 1 \in Int /\ i + 1 \in Int
  BY <1>1
<1>3. \A k \in 1 .. i - 1 : s[k] \in X
  BY <1>1, <1>2
<1>4. \A k \in i + 1 .. Len(s) : s[k] \in X
  BY <1>1, <1>2
<1>5. SubSeq(s, 1, i - 1) \in Seq(X)
  BY <1>2, <1>3, SubSeqProperties
<1>6. SubSeq(s, i + 1, Len(s)) \in Seq(X)
  BY <1>1, <1>2, <1>4, SubSeqProperties
<1>7. QED
  BY <1>5, <1>6, ConcatProperties DEF RemoveAt

LEMMA LooseBind ==
    ASSUME LooseInv, BindResolves PROVE LooseInv'
<1>1. PICK i \in DOMAIN binds, f \in Files :
        /\ binds' = RemoveAt(binds, i)
        /\ Bind(f)
        /\ UNCHANGED <<claude, registered, known, armed, state, idleTimer, page, clock, spent>>
  BY DEF BindResolves
<1>2. binds' \in Seq(SUBSET Files) /\ resolved \in Seq(Files) /\ LooseInv
  BY <1>1, Removed DEF LooseInv, TypesInv
<1>3. resolved' \in Seq(Files)
  <2>1. Append(resolved, f) \in Seq(Files)
    BY <1>2, AppendProperties
  <2>2. QED
    BY <1>1, <1>2, <2>1 DEF Bind, TellPlugin
<1>4. bound' \in Files \cup {None}
  BY <1>1 DEF Bind, LooseInv, TypesInv
<1>5. TypesInv'
  BY <1>1, <1>2, <1>3, <1>4 DEF LooseInv, TypesInv, claude, page
<1>6. OpenInv'
  <2>1. size' = size /\ StartSessionWatcher(tails, f) /\ StartProjectsDirWatcher
    BY <1>1 DEF Bind, claude
  <2>2. QED
    BY <2>1, LooseStart, LooseDirs DEF OpenInv
<1>7. QED
  BY <1>5, <1>6 DEF LooseInv

LEMMA LooseDirEvent ==
    ASSUME LooseInv, OnDirEvent PROVE LooseInv'
<1>1. PICK w \in dirs, f \in UNION {y.heard : y \in dirs} :
        /\ f \in w.heard
        /\ dirs' = (dirs \ {w}) \cup {[w EXCEPT !.heard = @ \ {f}]}
        /\ \/ armed' = FALSE /\ RebindSession(f)
           \/ UNCHANGED <<armed, tails, watcher, bound, resolved, toPwa>>
        /\ UNCHANGED <<size, fresh, talks, rotates, registered, known, binds, state,
                       idleTimer, asked, pwa, clock, spent>>
  BY DEF OnDirEvent, claude
<1>2. f \in Files /\ w = [id |-> w.id, heard |-> w.heard] /\ w.heard \subseteq Files
  BY DEF LooseInv, OpenInv
<1> DEFINE x == [id |-> w.id, heard |-> w.heard \ {f}]
<1>3. dirs' = (dirs \ {w}) \cup {x}
  BY <1>1, <1>2
<1>4. x = [id |-> x.id, heard |-> x.heard] /\ x.heard \subseteq Files
  BY <1>2
<1> HIDE DEF x
<1>5. \A y \in dirs' : y = [id |-> y.id, heard |-> y.heard] /\ y.heard \subseteq Files
  BY <1>3, <1>4 DEF LooseInv, OpenInv
<1>6. CASE armed' = FALSE /\ RebindSession(f)
  <2>1. \A y \in tails' : /\ y = [id |-> y.id, file |-> y.file, offset |-> y.offset]
                          /\ y.file \in Files /\ y.offset \in Nat /\ y.offset <= size'[y.file]
    <3>1. StartSessionWatcher({y \in tails : y.id # watcher}, f) /\ size' = size
      BY <1>1, <1>6 DEF RebindSession
    <3>2. {y \in tails : y.id # watcher} \in SUBSET tails
      OBVIOUS
    <3>3. QED
      BY <1>2, <3>1, <3>2, LooseStart
  <2>2. resolved' \in Seq(Files)
    <3>1. resolved \in Seq(Files)
      BY DEF LooseInv, TypesInv
    <3>2. Append(resolved, f) \in Seq(Files)
      BY <1>2, <3>1, AppendProperties
    <3>3. QED
      BY <1>6, <3>1, <3>2 DEF RebindSession, TellPlugin
  <2>3. toPwa' \in Seq(Frame)
    <3> DEFINE fr == <<"session_rebound", f>>
    <3>1. fr \in Frame /\ toPwa' = Append(toPwa, fr)
      BY <1>2, <1>6 DEF Frame, RebindSession
    <3> HIDE DEF fr
    <3>2. toPwa \in Seq(Frame)
      BY DEF LooseInv, TypesInv
    <3>3. QED
      BY <3>1, <3>2, AppendProperties
  <2>4. TypesInv'
    BY <1>1, <1>2, <1>6, <2>2, <2>3 DEF LooseInv, TypesInv, RebindSession
  <2>5. QED
    BY <1>5, <2>1, <2>4 DEF LooseInv, OpenInv
<1>7. CASE UNCHANGED <<armed, tails, watcher, bound, resolved, toPwa>>
  <2>1. TypesInv'
    BY <1>1, <1>7 DEF LooseInv, TypesInv
  <2>2. QED
    BY <1>1, <1>5, <1>7, <2>1 DEF LooseInv, OpenInv
<1>8. QED
  BY <1>1, <1>6, <1>7

LEMMA LooseDaemon ==
    ASSUME LooseInv, OnIdle \/ OnRequestHistory PROVE LooseInv'
<1>1. /\ clock \in Nat /\ toPwa \in Seq(Frame) /\ asked \in Seq(Int)
  BY DEF LooseInv, TypesInv
<1>2. CASE OnIdle
  <2>1. Batch(<<>>)
    <3>1. <<>> \in Seq(Frame) /\ 1 .. Len(<<>>) = {}
      BY EmptySeq
    <3>2. QED
      BY <3>1 DEF Batch
  <2>2. /\ \E d \in Seq(Frame) : toPwa' = toPwa \o d
        /\ clock' \in Nat /\ state' = IF state = "gone" THEN state ELSE "idle"
    BY <1>1, <1>2, <2>1, Entered DEF OnIdle
  <2>3. toPwa' \in Seq(Frame) /\ clock' \in Nat /\ state' \in {state, "idle"}
    BY <1>1, <2>2, ConcatProperties
  <2>4. /\ UNCHANGED <<size, fresh, talks, rotates, registered, known, resolved, binds, tails,
                       dirs, bound, armed, asked, pwa, spent>>
        /\ idleTimer' = FALSE
    BY <1>2 DEF OnIdle, claude, plugin, watchers
  <2>5. QED
    BY <2>3, <2>4 DEF LooseInv, TypesInv, OpenInv
<1>3. CASE OnRequestHistory
  <2> DEFINE chunk == IF state = "gone" \/ bound = None THEN <<>>
                      ELSE ReadHistory(bound, Head(asked))
             fr == <<"history_chunk", chunk>>
  <2>1. /\ asked # <<>> /\ asked' = Tail(asked) /\ toPwa' = Append(toPwa, fr)
        /\ UNCHANGED <<size, fresh, talks, rotates, registered, known, resolved, binds, tails,
                       dirs, bound, armed, state, idleTimer, pwa, clock, spent>>
    BY <1>3 DEF OnRequestHistory, claude, plugin, watchers, session
  <2>2. Head(asked) \in Int /\ Tail(asked) \in Seq(Int)
    BY <1>1, <2>1, HeadTailProperties
  <2>3. fr \in Frame
    <3>1. CASE state = "gone" \/ bound = None
      <4>1. IsBuffer(<<>>) /\ <<>> \in Seq(LogEvent) /\ chunk = <<>>
        BY <3>1, EmptyBuffer, EmptySeq
      <4>2. QED
        BY <4>1 DEF Frame
    <3>2. CASE ~(state = "gone" \/ bound = None)
      <4>1. bound \in Files /\ size[bound] \in Nat
        BY <3>2 DEF LooseInv, TypesInv
      <4>2. fr = <<"history_chunk", ReadHistory(bound, Head(asked))>>
        BY <3>2
      <4> HIDE DEF fr
      <4>3. QED
        BY <2>2, <4>1, <4>2, PageIsLines
    <3>3. QED
      BY <3>1, <3>2
  <2> HIDE DEF fr
  <2>4. toPwa' \in Seq(Frame)
    BY <1>1, <2>1, <2>3, AppendProperties
  <2>5. QED
    BY <2>1, <2>2, <2>4 DEF LooseInv, TypesInv, OpenInv
<1>4. QED
  BY <1>2, <1>3

LEMMA LoosePlugin ==
    ASSUME LooseInv, PluginNext PROVE LooseInv'
<1>1. /\ resolved \in Seq(Files) /\ binds \in Seq(SUBSET Files) /\ TypesInv
      /\ {"leave", "restart"} \subseteq Events
  BY DEF LooseInv, TypesInv, Events
<1>2. CASE PluginRegisters
  <2>1. /\ UNCHANGED <<size, fresh, talks, rotates, known, armed, idleTimer,
                       toPwa, asked, pwa, clock, spent>>
        /\ registered' \in BOOLEAN /\ state' = "idle" /\ OnAdd
    BY <1>2 DEF PluginRegisters, OnAdd, claude, page
  <2>2. \/ /\ bound' \in Files /\ StartSessionWatcher(tails, bound')
           /\ StartProjectsDirWatcher
           /\ resolved' \in {resolved, Append(resolved, bound')} /\ binds' = binds
        \/ /\ bound' = known /\ binds' = Append(binds, {})
           /\ UNCHANGED <<resolved, tails, dirs>>
    <3>1. \A f \in KnownFile : f \in Files /\ f = known
      BY DEF KnownFile
    <3>2. fresh \subseteq Files
      BY DEF LooseInv, TypesInv
    <3>3. QED
      BY <2>1, <3>1, <3>2 DEF OnAdd
  <2>3. CASE /\ bound' \in Files /\ StartSessionWatcher(tails, bound')
             /\ StartProjectsDirWatcher
             /\ resolved' \in {resolved, Append(resolved, bound')} /\ binds' = binds
    <3>1. PICK f \in Files : f = bound'
      BY <2>3
    <3>2. Append(resolved, f) \in Seq(Files)
      BY <1>1, AppendProperties
    <3>3. TypesInv'
      BY <2>1, <2>3, <3>1, <3>2 DEF LooseInv, TypesInv
    <3>4. StartSessionWatcher(tails, f) /\ size' = size
      BY <2>1, <2>3, <3>1
    <3>5. OpenInv'
      BY <2>3, <3>4, LooseStart, LooseDirs DEF OpenInv
    <3>6. QED
      BY <3>3, <3>5 DEF LooseInv
  <2>4. CASE /\ bound' = known /\ binds' = Append(binds, {})
             /\ UNCHANGED <<resolved, tails, dirs>>
    <3>1. {} \in SUBSET Files
      OBVIOUS
    <3>2. Append(binds, {}) \in Seq(SUBSET Files)
      BY <1>1, <3>1, AppendProperties
    <3>3. QED
      BY <2>1, <2>4, <3>2 DEF LooseInv, TypesInv, OpenInv
  <2>5. QED
    BY <2>2, <2>3, <2>4
<1>3. CASE PluginLearns
  <2>1. /\ resolved # <<>> /\ known' = Head(resolved) /\ resolved' = Tail(resolved)
        /\ UNCHANGED <<size, fresh, talks, rotates, registered, binds, tails, dirs,
                       bound, armed, state, idleTimer, toPwa, asked, pwa, clock, spent>>
    BY <1>3 DEF PluginLearns, claude, watchers, session, page
  <2>2. known' \in Files /\ resolved' \in Seq(Files)
    BY <1>1, <2>1, HeadTailProperties
  <2>3. QED
    BY <2>1, <2>2 DEF LooseInv, TypesInv, OpenInv
<1>4. CASE Leave
  <2>1. /\ Spend("leave") /\ registered' = FALSE /\ resolved' = <<>>
        /\ bound' = None /\ state' = "gone" /\ armed' = FALSE /\ idleTimer' = FALSE
        /\ tails' \subseteq tails /\ dirs' \subseteq dirs
        /\ UNCHANGED <<size, fresh, talks, rotates, known, binds, toPwa, asked, pwa, clock>>
    BY <1>4 DEF Leave, OnRemove, page, claude
  <2>2. spent' \in [Events -> Nat] /\ resolved' \in Seq(Files)
    BY <1>1, <2>1, SpendTypes, EmptySeq
  <2>3. TypesInv'
    BY <2>1, <2>2 DEF LooseInv, TypesInv
  <2>4. OpenInv'
    BY <2>1 DEF LooseInv, OpenInv
  <2>5. QED
    BY <2>3, <2>4 DEF LooseInv
<1>5. CASE Restart
  <2>1. /\ Spend("restart") /\ registered' = FALSE /\ resolved' = <<>> /\ binds' = <<>>
        /\ bound' = None /\ state' = "gone" /\ armed' = FALSE /\ idleTimer' = FALSE
        /\ tails' = {} /\ dirs' = {} /\ asked' = <<>>
        /\ UNCHANGED <<size, fresh, talks, rotates, known, toPwa, pwa, clock>>
    BY <1>5 DEF Restart, claude
  <2>2. /\ spent' \in [Events -> Nat] /\ resolved' \in Seq(Files)
        /\ binds' \in Seq(SUBSET Files) /\ asked' \in Seq(Int)
    BY <1>1, <2>1, SpendTypes, EmptySeq
  <2>3. TypesInv'
    BY <2>1, <2>2 DEF LooseInv, TypesInv
  <2>4. QED
    BY <2>1, <2>3 DEF LooseInv, OpenInv
<1>6. QED
  BY <1>2, <1>3, <1>4, <1>5 DEF PluginNext

LEMMA LoosePwa ==
    ASSUME LooseInv, PwaNext PROVE LooseInv'
<1>1. /\ toPwa \in Seq(Frame) /\ asked \in Seq(Int) /\ pwa \in View /\ TypesInv
      /\ pwa.events \in Seq(LogEvent) /\ spent \in [Events -> Nat]
      /\ {"page", "reload", "timeout", "command", "expire"} \subseteq Events
  BY DEF LooseInv, TypesInv, View, Events
<1>2. /\ asked' \in Seq(Int) /\ toPwa' \in Seq(Frame) /\ pwa' \in View
      /\ spent' \in [Events -> Nat]
  <2>1. CASE Enter
    <3>1. Append(asked, Everything) \in Seq(Int)
      <4>1. Everything \in Int
        BY LimitAssumption DEF Everything
      <4>2. QED
        BY <1>1, <4>1, AppendProperties
    <3>2. asked' \in Seq(Int) /\ toPwa' = toPwa /\ spent' = spent
      BY <1>1, <2>1, <3>1 DEF Enter
    <3>3. pwa' \in View
      BY <1>1, <2>1 DEF Enter, View
    <3>4. QED
      BY <1>1, <3>2, <3>3
  <2>2. CASE LoadEarlier
    <3>1. pwa.events[1].offset \in Int
      <4>1. 1 \in 1 .. Len(pwa.events)
        BY <1>1, <2>2, EmptySeq DEF LoadEarlier
      <4>2. pwa.events[1] \in LogEvent
        BY <1>1, <4>1, ElementOfSeq
      <4>3. QED
        BY <4>2 DEF LogEvent
    <3>2. asked' \in Seq(Int)
      BY <1>1, <2>2, <3>1, AppendProperties DEF LoadEarlier
    <3>3. pwa' \in View
      BY <1>1, <2>2 DEF LoadEarlier, View
    <3>4. spent' \in [Events -> Nat] /\ toPwa' = toPwa
      BY <1>1, <2>2, SpendTypes DEF LoadEarlier
    <3>5. QED
      BY <1>1, <3>2, <3>3, <3>4
  <2>3. CASE OnFrame
    <3>1. /\ toPwa # <<>> /\ toPwa' = Tail(toPwa) /\ pwa' = Reduce(pwa, Head(toPwa))
          /\ asked' = asked /\ spent' = spent
      BY <2>3 DEF OnFrame
    <3>2. Head(toPwa) \in Frame /\ Tail(toPwa) \in Seq(Frame)
      BY <1>1, <3>1, HeadTailProperties
    <3>3. Reduce(pwa, Head(toPwa)) \in View
      BY <1>1, <3>2, Reduced
    <3>4. QED
      BY <1>1, <3>1, <3>2, <3>3
  <2>4. CASE Reload
    <3>1. spent' \in [Events -> Nat] /\ pwa' \in View
      BY <1>1, <2>4, SpendTypes, NewPageIsView DEF Reload
    <3>2. toPwa' \in Seq(Frame) /\ asked' = asked
      BY <2>4, EmptySeq DEF Reload
    <3>3. QED
      BY <1>1, <3>1, <3>2
  <2>5. CASE CommandTimeout
    <3>1. spent' \in [Events -> Nat] /\ toPwa' = toPwa /\ asked' = asked
      BY <1>1, <2>5, SpendTypes DEF CommandTimeout
    <3>2. pwa' \in View
      BY <1>1, <2>5 DEF CommandTimeout, View
    <3>3. QED
      BY <1>1, <3>1, <3>2
  <2>6. CASE OnCliCommand \/ ArmingExpires
    <3>1. spent' \in [Events -> Nat]
      BY <1>1, <2>6, SpendTypes DEF OnCliCommand, ArmingExpires
    <3>2. QED
      BY <1>1, <2>6, <3>1 DEF OnCliCommand, ArmingExpires, page
  <2>7. QED
    BY <2>1, <2>2, <2>3, <2>4, <2>5, <2>6 DEF PwaNext
<1>3. /\ UNCHANGED <<size, fresh, talks, registered, known, resolved, binds, tails, dirs, bound,
                     state, idleTimer, clock>>
      /\ rotates' \in BOOLEAN /\ armed' \in BOOLEAN
  <2>1. rotates \in BOOLEAN /\ armed \in BOOLEAN
    BY DEF LooseInv, TypesInv
  <2>2. QED
    BY <2>1 DEF PwaNext, Enter, LoadEarlier, OnFrame, Reload, CommandTimeout, OnCliCommand,
                ArmingExpires, claude, plugin, watchers, session
<1>4. TypesInv'
  BY <1>2, <1>3 DEF LooseInv, TypesInv
<1>5. OpenInv'
  BY <1>3 DEF LooseInv, OpenInv
<1>6. QED
  BY <1>4, <1>5 DEF LooseInv

LEMMA LooseStep ==
    ASSUME LooseInv, [PathNext]_pathVars PROVE LooseInv'
<1>1. CASE DaemonNext
  BY <1>1, LooseDrain, LooseBind, LooseDirEvent, LooseDaemon DEF DaemonNext
<1>2. CASE UNCHANGED pathVars
  BY <1>2 DEF LooseInv, TypesInv, OpenInv, pathVars, claude, plugin, watchers, session, page
<1>3. QED
  BY <1>1, <1>2, LooseClaude, LoosePlugin, LoosePwa DEF PathNext

LEMMA LooseInit == PathInit => LooseInv
<1>1. PathInit => TypesInv
  BY PathInvInit DEF PathInv
<1>2. PathInit => OpenInv
  BY DEF PathInit, OpenInv
<1>3. QED
  BY <1>1, <1>2 DEF LooseInv

\* Only a rebound and a new page take rows away; Reduce adds to the others.
LEMMA NothingTaken ==
    ASSUME LooseInv, [PathNext]_pathVars
    PROVE  \/ Rows(pwa) \subseteq Rows(pwa')
           \/ pwa'.turned = pwa.turned + 1
           \/ Len(pwa'.events) = Buffer
           \/ spent'["reload"] = spent["reload"] + 1
<1>1. CASE pwa'.events = pwa.events
  BY <1>1 DEF Rows
<1>2. CASE OnFrame
  <2>1. toPwa # <<>> /\ pwa' = Reduce(pwa, Head(toPwa)) /\ toPwa \in Seq(Frame) /\ pwa \in View
    BY <1>2 DEF OnFrame, LooseInv, TypesInv
  <2>2. Head(toPwa) \in Frame
    BY <2>1, HeadTailProperties
  <2>3. /\ pwa' \in View
        /\ \/ pwa'.turned = pwa.turned + 1
           \/ Range(pwa.events) \subseteq Range(pwa'.events)
           \/ ~(Len(pwa'.events) < Buffer)
    BY <2>1, <2>2, Reduced
  <2>4. Len(pwa'.events) <= Buffer /\ Len(pwa'.events) \in Nat /\ Buffer \in Nat
    BY <2>3, LenProperties, LimitAssumption DEF View
  <2>5. QED
    BY <2>3, <2>4 DEF Rows
<1>3. CASE Reload
  <2>1. Spend("reload") /\ "reload" \in Events /\ spent \in [Events -> Nat]
    BY <1>3 DEF Reload, LooseInv, TypesInv, Events
  <2>2. QED
    BY <2>1, Spends
<1>4. CASE Enter \/ LoadEarlier \/ CommandTimeout
  <2>1. pwa \in View
    BY DEF LooseInv, TypesInv
  <2>2. pwa'.events = pwa.events
    BY <1>4, <2>1 DEF Enter, LoadEarlier, CommandTimeout, View
  <2>3. QED
    BY <1>1, <2>2
<1>5. CASE OnCliCommand \/ ArmingExpires \/ UNCHANGED pathVars
  BY <1>1, <1>5 DEF OnCliCommand, ArmingExpires, pathVars, page
<1>6. CASE PluginNext
  BY <1>1, <1>6 DEF PluginNext, PluginRegisters, PluginLearns, Leave, Restart, page
<1>7. CASE DaemonNext
  BY <1>1, <1>7 DEF DaemonNext, OnLines, Drain, BindResolves, OnDirEvent, OnIdle,
                    OnRequestHistory, page
<1>8. CASE ClaudeNext
  BY <1>1, <1>8 DEF ClaudeNext, Talk, Rotate, StrayWrites, Age, Write, page
<1>9. QED
  BY <1>2, <1>3, <1>4, <1>5, <1>6, <1>7, <1>8 DEF PathNext, PwaNext

\* A step that does not announce another conversation and does not open the
\* page anew leaves every row on the screen until PER_SESSION_BUFFER is reached:
\* useHub.ts adds events and pages to the buffer and takes out what is too much.
THEOREM NothingIsLostCorrect == PathSpec => NothingIsTakenAway
<1>1. PathInit => LooseInv
  BY LooseInit
<1>2. LooseInv /\ [PathNext]_pathVars => LooseInv'
  BY LooseStep
<1>3. LooseInv /\ [PathNext]_pathVars
        => [Rows(pwa) \subseteq Rows(pwa')
            \/ pwa'.turned = pwa.turned + 1
            \/ Len(pwa'.events) = Buffer
            \/ spent'["reload"] = spent["reload"] + 1]_pwa
  BY NothingTaken
<1>4. QED
  BY <1>1, <1>2, <1>3, PTL DEF PathSpec, NothingIsTakenAway

-----------------------------------------------------------------------------
(* The machine of the states *)

USE DEF SessionState, Entry, NewEntry, Registered

\* What a handler that only touches the entry of s leaves of the invariant.
LEMMA QuietlyInv ==
    ASSUME FsmInv, NEW s \in Sessions, NEW e \in Entry,
           Quietly(s, e), s \in Registered,
           e.state = entries[s].state,
           e.state = "waiting" <=> e.pendingCount > 0,
           e.prevBeforeWaiting # "waiting"
    PROVE  FsmInv'
<1>1. /\ Registered' = Registered
      /\ entries'[s] = e
      /\ \A t \in Registered : t # s => entries'[t] = entries[t]
      /\ entries' \in [Registered -> Entry]
  BY DEF Quietly, SetEntry, FsmInv, TypeOK
<1>2. shown' = shown /\ run' = run
  BY DEF Quietly
<1>3. TypeOK'
  BY <1>1, <1>2 DEF FsmInv, TypeOK
<1>4. WaitingIffPending' /\ StashIsActivity'
  BY <1>1 DEF FsmInv, WaitingIffPending, StashIsActivity
<1>5. ShownIsState'
  BY <1>1, <1>2 DEF FsmInv, ShownIsState
<1>6. QED
  BY <1>3, <1>4, <1>5 DEF FsmInv

\* What transition() leaves of it: e is the entry with its counters updated.
LEMMA TransitionInv ==
    ASSUME FsmInv, NEW s \in Sessions, NEW e \in Entry, NEW next \in SessionState,
           Transition(s, e, next),
           e.state = shown[s],
           next = "waiting" <=> e.pendingCount > 0,
           e.prevBeforeWaiting # "waiting"
    PROVE  FsmInv'
<1>1. /\ Registered' = Registered \cup {s}
      /\ entries'[s] = [e EXCEPT !.state = next]
      /\ \A t \in Registered : t # s => entries'[t] = entries[t]
      /\ entries' \in [Registered' -> Entry]
  BY DEF Transition, SetEntry, FsmInv, TypeOK
<1>2. /\ shown' = [shown EXCEPT ![s] = next]
      /\ shown' \in [Sessions -> SessionState]
  BY DEF Transition, FsmInv, TypeOK
<1>3. run' \in [Sessions -> {"none", "open", "closed"}]
  BY DEF Transition, RunAfter, FsmInv, TypeOK
<1>4. TypeOK'
  BY <1>1, <1>2, <1>3 DEF FsmInv, TypeOK
<1>5. WaitingIffPending' /\ StashIsActivity'
  BY <1>1 DEF FsmInv, WaitingIffPending, StashIsActivity
<1>6. ShownIsState'
  BY <1>1, <1>2 DEF FsmInv, TypeOK, ShownIsState
<1>7. QED
  BY <1>4, <1>5, <1>6 DEF FsmInv

LEMMA RegisterInv ==
    ASSUME FsmInv, NEW s \in Sessions, Register(s)
    PROVE  FsmInv'
<1>1. CASE s \notin Registered
  <2>1. /\ Registered' = Registered \cup {s}
        /\ entries'[s] = NewEntry
        /\ \A t \in Registered : t # s => entries'[t] = entries[t]
        /\ entries' \in [Registered' -> Entry]
        /\ shown' = [shown EXCEPT ![s] = "idle"]
        /\ run' = [run EXCEPT ![s] = "none"]
    BY <1>1 DEF Register, SetEntry, FsmInv, TypeOK
  <2>2. TypeOK'
    BY <2>1 DEF FsmInv, TypeOK
  <2>3. WaitingIffPending' /\ StashIsActivity'
    BY <2>1 DEF FsmInv, WaitingIffPending, StashIsActivity
  <2>4. ShownIsState'
    BY <2>1 DEF FsmInv, TypeOK, ShownIsState
  <2>5. QED
    BY <2>2, <2>3, <2>4 DEF FsmInv
<1>2. CASE s \in Registered
  BY <1>2 DEF Register, vars, FsmInv, TypeOK, WaitingIffPending,
              StashIsActivity, ShownIsState
<1>3. QED
  BY <1>1, <1>2

LEMMA RemoveInv ==
    ASSUME FsmInv, NEW s \in Sessions, RemoveSession(s)
    PROVE  FsmInv'
<1>1. /\ Registered' = Registered \ {s}
      /\ \A t \in Registered' : entries'[t] = entries[t]
      /\ entries' \in [Registered' -> Entry]
      /\ shown' = [shown EXCEPT ![s] = "idle"]
      /\ run' = [run EXCEPT ![s] = "none"]
  BY DEF RemoveSession, FsmInv, TypeOK
<1>2. TypeOK'
  BY <1>1 DEF FsmInv, TypeOK
<1>3. WaitingIffPending' /\ StashIsActivity'
  BY <1>1 DEF FsmInv, WaitingIffPending, StashIsActivity
<1>4. ShownIsState'
  BY <1>1 DEF FsmInv, TypeOK, ShownIsState
<1>5. QED
  BY <1>2, <1>3, <1>4 DEF FsmInv

LEMMA ActivityInv ==
    ASSUME FsmInv, NEW s \in Sessions, NEW to \in {"idle", "working"},
           Activity(s, to)
    PROVE  FsmInv'
<1>1. s \in Registered /\ entries[s] \in Entry
  BY DEF Activity, FsmInv, TypeOK
<1>2. CASE entries[s].state = "waiting"
  <2>1. Quietly(s, [entries[s] EXCEPT !.prevBeforeWaiting = to])
    BY <1>2 DEF Activity
  <2>2. QED
    BY <1>1, <2>1, QuietlyInv DEF FsmInv, WaitingIffPending
<1>3. CASE entries[s].state # "waiting"
  <2>1. Transition(s, entries[s], to)
    BY <1>3 DEF Activity
  <2>2. QED
    BY <1>1, <1>3, <2>1, TransitionInv
       DEF FsmInv, WaitingIffPending, StashIsActivity, ShownIsState
<1>4. QED
  BY <1>2, <1>3

\* The entry a request finds is a session's, or a fresh one.
LEMMA EntryForType ==
    ASSUME FsmInv, NEW s \in Sessions
    PROVE  /\ EntryFor(s) \in Entry
           /\ EntryFor(s).state = shown[s]
           /\ EntryFor(s).state = "waiting" <=> EntryFor(s).pendingCount > 0
           /\ EntryFor(s).prevBeforeWaiting # "waiting"
           /\ EntryFor(s).state = "waiting" => s \in Registered
BY DEF EntryFor, FsmInv, TypeOK, WaitingIffPending, StashIsActivity, ShownIsState

LEMMA RequestInv ==
    ASSUME FsmInv, NEW s \in Sessions, OnPermissionRequest(s)
    PROVE  FsmInv'
<1> DEFINE cur == EntryFor(s)
           counted == [cur EXCEPT !.pendingCount = @ + 1]
<1>1. /\ cur \in Entry
      /\ cur.state = shown[s]
      /\ cur.state = "waiting" <=> cur.pendingCount > 0
      /\ cur.prevBeforeWaiting # "waiting"
      /\ cur.state = "waiting" => s \in Registered
  BY EntryForType
<1>2. CASE cur.state = "waiting"
  <2>1. Quietly(s, counted)
    BY <1>2 DEF OnPermissionRequest
  <2>2. cur = entries[s]
    BY <1>1, <1>2 DEF EntryFor
  <2>3. /\ counted \in Entry
        /\ counted.state = entries[s].state
        /\ counted.pendingCount > 0
        /\ counted.prevBeforeWaiting # "waiting"
    BY <1>1, <1>2, <2>2
  <2>4. QED
    BY <1>1, <1>2, <2>1, <2>2, <2>3, QuietlyInv
<1>3. CASE cur.state # "waiting"
  <2> DEFINE e == [counted EXCEPT !.prevBeforeWaiting = cur.state]
  <2>1. Transition(s, e, "waiting")
    BY <1>3 DEF OnPermissionRequest
  <2>2. /\ counted \in Entry
        /\ counted.state = cur.state
        /\ counted.pendingCount > 0
    BY <1>1
  <2>3. /\ e \in Entry
        /\ e.state = counted.state
        /\ e.pendingCount = counted.pendingCount
        /\ e.prevBeforeWaiting = cur.state
    <3> HIDE DEF cur, counted
    <3> QED
      BY <1>1, <2>2
  <2>4. QED
    BY <1>1, <1>3, <2>1, <2>2, <2>3, TransitionInv
<1>4. QED
  BY <1>2, <1>3

LEMMA ResolvedInv ==
    ASSUME FsmInv, NEW s \in Sessions, OnPermissionResolved(s)
    PROVE  FsmInv'
<1> DEFINE cur == entries[s]
           fewer == IF cur.pendingCount > 0 THEN cur.pendingCount - 1 ELSE 0
           counted == [cur EXCEPT !.pendingCount = fewer]
<1>1. /\ s \in Registered
      /\ cur \in Entry
      /\ cur.state = shown[s]
      /\ cur.state = "waiting" <=> cur.pendingCount > 0
      /\ cur.prevBeforeWaiting # "waiting"
  BY DEF OnPermissionResolved, FsmInv, TypeOK, WaitingIffPending,
         StashIsActivity, ShownIsState
<1>2. /\ counted \in Entry
      /\ counted.state = cur.state
      /\ counted.pendingCount = fewer
      /\ counted.prevBeforeWaiting = cur.prevBeforeWaiting
  BY <1>1
<1>3. CASE fewer > 0 \/ cur.state # "waiting"
  <2>1. Quietly(s, counted)
    BY <1>3 DEF OnPermissionResolved
  <2>2. counted.state = "waiting" <=> counted.pendingCount > 0
    BY <1>1, <1>2, <1>3
  <2>3. QED
    BY <1>1, <1>2, <2>1, <2>2, QuietlyInv
<1>4. CASE ~(fewer > 0 \/ cur.state # "waiting")
  <2>1. Transition(s, counted, cur.prevBeforeWaiting)
    BY <1>4 DEF OnPermissionResolved
  <2>2. fewer = 0
    BY <1>1, <1>4
  <2>3. QED
    BY <1>1, <1>2, <2>1, <2>2, TransitionInv
<1>5. QED
  BY <1>3, <1>4

\* The inductive step of FsmInv: one case per handler.
LEMMA NextInv == FsmInv /\ [Next]_vars => FsmInv'
<1> SUFFICES ASSUME FsmInv, [Next]_vars PROVE FsmInv'
  OBVIOUS
<1>1. CASE UNCHANGED vars
  BY <1>1 DEF vars, FsmInv, TypeOK, WaitingIffPending, StashIsActivity,
              ShownIsState
<1>2. CASE Next
  <2>1. PICK s \in Sessions :
            \/ Register(s) \/ RemoveSession(s) \/ OnJsonlLine(s) \/ OnIdleTimer(s)
            \/ OnPermissionRequest(s) \/ OnPermissionResolved(s)
    BY <1>2 DEF Next
  <2>2. CASE Register(s)
    BY <2>2, RegisterInv
  <2>3. CASE RemoveSession(s)
    BY <2>3, RemoveInv
  <2>4. CASE OnJsonlLine(s) \/ OnIdleTimer(s)
    BY <2>4, ActivityInv DEF OnJsonlLine, OnIdleTimer
  <2>5. CASE OnPermissionRequest(s)
    BY <2>5, RequestInv
  <2>6. CASE OnPermissionResolved(s)
    BY <2>6, ResolvedInv
  <2>7. QED
    BY <2>1, <2>2, <2>3, <2>4, <2>5, <2>6
<1>3. QED
  BY <1>1, <1>2

LEMMA InitInv == Init => FsmInv
BY DEF Init, FsmInv, TypeOK, WaitingIffPending, StashIsActivity, ShownIsState

\* FsmInv holds in every reachable state.
LEMMA FsmInvariant == Spec => []FsmInv
BY InitInv, NextInv, PTL DEF Spec

\* The entries of the session machine are always well formed.
THEOREM TypeCorrect == Spec => []TypeOK
<1>1. FsmInv => TypeOK
  BY DEF FsmInv
<1>2. QED
  BY <1>1, FsmInvariant, PTL

\* In every reachable state a session shows "waiting" exactly while it has
\* requests pending, and what is shown is the state of the machine.
THEOREM WaitingCorrect == Spec => [](WaitingIffPending /\ ShownIsState)
<1>1. FsmInv => WaitingIffPending /\ ShownIsState
  BY DEF FsmInv
<1>2. QED
  BY <1>1, FsmInvariant, PTL

-----------------------------------------------------------------------------

(* The refinement: under FsmInv, each handler is a step of SessionStatus. *)

\* What the mapped variables become when only the entry of s changes.
LEMMA MappedStep ==
    ASSUME FsmInv, FsmInv', NEW s \in Sessions, NEW a, NEW n,
           \A t \in Sessions \ {s} :
               /\ t \in Registered' <=> t \in Registered
               /\ t \in Registered => entries'[t] = entries[t],
           ActivityOf(s)' = a,
           PendingOf(s)' = n
    PROVE  Status!Becomes(s, a, n)
<1>1. \A t \in Sessions \ {s} : ActivityOf(t)' = ActivityOf(t) /\ PendingOf(t)' = PendingOf(t)
  BY DEF ActivityOf, PendingOf
<1>2. [t \in Sessions |-> ActivityOf(t)]'
        = [[t \in Sessions |-> ActivityOf(t)] EXCEPT ![s] = a]
  BY <1>1
<1>3. [t \in Sessions |-> PendingOf(t)]'
        = [[t \in Sessions |-> PendingOf(t)] EXCEPT ![s] = n]
  BY <1>1
<1>4. \A t \in Sessions \ {s} : shown'[t] = shown[t]
  BY DEF FsmInv, ShownIsState
<1>5. shown'[s] = Status!Status(a, n)
  BY DEF FsmInv, ShownIsState, WaitingIffPending, TypeOK, ActivityOf, PendingOf,
         Status!Status
<1>6. shown' = [shown EXCEPT ![s] = Status!Status(a, n)]
  BY <1>4, <1>5 DEF FsmInv, TypeOK
<1>7. QED
  BY <1>2, <1>3, <1>6 DEF Status!Becomes

LEMMA RegisterMaps ==
    ASSUME FsmInv, FsmInv', NEW s \in Sessions, Register(s)
    PROVE  Status!Open(s)
<1>1. /\ Registered' = Registered \cup {s}
      /\ \A t \in Registered : entries'[t] = entries[t]
      /\ s \notin Registered => entries'[s] = NewEntry
  BY DEF Register, SetEntry, vars
<1>2. /\ ActivityOf(s)' = IF s \in Registered THEN ActivityOf(s) ELSE "idle"
      /\ PendingOf(s)' = IF s \in Registered THEN PendingOf(s) ELSE 0
  BY <1>1 DEF ActivityOf, PendingOf
<1>3. Status!Becomes(s, IF s \in Registered THEN ActivityOf(s) ELSE "idle",
                        IF s \in Registered THEN PendingOf(s) ELSE 0)
  BY <1>1, <1>2, MappedStep
<1>4. QED
  BY <1>1, <1>2, <1>3 DEF Status!Open

LEMMA RemoveMaps ==
    ASSUME FsmInv, FsmInv', NEW s \in Sessions, RemoveSession(s)
    PROVE  Status!Close(s)
<1>1. /\ Registered' = Registered \ {s}
      /\ \A t \in Registered' : entries'[t] = entries[t]
  BY DEF RemoveSession
<1>2. ActivityOf(s)' = "idle" /\ PendingOf(s)' = 0
  BY <1>1 DEF ActivityOf, PendingOf
<1>3. Status!Becomes(s, "idle", 0)
  BY <1>1, <1>2, MappedStep
<1>4. QED
  BY <1>1, <1>2, <1>3 DEF Status!Close

LEMMA ActivityMaps ==
    ASSUME FsmInv, FsmInv', NEW s \in Sessions, NEW to \in {"idle", "working"},
           Activity(s, to)
    PROVE  Status!Observe(s, to)
<1>1. s \in Registered /\ entries[s] \in Entry
  BY DEF Activity, FsmInv, TypeOK
<1>2. /\ Registered' = Registered
      /\ \A t \in Registered : t # s => entries'[t] = entries[t]
      /\ ActivityOf(s)' = to
      /\ PendingOf(s)' = PendingOf(s)
  <2>1. CASE entries[s].state = "waiting"
    <3> DEFINE e == [entries[s] EXCEPT !.prevBeforeWaiting = to]
    <3>1. Quietly(s, e)
      BY <2>1 DEF Activity
    <3>2. /\ Registered' = Registered
          /\ \A t \in Registered : t # s => entries'[t] = entries[t]
          /\ entries'[s] = e
      BY <1>1, <3>1 DEF Quietly, SetEntry
    <3>3. QED
      BY <1>1, <2>1, <3>2 DEF ActivityOf, PendingOf
  <2>2. CASE entries[s].state # "waiting"
    <3>1. Transition(s, entries[s], to)
      BY <2>2 DEF Activity
    <3>2. /\ Registered' = Registered
          /\ \A t \in Registered : t # s => entries'[t] = entries[t]
          /\ entries'[s] = [entries[s] EXCEPT !.state = to]
      BY <1>1, <3>1 DEF Transition, SetEntry
    <3>3. QED
      BY <1>1, <3>2 DEF ActivityOf, PendingOf
  <2>3. QED
    BY <2>1, <2>2
<1>3. Status!Becomes(s, to, PendingOf(s))
  BY <1>2, MappedStep
<1>4. QED
  BY <1>1, <1>2, <1>3 DEF Status!Observe

LEMMA RequestMaps ==
    ASSUME FsmInv, FsmInv', NEW s \in Sessions, OnPermissionRequest(s)
    PROVE  Status!Ask(s)
<1> DEFINE cur == EntryFor(s)
           counted == [cur EXCEPT !.pendingCount = @ + 1]
<1>1. /\ cur \in Entry
      /\ cur.state = "waiting" => s \in Registered
  BY EntryForType
<1>2. /\ counted \in Entry
      /\ counted.state = cur.state
      /\ counted.pendingCount = cur.pendingCount + 1
      /\ counted.prevBeforeWaiting = cur.prevBeforeWaiting
  BY <1>1
<1>3. cur.state = ActivityOf(s) \/ cur.state = "waiting"
  BY DEF EntryFor, ActivityOf
<1>4. PendingOf(s) = cur.pendingCount
  BY DEF EntryFor, PendingOf
<1>5. cur.state = "waiting" => ActivityOf(s) = cur.prevBeforeWaiting
  BY <1>1 DEF EntryFor, ActivityOf
<1>6. /\ Registered' = Registered \cup {s}
      /\ \A t \in Registered : t # s => entries'[t] = entries[t]
      /\ ActivityOf(s)' = ActivityOf(s)
      /\ PendingOf(s)' = PendingOf(s) + 1
  <2>1. CASE cur.state = "waiting"
    <3>1. Quietly(s, counted)
      BY <2>1 DEF OnPermissionRequest
    <3>2. /\ Registered' = Registered \cup {s}
          /\ \A t \in Registered : t # s => entries'[t] = entries[t]
          /\ entries'[s] = counted
      BY <3>1 DEF Quietly, SetEntry
    <3> HIDE DEF cur, counted
    <3>3. QED
      BY <1>2, <1>4, <1>5, <2>1, <3>2 DEF ActivityOf, PendingOf
  <2>2. CASE cur.state # "waiting"
    <3> DEFINE e == [counted EXCEPT !.prevBeforeWaiting = cur.state]
               f == [e EXCEPT !.state = "waiting"]
    <3>1. Transition(s, e, "waiting")
      BY <2>2 DEF OnPermissionRequest
    <3>2. /\ Registered' = Registered \cup {s}
          /\ \A t \in Registered : t # s => entries'[t] = entries[t]
          /\ entries'[s] = f
      BY <3>1 DEF Transition, SetEntry
    <3> HIDE DEF cur, counted
    <3>3. f.state = "waiting" /\ f.pendingCount = cur.pendingCount + 1
            /\ f.prevBeforeWaiting = cur.state
      BY <1>1, <1>2
    <3> HIDE DEF f
    <3>4. QED
      BY <1>3, <1>4, <2>2, <3>2, <3>3 DEF ActivityOf, PendingOf
  <2>3. QED
    BY <2>1, <2>2
<1>7. Status!Becomes(s, ActivityOf(s), PendingOf(s) + 1)
  BY <1>6, MappedStep
<1>8. QED
  BY <1>6, <1>7 DEF Status!Ask

LEMMA ResolvedMaps ==
    ASSUME FsmInv, FsmInv', NEW s \in Sessions, OnPermissionResolved(s)
    PROVE  Status!Answer(s)
<1> DEFINE cur == entries[s]
           fewer == IF cur.pendingCount > 0 THEN cur.pendingCount - 1 ELSE 0
           counted == [cur EXCEPT !.pendingCount = fewer]
<1>1. /\ s \in Registered
      /\ cur \in Entry
      /\ cur.state = "waiting" <=> cur.pendingCount > 0
      /\ cur.prevBeforeWaiting # "waiting"
  BY DEF OnPermissionResolved, FsmInv, TypeOK, WaitingIffPending, StashIsActivity
<1>2. /\ counted \in Entry
      /\ counted.state = cur.state
      /\ counted.pendingCount = fewer
      /\ counted.prevBeforeWaiting = cur.prevBeforeWaiting
  BY <1>1
<1>3. /\ Registered' = Registered
      /\ \A t \in Registered : t # s => entries'[t] = entries[t]
      /\ ActivityOf(s)' = ActivityOf(s)
      /\ PendingOf(s)' = fewer
  <2>1. CASE fewer > 0 \/ cur.state # "waiting"
    <3>1. Quietly(s, counted)
      BY <2>1 DEF OnPermissionResolved
    <3>2. /\ Registered' = Registered
          /\ \A t \in Registered : t # s => entries'[t] = entries[t]
          /\ entries'[s] = counted
      BY <1>1, <3>1 DEF Quietly, SetEntry
    <3>3. QED
      BY <1>1, <1>2, <3>2 DEF ActivityOf, PendingOf
  <2>2. CASE ~(fewer > 0 \/ cur.state # "waiting")
    <3> DEFINE f == [counted EXCEPT !.state = cur.prevBeforeWaiting]
    <3>1. Transition(s, counted, cur.prevBeforeWaiting)
      BY <2>2 DEF OnPermissionResolved
    <3>2. /\ Registered' = Registered
          /\ \A t \in Registered : t # s => entries'[t] = entries[t]
          /\ entries'[s] = f
      BY <1>1, <3>1 DEF Transition, SetEntry
    <3>3. f.state = cur.prevBeforeWaiting /\ f.pendingCount = fewer
      BY <1>1, <1>2
    <3>4. QED
      BY <1>1, <2>2, <3>2, <3>3 DEF ActivityOf, PendingOf
  <2>3. QED
    BY <2>1, <2>2
<1>4. fewer = IF PendingOf(s) > 0 THEN PendingOf(s) - 1 ELSE 0
  BY <1>1 DEF PendingOf
<1>5. Status!Becomes(s, ActivityOf(s), fewer)
  BY <1>3, MappedStep
<1>6. QED
  BY <1>1, <1>3, <1>4, <1>5 DEF Status!Answer

\* The machine of session-fsm.ts implements the abstract status: what the PWAs
\* are shown is "waiting" while requests are pending and the last observed
\* activity otherwise.
THEOREM StatusRefinement == Spec => ImplementsStatus
<1>1. Init => Status!Init
  BY DEF Init, Status!Init, ActivityOf, PendingOf
<1>2. FsmInv /\ FsmInv' /\ [Next]_vars => [Status!Next]_(Status!vars)
  <2> SUFFICES ASSUME FsmInv, FsmInv', [Next]_vars
               PROVE  [Status!Next]_(Status!vars)
    OBVIOUS
  <2>1. CASE UNCHANGED vars
    BY <2>1 DEF vars, Status!vars, ActivityOf, PendingOf
  <2>2. CASE Next
    <3>1. PICK s \in Sessions :
              \/ Register(s) \/ RemoveSession(s) \/ OnJsonlLine(s) \/ OnIdleTimer(s)
              \/ OnPermissionRequest(s) \/ OnPermissionResolved(s)
      BY <2>2 DEF Next
    <3>2. \/ Status!Open(s) \/ Status!Close(s) \/ Status!Observe(s, "working")
          \/ Status!Observe(s, "idle") \/ Status!Ask(s) \/ Status!Answer(s)
      BY <3>1, RegisterMaps, RemoveMaps, ActivityMaps, RequestMaps, ResolvedMaps
         DEF OnJsonlLine, OnIdleTimer
    <3>3. QED
      BY <3>2 DEF Status!Next
  <2>3. QED
    BY <2>1, <2>2
<1>3. QED
  BY <1>1, <1>2, FsmInvariant, PTL DEF Spec, Status!Spec, ImplementsStatus
-----------------------------------------------------------------------------
(* SessionStart *)

\* What is left of a sequence is what was there, in its order.
LEMMA QueueWithout ==
    ASSUME NEW S, NEW s \in Seq(S), NEW i \in 1..Len(s)
    PROVE  /\ RemoveAt(s, i) \in Seq(S) /\ Len(RemoveAt(s, i)) = Len(s) - 1
           /\ \A k \in 1..Len(RemoveAt(s, i)) :
                 RemoveAt(s, i)[k] = IF k < i THEN s[k] ELSE s[k + 1]
<1> DEFINE a == SubSeq(s, 1, i - 1)
           b == SubSeq(s, i + 1, Len(s))
           rest == RemoveAt(s, i)
<1>1. /\ a \in Seq(S) /\ Len(a) = i - 1
      /\ \A k \in 1..(i - 1) : a[k] = s[k]
    OBVIOUS
<1>2. /\ b \in Seq(S) /\ Len(b) = Len(s) - i
      /\ \A k \in 1..(Len(s) - i) : b[k] = s[i + k]
    OBVIOUS
<1>3. rest = a \o b
    BY DEF RemoveAt
<1> HIDE DEF a, b, rest
<1>4. i \in Nat /\ Len(s) \in Nat /\ 1 <= i /\ i <= Len(s)
    OBVIOUS
<1>5. rest \in Seq(S) /\ Len(rest) = Len(a) + Len(b)
    BY <1>1, <1>2, <1>3, ConcatProperties
<1>6. Len(rest) = Len(s) - 1
    BY <1>1, <1>2, <1>4, <1>5
<1>7. ASSUME NEW k \in 1..Len(rest)
      PROVE  rest[k] = IF k < i THEN s[k] ELSE s[k + 1]
  <2>1. rest[k] = IF k <= Len(a) THEN a[k] ELSE b[k - Len(a)]
      BY <1>1, <1>2, <1>3, <1>5
  <2>2. CASE k < i
      BY <2>1, <2>2, <1>1, <1>4
  <2>3. CASE ~ k < i
    <3>1. k - Len(a) \in 1..(Len(s) - i) /\ i + (k - Len(a)) = k + 1
        BY <1>1, <1>4, <1>6, <2>3
    <3> QED BY <2>1, <2>3, <3>1, <1>1, <1>2, <1>4
  <2> QED BY <2>2, <2>3
<1> QED BY <1>5, <1>6, <1>7 DEF rest

-----------------------------------------------------------------------------
(* The inductive invariant, in parts by what they speak of.                *)

Start == [req : Requests, cwd : [dir : Dirs, slash : Slashes]]

\* An operation reads the file when it is the head of the queue, and nobody
\* else writes it before it has written: promises of the registry never
\* work on an old copy.
ChainInv ==
    /\ chain \in Seq(OpRecord)
    /\ \A i \in 1..Len(chain) :
          /\ i # 1 => chain[i].cur = <<>>
          /\ chain[i].cur # <<>> => chain[i].cur = <<file>>
          /\ chain[i].op = "add" => chain[i].name \in Procs /\ st[chain[i].name] # "unborn"
    /\ phase = "down" => chain = <<>>
    /\ phase \in {"listing", "writing"} => Len(chain) = 1 /\ chain[1].cur = <<file>>

\* Nothing that is not dead is missing in the file, nor in what tmux has
\* said: nothing starts while reconcile compares the two.
BootInv ==
    /\ \A n \in added : st[n] # "unborn"
    /\ \A n \in added \ killed : st[n] # "dead" => n \in file
    /\ phase \in {"listing", "writing"} => \A n \in Procs : st[n] # "spawning"
    /\ phase = "writing" => \A n \in added \ killed : st[n] # "dead" => n \in alive

DialogInv ==
    /\ \A n \in Procs : st[n] = "dialog" => left[n] >= 1
    /\ EnterMeetsDialog

\* Every start has its place in the queue once, and is not confirmed yet.
PendingInv ==
    /\ pending \in Seq(Start)
    /\ asks \in [Requests -> Procs \cup {NoProc}] /\ by \in [Requests -> Procs \cup {NoProc}]
    /\ \A i \in 1..Len(pending) :
          /\ answer[pending[i].req] # "unsent" /\ by[pending[i].req] = NoProc
          /\ pending[i].cwd.dir = dir[asks[pending[i].req]]
    /\ \A i \in 1..Len(pending), j \in 1..Len(pending) : pending[i].req = pending[j].req => i = j
    /\ \A r \in Requests : answer[r] = "unsent" => by[r] = NoProc
    /\ \A r \in Requests : by[r] # NoProc => dir[by[r]] = dir[asks[r]]

\* Only a daemon that runs has sessions.
LiveInv ==
    /\ plug = [p \in Procs |-> plug[p]]
    /\ Live # {} => phase = "up"

StartInv == StartTypeOK /\ ChainInv /\ BootInv /\ DialogInv /\ PendingInv

\* What the runs check follows from it.
LEMMA InvTracks == StartInv => StartsAreTracked
<1> SUFFICES ASSUME StartInv PROVE StartsAreTracked
    OBVIOUS
<1>1. DOMAIN pending = 1..Len(pending)
    BY DEF StartInv, PendingInv
<1>2. ConfirmedOnce
    BY <1>1 DEF StartInv, PendingInv, ConfirmedOnce
<1>3. RecordedUntilGone
    BY DEF StartInv, BootInv, StartTypeOK, RecordedUntilGone, Running
<1> QED BY <1>2, <1>3 DEF StartInv, StartsAreTracked, DialogInv

LEMMA StartInitInv == StartInit => StartInv
<1> SUFFICES ASSUME StartInit PROVE StartInv
    OBVIOUS
<1>1. StartTypeOK
    BY BoundsAssumption DEF StartInit, StartTypeOK
<1>2. ChainInv
    BY DEF StartInit, ChainInv
<1>3. BootInv /\ DialogInv
    BY DEF StartInit, BootInv, DialogInv, EnterMeetsDialog
<1>4. PendingInv
    BY DEF StartInit, PendingInv
<1> QED BY <1>1, <1>2, <1>3, <1>4 DEF StartInv

-----------------------------------------------------------------------------
(* What a step leaves alone.                                               *)

LEMMA TypesStand == UNCHANGED startVars /\ StartTypeOK => StartTypeOK'
BY DEF StartTypeOK, startVars, procs, registry, starting

\* A process does not come back, and starts only when asked to.
Ages ==
    \A n \in Procs : /\ st[n] # "unborn" => st'[n] # "unborn"
                     /\ st[n] = "dead" => st'[n] = "dead"
                     /\ st'[n] = "spawning" => st[n] = "spawning" \/ phase = "up"

LEMMA ChainStands ==
    ASSUME Ages, UNCHANGED <<chain, file, phase>> PROVE ChainInv => ChainInv'
BY DEF ChainInv, Ages

LEMMA BootStands ==
    ASSUME Ages, UNCHANGED <<file, added, phase, alive>>, killed \subseteq killed',
           added \subseteq Procs
    PROVE  BootInv => BootInv'
BY DEF BootInv, Ages

LEMMA DialogStands ==
    ASSUME UNCHANGED <<st, left, loop>> PROVE DialogInv => DialogInv'
BY DEF DialogInv, EnterMeetsDialog

LEMMA StartTypes ==
    ASSUME PendingInv, NEW i \in 1..Len(pending)
    PROVE  /\ pending[i] \in Start /\ pending[i].req \in Requests
           /\ pending[i].cwd.dir \in Dirs
<1>1. pending[i] \in Start
    BY DEF PendingInv
<1> QED BY <1>1 DEF Start

LEMMA PendingStands ==
    ASSUME UNCHANGED <<pending, asks, by, dir>>,
           \A r \in Requests : answer'[r] = "unsent" <=> answer[r] = "unsent"
    PROVE  PendingInv => PendingInv'
<1> SUFFICES ASSUME PendingInv PROVE PendingInv'
    OBVIOUS
<1>1. \A i \in 1..Len(pending) : pending[i].req \in Requests
    BY StartTypes
<1> QED BY <1>1 DEF PendingInv

-----------------------------------------------------------------------------
(* The registry file.                                                      *)

LEMMA ReadOp ==
    ASSUME NEW o \in OpRecord, NEW f \in SUBSET Procs
    PROVE  /\ [o EXCEPT !.cur = <<f>>] \in OpRecord /\ [o EXCEPT !.cur = <<f>>].cur = <<f>>
           /\ [o EXCEPT !.cur = <<f>>].op = o.op /\ [o EXCEPT !.cur = <<f>>].name = o.name
<1>1. <<f>> \in {<<>>} \cup {<<s>> : s \in SUBSET Procs}
    OBVIOUS
<1> QED BY <1>1 DEF OpRecord

LEMMA ReadsStep ==
    ASSUME StartInv, phase = "up", NEW i \in DOMAIN chain, Reads(i)
    PROVE  StartInv'
<1>1. UNCHANGED <<st, left, dir, plug, phase, file, alive, added, loop, pending, killing,
                  answer, asks, by, killed>>
    BY DEF Reads, procs, starting
<1>2. /\ i = 1 /\ chain \in Seq(OpRecord) /\ 1 \in 1..Len(chain) /\ file \in SUBSET Procs
      /\ chain' = [chain EXCEPT ![1].cur = <<file>>]
    BY DEF Reads, StartInv, ChainInv, StartTypeOK
<1> DEFINE new == [chain[1] EXCEPT !.cur = <<file>>]
<1>3. /\ new \in OpRecord /\ new.cur = <<file>>
      /\ new.op = chain[1].op /\ new.name = chain[1].name
  <2>1. chain[1] \in OpRecord
      BY <1>2
  <2> QED BY <1>2, <2>1, ReadOp
<1>4. chain' = [chain EXCEPT ![1] = new]
    BY <1>2
<1> HIDE DEF new
<1>5. /\ chain' \in Seq(OpRecord) /\ Len(chain') = Len(chain) /\ chain'[1] = new
      /\ \A j \in 1..Len(chain) : j # 1 => chain'[j] = chain[j]
    BY <1>2, <1>3, <1>4
<1>6. ChainInv'
    BY <1>1, <1>3, <1>5 DEF StartInv, ChainInv
<1>7. StartTypeOK'
    BY <1>1, <1>5 DEF StartInv, StartTypeOK
<1>8. BootInv' /\ DialogInv' /\ PendingInv'
    BY <1>1, DialogStands, PendingStands DEF StartInv, BootInv
<1> QED BY <1>6, <1>7, <1>8 DEF StartInv

\* The head of the queue leaves it: the next one has read nothing yet.
LEMMA HeadLeaves ==
    ASSUME ChainInv, phase = "up", phase' = "up", NEW i \in DOMAIN chain, chain[i].cur # <<>>,
           chain' = RemoveAt(chain, i), UNCHANGED st
    PROVE  ChainInv' /\ chain[i] \in OpRecord /\ chain[i].cur = <<file>>
           /\ (chain[i].op = "add" => chain[i].name \in Procs /\ st[chain[i].name] # "unborn")
<1>1. i \in 1..Len(chain) /\ i = 1 /\ chain \in Seq(OpRecord)
    BY DEF ChainInv
<1>2. /\ chain' \in Seq(OpRecord) /\ Len(chain') = Len(chain) - 1 /\ Len(chain) \in Nat
      /\ \A k \in 1..Len(chain') :
             chain'[k] = chain[k + 1] /\ k + 1 \in 1..Len(chain) /\ k + 1 # 1
  <2>1. /\ chain' \in Seq(OpRecord) /\ Len(chain') = Len(chain) - 1
        /\ \A k \in 1..Len(chain') : chain'[k] = IF k < i THEN chain[k] ELSE chain[k + 1]
      BY <1>1, QueueWithout
  <2>2. Len(chain) \in Nat
      BY <1>1
  <2>3. ASSUME NEW k \in 1..Len(chain')
        PROVE  chain'[k] = chain[k + 1] /\ k + 1 \in 1..Len(chain) /\ k + 1 # 1
    <3>1. k \in Nat /\ k >= 1 /\ k <= Len(chain) - 1 /\ ~(k < i)
        BY <1>1, <2>1, <2>2
    <3> QED BY <2>1, <2>2, <3>1
  <2> QED BY <2>1, <2>2, <2>3
<1>3. \A k \in 1..Len(chain') :
          /\ chain'[k].cur = <<>>
          /\ chain'[k].op = "add" =>
                chain'[k].name \in Procs /\ st[chain'[k].name] # "unborn"
    BY <1>2 DEF ChainInv
<1>4. ChainInv'
    BY <1>2, <1>3 DEF ChainInv
<1> QED BY <1>1, <1>4 DEF ChainInv

LEMMA WritesStep ==
    ASSUME StartInv, phase = "up", NEW i \in DOMAIN chain, Writes(i)
    PROVE  StartInv'
<1>1. UNCHANGED <<st, left, dir, plug, phase, alive, pending, killing,
                  answer, asks, by, killed>>
    BY DEF Writes, procs, starting
<1> DEFINE o == chain[i]
<1>2. /\ ChainInv' /\ o \in OpRecord /\ o.cur = <<file>>
      /\ o.op = "add" => o.name \in Procs /\ st[o.name] # "unborn"
    BY <1>1, HeadLeaves DEF Writes, StartInv
<1>3. o.cur[1] = file
    BY <1>2
<1>4. CASE o.op = "add"
  <2>1. /\ file' = file \cup {o.name} /\ added' = added \cup {o.name}
        /\ loop' = [loop EXCEPT ![o.name] = "poll"]
      BY <1>3, <1>4 DEF Writes
  <2>2. StartTypeOK'
      BY <1>1, <1>2, <1>4, <2>1 DEF StartInv, StartTypeOK, ChainInv
  <2>3. BootInv'
      BY <1>1, <1>2, <1>4, <2>1 DEF StartInv, BootInv
  <2>4. DialogInv'
      BY <1>1, <1>2, <1>4, <2>1 DEF StartInv, StartTypeOK, DialogInv, EnterMeetsDialog
  <2>5. PendingInv'
      BY <1>1, PendingStands DEF StartInv
  <2> QED BY <1>2, <2>2, <2>3, <2>4, <2>5 DEF StartInv
<1>5. CASE o.op # "add"
  <2>1. file' = file \ {o.name} /\ added' = added \ {o.name} /\ loop' = loop
      BY <1>3, <1>5 DEF Writes
  <2>2. StartTypeOK'
      BY <1>1, <1>2, <2>1 DEF StartInv, StartTypeOK, ChainInv
  <2>3. BootInv'
      BY <1>1, <2>1 DEF StartInv, BootInv
  <2>4. DialogInv' /\ PendingInv'
      BY <1>1, <2>1, DialogStands, PendingStands DEF StartInv
  <2> QED BY <1>2, <2>2, <2>3, <2>4 DEF StartInv
<1> QED BY <1>4, <1>5

LEMMA WriteFailsStep ==
    ASSUME StartInv, phase = "up", NEW i \in DOMAIN chain, WriteFails(i)
    PROVE  StartInv'
<1>1. UNCHANGED <<st, left, dir, plug, phase, file, alive, added, loop, pending, killing,
                  asks, by, killed>>
    BY DEF WriteFails, procs
<1>2. ChainInv'
    BY <1>1, HeadLeaves DEF WriteFails, StartInv
<1>3. /\ answer' \in [Requests -> {"unsent", "sent", "confirmed", "failed", "timed_out"}]
      /\ \A r \in Requests : answer'[r] = "unsent" <=> answer[r] = "unsent"
    BY DEF WriteFails, StartInv, StartTypeOK
<1>4. StartTypeOK'
    BY <1>1, <1>2, <1>3 DEF StartInv, StartTypeOK, ChainInv
<1>5. BootInv' /\ DialogInv' /\ PendingInv'
    BY <1>1, <1>3, DialogStands, PendingStands DEF StartInv, BootInv
<1> QED BY <1>2, <1>4, <1>5 DEF StartInv

\* The three steps of reconcile, between a crash and the sockets.
LEMMA BootSteps ==
    ASSUME StartInv, BootReads \/ BootLists \/ BootWrites
    PROVE  StartInv'
<1>1. UNCHANGED <<st, left, dir, plug, added, loop, pending, killing, answer, asks, by, killed>>
    BY DEF BootReads, BootLists, BootWrites, procs, starting
<1>2. DialogInv' /\ PendingInv'
    BY <1>1, DialogStands, PendingStands DEF StartInv
<1>3. CASE BootReads
  <2> DEFINE op == [Op("reconcile", NoProc) EXCEPT !.cur = <<file>>]
  <2>1. op = [op |-> "reconcile", name |-> NoProc, cur |-> <<file>>] /\ op \in OpRecord
      BY DEF Op, OpRecord, StartInv, StartTypeOK
  <2> HIDE DEF op
  <2>2. /\ chain' = <<op>> /\ phase' = "listing" /\ file' = file /\ alive' = alive
        /\ \A n \in Procs : st[n] # "spawning"
      BY <1>3, <2>1 DEF BootReads, op
  <2>3. ChainInv'
      BY <2>1, <2>2 DEF ChainInv
  <2>4. StartTypeOK'
      BY <1>1, <2>2, <2>3 DEF StartInv, StartTypeOK, ChainInv
  <2>5. BootInv'
      BY <1>1, <2>2 DEF StartInv, BootInv
  <2> QED BY <1>2, <2>3, <2>4, <2>5 DEF StartInv
<1>4. CASE BootLists
  <2>1. /\ phase = "listing" /\ phase' = "writing" /\ chain' = chain /\ file' = file
        /\ chain[1].cur[1] = file
      BY <1>4 DEF BootLists, StartInv, ChainInv
  <2>2. alive' = {n \in Procs : Running(n)} \/ alive' = file
      BY <1>4, <2>1 DEF BootLists
  <2>3. ChainInv'
      BY <1>1, <2>1 DEF StartInv, ChainInv
  <2>4. StartTypeOK'
      BY <1>1, <2>1, <2>2, <2>3 DEF StartInv, StartTypeOK, ChainInv
  <2>5. \A n \in added \ killed : st[n] # "dead" => n \in alive'
      BY <2>1, <2>2 DEF StartInv, BootInv, StartTypeOK, Running
  <2>6. BootInv'
      BY <1>1, <2>1, <2>5 DEF StartInv, BootInv
  <2> QED BY <1>2, <2>3, <2>4, <2>6 DEF StartInv
<1>5. CASE BootWrites
  <2>1. /\ phase = "writing" /\ phase' = "up" /\ chain' = <<>> /\ alive' = {}
        /\ file' = file \cap alive
      BY <1>5 DEF BootWrites, StartInv, ChainInv
  <2>2. ChainInv'
      BY <2>1 DEF ChainInv
  <2>3. StartTypeOK'
      BY <1>1, <2>1, <2>2 DEF StartInv, StartTypeOK, ChainInv
  <2>4. BootInv'
      BY <1>1, <2>1 DEF StartInv, BootInv
  <2> QED BY <1>2, <2>2, <2>3, <2>4 DEF StartInv
<1> QED BY <1>3, <1>4, <1>5

LEMMA CrashStep == ASSUME StartInv, Crash PROVE StartInv'
<1>1. /\ UNCHANGED <<st, left, dir, file, alive, added, killing, answer, asks, by, killed>>
      /\ phase' = "down" /\ chain' = <<>> /\ pending' = <<>>
      /\ loop' = [n \in Procs |-> "off"]
    BY DEF Crash, starting
<1>2. ChainInv'
    BY <1>1 DEF ChainInv
<1>3. StartTypeOK'
    BY <1>1 DEF StartInv, StartTypeOK, Crash
<1>4. BootInv' /\ DialogInv'
    BY <1>1 DEF StartInv, BootInv, DialogInv, EnterMeetsDialog
<1>5. PendingInv'
    BY <1>1 DEF StartInv, PendingInv
<1> QED BY <1>2, <1>3, <1>4, <1>5 DEF StartInv

-----------------------------------------------------------------------------
(* Requests.                                                               *)

LEMMA AnswerSteps ==
    ASSUME StartInv, NEW r \in Requests, StartRejected(r) \/ StartTimesOut(r)
    PROVE  StartInv'
<1>1. UNCHANGED <<st, left, dir, plug, phase, file, alive, chain, added, loop, pending, killing,
                  asks, by, killed>>
    BY DEF StartRejected, StartTimesOut, procs, registry
<1>2. /\ answer' \in [Requests -> {"unsent", "sent", "confirmed", "failed", "timed_out"}]
      /\ answer'[r] # "unsent" /\ \A q \in Requests \ {r} : answer'[q] = answer[q]
    BY DEF StartRejected, StartTimesOut, StartInv, StartTypeOK
<1>3. StartTypeOK'
    BY <1>1, <1>2 DEF StartInv, StartTypeOK
<1>4. ChainInv' /\ BootInv' /\ DialogInv'
    BY <1>1, DialogStands DEF StartInv, ChainInv, BootInv
<1>5. PendingInv'
  <2>1. \A i \in 1..Len(pending) : pending[i].req \in Requests
      BY StartTypes DEF StartInv
  <2> QED BY <1>1, <1>2, <2>1 DEF StartInv, PendingInv
<1> QED BY <1>3, <1>4, <1>5 DEF StartInv

LEMMA StartSessionStep ==
    ASSUME StartInv, NEW r \in Requests, NEW n \in Procs, NEW slash \in Slashes,
           StartSession(r, n, slash)
    PROVE  StartInv'
<1>1. /\ UNCHANGED <<left, dir, plug, phase, file, alive, added, loop, by, killing, killed>>
      /\ phase = "up" /\ answer[r] = "unsent" /\ st[n] = "unborn"
    BY DEF StartSession
<1> DEFINE new == [req |-> r, cwd |-> Path(dir[n], slash)]
           op == Op("add", n)
<1>2. /\ new \in Start /\ new.req = r /\ new.cwd.dir = dir[n]
      /\ pending' = Append(pending, new)
    BY DEF StartSession, Start, Path, StartInv, StartTypeOK
<1>3. /\ op \in OpRecord /\ op.cur = <<>> /\ op.op = "add" /\ op.name = n
      /\ chain' = Append(chain, op)
    BY DEF StartSession, OpRecord, Op
<1> HIDE DEF new, op
<1>4. /\ st' = [st EXCEPT ![n] = "spawning"] /\ st'[n] = "spawning"
      /\ \A p \in Procs \ {n} : st'[p] = st[p]
      /\ answer' = [answer EXCEPT ![r] = "sent"] /\ answer'[r] = "sent"
      /\ \A q \in Requests \ {r} : answer'[q] = answer[q] /\ asks'[q] = asks[q]
      /\ asks' = [asks EXCEPT ![r] = n] /\ asks'[r] = n
    BY DEF StartSession, StartInv, StartTypeOK, PendingInv
<1>5. ChainInv'
  <2>1. /\ chain' \in Seq(OpRecord) /\ Len(chain') = Len(chain) + 1 /\ Len(chain) \in Nat
        /\ chain'[Len(chain) + 1] = op /\ \A i \in 1..Len(chain) : chain'[i] = chain[i]
      BY <1>3 DEF StartInv, ChainInv
  <2>2. \A i \in 1..Len(chain') :
          /\ i # 1 => chain'[i].cur = <<>>
          /\ chain'[i].cur # <<>> => chain'[i].cur = <<file>>
          /\ chain'[i].op = "add" => chain'[i].name \in Procs /\ st'[chain'[i].name] # "unborn"
      BY <1>3, <1>4, <2>1 DEF StartInv, ChainInv
  <2> QED BY <1>1, <2>1, <2>2 DEF ChainInv
<1>6. StartTypeOK'
    BY <1>1, <1>4, <1>5 DEF StartInv, StartTypeOK, ChainInv
<1>7. BootInv'
    BY <1>1, <1>4 DEF StartInv, BootInv, StartTypeOK
<1>8. DialogInv'
    BY <1>1, <1>4 DEF StartInv, DialogInv, EnterMeetsDialog
<1>9. PendingInv'
  <2>1. /\ pending' \in Seq(Start) /\ Len(pending') = Len(pending) + 1 /\ Len(pending) \in Nat
        /\ pending'[Len(pending) + 1] = new
        /\ \A i \in 1..Len(pending) : pending'[i] = pending[i]
      BY <1>2 DEF StartInv, PendingInv
  <2>2. \A i \in 1..Len(pending) : pending[i].req \in Requests \ {r}
      BY <1>1, StartTypes DEF StartInv, PendingInv
  <2>3. asks' \in [Requests -> Procs \cup {NoProc}]
      BY <1>4 DEF StartInv, PendingInv
  <2>4. \A i \in 1..Len(pending') :
          /\ answer'[pending'[i].req] # "unsent" /\ by[pending'[i].req] = NoProc
          /\ pending'[i].cwd.dir = dir[asks'[pending'[i].req]]
      BY <1>1, <1>2, <1>4, <2>1, <2>2 DEF StartInv, PendingInv
  <2>5. \A i \in 1..Len(pending'), j \in 1..Len(pending') :
          pending'[i].req = pending'[j].req => i = j
      BY <1>2, <2>1, <2>2 DEF StartInv, PendingInv
  <2>6. \A q \in Requests : by[q] # NoProc => dir[by[q]] = dir[asks'[q]]
      BY <1>1, <1>4 DEF StartInv, PendingInv
  <2> QED BY <1>1, <1>4, <2>1, <2>3, <2>4, <2>5, <2>6 DEF StartInv, PendingInv
<1> QED BY <1>5, <1>6, <1>7, <1>8, <1>9 DEF StartInv

LEMMA PendingExpiresStep == ASSUME StartInv, PendingExpires PROVE StartInv'
<1>1. /\ UNCHANGED <<st, left, dir, plug, phase, file, alive, chain, added, loop, killing,
                     answer, asks, by, killed>>
      /\ pending # <<>> /\ pending' = Tail(pending)
    BY DEF PendingExpires, procs, registry, starting
<1>2. StartTypeOK' /\ ChainInv' /\ BootInv' /\ DialogInv'
    BY <1>1, DialogStands DEF StartInv, StartTypeOK, ChainInv, BootInv
<1>3. /\ pending' \in Seq(Start) /\ Len(pending') = Len(pending) - 1 /\ Len(pending) \in Nat
      /\ \A i \in 1..Len(pending') : pending'[i] = pending[i + 1]
    BY <1>1 DEF StartInv, PendingInv
<1>4. PendingInv'
    BY <1>1, <1>3 DEF StartInv, PendingInv
<1> QED BY <1>2, <1>4 DEF StartInv

-----------------------------------------------------------------------------
(* Processes.                                                              *)

LEMMA SpawnFailsStep == ASSUME StartInv, NEW n \in Procs, SpawnFails(n) PROVE StartInv'
<1>1. UNCHANGED <<left, dir, plug, phase, file, alive, chain, added, loop, pending, killing,
                  asks, by, killed>>
    BY DEF SpawnFails, registry
<1>2. /\ st' = [st EXCEPT ![n] = "dead"] /\ st[n] = "spawning"
      /\ answer' \in [Requests -> {"unsent", "sent", "confirmed", "failed", "timed_out"}]
      /\ \A r \in Requests : answer'[r] = "unsent" <=> answer[r] = "unsent"
    BY DEF SpawnFails, StartInv, StartTypeOK
<1>3. Ages
    BY <1>2 DEF Ages, StartInv, StartTypeOK
<1>4. StartTypeOK'
    BY <1>1, <1>2 DEF StartInv, StartTypeOK
<1>5. DialogInv'
    BY <1>1, <1>2 DEF StartInv, StartTypeOK, DialogInv, EnterMeetsDialog
<1>6. ChainInv' /\ BootInv' /\ PendingInv'
    BY <1>1, <1>2, <1>3, ChainStands, BootStands, PendingStands DEF StartInv, StartTypeOK
<1> QED BY <1>4, <1>5, <1>6 DEF StartInv

LEMMA ClaudeSteps ==
    ASSUME StartInv, NEW p \in Procs,
           ClaudeStarts(p) \/ StartedByHand(p) \/ Poll(p) \/ PressEnter(p)
    PROVE  StartInv'
<1>1. UNCHANGED <<dir, plug, phase, file, alive, chain, added, pending, killing,
                  answer, asks, by, killed>>
    BY DEF ClaudeStarts, StartedByHand, Poll, PressEnter, procs, registry, starting
<1>2. CASE ClaudeStarts(p)
  <2>1. PICK k \in 0 .. MaxDialogs :
            /\ left' = [left EXCEPT ![p] = k]
            /\ st' = [st EXCEPT ![p] = IF k > 0 THEN "dialog" ELSE "ready"]
      BY <1>2 DEF ClaudeStarts
  <2>2. st[p] = "spawning" /\ loop' = loop
      BY <1>2 DEF ClaudeStarts
  <2>3. Ages
      BY <2>1, <2>2 DEF Ages, StartInv, StartTypeOK
  <2>4. StartTypeOK'
      BY <1>1, <2>1, <2>2 DEF StartInv, StartTypeOK
  <2>5. DialogInv'
      BY <2>1, <2>2 DEF StartInv, StartTypeOK, DialogInv, EnterMeetsDialog
  <2>6. ChainInv' /\ BootInv' /\ PendingInv'
      BY <1>1, <2>3, ChainStands, BootStands, PendingStands DEF StartInv, StartTypeOK
  <2> QED BY <2>4, <2>5, <2>6 DEF StartInv
<1>3. CASE StartedByHand(p)
  <2>1. /\ st' = [st EXCEPT ![p] = "ready"] /\ st[p] = "unborn"
        /\ left' = left /\ loop' = loop
      BY <1>3 DEF StartedByHand, registry
  <2>2. Ages
      BY <2>1 DEF Ages, StartInv, StartTypeOK
  <2>3. StartTypeOK'
      BY <1>1, <2>1 DEF StartInv, StartTypeOK
  <2>4. DialogInv'
      BY <2>1 DEF StartInv, StartTypeOK, DialogInv, EnterMeetsDialog
  <2>5. ChainInv' /\ BootInv' /\ PendingInv'
      BY <1>1, <2>2, ChainStands, BootStands, PendingStands DEF StartInv, StartTypeOK
  <2> QED BY <2>3, <2>4, <2>5 DEF StartInv
<1>4. CASE Poll(p)
  <2>1. /\ loop[p] = "poll" /\ Running(p) /\ st' = st /\ left' = left
        /\ loop' = [loop EXCEPT ![p] = IF st[p] = "ready" THEN "off" ELSE "settle"]
      BY <1>4 DEF Poll, procs
  <2>2. Ages
      BY <2>1 DEF Ages
  <2>3. StartTypeOK'
      BY <1>1, <2>1 DEF StartInv, StartTypeOK
  <2>4. DialogInv'
      BY <2>1 DEF StartInv, StartTypeOK, DialogInv, EnterMeetsDialog, Running
  <2>5. ChainInv' /\ BootInv' /\ PendingInv'
      BY <1>1, <2>2, ChainStands, BootStands, PendingStands DEF StartInv, StartTypeOK
  <2> QED BY <2>3, <2>4, <2>5 DEF StartInv
<1>5. CASE PressEnter(p)
  <2>1. /\ loop[p] = "settle" /\ loop' = [loop EXCEPT ![p] = "poll"]
        /\ \/ /\ st[p] = "dialog" /\ left' = [left EXCEPT ![p] = left[p] - 1]
              /\ st' = [st EXCEPT ![p] = IF left[p] = 1 THEN "ready" ELSE st[p]]
           \/ UNCHANGED <<left, st>>
      BY <1>5 DEF PressEnter
  <2>2. Ages
      BY <2>1 DEF Ages, StartInv, StartTypeOK
  <2>3. st[p] = "dialog" => left[p] \in 1 .. MaxDialogs
      BY BoundsAssumption DEF StartInv, StartTypeOK, DialogInv
  <2>4. StartTypeOK'
      BY <1>1, <2>1, <2>3, BoundsAssumption DEF StartInv, StartTypeOK
  <2>5. DialogInv'
      BY <2>1, <2>3, BoundsAssumption DEF StartInv, StartTypeOK, DialogInv, EnterMeetsDialog
  <2>6. ChainInv' /\ BootInv' /\ PendingInv'
      BY <1>1, <2>2, ChainStands, BootStands, PendingStands DEF StartInv, StartTypeOK
  <2> QED BY <2>4, <2>5, <2>6 DEF StartInv
<1> QED BY <1>2, <1>3, <1>4, <1>5

-----------------------------------------------------------------------------
(* Registrations and ends.                                                 *)

\* The start that is confirmed leaves the queue and was there once.
LEMMA RegistersPending ==
    ASSUME StartInv, NEW p \in Procs, Registers(p), UNCHANGED <<dir, asks>>
    PROVE  PendingInv' /\ answer' \in [Requests -> {"unsent", "sent", "confirmed", "failed", "timed_out"}]
<1>1. CASE UNCHANGED <<pending, answer, by>>
    BY <1>1, PendingStands DEF StartInv, StartTypeOK
<1>2. CASE \E i \in Matches(p) :
             /\ pending' = RemoveAt(pending, i)
             /\ answer' = [answer EXCEPT ![pending[i].req] = "confirmed"]
             /\ by' = [by EXCEPT ![pending[i].req] = p]
  <2>1. PICK i \in 1..Len(pending) :
             /\ pending[i].cwd = Path(dir[p], FALSE)
             /\ pending' = RemoveAt(pending, i)
             /\ answer' = [answer EXCEPT ![pending[i].req] = "confirmed"]
             /\ by' = [by EXCEPT ![pending[i].req] = p]
    <3>1. DOMAIN pending = 1..Len(pending)
        BY DEF StartInv, PendingInv
    <3>2. \A i \in Matches(p) : i \in 1..Len(pending) /\ pending[i].cwd = Path(dir[p], FALSE)
        BY <3>1 DEF Matches
    <3> QED BY <1>2, <3>2, Zenon
  <2> DEFINE r == pending[i].req
  <2>2. r \in Requests /\ pending[i].cwd.dir = dir[p]
      BY <2>1, StartTypes DEF StartInv, Path
  <2>3. \A k \in 1..Len(pending) : pending[k].req \in Requests /\ (k # i => pending[k].req # r)
      BY StartTypes DEF StartInv, PendingInv
  <2> HIDE DEF r
  <2>4. /\ answer' = [answer EXCEPT ![r] = "confirmed"] /\ by' = [by EXCEPT ![r] = p]
        /\ dir[asks[r]] = dir[p]
      BY <2>1, <2>2 DEF r, StartInv, PendingInv
  <2>5. /\ answer' \in [Requests -> {"unsent", "sent", "confirmed", "failed", "timed_out"}]
        /\ by' \in [Requests -> Procs \cup {NoProc}]
        /\ answer'[r] = "confirmed" /\ by'[r] = p
        /\ \A q \in Requests \ {r} : answer'[q] = answer[q] /\ by'[q] = by[q]
      BY <2>2, <2>4 DEF StartInv, StartTypeOK, PendingInv
  <2>6. /\ pending' \in Seq(Start) /\ Len(pending') = Len(pending) - 1 /\ Len(pending) \in Nat
        /\ \A k \in 1..Len(pending') :
              pending'[k] = IF k < i THEN pending[k] ELSE pending[k + 1]
      BY <2>1, QueueWithout DEF StartInv, PendingInv
  <2>7. \A k \in 1..Len(pending') : \E j \in 1..Len(pending) :
            j # i /\ pending'[k] = pending[j] /\ j = IF k < i THEN k ELSE k + 1
      BY <2>6
  <2>8. \A k \in 1..Len(pending') :
          /\ answer'[pending'[k].req] # "unsent" /\ by'[pending'[k].req] = NoProc
          /\ pending'[k].cwd.dir = dir[asks[pending'[k].req]]
    <3> SUFFICES ASSUME NEW k \in 1..Len(pending')
                 PROVE  /\ answer'[pending'[k].req] # "unsent" /\ by'[pending'[k].req] = NoProc
                        /\ pending'[k].cwd.dir = dir[asks[pending'[k].req]]
        OBVIOUS
    <3>1. PICK j \in 1..Len(pending) : j # i /\ pending'[k] = pending[j]
        BY <2>7
    <3> DEFINE q == pending[j].req
    <3>2. /\ q \in Requests \ {r} /\ answer[q] # "unsent" /\ by[q] = NoProc
          /\ pending[j].cwd.dir = dir[asks[q]]
        BY <2>3, <3>1 DEF StartInv, PendingInv
    <3>3. answer'[q] = answer[q] /\ by'[q] = by[q]
        BY <2>5, <3>2
    <3> QED BY <3>1, <3>2, <3>3
  <2>9. \A k \in 1..Len(pending'), l \in 1..Len(pending') :
            pending'[k].req = pending'[l].req => k = l
    <3> SUFFICES ASSUME NEW k \in 1..Len(pending'), NEW l \in 1..Len(pending'),
                        pending'[k].req = pending'[l].req
                 PROVE  k = l
        OBVIOUS
    <3>1. PICK j \in 1..Len(pending) :
              j # i /\ pending'[k] = pending[j] /\ j = IF k < i THEN k ELSE k + 1
        BY <2>7
    <3>2. PICK h \in 1..Len(pending) :
              h # i /\ pending'[l] = pending[h] /\ h = IF l < i THEN l ELSE l + 1
        BY <2>7
    <3>3. j = h
        BY <3>1, <3>2 DEF StartInv, PendingInv
    <3> QED BY <2>6, <3>1, <3>2, <3>3
  <2>10. \A q \in Requests : by'[q] # NoProc => dir[by'[q]] = dir[asks[q]]
      BY <2>4, <2>5 DEF StartInv, PendingInv
  <2>11. \A q \in Requests : answer'[q] = "unsent" => by'[q] = NoProc
      BY <2>5 DEF StartInv, PendingInv
  <2> QED BY <2>5, <2>6, <2>8, <2>9, <2>10, <2>11 DEF StartInv, PendingInv
<1> QED BY <1>1, <1>2 DEF Registers

LEMMA PluginSteps ==
    ASSUME StartInv, NEW p \in Procs, PluginStarts(p) \/ PluginReconnects(p)
    PROVE  StartInv'
<1>1. UNCHANGED <<st, left, dir, phase, file, alive, chain, added, loop, killing, asks, killed>>
    BY DEF PluginStarts, PluginReconnects, registry
<1>2. plug' \in [Procs -> {"none", "up", "away", "gone"}]
    BY DEF PluginStarts, PluginReconnects, Registers, StartInv, StartTypeOK
<1>3. /\ PendingInv'
      /\ answer' \in [Requests -> {"unsent", "sent", "confirmed", "failed", "timed_out"}]
  <2>1. CASE Registers(p)
      BY <1>1, <2>1, RegistersPending
  <2>2. CASE UNCHANGED <<pending, answer, by>>
      BY <1>1, <2>2, PendingStands DEF StartInv, StartTypeOK
  <2> QED BY <2>1, <2>2 DEF PluginStarts, PluginReconnects
<1>4. StartTypeOK'
    BY <1>1, <1>2, <1>3 DEF StartInv, StartTypeOK
<1>5. ChainInv' /\ BootInv' /\ DialogInv'
    BY <1>1, DialogStands DEF StartInv, ChainInv, BootInv
<1> QED BY <1>3, <1>4, <1>5 DEF StartInv

LEMMA EndSteps ==
    ASSUME StartInv, NEW p \in Procs, ClaudeExits(p) \/ TmuxKills(p)
    PROVE  StartInv'
<1>1. /\ UNCHANGED <<left, dir, phase, file, alive, chain, added, loop, pending, answer, asks,
                     by, killed>>
      /\ killing' \subseteq killing
      /\ st' = [st EXCEPT ![p] = "dead"] /\ plug' = [plug EXCEPT ![p] = "gone"]
    BY DEF ClaudeExits, TmuxKills, ProcessEnds, registry, starting
<1>2. st[p] # "unborn" => Ages
    BY <1>1 DEF Ages, StartInv, StartTypeOK
<1>3. \A n \in Procs \ {p} : st'[n] = st[n]
    BY <1>1 DEF StartInv, StartTypeOK
<1>4. st'[p] = "dead"
    BY <1>1 DEF StartInv, StartTypeOK
<1>5. StartTypeOK'
    BY <1>1 DEF StartInv, StartTypeOK
<1>6. ChainInv'
    BY <1>1, <1>3, <1>4 DEF StartInv, ChainInv
<1>7. BootInv'
    BY <1>1, <1>3, <1>4 DEF StartInv, BootInv, StartTypeOK
<1>8. DialogInv'
    BY <1>1, <1>3, <1>4 DEF StartInv, DialogInv, EnterMeetsDialog
<1>9. PendingInv'
    BY <1>1, PendingStands DEF StartInv
<1> QED BY <1>5, <1>6, <1>7, <1>8, <1>9 DEF StartInv

LEMMA KillStep == ASSUME StartInv, LiveInv, NEW p \in Procs, KillSession(p) PROVE StartInv'
<1>1. /\ UNCHANGED <<st, left, dir, phase, file, alive, added, loop, pending, answer, asks, by>>
      /\ plug' = [plug EXCEPT ![p] = "away"] /\ killed' = killed \cup {p}
    BY DEF KillSession, starting
<1> DEFINE op == Op("remove", p)
<1>2. /\ op \in OpRecord /\ op.cur = <<>> /\ op.op = "remove"
    BY DEF Op, OpRecord
<1>3. \/ UNCHANGED <<killing, chain>>
      \/ p \in HasEnv /\ killing' = killing \cup {p} /\ chain' = Append(chain, op)
    BY DEF KillSession, TmuxOf
<1> HIDE DEF op
<1>4. phase = "up"
    BY DEF KillSession, LiveInv, Live
<1>5. ChainInv'
  <2>1. CASE UNCHANGED chain
      BY <1>1, <2>1 DEF StartInv, ChainInv
  <2>2. CASE chain' = Append(chain, op)
    <3>1. /\ chain' \in Seq(OpRecord) /\ Len(chain') = Len(chain) + 1 /\ Len(chain) \in Nat
          /\ chain'[Len(chain) + 1] = op /\ \A i \in 1..Len(chain) : chain'[i] = chain[i]
        BY <1>2, <2>2 DEF StartInv, ChainInv
    <3> QED BY <1>1, <1>2, <1>4, <3>1 DEF StartInv, ChainInv
  <2> QED BY <1>3, <2>1, <2>2
<1>6. StartTypeOK'
    BY <1>1, <1>3, <1>5 DEF StartInv, StartTypeOK, ChainInv
<1>7. BootInv' /\ DialogInv' /\ PendingInv'
    BY <1>1, DialogStands, PendingStands DEF StartInv, BootInv
<1> QED BY <1>5, <1>6, <1>7 DEF StartInv

-----------------------------------------------------------------------------

LEMMA LiveStep == LiveInv /\ [StartNext]_startVars => LiveInv'
<1> SUFFICES ASSUME LiveInv, [StartNext]_startVars PROVE LiveInv'
    OBVIOUS
<1>1. CASE UNCHANGED <<plug, phase>>
    BY <1>1 DEF LiveInv, Live
<1>2. CASE BootReads \/ BootLists \/ BootWrites
    BY <1>2 DEF LiveInv, Live, BootReads, BootLists, BootWrites, procs
<1>3. CASE Crash
    BY <1>3 DEF LiveInv, Live, Crash
<1>4. CASE \E p \in Procs : PluginStarts(p) \/ PluginReconnects(p)
    BY <1>4 DEF LiveInv, Live, PluginStarts, PluginReconnects, Registers
<1>5. CASE \E p \in Procs : ClaudeExits(p) \/ KillSession(p) \/ TmuxKills(p)
    BY <1>5 DEF LiveInv, Live, ClaudeExits, KillSession, TmuxKills, ProcessEnds
<1>6. CASE \E i \in DOMAIN chain : phase = "up" /\ (Reads(i) \/ Writes(i) \/ WriteFails(i))
    BY <1>1, <1>6 DEF Reads, Writes, WriteFails, procs
<1>7. CASE PendingExpires
    BY <1>1, <1>7 DEF PendingExpires, procs
<1>8. CASE \E r \in Requests : \/ StartRejected(r) \/ StartTimesOut(r)
                               \/ \E n \in Procs, slash \in Slashes : StartSession(r, n, slash)
    BY <1>1, <1>8 DEF StartRejected, StartTimesOut, StartSession, procs
<1>9. CASE \E n \in Procs : \/ SpawnFails(n) \/ Poll(n) \/ PressEnter(n)
                            \/ ClaudeStarts(n) \/ StartedByHand(n)
    BY <1>1, <1>9 DEF SpawnFails, Poll, PressEnter, ClaudeStarts, StartedByHand, procs
<1>10. CASE UNCHANGED startVars
    BY <1>1, <1>10 DEF startVars, procs
<1> QED BY <1>2, <1>3, <1>4, <1>5, <1>6, <1>7, <1>8, <1>9, <1>10 DEF StartNext

LEMMA StepInv == StartInv /\ LiveInv /\ [StartNext]_startVars => StartInv'
<1> SUFFICES ASSUME StartInv, LiveInv, [StartNext]_startVars PROVE StartInv'
    OBVIOUS
<1>1. CASE \E i \in DOMAIN chain : phase = "up" /\ (Reads(i) \/ Writes(i) \/ WriteFails(i))
    BY <1>1, ReadsStep, WritesStep, WriteFailsStep
<1>2. CASE BootReads \/ BootLists \/ BootWrites \/ Crash \/ PendingExpires
    BY <1>2, BootSteps, CrashStep, PendingExpiresStep
<1>3. CASE \E r \in Requests : \/ StartRejected(r) \/ StartTimesOut(r)
                               \/ \E n \in Procs, slash \in Slashes : StartSession(r, n, slash)
    BY <1>3, AnswerSteps, StartSessionStep
<1>4. CASE \E n \in Procs : \/ SpawnFails(n) \/ Poll(n) \/ PressEnter(n)
                            \/ ClaudeStarts(n) \/ StartedByHand(n)
    BY <1>4, SpawnFailsStep, ClaudeSteps
<1>5. CASE \E p \in Procs : \/ ClaudeExits(p) \/ PluginStarts(p) \/ PluginReconnects(p)
                            \/ KillSession(p) \/ TmuxKills(p)
    BY <1>5, EndSteps, PluginSteps, KillStep
<1>6. CASE UNCHANGED startVars
  <2>1. StartTypeOK'
      BY <1>6, TypesStand DEF StartInv
  <2>2. ChainInv' /\ BootInv' /\ DialogInv'
      BY <1>6, DialogStands DEF StartInv, ChainInv, BootInv, startVars, procs, registry
  <2>3. PendingInv'
      BY <1>6, PendingStands DEF StartInv, startVars, procs, starting
  <2> QED BY <2>1, <2>2, <2>3 DEF StartInv
<1> QED BY <1>1, <1>2, <1>3, <1>4, <1>5, <1>6 DEF StartNext

(***************************************************************************)
(* In every behaviour the registry file has every recorded tmux session    *)
(* that runs and was not killed, every start is confirmed at most once and *)
(* by a session of its directory, and Enter is pressed on a dialog only    *)
(* (process-registry.ts, pending-starts.ts, index.ts).                     *)
(***************************************************************************)
THEOREM StartsCorrect == StartSpec => []StartsAreTracked
<1>1. StartInit => StartInv /\ LiveInv
    BY StartInitInv DEF StartInit, LiveInv, Live
<1>2. (StartInv /\ LiveInv) /\ [StartNext]_startVars => (StartInv /\ LiveInv)'
    BY StepInv, LiveStep
<1>3. StartInv => StartsAreTracked
    BY InvTracks
<1> QED BY <1>1, <1>2, <1>3, PTL DEF StartSpec
=============================================================================
