----------------------------- MODULE ReadMarks -----------------------------
(***************************************************************************)
(* What the PWA calls unread: the anchor of useLastSeen, its debounced     *)
(* write to localStorage, the last offset useSessionTimeline takes from    *)
(* the buffer, the bottom the timeline sticks to, and the history a        *)
(* session is filled with when it is entered.                              *)
(*                                                                         *)
(* An event stands for its jsonl_offset: a line of the log is 1, 2, ...,   *)
(* an event of a run, whose offset is -Date.now(), is negative.            *)
(*                                                                         *)
(* Screens_proofs extends it together with the other screens it proves     *)
(* about, so Init, Next, Spec, vars and TypeOK carry the prefix Marks.     *)
(***************************************************************************)
EXTENDS Integers, SequencesExt, FiniteSetsExt

CONSTANTS
    Sessions,
    PageSize,      \* HISTORY_PAGE_SIZE
    MaxLines,      \* bound: lines of a log
    MaxSteps       \* bound: what the user, the daemon and the browser do

NoSession == "no session"

ASSUME SessionsAssumption == NoSession \notin Sessions
ASSUME MarksBounds == PageSize \in 1 .. MaxLines /\ MaxLines \in Nat /\ MaxSteps \in Nat

VARIABLES
    lines,         \* of each session: the lines of its log
    buffer,        \* of each session: hub.events
    noMore,        \* noMoreHistory
    selected,      \* the session on the screen
    auto,          \* autoScroll: the timeline sticks to its bottom
    fetched,       \* initialFetchedRef
    historyAsked,  \* requests for history on their way, or their answers
    lastSeen,      \* lastSeenOffsets
    latest,        \* latestRef, what a flush writes
    stored,        \* localStorage
    dirty,         \* dirtyRef, and the timer that is set with it
    \* history variables
    met,           \* of each session: the last offset that was at the bottom
    carried,       \* of each session: the anchor at its last rebind
    overtaken,     \* a flush wrote what the next effect would have replaced
    unanswered,    \* the sessions rebound, or that missed an event or an answer
    steps

timeline == <<selected, auto, fetched, historyAsked>>
anchor == <<lastSeen, latest, stored, dirty>>
marksVars == <<lines, buffer, noMore, timeline, anchor, met, carried, overtaken, unanswered, steps>>

\* lastSeenOffsets has no entry: everything is unread.
Never == 0 - MaxSteps - 1
Everything == MaxLines + 1    \* Number.MAX_SAFE_INTEGER

Highest(b) == Max(Range(b) \union {Never})

\* "Events buffer is sorted by jsonl_offset - last is max", or -1.
MaxOffset(b) == IF b = <<>> THEN -1 ELSE Last(b)

UnreadCount(s) == Cardinality({o \in Range(buffer[s]) : o > lastSeen[s]})

\* What stands at the bottom of the screen after a step has met the eye.
Meet ==
    met' = [s \in Sessions |->
              IF selected' = s /\ auto' THEN Max({met[s], Highest(buffer'[s])}) ELSE met[s]]

MarksInit ==
    /\ lines \in [Sessions -> {0, PageSize}]    \* new, or older than the page
    /\ buffer = [s \in Sessions |-> <<>>] /\ noMore = {}
    /\ selected = NoSession /\ auto = TRUE /\ fetched = {} /\ historyAsked = {}
    /\ lastSeen = [s \in Sessions |-> Never] /\ latest = lastSeen /\ stored = lastSeen /\ dirty = FALSE
    /\ met = lastSeen /\ carried = lastSeen /\ overtaken = FALSE /\ unanswered = {}
    /\ steps = 0

Step == steps < MaxSteps /\ steps' = steps + 1
-----------------------------------------------------------------------------
(* Events *)

\* The daemon appends a line and the PWA receives it, or is away.
NewLine(s, received) ==
    /\ Step /\ lines[s] < MaxLines
    /\ lines' = [lines EXCEPT ![s] = @ + 1]
    /\ IF received
       THEN buffer' = [buffer EXCEPT ![s] = Append(@, lines[s] + 1)] /\ noMore' = noMore \ {s}
       ELSE UNCHANGED <<buffer, noMore>>
    /\ unanswered' = IF received \/ s \notin fetched THEN unanswered ELSE unanswered \union {s}
    /\ UNCHANGED <<timeline, anchor, carried, overtaken>>
    /\ Meet

\* RUN_STARTED or RUN_FINISHED: appended as it comes, whatever its offset.
RunEvent(s) ==
    /\ Step
    /\ buffer' = [buffer EXCEPT ![s] = Append(@, 0 - steps')]
    /\ noMore' = noMore \ {s}
    /\ UNCHANGED <<lines, timeline, anchor, carried, overtaken, unanswered>>
    /\ Meet

\* session_rebound: the buffer goes, the anchor and initialFetchedRef stay.
Rebind(s) ==
    /\ Step /\ buffer[s] # <<>>
    /\ buffer' = [buffer EXCEPT ![s] = <<>>] /\ noMore' = noMore \ {s}
    /\ lines' = [lines EXCEPT ![s] = 0]
    /\ met' = [met EXCEPT ![s] = Never] /\ carried' = [carried EXCEPT ![s] = lastSeen[s]]
    /\ unanswered' = unanswered \union {s}
    /\ UNCHANGED <<timeline, anchor, overtaken>>

\* readHistory: the last lines that end at or before `before`.
Page(s, before) ==
    LET end == IF before > lines[s] THEN lines[s] ELSE before
    IN {o \in 1 .. end : o > end - PageSize}

\* The members of S in ascending order: the i-th has i - 1 below it.
Sorted(S) ==
    [i \in 1 .. Cardinality(S) |-> CHOOSE o \in S : Cardinality({p \in S : p < o}) = i - 1]

\* history_chunk: what is new is merged in and the whole is sorted.
Merged(b, page) == IF page \subseteq Range(b) THEN b ELSE Sorted(page \union Range(b))

HistoryChunk(s, before) ==
    /\ <<s, before>> \in historyAsked
    /\ historyAsked' = historyAsked \ {<<s, before>>}
    /\ LET page == Page(s, before) IN
       /\ noMore' = IF page = {} THEN noMore \union {s} ELSE noMore
       /\ buffer' = [buffer EXCEPT ![s] = Merged(@, page)]
    /\ UNCHANGED <<lines, selected, auto, fetched, anchor, carried, overtaken, unanswered, steps>>
    /\ Meet

RequestLost(s, before) ==
    /\ Step /\ <<s, before>> \in historyAsked
    /\ historyAsked' = historyAsked \ {<<s, before>>} /\ unanswered' = unanswered \union {s}
    /\ UNCHANGED <<lines, buffer, noMore, selected, auto, fetched, anchor, met, carried, overtaken>>
-----------------------------------------------------------------------------
(* The user *)

SelectAsks(s) ==
    /\ fetched' = fetched \union {s}
    /\ historyAsked' = IF buffer[s] = <<>> THEN historyAsked \union {<<s, Everything>>} ELSE historyAsked

\* The first entry into an empty session asks for its history.
FetchOnEntry(s) ==
    IF s \in fetched THEN UNCHANGED <<fetched, historyAsked>> ELSE SelectAsks(s)

\* From the home screen the timeline is mounted at its bottom; from another
\* session, beside the list of a wide screen, it keeps its state.
Select(s) ==
    /\ Step /\ selected # s
    /\ selected' = s
    /\ auto' = (selected = NoSession \/ auto)
    /\ FetchOnEntry(s)
    /\ UNCHANGED <<lines, buffer, noMore, anchor, carried, overtaken, unanswered>>
    /\ Meet

Back ==
    /\ Step /\ selected # NoSession
    /\ selected' = NoSession
    /\ UNCHANGED <<lines, buffer, noMore, auto, fetched, historyAsked, anchor, met, carried,
                   overtaken, unanswered>>

\* onScroll: away from the bottom, to the top, which asks for the page
\* before the first event known, or to the bottom.
Scroll(atBottom, atTop) ==
    /\ Step /\ selected # NoSession
    /\ auto' = atBottom
    /\ historyAsked' = IF atTop /\ selected \notin noMore /\ buffer[selected] # <<>>
                THEN historyAsked \union {<<selected, Head(buffer[selected])>>}
                ELSE historyAsked
    /\ UNCHANGED <<lines, buffer, noMore, selected, fetched, anchor, carried, overtaken, unanswered>>
    /\ Meet

\* "New events N": to the bottom.
Jump ==
    /\ Step /\ selected # NoSession /\ ~auto /\ UnreadCount(selected) > 0
    /\ auto' = TRUE
    /\ UNCHANGED <<lines, buffer, noMore, selected, fetched, historyAsked, anchor, carried,
                   overtaken, unanswered>>
    /\ Meet
-----------------------------------------------------------------------------
(* The anchor *)

Mark(s) ==
    /\ lastSeen' = [lastSeen EXCEPT ![s] = MaxOffset(buffer[s])]
    /\ dirty' = TRUE
    /\ UNCHANGED <<lines, buffer, noMore, timeline, latest, stored, met, carried, overtaken, unanswered, steps>>

\* Mutants: the anchor moves wherever the user has scrolled to; it moves to
\* the first event.
MarkSeenAnywhere(s) ==
    selected = s /\ MaxOffset(buffer[s]) > lastSeen[s] /\ MaxOffset(buffer[s]) >= 0 /\ Mark(s)

MarkSeenOfFirst(s) ==
    /\ selected = s /\ auto /\ buffer[s] # <<>> /\ Head(buffer[s]) >= 0
    /\ Head(buffer[s]) > lastSeen[s]
    /\ lastSeen' = [lastSeen EXCEPT ![s] = Head(buffer[s])] /\ dirty' = TRUE
    /\ UNCHANGED <<lines, buffer, noMore, timeline, latest, stored, met, carried, overtaken, unanswered, steps>>

\* The effect of SessionTimeline, and markSeen, which never goes back.
MarkSeen(s) ==
    /\ selected = s /\ auto
    /\ MaxOffset(buffer[s]) >= 0 /\ MaxOffset(buffer[s]) > lastSeen[s]
    /\ Mark(s)

\* The effect that follows the render: latestRef.current = lastSeenOffsets.
LatestFollows ==
    /\ latest # lastSeen /\ latest' = lastSeen
    /\ UNCHANGED <<lines, buffer, noMore, timeline, lastSeen, stored, dirty, met, carried, overtaken, unanswered, steps>>

FlushWrites ==
    IF dirty
    THEN dirty' = FALSE /\ stored' = latest /\ overtaken' = (latest # lastSeen)
    ELSE UNCHANGED <<dirty, stored, overtaken>>

\* 200 ms after the first mark.
TimerFlush ==
    /\ dirty /\ FlushWrites
    /\ UNCHANGED <<lines, buffer, noMore, timeline, lastSeen, latest, met, carried, unanswered, steps>>

\* visibilitychange to hidden; the page lives on.
Hide ==
    /\ Step /\ dirty /\ FlushWrites
    /\ UNCHANGED <<lines, buffer, noMore, timeline, lastSeen, latest, met, carried, unanswered>>

\* The page is opened anew from localStorage: after pagehide and its flush,
\* or killed without one.
Reopen(flushed) ==
    /\ Step
    /\ IF flushed THEN FlushWrites ELSE dirty' = FALSE /\ UNCHANGED <<stored, overtaken>>
    /\ lastSeen' = stored' /\ latest' = stored'
    /\ buffer' = [s \in Sessions |-> <<>>] /\ noMore' = {}
    /\ selected' = NoSession /\ auto' = TRUE /\ fetched' = {} /\ historyAsked' = {}
    /\ unanswered' = {}
    /\ UNCHANGED <<lines, met, carried>>
-----------------------------------------------------------------------------
MarksNext ==
    \/ \E s \in Sessions :
         \/ \E received \in BOOLEAN : NewLine(s, received)
         \/ RunEvent(s) \/ Rebind(s) \/ Select(s) \/ MarkSeen(s)
    \/ \E request \in historyAsked :
         HistoryChunk(request[1], request[2]) \/ RequestLost(request[1], request[2])
    \/ Back \/ \E atBottom, atTop \in BOOLEAN : Scroll(atBottom, atTop)
    \/ Jump \/ LatestFollows \/ TimerFlush \/ Hide
    \/ \E flushed \in BOOLEAN : Reopen(flushed)

MarksSpec == MarksInit /\ [][MarksNext]_marksVars

\* Effects run, timers fire and the daemon answers; nobody has to do
\* anything on the screen.
MarksFairSpec ==
    /\ MarksSpec
    /\ WF_marksVars(\E s \in Sessions : MarkSeen(s)) /\ WF_marksVars(LatestFollows) /\ WF_marksVars(TimerFlush)
    /\ WF_marksVars(\E request \in historyAsked : HistoryChunk(request[1], request[2]))
-----------------------------------------------------------------------------
Offsets == Never .. MaxLines

\* Every variable has its type; a buffer holds no event twice.
MarksTypeOK ==
    /\ lines \in [Sessions -> 0 .. MaxLines]
    /\ \A s \in Sessions :
         /\ Range(buffer[s]) \subseteq Offsets \ {Never, 0}
         /\ Cardinality(Range(buffer[s])) = Len(buffer[s])
    /\ noMore \subseteq Sessions /\ selected \in Sessions \union {NoSession}
    /\ auto \in BOOLEAN /\ fetched \subseteq Sessions
    /\ historyAsked \subseteq Sessions \X (Offsets \union {Everything})
    /\ {lastSeen, latest, stored, met, carried} \subseteq [Sessions -> Offsets]
    /\ dirty \in BOOLEAN /\ overtaken \in BOOLEAN /\ unanswered \subseteq Sessions
    /\ steps \in 0 .. MaxSteps

\* Nothing is read that was never at the bottom of the screen, neither by
\* this page nor by the one before a reload: the anchor of useLastSeen is at
\* most what the timeline showed there, or what the conversation before a
\* rebind left, since session_rebound does not clear it.
SeenWasShown ==
    \A s \in Sessions : lastSeen[s] <= Max({met[s], carried[s]})

\* When no write is due, a reload finds the anchor as it is, unless a flush
\* came between a mark and the effect that hands it to latestRef
\* (useLastSeen's flush and its comment, "surviving a tab close").
SeenIsKept ==
    ~dirty /\ ~overtaken => stored = lastSeen

\* At the bottom the count goes to zero when the last event is a line of the
\* log.  When it is an event of a run, as after every turn, maxOffset is
\* negative and the lines before it stay unread (useSessionTimeline).
AtBottom(s) == selected = s /\ auto /\ MaxOffset(buffer[s]) > 0
BottomIsRead ==
    \A s \in Sessions :
        AtBottom(s) ~> UnreadCount(s) = 0 \/ ~AtBottom(s)

\* A session with lines does not stay empty on the screen, unless it was
\* rebound or an event or the answer was missed: initialFetchedRef asks once
\* in the life of a page.
EntryFills ==
    \A s \in Sessions :
        selected = s /\ lines[s] > 0
            ~> buffer[s] # <<>> \/ selected # s \/ s \in unanswered

\* A mark is at a line that was shown, and what is stored is what was marked.
MarksAreTrue == MarksTypeOK /\ SeenWasShown /\ SeenIsKept

\* Reading catches up: who stays at the bottom has read, and who enters
\* sees a page.
MarksCatchUp == BottomIsRead /\ EntryFills
=============================================================================
