---------------------------- MODULE MCEventPath -----------------------------
(***************************************************************************)
(* Instances of EventPath for TLC, and the properties of Framing,          *)
(* Timeline and RoundTrips.  These are formulas without variables:         *)
(* evaluated in the initial states only.                                   *)
(***************************************************************************)
EXTENDS EventPath, TLC

CONSTANTS f1, f2, f3

Once == [e \in Events |-> 1]

Bytes == INSTANCE Framing
Cards == INSTANCE Timeline

\* However the socket cuts the stream between plugin and daemon,
\* FrameDecoder delivers the frames that were sent, and of a stream that
\* goes on with a frame too large only frames that came before it.
FramesSurviveCuts == PathInit => Bytes!MisreadFrames = {}

\* However Claude Code's writes are cut (between characters), drain() finds
\* the lines and the offsets readHistory finds in the whole file: the key by
\* which the PWA tells a live line from a page of history.
DrainFindsWhatHistoryFinds == PathInit => Bytes!MisreadFiles = {}

\* mergeTimeline makes the same items of the same rows in whatever order
\* live lines and pages of history brought them.
TimelineIgnoresArrival == PathInit => Cards!Reordered = {}

\* Of the rows a PWA holds each visible tool call is in one group, once, with
\* the outcome of its result or as running; grouping loses and moves nothing.
CallsShownOnce == PathInit => Cards!MissedCalls = {}

\* A reasoning is drawn as going on exactly while no text and no tool call
\* came after it, so what is over once stays over.
ThoughtsEnd == PathInit => Cards!MisjudgedThoughts = {}
Traces == INSTANCE RoundTrips

\* However messages, log lines, ends of turns and idle minutes follow each
\* other in two sessions, a root span is ended once and never more often, by
\* the end of its turn or by the sweep (session-map.ts, otel.ts).
RootsEndOnce == PathInit => Traces!Unended = {}

\* A line joins a root of its own session that is still open, and a turn
\* that ends ends the newest of them: never the root of another session or
\* one that the sweep has ended.
LinesJoinOpenRoots == PathInit => Traces!Astray = {}

\* From the bytes of a socket or a log to the cards of the timeline and the
\* spans of a trace, the order and the cuts in which bytes arrive change
\* nothing.
RowsAreReadAndDrawn ==
    /\ FramesSurviveCuts /\ DrainFindsWhatHistoryFinds
    /\ TimelineIgnoresArrival /\ CallsShownOnce /\ ThoughtsEnd
    /\ RootsEndOnce /\ LinesJoinOpenRoots
=============================================================================
