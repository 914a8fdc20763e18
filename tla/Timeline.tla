------------------------------ MODULE Timeline ------------------------------
(***************************************************************************)
(* From the rows of Claude Code's log to the cards of a session:           *)
(* fromClaudeCode makes AG-UI events of a row, mergeTimeline makes items   *)
(* of the events a PWA holds, in whatever order they arrived (module       *)
(* EventPath), groupTimelineItems and computeReasoningStatus decide what   *)
(* is drawn.                                                               *)
(*                                                                         *)
(* A text is only present or not; a tool call is its id.                   *)
(***************************************************************************)
EXTENDS SequencesExt, Integers

NoCall == "no call"

-----------------------------------------------------------------------------
(* A row: its type, its timestamp (0 without one), the offset of its end,  *)
(* its blocks, its own prose and the marks that decide about the prose.    *)

Block(kind, call, name, ok) == [kind |-> kind, call |-> call, name |-> name, ok |-> ok]
Text == Block("text", NoCall, "", TRUE)
Thinking == Block("thinking", NoCall, "", TRUE)
ToolUse(call, name) == Block("tool_use", call, name, TRUE)
ToolResult(call, ok) == Block("tool_result", call, "", ok)

Row(type, blocks, prose) == [type |-> type, blocks |-> blocks, prose |-> prose]

HiddenPayloadTypes == {"queue-operation", "ai-title", "system", "file-history-snapshot"}
IsHiddenToolName(name) == name \in {"ToolSearch", "AskUserQuestion", "mcp__cc-remote__list"}

Event(type, call, role, ok) == [type |-> type, call |-> call, role |-> role, ok |-> ok]
Says(role) == Event("TEXT_MESSAGE_CHUNK", NoCall, role, TRUE)

AssistantEvents(b) ==
    CASE b.kind = "text" -> <<Says("assistant")>>
      [] b.kind = "thinking" -> <<Event("REASONING_MESSAGE_CHUNK", NoCall, "", TRUE)>>
      [] b.kind = "tool_use" /\ b.name = "mcp__cc-remote__reply" -> <<Says("assistant")>>
      [] b.kind = "tool_use" /\ b.name # "mcp__cc-remote__reply" /\ ~IsHiddenToolName(b.name) ->
            <<Event("TOOL_CALL_CHUNK", b.call, "", TRUE)>>
      [] OTHER -> <<>>

\* What the user wrote: the message itself or its first text, unless Claude
\* Code wrote it.  A message of the channel is never taken for such.
Prose(row) ==
    LET written == row.prose # "none" \/ \E i \in DOMAIN row.blocks : row.blocks[i].kind = "text"
    IN  IF written /\ row.prose # "meta" THEN <<Says("user")>> ELSE <<>>

ResultEvents(b) ==
    IF b.kind = "tool_result" THEN <<Event("TOOL_CALL_RESULT", b.call, "tool", b.ok)>> ELSE <<>>

OfBlocks(F(_), blocks) == FlattenSeq([i \in DOMAIN blocks |-> F(blocks[i])])

FromClaudeCode(row) ==
    CASE row.type = "assistant" -> OfBlocks(AssistantEvents, row.blocks)
      [] row.type = "user" -> OfBlocks(ResultEvents, row.blocks) \o Prose(row)
      [] row.type = "attachment" -> IF row.prose = "queued" THEN <<Says("user")>> ELSE <<>>
      [] row.type \in HiddenPayloadTypes -> <<>>
      [] OTHER -> <<Event("RAW", NoCall, row.type, TRUE)>>
-----------------------------------------------------------------------------
(* The buffer of a session: events with their row's offset and their place *)
(* in the row.  A marker of a run has no timestamp, and an offset below    *)
(* every row's.                                                            *)

Buffered(row, offset, ts) ==
    LET events == FromClaudeCode(row)
    IN  [i \in DOMAIN events |-> [event |-> events[i], offset |-> offset, index |-> i, ts |-> ts]]

HiddenByRenderer == {"attachment", "summary", "queue-operation", "ai-title", "mode"}

Chunk(be) == be.event.type = "TOOL_CALL_CHUNK"
SameCall(a, b) == a.event.call = b.event.call /\ a.event.call # NoCall

\* The events that get an item: a result goes into the item of its call, a
\* further chunk of a call into the first one's.
HasItem(events, i) ==
    /\ ~(events[i].event.type = "RAW" /\ events[i].event.role \in HiddenByRenderer)
    /\ events[i].event.type # "TOOL_CALL_RESULT"
    /\ ~(Chunk(events[i]) /\ \E j \in 1..(i - 1) : Chunk(events[j]) /\ SameCall(events[j], events[i]))

NoResult == "active"
Status(event) == IF event.ok THEN "success" ELSE "failure"    \* toolStatusFromResult

\* Mutation for TLC: the results are looked up while the events are read.
ResultReadSoFar(events, i) ==
    LET of == {j \in 1..(i - 1) : events[j].event.type = "TOOL_CALL_RESULT" /\ SameCall(events[j], events[i])}
    IN  IF of = {} THEN NoResult ELSE Status(events[Max(of)].event)

ResultOf(events, i) ==
    LET of == {j \in DOMAIN events : events[j].event.type = "TOOL_CALL_RESULT" /\ SameCall(events[j], events[i])}
    IN  IF of = {} THEN NoResult ELSE Status(events[Max(of)].event)

Item(events, i) ==
    [tag |-> IF Chunk(events[i]) THEN "tool" ELSE "agui",
     id |-> <<events[i].offset, events[i].index>>, ts |-> events[i].ts, rank |-> 0,
     event |-> events[i].event, result |-> IF Chunk(events[i]) THEN ResultOf(events, i) ELSE NoResult]

\* Receipts of permissions and questions, with the time they came.
Receipt(r) ==
    [tag |-> r.tag, id |-> <<0, r.ts>>, ts |-> r.ts, rank |-> 3,
     event |-> Event("", NoCall, "", TRUE), result |-> NoResult]

\* By time, receipts last, then by offset; the sort is stable.
MergeTimeline(events, receipts) ==
    LET timed == SelectSeq([i \in DOMAIN events |-> i], LAMBDA i : HasItem(events, i))
        places == timed \o [k \in DOMAIN receipts |-> Len(events) + k]
        At(p) == IF p <= Len(events) THEN Item(events, p) ELSE Receipt(receipts[p - Len(events)])
        Offset(p) == IF p <= Len(events) THEN events[p].offset ELSE 0
        Before(p, q) ==
            CASE At(p).ts # At(q).ts -> At(p).ts < At(q).ts
              [] At(p).ts = At(q).ts /\ At(p).rank # At(q).rank -> At(p).rank < At(q).rank
              [] OTHER -> Offset(p) < Offset(q) \/ (Offset(p) = Offset(q) /\ p < q)
        sorted == SortSeq(places, Before)
    IN  [k \in DOMAIN sorted |-> At(sorted[k])]
-----------------------------------------------------------------------------
(* What is drawn.                                                          *)

GroupTimelineItems(items) ==
    FoldLeft(LAMBDA groups, item :
                IF item.tag = "tool" /\ groups # <<>> /\ Last(groups).kind = "tool-group"
                THEN [groups EXCEPT ![Len(groups)].items = Append(@, item)]
                ELSE Append(groups, [kind |-> IF item.tag = "tool" THEN "tool-group" ELSE "single",
                                     items |-> <<item>>]),
             <<>>, items)

Summarize(group) ==
    LET results == {group.items[i].result : i \in DOMAIN group.items}
    IN  CASE NoResult \in results -> "running"
          [] NoResult \notin results /\ "failure" \in results -> "failed"
          [] OTHER -> "ok"

IsReasoning(item) == item.tag = "agui" /\ item.event.type = "REASONING_MESSAGE_CHUNK"

IsFlipper(item) ==
    \/ item.tag \in {"tool", "permission-resolved"}
    \/ item.tag = "agui" /\ item.event.type \in {"TEXT_MESSAGE_CHUNK", "RUN_ERROR", "RAW"}

\* computeReasoningStatus: the reasonings drawn as still going on.
ActiveReasoning(items) ==
    {items[i].id : i \in {k \in DOMAIN items :
        IsReasoning(items[k]) /\ \A j \in (k + 1)..Len(items) : ~IsFlipper(items[j])}}
-----------------------------------------------------------------------------
(* Bounded conversations: three rows, each at most once, the events of a   *)
(* row together, and a marker of a run; the rows arrive in any order.      *)
(* MCEventPath says that nothing of them is shown wrongly.                 *)

SomeRows ==
    {Row("assistant", <<Text>>, "none"), Row("assistant", <<Thinking>>, "none"),
     Row("assistant", <<Thinking, ToolUse("c1", "Bash")>>, "none"),
     Row("assistant", <<ToolUse("c2", "Bash"), ToolUse("c3", "ToolSearch")>>, "none"),
     Row("user", <<ToolResult("c1", FALSE)>>, "none"),
     Row("user", <<ToolResult("c2", TRUE), ToolResult("c3", TRUE), Text>>, "none"),
     Row("user", <<>>, "meta"), Row("attachment", <<>>, "queued"), Row("summary", <<>>, "none")}

Orders == {o \in [1..3 -> 1..3] : IsInjective(o)}
Times == {<<1, 1, 1>>, <<1, 1, 2>>, <<2, 1, 3>>}
Conversations ==
    {c \in [rows : [1..3 -> SomeRows], times : Times] : IsInjective(c.rows)}

Marker == <<[event |-> Event("RUN_FINISHED", NoCall, "", TRUE), offset |-> -1, index |-> 1, ts |-> 0]>>
Allowed2 == <<[tag |-> "permission-resolved", ts |-> 2]>>

RowEvents(c, k) == Buffered(c.rows[k], k, c.times[k])
Arrived(c, rows) == FlattenSeq([n \in DOMAIN rows |-> RowEvents(c, rows[n])]) \o Marker

Reordered ==
    {<<c, o>> \in Conversations \X Orders :
        MergeTimeline(Arrived(c, o), Allowed2) # MergeTimeline(Arrived(c, <<1, 2, 3>>), Allowed2)}

\* The status a call should show when only these rows are held.
Outcome(c, rows, call) ==
    LET results == {b \in UNION {ToSet(c.rows[k].blocks) : k \in ToSet(rows)} :
                        b.kind = "tool_result" /\ b.call = call}
    IN  IF results = {} THEN NoResult
        ELSE IF \E b \in results : b.ok THEN "success" ELSE "failure"

CallsShown(c, rows) ==
    LET items == MergeTimeline(Arrived(c, rows), <<>>)
        groups == GroupTimelineItems(items)
        calls == {b \in UNION {ToSet(c.rows[k].blocks) : k \in ToSet(rows)} :
                     b.kind = "tool_use" /\ ~IsHiddenToolName(b.name)}
        shown == {<<g, i>> \in (DOMAIN groups) \X (1..Len(items)) :
                     groups[g].kind = "tool-group" /\ i \in DOMAIN groups[g].items}
        Of(b) == {s \in shown : groups[s[1]].items[s[2]].event.call = b.call}
    IN  /\ Cardinality(shown) = Cardinality(calls)
        /\ \A b \in calls : \E s \in Of(b) :
              /\ Of(b) = {s}
              /\ groups[s[1]].items[s[2]].result = Outcome(c, rows, b.call)
              /\ Outcome(c, rows, b.call) = NoResult => Summarize(groups[s[1]]) = "running"
        /\ FlattenSeq([g \in DOMAIN groups |-> groups[g].items]) = items

MissedCalls ==
    {<<c, o, n>> \in Conversations \X Orders \X (1..3) : ~CallsShown(c, SubSeq(o, 1, n))}

\* What the rows up to n say is over: something shown came after it.
Shows(e) == e.type \in {"TEXT_MESSAGE_CHUNK", "TOOL_CALL_CHUNK"}
Thoughts(c, n) ==
    {<<k, i>> \in (1..n) \X (1..2) :
        i \in DOMAIN RowEvents(c, k) /\ RowEvents(c, k)[i].event.type = "REASONING_MESSAGE_CHUNK"}
GoingOn(c, n) ==
    {t \in Thoughts(c, n) :
        ~\E k \in t[1]..n : \E i \in DOMAIN RowEvents(c, k) :
            (k > t[1] \/ i > t[2]) /\ Shows(RowEvents(c, k)[i].event)}

MisjudgedThoughts ==
    {<<c, n>> \in {d \in Conversations : d.times # <<2, 1, 3>>} \X (1..3) :
        ActiveReasoning(MergeTimeline(Arrived(c, [k \in 1..n |-> k]), <<>>)) # GoingOn(c, n)}
=============================================================================
