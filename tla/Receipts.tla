------------------------------ MODULE Receipts ------------------------------
(***************************************************************************)
(* The receipts a PWA draws for permissions and questions that are over.   *)
(* Requests and the answers sent from here are kept in caches of bounded   *)
(* size (insertWithLru), resolutions in a buffer, and a card is put        *)
(* together of the three when it is drawn; commands are shown in tokens    *)
(* (tokenizeCommand).                                                      *)
(*                                                                         *)
(* A request is its id; its body is what was asked for under that id.      *)
(***************************************************************************)
EXTENDS Integers, FiniteSets, ListOps

LruMax == 2             \* PERMISSION_HISTORY_LRU_MAX
ResolutionBuffer == 2   \* PER_SESSION_RESOLUTION_BUFFER
NotInHistory == 0

Ids == 1 .. 3

\* What happens at a PWA: a request comes, an answer is sent from here, a
\* resolution comes, from here or from elsewhere.
Steps == {"request", "answer", "resolved"} \X Ids
Traces == BoundedSeq(Steps, 5)

Empty == [requests |-> <<>>, answers |-> <<>>, pending |-> {}, resolved |-> <<>>]

LastOf(s, n) == IF Len(s) > n THEN SubSeq(s, Len(s) - n + 1, Len(s)) ELSE s

\* Mutant: a key that is there keeps its age.
InsertInPlace(history, id) ==
    IF id \in Range(history) THEN history ELSE LastOf(Append(history, id), LruMax)

\* A map has a key once.
Without(history, id) ==
    IF id \in Range(history)
    THEN RemoveAt(history, CHOOSE i \in DOMAIN history : history[i] = id) ELSE history

\* The key becomes the newest; the oldest go.
InsertWithLru(history, id) == LastOf(Append(Without(history, id), id), LruMax)

\* The reducer; an answer is sent only to a question that is open.
ReduceReceipts(view, step) ==
    CASE step[1] = "request" ->
            [view EXCEPT !.pending = @ \union {step[2]}, !.requests = InsertWithLru(@, step[2])]
      [] step[1] = "answer" ->
            IF step[2] \in view.pending
            THEN [view EXCEPT !.answers = InsertWithLru(@, step[2])] ELSE view
      [] step[1] = "resolved" ->
            [view EXCEPT !.pending = @ \ {step[2]},
                         !.resolved = LastOf(Append(@, step[2]), ResolutionBuffer)]

After(trace) == FoldLeft(ReduceReceipts, Empty, trace)

\* findPermissionRequest, findAskQuestionRequest, findAskQuestionAnswers.
Find(history, id) == IF id \in Range(history) THEN id ELSE NotInHistory

\* ResolvedPermissionCard and ResolvedAskQuestionCard: "(not in history)"
\* without the request, "(answered on another device)" without the answers.
Card(view, id) ==
    [id |-> id, request |-> Find(view.requests, id),
     answers |-> IF Find(view.requests, id) = NotInHistory THEN NotInHistory
                 ELSE Find(view.answers, id)]

Cards(view) == {Card(view, id) : id \in Range(view.resolved)}

\* Reference: the keys put in after the last time this one was.
LastTime(trace, step) == {i \in DOMAIN trace : trace[i] = step /\ \A j \in DOMAIN trace : trace[j] = step => j <= i}
Since(trace, step) ==
    {trace[j][2] : j \in {k \in DOMAIN trace :
        trace[k][1] = step[1] /\ \E i \in LastTime(trace, step) : k > i}}
Known(trace, id) ==
    LastTime(trace, <<"request", id>>) # {} /\ Cardinality(Since(trace, <<"request", id>>)) < LruMax

\* A receipt shows what was asked under its id when it came to this PWA and
\* fewer than the bound were asked since.
Bare ==
    {t \in Traces : \E c \in Cards(After(t)) : (c.request = c.id) # Known(t, c.id)}

\* It highlights answers only when this PWA sent some for that id.
Borrowed ==
    {t \in Traces : \E c \in Cards(After(t)) :
        c.answers # NotInHistory /\ LastTime(t, <<"answer", c.id>>) = {}}
-----------------------------------------------------------------------------
(* tokenizeCommand: of the characters only what the tokens depend on; a    *)
(* word that is a verb of DESTRUCTIVE_VERBS is the one character "!".      *)

PathStarts == {<<"/">>, <<"~">>, <<".", "/">>, <<".", ".", "/">>}
Blank == {" ", "t"}
Token(text) ==
    [text |-> text,
     kind |-> IF text = <<>> \/ Head(text) \in Blank THEN "plain"
              ELSE IF Head(text) = "-" THEN "flag"
              ELSE IF text = <<"!">> THEN "danger"
              ELSE IF \E start \in PathStarts : IsPrefix(start, text) THEN "path"
              ELSE "plain"]

\* split(/(\s+)/): parts of blanks and of others take turns, others first
\* and last, if need be empty.
Cut(parts, c) ==
    IF (Len(parts) % 2 = 0) # (c \in Blank) THEN Append(parts, <<c>>)
    ELSE Append(Front(parts), Append(Last(parts), c))
Split(command) ==
    LET parts == FoldLeft(Cut, <<<<>>>>, command)
    IN  IF Len(parts) % 2 = 0 THEN Append(parts, <<>>) ELSE parts

TokenizeCommand(command) == [i \in DOMAIN Split(command) |-> Token(Split(command)[i])]

Commands == BoundedSeq({" ", "t", "-", "!", "/", "."}, 4)

\* Reference: the words of a command, by where they begin and end.
Words(command) ==
    {SubSeq(command, p[1], p[2]) :
        p \in {q \in (1 .. Len(command)) \X (1 .. Len(command)) :
            /\ q[1] <= q[2] /\ \A i \in q[1] .. q[2] : command[i] \notin Blank
            /\ q[1] = 1 \/ command[q[1] - 1] \in Blank
            /\ q[2] = Len(command) \/ command[q[2] + 1] \in Blank}}

\* "so the tokens reassemble verbatim": nothing of a command is lost or
\* moved, and every destructive verb that stands alone is a token in red.
Mistokenized ==
    {c \in Commands :
        LET tokens == TokenizeCommand(c)
        IN  \/ Joined([i \in DOMAIN tokens |-> tokens[i].text]) # c
            \/ (\E i \in DOMAIN tokens : tokens[i].kind = "danger") # (<<"!">> \in Words(c))}
=============================================================================
