----------------------------- MODULE RoundTrips -----------------------------
(***************************************************************************)
(* The daemon's round-trip traces (otel.ts, observability/session-map.ts): *)
(* a message to a session opens a root span, every line of the session's   *)
(* log becomes a child of the newest root, the line that ends a turn ends  *)
(* it, and a sweep ends those nothing has touched for five minutes.        *)
(*                                                                         *)
(* The map is a record, its operations functions of it, time counts in     *)
(* minutes.  Root i is the i-th that was opened.                           *)
(***************************************************************************)
EXTENDS Integers, SequencesExt

Ttl == 5   \* DEFAULT_TTL_MS; the sweep runs every minute

\* stacks[s]: what is open, the newest last; of[i]: the session of root i;
\* ends[i]: how often it was ended; joins: which root each line became a child of.
NewMap(sessions) ==
    [now |-> 0, stacks |-> [s \in sessions |-> <<>>], of |-> <<>>, ends |-> <<>>, joins |-> <<>>]

End(m, ids) == [m EXCEPT !.ends = [i \in DOMAIN @ |-> @[i] + IF i \in ids THEN 1 ELSE 0]]

\* beginRoundTrip: push()
Push(m, s) ==
    [m EXCEPT !.stacks[s] = Append(@, [id |-> Len(m.of) + 1, last |-> m.now]),
              !.of = Append(@, s), !.ends = Append(@, 0)]

\* withSessionChildSpan: peek() counts as activity; a line without a root is an orphan.
Peek(m, s) ==
    IF m.stacks[s] = <<>> THEN [m EXCEPT !.joins = Append(@, 0)]
    ELSE [m EXCEPT !.stacks[s] = Append(Front(@), [Last(@) EXCEPT !.last = m.now]),
                   !.joins = Append(@, Last(m.stacks[s]).id)]

\* endRoundTrip: pop(), and end the root.
Pop(m, s) ==
    IF m.stacks[s] = <<>> THEN m
    ELSE [End(m, {Last(m.stacks[s]).id}) EXCEPT !.stacks[s] = Front(@)]

Expired(m, r) == r.last < m.now - Ttl

\* sweep()
Sweep(m) ==
    LET out == {r \in UNION {ToSet(m.stacks[s]) : s \in DOMAIN m.stacks} : Expired(m, r)}
    IN  [End(m, {r.id : r \in out}) EXCEPT
            !.stacks = [s \in DOMAIN @ |-> SelectSeq(@[s], LAMBDA r : ~Expired(m, r))]]

Minutes(m, n) == FoldLeft(LAMBDA x, i : Sweep([x EXCEPT !.now = @ + 1]), m, [i \in 1 .. n |-> i])

-----------------------------------------------------------------------------
(* Everything that can happen to two sessions in five steps *)

Steps == ({"message", "line", "turn"} \X {"s", "t"}) \cup ({"pass"} \X {1, 3})

Step(m, step) ==
    CASE step[1] = "message" -> Push(m, step[2])
      [] step[1] = "line" -> Peek(m, step[2])
      [] step[1] = "turn" -> Pop(Peek(m, step[2]), step[2])
      [] step[1] = "pass" -> Minutes(m, step[2])

After(steps) == FoldLeft(Step, NewMap({"s", "t"}), steps)
Traces == UNION {[1 .. n -> Steps] : n \in 0 .. 5}

\* Traces after which seven quiet minutes leave a root that was not ended
\* exactly once.
Unended == {t \in Traces : ~(ToSet(Minutes(After(t), 7).ends) \subseteq {1})}

\* Traces whose last step is a line that does not become a child of the
\* newest root of its session that is still open.
Astray ==
    {t \in Traces :
        /\ t # <<>> /\ Last(t)[1] = "line"
        /\ LET m == After(t)
               open == {i \in DOMAIN m.of : m.of[i] = Last(t)[2] /\ m.ends[i] = 0}
           IN  Last(m.joins) # IF open = {} THEN 0 ELSE Max(open)}
=============================================================================
