------------------------------ MODULE Framing -------------------------------
(***************************************************************************)
(* Byte streams cut anywhere: FrameDecoder, which puts the frames between  *)
(* plugin and daemon together, and drain(), which puts the lines of        *)
(* Claude Code's log together, against readHistory, which reads the file   *)
(* in one piece.                                                           *)
(*                                                                         *)
(* A byte is a number; a frame's payload and a line's text are sequences   *)
(* of them.  What toString("utf8") makes of a character cut in two is      *)
(* below; JSON.parse is not modelled.                                      *)
(***************************************************************************)
EXTENDS SequencesExt, Integers

\* The code's are 4 bytes of 256 values, and 16 MB.
HeaderBytes == 2
Radix == 3
MaxFrameBytes == 4

-----------------------------------------------------------------------------
(* codec.ts                                                                *)

Digit(n, i) == (n \div (Radix ^ (HeaderBytes - i))) % Radix
EncodeFrame(payload) == [i \in 1..HeaderBytes |-> Digit(Len(payload), i)] \o payload

LengthOf(buffer) == FoldLeft(LAMBDA n, b : Radix * n + b, 0, SubSeq(buffer, 1, HeaderBytes))

\* The buffer, the frames delivered so far, and whether push threw.
Decoder == [buffer |-> <<>>, out |-> <<>>, broken |-> FALSE]

HasFrame(d) ==
    /\ Len(d.buffer) >= HeaderBytes
    /\ LengthOf(d.buffer) <= MaxFrameBytes
    /\ Len(d.buffer) >= HeaderBytes + LengthOf(d.buffer)

TakeFrame(d) ==
    LET end == HeaderBytes + LengthOf(d.buffer)
    IN  [d EXCEPT !.out = Append(@, SubSeq(d.buffer, HeaderBytes + 1, end)),
                  !.buffer = SubSeq(@, end + 1, Len(@))]

TakeFrames(d) == FoldLeft(LAMBDA e, i : IF HasFrame(e) THEN TakeFrame(e) ELSE e, d,
                          [i \in 1..Len(d.buffer) |-> i])

TooLarge(d) == Len(d.buffer) >= HeaderBytes /\ LengthOf(d.buffer) > MaxFrameBytes

\* A push that throws delivers nothing, and the socket is destroyed.
Delivered(d, read) == IF TooLarge(read) THEN [d EXCEPT !.broken = TRUE] ELSE read

Push(d, chunk) ==
    IF d.broken THEN d ELSE Delivered(d, TakeFrames([d EXCEPT !.buffer = @ \o chunk]))
-----------------------------------------------------------------------------
(* UTF-8 in small: a character of one byte, one of the two bytes Lead and  *)
(* Follow, and what the decoder puts for a byte that fits nowhere, of      *)
(* three bytes when it is encoded again.                                   *)

Newline == 10
Lead == 2
Follow == 3
Wide == 23
Misfit == 99

Width(c) == CASE c = Wide -> 2 [] c = Misfit -> 3 [] OTHER -> 1
ByteLength(text) == FoldLeft(LAMBDA n, c : n + Width(c), 0, text)

ToText(bytes) ==
    LET Pair(i) == i \in 1..(Len(bytes) - 1) /\ bytes[i] = Lead /\ bytes[i + 1] = Follow
        Char(i) == CASE Pair(i) -> <<Wide>>
                     [] Pair(i - 1) -> <<>>
                     [] ~Pair(i) /\ ~Pair(i - 1) /\ bytes[i] \in {Lead, Follow} -> <<Misfit>>
                     [] OTHER -> <<bytes[i]>>
    IN  FlattenSeq([i \in DOMAIN bytes |-> Char(i)])

Breaks(text) == {i \in DOMAIN text : text[i] = Newline}

\* Of each whole line of a text: itself and where it ends.
LinesOf(text, OffsetOf(_)) ==
    LET ends == SelectSeq([i \in DOMAIN text |-> i], LAMBDA i : text[i] = Newline)
        Start(k) == IF k = 1 THEN 1 ELSE ends[k - 1] + 1
    IN  [k \in DOMAIN ends |-> [line |-> SubSeq(text, Start(k), ends[k] - 1), offset |-> OffsetOf(ends[k])]]
-----------------------------------------------------------------------------
(* jsonl-watcher.ts, jsonl-history.ts                                      *)

Watcher(startOffset) == [offset |-> startOffset, buffer |-> <<>>, lines |-> <<>>]

\* The end of the file less what stands behind the line, counted in bytes.
LineOffset(size, buffer, end) == size - ByteLength(SubSeq(buffer, end + 1, Len(buffer)))

\* drain(): a file shorter than what was read is read from its beginning.
Drain(w, file) ==
    LET from == IF Len(file) < w.offset THEN [w EXCEPT !.offset = 0, !.buffer = <<>>] ELSE w
        buffer == from.buffer \o ToText(SubSeq(file, from.offset + 1, Len(file)))
        lines == LinesOf(buffer, LAMBDA end : LineOffset(Len(file), buffer, end))
    IN  IF Len(file) <= from.offset THEN from
        ELSE [offset |-> Len(file), lines |-> w.lines \o lines,
              buffer |-> SubSeq(buffer, Max(Breaks(buffer) \cup {0}) + 1, Len(buffer))]

\* The last lines of a file that end at or before an offset.
ReadHistory(file, beforeOffset, limit) ==
    LET text == ToText(file)
        all == SelectSeq(LinesOf(text, LAMBDA end : ByteLength(SubSeq(text, 1, end))),
                         LAMBDA l : l.offset <= beforeOffset)
    IN  IF beforeOffset <= 0 \/ limit <= 0 THEN <<>>
        ELSE SubSeq(all, Max({1, Len(all) - limit + 1}), Len(all))
-----------------------------------------------------------------------------
(* Bounded streams and files, cut at any set of places; MCEventPath says   *)
(* that none of them is read wrongly.                                      *)

\* Where the pieces of a stream cut behind these places end, and the pieces.
Ends(stream, cuts) ==
    SelectSeq([i \in DOMAIN stream |-> i], LAMBDA i : i \in cuts \cup {Len(stream)})
Pieces(stream, cuts) ==
    LET ends == Ends(stream, cuts)
    IN  [k \in DOMAIN ends |-> SubSeq(stream, IF k = 1 THEN 1 ELSE ends[k - 1] + 1, ends[k])]

Payloads == {<<>>, <<1>>, <<0, 1, 2>>}
FrameLists == SeqOf(Payloads, 2)
Oversized == <<(MaxFrameBytes + 1) \div Radix, (MaxFrameBytes + 1) % Radix, 0>>

Cuts(stream) == SUBSET (1..(Len(stream) - 1))
Decoded(stream, cuts) == FoldLeft(Push, Decoder, Pieces(stream, cuts))

MisreadFrames ==
    {frames \in FrameLists :
        LET good == FlattenSeq([i \in DOMAIN frames |-> EncodeFrame(frames[i])])
            bad == good \o Oversized
        IN  \/ \E cuts \in Cuts(good) :
                  Decoded(good, cuts) # [buffer |-> <<>>, out |-> frames, broken |-> FALSE]
            \/ \E cuts \in Cuts(bad) :
                  LET d == Decoded(bad, cuts) IN ~d.broken \/ ~IsPrefix(d.out, frames)}

Characters == {<<Newline>>, <<1>>, <<Lead, Follow>>}
SomeFiles == {FlattenSeq(text) : text \in SeqOf(Characters, 5)}

\* Between two characters: no write ends inside one.  (Where one does, the
\* half read counts three bytes instead of one, and a line that ends before
\* it in the same piece gets an offset that is too low.)
Between(file) == {i \in 1..(Len(file) - 1) : file[i] # Lead}
Whole(file) == ReadHistory(file, Len(file), Len(file))
Drained(w, file, cuts) ==
    FoldLeft(LAMBDA v, end : Drain(v, SubSeq(file, 1, end)), w, Ends(file, cuts))

\* A watcher from the beginning and one from the end of any line, which is
\* where a daemon starts a watcher of a file it knows; and a file that a
\* shorter one replaces.
MisreadFiles ==
    {file \in SomeFiles :
        \/ \E cuts \in SUBSET Between(file) : Drained(Watcher(0), file, cuts).lines # Whole(file)
        \/ \E end \in Breaks(file) :
              \/ Drained(Watcher(end), file, {}).lines
                    # SelectSeq(Whole(file), LAMBDA l : l.offset > end)
              \/ Whole(SubSeq(file, 1, end)) # ReadHistory(file, end, Len(file))
        \/ \E n \in Between(file) :
              Drain(Drain(Watcher(0), file), SubSeq(file, 1, n)).lines
                # Whole(file) \o Whole(SubSeq(file, 1, n))}
=============================================================================
