---------------------------- MODULE EventStream ----------------------------
(***************************************************************************)
(* From the bytes of one stream to events: CappedLines, drain_lines (both  *)
(* in crates/supervisor/src/session.rs) and parse_event_line               *)
(* (crates/protocol/src/event.rs).  The bytes of a stream are abstracted   *)
(* to a whole event, a piece of any other text, CR and LF; each counts as  *)
(* one byte of the cap.                                                    *)
(*                                                                         *)
(* A read hands over as many bytes as happen to be there.  Every action is *)
(* one round of the loop in next_line: select may drop the future between  *)
(* any two, and nothing but the reader's own fields outlives it.           *)
(***************************************************************************)
EXTENDS Integers, SequencesExt

CONSTANTS
    MAX_EVENT_LINE_BYTES,
    BufSize,         \* capacity of the BufReader
    MaxBytes         \* bound on the bytes of the stream

ASSUME EventStreamAssumption ==
    /\ MAX_EVENT_LINE_BYTES \in Nat \ {0, 1}
    /\ BufSize \in 1..MAX_EVENT_LINE_BYTES
    /\ MaxBytes \in Nat

VARIABLES
    source,          \* "fifo" (held open, so without EOF) or "stdout"
    stream,          \* what the engine writes before it exits
    consumed,        \* bytes taken out of the BufReader
    filled,          \* bytes that were read into it
    buf, discarding, \* the fields of CappedLines
    lines,           \* the lines handed to on_line
    done             \* the stream was drained

vars == <<source, stream, consumed, filled, buf, discarding, lines, done>>

Event == "event"
Text == "text"
CR == "\r"
LF == "\n"
Bytes == {Event, Text, CR, LF}

Available == SubSeq(stream, consumed + 1, filled)
Unended == ~Contains(Available, LF)

-----------------------------------------------------------------------------
\* fill_buf reads only when everything read before was consumed.
FillBuf ==
    /\ ~done
    /\ filled = consumed
    /\ filled' \in filled + 1 .. filled + BufSize
    /\ filled' <= Len(stream)
    /\ UNCHANGED <<source, stream, consumed, buf, discarding, lines, done>>

WithoutCR(line) == IF line # <<>> /\ Last(line) = CR THEN Front(line) ELSE line

\* Mutant: resynchronising hands over what follows the dropped part.
TakeLineResyncs ==
    /\ Available # <<>> /\ ~Unended
    /\ \E upto \in DOMAIN Available :
        /\ Available[upto] = LF
        /\ \A before \in 1 .. upto - 1 : Available[before] # LF
        /\ consumed' = consumed + upto
        /\ lines' = Append(lines, WithoutCR(buf \o SubSeq(Available, 1, upto - 1)))
    /\ buf' = <<>>
    /\ discarding' = FALSE
    /\ UNCHANGED <<source, stream, filled, done>>

\* There is an LF in what was read: the line is complete, or the end of one that was
\* dropped.  Here the cap is not looked at.
TakeLine ==
    /\ Available # <<>> /\ ~Unended
    /\ \E upto \in DOMAIN Available :
        /\ Available[upto] = LF
        /\ \A before \in 1 .. upto - 1 : Available[before] # LF
        /\ consumed' = consumed + upto
        /\ lines' = IF discarding
                    THEN lines
                    ELSE Append(lines, WithoutCR(buf \o SubSeq(Available, 1, upto - 1)))
    /\ buf' = <<>>
    /\ discarding' = FALSE
    /\ UNCHANGED <<source, stream, filled, done>>

\* Mutant: the cap is only looked at when the line is complete.
TakePartUncapped ==
    /\ Available # <<>> /\ Unended
    /\ consumed' = filled
    /\ buf' = buf \o Available
    /\ UNCHANGED <<source, stream, filled, discarding, lines, done>>

\* There is none: keep the part, unless the line has grown over the cap.
TakePart ==
    /\ Available # <<>> /\ Unended
    /\ consumed' = filled
    /\ LET grown == IF discarding THEN buf ELSE buf \o Available
       IN  IF Len(grown) > MAX_EVENT_LINE_BYTES
           THEN buf' = <<>> /\ discarding' = TRUE
           ELSE buf' = grown /\ UNCHANGED discarding
    /\ UNCHANGED <<source, stream, filled, lines, done>>

\* EOF, which only stdout has: what is left is a line, CR and all.
EndOfFile ==
    /\ source = "stdout"
    /\ ~done
    /\ consumed = Len(stream)
    /\ discarding' = FALSE
    /\ buf' = <<>>
    /\ lines' = IF buf = <<>> THEN lines ELSE Append(lines, buf)
    /\ done' = (buf = <<>>)
    /\ UNCHANGED <<source, stream, consumed, filled>>

\* Mutant: the drain waits for an EOF of the FIFO as well.
QuietForStdout ==
    /\ source = "stdout"
    /\ ~done
    /\ consumed = Len(stream)
    /\ done' = TRUE
    /\ UNCHANGED <<source, stream, consumed, filled, buf, discarding, lines>>

\* drain_lines gives up on a stream that stays quiet: the engine is gone, and what it
\* wrote is there to be read.
Quiet ==
    /\ ~done
    /\ consumed = Len(stream)
    /\ done' = TRUE
    /\ UNCHANGED <<source, stream, consumed, filled, buf, discarding, lines>>

Init ==
    /\ source \in {"fifo", "stdout"}
    /\ stream \in SeqOf(Bytes, MaxBytes)
    /\ consumed = 0 /\ filled = 0
    /\ buf = <<>> /\ discarding = FALSE
    /\ lines = <<>>
    /\ done = FALSE

Next == FillBuf \/ TakeLine \/ TakePart \/ EndOfFile \/ Quiet

Fairness ==
    WF_vars(FillBuf) /\ WF_vars(TakeLine) /\ WF_vars(TakePart) /\ WF_vars(Quiet)

Spec == Init /\ [][Next]_vars /\ Fairness
-----------------------------------------------------------------------------
\* Mutant: the sentinel counts wherever it stands in the line.
ParsesAnywhere(line) ==
    /\ Len(line) <= MAX_EVENT_LINE_BYTES
    /\ Contains(line, Event)

\* parse_event_line: an event is a line of nothing else, but for CRs that trail it.
Parses(line) ==
    /\ Len(line) <= MAX_EVENT_LINE_BYTES
    /\ line # <<>> /\ line[1] = Event
    /\ \A i \in 2 .. Len(line) : line[i] = CR

\* A text is cut at every LF; the last piece has none.
Cuts(text) == {i \in DOMAIN text : text[i] = LF}
Rest(text) == Len(text) + 1
Begin(text, cut) == Max({0} \cup {i \in Cuts(text) : i < cut})
Piece(text, cut) == SubSeq(text, Begin(text, cut) + 1, cut - 1)
Line(text, cut) == IF cut = Rest(text) THEN Piece(text, cut) ELSE WithoutCR(Piece(text, cut))

\* `handed' is the pieces of `text' that end at `kept', in order.
AreLines(handed, text, kept) ==
    /\ Len(handed) = Cardinality(kept)
    /\ \A cut \in kept : handed[Cardinality({c \in kept : c <= cut})] = Line(text, cut)

ReadSoFar == {i \in Cuts(stream) : i <= consumed}
Unterminated == Piece(stream, Rest(stream))

\* However long a line the engine writes, between two reads no more than the cap is
\* kept of it.
TypeOK ==
    /\ Len(buf) <= MAX_EVENT_LINE_BYTES
    /\ \A i \in DOMAIN lines : Len(lines[i]) <= MAX_EVENT_LINE_BYTES + BufSize
    /\ consumed <= filled /\ filled <= Len(stream)
    /\ discarding \in BOOLEAN /\ done \in BOOLEAN

\* However the stream is cut into reads, a line is handed over whole and once, in
\* order, or not at all, and then only because it is longer than the cap.  Only EOF
\* makes a line of an unterminated rest.
LinesWhole ==
    \E kept \in SUBSET (ReadSoFar \cup {Rest(stream)}) :
        /\ AreLines(lines, stream, kept)
        /\ \A cut \in ReadSoFar \ kept : Len(Piece(stream, cut)) > MAX_EVENT_LINE_BYTES
        /\ Rest(stream) \in kept =>
              source = "stdout" /\ consumed = Len(stream) /\ Unterminated # <<>>

\* Which lines are events does not depend on the reads: every event the engine ended
\* with LF or CRLF is seen, and nothing else is, the rest of a dropped line and an
\* event behind other text among it.
EventsExact ==
    LET seen == {i \in DOMAIN lines : Parses(lines[i])}
        sent == {cut \in ReadSoFar : Piece(stream, cut) \in {<<Event>>, <<Event, CR>>}}
        might == {cut \in ReadSoFar :
                     LET piece == Piece(stream, cut)
                     IN  piece # <<>> /\ piece[1] = Event /\ \A i \in 2 .. Len(piece) : piece[i] = CR}
        rest == IF source = "stdout" /\ Event \in ToSet(Unterminated) THEN 1 ELSE 0
    IN  /\ Cardinality(sent) <= Cardinality(seen)
        /\ Cardinality(seen) <= Cardinality(might) + rest

\* Whatever is on the stream when the engine exits, the drain ends, and by then every
\* line that is no longer than the cap was handed over.
Drained ==
    <>(done /\ consumed = Len(stream))
=============================================================================
