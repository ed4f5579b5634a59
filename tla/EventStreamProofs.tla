------------------------- MODULE EventStreamProofs -------------------------
(***************************************************************************)
(* Proofs about the line reader, for any cap, any buffer and any stream,   *)
(* cut into reads in any way: what it keeps of a line between two reads is *)
(* within the cap, it hands over the lines that were written, whole, once  *)
(* and in order, but for those over the cap, and which of them are events  *)
(* does not depend on the reads.                                           *)
(*                                                                         *)
(* The invariant says where the reader is (InPlace): which pieces of the   *)
(* stream the lines are, and that it holds just what it has read of the    *)
(* piece that is begun, or has dropped it, and then it is over the cap.    *)
(***************************************************************************)
EXTENDS EventStream, SequenceTheorems, FiniteSetTheorems, WellFoundedInduction, TLAPS

Short == {line \in Seq(Bytes) : Len(line) <= MAX_EVENT_LINE_BYTES + BufSize}

\* What was read and not yet consumed is what the BufReader holds.
Progress ==
    /\ stream \in Seq(Bytes)
    /\ consumed \in Nat /\ filled \in Nat
    /\ consumed <= filled /\ filled <= Len(stream) /\ filled - consumed <= BufSize

Memory ==
    /\ buf \in Seq(Bytes) /\ Len(buf) <= MAX_EVENT_LINE_BYTES
    /\ lines \in Seq(Short)

Flags == discarding \in BOOLEAN /\ done \in BOOLEAN

IInv == Progress /\ Memory /\ Flags

LEMMA Sizes ==
    MAX_EVENT_LINE_BYTES \in Nat /\ BufSize \in Nat /\ BufSize <= MAX_EVENT_LINE_BYTES
  BY EventStreamAssumption

LEMMA Start == Init => IInv
  <1> SUFFICES ASSUME Init PROVE IInv
    OBVIOUS
  <1>1. Progress
    <2>1. stream \in Seq(Bytes)
      BY DEF Init, SeqOf
    <2>2. Len(stream) \in Nat
      BY <2>1
    <2>3. consumed = 0 /\ filled = 0
      BY DEF Init
    <2> QED BY <2>1, <2>2, <2>3, Sizes DEF Progress
  <1>2. Memory
    <2>1. buf = <<>> /\ lines = <<>>
      BY DEF Init
    <2> QED BY <2>1, Sizes DEF Memory
  <1>3. Flags
    BY DEF Init, Flags
  <1> QED BY <1>1, <1>2, <1>3 DEF IInv

LEMMA Unread ==
    ASSUME Progress
    PROVE  /\ Available \in Seq(Bytes)
           /\ Len(Available) = filled - consumed
           /\ Len(Available) \in 0 .. BufSize
  <1>1. /\ consumed + 1 \in 1 .. Len(stream) + 1 /\ filled \in consumed .. Len(stream)
        /\ filled <= Len(stream)
    BY DEF Progress
  <1>2. \A i \in consumed + 1 .. filled : stream[i] \in Bytes
    BY <1>1 DEF Progress
  <1>3. Available \in Seq(Bytes) /\ Len(Available) = filled - consumed
    BY <1>1, <1>2, SubSeqProperties DEF Progress, Available
  <1> QED BY <1>3, Sizes DEF Progress

\* A line without its CR is no longer than with it.
LEMMA Stripped ==
    ASSUME NEW line \in Seq(Bytes)
    PROVE  WithoutCR(line) \in Seq(Bytes) /\ Len(WithoutCR(line)) <= Len(line)
  <1>1. CASE line = <<>>
    BY <1>1 DEF WithoutCR
  <1>2. CASE line # <<>>
    <2> DEFINE front == SubSeq(line, 1, Len(line) - 1)
    <2>1. Len(line) \in Nat \ {0} /\ \A i \in 1 .. Len(line) - 1 : line[i] \in Bytes
      BY <1>2
    <2>2. front \in Seq(Bytes) /\ Len(front) <= Len(line)
      BY <2>1, SubSeqProperties
    <2>3. WithoutCR(line) \in {line, front}
      BY DEF WithoutCR, Front
    <2> QED BY <2>1, <2>2, <2>3
  <1> QED BY <1>1, <1>2

\* The counters after a read and after a line was taken.
LEMMA Moved ==
    ASSUME NEW c \in Nat, NEW f \in Nat, NEW n \in Nat, NEW size \in Nat,
           c <= f, f <= n, f - c <= size
    PROVE  /\ \A g \in f + 1 .. f + size :
                  f = c /\ g <= n => g \in Nat /\ c <= g /\ g - c <= size
           /\ \A upto \in 1 .. f - c :
                  c + upto \in Nat /\ c + upto <= f /\ f - (c + upto) <= size
  OBVIOUS

LEMMA Reads == IInv /\ FillBuf => IInv'
  <1> SUFFICES ASSUME IInv, FillBuf PROVE IInv'
    OBVIOUS
  <1>1. /\ filled = consumed /\ filled' \in filled + 1 .. filled + BufSize
        /\ filled' <= Len(stream) /\ stream' = stream /\ consumed' = consumed
    BY DEF FillBuf
  <1>2. Progress'
    <2>1. /\ consumed \in Nat /\ filled \in Nat /\ Len(stream) \in Nat
          /\ consumed <= filled /\ filled <= Len(stream) /\ filled - consumed <= BufSize
      BY DEF IInv, Progress
    <2>2. filled' \in Nat /\ consumed <= filled' /\ filled' - consumed <= BufSize
      BY <1>1, <2>1, Moved, Sizes
    <2> QED BY <1>1, <2>1, <2>2 DEF IInv, Progress
  <1> QED BY <1>2 DEF IInv, Memory, Flags, FillBuf

LEMMA CompletesLine == IInv /\ TakeLine => IInv'
  <1> SUFFICES ASSUME IInv, TakeLine PROVE IInv'
    OBVIOUS
  <1>1. PICK upto \in DOMAIN Available :
           /\ consumed' = consumed + upto
           /\ lines' = IF discarding
                       THEN lines
                       ELSE Append(lines, WithoutCR(buf \o SubSeq(Available, 1, upto - 1)))
    BY DEF TakeLine
  <1> DEFINE part == SubSeq(Available, 1, upto - 1)
  <1>2. /\ Available \in Seq(Bytes) /\ Len(Available) = filled - consumed
        /\ Len(Available) <= BufSize /\ upto \in 1 .. Len(Available)
    BY Unread DEF IInv
  <1>3. part \in Seq(Bytes) /\ Len(part) = upto - 1
    <2>1. \A i \in 1 .. upto - 1 : Available[i] \in Bytes
      BY <1>2
    <2>2. upto \in Nat \ {0}
      BY <1>2
    <2> QED BY <2>1, <2>2, SubSeqProperties
  <1>4. Progress'
    <2>1. stream' = stream /\ filled' = filled
      BY DEF TakeLine
    <2>2. /\ consumed \in Nat /\ filled \in Nat /\ Len(stream) \in Nat
          /\ consumed <= filled /\ filled <= Len(stream) /\ filled - consumed <= BufSize
      BY DEF IInv, Progress
    <2>3. consumed' = consumed + upto /\ upto \in 1 .. filled - consumed
      BY <1>1, <1>2
    <2>4. consumed' \in Nat /\ consumed' <= filled /\ filled - consumed' <= BufSize
      BY <2>2, <2>3, Moved, Sizes
    <2> QED BY <2>1, <2>2, <2>4 DEF IInv, Progress
  <1>5. Memory'
    <2>1. buf \o part \in Seq(Bytes) /\ Len(buf \o part) = Len(buf) + Len(part)
      BY <1>3, ConcatProperties DEF IInv, Memory
    <2>2. Len(part) \in Nat /\ Len(part) <= BufSize /\ Len(buf) \in Nat
      BY <1>2, <1>3, Sizes DEF IInv, Memory
    <2>3. Len(buf \o part) <= MAX_EVENT_LINE_BYTES + BufSize
      BY <2>1, <2>2, Sizes DEF IInv, Memory
    <2>4. /\ WithoutCR(buf \o part) \in Seq(Bytes)
          /\ Len(WithoutCR(buf \o part)) <= Len(buf \o part)
      BY <2>1, Stripped
    <2>5. WithoutCR(buf \o part) \in Short
      <3> HIDE DEF part
      <3> QED BY <2>1, <2>3, <2>4, Sizes DEF Short
    <2>6. lines' \in {lines, Append(lines, WithoutCR(buf \o part))}
      BY <1>1
    <2>7. lines' \in Seq(Short)
      BY <2>5, <2>6, AppendProperties DEF IInv, Memory
    <2>8. buf' = <<>>
      BY DEF TakeLine
    <2> QED BY <2>7, <2>8, Sizes DEF Memory
  <1>6. Flags'
    BY DEF IInv, Flags, TakeLine
  <1> QED BY <1>4, <1>5, <1>6 DEF IInv

LEMMA KeepsPart == IInv /\ TakePart => IInv'
  <1> SUFFICES ASSUME IInv, TakePart PROVE IInv'
    OBVIOUS
  <1> DEFINE grown == IF discarding THEN buf ELSE buf \o Available
  <1>1. Progress'
    <2>1. stream' = stream /\ filled' = filled /\ consumed' = filled
      BY DEF TakePart
    <2> QED BY <2>1, Sizes DEF IInv, Progress
  <1>2. Memory'
    <2>1. grown \in Seq(Bytes)
      BY Unread, ConcatProperties DEF IInv, Memory
    <2>2. CASE Len(grown) > MAX_EVENT_LINE_BYTES
      <3>1. buf' = <<>> /\ lines' = lines
        BY <2>2 DEF TakePart
      <3> QED BY <3>1, Sizes DEF IInv, Memory
    <2>3. CASE ~(Len(grown) > MAX_EVENT_LINE_BYTES)
      <3>1. buf' = grown /\ lines' = lines
        BY <2>3 DEF TakePart
      <3>2. Len(grown) <= MAX_EVENT_LINE_BYTES
        <4> HIDE DEF grown
        <4> QED BY <2>1, <2>3, Sizes
      <3> HIDE DEF grown
      <3> QED BY <3>1, <3>2, <2>1 DEF IInv, Memory
    <2> QED BY <2>2, <2>3
  <1>3. Flags'
    BY DEF IInv, Flags, TakePart
  <1> QED BY <1>1, <1>2, <1>3 DEF IInv

LEMMA Closes == IInv /\ (EndOfFile \/ Quiet) => IInv'
  <1> SUFFICES ASSUME IInv, EndOfFile \/ Quiet PROVE IInv'
    OBVIOUS
  <1>1. stream' = stream /\ filled' = filled /\ consumed' = consumed
    BY DEF EndOfFile, Quiet
  <1>2. Progress'
    BY <1>1 DEF IInv, Progress
  <1>3. Memory'
    <2>1. buf \in Short
      BY Sizes DEF IInv, Memory, Short
    <2>2. buf' \in {buf, <<>>} /\ lines' \in {lines, Append(lines, buf)}
      BY DEF EndOfFile, Quiet
    <2>3. lines' \in Seq(Short)
      BY <2>1, <2>2, AppendProperties DEF IInv, Memory
    <2>4. CASE buf' = buf
      BY <2>3, <2>4 DEF IInv, Memory
    <2>5. CASE buf' = <<>>
      BY <2>3, <2>5, Sizes DEF Memory
    <2> QED BY <2>2, <2>4, <2>5
  <1>4. Flags'
    BY DEF IInv, Flags, EndOfFile, Quiet
  <1> QED BY <1>2, <1>3, <1>4 DEF IInv

LEMMA Inductive == Spec => []IInv
  <1>1. IInv /\ [Next]_vars => IInv'
    <2>1. IInv /\ UNCHANGED vars => IInv'
      BY DEF IInv, Progress, Memory, Flags, vars
    <2> QED BY <2>1, Reads, CompletesLine, KeepsPart, Closes DEF Next
  <1> QED BY <1>1, Start, PTL DEF Spec

\* However long a line the engine writes and however it is cut into reads, next_line
\* keeps no more than the cap of it between two reads, and hands over no more than
\* the cap and one buffer (TypeOK).
THEOREM MemoryBounded == Spec => []TypeOK
  <1>1. IInv => TypeOK
    BY DEF IInv, Progress, Memory, Flags, TypeOK, Short
  <1> QED BY <1>1, Inductive, PTL
-----------------------------------------------------------------------------
\* Where a text is cut.
LEMMA Least ==
    ASSUME NEW S \in SUBSET Nat, S # {}
    PROVE  \E m \in S : \A k \in S : m <= k
  <1> DEFINE R == OpToRel(<, Nat)
  <1>1. R = {ss \in Nat \X Nat : ss[1] < ss[2]}
    BY DEF OpToRel
  <1> HIDE DEF R
  <1>2. \E x \in S : \A y \in S : ~ (<<y, x>> \in R)
    <2>1. IsWellFoundedOn(R, Nat)
      BY NatLessThanWellFounded DEF R
    <2> QED BY <2>1, WFMin
  <1>3. PICK x \in S : \A y \in S : ~ (<<y, x>> \in R)
    BY <1>2
  <1>4. ASSUME NEW y \in S PROVE x <= y
    <2>1. ~ (<<y, x>> \in R) /\ y \in Nat /\ x \in Nat
      BY <1>3
    <2>2. <<y, x>> \in Nat \X Nat /\ <<y, x>>[1] = y /\ <<y, x>>[2] = x
      BY <2>1
    <2>3. ~ (y < x)
      BY <1>1, <2>1, <2>2
    <2> QED BY <2>1, <2>3
  <1> QED BY <1>4

LEMMA Greatest ==
    ASSUME NEW n \in Nat, NEW S \in SUBSET (0..n), S # {}
    PROVE  Max(S) \in S /\ \A x \in S : x <= Max(S)
  <1> DEFINE D == {k \in Nat : \E x \in S : k = n - x}
  <1>1. D \in SUBSET Nat /\ D # {}
    <2>1. PICK x \in S : TRUE
      OBVIOUS
    <2>2. n - x \in Nat
      BY <2>1
    <2> QED BY <2>2
  <1>2. PICK m \in D : \A k \in D : m <= k
    BY <1>1, Least
  <1>3. PICK x \in S : m = n - x
    BY <1>2
  <1>4. ASSUME NEW y \in S PROVE y <= x
    <2>1. n - y \in D
      OBVIOUS
    <2> QED BY <1>2, <1>3, <2>1
  <1>5. \E z \in S : \A y \in S : z >= y
    BY <1>4
  <1> QED BY <1>5 DEF Max

LEMMA BeginOf ==
    ASSUME NEW text \in Seq(Bytes), NEW cut \in 1 .. Len(text) + 1
    PROVE  /\ Begin(text, cut) \in 0 .. cut - 1
           /\ Begin(text, cut) = 0 \/ Begin(text, cut) \in Cuts(text)
           /\ \A i \in Cuts(text) : i < cut => i <= Begin(text, cut)
  <1> DEFINE S == {0} \cup {i \in Cuts(text) : i < cut}
  <1>1. Len(text) \in Nat /\ DOMAIN text = 1 .. Len(text)
    OBVIOUS
  <1>2. \A i \in Cuts(text) : i \in 1 .. Len(text)
    BY <1>1 DEF Cuts
  <1>3. cut - 1 \in Nat /\ S \in SUBSET (0 .. cut - 1) /\ S # {}
    BY <1>1, <1>2
  <1>4. Max(S) \in S /\ \A x \in S : x <= Max(S)
    BY <1>3, Greatest
  <1>5. Begin(text, cut) = Max(S)
    BY DEF Begin
  <1> QED BY <1>3, <1>4, <1>5

\* The only such place.
LEMMA BeginIs ==
    ASSUME NEW text \in Seq(Bytes), NEW cut \in 1 .. Len(text) + 1, NEW b \in 0 .. cut - 1,
           b = 0 \/ b \in Cuts(text), \A i \in Cuts(text) : i < cut => i <= b
    PROVE  Begin(text, cut) = b
  <1> DEFINE d == Begin(text, cut)
  <1>1. /\ d \in 0 .. cut - 1
        /\ d = 0 \/ d \in Cuts(text)
        /\ \A i \in Cuts(text) : i < cut => i <= d
    BY BeginOf
  <1> HIDE DEF d
  <1>2. Len(text) \in Nat
    OBVIOUS
  <1>3. d <= b
    BY <1>1, <1>2
  <1>4. b <= d
    BY <1>1, <1>2
  <1>5. d \in Int /\ b \in Int
    BY <1>1, <1>2
  <1>6. d = b
    BY <1>3, <1>4, <1>5
  <1> QED BY <1>6 DEF d

LEMMA PieceOf ==
    ASSUME NEW text \in Seq(Bytes), NEW cut \in 1 .. Len(text) + 1
    PROVE  /\ Piece(text, cut) \in Seq(Bytes)
           /\ Len(Piece(text, cut)) = cut - 1 - Begin(text, cut)
           /\ \A i \in 1 .. cut - 1 - Begin(text, cut) : Piece(text, cut)[i] = text[Begin(text, cut) + i]
  <1> DEFINE b == Begin(text, cut)
  <1>1. b \in 0 .. cut - 1
    BY BeginOf
  <1>2. Piece(text, cut) = SubSeq(text, b + 1, cut - 1)
    BY DEF Piece
  <1> HIDE DEF b
  <1>3. /\ b + 1 \in Int /\ cut - 1 \in Int /\ Len(text) \in Nat
        /\ \A i \in b + 1 .. cut - 1 : text[i] \in Bytes
    BY <1>1
  <1> DEFINE p == SubSeq(text, b + 1, cut - 1)
  <1>4. /\ p \in Seq(Bytes)
        /\ Len(p) = IF b + 1 <= cut - 1 THEN (cut - 1) - (b + 1) + 1 ELSE 0
        /\ \A i \in 1 .. (cut - 1) - (b + 1) + 1 : p[i] = text[b + 1 + i - 1]
    BY <1>3, SubSeqProperties
  <1> HIDE DEF p
  <1>5. Len(p) = cut - 1 - b
    BY <1>1, <1>3, <1>4
  <1>6. ASSUME NEW i \in 1 .. cut - 1 - b PROVE p[i] = text[b + i]
    <2>1. i \in 1 .. (cut - 1) - (b + 1) + 1 /\ b + 1 + i - 1 = b + i
      BY <1>1, <1>3
    <2> QED BY <1>4, <2>1
  <1> QED BY <1>2, <1>4, <1>5, <1>6 DEF b, p

\* What the text holds after k, up to j.
LEMMA Stretch ==
    ASSUME NEW text \in Seq(Bytes), NEW k \in 0 .. Len(text), NEW j \in k .. Len(text)
    PROVE  /\ SubSeq(text, k + 1, j) \in Seq(Bytes)
           /\ Len(SubSeq(text, k + 1, j)) = j - k
           /\ \A i \in 1 .. j - k : SubSeq(text, k + 1, j)[i] = text[k + i]
  <1> DEFINE p == SubSeq(text, k + 1, j)
  <1>1. /\ k + 1 \in Int /\ j \in Int /\ Len(text) \in Nat /\ k \in Nat /\ k <= j
        /\ \A i \in k + 1 .. j : text[i] \in Bytes
    OBVIOUS
  <1>2. /\ p \in Seq(Bytes)
        /\ Len(p) = IF k + 1 <= j THEN j - (k + 1) + 1 ELSE 0
        /\ \A i \in 1 .. j - (k + 1) + 1 : p[i] = text[k + 1 + i - 1]
    BY <1>1, SubSeqProperties
  <1> HIDE DEF p
  <1>3. Len(p) = j - k
    BY <1>1, <1>2
  <1>4. ASSUME NEW i \in 1 .. j - k PROVE p[i] = text[k + i]
    <2>1. i \in 1 .. j - (k + 1) + 1 /\ k + 1 + i - 1 = k + i
      BY <1>1
    <2> QED BY <1>2, <2>1
  <1> QED BY <1>2, <1>3, <1>4 DEF p

\* Without an LF the piece that was begun grows.
LEMMA Grows ==
    ASSUME NEW text \in Seq(Bytes), NEW k \in 0 .. Len(text), NEW j \in k .. Len(text),
           \A i \in Cuts(text) : ~(k < i /\ i <= j)
    PROVE  Piece(text, j + 1) = Piece(text, k + 1) \o SubSeq(text, k + 1, j)
  <1> DEFINE b == Begin(text, k + 1)
             s == Piece(text, k + 1)
             t == SubSeq(text, k + 1, j)
             p == Piece(text, j + 1)
  <1>1. Len(text) \in Nat /\ k \in Nat /\ j \in Nat /\ k <= j /\ k <= Len(text) /\ j <= Len(text)
    OBVIOUS
  <1>2. k + 1 \in 1 .. Len(text) + 1 /\ j + 1 \in 1 .. Len(text) + 1
    BY <1>1
  <1>3. /\ b \in 0 .. k
        /\ b = 0 \/ b \in Cuts(text)
        /\ \A i \in Cuts(text) : i < k + 1 => i <= b
    <2>1. b \in 0 .. (k + 1) - 1
      BY <1>2, BeginOf
    <2>2. (k + 1) - 1 = k
      BY <1>1
    <2> QED BY <1>2, <2>1, <2>2, BeginOf
  <1> HIDE DEF b
  <1>4. \A i \in Cuts(text) : i \in Nat
    <2>1. DOMAIN text = 1 .. Len(text)
      OBVIOUS
    <2> QED BY <1>1, <2>1 DEF Cuts
  <1>5. Begin(text, j + 1) = b
    <2>1. b \in 0 .. (j + 1) - 1
      BY <1>1, <1>3
    <2>2. ASSUME NEW i \in Cuts(text), i < j + 1 PROVE i <= b
      BY <1>1, <1>3, <1>4, <2>2
    <2> QED BY <1>2, <1>3, <2>1, <2>2, BeginIs
  <1>6. /\ s \in Seq(Bytes) /\ Len(s) = k - b
        /\ \A i \in 1 .. k - b : s[i] = text[b + i]
    <2>1. (k + 1) - 1 - b = k - b
      BY <1>1, <1>3
    <2> QED BY <1>2, <2>1, PieceOf DEF b
  <1>7. /\ p \in Seq(Bytes) /\ Len(p) = j - b
        /\ \A i \in 1 .. j - b : p[i] = text[b + i]
    <2>1. (j + 1) - 1 - b = j - b
      BY <1>1, <1>3
    <2> QED BY <1>2, <1>5, <2>1, PieceOf
  <1>8. t \in Seq(Bytes) /\ Len(t) = j - k /\ \A i \in 1 .. j - k : t[i] = text[k + i]
    BY Stretch
  <1> HIDE DEF s, t, p
  <1>9. /\ s \o t \in Seq(Bytes) /\ Len(s \o t) = Len(s) + Len(t)
        /\ \A i \in 1 .. Len(s) + Len(t) :
              (s \o t)[i] = IF i <= Len(s) THEN s[i] ELSE t[i - Len(s)]
    BY <1>6, <1>8, ConcatProperties
  <1>10. Len(s \o t) = Len(p)
    BY <1>1, <1>3, <1>6, <1>7, <1>8, <1>9
  <1>11. ASSUME NEW i \in 1 .. Len(p) PROVE p[i] = (s \o t)[i]
    <2>1. i \in 1 .. j - b /\ i \in 1 .. Len(s) + Len(t) /\ i \in Nat
      BY <1>1, <1>3, <1>6, <1>7, <1>8
    <2>2. p[i] = text[b + i]
      BY <1>7, <2>1
    <2>3. CASE i <= k - b
      <3>1. i \in 1 .. k - b
        BY <1>1, <1>3, <2>1, <2>3
      <3>2. (s \o t)[i] = s[i]
        BY <1>6, <1>9, <2>1, <2>3
      <3>3. s[i] = text[b + i]
        BY <1>6, <3>1
      <3> QED BY <2>2, <3>2, <3>3
    <2>4. CASE ~(i <= k - b)
      <3>1. i - (k - b) \in 1 .. j - k /\ k + (i - (k - b)) = b + i
        BY <1>1, <1>3, <2>1, <2>4
      <3>2. (s \o t)[i] = t[i - (k - b)]
        BY <1>6, <1>9, <2>1, <2>4
      <3>3. t[i - (k - b)] = text[k + (i - (k - b))]
        BY <1>8, <3>1
      <3> QED BY <2>2, <3>1, <3>2, <3>3
    <2> QED BY <2>3, <2>4
  <1>12. p = s \o t
    BY <1>7, <1>9, <1>10, <1>11, SeqEqual
  <1> QED BY <1>12 DEF p, s, t

\* After an LF a piece is begun.
LEMMA Begins ==
    ASSUME NEW text \in Seq(Bytes), NEW cut \in Cuts(text)
    PROVE  /\ cut \in 1 .. Len(text) /\ Piece(text, cut + 1) = <<>>
  <1>1. cut \in 1 .. Len(text) /\ Len(text) \in Nat
    <2>1. DOMAIN text = 1 .. Len(text)
      OBVIOUS
    <2> QED BY <2>1 DEF Cuts
  <1>2. cut + 1 \in 1 .. Len(text) + 1 /\ cut \in 0 .. (cut + 1) - 1
    BY <1>1
  <1>3. \A i \in Cuts(text) : i < cut + 1 => i <= cut
    <2>1. DOMAIN text = 1 .. Len(text)
      OBVIOUS
    <2>2. \A i \in Cuts(text) : i \in Nat
      BY <2>1 DEF Cuts
    <2> QED BY <1>1, <2>2
  <1>4. Begin(text, cut + 1) = cut
    BY <1>2, <1>3, BeginIs
  <1>5. Piece(text, cut + 1) \in Seq(Bytes) /\ Len(Piece(text, cut + 1)) = (cut + 1) - 1 - cut
    BY <1>2, <1>4, PieceOf
  <1>6. (cut + 1) - 1 - cut = 0
    BY <1>1
  <1> QED BY <1>1, <1>5, <1>6, EmptySeq

LEMMA LineOf ==
    ASSUME NEW text \in Seq(Bytes), NEW cut \in 1 .. Len(text) + 1
    PROVE  Line(text, cut) \in Seq(Bytes)
  <1>1. Piece(text, cut) \in Seq(Bytes)
    BY PieceOf
  <1> QED BY <1>1, Stripped DEF Line

-----------------------------------------------------------------------------
\* How many of the cuts lie up to one of them: the number of its line.
Place(kept, cut) == Cardinality({c \in kept : c <= cut})

LEMMA Placing ==
    ASSUME NEW kept \in SUBSET Nat, IsFiniteSet(kept)
    PROVE  /\ Cardinality(kept) \in Nat
           /\ \A cut \in kept : Place(kept, cut) \in 1 .. Cardinality(kept)
           /\ \A a, b \in kept : a < b => Place(kept, a) < Place(kept, b)
  <1> DEFINE upto(cut) == {c \in kept : c <= cut}
  <1>1. Cardinality(kept) \in Nat
    BY FS_CardinalityType
  <1>2. ASSUME NEW cut \in kept
        PROVE  /\ IsFiniteSet(upto(cut)) /\ Cardinality(upto(cut)) \in Nat
               /\ Cardinality(upto(cut)) <= Cardinality(kept)
    <2>1. upto(cut) \in SUBSET kept
      OBVIOUS
    <2> HIDE DEF upto
    <2> QED BY <2>1, FS_Subset, FS_CardinalityType
  <1>3. ASSUME NEW cut \in kept PROVE Place(kept, cut) \in 1 .. Cardinality(kept)
    <2>1. upto(cut) # {}
      OBVIOUS
    <2> HIDE DEF upto
    <2>2. Cardinality(upto(cut)) # 0
      BY <1>2, <2>1, FS_EmptySet
    <2> QED BY <1>1, <1>2, <2>2 DEF Place, upto
  <1>4. ASSUME NEW a \in kept, NEW b \in kept, a < b PROVE Place(kept, a) < Place(kept, b)
    <2>1. upto(a) \in SUBSET upto(b) /\ b \in upto(b) /\ b \notin upto(a)
      <3>1. a \in Nat /\ b \in Nat
        OBVIOUS
      <3>2. ASSUME NEW c \in kept, c <= a PROVE c <= b
        <4>1. c \in Nat
          OBVIOUS
        <4> QED BY <1>4, <3>1, <3>2, <4>1
      <3>3. b <= b /\ ~(b <= a)
        BY <1>4, <3>1
      <3> QED BY <3>2, <3>3
    <2> HIDE DEF upto
    <2>2. Cardinality(upto(a)) <= Cardinality(upto(b)) /\ Cardinality(upto(a)) # Cardinality(upto(b))
      BY <1>2, <2>1, FS_Subset
    <2>3. Cardinality(upto(a)) \in Nat /\ Cardinality(upto(b)) \in Nat
      BY <1>2
    <2> QED BY <2>2, <2>3 DEF Place, upto
  <1> QED BY <1>1, <1>3, <1>4

\* One more line, of a later piece.
LEMMA OneMore ==
    ASSUME NEW T, NEW handed \in Seq(T), NEW text, NEW kept \in SUBSET Nat, IsFiniteSet(kept),
           NEW x \in Nat, \A c \in kept : c < x, AreLines(handed, text, kept), Line(text, x) \in T
    PROVE  AreLines(Append(handed, Line(text, x)), text, kept \cup {x})
  <1> DEFINE more == kept \cup {x}
             line == Line(text, x)
             n == Cardinality(kept)
  <1>1. /\ Append(handed, line) \in Seq(T) /\ Len(Append(handed, line)) = Len(handed) + 1
        /\ \A i \in 1 .. Len(handed) : Append(handed, line)[i] = handed[i]
        /\ Append(handed, line)[Len(handed) + 1] = line
    BY AppendProperties
  <1>2. n \in Nat /\ Len(handed) = n /\ \A c \in kept : Place(kept, c) \in 1 .. n
    BY Placing DEF AreLines
  <1>3. x \notin kept
    <2>1. ~(x < x)
      OBVIOUS
    <2> QED BY <2>1
  <1>4. Cardinality(more) = n + 1
    BY <1>3, FS_AddElement
  <1>5. Place(more, x) = n + 1
    <2>1. {c \in more : c <= x} = more
      <3>1. \A c \in kept : c <= x
        OBVIOUS
      <3>2. x <= x
        OBVIOUS
      <3> QED BY <3>1, <3>2
    <2> QED BY <1>4, <2>1 DEF Place
  <1>6. ASSUME NEW cut \in kept PROVE Place(more, cut) = Place(kept, cut)
    <2>1. {c \in more : c <= cut} = {c \in kept : c <= cut}
      <3>1. ~(x <= cut)
        OBVIOUS
      <3> QED BY <3>1
    <2> QED BY <2>1 DEF Place
  <1>7. ASSUME NEW cut \in more PROVE Append(handed, line)[Place(more, cut)] = Line(text, cut)
    <2>1. CASE cut = x
      BY <1>1, <1>2, <1>5, <2>1
    <2>2. CASE cut \in kept
      <3>1. handed[Place(kept, cut)] = Line(text, cut)
        BY <2>2 DEF AreLines, Place
      <3> QED BY <1>1, <1>2, <1>6, <2>2, <3>1
    <2> QED BY <1>7, <2>1, <2>2
  <1> QED BY <1>1, <1>2, <1>4, <1>7 DEF AreLines, Place

-----------------------------------------------------------------------------
\* Where the reader is: it has handed over the lines that end at `kept', left out only
\* lines over the cap, and holds what it has read of the next one.  When it has dropped
\* that, it is over the cap by now, and after EOF there is no next one.
ReadIn(text, upto) == {i \in Cuts(text) : i <= upto}

Settled(text, upto, handed, kept) ==
    /\ kept \subseteq ReadIn(text, upto) \cup {Rest(text)}
    /\ AreLines(handed, text, kept)
    /\ \A cut \in ReadIn(text, upto) \ kept : Len(Piece(text, cut)) > MAX_EVENT_LINE_BYTES

Holds(text, upto, part, drops) ==
    \/ ~drops /\ part = Piece(text, upto + 1)
    \/ drops /\ part = <<>> /\ Len(Piece(text, upto + 1)) > MAX_EVENT_LINE_BYTES
    \/ ~drops /\ part = <<>> /\ upto = Len(text)

AtEnd(from, text, upto, part, drops) ==
    /\ from = "stdout" /\ upto = Len(text) /\ Piece(text, Rest(text)) # <<>>
    /\ part = <<>> /\ ~drops

InPlaceWith(from, text, upto, handed, part, drops, kept) ==
    /\ Settled(text, upto, handed, kept)
    /\ IF Rest(text) \in kept
       THEN AtEnd(from, text, upto, part, drops)
       ELSE Holds(text, upto, part, drops)

InPlace ==
    \E kept \in SUBSET (1 .. Len(stream) + 1) :
        InPlaceWith(source, stream, consumed, lines, buf, discarding, kept)

LEMMA InPlaceAtFirst == Init => InPlace
  <1> SUFFICES ASSUME Init PROVE InPlace
    OBVIOUS
  <1>1. /\ consumed = 0 /\ buf = <<>> /\ discarding = FALSE /\ lines = <<>>
        /\ stream \in Seq(Bytes)
    BY Start DEF Init, IInv, Progress
  <1>2. Len(stream) \in Nat /\ DOMAIN stream = 1 .. Len(stream)
    BY <1>1
  <1>3. ReadIn(stream, 0) = {}
    BY <1>2 DEF ReadIn, Cuts
  <1>4. AreLines(<<>>, stream, {})
    BY FS_EmptySet DEF AreLines
  <1>5. Piece(stream, 1) = <<>>
    <2>1. 1 \in 1 .. Len(stream) + 1
      BY <1>2
    <2>2. Begin(stream, 1) \in 0 .. 1 - 1
      BY <1>1, <2>1, BeginOf
    <2>3. Len(Piece(stream, 1)) = 1 - 1 - Begin(stream, 1) /\ Piece(stream, 1) \in Seq(Bytes)
      BY <1>1, <2>1, PieceOf
    <2>4. Len(Piece(stream, 1)) = 0
      BY <2>2, <2>3
    <2> QED BY <2>3, <2>4, EmptySeq
  <1>6. InPlaceWith(source, stream, consumed, lines, buf, discarding, {})
    BY <1>1, <1>3, <1>4, <1>5 DEF InPlaceWith, Settled, Holds
  <1> QED BY <1>6 DEF InPlace

LEMMA Longer ==
    ASSUME NEW T, NEW s \in Seq(T), NEW t \in Seq(T)
    PROVE  Len(s) \in Nat /\ Len(t) \in Nat /\ Len(s) <= Len(s \o t)
  BY ConcatProperties

LEMMA TakesPart ==
    ASSUME IInv, InPlace, TakePart
    PROVE  InPlace'
  <1>1. PICK kept \in SUBSET (1 .. Len(stream) + 1) :
           InPlaceWith(source, stream, consumed, lines, buf, discarding, kept)
    BY DEF InPlace
  <1>2. /\ stream \in Seq(Bytes) /\ Len(stream) \in Nat /\ consumed \in Nat /\ filled \in Nat
        /\ consumed <= filled /\ filled <= Len(stream) /\ buf \in Seq(Bytes)
        /\ discarding \in BOOLEAN
    BY DEF IInv, Progress, Memory, Flags
  <1>3. /\ source' = source /\ stream' = stream /\ lines' = lines /\ consumed' = filled
        /\ Available # <<>> /\ Unended
    BY DEF TakePart
  <1>4. /\ Available = SubSeq(stream, consumed + 1, filled)
        /\ Available \in Seq(Bytes) /\ Len(Available) = filled - consumed
        /\ \A i \in 1 .. filled - consumed : Available[i] = stream[consumed + i]
    <2>1. consumed \in 0 .. Len(stream) /\ filled \in consumed .. Len(stream)
      BY <1>2
    <2> QED BY <1>2, <2>1, Stretch DEF Available
  <1>5. consumed < filled
    <2>1. Len(Available) # 0
      BY <1>3, <1>4, EmptySeq
    <2> QED BY <1>2, <1>4, <2>1
  <1>6. Rest(stream) \notin kept
    BY <1>1, <1>2, <1>5 DEF InPlaceWith, AtEnd
  <1>7. Settled(stream, consumed, lines, kept) /\ Holds(stream, consumed, buf, discarding)
    BY <1>1, <1>6 DEF InPlaceWith
  <1>8. \A i \in Cuts(stream) : ~(consumed < i /\ i <= filled)
    <2> SUFFICES ASSUME NEW i \in Cuts(stream), consumed < i, i <= filled PROVE FALSE
      OBVIOUS
    <2>1. i \in 1 .. Len(stream) /\ stream[i] = LF
      BY <1>2 DEF Cuts
    <2>2. i - consumed \in 1 .. filled - consumed /\ consumed + (i - consumed) = i
      BY <1>2, <2>1
    <2>3. Available[i - consumed] = LF
      BY <1>4, <2>1, <2>2
    <2> QED BY <1>3, <1>4, <2>2, <2>3 DEF Unended, Contains
  <1>9. Piece(stream, filled + 1) = Piece(stream, consumed + 1) \o Available
    <2>1. consumed \in 0 .. Len(stream) /\ filled \in consumed .. Len(stream)
      BY <1>2
    <2> QED BY <1>2, <1>4, <1>8, <2>1, Grows
  <1>10. Piece(stream, consumed + 1) \in Seq(Bytes)
    <2>1. consumed + 1 \in 1 .. Len(stream) + 1
      BY <1>2
    <2> QED BY <1>2, <2>1, PieceOf
  <1>11. Settled(stream, filled, lines, kept)
    <2>1. ReadIn(stream, filled) = ReadIn(stream, consumed)
      <3>1. \A i \in Cuts(stream) : i \in Nat
        BY <1>2 DEF Cuts
      <3>2. \A i \in Cuts(stream) : i <= filled <=> i <= consumed
        BY <1>2, <1>8, <3>1
      <3> QED BY <3>2 DEF ReadIn
    <2> QED BY <1>7, <2>1 DEF Settled
  <1> DEFINE grown == IF discarding THEN buf ELSE buf \o Available
  <1>12. IF Len(grown) > MAX_EVENT_LINE_BYTES
         THEN buf' = <<>> /\ discarding' = TRUE
         ELSE buf' = grown /\ discarding' = discarding
    BY DEF TakePart
  <1>13. Holds(stream, filled, buf', discarding')
    <2>1. CASE ~discarding /\ buf = Piece(stream, consumed + 1)
      <3>1. grown = Piece(stream, filled + 1)
        BY <1>9, <2>1
      <3> HIDE DEF grown
      <3> QED BY <1>12, <2>1, <3>1 DEF Holds
    <2>2. CASE /\ discarding /\ buf = <<>>
               /\ Len(Piece(stream, consumed + 1)) > MAX_EVENT_LINE_BYTES
      <3>1. grown = <<>> /\ ~(Len(grown) > MAX_EVENT_LINE_BYTES)
        BY <2>2, Sizes
      <3> HIDE DEF grown
      <3>2. buf' = <<>> /\ discarding'
        BY <1>12, <2>2, <3>1
      <3>3. Len(Piece(stream, filled + 1)) > MAX_EVENT_LINE_BYTES
        <4> DEFINE p == Piece(stream, consumed + 1)
                   q == Piece(stream, filled + 1)
        <4>1. Len(p) \in Nat /\ Len(q) \in Nat /\ Len(p) <= Len(q)
          <5>1. q \in Seq(Bytes)
            BY <1>4, <1>9, <1>10, ConcatProperties
          <5>2. Len(p) <= Len(q) /\ Len(p) \in Nat
            BY <1>4, <1>9, <1>10, Longer
          <5> HIDE DEF p, q
          <5> QED BY <5>1, <5>2
        <4>2. Len(p) > MAX_EVENT_LINE_BYTES
          BY <2>2
        <4> HIDE DEF p, q
        <4>3. Len(q) > MAX_EVENT_LINE_BYTES
          BY <4>1, <4>2, Sizes
        <4> QED BY <4>3 DEF q
      <3> QED BY <3>2, <3>3 DEF Holds
    <2>3. consumed # Len(stream)
      BY <1>2, <1>5
    <2> QED BY <1>7, <2>1, <2>2, <2>3 DEF Holds
  <1>14. InPlaceWith(source', stream', consumed', lines', buf', discarding', kept)
    BY <1>3, <1>6, <1>11, <1>13 DEF InPlaceWith
  <1>15. kept \in SUBSET (1 .. Len(stream') + 1)
    BY <1>3
  <1> QED BY <1>14, <1>15 DEF InPlace

\* Lines are sequences of bytes.
LEMMA LinesOfBytes ==
    ASSUME IInv
    PROVE  lines \in Seq(Seq(Bytes)) /\ Len(lines) \in Nat
  <1>1. lines \in Seq(Short)
    BY DEF IInv, Memory
  <1>2. Short \subseteq Seq(Bytes)
    BY DEF Short
  <1>3. lines \in Seq(Seq(Bytes))
    BY <1>1, <1>2, SeqMonotonic
  <1> QED BY <1>3, LenProperties

LEMMA TakesLine ==
    ASSUME IInv, InPlace, TakeLine
    PROVE  InPlace'
  <1>1. PICK kept \in SUBSET (1 .. Len(stream) + 1) :
           InPlaceWith(source, stream, consumed, lines, buf, discarding, kept)
    BY DEF InPlace
  <1>2. /\ stream \in Seq(Bytes) /\ Len(stream) \in Nat /\ consumed \in Nat /\ filled \in Nat
        /\ consumed <= filled /\ filled <= Len(stream) /\ buf \in Seq(Bytes)
        /\ discarding \in BOOLEAN
    BY DEF IInv, Progress, Memory, Flags
  <1>3. PICK upto \in DOMAIN Available :
           /\ Available[upto] = LF
           /\ \A before \in 1 .. upto - 1 : Available[before] # LF
           /\ consumed' = consumed + upto
           /\ lines' = IF discarding
                       THEN lines
                       ELSE Append(lines, WithoutCR(buf \o SubSeq(Available, 1, upto - 1)))
    BY DEF TakeLine
  <1>4. source' = source /\ stream' = stream /\ buf' = <<>> /\ discarding' = FALSE
    BY DEF TakeLine
  <1> DEFINE cut == consumed + upto
             head == SubSeq(Available, 1, upto - 1)
             tail == SubSeq(stream, consumed + 1, cut - 1)
  <1>5. /\ Available \in Seq(Bytes) /\ Len(Available) = filled - consumed
        /\ \A i \in 1 .. filled - consumed : Available[i] = stream[consumed + i]
    <2>1. consumed \in 0 .. Len(stream) /\ filled \in consumed .. Len(stream)
      BY <1>2
    <2> QED BY <1>2, <2>1, Stretch DEF Available
  <1>6. upto \in 1 .. filled - consumed /\ upto \in Nat
    BY <1>2, <1>5
  <1>7. /\ cut \in 1 .. Len(stream) /\ cut \in Nat /\ consumed < cut /\ cut <= filled
        /\ cut - 1 \in consumed .. Len(stream) /\ consumed \in 0 .. Len(stream)
        /\ (cut - 1) + 1 = cut /\ cut - 1 - consumed = upto - 1
    BY <1>2, <1>6
  <1>8. stream[cut] = LF
    BY <1>3, <1>5, <1>6
  <1> HIDE DEF cut
  <1>9. cut \in Cuts(stream)
    BY <1>2, <1>7, <1>8 DEF Cuts
  <1>10. \A i \in Cuts(stream) : i \in 1 .. Len(stream) /\ i \in Nat
    BY <1>2 DEF Cuts
  <1>11. \A i \in Cuts(stream) : ~(consumed < i /\ i <= cut - 1)
    <2> SUFFICES ASSUME NEW i \in Cuts(stream), consumed < i, i <= cut - 1 PROVE FALSE
      OBVIOUS
    <2>1. i \in Nat /\ stream[i] = LF
      BY <1>10 DEF Cuts
    <2>2. i - consumed \in 1 .. upto - 1 /\ consumed + (i - consumed) = i
      BY <1>2, <1>6, <1>7, <2>1
    <2>3. i - consumed \in 1 .. filled - consumed
      BY <1>2, <1>6, <2>2
    <2>4. Available[i - consumed] = LF
      BY <1>5, <2>1, <2>2, <2>3
    <2> QED BY <1>3, <2>2, <2>4
  <1>12. head = tail
    <2>1. /\ tail \in Seq(Bytes) /\ Len(tail) = upto - 1
          /\ \A i \in 1 .. upto - 1 : tail[i] = stream[consumed + i]
      BY <1>2, <1>7, Stretch
    <2>2. /\ head \in Seq(Bytes) /\ Len(head) = upto - 1
          /\ \A i \in 1 .. upto - 1 : head[i] = Available[i]
      <3>1. 0 \in 0 .. Len(Available) /\ upto - 1 \in 0 .. Len(Available)
        BY <1>2, <1>5, <1>6
      <3>2. (upto - 1) - 0 = upto - 1 /\ 0 + 1 = 1
        BY <1>6
      <3>3. \A i \in 1 .. upto - 1 : 0 + i = i
        OBVIOUS
      <3>4. /\ SubSeq(Available, 0 + 1, upto - 1) \in Seq(Bytes)
            /\ Len(SubSeq(Available, 0 + 1, upto - 1)) = (upto - 1) - 0
            /\ \A i \in 1 .. (upto - 1) - 0 : SubSeq(Available, 0 + 1, upto - 1)[i] = Available[0 + i]
        BY <1>5, <3>1, Stretch
      <3> QED BY <3>2, <3>3, <3>4
    <2>3. \A i \in 1 .. upto - 1 : head[i] = tail[i]
      <3> SUFFICES ASSUME NEW i \in 1 .. upto - 1 PROVE head[i] = tail[i]
        OBVIOUS
      <3>1. i \in 1 .. filled - consumed
        BY <1>2, <1>6
      <3> HIDE DEF head, tail
      <3> QED BY <1>5, <2>1, <2>2, <3>1
    <2> HIDE DEF head, tail
    <2> QED BY <2>1, <2>2, <2>3, SeqEqual
  <1>13. Piece(stream, cut) = Piece(stream, consumed + 1) \o head
    BY <1>2, <1>7, <1>11, <1>12, Grows
  <1>14. Piece(stream, cut + 1) = <<>>
    BY <1>2, <1>9, Begins
  <1>15. ReadIn(stream, cut) = ReadIn(stream, consumed) \cup {cut}
    <2>1. \A i \in Cuts(stream) : i <= cut <=> i <= consumed \/ i = cut
      <3> SUFFICES ASSUME NEW i \in Cuts(stream) PROVE i <= cut <=> i <= consumed \/ i = cut
        OBVIOUS
      <3>1. i \in Nat /\ ~(consumed < i /\ i <= cut - 1)
        BY <1>10, <1>11
      <3> QED BY <1>2, <1>7, <3>1
    <2> QED BY <1>9, <2>1 DEF ReadIn
  <1>16. Rest(stream) \notin kept
    BY <1>1, <1>2, <1>7 DEF InPlaceWith, AtEnd
  <1>17. Settled(stream, consumed, lines, kept) /\ Holds(stream, consumed, buf, discarding)
    BY <1>1, <1>16 DEF InPlaceWith
  <1>18. consumed # Len(stream)
    BY <1>2, <1>7
  <1>19. cut # Rest(stream)
    BY <1>2, <1>7 DEF Rest
  <1>20. \A c \in kept : c \in Nat /\ c <= consumed /\ c < cut
    <2> SUFFICES ASSUME NEW c \in kept PROVE c \in Nat /\ c <= consumed /\ c < cut
      OBVIOUS
    <2>1. c \in Cuts(stream) /\ c <= consumed
      BY <1>16, <1>17 DEF Settled, ReadIn
    <2> QED BY <1>2, <1>7, <1>10, <2>1
  <1>21. Holds(stream, cut, buf', discarding')
    BY <1>4, <1>14 DEF Holds
  <1>22. CASE ~discarding
    <2>1. buf = Piece(stream, consumed + 1)
      BY <1>17, <1>18, <1>22 DEF Holds
    <2>2. Line(stream, cut) = WithoutCR(buf \o head)
      BY <1>13, <1>19, <2>1 DEF Line
    <2>3. lines' = Append(lines, Line(stream, cut))
      BY <1>3, <1>22, <2>2
    <2>4. cut \in 1 .. Len(stream) + 1
      BY <1>2, <1>7
    <2>5. AreLines(lines', stream, kept \cup {cut})
      <3>1. Line(stream, cut) \in Seq(Bytes)
        BY <1>2, <2>4, LineOf
      <3>2. kept \in SUBSET Nat /\ IsFiniteSet(kept)
        <4>1. kept \in SUBSET Nat
          BY <1>20
        <4> QED BY <1>2, <1>20, <4>1, FS_BoundedSetOfNaturals
      <3>3. AreLines(lines, stream, kept)
        BY <1>17 DEF Settled
      <3> QED BY <1>7, <1>20, <2>3, <3>1, <3>2, <3>3, LinesOfBytes, OneMore
    <2>6. Settled(stream, cut, lines', kept \cup {cut})
      BY <1>15, <1>17, <2>5 DEF Settled
    <2>7. Rest(stream) \notin kept \cup {cut}
      BY <1>16, <1>19
    <2>8. InPlaceWith(source', stream', consumed', lines', buf', discarding', kept \cup {cut})
      BY <1>3, <1>4, <1>21, <2>6, <2>7 DEF InPlaceWith, cut
    <2>9. kept \cup {cut} \in SUBSET (1 .. Len(stream') + 1)
      BY <1>4, <2>4
    <2> QED BY <2>8, <2>9 DEF InPlace
  <1>23. CASE discarding
    <2>1. Len(Piece(stream, consumed + 1)) > MAX_EVENT_LINE_BYTES
      BY <1>17, <1>23 DEF Holds
    <2>2. Len(Piece(stream, cut)) > MAX_EVENT_LINE_BYTES
      <3> DEFINE p == Piece(stream, consumed + 1)
                 q == Piece(stream, cut)
      <3>1. p \in Seq(Bytes)
        <4>1. consumed + 1 \in 1 .. Len(stream) + 1
          BY <1>2
        <4> QED BY <1>2, <4>1, PieceOf
      <3>2. head \in Seq(Bytes)
        BY <1>2, <1>7, <1>12, Stretch
      <3>3. Len(p) \in Nat /\ Len(p) <= Len(q) /\ q \in Seq(Bytes)
        BY <1>13, <3>1, <3>2, Longer, ConcatProperties
      <3>4. Len(p) > MAX_EVENT_LINE_BYTES
        BY <2>1
      <3> HIDE DEF p, q
      <3>5. Len(q) \in Nat
        BY <3>3
      <3>6. Len(q) > MAX_EVENT_LINE_BYTES
        BY <3>3, <3>4, <3>5, Sizes
      <3> QED BY <3>6 DEF q
    <2>3. lines' = lines
      BY <1>3, <1>23
    <2>4. Settled(stream, cut, lines', kept)
      BY <1>15, <1>17, <2>2, <2>3 DEF Settled
    <2>5. InPlaceWith(source', stream', consumed', lines', buf', discarding', kept)
      BY <1>3, <1>4, <1>16, <1>21, <2>4 DEF InPlaceWith, cut
    <2>6. kept \in SUBSET (1 .. Len(stream') + 1)
      BY <1>4
    <2> QED BY <2>5, <2>6 DEF InPlace
  <1> QED BY <1>2, <1>22, <1>23

LEMMA EndsFile ==
    ASSUME IInv, InPlace, EndOfFile
    PROVE  InPlace'
  <1>1. PICK kept \in SUBSET (1 .. Len(stream) + 1) :
           InPlaceWith(source, stream, consumed, lines, buf, discarding, kept)
    BY DEF InPlace
  <1>2. /\ source = "stdout" /\ consumed = Len(stream)
        /\ source' = source /\ stream' = stream /\ consumed' = consumed
        /\ buf' = <<>> /\ discarding' = FALSE
        /\ lines' = IF buf = <<>> THEN lines ELSE Append(lines, buf)
    BY DEF EndOfFile
  <1>3. stream \in Seq(Bytes) /\ Len(stream) \in Nat
    BY DEF IInv, Progress
  <1>4. CASE buf = <<>>
    <2>1. Settled(stream, consumed, lines', kept)
      BY <1>1, <1>2, <1>4 DEF InPlaceWith
    <2>2. IF Rest(stream) \in kept THEN AtEnd(source, stream, consumed, buf', discarding')
          ELSE Holds(stream, consumed, buf', discarding')
      BY <1>1, <1>2 DEF InPlaceWith, AtEnd, Holds
    <2>3. InPlaceWith(source', stream', consumed', lines', buf', discarding', kept)
      BY <1>2, <2>1, <2>2 DEF InPlaceWith
    <2>4. kept \in SUBSET (1 .. Len(stream') + 1)
      BY <1>2
    <2> QED BY <2>3, <2>4 DEF InPlace
  <1>5. CASE buf # <<>>
    <2> DEFINE last == Rest(stream)
    <2>1. last \notin kept
      BY <1>1, <1>5 DEF InPlaceWith, AtEnd
    <2>2. Settled(stream, consumed, lines, kept) /\ Holds(stream, consumed, buf, discarding)
      BY <1>1, <2>1 DEF InPlaceWith
    <2>3. last = consumed + 1 /\ last \in Nat /\ last \in 1 .. Len(stream) + 1
      BY <1>2, <1>3 DEF Rest
    <2>4. buf = Piece(stream, last)
      BY <1>5, <2>2, <2>3 DEF Holds
    <2>5. lines' = Append(lines, Line(stream, last))
      BY <1>2, <1>5, <2>4 DEF Line
    <2>6. \A c \in kept : c \in Nat /\ c <= consumed /\ c < last
      <3> SUFFICES ASSUME NEW c \in kept PROVE c \in Nat /\ c <= consumed /\ c < last
        OBVIOUS
      <3>1. c \in Cuts(stream) /\ c <= consumed
        BY <2>1, <2>2 DEF Settled, ReadIn
      <3>2. c \in Nat
        BY <1>3, <3>1 DEF Cuts
      <3> QED BY <1>2, <1>3, <2>3, <3>1, <3>2
    <2> HIDE DEF last
    <2>7. AreLines(lines', stream, kept \cup {last})
      <3>1. Line(stream, last) \in Seq(Bytes)
        BY <1>3, <2>3, LineOf
      <3>2. kept \in SUBSET Nat /\ IsFiniteSet(kept)
        <4>1. kept \in SUBSET Nat
          BY <2>6
        <4> QED BY <1>2, <1>3, <2>6, <4>1, FS_BoundedSetOfNaturals
      <3>3. AreLines(lines, stream, kept)
        BY <2>2 DEF Settled
      <3> QED BY <2>3, <2>5, <2>6, <3>1, <3>2, <3>3, LinesOfBytes, OneMore
    <2>8. Settled(stream, consumed, lines', kept \cup {last})
      BY <2>2, <2>7 DEF Settled, last
    <2>9. AtEnd(source, stream, consumed, buf', discarding')
      BY <1>2, <1>5, <2>4 DEF AtEnd, last
    <2>10. InPlaceWith(source', stream', consumed', lines', buf', discarding', kept \cup {last})
      BY <1>2, <2>8, <2>9 DEF InPlaceWith, last
    <2>11. kept \cup {last} \in SUBSET (1 .. Len(stream') + 1)
      BY <1>2, <2>3
    <2> QED BY <2>10, <2>11 DEF InPlace
  <1> QED BY <1>4, <1>5

\* The reader never loses its place.
LEMMA KeepsItsPlace == Spec => [](IInv /\ InPlace)
  <1>1. IInv /\ InPlace /\ [Next]_vars => InPlace'
    <2>1. InPlace /\ (FillBuf \/ Quiet \/ UNCHANGED vars) => InPlace'
      BY DEF InPlace, FillBuf, Quiet, vars
    <2> QED BY <2>1, TakesPart, TakesLine, EndsFile DEF Next
  <1> QED BY <1>1, InPlaceAtFirst, Inductive, PTL DEF Spec

LEMMA WholeNow ==
    ASSUME IInv, InPlace
    PROVE  LinesWhole
  <1>1. PICK kept \in SUBSET (1 .. Len(stream) + 1) :
           InPlaceWith(source, stream, consumed, lines, buf, discarding, kept)
    BY DEF InPlace
  <1>2. ReadIn(stream, consumed) = ReadSoFar
    BY DEF ReadIn, ReadSoFar
  <1>3. kept \in SUBSET (ReadSoFar \cup {Rest(stream)})
    BY <1>1, <1>2 DEF InPlaceWith, Settled
  <1>4. AreLines(lines, stream, kept)
    BY <1>1 DEF InPlaceWith, Settled
  <1>5. \A cut \in ReadSoFar \ kept : Len(Piece(stream, cut)) > MAX_EVENT_LINE_BYTES
    BY <1>1, <1>2 DEF InPlaceWith, Settled
  <1>6. Rest(stream) \in kept =>
           source = "stdout" /\ consumed = Len(stream) /\ Unterminated # <<>>
    BY <1>1 DEF InPlaceWith, AtEnd, Unterminated
  <1> QED BY <1>3, <1>4, <1>5, <1>6 DEF LinesWhole

\* However the stream is cut into reads and whatever is on it, next_line hands over every
\* line whole, once and in order, or drops it because it is over the cap; nothing else ever
\* passes for a line, but the rest before EOF (LinesWhole).
THEOREM LinesWholeSafe == Spec => []LinesWhole
  <1> QED BY KeepsItsPlace, WholeNow, PTL

-----------------------------------------------------------------------------
\* Every line has its piece: there are as many lines as pieces, and none is taken twice.
LEMMA Each ==
    ASSUME NEW kept \in SUBSET Nat, IsFiniteSet(kept)
    PROVE  /\ \A a, b \in kept : Place(kept, a) = Place(kept, b) => a = b
           /\ \A i \in 1 .. Cardinality(kept) : \E cut \in kept : Place(kept, cut) = i
  <1> DEFINE R == 1 .. Cardinality(kept)
             f == [cut \in kept |-> Place(kept, cut)]
  <1>1. f \in [kept -> R] /\ Cardinality(kept) \in Nat
    BY Placing
  <1>2. ASSUME NEW a \in kept, NEW b \in kept, Place(kept, a) = Place(kept, b) PROVE a = b
    <2>1. Place(kept, a) \in Nat
      <3>1. Place(kept, a) \in 1 .. Cardinality(kept)
        BY Placing
      <3> QED BY <3>1
    <2>2. ~(a < b) /\ ~(b < a)
      BY <1>2, <2>1, Placing
    <2> QED BY <2>2
  <1>3. f \in Injection(kept, R)
    BY <1>1, <1>2 DEF Injection, IsInjective
  <1>4. IsFiniteSet(R) /\ Cardinality(R) = Cardinality(kept)
    <2>1. IsFiniteSet(R) /\ Cardinality(R) = IF 1 > Cardinality(kept) THEN 0 ELSE Cardinality(kept) - 1 + 1
      BY <1>1, FS_Interval
    <2> QED BY <1>1, <2>1
  <1> HIDE DEF R
  <1>5. f \in Surjection(kept, R)
    BY <1>3, <1>4, FS_Injection
  <1>6. \A i \in R : \E cut \in kept : f[cut] = i
    BY <1>5 DEF Surjection
  <1> QED BY <1>2, <1>6 DEF R

\* What is an event with its CR is one without it, and the other way round.
LEMMA EventsStripped ==
    /\ WithoutCR(<<Event>>) = <<Event>>
    /\ WithoutCR(<<Event, CR>>) = <<Event>>
    /\ Parses(<<Event>>)
  <1>1. WithoutCR(<<Event>>) = <<Event>>
    BY DEF WithoutCR, Last, Event, CR
  <1>2. WithoutCR(<<Event, CR>>) = <<Event>>
    <2>1. WithoutCR(<<Event, CR>>) = SubSeq(<<Event, CR>>, 1, 1)
      BY DEF WithoutCR, Last, Front
    <2>2. SubSeq(<<Event, CR>>, 1, 1) = <<Event>>
      <3> DEFINE two == <<Event, CR>>
      <3>1. two \in Seq(Bytes) /\ Len(two) = 2 /\ two[1] = Event
        BY DEF Bytes
      <3> HIDE DEF two
      <3>2. 0 \in 0 .. Len(two) /\ 1 \in 0 .. Len(two) /\ 0 + 1 = 1 /\ 1 - 0 = 1
        BY <3>1
      <3>3. /\ SubSeq(two, 0 + 1, 1) \in Seq(Bytes) /\ Len(SubSeq(two, 0 + 1, 1)) = 1 - 0
            /\ \A i \in 1 .. 1 - 0 : SubSeq(two, 0 + 1, 1)[i] = two[0 + i]
        BY <3>1, <3>2, Stretch
      <3>4. SubSeq(two, 1, 1) \in Seq(Bytes) /\ Len(SubSeq(two, 1, 1)) = 1 /\ SubSeq(two, 1, 1)[1] = Event
        BY <3>1, <3>2, <3>3
      <3> DEFINE front == SubSeq(two, 1, 1)
      <3>5. <<Event>> \in Seq(Bytes) /\ Len(<<Event>>) = 1 /\ <<Event>>[1] = Event
        BY DEF Bytes
      <3>6. front \in Seq(Bytes) /\ Len(front) = 1 /\ front[1] = Event
        BY <3>4
      <3> HIDE DEF front
      <3>7. front = <<Event>>
        BY <3>5, <3>6, SeqEqual
      <3> QED BY <3>7 DEF front, two
    <2> QED BY <2>1, <2>2
  <1>3. Parses(<<Event>>)
    BY Sizes, EventStreamAssumption DEF Parses
  <1> QED BY <1>1, <1>2, <1>3

EventAlone(piece) ==
    /\ piece # <<>> /\ piece[1] = Event
    /\ \A i \in 2 .. Len(piece) : piece[i] = CR

LEMMA ParsedPiece ==
    ASSUME NEW piece \in Seq(Bytes), Parses(WithoutCR(piece))
    PROVE  EventAlone(piece)
  <1> DEFINE front == SubSeq(piece, 1, Len(piece) - 1)
  <1>1. CASE piece # <<>> /\ piece[Len(piece)] = CR
    <2>1. Len(piece) \in Nat \ {0}
      BY <1>1, EmptySeq
    <2>2. WithoutCR(piece) = front
      BY <1>1 DEF WithoutCR, Last, Front
    <2>3. /\ front \in Seq(Bytes) /\ Len(front) = Len(piece) - 1
          /\ \A i \in 1 .. Len(piece) - 1 : front[i] = piece[i]
      <3>1. 0 \in 0 .. Len(piece) /\ Len(piece) - 1 \in 0 .. Len(piece)
        BY <2>1
      <3>2. (Len(piece) - 1) - 0 = Len(piece) - 1 /\ 0 + 1 = 1
        BY <2>1
      <3>3. \A i \in 1 .. Len(piece) - 1 : 0 + i = i
        OBVIOUS
      <3>4. /\ SubSeq(piece, 0 + 1, Len(piece) - 1) \in Seq(Bytes)
            /\ Len(SubSeq(piece, 0 + 1, Len(piece) - 1)) = (Len(piece) - 1) - 0
            /\ \A i \in 1 .. (Len(piece) - 1) - 0 : SubSeq(piece, 0 + 1, Len(piece) - 1)[i] = piece[0 + i]
        BY <3>1, Stretch
      <3> QED BY <3>2, <3>3, <3>4
    <2>4. front # <<>> /\ front[1] = Event /\ \A i \in 2 .. Len(front) : front[i] = CR
      BY <2>2 DEF Parses
    <2> HIDE DEF front
    <2>5. Len(front) # 0
      BY <2>3, <2>4, EmptySeq
    <2>6. piece[1] = Event
      BY <2>1, <2>3, <2>4, <2>5
    <2>7. ASSUME NEW i \in 2 .. Len(piece) PROVE piece[i] = CR
      <3>1. CASE i = Len(piece)
        BY <1>1, <3>1
      <3>2. CASE i # Len(piece)
        <4>1. i \in 2 .. Len(front) /\ i \in 1 .. Len(piece) - 1
          BY <2>1, <2>3, <3>2
        <4> QED BY <2>3, <2>4, <4>1
      <3> QED BY <3>1, <3>2
    <2> QED BY <1>1, <2>6, <2>7 DEF EventAlone
  <1>2. CASE ~(piece # <<>> /\ piece[Len(piece)] = CR)
    <2>1. WithoutCR(piece) = piece
      BY <1>2 DEF WithoutCR, Last
    <2> QED BY <2>1 DEF Parses, EventAlone
  <1> QED BY <1>1, <1>2

LEMMA Narrow ==
    ASSUME NEW S, NEW T, IsFiniteSet(T), NEW f \in [S -> T],
           \A a, b \in S : f[a] = f[b] => a = b
    PROVE  Cardinality(S) \in Nat /\ Cardinality(T) \in Nat /\ Cardinality(S) <= Cardinality(T)
  <1>1. f \in Injection(S, T)
    BY DEF Injection, IsInjective
  <1>2. IsFiniteSet(S) /\ Cardinality(S) <= Cardinality(T)
    BY <1>1, FS_Injection
  <1> QED BY <1>2, FS_CardinalityType

LEMMA ExactNow ==
    ASSUME IInv, InPlace
    PROVE  EventsExact
  <1> DEFINE seen == {i \in DOMAIN lines : Parses(lines[i])}
             sent == {cut \in ReadSoFar : Piece(stream, cut) \in {<<Event>>, <<Event, CR>>}}
             might == {cut \in ReadSoFar :
                          LET piece == Piece(stream, cut)
                          IN  piece # <<>> /\ piece[1] = Event /\ \A i \in 2 .. Len(piece) : piece[i] = CR}
             rest == IF source = "stdout" /\ Event \in ToSet(Unterminated) THEN 1 ELSE 0
  <1>1. PICK kept \in SUBSET (1 .. Len(stream) + 1) :
           InPlaceWith(source, stream, consumed, lines, buf, discarding, kept)
    BY DEF InPlace
  <1>2. ReadIn(stream, consumed) = ReadSoFar
    BY DEF ReadIn, ReadSoFar
  <1>3. /\ stream \in Seq(Bytes) /\ Len(stream) \in Nat
        /\ \A cut \in ReadSoFar : cut \in 1 .. Len(stream) /\ cut # Rest(stream)
    <2>1. stream \in Seq(Bytes) /\ Len(stream) \in Nat
      BY DEF IInv, Progress
    <2>2. \A cut \in ReadSoFar : cut \in 1 .. Len(stream)
      BY <2>1 DEF ReadSoFar, Cuts
    <2>3. \A cut \in 1 .. Len(stream) : cut # Rest(stream)
      BY <2>1 DEF Rest
    <2> QED BY <2>1, <2>2, <2>3
  <1>4. /\ kept \subseteq ReadSoFar \cup {Rest(stream)}
        /\ Len(lines) = Cardinality(kept)
        /\ \A cut \in kept : lines[Place(kept, cut)] = Line(stream, cut)
        /\ \A cut \in ReadSoFar \ kept : Len(Piece(stream, cut)) > MAX_EVENT_LINE_BYTES
    BY <1>1, <1>2 DEF InPlaceWith, Settled, AreLines, Place
  <1>5. kept \in SUBSET Nat /\ IsFiniteSet(kept) /\ Cardinality(kept) \in Nat
    <2>1. kept \in SUBSET Nat /\ Len(stream) + 1 \in Nat /\ \A c \in kept : c <= Len(stream) + 1
      BY <1>1, <1>3
    <2>2. IsFiniteSet(kept)
      BY <2>1, FS_BoundedSetOfNaturals
    <2> QED BY <2>1, <2>2, FS_CardinalityType
  <1>6. DOMAIN lines = 1 .. Cardinality(kept)
    BY <1>4, LinesOfBytes
  <1>7. IsFiniteSet(seen)
    <2>1. IsFiniteSet(1 .. Cardinality(kept))
      BY <1>5, FS_Interval
    <2> QED BY <1>6, <2>1, FS_Subset
  <1>8. Cardinality(sent) <= Cardinality(seen)
    <2>1. ASSUME NEW cut \in sent PROVE cut \in kept /\ Place(kept, cut) \in seen
      <3>1. cut \in ReadSoFar /\ Piece(stream, cut) \in {<<Event>>, <<Event, CR>>}
        OBVIOUS
      <3>2. Len(<<Event>>) = 1 /\ Len(<<Event, CR>>) = 2
        OBVIOUS
      <3>3. Len(Piece(stream, cut)) \in {1, 2}
        BY <3>1, <3>2
      <3>4. ~(Len(Piece(stream, cut)) > MAX_EVENT_LINE_BYTES)
        <4> DEFINE n == Len(Piece(stream, cut))
        <4>1. n \in {1, 2}
          BY <3>3
        <4>2. MAX_EVENT_LINE_BYTES \in Nat /\ MAX_EVENT_LINE_BYTES >= 2
          BY EventStreamAssumption
        <4> HIDE DEF n
        <4>3. ~(n > MAX_EVENT_LINE_BYTES)
          BY <4>1, <4>2
        <4> QED BY <4>3 DEF n
      <3>5. cut \in kept
        BY <1>4, <3>1, <3>4
      <3>6. Line(stream, cut) = <<Event>>
        BY <1>3, <3>1, EventsStripped DEF Line
      <3>7. lines[Place(kept, cut)] = <<Event>> /\ Place(kept, cut) \in DOMAIN lines
        BY <1>4, <1>5, <1>6, <3>5, <3>6, Placing
      <3> QED BY <3>5, <3>7, EventsStripped
    <2> DEFINE f == [cut \in sent |-> Place(kept, cut)]
    <2>2. f \in [sent -> seen]
      BY <2>1
    <2>3. ASSUME NEW a \in sent, NEW b \in sent, f[a] = f[b]
          PROVE  a = b
      <3>1. a \in kept /\ b \in kept
        BY <2>1
      <3>2. f[a] = Place(kept, a) /\ f[b] = Place(kept, b)
        <4> HIDE DEF sent
        <4> QED OBVIOUS
      <3>3. Place(kept, a) = Place(kept, b)
        <4> HIDE DEF f, sent
        <4> QED BY <2>3, <3>2
      <3> HIDE DEF f, sent, seen
      <3> QED BY <1>5, <3>1, <3>3, Each
    <2> HIDE DEF f, sent, seen
    <2> QED BY <1>7, <2>2, <2>3, Narrow
  <1>9. Cardinality(seen) <= Cardinality(might) + rest
    <2> DEFINE all == might \cup (IF rest = 1 THEN {Rest(stream)} ELSE {})
               h == [i \in seen |-> CHOOSE cut \in kept : Place(kept, cut) = i]
    <2>1. ASSUME NEW i \in seen
          PROVE  h[i] \in kept /\ Place(kept, h[i]) = i
      BY <1>5, <1>6, Each
    <2>2. ASSUME NEW i \in seen PROVE h[i] \in all
      <3> DEFINE cut == h[i]
      <3>1. cut \in kept /\ Place(kept, cut) = i
        BY <2>1
      <3> HIDE DEF h, cut
      <3>2. Parses(Line(stream, cut))
        <4>1. Parses(lines[i])
          OBVIOUS
        <4> QED BY <1>4, <3>1, <4>1
      <3>3. CASE cut = Rest(stream)
        <4>1. source = "stdout" /\ Unterminated # <<>>
          BY <1>1, <3>1, <3>3 DEF InPlaceWith, AtEnd, Unterminated
        <4>2. Line(stream, cut) = Unterminated
          BY <3>3 DEF Line, Unterminated
        <4>3. Unterminated[1] = Event
          BY <3>2, <4>2 DEF Parses
        <4>4. 1 \in DOMAIN Unterminated
          <5>1. Rest(stream) \in 1 .. Len(stream) + 1
            BY <1>3 DEF Rest
          <5>2. Unterminated \in Seq(Bytes)
            BY <1>3, <5>1, PieceOf DEF Unterminated
          <5>3. Len(Unterminated) \in Nat \ {0}
            BY <4>1, <5>2, EmptySeq
          <5> QED BY <5>2, <5>3
        <4>5. Event \in ToSet(Unterminated)
          BY <4>3, <4>4 DEF ToSet
        <4> QED BY <3>3, <4>1, <4>5 DEF cut
      <3>4. CASE cut # Rest(stream)
        <4>1. cut \in ReadSoFar
          BY <1>4, <3>1, <3>4
        <4>2. Piece(stream, cut) \in Seq(Bytes)
          <5>1. cut \in 1 .. Len(stream) + 1
            BY <1>3, <4>1
          <5> QED BY <1>3, <5>1, PieceOf
        <4>3. Parses(WithoutCR(Piece(stream, cut)))
          BY <3>2, <3>4 DEF Line
        <4>4. EventAlone(Piece(stream, cut))
          BY <4>2, <4>3, ParsedPiece
        <4>5. cut \in might
          BY <4>1, <4>4 DEF EventAlone
        <4> HIDE DEF might, rest
        <4> QED BY <4>5 DEF cut
      <3> QED BY <3>3, <3>4
    <2>3. \A a, b \in seen : h[a] = h[b] => a = b
      <3> HIDE DEF h
      <3> QED BY <2>1
    <2>4. IsFiniteSet(might) /\ Rest(stream) \notin might
      <3>1. IsFiniteSet(1 .. Len(stream))
        BY <1>3, FS_Interval
      <3>2. might \subseteq 1 .. Len(stream)
        BY <1>3
      <3>3. Rest(stream) \notin might
        BY <1>3
      <3> HIDE DEF might
      <3> QED BY <3>1, <3>2, <3>3, FS_Subset
    <2>5. rest \in {0, 1}
      OBVIOUS
    <2>6. h \in [seen -> all]
      <3> HIDE DEF all
      <3>1. \A i \in seen : h[i] \in all
        BY <2>2
      <3> QED BY <3>1
    <2> HIDE DEF seen, might, rest, h
    <2>7. IsFiniteSet(all) /\ Cardinality(all) = Cardinality(might) + rest /\ Cardinality(might) \in Nat
      <3>1. Cardinality(might) \in Nat
        BY <2>4, FS_CardinalityType
      <3>2. CASE rest = 1
        <4>1. all = might \cup {Rest(stream)}
          BY <3>2
        <4> QED BY <2>4, <3>1, <3>2, <4>1, FS_AddElement
      <3>3. CASE rest = 0
        <4>1. all = might
          BY <3>3
        <4> QED BY <2>4, <3>1, <3>3, <4>1
      <3> QED BY <2>5, <3>2, <3>3
    <2> HIDE DEF all
    <2>8. Cardinality(seen) <= Cardinality(all)
      BY <2>3, <2>6, <2>7, Narrow
    <2> QED BY <2>7, <2>8
  <1> QED BY <1>8, <1>9 DEF EventsExact

\* Which lines are seen as events does not depend on how the stream is cut into reads: every
\* event ended with LF or CRLF is one, the rest of a dropped line never is (EventsExact).
THEOREM EventsExactSafe == Spec => []EventsExact
  <1> QED BY KeepsItsPlace, ExactNow, PTL
=============================================================================
