---------------------------- MODULE Streams_proofs ----------------------------
(***************************************************************************)
(* What the parsers of a response promise for every body, every limit and  *)
(* every way to cut it into chunks: what SseFrameParser buffers is bounded *)
(* and the frames it yields are those of the body, an abort silences the   *)
(* decoders, an answer that is completed has everything that the provider  *)
(* said, and the lines of a turn's response are read as they were written. *)
(***************************************************************************)
EXTENDS MCStreams, TLAPS, FiniteSetTheorems, SequenceTheorems, WellFoundedInduction

(***************************************************************************)
(* SseFraming.                                                             *)
(***************************************************************************)
\* The sequences and the count the bound is about.
BufferType == /\ fed \in Seq(Bytes) /\ chunk \in Seq(Bytes) /\ pending \in Seq(Bytes)
              /\ frameBytes \in Nat

Buffered == BufferType /\ BufferBounded

USE FramingAssumption

\* A set of naturals has a least one.
LEMMA LeastOf ==
  ASSUME NEW S, S \subseteq Nat, S # {}
  PROVE  \E i \in S : \A j \in S : i <= j
<1>1. PICK i \in S : \A j \in S : ~(<<j, i>> \in OpToRel(<, Nat))
  BY NatLessThanWellFounded, WFMin
<1>2. \A j \in S : ~(j < i) BY <1>1 DEF OpToRel
<1>3. \A j \in S : i <= j BY <1>2
<1> QED BY <1>3

\* A chunk with a line end has a first one, and it is inside the chunk.
LEMMA FirstLineIsFirst ==
  ASSUME NEW bytes \in Seq(Bytes), LineEnds(bytes) # {}
  PROVE  /\ FirstLine(bytes) \in LineEnds(bytes)
         /\ \A f \in LineEnds(bytes) : FirstLine(bytes)[1] <= f[1]
<1> DEFINE Starts == {e[1] : e \in LineEnds(bytes)}
<1>1. \A e \in LineEnds(bytes) : e[1] \in Nat
  BY DEF LineEnds
<1>2. Starts \subseteq Nat /\ Starts # {}
  BY <1>1
<1>3. \A f \in LineEnds(bytes) : f[1] \in Starts
  OBVIOUS
<1>4. PICK first \in Starts : \A i \in Starts : first <= i
  <2> HIDE DEF Starts
  <2> QED
    BY <1>2, LeastOf
<1>5. PICK e \in LineEnds(bytes) : e[1] = first
  OBVIOUS
<1>6. \A f \in LineEnds(bytes) : e[1] <= f[1]
  BY <1>3, <1>4, <1>5
<1> QED
  BY <1>6 DEF FirstLine

LEMMA FirstLineInBuffer ==
  ASSUME NEW bytes \in Seq(Bytes), LineEnds(bytes) # {}
  PROVE  /\ FirstLine(bytes)[1] \in 1 .. Len(bytes)
         /\ FirstLine(bytes)[2] \in 2 .. Len(bytes) + 1
<1>1. FirstLine(bytes) \in (1 .. Len(bytes)) \X (2 .. Len(bytes) + 1)
  BY FirstLineIsFirst DEF LineEnds
<1> QED
  BY <1>1

\* A line is accepted only if the frame still fits: consuming one keeps the
\* count of the frame's bytes within the limit.
LEMMA ConsumeKeepsBound ==
  ASSUME NEW line, NEW size \in Nat, frameBytes \in Nat, frameBytes <= MaxFrame,
         Consume(line, size)
  PROVE  frameBytes' \in Nat /\ frameBytes' <= MaxFrame
  BY DEF Consume, Dispatch

\* With nothing pending the count alone is bounded.
LEMMA NothingCounted == ASSUME NEW n \in Nat, n <= MaxFrame PROVE n + Len(<<>>) <= MaxFrame
  OBVIOUS

\* So a step that leaves nothing pending keeps the bound.
LEMMA NothingPending ==
  ASSUME pending' = <<>>, frameBytes' \in Nat, frameBytes' <= MaxFrame,
         fed' \in Seq(Bytes), chunk' \in Seq(Bytes)
  PROVE  Buffered'
<1>1. pending' \in Seq(Bytes)
  OBVIOUS
<1>2. frameBytes' + Len(<<>>) <= MaxFrame
  BY NothingCounted
<1> QED
  BY <1>1, <1>2 DEF Buffered, BufferType, BufferBounded

\* Initially nothing is buffered.
LEMMA InitBuffered == Init => Buffered
  BY DEF Init, Buffered, BufferType, BufferBounded

\* A step leaves no more buffered than one frame may have.
LEMMA NextBuffered == Buffered /\ [Next]_vars => Buffered'
<1> SUFFICES ASSUME Buffered, [Next]_vars PROVE Buffered'
  OBVIOUS
<1> USE DEF Buffered, BufferType, BufferBounded
<1>0. frameBytes <= MaxFrame /\ Len(pending) \in Nat
  OBVIOUS
<1>1. ASSUME NEW n \in 1 .. MaxBytes - Len(fed), NEW c \in [1 .. n -> Bytes], Feed(c)
      PROVE  Buffered'
  <2>1. c \in Seq(Bytes)
    BY DEF Bytes
  <2> QED
    BY <1>1, <2>1 DEF Feed
<1>2. CASE ResolveCr
  <2>1. Len(pending) + (IF TakesLf THEN 1 ELSE 0) \in Nat
    OBVIOUS
  <2>2. frameBytes' \in Nat /\ frameBytes' <= MaxFrame
    BY <1>0, <1>2, <2>1, ConsumeKeepsBound DEF ResolveCr
  <2>3. chunk' \in Seq(Bytes)
    BY <1>2 DEF ResolveCr, Reading
  <2>4. pending' = <<>> /\ fed' = fed
    BY <1>2 DEF ResolveCr
  <2> QED
    BY <2>2, <2>3, <2>4, NothingPending
<1>3. CASE Line
  <2> DEFINE e == FirstLine(chunk)
  <2>1. e[1] \in 1 .. Len(chunk) /\ e[2] \in 2 .. Len(chunk) + 1
    BY <1>3, FirstLineInBuffer DEF Line
  <2>2. Len(pending) + e[2] - 1 \in Nat
    BY <1>0, <2>1
  <2>3. Consume(pending \o SubSeq(chunk, 1, e[1] - 1), Len(pending) + e[2] - 1)
    BY <1>3 DEF Line
  <2> HIDE DEF e
  <2>4. frameBytes' \in Nat /\ frameBytes' <= MaxFrame
    BY <1>0, <2>2, <2>3, ConsumeKeepsBound
  <2>5. SubSeq(chunk, e[2], Len(chunk)) \in Seq(Bytes)
    BY <2>1
  <2>6. chunk' = SubSeq(chunk, e[2], Len(chunk)) /\ pending' = <<>> /\ fed' = fed
    BY <1>3 DEF Line, e
  <2> QED
    BY <2>4, <2>5, <2>6, NothingPending
<1>4. CASE Keep
  <2>1. CASE Fits
    <3>1. pending' = pending \o chunk /\ chunk' = <<>> /\ fed' = fed /\ frameBytes' = frameBytes
      BY <1>4, <2>1 DEF Keep
    <3>2. pending \o chunk \in Seq(Bytes) /\ Len(pending \o chunk) = Len(pending) + Len(chunk)
      OBVIOUS
    <3>3. frameBytes + (Len(pending) + Len(chunk)) <= MaxFrame
      BY <2>1 DEF Fits
    <3> QED
      BY <3>1, <3>2, <3>3
  <2>2. CASE ~Fits
    BY <1>4, <2>2 DEF Keep
  <2> QED
    BY <2>1, <2>2
<1>5. CASE Finish
  BY <1>5 DEF Finish
<1>6. CASE LastLine
  <2>1. frameBytes' \in Nat /\ frameBytes' <= MaxFrame
    BY <1>0, <1>6, ConsumeKeepsBound DEF LastLine
  <2>2. pending' = <<>> /\ fed' = fed /\ chunk' = chunk
    BY <1>6 DEF LastLine
  <2> QED
    BY <2>1, <2>2, NothingPending
<1>7. CASE End
  BY <1>7 DEF End
<1>8. CASE UNCHANGED vars
  BY <1>8 DEF vars
<1> QED
  BY <1>1, <1>2, <1>3, <1>4, <1>5, <1>6, <1>7, <1>8 DEF Next

\* The bytes of the unfinished frame, counted and pending, never exceed
\* maxFrameBytes, however large the chunks are (framesFrom, finish).
THEOREM BufferIsBounded == Spec => []BufferBounded
<1>1. Buffered => BufferBounded
  BY DEF Buffered
<1> QED
  BY <1>1, InitBuffered, NextBuffered, PTL DEF Spec

(***************************************************************************)
(* SseFraming: the frames of a body are read, whatever its chunks.         *)
(*                                                                         *)
(* What the reference says of a body, for any sequence of bytes and any    *)
(* set of edges, so that two states can be compared.                       *)
(***************************************************************************)
LinesOf(body, edges, b, e) == {s \in b + 1 .. e : body[s] = "data:" /\ s - 1 \in edges}

ValuesOf(body, edges, values, b, e) ==
  /\ Len(values) = Cardinality(LinesOf(body, edges, b, e))
  /\ \A s \in LinesOf(body, edges, b, e) : \E t \in s + 1 .. e :
       /\ ~IsText(body[t]) /\ \A k \in s .. t - 1 : IsText(body[k])
       /\ values[Cardinality(LinesOf(body, edges, b, s))] = SubSeq(body, s + 1, t - 1)

Worth(body, edges, b, e) ==
  \E s \in LinesOf(body, edges, b, e) : IsText(body[s + 1]) \/ LinesOf(body, edges, b, e) # {s}

FramesOf(ends) == {f \in (ends \cup {0}) \X ends :
                     f[1] < f[2] /\ \A i \in ends : i <= f[1] \/ i >= f[2]}

\* Those that end up to n.
FramesTo(ends, n) == {f \in FramesOf(ends) : f[2] <= n}

\* The frames worth showing that end up to n.
ShownTo(body, edges, ends, n) ==
  {f \in FramesOf(ends) : f[2] <= n /\ Worth(body, edges, f[1], f[2])}

\* They are what was shown, in their order.
OutputTo(body, edges, ends, output, n) ==
  /\ Len(output) = Cardinality(ShownTo(body, edges, ends, n))
  /\ \A f \in ShownTo(body, edges, ends, n) :
       ValuesOf(body, edges,
                output[Cardinality({g \in ShownTo(body, edges, ends, n) : g[2] <= f[2]})],
                f[1], f[2])

(***************************************************************************)
(* The parser has read the lines up to Read; the frame it is in starts     *)
(* behind Start.                                                           *)
(***************************************************************************)
Read  == Len(fed) - Len(chunk) - Len(pending)
Start == Read - frameBytes

\* What is not consumed is pending, then in the chunk.
Unread ==
  /\ Read \in Nat
  /\ \A k \in 1 .. Len(pending) : pending[k] = fed[Read + k]
  /\ \A k \in 1 .. Len(chunk) : chunk[k] = fed[Read + Len(pending) + k]

\* What is pending ends no line, but a CR may be its last byte.
Held ==
  /\ \A k \in 1 .. Len(pending) : IsText(pending[k]) \/ (k = Len(pending) /\ pending[k] = "CR")
  /\ over => chunk = <<>>

\* The body's last line has no end, and was consumed.
Cut == over /\ pending = <<>> /\ frameBytes > 0 /\ Read \notin Edges

FrameRead ==
  /\ Start \in FrameEdges /\ \A i \in FrameEnds : i <= Read => i <= Start
  /\ \A f \in Frames : f[2] <= Read => ~TooLong(f)
  /\ Cut \/ (Read \in Edges /\ ValuesOf(fed, Edges, data, Start, Read))
  /\ OutputTo(fed, Edges, FrameEnds, out, Read)

FrameTypes == data \in Seq(Seq(Bytes)) /\ out \in Seq(Seq(Seq(Bytes)))

FramingInv ==
  /\ Buffered /\ FrameTypes
  /\ status = "open" => Unread /\ Held /\ FrameRead
  /\ status # "open" => FramesAreShown /\ (status = "failed" <=> Broken)


LEMMA SameCut ==
  ASSUME NEW S, NEW s, NEW t, NEW i \in Int, NEW j \in Int, NEW n \in Nat,
         \A k \in 1 .. n : s[i + k] = t[j + k] /\ s[i + k] \in S
  PROVE  SubSeq(s, i + 1, i + n) = SubSeq(t, j + 1, j + n)
<1> DEFINE l == SubSeq(s, i + 1, i + n)
           m == SubSeq(t, j + 1, j + n)
<1>1. \A x \in i + 1 .. i + n : s[x] \in S
  <2> SUFFICES ASSUME NEW x \in i + 1 .. i + n PROVE s[x] \in S OBVIOUS
  <2>1. x - i \in 1 .. n /\ i + (x - i) = x OBVIOUS
  <2> QED BY <2>1
<1>2. \A x \in j + 1 .. j + n : t[x] \in S
  <2> SUFFICES ASSUME NEW x \in j + 1 .. j + n PROVE t[x] \in S OBVIOUS
  <2>1. x - j \in 1 .. n /\ j + (x - j) = x OBVIOUS
  <2> QED BY <2>1
<1>3. l \in Seq(S) /\ Len(l) = n /\ \A k \in 1 .. n : l[k] = s[i + k]
  <2>1. /\ l \in Seq(S) /\ Len(l) = IF i + 1 <= i + n THEN i + n - (i + 1) + 1 ELSE 0
        /\ \A k \in 1 .. i + n - (i + 1) + 1 : l[k] = s[i + 1 + k - 1]
    BY <1>1, SubSeqProperties
  <2> HIDE DEF l
  <2>2. i + n - (i + 1) + 1 = n /\ \A k \in 1 .. n : i + 1 + k - 1 = i + k OBVIOUS
  <2>3. Len(l) = n BY <2>1
  <2> QED BY <2>1, <2>2, <2>3
<1>4. m \in Seq(S) /\ Len(m) = n /\ \A k \in 1 .. n : m[k] = t[j + k]
  <2>1. /\ m \in Seq(S) /\ Len(m) = IF j + 1 <= j + n THEN j + n - (j + 1) + 1 ELSE 0
        /\ \A k \in 1 .. j + n - (j + 1) + 1 : m[k] = t[j + 1 + k - 1]
    BY <1>2, SubSeqProperties
  <2> HIDE DEF m
  <2>2. j + n - (j + 1) + 1 = n /\ \A k \in 1 .. n : j + 1 + k - 1 = j + k OBVIOUS
  <2>3. Len(m) = n BY <2>1
  <2> QED BY <2>1, <2>2, <2>3
<1> HIDE DEF l, m
<1>5. l = m BY <1>3, <1>4, SeqEqual
<1> QED BY <1>5 DEF l, m

LEMMA LinesFinite ==
  ASSUME NEW body, NEW edges, NEW b \in Nat, NEW e \in Nat
  PROVE  /\ IsFiniteSet(LinesOf(body, edges, b, e))
         /\ Cardinality(LinesOf(body, edges, b, e)) \in Nat
<1>1. LinesOf(body, edges, b, e) \subseteq b + 1 .. e BY DEF LinesOf
<1>2. IsFiniteSet(b + 1 .. e) BY FS_Interval
<1>3. IsFiniteSet(LinesOf(body, edges, b, e)) BY <1>1, <1>2, FS_Subset
<1> QED BY <1>3, FS_CardinalityType

\* Bodies and edges that agree up to n have the same lines there.
LEMMA LinesAgree ==
  ASSUME NEW n \in Nat, NEW body, NEW edges, NEW body2, NEW edges2,
         \A i \in 1 .. n : body[i] = body2[i],
         \A i \in 0 .. n : i \in edges <=> i \in edges2,
         NEW b \in Nat, NEW e \in 0 .. n
  PROVE  LinesOf(body, edges, b, e) = LinesOf(body2, edges2, b, e)
<1>1. ASSUME NEW s \in b + 1 .. e PROVE s \in 1 .. n /\ s - 1 \in 0 .. n OBVIOUS
<1> QED BY <1>1 DEF LinesOf

LEMMA ValuesAgree ==
  ASSUME NEW n \in Nat, NEW body \in Seq(Bytes), NEW edges, NEW body2 \in Seq(Bytes), NEW edges2,
         n <= Len(body), n <= Len(body2),
         \A i \in 1 .. n : body[i] = body2[i],
         \A i \in 0 .. n : i \in edges <=> i \in edges2,
         NEW b \in Nat, NEW e \in 0 .. n, NEW values,
         ValuesOf(body, edges, values, b, e)
  PROVE  ValuesOf(body2, edges2, values, b, e)
<1>1. \A i \in 0 .. n : LinesOf(body, edges, b, i) = LinesOf(body2, edges2, b, i)
  BY LinesAgree
<1>2. ASSUME NEW s \in LinesOf(body2, edges2, b, e)
      PROVE  \E t \in s + 1 .. e :
               /\ ~IsText(body2[t]) /\ \A k \in s .. t - 1 : IsText(body2[k])
               /\ values[Cardinality(LinesOf(body2, edges2, b, s))] = SubSeq(body2, s + 1, t - 1)
  <2>1. s \in LinesOf(body, edges, b, e) /\ s \in b + 1 .. e BY <1>1 DEF LinesOf
  <2>2. PICK t \in s + 1 .. e :
               /\ ~IsText(body[t]) /\ \A k \in s .. t - 1 : IsText(body[k])
               /\ values[Cardinality(LinesOf(body, edges, b, s))] = SubSeq(body, s + 1, t - 1)
    BY <2>1 DEF ValuesOf
  <2>3. t \in 1 .. n /\ s \in 0 .. n /\ s \in Nat /\ \A k \in s .. t - 1 : k \in 1 .. n BY <2>1
  <2>4. SubSeq(body, s + 1, t - 1) = SubSeq(body2, s + 1, t - 1)
    <3>1. t - 1 - s \in Nat /\ s + (t - 1 - s) = t - 1 BY <2>1, <2>3
    <3>2. ASSUME NEW k \in 1 .. t - 1 - s
          PROVE  body[s + k] = body2[s + k] /\ body[s + k] \in Bytes
      <4>1. s + k \in 1 .. n BY <2>3, <3>1
      <4> QED BY <4>1
    <3> QED BY <2>3, <3>1, <3>2, SameCut
  <2> QED BY <1>1, <2>2, <2>3, <2>4
<1>3. Len(values) = Cardinality(LinesOf(body2, edges2, b, e)) BY <1>1 DEF ValuesOf
<1> QED BY <1>2, <1>3 DEF ValuesOf

LEMMA WorthAgrees ==
  ASSUME NEW n \in Nat, NEW body, NEW edges, NEW body2, NEW edges2,
         \A i \in 1 .. n : body[i] = body2[i],
         \A i \in 0 .. n : i \in edges <=> i \in edges2,
         NEW b \in Nat, NEW e \in 1 .. n, e \notin LinesOf(body, edges, b, e)
  PROVE  Worth(body, edges, b, e) <=> Worth(body2, edges2, b, e)
<1>1. LinesOf(body, edges, b, e) = LinesOf(body2, edges2, b, e) BY LinesAgree
<1>2. ASSUME NEW s \in LinesOf(body, edges, b, e) PROVE s + 1 \in 1 .. n
  <2>1. s \in b + 1 .. e /\ s # e BY DEF LinesOf
  <2> QED BY <2>1
<1> QED BY <1>1, <1>2 DEF Worth

\* The lines up to e are those up to p and, if it is one, the one at p + 1.
LEMMA NextLineOf ==
  ASSUME NEW body, NEW edges, NEW b \in Nat, NEW p \in Nat, b <= p, NEW e \in Nat, p < e,
         p \in edges, \A i \in p + 1 .. e - 1 : i \notin edges
  PROVE  /\ body[p + 1] = "data:" =>
              LinesOf(body, edges, b, e) = LinesOf(body, edges, b, p) \cup {p + 1}
         /\ body[p + 1] # "data:" => LinesOf(body, edges, b, e) = LinesOf(body, edges, b, p)
<1>1. ASSUME NEW s \in b + 1 .. e, s - 1 \in edges PROVE s \in b + 1 .. p \/ s = p + 1
  <2>1. s - 1 \notin p + 1 .. e - 1 BY <1>1
  <2> QED BY <2>1
<1>2. \A s \in b + 1 .. p : s \in b + 1 .. e /\ s # p + 1 OBVIOUS
<1>3. p + 1 \in b + 1 .. e /\ (p + 1) - 1 = p OBVIOUS
<1> QED BY <1>1, <1>2, <1>3 DEF LinesOf

\* The place of a line among the lines.
LEMMA LinePlace ==
  ASSUME NEW body, NEW edges, NEW b \in Nat, NEW e \in Nat, NEW s \in LinesOf(body, edges, b, e)
  PROVE  Cardinality(LinesOf(body, edges, b, s)) \in 1 .. Cardinality(LinesOf(body, edges, b, e))
<1>1. s \in b + 1 .. e /\ s \in Nat BY DEF LinesOf
<1>2. s \in LinesOf(body, edges, b, s) BY <1>1 DEF LinesOf
<1>3. LinesOf(body, edges, b, s) \subseteq LinesOf(body, edges, b, e)
  <2>1. \A r \in b + 1 .. s : r \in b + 1 .. e BY <1>1
  <2> QED BY <2>1 DEF LinesOf
<1>4. /\ IsFiniteSet(LinesOf(body, edges, b, s)) /\ IsFiniteSet(LinesOf(body, edges, b, e))
      /\ Cardinality(LinesOf(body, edges, b, s)) \in Nat
      /\ Cardinality(LinesOf(body, edges, b, e)) \in Nat
  BY <1>1, LinesFinite
<1>5. Cardinality(LinesOf(body, edges, b, s)) <= Cardinality(LinesOf(body, edges, b, e))
  BY <1>3, <1>4, FS_Subset
<1>6. Cardinality(LinesOf(body, edges, b, s)) # 0 BY <1>2, <1>4, FS_EmptySet
<1> QED BY <1>4, <1>5, <1>6

LEMMA ValuesStay ==
  ASSUME NEW body, NEW edges, NEW b \in Nat, NEW p \in Nat, b <= p, NEW e \in Nat, p < e,
         p \in edges, \A i \in p + 1 .. e - 1 : i \notin edges, body[p + 1] # "data:",
         NEW values, ValuesOf(body, edges, values, b, p)
  PROVE  ValuesOf(body, edges, values, b, e)
<1>1. LinesOf(body, edges, b, e) = LinesOf(body, edges, b, p) BY NextLineOf
<1>2. ASSUME NEW s \in LinesOf(body, edges, b, p), NEW t \in s + 1 .. p PROVE t \in s + 1 .. e
  BY DEF LinesOf
<1> QED BY <1>1, <1>2 DEF ValuesOf

LEMMA ValueAdds ==
  ASSUME NEW body, NEW edges, NEW b \in Nat, NEW p \in Nat, b <= p, NEW e \in Nat, p < e,
         p \in edges, \A i \in p + 1 .. e - 1 : i \notin edges, body[p + 1] = "data:",
         NEW t \in p + 2 .. e, ~IsText(body[t]), \A k \in p + 1 .. t - 1 : IsText(body[k]),
         NEW S, NEW values \in Seq(S), ValuesOf(body, edges, values, b, p),
         NEW text \in S, text = SubSeq(body, p + 2, t - 1)
  PROVE  ValuesOf(body, edges, Append(values, text), b, e)
<1> DEFINE n == Cardinality(LinesOf(body, edges, b, p))
<1>1. LinesOf(body, edges, b, e) = LinesOf(body, edges, b, p) \cup {p + 1} BY NextLineOf
<1>2. LinesOf(body, edges, b, p + 1) = LinesOf(body, edges, b, p) \cup {p + 1}
  <2> DEFINE next == p + 1
  <2>1. next \in Nat /\ p < next /\ \A i \in p + 1 .. next - 1 : i \notin edges
    OBVIOUS
  <2> HIDE DEF next
  <2>2. LinesOf(body, edges, b, next) = LinesOf(body, edges, b, p) \cup {p + 1}
    BY <2>1, NextLineOf
  <2> QED BY <2>2 DEF next
<1>3. p + 1 \notin LinesOf(body, edges, b, p) BY DEF LinesOf
<1>4. n \in Nat /\ Len(values) = n /\ Cardinality(LinesOf(body, edges, b, p) \cup {p + 1}) = n + 1
  <2>1. IsFiniteSet(LinesOf(body, edges, b, p)) /\ n \in Nat BY LinesFinite
  <2>2. Cardinality(LinesOf(body, edges, b, p) \cup {p + 1}) = n + 1 BY <1>3, <2>1, FS_AddElement
  <2> QED BY <2>1, <2>2 DEF ValuesOf
<1>5. /\ Len(Append(values, text)) = n + 1 /\ Append(values, text)[n + 1] = text
      /\ \A i \in 1 .. n : Append(values, text)[i] = values[i]
  BY <1>4, AppendProperties
<1>6. ASSUME NEW s \in LinesOf(body, edges, b, p)
      PROVE  \E u \in s + 1 .. e :
               /\ ~IsText(body[u]) /\ \A k \in s .. u - 1 : IsText(body[k])
               /\ Append(values, text)[Cardinality(LinesOf(body, edges, b, s))] = SubSeq(body, s + 1, u - 1)
  <2>1. PICK u \in s + 1 .. p :
               /\ ~IsText(body[u]) /\ \A k \in s .. u - 1 : IsText(body[k])
               /\ values[Cardinality(LinesOf(body, edges, b, s))] = SubSeq(body, s + 1, u - 1)
    BY DEF ValuesOf
  <2>2. Cardinality(LinesOf(body, edges, b, s)) \in 1 .. n BY LinePlace
  <2>3. u \in s + 1 .. e BY DEF LinesOf
  <2> HIDE DEF n
  <2> QED BY <1>5, <2>1, <2>2, <2>3
<1>7. \E u \in (p + 1) + 1 .. e :
        /\ ~IsText(body[u]) /\ \A k \in p + 1 .. u - 1 : IsText(body[k])
        /\ Append(values, text)[Cardinality(LinesOf(body, edges, b, p + 1))] = SubSeq(body, (p + 1) + 1, u - 1)
  <2>1. t \in (p + 1) + 1 .. e /\ (p + 1) + 1 = p + 2 OBVIOUS
  <2> HIDE DEF n
  <2> QED BY <1>2, <1>4, <1>5, <2>1
<1> HIDE DEF n
<1> QED BY <1>1, <1>4, <1>5, <1>6, <1>7 DEF ValuesOf

\* What was collected joins to the empty string if no line has text.
LEMMA NoWorth ==
  ASSUME NEW body \in Seq(Bytes), NEW edges, NEW b \in Nat, NEW e \in 0 .. Len(body),
         NEW values \in Seq(Seq(Bytes)), ValuesOf(body, edges, values, b, e)
  PROVE  values \in {<<>>, << <<>> >>} <=> ~Worth(body, edges, b, e)
<1> DEFINE L == LinesOf(body, edges, b, e)
<1>1. IsFiniteSet(L) /\ Cardinality(L) \in Nat BY LinesFinite
<1>2. Len(values) = Cardinality(L) BY DEF ValuesOf
<1>3. \A s \in L : s \in b + 1 .. e BY DEF LinesOf
<1>4. Worth(body, edges, b, e) <=> \E s \in L : IsText(body[s + 1]) \/ L # {s} BY DEF Worth
<1>5. CASE L = {}
  <2>1. Len(values) = 0 BY <1>2, <1>5, FS_EmptySet
  <2>2. values = <<>> BY <2>1, EmptySeq
  <2> HIDE DEF L
  <2> QED BY <1>4, <1>5, <2>2
<1>6. ASSUME NEW s, L = {s} PROVE values \in {<<>>, << <<>> >>} <=> ~Worth(body, edges, b, e)
  <2>1. Cardinality(L) = 1 BY <1>6, FS_Singleton
  <2>2. Len(values) = 1 /\ values[1] \in Seq(Bytes)
    <3>1. Len(values) = 1 BY <1>2, <2>1
    <3>2. values \in [1 .. Len(values) -> Seq(Bytes)] BY LenProperties
    <3> QED BY <3>1, <3>2
  <2>3. s \in L /\ s \in b + 1 .. e BY <1>3, <1>6
  <2>4. Cardinality(LinesOf(body, edges, b, s)) = 1
    <3>1. Cardinality(LinesOf(body, edges, b, s)) \in 1 .. Cardinality(L) BY <2>3, LinePlace
    <3> HIDE DEF L
    <3> QED BY <2>1, <3>1
  <2>5. PICK t \in s + 1 .. e : /\ ~IsText(body[t]) /\ \A k \in s .. t - 1 : IsText(body[k])
                                /\ values[1] = SubSeq(body, s + 1, t - 1)
    BY <2>3, <2>4 DEF ValuesOf
  <2>6. values \in {<<>>, << <<>> >>} <=> values[1] = <<>>
    <3>1. values # <<>>
      <4> SUFFICES ASSUME values = <<>> PROVE FALSE OBVIOUS
      <4>1. Len(values) = 0 BY EmptySeq
      <4>2. Len(values) = 1 BY <2>2
      <4> QED BY <4>1, <4>2
    <3>2. << <<>> >> \in Seq(Seq(Bytes)) /\ Len(<< <<>> >>) = 1 /\ << <<>> >>[1] = <<>> OBVIOUS
    <3>3. ASSUME values[1] = <<>> PROVE values = << <<>> >>
      <4>1. \A i \in 1 .. Len(values) : values[i] = << <<>> >>[i] BY <2>2, <3>2, <3>3
      <4>2. Len(values) = Len(<< <<>> >>) BY <2>2, <3>2
      <4> QED BY <3>2, <4>1, <4>2, SeqEqual
    <3> QED BY <3>1, <3>2, <3>3
  <2>7. Len(values[1]) = t - 1 - s
    <3>1. \A i \in s + 1 .. t - 1 : body[i] \in Bytes
      <4>1. \A i \in s + 1 .. t - 1 : i \in 1 .. Len(body) BY <2>3, <2>5
      <4> QED BY <4>1
    <3>2. Len(SubSeq(body, s + 1, t - 1)) = IF s + 1 <= t - 1 THEN t - 1 - (s + 1) + 1 ELSE 0
      BY <2>3, <3>1, SubSeqProperties
    <3> QED BY <2>3, <2>5, <3>2
  <2>8. values[1] = <<>> <=> t = s + 1
    BY <2>2, <2>3, <2>7, EmptySeq
  <2>9. IsText(body[s + 1]) <=> t # s + 1
    <3>1. t # s + 1 => s + 1 \in s .. t - 1 BY <2>3
    <3> QED BY <2>5, <3>1
  <2>10. Worth(body, edges, b, e) <=> IsText(body[s + 1])
    <3> HIDE DEF L
    <3> QED BY <1>4, <1>6
  <2> QED BY <2>6, <2>8, <2>9, <2>10
<1>7. ASSUME L # {}, \A s : L # {s} PROVE values \in {<<>>, << <<>> >>} <=> ~Worth(body, edges, b, e)
  <2> HIDE DEF L
  <2>1. Cardinality(L) # 0 /\ Cardinality(L) # 1 BY <1>1, <1>7, FS_EmptySet, FS_Singleton
  <2>2. Len(<<>>) = 0 /\ Len(<< <<>> >>) = 1 OBVIOUS
  <2> QED BY <1>2, <1>4, <1>7, <2>1, <2>2
<1> QED BY <1>5, <1>6, <1>7

(***************************************************************************)
(* Frames and what is shown of them.                                       *)
(***************************************************************************)
\* No data line starts on a byte that ends one.
EndsOf(body, ends) == \A i \in ends : i \in Nat \ {0} /\ body[i] # "data:"

LEMMA PairOf ==
  ASSUME NEW S, NEW T, NEW f \in S \X T
  PROVE  f = <<f[1], f[2]>> /\ f[1] \in S /\ f[2] \in T
  OBVIOUS

LEMMA FrameOf ==
  ASSUME NEW ends \in SUBSET Nat, NEW f \in FramesOf(ends)
  PROVE  /\ f = <<f[1], f[2]>> /\ f[1] \in ends \cup {0} /\ f[2] \in ends
         /\ f[1] \in Nat /\ f[2] \in Nat /\ f[1] < f[2]
         /\ \A i \in ends : i <= f[1] \/ i >= f[2]
<1>1. f \in (ends \cup {0}) \X ends /\ f[1] < f[2] /\ \A i \in ends : i <= f[1] \/ i >= f[2]
  BY DEF FramesOf
<1>2. f = <<f[1], f[2]>> /\ f[1] \in ends \cup {0} /\ f[2] \in ends BY <1>1, PairOf
<1>3. f[1] \in Nat BY <1>2
<1>4. f[2] \in Nat BY <1>2
<1> QED BY <1>1, <1>2, <1>3, <1>4, Zenon

LEMMA FramesAgree ==
  ASSUME NEW n \in Nat, NEW ends \in SUBSET Nat, NEW ends2 \in SUBSET Nat,
         \A i \in 0 .. n : i \in ends <=> i \in ends2
  PROVE  FramesTo(ends, n) = FramesTo(ends2, n)
<1>1. ASSUME NEW E \in SUBSET Nat, NEW F \in SUBSET Nat,
             \A i \in 0 .. n : i \in E <=> i \in F,
             NEW f \in FramesOf(E), f[2] <= n
      PROVE  f \in FramesOf(F)
  <2>1. /\ f = <<f[1], f[2]>> /\ f[1] \in E \cup {0} /\ f[2] \in E
        /\ f[1] \in Nat /\ f[2] \in Nat /\ f[1] < f[2]
        /\ \A i \in E : i <= f[1] \/ i >= f[2]
    BY <1>1, FrameOf
  <2>2. f[1] \in 0 .. n /\ f[2] \in 0 .. n BY <1>1, <2>1
  <2>3. f[1] \in F \cup {0} /\ f[2] \in F BY <1>1, <2>1, <2>2
  <2>5. f \in (F \cup {0}) \X F BY <2>1, <2>3
  <2>4. ASSUME NEW i \in F PROVE i <= f[1] \/ i >= f[2]
    <3>1. i \in Nat BY <1>1
    <3>2. CASE i <= n BY <1>1, <2>1, <3>1, <3>2
    <3>3. CASE i > n BY <1>1, <2>1, <3>1, <3>3
    <3> QED BY <3>1, <3>2, <3>3
  <2> QED BY <2>1, <2>4, <2>5 DEF FramesOf
<1>2. \A f \in FramesOf(ends) : f[2] <= n => f \in FramesOf(ends2) BY <1>1
<1>3. \A f \in FramesOf(ends2) : f[2] <= n => f \in FramesOf(ends)
  <2>1. \A i \in 0 .. n : i \in ends2 <=> i \in ends OBVIOUS
  <2> QED BY <1>1, <2>1
<1> QED BY <1>2, <1>3 DEF FramesTo

\* The last edge up to n, and the next end after it.
LastEdge(ends, n, b) == b \in ends \cup {0} /\ b <= n /\ \A i \in ends : i <= n => i <= b
NextEnd(ends, n, e)  == e \in ends /\ n < e /\ \A i \in ends : i <= n \/ i >= e

\* They are one more frame.
LEMMA FrameAdds ==
  ASSUME NEW ends \in SUBSET Nat, NEW n \in Nat,
         NEW b, LastEdge(ends, n, b), NEW e, NextEnd(ends, n, e)
  PROVE  FramesTo(ends, e) = FramesTo(ends, n) \cup {<<b, e>>}
<1>0. /\ b \in ends \cup {0} /\ b <= n /\ \A i \in ends : i <= n => i <= b
      /\ e \in ends /\ n < e /\ \A i \in ends : i <= n \/ i >= e
  BY DEF LastEdge, NextEnd
<1>1. \A f \in FramesOf(ends) :
         /\ f = <<f[1], f[2]>> /\ f[1] \in ends \cup {0} /\ f[2] \in ends
         /\ f[1] \in Nat /\ f[2] \in Nat /\ f[1] < f[2]
         /\ \A i \in ends : i <= f[1] \/ i >= f[2]
  BY FrameOf
<1>2. b \in Nat /\ e \in Nat BY <1>0
<1>3. <<b, e>> \in FramesOf(ends)
  <2>1. ASSUME NEW i \in ends PROVE i <= b \/ i >= e BY <1>0
  <2> QED BY <1>0, <1>2, <2>1 DEF FramesOf
<1>4. ASSUME NEW f \in FramesOf(ends), f[2] <= e, ~(f[2] <= n) PROVE f = <<b, e>>
  <2>1. f[2] >= e BY <1>0, <1>1, <1>4
  <2>2. f[2] = e BY <1>0, <1>1, <1>2, <1>4, <2>1
  <2>3. f[1] < e BY <1>0, <1>1, <2>2
  <2>4. f[1] \in ends => f[1] <= n BY <1>0, <1>1, <1>2, <2>3
  <2>5. f[1] <= b BY <1>0, <1>1, <1>2, <2>4
  <2>6. b \in ends => b <= f[1] BY <1>0, <1>1, <1>2, <2>2
  <2>7. b <= f[1] BY <1>0, <1>1, <1>2, <2>6
  <2>8. f[1] = b BY <1>0, <1>1, <1>2, <2>5, <2>7
  <2> QED BY <1>1, <2>2, <2>8
<1>5. \A f \in FramesOf(ends) : f[2] <= n => f[2] <= e BY <1>0, <1>1, <1>2
<1>6. <<b, e>>[2] = e OBVIOUS
<1> QED BY <1>0, <1>2, <1>3, <1>4, <1>5, <1>6 DEF FramesTo

LEMMA ShownFinite ==
  ASSUME NEW body, NEW edges, NEW ends \in SUBSET Nat, NEW n \in Nat
  PROVE  /\ IsFiniteSet(ShownTo(body, edges, ends, n))
         /\ Cardinality(ShownTo(body, edges, ends, n)) \in Nat
<1>1. ShownTo(body, edges, ends, n) \subseteq (0 .. n) \X (0 .. n)
  <2> SUFFICES ASSUME NEW f \in ShownTo(body, edges, ends, n) PROVE f \in (0 .. n) \X (0 .. n)
    OBVIOUS
  <2>1. f \in FramesOf(ends) /\ f[2] <= n BY DEF ShownTo
  <2>2. f = <<f[1], f[2]>> /\ f[1] \in Nat /\ f[2] \in Nat /\ f[1] < f[2] BY <2>1, FrameOf
  <2>3. f[1] \in 0 .. n /\ f[2] \in 0 .. n BY <2>1, <2>2
  <2> QED BY <2>2, <2>3
<1>2. IsFiniteSet(0 .. n) BY FS_Interval
<1>3. IsFiniteSet((0 .. n) \X (0 .. n)) BY <1>2, FS_Product
<1>4. IsFiniteSet(ShownTo(body, edges, ends, n)) BY <1>1, <1>3, FS_Subset
<1> QED BY <1>4, FS_CardinalityType

LEMMA OutputSame ==
  ASSUME NEW body, NEW edges, NEW ends, NEW n, NEW body2, NEW edges2, NEW ends2, NEW n2, NEW output,
         ShownTo(body, edges, ends, n) = ShownTo(body2, edges2, ends2, n2),
         \A f \in ShownTo(body, edges, ends, n) : \A values :
           ValuesOf(body, edges, values, f[1], f[2]) => ValuesOf(body2, edges2, values, f[1], f[2]),
         OutputTo(body, edges, ends, output, n)
  PROVE  OutputTo(body2, edges2, ends2, output, n2)
  BY DEF OutputTo

LEMMA ShownAgrees ==
  ASSUME NEW n \in Nat, NEW body, NEW edges, NEW ends, NEW body2, NEW edges2, NEW ends2,
         \A i \in 1 .. n : body[i] = body2[i],
         \A i \in 0 .. n : i \in edges <=> i \in edges2,
         \A i \in 0 .. n : i \in ends <=> i \in ends2,
         EndsOf(body, ends), EndsOf(body2, ends2)
  PROVE  ShownTo(body, edges, ends, n) = ShownTo(body2, edges2, ends2, n)
<1>1. ends \subseteq Nat /\ ends2 \subseteq Nat BY DEF EndsOf
<1>2. FramesTo(ends, n) = FramesTo(ends2, n)
  BY <1>1, FramesAgree
<1>3. ASSUME NEW f \in FramesOf(ends), f[2] <= n
      PROVE  Worth(body, edges, f[1], f[2]) <=> Worth(body2, edges2, f[1], f[2])
  <2>1. f[1] \in Nat /\ f[2] \in Nat /\ f[2] \in ends BY <1>1, FrameOf
  <2>2. f[2] \in 1 .. n /\ f[2] \notin LinesOf(body, edges, f[1], f[2])
    <3>1. f[2] # 0 /\ body[f[2]] # "data:" BY <2>1 DEF EndsOf
    <3>2. f[2] \in 1 .. n BY <1>3, <2>1, <3>1
    <3> QED BY <3>1, <3>2 DEF LinesOf
  <2> QED BY <2>1, <2>2, WorthAgrees
<1> QED BY <1>2, <1>3 DEF ShownTo, FramesTo

LEMMA OutputAgrees ==
  ASSUME NEW n \in Nat, NEW body \in Seq(Bytes), NEW edges, NEW ends,
         NEW body2 \in Seq(Bytes), NEW edges2, NEW ends2, n <= Len(body), n <= Len(body2),
         \A i \in 1 .. n : body[i] = body2[i],
         \A i \in 0 .. n : i \in edges <=> i \in edges2,
         \A i \in 0 .. n : i \in ends <=> i \in ends2,
         EndsOf(body, ends), EndsOf(body2, ends2),
         NEW output, OutputTo(body, edges, ends, output, n)
  PROVE  OutputTo(body2, edges2, ends2, output, n)
<1>1. ShownTo(body, edges, ends, n) = ShownTo(body2, edges2, ends2, n) BY ShownAgrees
<1>2. ASSUME NEW f \in ShownTo(body, edges, ends, n), NEW values,
             ValuesOf(body, edges, values, f[1], f[2])
      PROVE  ValuesOf(body2, edges2, values, f[1], f[2])
  <2>1. f \in FramesOf(ends) /\ f[2] <= n BY DEF ShownTo
  <2>2. ends \subseteq Nat BY DEF EndsOf
  <2>3. f[1] \in Nat /\ f[2] \in Nat BY <2>1, <2>2, FrameOf
  <2>4. f[2] \in 0 .. n BY <2>1, <2>3
  <2> QED BY <1>2, <2>3, <2>4, ValuesAgree
<1> QED BY <1>1, <1>2, OutputSame

\* Bytes that end no frame show nothing, and neither does a frame that is not worth it.
LEMMA OutputStays ==
  ASSUME NEW body, NEW edges, NEW ends \in SUBSET Nat, NEW n \in Nat, NEW m \in Nat, n <= m,
         \A f \in FramesOf(ends) : f[2] <= m => f[2] <= n \/ ~Worth(body, edges, f[1], f[2]),
         NEW output, OutputTo(body, edges, ends, output, n)
  PROVE  OutputTo(body, edges, ends, output, m)
<1>1. \A f \in FramesOf(ends) : f[2] <= n => f[2] <= m
  <2> SUFFICES ASSUME NEW f \in FramesOf(ends), f[2] <= n PROVE f[2] <= m OBVIOUS
  <2>1. f[2] \in Nat BY FrameOf
  <2> QED BY <2>1
<1>2. ShownTo(body, edges, ends, n) = ShownTo(body, edges, ends, m) BY <1>1 DEF ShownTo
<1> QED BY <1>2, OutputSame

LEMMA OutputAdds ==
  ASSUME NEW body, NEW edges, NEW ends \in SUBSET Nat, NEW n \in Nat, NEW e \in Nat, n < e,
         NEW b, FramesTo(ends, e) = FramesTo(ends, n) \cup {<<b, e>>},
         Worth(body, edges, b, e),
         NEW S, NEW output \in Seq(S), OutputTo(body, edges, ends, output, n),
         NEW values \in S, ValuesOf(body, edges, values, b, e)
  PROVE  OutputTo(body, edges, ends, Append(output, values), e)
<1> DEFINE T == ShownTo(body, edges, ends, n)
           U == ShownTo(body, edges, ends, e)
           new == <<b, e>>
           count == Cardinality(T)
<1>1. new[1] = b /\ new[2] = e OBVIOUS
<1>2. U = T \cup {new}
  <2>1. U = {f \in FramesTo(ends, e) : Worth(body, edges, f[1], f[2])} BY DEF ShownTo, FramesTo
  <2>2. T = {f \in FramesTo(ends, n) : Worth(body, edges, f[1], f[2])} BY DEF ShownTo, FramesTo
  <2> HIDE DEF T, U, new
  <2>3. FramesTo(ends, e) = FramesTo(ends, n) \cup {new} BY DEF new
  <2>4. Worth(body, edges, new[1], new[2]) BY <1>1
  <2> QED BY <2>1, <2>2, <2>3, <2>4
<1>3. \A f \in T : f[2] \in Nat /\ f[2] <= n
  <2> SUFFICES ASSUME NEW f \in T PROVE f[2] \in Nat /\ f[2] <= n OBVIOUS
  <2>1. f \in FramesOf(ends) /\ f[2] <= n BY DEF ShownTo
  <2> QED BY <2>1, FrameOf
<1>4. new \notin T
  <2> HIDE DEF T, new
  <2> QED BY <1>1, <1>3
<1>5. IsFiniteSet(T) /\ count \in Nat BY ShownFinite
<1>6. Cardinality(U) = count + 1
  <2> HIDE DEF T, U, new
  <2> QED BY <1>2, <1>4, <1>5, FS_AddElement
<1>7. Len(output) = count BY DEF OutputTo
<1>8. /\ Len(Append(output, values)) = count + 1 /\ Append(output, values)[count + 1] = values
      /\ \A i \in 1 .. count : Append(output, values)[i] = output[i]
  <2> HIDE DEF count
  <2> QED BY <1>5, <1>7, AppendProperties
<1>9. ASSUME NEW f \in T
      PROVE  ValuesOf(body, edges, Append(output, values)[Cardinality({g \in U : g[2] <= f[2]})], f[1], f[2])
  <2> DEFINE P == {g \in T : g[2] <= f[2]}
  <2>1. {g \in U : g[2] <= f[2]} = P
    <3> HIDE DEF T, U, new
    <3>1. ~(new[2] <= f[2]) BY <1>1, <1>3
    <3> QED BY <1>2, <3>1
  <2>2. ValuesOf(body, edges, output[Cardinality(P)], f[1], f[2]) BY DEF OutputTo
  <2>3. Cardinality(P) \in 1 .. count
    <3> HIDE DEF T
    <3>1. P \subseteq T /\ f \in P BY <1>3
    <3> HIDE DEF P
    <3>2. IsFiniteSet(P) /\ Cardinality(P) <= count BY <1>5, <3>1, FS_Subset
    <3>3. Cardinality(P) \in Nat BY <3>2, FS_CardinalityType
    <3>4. Cardinality(P) # 0 BY <3>1, <3>2, FS_EmptySet
    <3> HIDE DEF count
    <3> QED BY <1>5, <3>2, <3>3, <3>4
  <2> HIDE DEF T, U, P, count
  <2>4. Append(output, values)[Cardinality(P)] = output[Cardinality(P)] BY <1>8, <2>3
  <2> QED BY <2>1, <2>2, <2>4
<1>10. ValuesOf(body, edges, Append(output, values)[Cardinality({g \in U : g[2] <= new[2]})], new[1], new[2])
  <2>1. {g \in U : g[2] <= new[2]} = U
    <3> HIDE DEF T, U, new
    <3>1. \A g \in T : g[2] <= new[2] BY <1>1, <1>3
    <3>2. new[2] <= new[2] BY <1>1
    <3> QED BY <1>2, <3>1, <3>2
  <2> HIDE DEF T, U, count, new
  <2> QED BY <1>1, <1>6, <1>8, <2>1
<1>11. \A f \in U :
         ValuesOf(body, edges, Append(output, values)[Cardinality({g \in U : g[2] <= f[2]})], f[1], f[2])
  <2> HIDE DEF T, U, count, new
  <2> QED BY <1>2, <1>9, <1>10
<1>12. Len(Append(output, values)) = Cardinality(U)
  <2> HIDE DEF T, U, count, new
  <2> QED BY <1>6, <1>8
<1> HIDE DEF T, count, new
<1> QED BY <1>11, <1>12 DEF OutputTo

(***************************************************************************)
(* The body of a state.                                                    *)
(***************************************************************************)
\* The reference's words for the body received so far.
LEMMA WordsOfBody ==
  /\ Frames = FramesOf(FrameEnds)
  /\ \A b, e : DataLines(b, e) = LinesOf(fed, Edges, b, e)
  /\ \A values, b, e : AreValues(values, b, e) <=> ValuesOf(fed, Edges, values, b, e)
  /\ \A b, e : HasData(b, e) <=> Worth(fed, Edges, b, e)
<1>1. Frames = FramesOf(FrameEnds) BY DEF Frames, FramesOf, FrameEdges
<1>2. \A b, e : DataLines(b, e) = LinesOf(fed, Edges, b, e) BY DEF DataLines, LinesOf
<1>3. \A values, b, e : AreValues(values, b, e) <=> ValuesOf(fed, Edges, values, b, e)
  BY <1>2 DEF AreValues, ValuesOf
<1>4. \A b, e : HasData(b, e) <=> Worth(fed, Edges, b, e) BY <1>2 DEF HasData, Worth
<1> QED BY <1>1, <1>2, <1>3, <1>4

\* They depend on nothing else.
LEMMA SameBody ==
  ASSUME fed' = fed, over' = over
  PROVE  /\ Breaks' = Breaks /\ Edges' = Edges
         /\ FrameEnds' = FrameEnds /\ FrameEdges' = FrameEdges /\ Frames' = Frames
<1>1. Breaks' = Breaks BY DEF Breaks
<1>2. Edges' = Edges BY <1>1 DEF Edges
<1>3. FrameEnds' = FrameEnds BY <1>1, <1>2 DEF FrameEnds, TextEnd
<1>4. FrameEdges' = FrameEdges BY <1>3 DEF FrameEdges
<1>5. Frames' = Frames BY <1>3, <1>4 DEF Frames
<1> QED BY <1>1, <1>2, <1>3, <1>4, <1>5

\* The verdict on a body that does not change any more.
LEMMA SameVerdict ==
  ASSUME fed' = fed, over' = over, out' = out
  PROVE  (FramesAreShown <=> FramesAreShown') /\ (Broken <=> Broken')
<1>1. Edges' = Edges /\ FrameEdges' = FrameEdges /\ Frames' = Frames BY SameBody
<1>2. \A b, e : DataLines(b, e)' = DataLines(b, e) BY <1>1 DEF DataLines
<1>3. \A b, e : HasData(b, e)' <=> HasData(b, e) BY <1>2 DEF HasData
<1>4. Shown' = Shown BY <1>1, <1>3 DEF Shown, TooLong
<1>5. \A values, b, e : AreValues(values, b, e)' <=> AreValues(values, b, e) BY <1>2 DEF AreValues
<1>6. FramesAreShown <=> FramesAreShown' BY <1>4, <1>5 DEF FramesAreShown
<1>7. Broken <=> Broken' BY <1>1 DEF Broken, TooLong
<1> QED BY <1>6, <1>7

LEMMA BodyFacts ==
  ASSUME fed \in Seq(Bytes)
  PROVE  /\ Breaks \subseteq 1 .. Len(fed) /\ Edges \subseteq 0 .. Len(fed)
         /\ FrameEnds \subseteq Breaks /\ FrameEdges \subseteq Edges
         /\ \A i \in Breaks : /\ TextEnd(i) \in 0 .. i - 1
                              /\ TextEnd(i) + 1 \in 1 .. Len(fed)
                              /\ ~IsText(fed[TextEnd(i) + 1]) /\ ~IsText(fed[i])
         /\ EndsOf(fed, FrameEnds)
<1>1. Breaks \subseteq 1 .. Len(fed) BY DEF Breaks
<1>2. Edges \subseteq 0 .. Len(fed)
  <2>1. Len(fed) \in Nat BY LenProperties
  <2> QED BY <1>1, <2>1 DEF Edges
<1>3. FrameEnds \subseteq Breaks /\ FrameEdges \subseteq Edges BY DEF FrameEnds, FrameEdges, Edges
<1>4. ASSUME NEW i \in Breaks
      PROVE  /\ TextEnd(i) \in 0 .. i - 1
             /\ TextEnd(i) + 1 \in 1 .. Len(fed)
             /\ ~IsText(fed[TextEnd(i) + 1]) /\ ~IsText(fed[i])
  <2>1. i \in 1 .. Len(fed) /\ fed[i] \in {"LF", "CR"} BY <1>1 DEF Breaks
  <2>2. CASE i > 1 /\ fed[i] = "LF" /\ fed[i - 1] = "CR"
    <3>1. TextEnd(i) = i - 2 /\ TextEnd(i) + 1 = i - 1 BY <2>1, <2>2 DEF TextEnd
    <3> QED BY <2>1, <2>2, <3>1 DEF IsText
  <2>3. CASE ~(i > 1 /\ fed[i] = "LF" /\ fed[i - 1] = "CR")
    <3>1. TextEnd(i) = i - 1 /\ TextEnd(i) + 1 = i BY <2>1, <2>3 DEF TextEnd
    <3> QED BY <2>1, <3>1 DEF IsText
  <2> QED BY <2>2, <2>3
<1>5. EndsOf(fed, FrameEnds)
  <2>1. \A i \in FrameEnds : i \in 1 .. Len(fed) /\ ~IsText(fed[i]) BY <1>1, <1>3, <1>4
  <2> QED BY <2>1 DEF EndsOf, IsText
<1> QED BY <1>1, <1>2, <1>3, <1>4, <1>5

\* Where the line ends whose text is the n bytes behind the edge p.
Terminated(p, n, e) ==
  /\ e \in Breaks /\ p + n < e /\ TextEnd(e) = p + n
  /\ \A i \in p + 1 .. e - 1 : i \notin Breaks

LEMMA TextIsNoBreak == ASSUME NEW i, IsText(fed[i]) PROVE i \notin Breaks
  BY DEF IsText, Breaks

LEMMA EndsWithLf ==
  ASSUME fed \in Seq(Bytes), NEW p \in Edges, NEW n \in Nat,
         \A i \in p + 1 .. p + n : IsText(fed[i]),
         p + n + 1 \in 1 .. Len(fed), fed[p + n + 1] = "LF"
  PROVE  Terminated(p, n, p + n + 1)
<1> DEFINE e == p + n + 1
<1>0. p \in Nat BY BodyFacts
<1>1. e \in Breaks BY DEF Breaks
<1>2. \A i \in p + 1 .. e - 1 : i \notin Breaks BY <1>0, TextIsNoBreak
<1>3. ASSUME e > 1 PROVE fed[e - 1] # "CR"
  <2>1. CASE n = 0
    <3>1. e - 1 = p /\ p \in Breaks /\ p + 1 = e BY <1>0, <1>3, <2>1 DEF Edges
    <3> HIDE DEF e
    <3> QED BY <1>0, <3>1 DEF Breaks, e
  <2>2. CASE n # 0
    <3>1. e - 1 \in p + 1 .. p + n BY <1>0, <2>2
    <3> QED BY <3>1 DEF IsText
  <2> QED BY <2>1, <2>2
<1>4. TextEnd(e) = e - 1 BY <1>3 DEF TextEnd
<1>5. e - 1 = p + n /\ p + n < e BY <1>0
<1> QED BY <1>1, <1>2, <1>4, <1>5 DEF Terminated

LEMMA EndsWithCrLf ==
  ASSUME fed \in Seq(Bytes), NEW p \in Edges, NEW n \in Nat,
         \A i \in p + 1 .. p + n : IsText(fed[i]),
         p + n + 2 \in 1 .. Len(fed), fed[p + n + 1] = "CR", fed[p + n + 2] = "LF"
  PROVE  Terminated(p, n, p + n + 2)
<1> DEFINE e == p + n + 2
<1>0. p \in Nat BY BodyFacts
<1>1. e \in Breaks BY DEF Breaks
<1>2. p + n + 1 \notin Breaks
  <2>1. (p + n + 1) + 1 = p + n + 2 /\ p + n + 1 # Len(fed) BY <1>0
  <2> QED BY <2>1 DEF Breaks
<1>3. ASSUME NEW i \in p + 1 .. e - 1 PROVE i \notin Breaks
  <2>1. i \in p + 1 .. p + n \/ i = p + n + 1 BY <1>0
  <2> QED BY <1>2, <2>1, TextIsNoBreak
<1>4. e > 1 /\ e - 1 = p + n + 1 /\ e - 2 = p + n /\ p + n < e BY <1>0
<1>5. TextEnd(e) = p + n
  <2>1. fed[e] = "LF" /\ fed[e - 1] = "CR" BY <1>4
  <2> QED BY <1>4, <2>1 DEF TextEnd
<1> QED BY <1>1, <1>3, <1>4, <1>5 DEF Terminated

LEMMA EndsWithCr ==
  ASSUME fed \in Seq(Bytes), NEW p \in Edges, NEW n \in Nat,
         \A i \in p + 1 .. p + n : IsText(fed[i]),
         p + n + 1 \in 1 .. Len(fed), fed[p + n + 1] = "CR",
         IF p + n + 1 = Len(fed) THEN over ELSE fed[p + n + 2] # "LF"
  PROVE  Terminated(p, n, p + n + 1)
<1> DEFINE e == p + n + 1
<1>0. p \in Nat BY BodyFacts
<1>1. e \in Breaks
  <2>1. (p + n + 1) + 1 = p + n + 2 BY <1>0
  <2> QED BY <2>1 DEF Breaks
<1>2. \A i \in p + 1 .. e - 1 : i \notin Breaks BY <1>0, TextIsNoBreak
<1>4. TextEnd(e) = e - 1 BY DEF TextEnd
<1>5. e - 1 = p + n /\ p + n < e BY <1>0
<1> QED BY <1>1, <1>2, <1>4, <1>5 DEF Terminated

\* What was shown up to Read is all there is to show.
LEMMA AllShown ==
  ASSUME FrameRead, Shown = ShownTo(fed, Edges, FrameEnds, Read)
  PROVE  FramesAreShown
<1>1. OutputTo(fed, Edges, FrameEnds, out, Read) BY DEF FrameRead
<1> HIDE DEF Read
<1> QED BY <1>1, WordsOfBody DEF OutputTo, FramesAreShown

\* No frame ends behind Read: the frames are those that were read.
LEMMA RestIsShown ==
  ASSUME fed \in Seq(Bytes), Read \in Nat, frameBytes \in Nat, FrameRead, \A i \in FrameEnds : i <= Read
  PROVE  FramesAreShown /\ ~\E f \in Frames : TooLong(f)
<1>1. Frames = FramesOf(FrameEnds) /\ \A b, e : HasData(b, e) <=> Worth(fed, Edges, b, e)
  BY WordsOfBody
<1>2. \A f \in Frames : f[2] <= Read
  <2>1. FrameEnds \subseteq Nat BY BodyFacts
  <2> SUFFICES ASSUME NEW f \in Frames PROVE f[2] <= Read OBVIOUS
  <2>2. f[2] \in FrameEnds BY <1>1, <2>1, FrameOf
  <2> QED BY <2>2
<1>3. \A f \in Frames : ~TooLong(f) BY <1>2 DEF FrameRead
<1>4. Shown = ShownTo(fed, Edges, FrameEnds, Read)
  <2> HIDE DEF Read
  <2> QED BY <1>1, <1>2, <1>3 DEF Shown, ShownTo
<1> QED BY <1>3, <1>4, AllShown

\* The frame is longer than its limit before it ends.
LEMMA LongIsRefused ==
  ASSUME fed \in Seq(Bytes), Read \in Nat, frameBytes \in Nat, FrameRead,
         NEW n \in Nat, Read <= n, n <= Len(fed), n - Start > MaxFrame,
         \A i \in FrameEnds : i <= Read \/ i >= n
  PROVE  FramesAreShown /\ Broken
<1> DEFINE Later == {i \in FrameEnds : i > Read}
<1>1. /\ Frames = FramesOf(FrameEnds) /\ \A b, e : HasData(b, e) <=> Worth(fed, Edges, b, e)
      /\ FrameEnds \subseteq Nat \ {0} /\ Len(fed) \in Nat
  <2>1. FrameEnds \subseteq 1 .. Len(fed) BY BodyFacts
  <2> QED BY <2>1, WordsOfBody
<1>2. /\ Start \in FrameEnds \cup {0} /\ Start \in Nat /\ Start <= Read
      /\ \A i \in FrameEnds : i <= Read => i <= Start
      /\ \A f \in Frames : f[2] <= Read => ~TooLong(f)
  <2>1. Start \in FrameEnds \cup {0} BY DEF FrameRead, FrameEdges
  <2>2. Start \in Nat BY <1>1, <2>1
  <2>3. Start <= Read BY DEF Start
  <2> QED BY <2>1, <2>2, <2>3 DEF FrameRead
<1>3. MaxFrame \in Nat BY FramingAssumption
<1> HIDE DEF Read, Start
<1>4. CASE Later = {}
  <2>1. \A i \in FrameEnds : i <= Read BY <1>1, <1>4
  <2>2. FramesAreShown BY <2>1, RestIsShown
  <2>3. ASSUME NEW b \in FrameEdges PROVE Len(fed) - b > MaxFrame
    <3>1. b \in Nat /\ b <= Start BY <1>1, <1>2, <2>1 DEF FrameEdges
    <3> QED BY <1>1, <1>2, <1>3, <3>1
  <2> QED BY <2>2, <2>3 DEF Broken
<1>5. CASE Later # {}
  <2>1. PICK e \in Later : \A i \in Later : e <= i
    <3>1. Later \subseteq Nat BY <1>1
    <3> HIDE DEF Later
    <3> QED BY <1>5, <3>1, LeastOf
  <2>2. e \in FrameEnds /\ e \in Nat /\ e > Read /\ e >= n BY <1>1, <2>1
  <2>3. \A i \in FrameEnds : i <= Read \/ i >= e BY <1>1, <2>1
  <2>4. FramesTo(FrameEnds, e) =
          FramesTo(FrameEnds, Read) \cup {<<Start, e>>}
    <3>1. LastEdge(FrameEnds, Read, Start) BY <1>2 DEF LastEdge
    <3>2. NextEnd(FrameEnds, Read, e) BY <2>2, <2>3 DEF NextEnd
    <3>3. FrameEnds \subseteq Nat BY <1>1
    <3> QED BY <3>1, <3>2, <3>3, FrameAdds
  <2>5. <<Start, e>> \in Frames /\ TooLong(<<Start, e>>)
    <3>1. e - Start > MaxFrame BY <1>2, <1>3, <2>2
    <3> QED BY <1>1, <2>4, <3>1 DEF TooLong, FramesTo
  <2>6. ASSUME NEW f \in Frames
        PROVE  (\A g \in Frames : g[2] <= f[2] => ~TooLong(g)) <=> f[2] <= Read
    <3>1. f[2] \in FrameEnds /\ f[2] \in Nat BY <1>1, FrameOf
    <3>2. CASE f[2] <= Read
      <4>1. ASSUME NEW g \in Frames, g[2] <= f[2] PROVE g[2] <= Read
        <5>1. g[2] \in Nat BY <1>1, FrameOf
        <5> QED BY <3>1, <3>2, <4>1, <5>1
      <4> QED BY <1>2, <3>2, <4>1
    <3>3. CASE ~(f[2] <= Read)
      <4>1. e <= f[2] BY <2>3, <3>1, <3>3
      <4>2. <<Start, e>>[2] = e OBVIOUS
      <4> QED BY <2>5, <3>3, <4>1, <4>2
    <3> QED BY <3>2, <3>3
  <2>7. Shown = ShownTo(fed, Edges, FrameEnds, Read) BY <1>1, <2>6 DEF Shown, ShownTo
  <2>8. FramesAreShown BY <2>7, AllShown
  <2> QED BY <2>5, <2>8 DEF Broken
<1> QED BY <1>4, <1>5

\* What was read of a body stays read when more of it arrives, or its end.
LEMMA ReadStays ==
  ASSUME fed \in Seq(Bytes), fed' \in Seq(Bytes), Read \in 0 .. Len(fed), frameBytes \in Nat,
         FrameRead, ~over, Len(fed) <= Len(fed'), \A i \in 1 .. Len(fed) : fed'[i] = fed[i],
         Read' = Read, frameBytes' = frameBytes, data' = data, out' = out
  PROVE  FrameRead'
<1>0. Len(fed) \in Nat /\ Len(fed') \in Nat /\ Read \in Nat BY LenProperties
<1>1. Start' = Start /\ Start \in Nat /\ Start <= Read /\ Start \in FrameEdges
  <2>1. Start \in FrameEdges BY DEF FrameRead
  <2>2. Start \in 0 .. Len(fed) BY <2>1, BodyFacts
  <2> QED BY <1>0, <2>1, <2>2 DEF Start
<1>2. Read \in Edges /\ ValuesOf(fed, Edges, data, Start, Read) BY DEF FrameRead, Cut
<1> HIDE DEF Read, Start
<1>3. ASSUME NEW i \in 1 .. Read PROVE i \in Breaks <=> i \in Breaks'
  <2>0. i \in 1 .. Len(fed) /\ i \in 1 .. Len(fed') /\ fed'[i] = fed[i] BY <1>0
  <2>1. i \in Breaks <=> fed[i] = "LF" \/ (fed[i] = "CR" /\ IF i = Len(fed) THEN over ELSE fed[i + 1] # "LF")
    BY <2>0 DEF Breaks
  <2>2. i \in Breaks' <=> fed'[i] = "LF" \/ (fed'[i] = "CR" /\ IF i = Len(fed') THEN over' ELSE fed'[i + 1] # "LF")
    BY <2>0 DEF Breaks
  <2>3. CASE i < Len(fed)
    <3>1. i # Len(fed) /\ i # Len(fed') /\ i + 1 \in 1 .. Len(fed) BY <1>0, <2>0, <2>3
    <3> QED BY <2>0, <2>1, <2>2, <3>1
  <2>4. CASE i = Len(fed)
    <3>1. i = Read BY <1>0, <2>4
    <3>2. i \in Breaks BY <1>2, <3>1 DEF Edges
    <3>3. fed[i] = "LF" BY <2>1, <2>4, <3>2
    <3> QED BY <2>0, <2>2, <3>2, <3>3
  <2> QED BY <1>0, <2>0, <2>3, <2>4
<1>4. \A i \in 0 .. Read : i \in Edges <=> i \in Edges' BY <1>0, <1>3 DEF Edges
<1>5. ASSUME NEW i \in 0 .. Read PROVE i \in FrameEnds <=> i \in FrameEnds'
  <2>1. CASE i = 0
    <3>1. 0 \notin FrameEnds /\ 0 \notin FrameEnds' BY DEF FrameEnds, Breaks
    <3> QED BY <2>1, <3>1
  <2>2. CASE i # 0
    <3>1. i \in 1 .. Read BY <1>0, <2>2
    <3>2. TextEnd(i)' = TextEnd(i)
      <4>1. i \in 1 .. Len(fed) BY <1>0, <3>1
      <4>2. i > 1 => i - 1 \in 1 .. Len(fed) BY <1>0, <4>1
      <4> QED BY <4>1, <4>2 DEF TextEnd
    <3>3. i \in Breaks => TextEnd(i) \in 0 .. Read
      <4>1. i \in Breaks => TextEnd(i) \in 0 .. i - 1 BY BodyFacts
      <4> QED BY <1>0, <3>1, <4>1
    <3>4. i \in FrameEnds <=> i \in Breaks /\ TextEnd(i) \in Edges BY DEF FrameEnds
    <3>5. i \in FrameEnds' <=> i \in Breaks' /\ TextEnd(i)' \in Edges' BY DEF FrameEnds
    <3> QED BY <1>3, <1>4, <3>1, <3>2, <3>3, <3>4, <3>5
  <2> QED BY <2>1, <2>2
<1>6. /\ FrameEnds \subseteq Nat /\ FrameEnds' \subseteq Nat
      /\ EndsOf(fed, FrameEnds) /\ EndsOf(fed', FrameEnds')
  <2>1. FrameEnds \subseteq 1 .. Len(fed) /\ EndsOf(fed, FrameEnds) BY BodyFacts
  <2>2. FrameEnds' \subseteq 1 .. Len(fed') /\ EndsOf(fed', FrameEnds')
    <3>1. EndsOf(fed', FrameEnds')
      <4>1. \A i \in FrameEnds' : i \in 1 .. Len(fed') /\ fed'[i] \in {"LF", "CR"}
        BY DEF FrameEnds, Breaks
      <4> QED BY <1>0, <4>1 DEF EndsOf
    <3>2. FrameEnds' \subseteq 1 .. Len(fed') BY DEF FrameEnds, Breaks
    <3> QED BY <3>1, <3>2
  <2> QED BY <2>1, <2>2
<1>7. Start' \in FrameEdges'
  <2>1. Start \in 0 .. Read BY <1>0, <1>1
  <2> QED BY <1>1, <1>5, <2>1 DEF FrameEdges
<1>8. \A i \in FrameEnds' : i <= Read' => i <= Start'
  <2> SUFFICES ASSUME NEW i \in FrameEnds', i <= Read' PROVE i <= Start' OBVIOUS
  <2>1. i \in 0 .. Read BY <1>0, <1>6
  <2>2. i \in FrameEnds BY <1>5, <2>1
  <2> QED BY <1>1, <2>1, <2>2 DEF FrameRead
<1>9. \A f \in Frames' : f[2] <= Read' => ~TooLong(f)'
  <2>1. FramesTo(FrameEnds, Read) = FramesTo(FrameEnds', Read)
    BY <1>0, <1>5, <1>6, FramesAgree
  <2>2. Frames = FramesOf(FrameEnds) BY WordsOfBody
  <2>3. Frames' = FramesOf(FrameEnds') BY DEF Frames, FrameEdges, FramesOf
  <2>4. \A f : TooLong(f)' <=> TooLong(f) BY DEF TooLong
  <2> QED BY <2>1, <2>2, <2>3, <2>4 DEF FrameRead, FramesTo
<1>10. Read' \in Edges' /\ ValuesOf(fed', Edges', data', Start', Read')
  <2>1. Read \in Edges' BY <1>0, <1>2, <1>4
  <2>2. Read <= Len(fed) /\ Read <= Len(fed') /\ Read \in 0 .. Read /\ \A i \in 1 .. Read : fed[i] = fed'[i] BY <1>0
  <2>3. ValuesOf(fed', Edges', data, Start, Read)
    BY <1>0, <1>1, <1>2, <1>4, <2>2, ValuesAgree
  <2> QED BY <1>1, <2>1, <2>3
<1>11. OutputTo(fed', Edges', FrameEnds', out', Read')
  <2>1. OutputTo(fed, Edges, FrameEnds, out, Read) BY DEF FrameRead
  <2>2. Read <= Len(fed) /\ Read <= Len(fed') /\ \A i \in 1 .. Read : fed[i] = fed'[i] BY <1>0
  <2>3. OutputTo(fed', Edges', FrameEnds', out, Read)
    BY <1>0, <1>4, <1>5, <1>6, <2>1, <2>2, OutputAgrees
  <2> QED BY <2>3
<1> QED BY <1>7, <1>8, <1>9, <1>10, <1>11 DEF FrameRead

\* A line with its terminator is read: it ends the frame, or belongs to it.
LEMMA LineIsRead ==
  ASSUME fed \in Seq(Bytes), FrameTypes, Read \in Nat, frameBytes \in Nat, FrameRead, ~Cut,
         NEW line \in Seq(Bytes), NEW e \in Nat, Terminated(Read, Len(line), e),
         \A k \in 1 .. Len(line) : line[k] = fed[Read + k] /\ IsText(line[k]),
         frameBytes + (e - Read) <= MaxFrame, Consume(line, e - Read),
         fed' = fed, over' = over, Read' = e
  PROVE  FrameRead' /\ FrameTypes'
<1>0. /\ Breaks' = Breaks /\ Edges' = Edges
      /\ FrameEnds' = FrameEnds /\ FrameEdges' = FrameEdges /\ Frames' = Frames
  BY SameBody
<1>1. /\ Read \in Edges /\ ValuesOf(fed, Edges, data, Start, Read)
      /\ Start \in FrameEdges /\ \A i \in FrameEnds : i <= Read => i <= Start
      /\ \A f \in Frames : f[2] <= Read => ~TooLong(f)
      /\ OutputTo(fed, Edges, FrameEnds, out, Read)
  BY DEF FrameRead
<1>2. /\ Len(fed) \in Nat /\ Edges \subseteq 0 .. Len(fed) /\ Breaks \subseteq 1 .. Len(fed)
      /\ FrameEnds \subseteq Breaks /\ FrameEdges \subseteq Edges
      /\ FrameEnds \in SUBSET Nat /\ Frames = FramesOf(FrameEnds)
  <2>1. /\ Edges \subseteq 0 .. Len(fed) /\ Breaks \subseteq 1 .. Len(fed)
        /\ FrameEnds \subseteq Breaks /\ FrameEdges \subseteq Edges
    BY BodyFacts
  <2>2. FrameEnds \in SUBSET Nat
    <3>1. \A i \in 1 .. Len(fed) : i \in Nat OBVIOUS
    <3> QED BY <2>1, <3>1
  <2> QED BY <2>1, <2>2, LenProperties, WordsOfBody
<1>3. /\ e \in Breaks /\ Read + Len(line) < e /\ TextEnd(e) = Read + Len(line)
      /\ \A i \in Read + 1 .. e - 1 : i \notin Breaks
      /\ e \in 1 .. Len(fed) /\ Read < e /\ Len(line) \in Nat
  <2>1. e \in Breaks /\ Read + Len(line) < e /\ TextEnd(e) = Read + Len(line)
    BY DEF Terminated
  <2>2. \A i \in Read + 1 .. e - 1 : i \notin Breaks BY DEF Terminated
  <2>3. Len(line) \in Nat BY LenProperties
  <2>4. e \in 1 .. Len(fed) BY <1>2, <2>1
  <2>5. Read < e BY <2>1, <2>3
  <2> QED BY <2>1, <2>2, <2>3, <2>4, <2>5
<1>4. Start \in Nat /\ Start <= Read /\ Start + frameBytes = Read
  <2>1. Start \in 0 .. Len(fed) BY <1>1, <1>2
  <2> QED BY <1>2, <2>1 DEF Start
<1>5. Read + Len(line) + 1 \in Read + 1 .. e /\ ~IsText(fed[Read + Len(line) + 1])
  <2>1. ~IsText(fed[TextEnd(e) + 1]) BY <1>3, BodyFacts
  <2> QED BY <1>3, <2>1
<1>6. Start' = Read' - frameBytes' BY DEF Start
<1>7. MaxFrame \in Nat BY FramingAssumption
<1> HIDE DEF Read, Start
<1>8. CASE line = <<>>
  <2>1. Len(line) = 0 BY <1>8
  <2>2. e \in FrameEnds BY <1>1, <1>3, <2>1 DEF FrameEnds
  <2>3. fed[Read + 1] # "data:" BY <1>5, <2>1 DEF IsText
  <2>4. Dispatch BY <1>3, <1>7, <1>8 DEF Consume
  <2>5. data' = <<>> /\ frameBytes' = 0 /\ Start' = e BY <1>6, <2>4 DEF Dispatch
  <2>6. FramesTo(FrameEnds, e) = FramesTo(FrameEnds, Read) \cup {<<Start, e>>}
    <3>1. LastEdge(FrameEnds, Read, Start) BY <1>1, <1>4 DEF LastEdge, FrameEdges
    <3>2. \A i \in FrameEnds : i <= Read \/ i >= e
      <4> SUFFICES ASSUME NEW i \in FrameEnds, ~(i <= Read), ~(i >= e) PROVE FALSE OBVIOUS
      <4>1. i \in Read + 1 .. e - 1 BY <1>2
      <4> QED BY <1>2, <1>3, <4>1
    <3>3. NextEnd(FrameEnds, Read, e) BY <1>3, <2>2, <3>2 DEF NextEnd
    <3>4. FrameEnds \in SUBSET Nat BY <1>2
    <3> QED BY <3>1, <3>3, <3>4, FrameAdds
  <2>7. ~TooLong(<<Start, e>>)
    <3>1. ~(e - Start > MaxFrame) BY <1>4, <1>7
    <3> QED BY <3>1 DEF TooLong
  <2>8. Start' \in FrameEdges' /\ Read' \in Edges' BY <1>0, <1>2, <2>2, <2>5 DEF FrameEdges
  <2>9. \A i \in FrameEnds' : i <= Read' => i <= Start' BY <1>0, <2>5
  <2>10. \A f \in Frames' : f[2] <= Read' => ~TooLong(f)'
    <3>1. \A f \in Frames : f[2] <= e => f[2] <= Read \/ f = <<Start, e>> BY <1>2, <2>6 DEF FramesTo
    <3>2. \A f : TooLong(f)' <=> TooLong(f) BY DEF TooLong
    <3> QED BY <1>0, <1>1, <2>7, <3>1, <3>2
  <2>11. ValuesOf(fed', Edges', data', Start', Read')
    <3>1. LinesOf(fed, Edges, e, e) = {}
      <4>1. e + 1 .. e = {} BY <1>3
      <4> QED BY <4>1 DEF LinesOf
    <3>2. Len(<<>>) = Cardinality(LinesOf(fed, Edges, e, e)) BY <3>1, FS_EmptySet
    <3>3. ValuesOf(fed, Edges, <<>>, e, e) BY <3>1, <3>2 DEF ValuesOf
    <3> QED BY <1>0, <2>5, <3>3
  <2>12. ValuesOf(fed, Edges, data, Start, e)
    <3>1. \A i \in Read + 1 .. e - 1 : i \notin Edges BY <1>3 DEF Edges
    <3> QED BY <1>1, <1>3, <1>4, <2>3, <3>1, ValuesStay
  <2>13. data \in {<<>>, << <<>> >>} <=> ~Worth(fed, Edges, Start, e)
    <3>1. data \in Seq(Seq(Bytes)) BY DEF FrameTypes
    <3>2. e \in 0 .. Len(fed) BY <1>3
    <3> QED BY <1>4, <2>12, <3>1, <3>2, NoWorth
  <2>14. out \in Seq(Seq(Seq(Bytes))) /\ data \in Seq(Seq(Bytes)) BY DEF FrameTypes
  <2>15. OutputTo(fed, Edges, FrameEnds, out', e)
    <3>1. CASE Worth(fed, Edges, Start, e)
      <4>1. out' = Append(out, data) BY <2>4, <2>13, <3>1 DEF Dispatch
      <4>2. OutputTo(fed, Edges, FrameEnds, Append(out, data), e)
        BY <1>1, <1>2, <1>3, <2>6, <2>12, <2>14, <3>1, OutputAdds
      <4> QED BY <4>1, <4>2
    <3>2. CASE ~Worth(fed, Edges, Start, e)
      <4>1. out' = out BY <2>4, <2>13, <3>2 DEF Dispatch
      <4>2. \A f \in FramesOf(FrameEnds) :
              f[2] <= e => f[2] <= Read \/ ~Worth(fed, Edges, f[1], f[2])
        <5>1. \A f \in FramesOf(FrameEnds) : f[2] <= e => f[2] <= Read \/ f = <<Start, e>>
          BY <2>6 DEF FramesTo
        <5>2. <<Start, e>>[1] = Start /\ <<Start, e>>[2] = e OBVIOUS
        <5> QED BY <3>2, <5>1, <5>2
      <4>3. Read <= e BY <1>3
      <4>4. OutputTo(fed, Edges, FrameEnds, out, e) BY <1>1, <1>2, <4>2, <4>3, OutputStays
      <4> QED BY <4>1, <4>4
    <3> QED BY <3>1, <3>2
  <2>16. FrameRead' BY <1>0, <2>8, <2>9, <2>10, <2>11, <2>15 DEF FrameRead
  <2>17. FrameTypes'
    <3>1. out' \in Seq(Seq(Seq(Bytes))) BY <2>4, <2>14 DEF Dispatch
    <3> QED BY <2>5, <3>1 DEF FrameTypes
  <2> QED BY <2>16, <2>17
<1>9. CASE line # <<>>
  <2>1. Len(line) > 0 /\ line[1] = fed[Read + 1] /\ line[1] \in Bytes
    <3>1. Len(line) \in Nat \ {0} BY <1>9, EmptySeq
    <3>2. 1 \in 1 .. Len(line) BY <3>1
    <3>3. line \in [1 .. Len(line) -> Bytes] BY LenProperties
    <3> QED BY <3>1, <3>2, <3>3
  <2>2. /\ data' = IF line[1] = "data:" THEN Append(data, Tail(line)) ELSE data
        /\ frameBytes' = frameBytes + (e - Read) /\ out' = out
    BY <1>3, <1>7, <1>9 DEF Consume
  <2>3. Start' = Start BY <1>3, <1>4, <1>6, <2>2
  <2>4. \A i \in Read + 1 .. e - 1 : i \notin Edges BY <1>3 DEF Edges
  <2>5. e \notin FrameEnds
    <3>1. Read + Len(line) \in Read + 1 .. e - 1 BY <1>3, <2>1
    <3> QED BY <1>3, <2>4, <3>1 DEF FrameEnds
  <2>6. \A i \in FrameEnds : i <= e => i <= Read
    <3> SUFFICES ASSUME NEW i \in FrameEnds, i <= e, ~(i <= Read) PROVE FALSE OBVIOUS
    <3>1. i \in Read + 1 .. e - 1 BY <1>2, <2>5
    <3> QED BY <1>2, <1>3, <3>1
  <2>7. \A f \in FramesOf(FrameEnds) : f[2] <= e => f[2] <= Read
    <3> SUFFICES ASSUME NEW f \in FramesOf(FrameEnds), f[2] <= e PROVE f[2] <= Read OBVIOUS
    <3>1. f[2] \in FrameEnds BY <1>2, FrameOf
    <3> QED BY <2>6, <3>1
  <2>8. OutputTo(fed, Edges, FrameEnds, out, e)
    <3>1. \A f \in FramesOf(FrameEnds) :
            f[2] <= e => f[2] <= Read \/ ~Worth(fed, Edges, f[1], f[2])
      BY <2>7
    <3>2. Read <= e BY <1>3
    <3> QED BY <1>1, <1>2, <3>1, <3>2, OutputStays
  <2>9. data \in Seq(Seq(Bytes)) BY DEF FrameTypes
  <2>10. ValuesOf(fed, Edges, data', Start, e) /\ data' \in Seq(Seq(Bytes))
    <3>1. CASE line[1] = "data:"
      <4> DEFINE t == Read + Len(line) + 1
                 n == Len(line) - 1
      <4>1. n \in Nat /\ n + 1 = Len(line) /\ t - 1 = (Read + 1) + n BY <1>3, <2>1
      <4>2. Tail(line) \in Seq(Bytes) /\ Tail(line) = SubSeq(line, 1 + 1, 1 + n)
        BY <1>9, <4>1
      <4>3. SubSeq(line, 1 + 1, 1 + n) = SubSeq(fed, (Read + 1) + 1, (Read + 1) + n)
        <5>1. ASSUME NEW k \in 1 .. n
              PROVE  line[1 + k] = fed[(Read + 1) + k] /\ line[1 + k] \in Bytes
          <6>1. 1 + k \in 1 .. Len(line) /\ Read + (1 + k) = (Read + 1) + k BY <4>1
          <6> QED BY <6>1
        <5>2. 1 \in Int /\ Read + 1 \in Int OBVIOUS
        <5> HIDE DEF n
        <5> QED BY <4>1, <5>1, <5>2, SameCut
      <4>4. Tail(line) = SubSeq(fed, Read + 2, t - 1)
        <5>1. (Read + 1) + 1 = Read + 2 OBVIOUS
        <5> HIDE DEF n, t
        <5> QED BY <4>1, <4>2, <4>3, <5>1
      <4>5. t \in Read + 2 .. e /\ ~IsText(fed[t]) BY <1>3, <1>5, <2>1
      <4>6. \A k \in Read + 1 .. t - 1 : IsText(fed[k])
        <5> SUFFICES ASSUME NEW k \in Read + 1 .. t - 1 PROVE IsText(fed[k]) OBVIOUS
        <5>1. k - Read \in 1 .. Len(line) /\ Read + (k - Read) = k BY <1>3
        <5> QED BY <5>1
      <4> HIDE DEF t, n
      <4>7. ValuesOf(fed, Edges, Append(data, Tail(line)), Start, e)
        <5>1. /\ Start <= Read /\ Read < e /\ Read \in Edges /\ fed[Read + 1] = "data:"
              /\ ValuesOf(fed, Edges, data, Start, Read)
          BY <1>1, <1>3, <1>4, <2>1, <3>1
        <5>2. Start \in Nat /\ t \in Read + 2 .. e /\ ~IsText(fed[t]) BY <1>4, <4>5
        <5>3. Tail(line) \in Seq(Bytes) BY <4>2
        <5> QED BY <2>4, <2>9, <4>4, <4>6, <5>1, <5>2, <5>3, ValueAdds
      <4> QED BY <2>2, <2>9, <3>1, <4>2, <4>7
    <3>2. CASE line[1] # "data:"
      <4>1. ValuesOf(fed, Edges, data, Start, e)
        BY <1>1, <1>3, <1>4, <2>1, <2>4, <3>2, ValuesStay
      <4> QED BY <2>2, <2>9, <3>2, <4>1
    <3> QED BY <3>1, <3>2
  <2>11. Start' \in FrameEdges' /\ \A i \in FrameEnds' : i <= Read' => i <= Start'
    BY <1>0, <1>1, <2>3, <2>6
  <2>12. \A f \in Frames' : f[2] <= Read' => ~TooLong(f)'
    <3>1. \A f : TooLong(f)' <=> TooLong(f) BY DEF TooLong
    <3> QED BY <1>0, <1>1, <1>2, <2>7, <3>1
  <2>13. Read' \in Edges' /\ ValuesOf(fed', Edges', data', Start', Read')
    BY <1>0, <1>3, <2>3, <2>10 DEF Edges
  <2>14. OutputTo(fed', Edges', FrameEnds', out', Read') BY <1>0, <2>2, <2>8
  <2>15. FrameRead' BY <2>11, <2>12, <2>13, <2>14 DEF FrameRead
  <2>16. FrameTypes' BY <2>2, <2>10 DEF FrameTypes
  <2> QED BY <2>15, <2>16
<1> QED BY <1>8, <1>9

\* A line that does not fit is refused, and so is its body.
LEMMA LineIsRefused ==
  ASSUME fed \in Seq(Bytes), Read \in Nat, frameBytes \in Nat, FrameRead,
         NEW n \in Nat, Read <= n, n <= Len(fed), \A i \in Read + 1 .. n - 1 : i \notin Breaks,
         frameBytes + (n - Read) > MaxFrame,
         fed' = fed, over' = over, out' = out
  PROVE  FramesAreShown' /\ Broken'
<1>1. FrameEnds \subseteq Breaks /\ Breaks \subseteq 1 .. Len(fed) BY BodyFacts
<1>2. \A i \in FrameEnds : i <= Read \/ i >= n
  <2> SUFFICES ASSUME NEW i \in FrameEnds, ~(i <= Read), ~(i >= n) PROVE FALSE OBVIOUS
  <2>0. i \in Int BY <1>1
  <2> HIDE DEF Read
  <2>1. i \in Read + 1 .. n - 1 BY <2>0
  <2> QED BY <1>1, <2>1
<1>3. n - Start > MaxFrame
  <2>1. MaxFrame \in Nat BY FramingAssumption
  <2>2. Start = Read - frameBytes BY DEF Start
  <2> HIDE DEF Read, Start
  <2> QED BY <2>1, <2>2
<1>4. FramesAreShown /\ Broken
  <2> HIDE DEF Read, Start
  <2> QED BY <1>2, <1>3, LongIsRefused
<1> QED BY <1>4, SameVerdict

(***************************************************************************)
(* The steps of the parser.                                                *)
(***************************************************************************)
\* The bytes received are those read, those pending and those of the chunk.
LEMMA BytesOfBody ==
  ASSUME Buffered, Unread
  PROVE  /\ fed \in Seq(Bytes) /\ chunk \in Seq(Bytes) /\ pending \in Seq(Bytes)
         /\ Len(fed) \in Nat /\ Len(chunk) \in Nat /\ Len(pending) \in Nat
         /\ Read \in 0 .. Len(fed) /\ Len(fed) = Read + Len(pending) + Len(chunk)
         /\ frameBytes \in Nat /\ frameBytes + Len(pending) <= MaxFrame
<1>1. fed \in Seq(Bytes) /\ chunk \in Seq(Bytes) /\ pending \in Seq(Bytes) /\ frameBytes \in Nat
  BY DEF Buffered, BufferType
<1>2. Len(fed) \in Nat /\ Len(chunk) \in Nat /\ Len(pending) \in Nat BY <1>1, LenProperties
<1>3. Read \in Nat BY DEF Unread
<1>4. Read \in 0 .. Len(fed) /\ Len(fed) = Read + Len(pending) + Len(chunk) BY <1>2, <1>3 DEF Read
<1>5. frameBytes + Len(pending) <= MaxFrame BY DEF Buffered, BufferBounded
<1> QED BY <1>1, <1>2, <1>4, <1>5

LEMMA InitFraming == Init => FramingInv
<1> SUFFICES ASSUME Init PROVE FramingInv OBVIOUS
<1>1. /\ fed = <<>> /\ over = FALSE /\ chunk = <<>> /\ pending = <<>>
      /\ frameBytes = 0 /\ data = <<>> /\ out = <<>> /\ status = "open"
  BY DEF Init
<1>2. Len(<<>>) = 0 /\ Len(fed) = 0 /\ fed \in Seq(Bytes) BY <1>1
<1>3. Read = 0 /\ Start = 0
  <2>1. Len(fed) = 0 /\ Len(chunk) = 0 /\ Len(pending) = 0 BY <1>1, <1>2
  <2>2. Read = 0 BY <2>1 DEF Read
  <2> HIDE DEF Read
  <2> QED BY <1>1, <2>2 DEF Start
<1>4. Breaks = {} BY <1>2 DEF Breaks
<1>5. FrameEnds = {} /\ Edges = {0} /\ FrameEdges = {0} BY <1>4 DEF FrameEnds, Edges, FrameEdges
<1>6. Unread
  <2>1. 1 .. Len(pending) = {} /\ 1 .. Len(chunk) = {} BY <1>1, <1>2
  <2> QED BY <1>3, <2>1 DEF Unread
<1>7. Held
  <2>1. 1 .. Len(pending) = {} BY <1>1, <1>2
  <2> QED BY <1>1, <2>1 DEF Held
<1>8. Frames = {} BY <1>5 DEF Frames
<1>9. ValuesOf(fed, Edges, data, Start, Read)
  <2>1. LinesOf(fed, Edges, Start, Read) = {}
    <3>1. Start + 1 .. Read = {} BY <1>3
    <3> QED BY <3>1 DEF LinesOf
  <2>2. Len(data) = Cardinality(LinesOf(fed, Edges, Start, Read)) BY <1>1, <1>2, <2>1, FS_EmptySet
  <2> QED BY <2>1, <2>2 DEF ValuesOf
<1>10. OutputTo(fed, Edges, FrameEnds, out, Read)
  <2>1. ShownTo(fed, Edges, FrameEnds, Read) = {} BY <1>5 DEF ShownTo, FramesOf
  <2>2. Len(out) = Cardinality(ShownTo(fed, Edges, FrameEnds, Read)) BY <1>1, <1>2, <2>1, FS_EmptySet
  <2> QED BY <2>1, <2>2 DEF OutputTo
<1>11. FrameRead BY <1>3, <1>5, <1>8, <1>9, <1>10 DEF FrameRead
<1>12. FrameTypes BY <1>1 DEF FrameTypes
<1> QED BY <1>1, <1>6, <1>7, <1>11, <1>12, InitBuffered DEF FramingInv

LEMMA FeedFraming ==
  ASSUME FramingInv, Buffered', NEW c \in Seq(Bytes), Feed(c)
  PROVE  FramingInv'
<1>1. /\ status = "open" /\ ~over /\ chunk = <<>> /\ chunk' = c /\ fed' = fed \o c /\ over' = over
      /\ pending' = pending /\ frameBytes' = frameBytes /\ data' = data /\ out' = out
      /\ status' = status
  BY DEF Feed
<1>2. Buffered /\ FrameTypes /\ Unread /\ Held /\ FrameRead BY <1>1 DEF FramingInv
<1>3. /\ fed \in Seq(Bytes) /\ pending \in Seq(Bytes) /\ Len(fed) \in Nat /\ Len(pending) \in Nat
      /\ Read \in 0 .. Len(fed) /\ Read + Len(pending) = Len(fed) /\ frameBytes \in Nat
  <2>1. Len(chunk) = 0 BY <1>1
  <2> QED BY <1>2, <2>1, BytesOfBody
<1>4. /\ fed' \in Seq(Bytes) /\ Len(c) \in Nat /\ Len(fed') = Len(fed) + Len(c)
      /\ \A i \in 1 .. Len(fed) : fed'[i] = fed[i]
      /\ \A k \in 1 .. Len(c) : fed'[Len(fed) + k] = c[k]
  <2>1. /\ fed \o c \in Seq(Bytes) /\ Len(fed \o c) = Len(fed) + Len(c) /\ Len(c) \in Nat
        /\ \A i \in 1 .. Len(fed) + Len(c) :
             (fed \o c)[i] = IF i <= Len(fed) THEN fed[i] ELSE c[i - Len(fed)]
    BY <1>3, ConcatProperties, LenProperties
  <2>2. \A i \in 1 .. Len(fed) : i \in 1 .. Len(fed) + Len(c) /\ i <= Len(fed) BY <1>3, <2>1
  <2>3. ASSUME NEW k \in 1 .. Len(c) PROVE (fed \o c)[Len(fed) + k] = c[k]
    <3>1. /\ Len(fed) + k \in 1 .. Len(fed) + Len(c) /\ ~(Len(fed) + k <= Len(fed))
          /\ Len(fed) + k - Len(fed) = k
      BY <1>3, <2>1
    <3> QED BY <2>1, <3>1
  <2> QED BY <1>1, <2>1, <2>2, <2>3
<1>5. Read' = Read
  <2>1. Read' = Len(fed') - Len(c) - Len(pending) BY <1>1 DEF Read
  <2> HIDE DEF Read
  <2> QED BY <1>3, <1>4, <2>1
<1>6. FrameRead'
  <2>1. Len(fed) <= Len(fed') BY <1>3, <1>4
  <2> HIDE DEF Read
  <2> QED BY <1>1, <1>2, <1>3, <1>4, <1>5, <2>1, ReadStays
<1>7. Unread'
  <2>1. /\ \A k \in 1 .. Len(pending) : pending[k] = fed[Read + k]
        /\ Read \in Nat
    BY <1>2 DEF Unread
  <2> HIDE DEF Read
  <2>2. \A k \in 1 .. Len(pending') : pending'[k] = fed'[Read' + k]
    <3> SUFFICES ASSUME NEW k \in 1 .. Len(pending) PROVE pending[k] = fed'[Read + k] BY <1>1, <1>5
    <3>1. Read + k \in 1 .. Len(fed) BY <1>3
    <3> QED BY <1>4, <2>1, <3>1
  <2>3. \A k \in 1 .. Len(chunk') : chunk'[k] = fed'[Read' + Len(pending') + k]
    BY <1>1, <1>3, <1>4, <1>5
  <2> QED BY <1>5, <2>1, <2>2, <2>3 DEF Unread
<1>8. Held' BY <1>1, <1>2 DEF Held
<1>9. FrameTypes' BY <1>1, <1>2 DEF FrameTypes
<1> QED BY <1>1, <1>6, <1>7, <1>8, <1>9 DEF FramingInv

LEMMA FinishFraming ==
  ASSUME FramingInv, Buffered', Finish
  PROVE  FramingInv'
<1>1. /\ status = "open" /\ ~over /\ chunk = <<>> /\ chunk' = chunk /\ fed' = fed
      /\ pending' = pending /\ frameBytes' = frameBytes /\ data' = data /\ out' = out
      /\ status' = status
  BY DEF Finish
<1>2. Buffered /\ FrameTypes /\ Unread /\ Held /\ FrameRead BY <1>1 DEF FramingInv
<1>3. /\ fed \in Seq(Bytes) /\ Len(fed) \in Nat /\ Read \in 0 .. Len(fed) /\ frameBytes \in Nat
  BY <1>2, BytesOfBody
<1>5. Read' = Read BY <1>1 DEF Read
<1>6. FrameRead'
  <2>1. Len(fed) <= Len(fed') /\ fed' \in Seq(Bytes) /\ \A i \in 1 .. Len(fed) : fed'[i] = fed[i]
    BY <1>1, <1>3
  <2> HIDE DEF Read
  <2> QED BY <1>1, <1>2, <1>3, <1>5, <2>1, ReadStays
<1>7. Unread' BY <1>1, <1>2, <1>5 DEF Unread
<1>8. Held' BY <1>1, <1>2 DEF Held
<1>9. FrameTypes' BY <1>1, <1>2 DEF FrameTypes
<1> QED BY <1>1, <1>6, <1>7, <1>8, <1>9 DEF FramingInv

\* A line that is consumed is read, or its body refused.
LEMMA LineIsConsumed ==
  ASSUME fed \in Seq(Bytes), FrameTypes, Read \in Nat, frameBytes \in Nat, FrameRead, ~Cut,
         NEW line \in Seq(Bytes), NEW e \in Nat, Terminated(Read, Len(line), e),
         \A k \in 1 .. Len(line) : line[k] = fed[Read + k] /\ IsText(line[k]),
         Consume(line, e - Read), fed' = fed, over' = over, Read' = e, status = "open"
  PROVE  /\ FrameTypes'
         /\ status' = "open" => FrameRead'
         /\ status' # "open" => FramesAreShown' /\ (status' = "failed" <=> Broken')
<1>1. MaxFrame \in Nat BY FramingAssumption
<1>2. /\ e \in Breaks /\ Read + Len(line) < e /\ \A i \in Read + 1 .. e - 1 : i \notin Breaks
  BY DEF Terminated
<1>3. Read < e /\ e <= Len(fed) /\ Len(fed) \in Nat
  <2>1. Len(line) \in Nat /\ Len(fed) \in Nat BY LenProperties
  <2>2. e \in 1 .. Len(fed) BY <1>2, BodyFacts
  <2> HIDE DEF Read
  <2> QED BY <1>2, <2>1, <2>2
<1> HIDE DEF Read
<1>4. CASE frameBytes + (e - Read) <= MaxFrame
  <2>1. FrameRead' /\ FrameTypes' BY <1>4, LineIsRead
  <2>2. status' = "open" BY <1>1, <1>3, <1>4 DEF Consume
  <2> QED BY <2>1, <2>2
<1>5. CASE frameBytes + (e - Read) > MaxFrame
  <2>1. status' = "failed" /\ data' = data /\ out' = out BY <1>1, <1>3, <1>5 DEF Consume
  <2>2. FramesAreShown' /\ Broken'
    <3>1. Read <= e BY <1>3
    <3> QED BY <1>2, <1>3, <1>5, <2>1, <3>1, LineIsRefused
  <2>3. FrameTypes' BY <2>1 DEF FrameTypes
  <2> QED BY <2>1, <2>2, <2>3
<1> QED BY <1>1, <1>3, <1>4, <1>5

LEMMA FrontOf ==
  ASSUME NEW S, NEW s \in Seq(S), s # <<>>
  PROVE  /\ Front(s) \in Seq(S) /\ Len(Front(s)) = Len(s) - 1
         /\ \A k \in 1 .. Len(s) - 1 : Front(s)[k] = s[k]
<1> DEFINE n == Len(s) - 1
           front == SubSeq(s, 1, n)
<1>1. n \in Nat /\ Len(s) = n + 1
  <2>1. Len(s) \in Nat \ {0} BY EmptySeq
  <2> QED BY <2>1
<1>2. Front(s) = front BY DEF Front
<1> HIDE DEF n
<1>3. \A i \in 1 .. n : s[i] \in S
  <2>1. \A i \in 1 .. n : i \in 1 .. Len(s) BY <1>1
  <2> QED BY <2>1, LenProperties
<1>4. /\ front \in Seq(S) /\ Len(front) = IF 1 <= n THEN n - 1 + 1 ELSE 0
      /\ \A i \in 1 .. n - 1 + 1 : front[i] = s[1 + i - 1]
  BY <1>1, <1>3, SubSeqProperties
<1> HIDE DEF front
<1>5. Len(front) = n BY <1>1, <1>4
<1>6. n - 1 + 1 = n /\ \A i \in 1 .. n : 1 + i - 1 = i BY <1>1
<1>7. \A i \in 1 .. n : front[i] = s[i] BY <1>4, <1>6
<1> QED BY <1>1, <1>2, <1>4, <1>5, <1>7 DEF n

\* Before the last byte of what is pending there is only text.
LEMMA PendingText ==
  ASSUME pending \in Seq(Bytes), Held
  PROVE  /\ ~CrHeld => \A k \in 1 .. Len(pending) : IsText(pending[k])
         /\ CrHeld => /\ Len(pending) \in Nat \ {0} /\ pending[Len(pending)] = "CR"
                      /\ \A k \in 1 .. Len(pending) - 1 : IsText(pending[k])
                      /\ Front(pending) \in Seq(Bytes) /\ Len(Front(pending)) = Len(pending) - 1
                      /\ \A k \in 1 .. Len(pending) - 1 : Front(pending)[k] = pending[k]
<1>1. \A k \in 1 .. Len(pending) : IsText(pending[k]) \/ (k = Len(pending) /\ pending[k] = "CR")
  BY DEF Held
<1>2. Len(pending) \in Nat /\ (pending # <<>> => Len(pending) # 0) BY EmptySeq, LenProperties
<1>3. CrHeld <=> pending # <<>> /\ pending[Len(pending)] = "CR" BY DEF CrHeld, Last
<1>4. ASSUME ~CrHeld, NEW k \in 1 .. Len(pending) PROVE IsText(pending[k])
  <2>1. pending # <<>>
    <3>1. Len(<<>>) = 0 OBVIOUS
    <3> QED BY <1>4, <3>1
  <2> QED BY <1>1, <1>3, <1>4, <2>1
<1>5. ASSUME CrHeld
      PROVE  /\ Len(pending) \in Nat \ {0} /\ pending[Len(pending)] = "CR"
             /\ \A k \in 1 .. Len(pending) - 1 : IsText(pending[k])
             /\ Front(pending) \in Seq(Bytes) /\ Len(Front(pending)) = Len(pending) - 1
             /\ \A k \in 1 .. Len(pending) - 1 : Front(pending)[k] = pending[k]
  <2>1. Len(pending) \in Nat \ {0} /\ pending[Len(pending)] = "CR" BY <1>2, <1>3, <1>5
  <2>2. \A k \in 1 .. Len(pending) - 1 : IsText(pending[k])
    <3> SUFFICES ASSUME NEW k \in 1 .. Len(pending) - 1 PROVE IsText(pending[k]) OBVIOUS
    <3>1. k \in 1 .. Len(pending) /\ k # Len(pending) BY <2>1
    <3> QED BY <1>1, <3>1
  <2>3. pending # <<>> BY <1>3, <1>5
  <2> QED BY <2>1, <2>2, <2>3, FrontOf
<1> QED BY <1>4, <1>5

LEMMA ResolveCrFraming ==
  ASSUME FramingInv, Buffered', ResolveCr
  PROVE  FramingInv'
<1> DEFINE taken == IF TakesLf THEN 1 ELSE 0
           e == Read + Len(pending) + taken
           line == Front(pending)
<1>1. /\ status = "open" /\ chunk # <<>> /\ CrHeld /\ Consume(line, Len(pending) + taken)
      /\ pending' = <<>> /\ chunk' = IF TakesLf THEN Tail(chunk) ELSE chunk
      /\ fed' = fed /\ over' = over
  BY DEF ResolveCr, Reading
<1>2. Buffered /\ FrameTypes /\ Unread /\ Held /\ FrameRead BY <1>1 DEF FramingInv
<1>3. /\ fed \in Seq(Bytes) /\ chunk \in Seq(Bytes) /\ pending \in Seq(Bytes)
      /\ Len(fed) \in Nat /\ Len(pending) \in Nat
      /\ Read \in Nat /\ Len(fed) = Read + Len(pending) + Len(chunk)
      /\ frameBytes \in Nat
  <2>1. Read \in 0 .. Len(fed) /\ Len(fed) \in Nat BY <1>2, BytesOfBody
  <2>2. Read \in Nat BY <2>1
  <2> HIDE DEF Read
  <2> QED BY <1>2, <2>2, BytesOfBody
<1>4. Len(chunk) \in Nat \ {0} BY <1>1, <1>3, EmptySeq
<1>5. ~over /\ ~Cut BY <1>1, <1>2 DEF Held, Cut
<1>6. /\ Len(pending) # 0 /\ pending[Len(pending)] = "CR"
      /\ \A k \in 1 .. Len(pending) - 1 : IsText(pending[k])
      /\ line \in Seq(Bytes) /\ Len(line) = Len(pending) - 1
      /\ \A k \in 1 .. Len(pending) - 1 : line[k] = pending[k]
  BY <1>1, <1>2, <1>3, PendingText
<1>7. /\ \A k \in 1 .. Len(pending) : pending[k] = fed[Read + k]
      /\ \A k \in 1 .. Len(chunk) : chunk[k] = fed[Read + Len(pending) + k]
  BY <1>2 DEF Unread
<1>8. Read \in Edges BY <1>2, <1>5 DEF FrameRead
<1>9. chunk[1] = fed[Read + Len(pending) + 1] /\ fed[Read + Len(pending)] = "CR"
  BY <1>3, <1>4, <1>6, <1>7
<1>10. TakesLf <=> chunk[1] = "LF" BY DEF TakesLf
<1> HIDE DEF Read, line
<1>11. \A k \in 1 .. Len(line) : line[k] = fed[Read + k] /\ IsText(line[k])
  <2> SUFFICES ASSUME NEW k \in 1 .. Len(line) PROVE line[k] = fed[Read + k] /\ IsText(line[k])
    OBVIOUS
  <2>1. k \in 1 .. Len(pending) - 1 /\ k \in 1 .. Len(pending) BY <1>3, <1>6
  <2> QED BY <1>6, <1>7, <2>1
<1>12. \A i \in Read + 1 .. Read + Len(line) : IsText(fed[i])
  <2> SUFFICES ASSUME NEW i \in Read + 1 .. Read + Len(line) PROVE IsText(fed[i]) OBVIOUS
  <2>1. i - Read \in 1 .. Len(line) /\ Read + (i - Read) = i BY <1>3, <1>6
  <2> QED BY <1>11, <2>1
<1>13. e \in Nat /\ e - Read = Len(pending) + taken BY <1>3
<1>14. Terminated(Read, Len(line), e)
  <2>1. Len(line) \in Nat /\ Read + Len(line) + 1 = Read + Len(pending)
        /\ Read + Len(line) + 2 = Read + Len(pending) + 1
    BY <1>3, <1>6
  <2>2. CASE TakesLf
    <3>1. Read + Len(line) + 2 \in 1 .. Len(fed) BY <1>3, <1>4, <1>6
    <3>2. fed[Read + Len(line) + 1] = "CR" /\ fed[Read + Len(line) + 2] = "LF"
      BY <1>9, <1>10, <2>1, <2>2
    <3>3. e = Read + Len(line) + 2 BY <2>1, <2>2
    <3> HIDE DEF e
    <3> QED BY <1>3, <1>8, <1>12, <2>1, <3>1, <3>2, <3>3, EndsWithCrLf
  <2>3. CASE ~TakesLf
    <3>1. Read + Len(line) + 1 \in 1 .. Len(fed) /\ Read + Len(line) + 1 # Len(fed)
      BY <1>3, <1>4, <1>6
    <3>2. fed[Read + Len(line) + 1] = "CR" /\ fed[Read + Len(line) + 2] # "LF"
      BY <1>9, <1>10, <2>1, <2>3
    <3>3. e = Read + Len(line) + 1 BY <1>3, <2>1, <2>3
    <3> HIDE DEF e
    <3> QED BY <1>3, <1>8, <1>12, <2>1, <3>1, <3>2, <3>3, EndsWithCr
  <2> QED BY <2>2, <2>3
<1>15. /\ chunk' \in Seq(Bytes) /\ Len(chunk') = Len(chunk) - taken
       /\ \A k \in 1 .. Len(chunk') : chunk'[k] = chunk[k + taken]
  <2>1. CASE TakesLf
    <3>1. /\ Tail(chunk) \in Seq(Bytes) /\ Len(Tail(chunk)) = Len(chunk) - 1
          /\ \A k \in 1 .. Len(chunk) - 1 : Tail(chunk)[k] = chunk[k + 1]
      BY <1>1, <1>3, <1>4
    <3> QED BY <1>1, <2>1, <3>1
  <2>2. CASE ~TakesLf BY <1>1, <1>3, <2>2
  <2> QED BY <2>1, <2>2
<1>16. Read' = e
  <2>1. Len(pending') = 0 BY <1>1
  <2>2. Read' = Len(fed) - Len(chunk') - Len(pending') BY <1>1 DEF Read
  <2> QED BY <1>3, <1>15, <2>1, <2>2
<1>17. Unread'
  <2>1. 1 .. Len(pending') = {} BY <1>1
  <2>2. ASSUME NEW k \in 1 .. Len(chunk') PROVE chunk'[k] = fed'[Read' + Len(pending') + k]
    <3>0. Len(pending') = 0 BY <1>1
    <3>1. e + 0 + k = Read + Len(pending) + (k + taken)
      <4>1. k \in Int /\ taken \in Int OBVIOUS
      <4> HIDE DEF taken
      <4> QED BY <1>3, <4>1
    <3>2. k + taken \in 1 .. Len(chunk) BY <1>4, <1>15
    <3> HIDE DEF e, taken
    <3> QED BY <1>1, <1>7, <1>15, <1>16, <3>0, <3>1, <3>2
  <2> QED BY <1>13, <1>16, <2>1, <2>2 DEF Unread
<1>18. Held'
  <2>1. 1 .. Len(pending') = {} BY <1>1
  <2> QED BY <1>1, <1>5, <2>1 DEF Held
<1> HIDE DEF e, taken
<1>19. /\ FrameTypes'
       /\ status' = "open" => FrameRead'
       /\ status' # "open" => FramesAreShown' /\ (status' = "failed" <=> Broken')
  <2>1. Consume(line, e - Read) BY <1>1, <1>13
  <2> QED BY <1>1, <1>2, <1>3, <1>5, <1>6, <1>11, <1>13, <1>14, <1>16, <2>1, LineIsConsumed
<1> QED BY <1>17, <1>18, <1>19 DEF FramingInv

\* Before the first line's end there is only text.
LEMMA FirstLineText ==
  ASSUME NEW bytes \in Seq(Bytes), LineEnds(bytes) # {}, NEW k \in 1 .. FirstLine(bytes)[1] - 1
  PROVE  k \in 1 .. Len(bytes) /\ IsText(bytes[k])
<1> DEFINE e == FirstLine(bytes)
<1>1. e[1] \in 1 .. Len(bytes) /\ \A f \in LineEnds(bytes) : e[1] <= f[1]
  BY FirstLineInBuffer, FirstLineIsFirst
<1>2. Len(bytes) \in Nat BY LenProperties
<1>3. k \in 1 .. Len(bytes) /\ k < e[1] /\ k < Len(bytes) BY <1>1, <1>2
<1> HIDE DEF e
<1>4. bytes[k] \in Bytes BY <1>3, LenProperties
<1>5. ASSUME NEW next \in 2 .. Len(bytes) + 1, <<k, next>> \in LineEnds(bytes) PROVE FALSE
  <2>1. <<k, next>>[1] = k OBVIOUS
  <2> QED BY <1>1, <1>2, <1>3, <1>5, <2>1
<1>6. bytes[k] # "LF"
  <2> SUFFICES ASSUME bytes[k] = "LF" PROVE FALSE OBVIOUS
  <2>1. k + 1 \in 2 .. Len(bytes) + 1 BY <1>2, <1>3
  <2>2. <<k, k + 1>> \in LineEnds(bytes) BY <1>3, <2>1 DEF LineEnds
  <2> QED BY <1>5, <2>1, <2>2
<1>7. bytes[k] # "CR"
  <2> SUFFICES ASSUME bytes[k] = "CR" PROVE FALSE OBVIOUS
  <2> DEFINE next == IF bytes[k + 1] = "LF" THEN k + 2 ELSE k + 1
  <2>1. next \in 2 .. Len(bytes) + 1 BY <1>2, <1>3
  <2>2. <<k, next>> \in LineEnds(bytes) BY <1>3, <2>1 DEF LineEnds
  <2> HIDE DEF next
  <2> QED BY <1>5, <2>1, <2>2
<1> QED BY <1>3, <1>4, <1>6, <1>7 DEF Bytes, IsText

\* What is pending and the text of the chunk's first line are one line.
LEMMA JoinedLine ==
  ASSUME NEW p \in Seq(Bytes), NEW c \in Seq(Bytes), NEW n \in 0 .. Len(c)
  PROVE  /\ p \o SubSeq(c, 1, n) \in Seq(Bytes) /\ Len(p \o SubSeq(c, 1, n)) = Len(p) + n
         /\ \A k \in 1 .. Len(p) : (p \o SubSeq(c, 1, n))[k] = p[k]
         /\ \A k \in 1 .. n : (p \o SubSeq(c, 1, n))[Len(p) + k] = c[k]
<1> DEFINE s == SubSeq(c, 1, n)
<1>0. Len(c) \in Nat /\ Len(p) \in Nat /\ n \in Nat BY LenProperties
<1>1. s \in Seq(Bytes) /\ Len(s) = n /\ \A k \in 1 .. n : s[k] = c[k]
  <2>1. \A i \in 1 .. n : c[i] \in Bytes
    <3>1. \A i \in 1 .. n : i \in 1 .. Len(c) BY <1>0
    <3> QED BY <3>1, LenProperties
  <2>2. /\ s \in Seq(Bytes) /\ Len(s) = IF 1 <= n THEN n - 1 + 1 ELSE 0
        /\ \A i \in 1 .. n - 1 + 1 : s[i] = c[1 + i - 1]
    BY <1>0, <2>1, SubSeqProperties
  <2> HIDE DEF s
  <2>3. Len(s) = n BY <1>0, <2>2
  <2>4. n - 1 + 1 = n /\ \A i \in 1 .. n : 1 + i - 1 = i BY <1>0
  <2>5. \A i \in 1 .. n : s[i] = c[i] BY <2>2, <2>4
  <2> QED BY <2>2, <2>3, <2>5
<1> HIDE DEF s
<1>2. /\ p \o s \in Seq(Bytes) /\ Len(p \o s) = Len(p) + n
      /\ \A i \in 1 .. Len(p) + n : (p \o s)[i] = IF i <= Len(p) THEN p[i] ELSE s[i - Len(p)]
  BY <1>1, ConcatProperties
<1>3. \A k \in 1 .. Len(p) : (p \o s)[k] = p[k]
  <2>1. \A k \in 1 .. Len(p) : k \in 1 .. Len(p) + n /\ k <= Len(p) BY <1>0
  <2> QED BY <1>2, <2>1
<1>4. \A k \in 1 .. n : (p \o s)[Len(p) + k] = c[k]
  <2> SUFFICES ASSUME NEW k \in 1 .. n PROVE (p \o s)[Len(p) + k] = c[k] OBVIOUS
  <2>1. Len(p) + k \in 1 .. Len(p) + n /\ ~(Len(p) + k <= Len(p)) /\ Len(p) + k - Len(p) = k
    BY <1>0
  <2> QED BY <1>1, <1>2, <2>1
<1> QED BY <1>2, <1>3, <1>4 DEF s

LEMMA LineFraming ==
  ASSUME FramingInv, Buffered', Line
  PROVE  FramingInv'
<1> DEFINE first == FirstLine(chunk)
           text == first[1] - 1
           line == pending \o SubSeq(chunk, 1, text)
           e == Read + Len(pending) + first[2] - 1
<1>1. /\ status = "open" /\ chunk # <<>> /\ ~CrHeld /\ LineEnds(chunk) # {}
      /\ Consume(line, Len(pending) + first[2] - 1)
      /\ pending' = <<>> /\ chunk' = SubSeq(chunk, first[2], Len(chunk))
      /\ fed' = fed /\ over' = over
  BY DEF Line, Reading
<1>2. Buffered /\ FrameTypes /\ Unread /\ Held /\ FrameRead BY <1>1 DEF FramingInv
<1>3. /\ fed \in Seq(Bytes) /\ chunk \in Seq(Bytes) /\ pending \in Seq(Bytes)
      /\ Len(fed) \in Nat /\ Len(pending) \in Nat /\ Len(chunk) \in Nat
      /\ Read \in Nat /\ Len(fed) = Read + Len(pending) + Len(chunk)
      /\ frameBytes \in Nat
  <2>1. Read \in 0 .. Len(fed) /\ Len(fed) \in Nat BY <1>2, BytesOfBody
  <2>2. Read \in Nat BY <2>1
  <2> HIDE DEF Read
  <2> QED BY <1>2, <2>2, BytesOfBody
<1>5. ~over /\ ~Cut BY <1>1, <1>2 DEF Held, Cut
<1>6. \A k \in 1 .. Len(pending) : IsText(pending[k]) BY <1>1, <1>2, <1>3, PendingText
<1>7. /\ \A k \in 1 .. Len(pending) : pending[k] = fed[Read + k]
      /\ \A k \in 1 .. Len(chunk) : chunk[k] = fed[Read + Len(pending) + k]
  BY <1>2 DEF Unread
<1>8. Read \in Edges BY <1>2, <1>5 DEF FrameRead
<1>9. /\ first[1] \in 1 .. Len(chunk) /\ first[2] \in 2 .. Len(chunk) + 1
      /\ \/ chunk[first[1]] = "LF" /\ first[2] = first[1] + 1
         \/ /\ chunk[first[1]] = "CR" /\ first[1] < Len(chunk)
            /\ first[2] = IF chunk[first[1] + 1] = "LF" THEN first[1] + 2 ELSE first[1] + 1
  <2>1. first[1] \in 1 .. Len(chunk) /\ first[2] \in 2 .. Len(chunk) + 1
    BY <1>1, <1>3, FirstLineInBuffer
  <2>2. first \in LineEnds(chunk) BY <1>1, <1>3, FirstLineIsFirst
  <2> HIDE DEF first
  <2> QED BY <2>1, <2>2 DEF LineEnds
<1>10. \A k \in 1 .. text : k \in 1 .. Len(chunk) /\ IsText(chunk[k])
  BY <1>1, <1>3, FirstLineText
<1> HIDE DEF Read, first
<1>n. /\ first[1] \in Nat /\ 1 <= first[1] /\ first[1] <= Len(chunk)
      /\ first[2] \in Nat /\ 2 <= first[2] /\ first[2] <= Len(chunk) + 1
  <2>3. first[1] \in 1 .. Len(chunk) /\ first[2] \in 2 .. Len(chunk) + 1 BY <1>9
  <2>4. first[1] \in Nat /\ 1 <= first[1] /\ first[1] <= Len(chunk) BY <1>3, <2>3
  <2>5. first[2] \in Nat /\ 2 <= first[2] /\ first[2] <= Len(chunk) + 1 BY <1>3, <2>3
  <2> QED BY <2>4, <2>5
<1>m. Read \in Nat /\ Len(pending) \in Nat /\ Len(chunk) \in Nat BY <1>3
<1>11. text \in 0 .. Len(chunk) /\ text \in Nat /\ text + 1 = first[1] BY <1>3, <1>9
<1>12. /\ line \in Seq(Bytes) /\ Len(line) = Len(pending) + text
       /\ \A k \in 1 .. Len(pending) : line[k] = pending[k]
       /\ \A k \in 1 .. text : line[Len(pending) + k] = chunk[k]
  <2> HIDE DEF text
  <2> QED BY <1>3, <1>11, JoinedLine
<1> HIDE DEF line
<1>13. ASSUME NEW k \in 1 .. Len(line) PROVE line[k] = fed[Read + k] /\ IsText(line[k])
  <2>1. CASE k <= Len(pending)
    <3>1. k \in 1 .. Len(pending) BY <1>3, <1>11, <1>12, <2>1
    <3> QED BY <1>6, <1>7, <1>12, <3>1
  <2>2. CASE ~(k <= Len(pending))
    <3>1. /\ k - Len(pending) \in 1 .. text /\ Len(pending) + (k - Len(pending)) = k
          /\ Read + Len(pending) + (k - Len(pending)) = Read + k
      BY <1>3, <1>11, <1>12, <2>2
    <3> HIDE DEF text
    <3> QED BY <1>7, <1>10, <1>12, <3>1
  <2> QED BY <2>1, <2>2
<1>14. \A i \in Read + 1 .. Read + Len(line) : IsText(fed[i])
  <2> SUFFICES ASSUME NEW i \in Read + 1 .. Read + Len(line) PROVE IsText(fed[i]) OBVIOUS
  <2>0. Len(line) \in Nat BY <1>3, <1>11, <1>12
  <2>1. i - Read \in 1 .. Len(line) /\ Read + (i - Read) = i BY <1>3, <2>0
  <2> QED BY <1>13, <2>1
<1>15. e \in Nat /\ e - Read = Len(pending) + first[2] - 1 BY <1>m, <1>n
<1>16. Terminated(Read, Len(line), e)
  <2>1. /\ Len(line) \in Nat /\ Read + Len(line) + 1 = Read + Len(pending) + first[1]
        /\ Read + Len(line) + 2 = Read + Len(pending) + (first[1] + 1)
        /\ Read + Len(line) + 1 \in 1 .. Len(fed)
    <3> HIDE DEF text
    <3>1. Len(line) = Len(pending) + text BY <1>12
    <3>2. Len(line) \in Nat /\ Len(line) + 1 = Len(pending) + first[1] BY <1>m, <1>n, <1>11, <3>1
    <3>3. Len(fed) = Read + Len(pending) + Len(chunk) BY <1>3
    <3>4. Read + Len(line) + 1 = Read + Len(pending) + first[1] BY <1>m, <1>n, <3>2
    <3>5. Read + Len(line) + 2 = Read + Len(pending) + (first[1] + 1) BY <1>m, <1>n, <3>2
    <3>6. Read + Len(line) + 1 \in 1 .. Len(fed) BY <1>m, <1>n, <3>2, <3>3
    <3> QED BY <3>2, <3>4, <3>5, <3>6
  <2>2. fed[Read + Len(line) + 1] = chunk[first[1]] BY <1>7, <1>9, <2>1
  <2>3. CASE chunk[first[1]] = "LF"
    <3>1. first[2] = first[1] + 1 BY <1>9, <2>3
    <3>2. e = Read + Len(line) + 1 BY <1>3, <1>9, <2>1, <3>1
    <3> HIDE DEF e
    <3> QED BY <1>3, <1>8, <1>14, <2>1, <2>2, <2>3, <3>2, EndsWithLf
  <2>4. CASE chunk[first[1]] # "LF"
    <3>1. /\ chunk[first[1]] = "CR" /\ first[1] < Len(chunk)
          /\ first[2] = IF chunk[first[1] + 1] = "LF" THEN first[1] + 2 ELSE first[1] + 1
      BY <1>9, <2>4
    <3>2. first[1] + 1 \in 1 .. Len(chunk) BY <1>3, <1>9, <3>1
    <3>3. fed[Read + Len(line) + 2] = chunk[first[1] + 1] BY <1>7, <2>1, <3>2
    <3>4. Read + Len(line) + 2 \in 1 .. Len(fed) /\ Read + Len(line) + 1 # Len(fed)
      <4>1. Len(fed) = Read + Len(pending) + Len(chunk) BY <1>3
      <4>2. first[1] < Len(chunk) BY <3>1
      <4>3. Read + Len(line) + 2 <= Len(fed) BY <1>m, <1>n, <2>1, <4>1, <4>2
      <4>4. Read + Len(line) + 1 # Len(fed) BY <1>m, <1>n, <2>1, <4>1, <4>2
      <4>5. Len(line) \in Nat BY <2>1
      <4> QED BY <1>m, <4>1, <4>3, <4>4, <4>5
    <3>5. CASE chunk[first[1] + 1] = "LF"
      <4>1. e = Read + Len(line) + 2 BY <1>3, <1>9, <2>1, <3>1, <3>5
      <4> HIDE DEF e
      <4> QED BY <1>3, <1>8, <1>14, <2>1, <2>2, <3>1, <3>3, <3>4, <3>5, <4>1, EndsWithCrLf
    <3>6. CASE chunk[first[1] + 1] # "LF"
      <4>1. e = Read + Len(line) + 1 BY <1>3, <1>9, <2>1, <3>1, <3>6
      <4> HIDE DEF e
      <4> QED BY <1>3, <1>8, <1>14, <2>1, <2>2, <3>1, <3>3, <3>4, <3>6, <4>1, EndsWithCr
    <3> QED BY <3>5, <3>6
  <2> QED BY <2>3, <2>4
<1>17. /\ chunk' \in Seq(Bytes) /\ Len(chunk') = Len(chunk) - first[2] + 1
       /\ \A k \in 1 .. Len(chunk') : chunk'[k] = chunk[first[2] + k - 1]
  <2>1. \A i \in first[2] .. Len(chunk) : chunk[i] \in Bytes
    <3>1. \A i \in first[2] .. Len(chunk) : i \in 1 .. Len(chunk) BY <1>3, <1>9
    <3> QED BY <1>3, <3>1, LenProperties
  <2>2. /\ chunk' \in Seq(Bytes)
        /\ Len(chunk') = IF first[2] <= Len(chunk) THEN Len(chunk) - first[2] + 1 ELSE 0
        /\ \A i \in 1 .. Len(chunk) - first[2] + 1 : chunk'[i] = chunk[first[2] + i - 1]
    <3>1. first[2] \in Int /\ Len(chunk) \in Int BY <1>3, <1>n
    <3> QED BY <1>1, <2>1, <3>1, SubSeqProperties
  <2>3. Len(chunk') = Len(chunk) - first[2] + 1
    <3>1. (IF first[2] <= Len(chunk) THEN Len(chunk) - first[2] + 1 ELSE 0) = Len(chunk) - first[2] + 1
      BY <1>m, <1>n
    <3>2. Len(chunk') = IF first[2] <= Len(chunk) THEN Len(chunk) - first[2] + 1 ELSE 0 BY <2>2
    <3> QED BY <3>1, <3>2
  <2> QED BY <2>2, <2>3
<1>18. Read' = e
  <2>1. Len(pending') = 0 BY <1>1
  <2>2. Read' = Len(fed) - Len(chunk') - Len(pending') BY <1>1 DEF Read
  <2> QED BY <1>3, <1>9, <1>17, <2>1, <2>2
<1>19. Unread'
  <2>1. 1 .. Len(pending') = {} BY <1>1
  <2>2. ASSUME NEW k \in 1 .. Len(chunk') PROVE chunk'[k] = fed'[Read' + Len(pending') + k]
    <3>0. Len(pending') = 0 BY <1>1
    <3>1. k \in Int /\ first[2] \in Int /\ 1 <= k /\ k <= Len(chunk) - first[2] + 1
      BY <1>3, <1>n, <1>17
    <3>2. e + 0 + k = Read + Len(pending) + (first[2] + k - 1) BY <1>3, <3>1
    <3>3. first[2] + k - 1 \in 1 .. Len(chunk)
      <4>1. 1 <= first[2] + k - 1 BY <1>n, <3>1
      <4>2. first[2] + k - 1 <= Len(chunk) BY <1>m, <1>n, <3>1
      <4>3. first[2] + k - 1 \in Int BY <3>1
      <4> QED BY <1>m, <4>1, <4>2, <4>3
    <3> HIDE DEF e
    <3> QED BY <1>1, <1>7, <1>17, <1>18, <3>0, <3>2, <3>3
  <2> QED BY <1>15, <1>18, <2>1, <2>2 DEF Unread
<1>20. Held'
  <2>1. 1 .. Len(pending') = {} BY <1>1
  <2> QED BY <1>1, <1>5, <2>1 DEF Held
<1> HIDE DEF e
<1>21. /\ FrameTypes'
       /\ status' = "open" => FrameRead'
       /\ status' # "open" => FramesAreShown' /\ (status' = "failed" <=> Broken')
  <2>1. Consume(line, e - Read) BY <1>1, <1>15
  <2> QED BY <1>1, <1>2, <1>3, <1>5, <1>12, <1>13, <1>15, <1>16, <1>18, <2>1, LineIsConsumed
<1> QED BY <1>19, <1>20, <1>21 DEF FramingInv

\* A chunk without a line end is text, but a CR may be its last byte.
LEMMA NoLineEnd ==
  ASSUME NEW bytes \in Seq(Bytes), LineEnds(bytes) = {}, NEW k \in 1 .. Len(bytes)
  PROVE  IsText(bytes[k]) \/ (k = Len(bytes) /\ bytes[k] = "CR")
<1>1. Len(bytes) \in Nat /\ bytes[k] \in Bytes BY LenProperties
<1>2. bytes[k] # "LF"
  <2> SUFFICES ASSUME bytes[k] = "LF" PROVE FALSE OBVIOUS
  <2>1. k + 1 \in 2 .. Len(bytes) + 1 BY <1>1
  <2>2. <<k, k + 1>> \in LineEnds(bytes) BY <2>1 DEF LineEnds
  <2> QED BY <2>2
<1>3. bytes[k] = "CR" => k = Len(bytes)
  <2> SUFFICES ASSUME bytes[k] = "CR", k # Len(bytes) PROVE FALSE OBVIOUS
  <2> DEFINE next == IF bytes[k + 1] = "LF" THEN k + 2 ELSE k + 1
  <2>1. next \in 2 .. Len(bytes) + 1 /\ k < Len(bytes) BY <1>1
  <2>2. <<k, next>> \in LineEnds(bytes) BY <2>1 DEF LineEnds
  <2> HIDE DEF next
  <2> QED BY <2>2
<1> QED BY <1>1, <1>2, <1>3 DEF Bytes, IsText

LEMMA KeepFraming ==
  ASSUME FramingInv, Buffered', Keep
  PROVE  FramingInv'
<1>1. /\ status = "open" /\ chunk # <<>> /\ ~CrHeld /\ LineEnds(chunk) = {} /\ chunk' = <<>>
      /\ fed' = fed /\ over' = over /\ frameBytes' = frameBytes /\ data' = data /\ out' = out
      /\ \/ Fits /\ pending' = pending \o chunk /\ status' = status
         \/ ~Fits /\ status' = "failed"
  BY DEF Keep, Reading
<1>2. Buffered /\ FrameTypes /\ Unread /\ Held /\ FrameRead BY <1>1 DEF FramingInv
<1>3. /\ fed \in Seq(Bytes) /\ chunk \in Seq(Bytes) /\ pending \in Seq(Bytes)
      /\ Len(fed) \in Nat /\ Len(pending) \in Nat /\ Len(chunk) \in Nat
      /\ Read \in Nat /\ Len(fed) = Read + Len(pending) + Len(chunk)
      /\ frameBytes \in Nat
  <2>1. Read \in 0 .. Len(fed) /\ Len(fed) \in Nat BY <1>2, BytesOfBody
  <2>2. Read \in Nat BY <2>1
  <2> HIDE DEF Read
  <2> QED BY <1>2, <2>2, BytesOfBody
<1>5. ~over BY <1>1, <1>2 DEF Held
<1>6. \A k \in 1 .. Len(pending) : IsText(pending[k]) BY <1>1, <1>2, <1>3, PendingText
<1>7. /\ \A k \in 1 .. Len(pending) : pending[k] = fed[Read + k]
      /\ \A k \in 1 .. Len(chunk) : chunk[k] = fed[Read + Len(pending) + k]
  BY <1>2 DEF Unread
<1>8. \A k \in 1 .. Len(chunk) : IsText(chunk[k]) \/ (k = Len(chunk) /\ chunk[k] = "CR")
  BY <1>1, <1>3, NoLineEnd
<1>9. FrameTypes' BY <1>1, <1>2 DEF FrameTypes
<1>10. CASE Fits
  <2>0. pending' = pending \o chunk /\ status' = "open" BY <1>1, <1>10
  <2>1. /\ pending' \in Seq(Bytes) /\ Len(pending') = Len(pending) + Len(chunk)
        /\ \A k \in 1 .. Len(pending) + Len(chunk) :
             pending'[k] = IF k <= Len(pending) THEN pending[k] ELSE chunk[k - Len(pending)]
    BY <1>3, <2>0, ConcatProperties
  <2>2. Len(chunk') = 0 BY <1>1
  <2>3. Read' = Read
    <3>1. Read' = Len(fed) - Len(chunk') - Len(pending') BY <1>1 DEF Read
    <3> HIDE DEF Read
    <3> QED BY <1>3, <2>1, <2>2, <3>1
  <2> HIDE DEF Read
  <2>4. ASSUME NEW k \in 1 .. Len(pending')
        PROVE  /\ pending'[k] = fed[Read + k]
               /\ IsText(pending'[k]) \/ (k = Len(pending') /\ pending'[k] = "CR")
    <3>1. CASE k <= Len(pending)
      <4>1. k \in 1 .. Len(pending) /\ k \in 1 .. Len(pending) + Len(chunk) BY <1>3, <2>1, <3>1
      <4> QED BY <1>6, <1>7, <2>1, <3>1, <4>1
    <3>2. CASE ~(k <= Len(pending))
      <4>1. k \in 1 .. Len(pending) + Len(chunk) /\ k - Len(pending) \in 1 .. Len(chunk)
        BY <1>3, <2>1, <3>2
      <4>2. Read + Len(pending) + (k - Len(pending)) = Read + k BY <1>3, <4>1
      <4>3. pending'[k] = chunk[k - Len(pending)] BY <2>1, <3>2, <4>1
      <4>4. k - Len(pending) = Len(chunk) => k = Len(pending') BY <1>3, <2>1, <4>1
      <4>5. chunk[k - Len(pending)] = fed[Read + k] BY <1>7, <4>1, <4>2
      <4> QED BY <1>8, <4>1, <4>3, <4>4, <4>5
    <3> QED BY <3>1, <3>2
  <2>5. Unread'
    <3>1. 1 .. Len(chunk') = {} BY <2>2
    <3> QED BY <1>1, <1>3, <2>3, <2>4, <3>1 DEF Unread
  <2>6. Held' BY <1>1, <2>4 DEF Held
  <2>7. FrameRead'
    <3>1. /\ Breaks' = Breaks /\ Edges' = Edges
          /\ FrameEnds' = FrameEnds /\ FrameEdges' = FrameEdges /\ Frames' = Frames
      BY <1>1, SameBody
    <3>2. Start' = Start BY <1>1, <2>3 DEF Start
    <3>3. \A f : TooLong(f)' <=> TooLong(f) BY DEF TooLong
    <3>4. Read \in Edges /\ ValuesOf(fed, Edges, data, Start, Read) BY <1>2, <1>5 DEF FrameRead, Cut
    <3> QED BY <1>1, <1>2, <2>3, <3>1, <3>2, <3>3, <3>4 DEF FrameRead
  <2> QED BY <1>9, <2>0, <2>5, <2>6, <2>7 DEF FramingInv
<1>11. CASE ~Fits
  <2>0. status' = "failed" BY <1>1, <1>11
  <2> HIDE DEF Read
  <2>1. \A i \in Read + 1 .. Len(fed) - 1 : i \notin Breaks
    <3> SUFFICES ASSUME NEW i \in Read + 1 .. Len(fed) - 1 PROVE IsText(fed[i]) BY TextIsNoBreak
    <3>1. CASE i - Read <= Len(pending)
      <4>1. i - Read \in 1 .. Len(pending) /\ Read + (i - Read) = i BY <1>3, <3>1
      <4> QED BY <1>6, <1>7, <4>1
    <3>2. CASE ~(i - Read <= Len(pending))
      <4> DEFINE k == i - Read - Len(pending)
      <4>1. k \in 1 .. Len(chunk) /\ k # Len(chunk) /\ Read + Len(pending) + k = i BY <1>3, <3>2
      <4> HIDE DEF k
      <4> QED BY <1>7, <1>8, <4>1
    <3> QED BY <3>1, <3>2
  <2>2. frameBytes + (Len(fed) - Read) > MaxFrame
    <3>1. MaxFrame \in Nat BY FramingAssumption
    <3>2. Len(fed) - Read = Len(pending) + Len(chunk) BY <1>3
    <3>3. ~(frameBytes + Len(pending) + Len(chunk) <= MaxFrame) BY <1>11 DEF Fits
    <3>4. frameBytes + Len(pending) + Len(chunk) = frameBytes + (Len(fed) - Read) BY <1>3
    <3> QED BY <1>3, <3>1, <3>3, <3>4
  <2>3. FramesAreShown' /\ Broken'
    <3>1. Read <= Len(fed) /\ Len(fed) <= Len(fed) BY <1>3
    <3> QED BY <1>1, <1>2, <1>3, <2>1, <2>2, <3>1, LineIsRefused
  <2> QED BY <1>9, <2>0, <2>3 DEF FramingInv
<1> QED BY <1>10, <1>11

LEMMA LastLineFraming ==
  ASSUME FramingInv, Buffered', LastLine
  PROVE  FramingInv'
<1> DEFINE line == IF CrHeld THEN Front(pending) ELSE pending
<1>1. /\ status = "open" /\ over /\ pending # <<>> /\ Consume(line, Len(pending))
      /\ pending' = <<>> /\ chunk' = chunk /\ fed' = fed /\ over' = over
  BY DEF LastLine
<1>2. Buffered /\ FrameTypes /\ Unread /\ Held /\ FrameRead BY <1>1 DEF FramingInv
<1>3. /\ fed \in Seq(Bytes) /\ pending \in Seq(Bytes) /\ Len(fed) \in Nat /\ Len(pending) \in Nat
      /\ Read \in Nat /\ Len(fed) = Read + Len(pending) /\ frameBytes \in Nat /\ chunk = <<>>
  <2>1. Read \in 0 .. Len(fed) /\ Len(fed) \in Nat BY <1>2, BytesOfBody
  <2>2. Read \in Nat BY <2>1
  <2>3. chunk = <<>> BY <1>1, <1>2 DEF Held
  <2>4. Len(chunk) = 0 BY <2>3
  <2> HIDE DEF Read
  <2> QED BY <1>2, <2>2, <2>3, <2>4, BytesOfBody
<1>4. Len(pending) \in Nat \ {0} BY <1>1, <1>3, EmptySeq
<1>5. ~Cut BY <1>1 DEF Cut
<1>6. /\ ~CrHeld => \A k \in 1 .. Len(pending) : IsText(pending[k])
      /\ CrHeld => /\ pending[Len(pending)] = "CR"
                   /\ \A k \in 1 .. Len(pending) - 1 : IsText(pending[k])
                   /\ Front(pending) \in Seq(Bytes) /\ Len(Front(pending)) = Len(pending) - 1
                   /\ \A k \in 1 .. Len(pending) - 1 : Front(pending)[k] = pending[k]
  BY <1>2, <1>3, PendingText
<1>7. \A k \in 1 .. Len(pending) : pending[k] = fed[Read + k] BY <1>2 DEF Unread
<1>8. Read \in Edges BY <1>2, <1>5 DEF FrameRead
<1>9. Read' = Len(fed)
  <2>1. Len(pending') = 0 /\ Len(chunk') = 0 BY <1>1, <1>3
  <2>2. Read' = Len(fed) - Len(chunk') - Len(pending') BY <1>1 DEF Read
  <2> HIDE DEF Read
  <2> QED BY <1>3, <2>1, <2>2
<1>10. Unread'
  <2>1. 1 .. Len(pending') = {} /\ 1 .. Len(chunk') = {} BY <1>1, <1>3
  <2> HIDE DEF Read
  <2> QED BY <1>3, <1>9, <2>1 DEF Unread
<1>11. Held'
  <2>1. 1 .. Len(pending') = {} BY <1>1
  <2> QED BY <1>1, <1>3, <2>1 DEF Held
<1> HIDE DEF Read
<1>12. Len(fed) - Read = Len(pending) BY <1>3
<1>13. CASE CrHeld
  <2>0. line = Front(pending) BY <1>13
  <2> HIDE DEF line
  <2>1. /\ line \in Seq(Bytes) /\ Len(line) = Len(pending) - 1 /\ pending[Len(pending)] = "CR"
        /\ \A k \in 1 .. Len(pending) - 1 : line[k] = pending[k] /\ IsText(pending[k])
    BY <1>6, <1>13, <2>0
  <2>2. \A k \in 1 .. Len(line) : line[k] = fed[Read + k] /\ IsText(line[k])
    <3> SUFFICES ASSUME NEW k \in 1 .. Len(line) PROVE line[k] = fed[Read + k] /\ IsText(line[k])
      OBVIOUS
    <3>1. k \in 1 .. Len(pending) - 1 /\ k \in 1 .. Len(pending) BY <1>3, <2>1
    <3> QED BY <1>7, <2>1, <3>1
  <2>3. \A i \in Read + 1 .. Read + Len(line) : IsText(fed[i])
    <3> SUFFICES ASSUME NEW i \in Read + 1 .. Read + Len(line) PROVE IsText(fed[i]) OBVIOUS
    <3>1. i - Read \in 1 .. Len(line) /\ Read + (i - Read) = i BY <1>3, <2>1
    <3> QED BY <2>2, <3>1
  <2>4. Terminated(Read, Len(line), Len(fed))
    <3>1. Len(line) \in Nat /\ Read + Len(line) + 1 = Len(fed) /\ Len(fed) \in 1 .. Len(fed)
      BY <1>3, <1>4, <2>1
    <3>2. fed[Len(fed)] = "CR"
      <4>1. Len(pending) \in 1 .. Len(pending) BY <1>4
      <4> QED BY <1>3, <1>7, <2>1, <4>1
    <3>3. Terminated(Read, Len(line), Read + Len(line) + 1)
      BY <1>1, <1>3, <1>8, <2>3, <3>1, <3>2, EndsWithCr
    <3> QED BY <3>1, <3>3
  <2>5. /\ FrameTypes'
        /\ status' = "open" => FrameRead'
        /\ status' # "open" => FramesAreShown' /\ (status' = "failed" <=> Broken')
    <3>1. Consume(line, Len(fed) - Read) BY <1>1, <1>12
    <3> QED BY <1>1, <1>2, <1>3, <1>5, <1>9, <2>1, <2>2, <2>4, <3>1, LineIsConsumed
  <2> QED BY <1>10, <1>11, <2>5 DEF FramingInv
<1>14. CASE ~CrHeld
  <2>0. line = pending BY <1>14
  <2> HIDE DEF line
  <2>1. \A i \in Read + 1 .. Len(fed) : IsText(fed[i])
    <3> SUFFICES ASSUME NEW i \in Read + 1 .. Len(fed) PROVE IsText(fed[i]) OBVIOUS
    <3>1. i - Read \in 1 .. Len(pending) /\ Read + (i - Read) = i BY <1>3
    <3> QED BY <1>6, <1>7, <1>14, <3>1
  <2>2. \A i \in Read + 1 .. Len(fed) : i \notin Breaks BY <2>1, TextIsNoBreak
  <2>3. MaxFrame \in Nat BY FramingAssumption
  <2>4. CASE frameBytes + Len(pending) > MaxFrame
    <3>1. status' = "failed" /\ data' = data /\ out' = out
      BY <1>1, <1>3, <2>3, <2>4 DEF Consume
    <3>2. FramesAreShown' /\ Broken'
      <4>1. \A i \in Read + 1 .. Len(fed) - 1 : i \notin Breaks
        <5>1. \A i \in Read + 1 .. Len(fed) - 1 : i \in Read + 1 .. Len(fed) BY <1>3
        <5> QED BY <2>2, <5>1
      <4>2. Read <= Len(fed) /\ Len(fed) <= Len(fed) BY <1>3
      <4>3. frameBytes + (Len(fed) - Read) > MaxFrame BY <1>12, <2>4
      <4> QED BY <1>1, <1>2, <1>3, <3>1, <4>1, <4>2, <4>3, LineIsRefused
    <3>3. FrameTypes' BY <1>2, <3>1 DEF FrameTypes
    <3> QED BY <3>1, <3>2, <3>3 DEF FramingInv
  <2>5. CASE frameBytes + Len(pending) <= MaxFrame
    <3>1. /\ data' = IF line[1] = "data:" THEN Append(data, Tail(line)) ELSE data
          /\ frameBytes' = frameBytes + Len(pending) /\ out' = out /\ status' = "open"
      BY <1>1, <1>3, <2>0, <2>3, <2>5 DEF Consume
    <3>2. FrameTypes'
      <4>1. Tail(pending) \in Seq(Bytes) BY <1>1, <1>3
      <4> QED BY <1>2, <2>0, <3>1, <4>1 DEF FrameTypes
    <3>3. /\ Breaks' = Breaks /\ Edges' = Edges
          /\ FrameEnds' = FrameEnds /\ FrameEdges' = FrameEdges /\ Frames' = Frames
      BY <1>1, SameBody
    <3>4. Cut'
      <4>1. Len(fed) \notin Edges
        <5>1. Len(fed) \in Read + 1 .. Len(fed) /\ Len(fed) # 0 BY <1>3, <1>4
        <5> QED BY <2>2, <5>1 DEF Edges
      <4>2. frameBytes' > 0 BY <1>3, <1>4, <3>1
      <4> QED BY <1>1, <1>9, <3>3, <4>1, <4>2 DEF Cut
    <3>5. Start' = Start
      <4>1. Start' = Read' - frameBytes' /\ Start = Read - frameBytes BY DEF Start
      <4> QED BY <1>3, <1>9, <3>1, <4>1
    <3>6. /\ Start \in FrameEdges /\ \A i \in FrameEnds : i <= Read => i <= Start
          /\ \A f \in Frames : f[2] <= Read => ~TooLong(f)
          /\ OutputTo(fed, Edges, FrameEnds, out, Read)
      BY <1>2 DEF FrameRead
    <3>7. FrameEnds \in SUBSET Nat /\ \A i \in FrameEnds : i <= Read
      <4>1. FrameEnds \subseteq Breaks /\ Breaks \subseteq 1 .. Len(fed) BY <1>3, BodyFacts
      <4>2. ASSUME NEW i \in FrameEnds, ~(i <= Read) PROVE FALSE
        <5>1. i \in Read + 1 .. Len(fed) BY <1>3, <4>1, <4>2
        <5> QED BY <2>2, <4>1, <5>1
      <4>3. FrameEnds \subseteq Nat BY <4>1
      <4> QED BY <4>2, <4>3
    <3>8. Frames = FramesOf(FrameEnds) BY WordsOfBody
    <3>9. \A f \in FramesOf(FrameEnds) : f[2] <= Read
      <4> SUFFICES ASSUME NEW f \in FramesOf(FrameEnds) PROVE f[2] <= Read OBVIOUS
      <4>0. FrameEnds \in SUBSET Nat BY <3>7
      <4>1. f[2] \in FrameEnds BY <4>0, FrameOf
      <4> QED BY <3>7, <4>1
    <3>10. OutputTo(fed, Edges, FrameEnds, out, Len(fed))
      <4>1. \A f \in FramesOf(FrameEnds) :
              f[2] <= Len(fed) => f[2] <= Read \/ ~Worth(fed, Edges, f[1], f[2])
        BY <3>9
      <4>2. Read <= Len(fed) /\ FrameEnds \in SUBSET Nat BY <1>3, <3>7
      <4> QED BY <1>3, <3>6, <4>1, <4>2, OutputStays
    <3>11. \A f \in Frames' : f[2] <= Read' => ~TooLong(f)'
      <4>1. \A f : TooLong(f)' <=> TooLong(f) BY DEF TooLong
      <4> QED BY <3>3, <3>6, <3>8, <3>9, <4>1
    <3>12. Start' \in FrameEdges' /\ \A i \in FrameEnds' : i <= Read' => i <= Start'
      BY <3>3, <3>5, <3>6, <3>7
    <3>13. OutputTo(fed', Edges', FrameEnds', out', Read') BY <1>1, <1>9, <3>1, <3>3, <3>10
    <3>14. FrameRead' BY <3>4, <3>11, <3>12, <3>13 DEF FrameRead
    <3> QED BY <1>10, <1>11, <3>1, <3>2, <3>14 DEF FramingInv
  <2> QED BY <1>3, <2>3, <2>4, <2>5
<1> QED BY <1>13, <1>14

LEMMA EndFraming ==
  ASSUME FramingInv, Buffered', End
  PROVE  FramingInv'
<1>1. /\ status = "open" /\ over /\ pending = <<>> /\ status' = IF Truncated THEN "failed" ELSE "ended"
      /\ fed' = fed /\ over' = over /\ data' = data /\ out' = out
  BY DEF End
<1>2. Buffered /\ FrameTypes /\ Unread /\ Held /\ FrameRead BY <1>1 DEF FramingInv
<1>3. fed \in Seq(Bytes) /\ Len(fed) \in Nat /\ Read = Len(fed) /\ frameBytes \in Nat
  <2>1. Len(chunk) = 0 /\ Len(pending) = 0
    <3>1. chunk = <<>> BY <1>1, <1>2 DEF Held
    <3> QED BY <1>1, <3>1
  <2>2. Len(fed) = Read + Len(pending) + Len(chunk) /\ Read \in 0 .. Len(fed) BY <1>2, BytesOfBody
  <2> HIDE DEF Read
  <2> QED BY <1>2, <2>1, <2>2, BytesOfBody
<1>4. FrameTypes' BY <1>1, <1>2 DEF FrameTypes
<1>5. /\ Start \in FrameEdges /\ \A i \in FrameEnds : i <= Read => i <= Start
      /\ Cut \/ (Read \in Edges /\ ValuesOf(fed, Edges, data, Start, Read))
  BY <1>2 DEF FrameRead
<1>6. Start = Read - frameBytes BY DEF Start
<1>7. FrameEnds \subseteq 1 .. Len(fed) /\ FrameEdges \subseteq 0 .. Len(fed)
  <2>1. /\ Breaks \subseteq 1 .. Len(fed) /\ Edges \subseteq 0 .. Len(fed)
        /\ FrameEnds \subseteq Breaks /\ FrameEdges \subseteq Edges
    BY <1>3, BodyFacts
  <2> QED BY <2>1
<1>8. MaxFrame \in Nat BY FramingAssumption
<1> HIDE DEF Read, Start
<1>9. FramesAreShown /\ ~\E f \in Frames : TooLong(f)
  <2>1. \A i \in FrameEnds : i <= Read BY <1>3, <1>7
  <2>2. Read \in Nat BY <1>3
  <2> QED BY <1>2, <1>3, <2>1, <2>2, RestIsShown
<1>10. Truncated <=> frameBytes > 0
  <2> SUFFICES ASSUME ~(frameBytes > 0) PROVE data = <<>> BY DEF Truncated
  <2>1. frameBytes = 0 BY <1>3
  <2>2. Start = Read BY <1>3, <1>6, <2>1
  <2>3. ValuesOf(fed, Edges, data, Start, Read) BY <1>5, <2>1 DEF Cut
  <2>4. LinesOf(fed, Edges, Start, Read) = {}
    <3>1. Start + 1 .. Read = {} BY <1>3, <2>2
    <3> QED BY <3>1 DEF LinesOf
  <2>5. Len(data) = 0 BY <2>3, <2>4, FS_EmptySet DEF ValuesOf
  <2>6. data \in Seq(Seq(Bytes)) BY <1>2 DEF FrameTypes
  <2> QED BY <2>5, <2>6, EmptySeq
<1>11. Broken <=> frameBytes > 0
  <2>1. CASE frameBytes = 0
    <3>1. Start = Len(fed) BY <1>3, <1>6, <2>1
    <3>2. Len(fed) \in FrameEdges /\ ~(Len(fed) - Len(fed) > MaxFrame) BY <1>3, <1>5, <1>8, <3>1
    <3> QED BY <1>9, <2>1, <3>2 DEF Broken
  <2>2. CASE frameBytes # 0
    <3>1. Start < Len(fed) /\ 0 <= Start
      <4>1. Start \in 0 .. Len(fed) BY <1>5, <1>7
      <4> QED BY <1>3, <1>6, <2>2, <4>1
    <3>2. Len(fed) \notin FrameEnds
      <4> SUFFICES ASSUME Len(fed) \in FrameEnds PROVE FALSE OBVIOUS
      <4>1. Len(fed) <= Start BY <1>3, <1>5
      <4>2. Start \in Int BY <1>3, <1>6
      <4> QED BY <1>3, <3>1, <4>1, <4>2
    <3>3. Len(fed) # 0 BY <1>3, <1>6, <3>1
    <3>4. Len(fed) \notin FrameEdges BY <3>2, <3>3 DEF FrameEdges
    <3> QED BY <1>1, <1>3, <2>2, <3>4 DEF Broken
  <2> QED BY <2>1, <2>2
<1>12. FramesAreShown' /\ (Broken <=> Broken') BY <1>1, <1>9, SameVerdict
<1>13. status' # "open" /\ (status' = "failed" <=> Broken') BY <1>1, <1>10, <1>11, <1>12
<1> QED BY <1>4, <1>12, <1>13 DEF FramingInv

LEMMA StayFraming ==
  ASSUME FramingInv, UNCHANGED vars
  PROVE  FramingInv'
<1>1. /\ fed' = fed /\ over' = over /\ chunk' = chunk /\ pending' = pending
      /\ frameBytes' = frameBytes /\ data' = data /\ out' = out /\ status' = status
  BY DEF vars
<1>2. /\ Breaks' = Breaks /\ Edges' = Edges
      /\ FrameEnds' = FrameEnds /\ FrameEdges' = FrameEdges /\ Frames' = Frames
  BY <1>1, SameBody
<1>3. Read' = Read BY <1>1 DEF Read
<1>4. Start' = Start BY <1>1, <1>3 DEF Start
<1>5. Buffered' <=> Buffered BY <1>1 DEF Buffered, BufferType, BufferBounded
<1>6. FrameTypes' <=> FrameTypes BY <1>1 DEF FrameTypes
<1>7. Unread' <=> Unread BY <1>1, <1>3 DEF Unread
<1>8. Held' <=> Held BY <1>1 DEF Held
<1>9. Cut' <=> Cut BY <1>1, <1>2, <1>3 DEF Cut
<1>10. FrameRead => FrameRead'
  <2>1. \A f : TooLong(f)' <=> TooLong(f) BY DEF TooLong
  <2> HIDE DEF Read, Start
  <2> QED BY <1>1, <1>2, <1>3, <1>4, <1>9, <2>1 DEF FrameRead
<1>11. (FramesAreShown <=> FramesAreShown') /\ (Broken <=> Broken') BY <1>1, SameVerdict
<1> QED BY <1>1, <1>5, <1>6, <1>7, <1>8, <1>10, <1>11 DEF FramingInv

\* Every step keeps what was read in step with the reference.
LEMMA NextFraming == FramingInv /\ [Next]_vars => FramingInv'
<1> SUFFICES ASSUME FramingInv, [Next]_vars PROVE FramingInv' OBVIOUS
<1>0. Buffered' BY NextBuffered DEF FramingInv
<1>1. ASSUME NEW n \in 1 .. MaxBytes - Len(fed), NEW c \in [1 .. n -> Bytes], Feed(c)
      PROVE  FramingInv'
  <2>1. c \in Seq(Bytes) OBVIOUS
  <2> QED BY <1>0, <1>1, <2>1, FeedFraming
<1>2. CASE ResolveCr BY <1>0, <1>2, ResolveCrFraming
<1>3. CASE Line BY <1>0, <1>3, LineFraming
<1>4. CASE Keep BY <1>0, <1>4, KeepFraming
<1>5. CASE Finish BY <1>0, <1>5, FinishFraming
<1>6. CASE LastLine BY <1>0, <1>6, LastLineFraming
<1>7. CASE End BY <1>0, <1>7, EndFraming
<1>8. CASE UNCHANGED vars BY <1>8, StayFraming
<1> QED BY <1>1, <1>2, <1>3, <1>4, <1>5, <1>6, <1>7, <1>8 DEF Next

\* Between two chunks no frame ends in what is pending, and it may still fit.
LEMMA FramingShown == FramingInv => ChunkingInvisible
<1> SUFFICES ASSUME FramingInv, status = "open", chunk = <<>>, ~over
             PROVE  FramesAreShown /\ ~Broken
  BY DEF FramingInv, ChunkingInvisible
<1>1. Buffered /\ Unread /\ Held /\ FrameRead BY DEF FramingInv
<1>2. /\ fed \in Seq(Bytes) /\ Len(fed) \in Nat /\ Len(pending) \in Nat
      /\ Read \in Nat /\ Len(fed) = Read + Len(pending)
      /\ frameBytes \in Nat /\ frameBytes + Len(pending) <= MaxFrame
  <2>1. Len(chunk) = 0 OBVIOUS
  <2>2. Read \in 0 .. Len(fed) /\ Len(fed) \in Nat BY <1>1, BytesOfBody
  <2>3. Read \in Nat BY <2>2
  <2> HIDE DEF Read
  <2> QED BY <1>1, <2>1, <2>3, BytesOfBody
<1>3. /\ \A k \in 1 .. Len(pending) : pending[k] = fed[Read + k]
      /\ \A k \in 1 .. Len(pending) : IsText(pending[k]) \/ (k = Len(pending) /\ pending[k] = "CR")
  BY <1>1 DEF Unread, Held
<1>4. Start \in FrameEdges /\ Start = Read - frameBytes BY <1>1 DEF FrameRead, Start
<1>5. FrameEnds \subseteq Breaks /\ Breaks \subseteq 1 .. Len(fed) BY <1>2, BodyFacts
<1> HIDE DEF Read, Start
<1>6. ASSUME NEW i \in FrameEnds PROVE i <= Read
  <2> SUFFICES ASSUME ~(i <= Read) PROVE FALSE OBVIOUS
  <2>1. i - Read \in 1 .. Len(pending) /\ Read + (i - Read) = i BY <1>2, <1>5
  <2>2. IsText(fed[i]) \/ (i = Len(fed) /\ fed[i] = "CR") BY <1>2, <1>3, <2>1
  <2>3. i \notin Breaks BY <2>2 DEF Breaks, IsText
  <2> QED BY <1>5, <2>3
<1>7. FramesAreShown /\ ~\E f \in Frames : TooLong(f) BY <1>1, <1>2, <1>6, RestIsShown
<1>8. ~(Len(fed) - Start > MaxFrame)
  <2>1. MaxFrame \in Nat BY FramingAssumption
  <2> QED BY <1>2, <1>4, <2>1
<1>9. ~Broken BY <1>4, <1>7, <1>8 DEF Broken
<1> QED BY <1>7, <1>9

\* Whatever the chunks of a body, the frames yielded are its frames, and it is
\* refused exactly when it has one that is too long or stops inside one
\* (framesFrom, finish).
THEOREM ChunksAreInvisible == Spec => []ChunkingInvisible
  BY InitFraming, NextFraming, FramingShown, PTL DEF Spec

HIDE FramingAssumption

(***************************************************************************)
(* The decoders.                                                           *)
(***************************************************************************)
\* After an abort the consumer receives the aborted event and nothing else: no
\* frame is taken out of the body any more, and what an earlier one left is not
\* yielded (decodeFrameStream: every check of cancelled()).
THEOREM AbortIsTheEnd == StreamsSpec => AbortSilences
<1>1. StreamsNext \/ UNCHANGED <<parser, vars, decodeVars, lineVars>> =>
        [signal /\ answer' # answer => answer' = Append(answer, Failure("aborted"))]_decodeVars
  <2> SUFFICES ASSUME StreamsNext, signal, answer' # answer
               PROVE  answer' = Append(answer, Failure("aborted"))
    BY DEF decodeVars
  <2>1. DecoderNext BY DEF StreamsNext, decodeVars
  <2>2. CASE DecodeNext
    BY <2>2 DEF DecodeNext, BadFrame, SourceFails, ErrorFrame, Yield, Close, Abort, Cancelled,
                Pulling, Throw, Handle
  <2>3. ~AnthropicFrame
    BY DEF AnthropicFrame, MessageStart, TextStart, TextDelta, InputDelta, BlockStop, BlockStart,
           ToolStart, MessageDelta, MessageStop, Open, HasBlock, Pulling
  <2>4. ~ChatFrame BY DEF ChatFrame, Chunk, Done, Pulling
  <2> QED BY <2>1, <2>2, <2>3, <2>4 DEF DecoderNext
<1> QED BY <1>1, PTL DEF StreamsSpec, AbortSilences

(***************************************************************************)
(* The decoders: an answer is well formed, and whole when it is completed. *)
(*                                                                         *)
(* What the consumer has received, and what was decoded and is still to be *)
(* yielded, is one sequence of events: yielding does not change it.        *)
(***************************************************************************)
Codes == Upstream \cup {"aborted", "provider_protocol_error"}
EventSet == [type : {"text_delta", "usage", "completed"}]
              \cup [type : {"error"}, code : Codes]
              \cup [type : {"tool_call"}, id : Ids \cup {None}, parts : Nat]

Out == answer \o batch

\* Where s has events of a type.
Places(s, type) == {i \in DOMAIN s : s[i].type = type}

\* No event of s is the last of an answer.
NoFinal(s) == \A i \in DOMAIN s : ~Final(s[i])

\* One final event, at the end; no text behind a tool call; no call twice.
WellFormed(s) ==
  /\ \A i \in DOMAIN s : Final(s[i]) => i = Len(s)
  /\ \A i \in Places(s, "tool_call"), j \in Places(s, "text_delta") : j < i
  /\ \A i, j \in Places(s, "tool_call") : s[i].id = s[j].id => i = j

\* The last event of s is one of these.
EndsWith(s, types) == s # <<>> /\ s[Len(s)].type \in types

\* The calls in s are these, each once and in the order of the indexes.
Announces(s, calls) ==
  /\ {s[i] : i \in Places(s, "tool_call")} = {ToolCall(calls[k]) : k \in DOMAIN calls}
  /\ \A k, l \in DOMAIN calls : calls[k].id = calls[l].id => k = l
  /\ \A i, j \in Places(s, "tool_call"), k, l \in DOMAIN calls :
       i < j /\ calls[k].id = s[i].id /\ calls[l].id = s[j].id
         => calls[k].index <= calls[l].index

\* s is the whole of what the provider has said.
WholeOf(s, spoken) ==
  /\ Cardinality(Places(s, "text_delta")) = spoken.text
  /\ Announces(s, spoken.calls)
  /\ spoken.reason \in {"end_turn", "tool_use", "stop", "tool_calls"}

\* The calls the provider has announced, and what it has said.
CallRecords == [index : Indexes, id : Ids \cup {None}, parts : Nat]
Reasons == {None, "end_turn", "tool_use", "max_tokens", "stop", "tool_calls"}
SaidRecords == [text : Nat, calls : Seq(CallRecords), reason : Reasons]

\* Anthropic: every announced call is an open block or waits for the end, and
\* the last one that was announced with the index of an open block is that
\* block's.
Blocks == [kind : {"text"}]
            \cup [kind : {"tool_use"}, id : Ids, whole : BOOLEAN, parts : Nat]
BlockMaps == UNION {[S -> Blocks] : S \in SUBSET Indexes}
AnthropicDecoders ==
  [started : BOOLEAN, terminal : BOOLEAN, reason : Reasons, input : BOOLEAN, output : BOOLEAN,
   blocks : BlockMaps, ids : SUBSET Ids, pending : Seq(CallRecords)]

\* The call is the one the open block has gathered.
InBlock(call, blocks) ==
  /\ call.index \in DOMAIN blocks /\ blocks[call.index].kind = "tool_use"
  /\ blocks[call.index].id = call.id /\ blocks[call.index].parts = call.parts

\* No later call has the index of the k-th one.
LastOf(calls, k) == \A l \in DOMAIN calls : calls[l].index = calls[k].index => l <= k

\* The announced calls are the open blocks and the ones that wait, each once.
Follows(blocks, waiting, ids, calls) ==
  /\ \A k \in DOMAIN calls : calls[k].id \in ids
  /\ \A k, l \in DOMAIN calls : calls[k].id = calls[l].id => k = l
  /\ \A m, n \in DOMAIN waiting : waiting[m].id = waiting[n].id => m = n
  /\ \A m \in DOMAIN waiting : \E k \in DOMAIN calls : calls[k] = waiting[m]
  /\ \A k \in DOMAIN calls :
       (\E m \in DOMAIN waiting : waiting[m] = calls[k]) \/ InBlock(calls[k], blocks)
  /\ \A i \in DOMAIN blocks : blocks[i].kind = "tool_use" =>
       \E k \in DOMAIN calls :
         /\ calls[k].index = i /\ InBlock(calls[k], blocks) /\ LastOf(calls, k)
         /\ \A m \in DOMAIN waiting : waiting[m].id # calls[k].id

\* Until message_stop the answer is text, and the calls wait.
AnthropicFollows(s, decoder, spoken) ==
  /\ spoken.reason = decoder.reason
  /\ \A i \in DOMAIN s : s[i].type = "text_delta"
  /\ Follows(decoder.blocks, decoder.pending, decoder.ids, spoken.calls)

\* OpenAI: the calls of the decoder are the announced ones, by index.
CallMaps == UNION {[S -> CallRecords] : S \in SUBSET Indexes}
ChatDecoders ==
  [terminal : BOOLEAN, finish : Reasons, emitted : BOOLEAN, calls : CallMaps]

\* The calls by index are the announced ones.
Mirrors(map, calls) ==
  /\ \A j \in DOMAIN map : map[j].index = j /\ \E k \in DOMAIN calls : calls[k].index = j
  /\ \A k \in DOMAIN calls : calls[k].index \in DOMAIN map /\ map[calls[k].index] = calls[k]
  /\ \A k, l \in DOMAIN calls : calls[k].index = calls[l].index => k = l

\* A finish_reason of tool_calls has announced the calls; before it there are none.
ChatFollows(s, decoder, spoken) ==
  /\ spoken.reason = decoder.finish
  /\ decoder.finish \in {None, "stop", "tool_calls"}
  /\ decoder.finish = "stop" => DOMAIN decoder.calls = {}
  /\ decoder.emitted <=> decoder.finish = "tool_calls"
  /\ Mirrors(decoder.calls, spoken.calls)
  /\ IF decoder.emitted THEN Announces(s, spoken.calls) ELSE Places(s, "tool_call") = {}

\* The decoder in use, and the shape of what it holds.
DecoderTypes ==
  /\ answer \in Seq(EventSet) /\ batch \in Seq(EventSet) /\ closed \in BOOLEAN
  /\ said \in SaidRecords
  /\ \/ protocol = "anthropic" /\ dec \in AnthropicDecoders
     \/ protocol = "openai" /\ dec \in ChatDecoders
     \/ protocol = "none" /\ closed

\* Until the last frame, what was decoded follows what the provider said.
FollowsSaid(s, decoder, spoken, form) ==
  /\ NoFinal(s)
  /\ Cardinality(Places(s, "text_delta")) = spoken.text
  /\ form = "anthropic" => AnthropicFollows(s, decoder, spoken)
  /\ form = "openai" => ChatFollows(s, decoder, spoken)

\* The answer is well formed, and ends when the decoder does.
Kept(s, decoder, spoken, form, shut) ==
  /\ WellFormed(s)
  /\ IF ~shut /\ ~decoder.terminal THEN FollowsSaid(s, decoder, spoken, form)
     ELSE EndsWith(s, {"completed", "error"})
  /\ EndsWith(s, {"completed"}) => WholeOf(s, spoken)

\* The inductive invariant of the decoders.
DecoderInv ==
  /\ DecoderTypes
  /\ closed => batch = <<>>
  /\ Kept(Out, dec, said, protocol, closed)

\* The events are what EventSet says, and know their types.
LEMMA EventFields ==
  /\ \A type \in {"text_delta", "usage", "completed"} : Event(type) \in EventSet /\ Event(type).type = type
  /\ \A code \in Codes : Failure(code) \in EventSet /\ Failure(code).type = "error"
  /\ \A call \in CallRecords : /\ ToolCall(call) \in EventSet /\ ToolCall(call).type = "tool_call"
                               /\ ToolCall(call).id = call.id
  /\ Completed = Event("completed")
BY DEF Event, Failure, ToolCall, Completed, EventSet, CallRecords

\* One more event, or several.
LEMMA Appended ==
  ASSUME NEW s \in Seq(EventSet), NEW e \in EventSet
  PROVE  LET t == Append(s, e)
         IN  /\ t \in Seq(EventSet) /\ Len(t) = Len(s) + 1 /\ t # <<>>
             /\ \A i \in DOMAIN s : t[i] = s[i]
             /\ t[Len(t)] = e /\ DOMAIN t = DOMAIN s \cup {Len(t)}
OBVIOUS

\* A frame's events are yielded one after the other.
LEMMA Regroup ==
  ASSUME NEW s \in Seq(EventSet), NEW x \in Seq(EventSet), NEW y \in Seq(EventSet),
         NEW z \in Seq(EventSet)
  PROVE  s \o ((x \o y) \o z) = ((s \o x) \o y) \o z
OBVIOUS

\* Yielding an event only moves it.
LEMMA Yielded ==
  ASSUME NEW s \in Seq(EventSet), NEW t \in Seq(EventSet), t # <<>>
  PROVE  /\ Append(s, Head(t)) \in Seq(EventSet) /\ Tail(t) \in Seq(EventSet)
         /\ Append(s, Head(t)) \o Tail(t) = s \o t
OBVIOUS

\* Where the events of two sequences are in the one after the other.
LEMMA Concatenated ==
  ASSUME NEW s \in Seq(EventSet), NEW x \in Seq(EventSet)
  PROVE  LET t == s \o x
         IN  /\ t \in Seq(EventSet) /\ Len(t) = Len(s) + Len(x)
             /\ \A i \in DOMAIN s : i \in DOMAIN t /\ t[i] = s[i]
             /\ \A k \in DOMAIN x : Len(s) + k \in DOMAIN t /\ t[Len(s) + k] = x[k]
             /\ \A i \in DOMAIN t : i \in DOMAIN s \/ (i > Len(s) /\ i - Len(s) \in DOMAIN x /\ t[i] = x[i - Len(s)])
             /\ Len(s) \in Nat /\ DOMAIN s = 1 .. Len(s) /\ DOMAIN t \subseteq Nat
OBVIOUS

\* Nothing appended is nothing changed.
LEMMA NoMore == ASSUME NEW s \in Seq(EventSet) PROVE s \o <<>> = s
OBVIOUS

\* What an event that is appended changes.
LEMMA FailureAppended ==
  ASSUME NEW s \in Seq(EventSet), NoFinal(s), WellFormed(s), NEW code \in Codes
  PROVE  LET t == Append(s, Failure(code))
         IN  WellFormed(t) /\ EndsWith(t, {"completed", "error"}) /\ ~EndsWith(t, {"completed"})
<1> DEFINE t == Append(s, Failure(code))
<1>1. /\ t \in Seq(EventSet) /\ Len(t) = Len(s) + 1 /\ t # <<>>
      /\ \A i \in DOMAIN s : t[i] = s[i]
      /\ t[Len(t)].type = "error" /\ DOMAIN t = DOMAIN s \cup {Len(t)}
  BY EventFields, Appended
<1> HIDE DEF t
<1>2. WellFormed(t) BY <1>1 DEF WellFormed, NoFinal, Final, Places
<1>3. EndsWith(t, {"completed", "error"}) /\ ~EndsWith(t, {"completed"}) BY <1>1 DEF EndsWith
<1> QED BY <1>2, <1>3 DEF t

\* An answer has as many events of a type as a natural number says.
LEMMA PlacesFinite ==
  ASSUME NEW s \in Seq(EventSet), NEW type
  PROVE  IsFiniteSet(Places(s, type)) /\ Cardinality(Places(s, type)) \in Nat
<1>1. IsFiniteSet(1 .. Len(s)) BY FS_Interval
<1>2. Places(s, type) \subseteq 1 .. Len(s) BY DEF Places
<1> QED BY <1>1, <1>2, FS_Subset, FS_CardinalityType

LEMMA TextAppended ==
  ASSUME NEW s \in Seq(EventSet), NoFinal(s), WellFormed(s), Places(s, "tool_call") = {}
  PROVE  LET t == Append(s, Event("text_delta"))
         IN  /\ t \in Seq(EventSet) /\ NoFinal(t) /\ WellFormed(t) /\ Places(t, "tool_call") = {}
             /\ Cardinality(Places(t, "text_delta")) = Cardinality(Places(s, "text_delta")) + 1
             /\ (\A i \in DOMAIN s : s[i].type = "text_delta") => \A i \in DOMAIN t : t[i].type = "text_delta"
<1> DEFINE t == Append(s, Event("text_delta"))
<1>1. /\ t \in Seq(EventSet) /\ Len(t) = Len(s) + 1 /\ t # <<>>
      /\ \A i \in DOMAIN s : t[i] = s[i]
      /\ t[Len(t)].type = "text_delta" /\ DOMAIN t = DOMAIN s \cup {Len(t)}
  BY EventFields, Appended
<1> HIDE DEF t
<1>2. NoFinal(t) /\ WellFormed(t) /\ Places(t, "tool_call") = {}
  BY <1>1 DEF WellFormed, NoFinal, Final, Places
<1>3. Cardinality(Places(t, "text_delta")) = Cardinality(Places(s, "text_delta")) + 1
  <2>1. Places(t, "text_delta") = Places(s, "text_delta") \cup {Len(t)} /\ Len(t) \notin Places(s, "text_delta")
    BY <1>1 DEF Places
  <2> QED BY <2>1, PlacesFinite, FS_AddElement, ZenonT(60)
<1>4. (\A i \in DOMAIN s : s[i].type = "text_delta") => \A i \in DOMAIN t : t[i].type = "text_delta"
  BY <1>1
<1> QED BY <1>1, <1>2, <1>3, <1>4 DEF t

LEMMA PlainAppended ==
  ASSUME NEW s \in Seq(EventSet), NoFinal(s), WellFormed(s), NEW type \in {"usage", "completed"}
  PROVE  LET t == Append(s, Event(type))
         IN  /\ t \in Seq(EventSet) /\ WellFormed(t) /\ EndsWith(t, {type})
             /\ type = "usage" => NoFinal(t)
             /\ Places(t, "text_delta") = Places(s, "text_delta")
             /\ Places(t, "tool_call") = Places(s, "tool_call")
             /\ \A calls : Announces(s, calls) => Announces(t, calls)
<1> DEFINE t == Append(s, Event(type))
<1>1. /\ t \in Seq(EventSet) /\ Len(t) = Len(s) + 1 /\ t # <<>>
      /\ \A i \in DOMAIN s : t[i] = s[i]
      /\ t[Len(t)].type = type /\ DOMAIN t = DOMAIN s \cup {Len(t)}
  BY EventFields, Appended
<1> HIDE DEF t
<1>2. (type = "usage" => NoFinal(t)) /\ WellFormed(t)
  BY <1>1 DEF WellFormed, NoFinal, Final, Places
<1>3. EndsWith(t, {type}) BY <1>1 DEF EndsWith
<1>4. /\ Places(t, "text_delta") = Places(s, "text_delta")
      /\ Places(t, "tool_call") = Places(s, "tool_call")
  BY <1>1 DEF Places
<1>5. ASSUME NEW calls, Announces(s, calls) PROVE Announces(t, calls)
  <2>1. \A i \in Places(s, "tool_call") : t[i] = s[i] BY <1>1 DEF Places
  <2>2. {t[i] : i \in Places(t, "tool_call")} = {s[i] : i \in Places(s, "tool_call")} BY <1>4, <2>1
  <2> QED BY <1>4, <1>5, <2>1, <2>2 DEF Announces
<1> QED BY <1>1, <1>2, <1>3, <1>4, <1>5 DEF t

\* The same calls, sorted by their indexes.
Sorts(given, calls) ==
  /\ \A k \in DOMAIN given : \E l \in DOMAIN calls : calls[l] = given[k]
  /\ \A l \in DOMAIN calls : \E k \in DOMAIN given : calls[l] = given[k]
  /\ \A k, l \in DOMAIN given : given[k].id = given[l].id => k = l
  /\ \A k, l \in DOMAIN calls : calls[k].id = calls[l].id => k = l
  /\ \A k, l \in DOMAIN given : k < l => given[k].index <= given[l].index

ToolsOf(given) == [k \in DOMAIN given |-> ToolCall(given[k])]

\* An interval from 1 has one length.
LEMMA SameLength == \A m, n \in Nat : 1 .. m = 1 .. n => m = n
<1> SUFFICES ASSUME NEW m \in Nat, NEW n \in Nat, 1 .. m = 1 .. n PROVE m = n OBVIOUS
<1>1. \A i \in Nat : i \in 1 .. m <=> i \in 1 .. n OBVIOUS
<1>2. CASE m < n BY <1>1, <1>2
<1>3. CASE n < m BY <1>1, <1>3
<1> QED BY <1>2, <1>3

\* The tool events of sorted calls, one for each.
LEMMA ToolEvents ==
  ASSUME NEW given \in Seq(CallRecords)
  PROVE  /\ ToolsOf(given) \in Seq(EventSet) /\ Len(ToolsOf(given)) = Len(given)
         /\ DOMAIN ToolsOf(given) = DOMAIN given
         /\ \A k \in DOMAIN given :
              /\ ToolsOf(given)[k].type = "tool_call" /\ ToolsOf(given)[k].id = given[k].id
              /\ ToolsOf(given)[k] = ToolCall(given[k])
<1> DEFINE tools == ToolsOf(given)
<1>1. \A k \in DOMAIN given : /\ given[k] \in CallRecords /\ ToolCall(given[k]) \in EventSet
                              /\ ToolCall(given[k]).type = "tool_call" /\ ToolCall(given[k]).id = given[k].id
  BY EventFields
<1>2. DOMAIN given = 1 .. Len(given) /\ Len(given) \in Nat OBVIOUS
<1>3. tools \in [1 .. Len(given) -> EventSet] /\ \A k \in DOMAIN given : tools[k] = ToolCall(given[k])
  BY <1>1, <1>2 DEF ToolsOf
<1> HIDE DEF tools
<1>4. tools \in Seq(EventSet) BY <1>2, <1>3
<1>5. Len(tools) = Len(given)
  <2>1. DOMAIN tools = 1 .. Len(tools) /\ Len(tools) \in Nat BY <1>4
  <2>2. DOMAIN tools = 1 .. Len(given) BY <1>3
  <2> QED BY <1>2, <2>1, <2>2, SameLength, Zenon
<1>6. DOMAIN tools = DOMAIN given BY <1>2, <1>3
<1>7. \A k \in DOMAIN given : /\ tools[k].type = "tool_call" /\ tools[k].id = given[k].id
                              /\ tools[k] = ToolCall(given[k])
  BY <1>1, <1>3
<1> QED BY <1>4, <1>5, <1>6, <1>7, Zenon DEF tools

\* Appended after the text, sorted calls are announced once each.
LEMMA CallsAppended ==
  ASSUME NEW s \in Seq(EventSet), NoFinal(s), WellFormed(s), Places(s, "tool_call") = {},
         NEW calls \in Seq(CallRecords), NEW given \in Seq(CallRecords), Sorts(given, calls)
  PROVE  LET t == s \o ToolsOf(given)
         IN  /\ t \in Seq(EventSet) /\ NoFinal(t) /\ WellFormed(t)
             /\ Places(t, "text_delta") = Places(s, "text_delta")
             /\ Announces(t, calls)
<1> DEFINE tools == ToolsOf(given)
           t == s \o tools
<1>1. /\ tools \in Seq(EventSet) /\ Len(tools) = Len(given) /\ DOMAIN tools = DOMAIN given
  BY ToolEvents
<1>t. \A k \in DOMAIN given : tools[k].type = "tool_call"
  BY ToolEvents
<1>i. \A k \in DOMAIN given : tools[k].id = given[k].id /\ tools[k] = ToolCall(given[k])
  BY ToolEvents
<1> HIDE DEF tools
<1>2. /\ t \in Seq(EventSet) /\ Len(t) = Len(s) + Len(given)
      /\ \A i \in DOMAIN s : i \in DOMAIN t /\ t[i] = s[i]
      /\ \A k \in DOMAIN given : Len(s) + k \in DOMAIN t /\ t[Len(s) + k] = tools[k]
      /\ \A i \in DOMAIN t : i \in DOMAIN s \/ (i > Len(s) /\ i - Len(s) \in DOMAIN given /\ t[i] = tools[i - Len(s)])
      /\ Len(s) \in Nat /\ DOMAIN s = 1 .. Len(s) /\ DOMAIN t \subseteq Nat
  <2>1. /\ t \in Seq(EventSet) /\ Len(t) = Len(s) + Len(tools)
        /\ \A i \in DOMAIN s : i \in DOMAIN t /\ t[i] = s[i]
        /\ \A k \in DOMAIN tools : Len(s) + k \in DOMAIN t /\ t[Len(s) + k] = tools[k]
        /\ \A i \in DOMAIN t : i \in DOMAIN s \/ (i > Len(s) /\ i - Len(s) \in DOMAIN tools /\ t[i] = tools[i - Len(s)])
        /\ Len(s) \in Nat /\ DOMAIN s = 1 .. Len(s) /\ DOMAIN t \subseteq Nat
    BY <1>1, Concatenated, Zenon
  <2> QED BY <1>1, <2>1, Zenon
<1>s. /\ \A k \in DOMAIN given : \E l \in DOMAIN calls : calls[l] = given[k]
      /\ \A l \in DOMAIN calls : \E k \in DOMAIN given : calls[l] = given[k]
  BY Zenon DEF Sorts
<1>d. DOMAIN given = 1 .. Len(given) /\ Len(given) \in Nat OBVIOUS
<1> HIDE DEF t
<1>3. Places(t, "tool_call") = {i \in DOMAIN t : i > Len(s)}
  <2>1. \A i \in DOMAIN t : i > Len(s) => i \notin DOMAIN s BY <1>2
  <2>2. \A i \in DOMAIN t : i > Len(s) => t[i].type = "tool_call" BY <1>t, <1>2, <2>1
  <2>3. \A i \in DOMAIN s : ~(i > Len(s)) /\ t[i].type # "tool_call" BY <1>2 DEF Places
  <2> QED BY <1>2, <2>2, <2>3 DEF Places
<1>4. Places(t, "text_delta") = Places(s, "text_delta")
  <2>1. \A i \in DOMAIN t : i \in DOMAIN s \/ t[i].type = "tool_call" BY <1>t, <1>2
  <2> QED BY <1>2, <2>1 DEF Places
<1>5. NoFinal(t) BY <1>t, <1>2 DEF NoFinal, Final
<1>6. \A i \in Places(t, "tool_call") :
        i > Len(s) /\ i - Len(s) \in DOMAIN given /\ t[i] = ToolCall(given[i - Len(s)])
                   /\ t[i].id = given[i - Len(s)].id /\ i \in Nat
  <2>1. \A i \in DOMAIN t : i > Len(s) => i \notin DOMAIN s BY <1>2
  <2>2. \A i \in Places(t, "tool_call") :
          i > Len(s) /\ i - Len(s) \in DOMAIN given /\ t[i] = tools[i - Len(s)] /\ i \in Nat
    BY <1>2, <1>3, <2>1
  <2> QED BY <1>i, <2>2
<1>7. WellFormed(t)
  <2>1. \A i \in Places(t, "tool_call"), j \in Places(t, "text_delta") : j < i
    BY <1>2, <1>4, <1>6 DEF Places
  <2>2. ASSUME NEW i \in Places(t, "tool_call"), NEW j \in Places(t, "tool_call"), t[i].id = t[j].id
        PROVE  i = j
    <3>1. i - Len(s) = j - Len(s) BY <1>6, <2>2 DEF Sorts
    <3> QED BY <1>2, <1>6, <3>1
  <2> QED BY <1>5, <2>1, <2>2 DEF WellFormed, NoFinal
<1>8. Announces(t, calls)
  <2>1. ASSUME NEW i \in Places(t, "tool_call") PROVE \E l \in DOMAIN calls : t[i] = ToolCall(calls[l])
    BY <1>6, <1>s, ZenonT(60)
  <2>2. \A k \in DOMAIN given : Len(s) + k \in Places(t, "tool_call") /\ t[Len(s) + k] = ToolCall(given[k])
    <3>1. \A k \in DOMAIN given : Len(s) + k > Len(s) BY <1>d, <1>2
    <3> QED BY <1>i, <1>2, <1>3, <3>1, Zenon
  <2>3. ASSUME NEW l \in DOMAIN calls PROVE \E i \in Places(t, "tool_call") : t[i] = ToolCall(calls[l])
    BY <2>2, <1>s, Zenon
  <2>4. {t[i] : i \in Places(t, "tool_call")} = {ToolCall(calls[k]) : k \in DOMAIN calls}
    BY <2>1, <2>3
  <2>5. ASSUME NEW i \in Places(t, "tool_call"), NEW j \in Places(t, "tool_call"),
               NEW k \in DOMAIN calls, NEW l \in DOMAIN calls,
               i < j, calls[k].id = t[i].id, calls[l].id = t[j].id
        PROVE  calls[k].index <= calls[l].index
    <3> DEFINE a == i - Len(s)
               b == j - Len(s)
    <3>1. /\ a \in DOMAIN given /\ given[a].id = t[i].id
          /\ b \in DOMAIN given /\ given[b].id = t[j].id
      BY <1>6
    <3>2. a < b BY <1>2, <1>6, <2>5
    <3> HIDE DEF a, b
    <3>3. calls[k] = given[a] /\ calls[l] = given[b]
      BY <2>5, <3>1 DEF Sorts
    <3>4. given[a].index <= given[b].index BY <3>1, <3>2, Zenon DEF Sorts
    <3> QED BY <3>3, <3>4
  <2>6. \A k, l \in DOMAIN calls : calls[k].id = calls[l].id => k = l BY DEF Sorts
  <2> QED BY <2>4, <2>5, <2>6 DEF Announces
<1> QED BY <1>2, <1>4, <1>5, <1>7, <1>8 DEF t, tools

USE DecodingAssumption

\* What is in a sequence of calls.
LEMMA CallFields ==
  ASSUME NEW calls \in Seq(CallRecords)
  PROVE  /\ DOMAIN calls = 1 .. Len(calls) /\ Len(calls) \in Nat
         /\ \A k \in DOMAIN calls : calls[k] \in CallRecords
         /\ \A k \in DOMAIN calls : /\ calls[k].index \in Nat /\ calls[k].index \in Indexes
                                   /\ calls[k].id \in Ids \cup {None} /\ calls[k].parts \in Nat
<1>1. \A k \in DOMAIN calls : calls[k] \in CallRecords OBVIOUS
<1>2. \A call \in CallRecords : /\ call.index \in Nat /\ call.index \in Indexes
                                /\ call.id \in Ids \cup {None} /\ call.parts \in Nat
  BY DEF CallRecords
<1>3. DOMAIN calls = 1 .. Len(calls) /\ Len(calls) \in Nat OBVIOUS
<1> QED BY <1>1, <1>2, <1>3, Zenon

\* InOrder sorts the calls that wait (the sort of message_stop).
LEMMA InOrderSorts ==
  ASSUME NEW calls \in Seq(CallRecords),
         \A m, n \in DOMAIN calls : calls[m].id = calls[n].id => m = n,
         NEW given \in InOrder(calls)
  PROVE  given \in Seq(CallRecords) /\ Sorts(given, calls)
<1>1. PICK order \in [DOMAIN calls -> DOMAIN calls] :
        /\ given = [k \in DOMAIN calls |-> calls[order[k]]]
        /\ \A i \in DOMAIN calls : \E k \in DOMAIN calls : order[k] = i
        /\ \A k, l \in DOMAIN calls :
             k < l => \/ calls[order[k]].index < calls[order[l]].index
                      \/ calls[order[k]].index = calls[order[l]].index /\ order[k] < order[l]
  BY Zenon DEF InOrder
<1>2. DOMAIN calls = 1 .. Len(calls) /\ Len(calls) \in Nat
      /\ \A k \in DOMAIN calls : order[k] \in DOMAIN calls
  BY <1>1, CallFields
<1>n. /\ \A k \in DOMAIN calls : calls[k] \in CallRecords
      /\ \A k \in DOMAIN calls : calls[k].index \in Nat
  BY CallFields
<1>3. /\ given \in [1 .. Len(calls) -> CallRecords] /\ DOMAIN given = DOMAIN calls
      /\ \A k \in DOMAIN calls : given[k] = calls[order[k]]
  BY <1>1, <1>2, <1>n
<1>4. given \in Seq(CallRecords) BY <1>2, <1>3
<1>5. ASSUME NEW k \in DOMAIN calls, NEW l \in DOMAIN calls, k < l
      PROVE  order[k] # order[l] /\ calls[order[k]].index <= calls[order[l]].index
  <2>1. order[k] \in Nat /\ order[l] \in Nat /\ calls[order[k]].index \in Nat /\ calls[order[l]].index \in Nat
    BY <1>2, <1>n
  <2>2. \/ calls[order[k]].index < calls[order[l]].index
        \/ calls[order[k]].index = calls[order[l]].index /\ order[k] < order[l]
    BY <1>1, <1>5
  <2>3. order[k] # order[l]
    <3>1. CASE calls[order[k]].index < calls[order[l]].index
      <4> SUFFICES ASSUME order[k] = order[l] PROVE FALSE OBVIOUS
      <4>1. calls[order[k]].index = calls[order[l]].index BY Zenon
      <4> QED BY <2>1, <3>1, <4>1
    <3>2. CASE order[k] < order[l] BY <2>1, <3>2
    <3> QED BY <2>2, <3>1, <3>2
  <2> QED BY <2>1, <2>2, <2>3
<1>6. ASSUME NEW k \in DOMAIN given, NEW l \in DOMAIN given, given[k].id = given[l].id
      PROVE  k = l
  <2>1. order[k] \in DOMAIN calls /\ order[l] \in DOMAIN calls
        /\ calls[order[k]].id = calls[order[l]].id
    BY <1>2, <1>3, <1>6, Zenon
  <2>2. order[k] = order[l] BY <2>1, Zenon
  <2>3. ~(k < l) /\ ~(l < k) BY <1>5, <2>2, <1>3
  <2> QED BY <2>3, <1>2, <1>3
<1>7. ASSUME NEW k \in DOMAIN given, NEW l \in DOMAIN given, k < l
      PROVE  given[k].index <= given[l].index
  <2>1. calls[order[k]].index <= calls[order[l]].index BY <1>3, <1>5, <1>7
  <2>2. given[k] = calls[order[k]] /\ given[l] = calls[order[l]] BY <1>3, Zenon
  <2> QED BY <2>1, <2>2, Zenon
<1>8. /\ \A k \in DOMAIN given : \E l \in DOMAIN calls : calls[l] = given[k]
      /\ \A l \in DOMAIN calls : \E k \in DOMAIN given : calls[l] = given[k]
  <2>1. \A k \in DOMAIN given : \E l \in DOMAIN calls : calls[l] = given[k] BY <1>2, <1>3
  <2>2. ASSUME NEW l \in DOMAIN calls PROVE \E k \in DOMAIN given : calls[l] = given[k]
    <3>1. PICK k \in DOMAIN calls : order[k] = l BY <1>1
    <3> QED BY <1>3, <3>1
  <2> QED BY <2>1, <2>2
<1> QED BY <1>4, <1>6, <1>7, <1>8 DEF Sorts

\* The calls that wait at the end are the announced ones.
LEMMA SortsAnnounced ==
  ASSUME NEW given, NEW waiting, NEW calls,
         Sorts(given, waiting),
         NEW blocks, DOMAIN blocks = {}, NEW ids, Follows(blocks, waiting, ids, calls)
  PROVE  Sorts(given, calls)
<1>1. /\ \A k, l \in DOMAIN calls : calls[k].id = calls[l].id => k = l
      /\ \A m \in DOMAIN waiting : \E k \in DOMAIN calls : calls[k] = waiting[m]
      /\ \A k \in DOMAIN calls : \E m \in DOMAIN waiting : waiting[m] = calls[k]
  BY Zenon DEF Follows, InBlock
<1>2. /\ \A k \in DOMAIN given : \E l \in DOMAIN waiting : waiting[l] = given[k]
      /\ \A l \in DOMAIN waiting : \E k \in DOMAIN given : waiting[l] = given[k]
      /\ \A k, l \in DOMAIN given : given[k].id = given[l].id => k = l
      /\ \A k, l \in DOMAIN given : k < l => given[k].index <= given[l].index
  BY Zenon DEF Sorts
<1>3. ASSUME NEW k \in DOMAIN given PROVE \E l \in DOMAIN calls : calls[l] = given[k]
  <2>1. PICK m \in DOMAIN waiting : waiting[m] = given[k] BY <1>2, Zenon
  <2>2. PICK l \in DOMAIN calls : calls[l] = waiting[m] BY <1>1, Zenon
  <2> QED BY <2>1, <2>2, Zenon
<1>4. ASSUME NEW l \in DOMAIN calls PROVE \E k \in DOMAIN given : calls[l] = given[k]
  <2>1. PICK m \in DOMAIN waiting : waiting[m] = calls[l] BY <1>1, Zenon
  <2>2. PICK k \in DOMAIN given : waiting[m] = given[k] BY <1>2, Zenon
  <2> QED BY <2>1, <2>2, Zenon
<1> QED BY <1>1, <1>2, <1>3, <1>4, Zenon DEF Sorts

\* The calls by index are as many as those announced.
LEMMA MirrorFinite ==
  ASSUME NEW calls \in Seq(CallRecords), NEW map, Mirrors(map, calls)
  PROVE  Cardinality(DOMAIN map) \in Nat
<1> DEFINE f == [k \in DOMAIN calls |-> calls[k].index]
<1>1. IsFiniteSet(DOMAIN calls) BY FS_Interval
<1>2. f \in Surjection(DOMAIN calls, DOMAIN map)
  <2>1. f \in [DOMAIN calls -> DOMAIN map] BY DEF Mirrors
  <2>2. \A j \in DOMAIN map : \E k \in DOMAIN calls : f[k] = j BY DEF Mirrors
  <2> QED BY <2>1, <2>2 DEF Surjection
<1>3. IsFiniteSet(DOMAIN map) BY <1>1, <1>2, FS_Surjection
<1> QED BY <1>3, FS_CardinalityType

\* Batch has the tool events of the calls sorted by their indexes (emitToolCalls).
LEMMA BatchSorts ==
  ASSUME NEW calls \in Seq(CallRecords), NEW map, Mirrors(map, calls), Emits(map),
         NEW tools \in Batch(map)
  PROVE  \E given \in Seq(CallRecords) : Sorts(given, calls) /\ tools = ToolsOf(given)
<1> DEFINE n == Cardinality(DOMAIN map)
<1>1. n \in Nat BY MirrorFinite
<1> HIDE DEF n
<1>2. PICK f \in [1 .. n -> DOMAIN map] :
        /\ tools = [k \in DOMAIN f |-> ToolCall(map[f[k]])]
        /\ Range(f) = DOMAIN map
        /\ \A k, l \in DOMAIN f : k < l => f[k] < f[l]
  BY Zenon DEF Batch, n
<1> DEFINE given == [k \in 1 .. n |-> map[f[k]]]
<1>3. DOMAIN f = 1 .. n /\ \A k \in 1 .. n : f[k] \in DOMAIN map BY <1>2
<1>4. \A j \in DOMAIN map : \E k \in DOMAIN calls : calls[k].index = j /\ map[j] = calls[k]
  BY DEF Mirrors
<1>5. /\ \A k \in DOMAIN calls : calls[k] \in CallRecords
      /\ \A k \in DOMAIN calls : calls[k].index \in Nat
  BY CallFields
<1>6. \A j \in DOMAIN map : map[j] \in CallRecords /\ map[j].index = j /\ j \in Nat
  <2>1. \A j \in DOMAIN map : map[j].index = j BY Zenon DEF Mirrors
  <2>2. \A j \in DOMAIN map : map[j] \in CallRecords /\ j \in Nat BY <1>4, <1>5
  <2> QED BY <2>1, <2>2
<1>7. given \in [1 .. n -> CallRecords] /\ DOMAIN given = 1 .. n
      /\ \A k \in 1 .. n : given[k] = map[f[k]]
  BY <1>3, <1>6
<1>8. tools = ToolsOf(given)
  BY <1>2, <1>3, <1>7 DEF ToolsOf
<1> HIDE DEF given
<1>9. given \in Seq(CallRecords) BY <1>1, <1>7
<1>10. Sorts(given, calls)
  <2>1. \A k \in DOMAIN given : \E l \in DOMAIN calls : calls[l] = given[k]
    BY <1>3, <1>4, <1>7
  <2>2. ASSUME NEW l \in DOMAIN calls PROVE \E k \in DOMAIN given : calls[l] = given[k]
    <3>1. calls[l].index \in DOMAIN map /\ map[calls[l].index] = calls[l] BY DEF Mirrors
    <3>2. PICK k \in DOMAIN f : f[k] = calls[l].index BY <1>2, <3>1 DEF Range
    <3> QED BY <1>3, <1>7, <3>1, <3>2
  <2>3. ASSUME NEW k \in DOMAIN given, NEW l \in DOMAIN given, given[k].id = given[l].id
        PROVE  k = l
    <3>1. k \in 1 .. n /\ l \in 1 .. n /\ f[k] \in DOMAIN map /\ f[l] \in DOMAIN map
      BY <1>3, <1>7
    <3>2. f[k] = f[l] BY <1>7, <2>3, <3>1 DEF Emits
    <3>3. ~(k < l) /\ ~(l < k) BY <1>2, <1>3, <1>6, <3>1, <3>2
    <3> QED BY <1>1, <3>1, <3>3
  <2>4. \A k, l \in DOMAIN calls : calls[k].id = calls[l].id => k = l
    BY DEF Mirrors, Emits
  <2>5. ASSUME NEW k \in DOMAIN given, NEW l \in DOMAIN given, k < l
        PROVE  given[k].index <= given[l].index
    <3>1. k \in 1 .. n /\ l \in 1 .. n /\ f[k] \in DOMAIN map /\ f[l] \in DOMAIN map
      BY <1>3, <1>7
    <3>2. f[k] < f[l] BY <1>2, <1>3, <2>5, <3>1
    <3>3. given[k].index = f[k] /\ given[l].index = f[l] BY <1>6, <1>7, <3>1
    <3> QED BY <1>6, <3>1, <3>2, <3>3
  <2> QED BY <2>1, <2>2, <2>3, <2>4, <2>5 DEF Sorts
<1> QED BY <1>8, <1>9, <1>10

HIDE DecodingAssumption

\* A tool block opens: its call is announced last.
LEMMA FollowsStart ==
  ASSUME NEW blocks, NEW waiting, NEW ids, NEW calls, Follows(blocks, waiting, ids, calls),
         NEW i, i \notin DOMAIN blocks, NEW id, id \notin ids,
         NEW b, DOMAIN b = DOMAIN blocks \cup {i}, \A j \in DOMAIN blocks : b[j] = blocks[j],
         b[i].kind = "tool_use", b[i].id = id, b[i].parts = 0,
         NEW n, NEW t, DOMAIN t = DOMAIN calls \cup {n}, n \notin DOMAIN calls,
         \A k \in DOMAIN calls : t[k] = calls[k],
         t[n].index = i, t[n].id = id, t[n].parts = 0,
         \A k \in DOMAIN t : k <= n
  PROVE  Follows(b, waiting, ids \cup {id}, t)
<1>1. \A k \in DOMAIN t : t[k].id \in ids \cup {id} BY DEF Follows
<1>2. \A k \in DOMAIN calls : t[k] = calls[k] /\ calls[k].id \in ids BY DEF Follows
<1>3. ASSUME NEW k \in DOMAIN t, NEW l \in DOMAIN t, t[k].id = t[l].id PROVE k = l
  <2>1. CASE k = n BY <1>2, <1>3, <2>1
  <2>2. CASE l = n BY <1>2, <1>3, <2>2
  <2>3. CASE k # n /\ l # n
    <3>1. k \in DOMAIN calls /\ l \in DOMAIN calls /\ calls[k].id = calls[l].id BY <1>2, <1>3, <2>3
    <3> QED BY <3>1, Zenon DEF Follows
  <2> QED BY <2>1, <2>2, <2>3
<1>4. \A m, o \in DOMAIN waiting : waiting[m].id = waiting[o].id => m = o BY Zenon DEF Follows
<1>5. \A m \in DOMAIN waiting : \E k \in DOMAIN t : t[k] = waiting[m] BY DEF Follows
<1>6. ASSUME NEW k \in DOMAIN t PROVE (\E m \in DOMAIN waiting : waiting[m] = t[k]) \/ InBlock(t[k], b)
  <2>1. CASE k = n BY <2>1 DEF InBlock
  <2>2. CASE k # n
    <3>1. k \in DOMAIN calls /\ t[k] = calls[k] BY <2>2
    <3>2. (\E m \in DOMAIN waiting : waiting[m] = calls[k]) \/ InBlock(calls[k], blocks)
      BY <3>1, Zenon DEF Follows
    <3>3. InBlock(calls[k], blocks) => InBlock(calls[k], b) BY DEF InBlock
    <3> QED BY <3>1, <3>2, <3>3, Zenon
  <2> QED BY <2>1, <2>2
<1>7. ASSUME NEW j \in DOMAIN b, b[j].kind = "tool_use"
      PROVE  \E k \in DOMAIN t :
               /\ t[k].index = j /\ InBlock(t[k], b) /\ LastOf(t, k)
               /\ \A m \in DOMAIN waiting : waiting[m].id # t[k].id
  <2>1. \A m \in DOMAIN waiting : waiting[m].id \in ids BY DEF Follows
  <2>2. CASE j = i
    <3>1. t[n].index = j /\ n \in DOMAIN t BY <2>2
    <3>2. InBlock(t[n], b) BY DEF InBlock
    <3>3. LastOf(t, n) BY DEF LastOf
    <3>4. \A m \in DOMAIN waiting : waiting[m].id # t[n].id BY <2>1
    <3> QED BY <3>1, <3>2, <3>3, <3>4, Zenon
  <2>3. CASE j # i
    <3>1. j \in DOMAIN blocks /\ blocks[j].kind = "tool_use" BY <1>7, <2>3
    <3>2. PICK k \in DOMAIN calls :
            /\ calls[k].index = j /\ InBlock(calls[k], blocks) /\ LastOf(calls, k)
            /\ \A m \in DOMAIN waiting : waiting[m].id # calls[k].id
      BY <3>1, Zenon DEF Follows
    <3>3. k \in DOMAIN t /\ t[k] = calls[k] BY <3>2
    <3>4. InBlock(t[k], b) BY <3>2, <3>3 DEF InBlock
    <3>5. LastOf(t, k) BY <2>3, <3>2, <3>3 DEF LastOf
    <3> QED BY <3>2, <3>3, <3>4, <3>5, Zenon
  <2> QED BY <2>2, <2>3
<1> QED BY <1>1, <1>3, <1>4, <1>5, <1>6, <1>7, Zenon DEF Follows

\* A text block opens or closes: no call is in it.
LEMMA FollowsText ==
  ASSUME NEW blocks, NEW waiting, NEW ids, NEW calls, Follows(blocks, waiting, ids, calls),
         NEW b, \A j \in DOMAIN b : b[j].kind = "tool_use" => j \in DOMAIN blocks /\ b[j] = blocks[j],
         \A j \in DOMAIN blocks : blocks[j].kind = "tool_use" => j \in DOMAIN b /\ b[j] = blocks[j]
  PROVE  Follows(b, waiting, ids, calls)
<1>1. \A k \in DOMAIN calls : InBlock(calls[k], blocks) => InBlock(calls[k], b) BY DEF InBlock
<1>2. ASSUME NEW k \in DOMAIN calls
      PROVE (\E m \in DOMAIN waiting : waiting[m] = calls[k]) \/ InBlock(calls[k], b)
  BY <1>1, Zenon DEF Follows
<1>3. ASSUME NEW j \in DOMAIN b, b[j].kind = "tool_use"
      PROVE  \E k \in DOMAIN calls :
               /\ calls[k].index = j /\ InBlock(calls[k], b) /\ LastOf(calls, k)
               /\ \A m \in DOMAIN waiting : waiting[m].id # calls[k].id
  <2>1. j \in DOMAIN blocks /\ blocks[j].kind = "tool_use" BY <1>3
  <2> QED BY <1>1, <2>1, ZenonT(60) DEF Follows
<1> QED BY <1>2, <1>3, Zenon DEF Follows

\* A block of a tool grows, and its call with it.
LEMMA FollowsDelta ==
  ASSUME NEW blocks, NEW waiting, NEW ids, NEW calls, Follows(blocks, waiting, ids, calls),
         NEW i, i \in DOMAIN blocks, blocks[i].kind = "tool_use",
         NEW b, DOMAIN b = DOMAIN blocks, \A j \in DOMAIN blocks : j # i => b[j] = blocks[j],
         b[i].kind = "tool_use", b[i].id = blocks[i].id,
         NEW k, k \in DOMAIN calls, calls[k].index = i, InBlock(calls[k], blocks), LastOf(calls, k),
         \A m \in DOMAIN waiting : waiting[m].id # calls[k].id,
         NEW t, DOMAIN t = DOMAIN calls, \A l \in DOMAIN calls : l # k => t[l] = calls[l],
         t[k].index = i, t[k].id = calls[k].id, t[k].parts = b[i].parts
  PROVE  Follows(b, waiting, ids, t)
<1>1. \A l \in DOMAIN t : t[l].id = calls[l].id /\ t[l].index = calls[l].index OBVIOUS
<1>2. \A l \in DOMAIN t : t[l].id \in ids BY <1>1 DEF Follows
<1>3. \A l, m \in DOMAIN t : t[l].id = t[m].id => l = m
  <2>1. \A l, m \in DOMAIN calls : calls[l].id = calls[m].id => l = m BY Zenon DEF Follows
  <2> QED BY <1>1, <2>1
<1>4. \A m, o \in DOMAIN waiting : waiting[m].id = waiting[o].id => m = o BY Zenon DEF Follows
<1>5. ASSUME NEW m \in DOMAIN waiting PROVE \E l \in DOMAIN t : t[l] = waiting[m]
  <2>1. PICK l \in DOMAIN calls : calls[l] = waiting[m] BY Zenon DEF Follows
  <2>2. l # k BY <2>1
  <2> QED BY <2>1, <2>2
<1>6. InBlock(t[k], b) BY DEF InBlock
<1>7. ASSUME NEW l \in DOMAIN calls, l # k, InBlock(calls[l], blocks) PROVE InBlock(t[l], b)
  <2>1. calls[l].index # i
    <3>1. ASSUME calls[l].index = i PROVE FALSE
      <4>1. calls[l].id = calls[k].id BY <3>1, <1>7 DEF InBlock
      <4> QED BY <4>1, <1>7, Zenon DEF Follows
    <3> QED BY <3>1
  <2> QED BY <2>1, <1>7 DEF InBlock
<1>8. ASSUME NEW l \in DOMAIN t PROVE (\E m \in DOMAIN waiting : waiting[m] = t[l]) \/ InBlock(t[l], b)
  <2>1. CASE l = k BY <1>6, <2>1
  <2>2. CASE l # k
    <3>1. l \in DOMAIN calls /\ t[l] = calls[l] BY <2>2
    <3>2. (\E m \in DOMAIN waiting : waiting[m] = calls[l]) \/ InBlock(calls[l], blocks)
      BY <3>1, Zenon DEF Follows
    <3> QED BY <1>7, <2>2, <3>1, <3>2, Zenon
  <2> QED BY <2>1, <2>2
<1>9. ASSUME NEW j \in DOMAIN b, b[j].kind = "tool_use"
      PROVE  \E l \in DOMAIN t :
               /\ t[l].index = j /\ InBlock(t[l], b) /\ LastOf(t, l)
               /\ \A m \in DOMAIN waiting : waiting[m].id # t[l].id
  <2>1. CASE j = i
    <3>1. LastOf(t, k) BY <1>1 DEF LastOf
    <3> QED BY <1>6, <2>1, <3>1
  <2>2. CASE j # i
    <3>1. j \in DOMAIN blocks /\ blocks[j].kind = "tool_use" BY <1>9, <2>2
    <3>2. PICK l \in DOMAIN calls :
            /\ calls[l].index = j /\ InBlock(calls[l], blocks) /\ LastOf(calls, l)
            /\ \A m \in DOMAIN waiting : waiting[m].id # calls[l].id
      BY <3>1, Zenon DEF Follows
    <3>3. l # k BY <2>2, <3>2
    <3>4. l \in DOMAIN t /\ t[l] = calls[l] BY <3>3
    <3>5. InBlock(t[l], b) BY <1>7, <3>2, <3>3
    <3>6. LastOf(t, l) BY <1>1, <3>2 DEF LastOf
    <3> QED BY <3>2, <3>4, <3>5, <3>6, Zenon
  <2> QED BY <2>1, <2>2
<1> QED BY <1>2, <1>3, <1>4, <1>5, <1>8, <1>9, Zenon DEF Follows

\* A block leaves the open ones.
Without(b, blocks, i) == DOMAIN b = DOMAIN blocks \ {i} /\ \A j \in DOMAIN b : b[j] = blocks[j]

\* One more element, at a new place.
Longer(w, waiting, n, call) ==
  /\ DOMAIN w = DOMAIN waiting \cup {n} /\ n \notin DOMAIN waiting
  /\ \A m \in DOMAIN waiting : w[m] = waiting[m]
  /\ w[n] = call

\* The call of the open block i, which does not wait yet.
CallOf(call, i, blocks, waiting) ==
  /\ call.index = i /\ InBlock(call, blocks)
  /\ \A m \in DOMAIN waiting : waiting[m].id # call.id

\* A block of a tool closes: its call waits.
LEMMA FollowsStop ==
  ASSUME NEW blocks, NEW waiting, NEW ids, NEW calls, Follows(blocks, waiting, ids, calls),
         NEW i, i \in DOMAIN blocks, NEW b, Without(b, blocks, i),
         NEW k, k \in DOMAIN calls, CallOf(calls[k], i, blocks, waiting),
         NEW n, NEW w, Longer(w, waiting, n, calls[k])
  PROVE  Follows(b, w, ids, calls)
<1>a. DOMAIN b = DOMAIN blocks \ {i} /\ \A j \in DOMAIN b : b[j] = blocks[j]
  BY Zenon DEF Without
<1>b. /\ calls[k].index = i /\ InBlock(calls[k], blocks)
      /\ \A m \in DOMAIN waiting : waiting[m].id # calls[k].id
  BY Zenon DEF CallOf
<1>c. /\ DOMAIN w = DOMAIN waiting \cup {n} /\ n \notin DOMAIN waiting
      /\ \A m \in DOMAIN waiting : w[m] = waiting[m]
      /\ w[n] = calls[k]
  BY Zenon DEF Longer
<1>1. ASSUME NEW m \in DOMAIN w, NEW o \in DOMAIN w, w[m].id = w[o].id PROVE m = o
  <2>1. CASE m = n /\ o # n BY <1>1, <1>b, <1>c, <2>1
  <2>2. CASE m # n /\ o = n BY <1>1, <1>b, <1>c, <2>2
  <2>3. CASE m # n /\ o # n
    <3>1. m \in DOMAIN waiting /\ o \in DOMAIN waiting /\ waiting[m].id = waiting[o].id BY <1>1, <1>c, <2>3
    <3> QED BY <3>1, Zenon DEF Follows
  <2> QED BY <1>c, <2>1, <2>2, <2>3
<1>2. ASSUME NEW m \in DOMAIN w PROVE \E l \in DOMAIN calls : calls[l] = w[m]
  <2>1. CASE m = n
    <3>1. calls[k] = w[m] BY <1>c, <2>1
    <3> QED BY <3>1, Zenon
  <2>2. CASE m # n
    <3>1. m \in DOMAIN waiting /\ w[m] = waiting[m] BY <1>c, <2>2
    <3>2. \E l \in DOMAIN calls : calls[l] = waiting[m] BY <3>1, Zenon DEF Follows
    <3> QED BY <3>1, <3>2
  <2> QED BY <2>1, <2>2
<1>3. ASSUME NEW l \in DOMAIN calls, l # k, InBlock(calls[l], blocks) PROVE InBlock(calls[l], b)
  <2>1. calls[l].index # i
    <3>1. ASSUME calls[l].index = i PROVE FALSE
      <4>1. calls[l].id = calls[k].id BY <1>b, <3>1, <1>3 DEF InBlock
      <4> QED BY <4>1, <1>3, Zenon DEF Follows
    <3> QED BY <3>1
  <2> QED BY <1>a, <2>1, <1>3 DEF InBlock
<1>4. ASSUME NEW l \in DOMAIN calls PROVE (\E m \in DOMAIN w : w[m] = calls[l]) \/ InBlock(calls[l], b)
  <2>1. CASE l = k
    <3>1. n \in DOMAIN w /\ w[n] = calls[l] BY <1>c, <2>1
    <3> QED BY <3>1, Zenon
  <2>2. CASE l # k
    <3>1. (\E m \in DOMAIN waiting : waiting[m] = calls[l]) \/ InBlock(calls[l], blocks)
      BY Zenon DEF Follows
    <3>2. ASSUME NEW m \in DOMAIN waiting, waiting[m] = calls[l] PROVE m \in DOMAIN w /\ w[m] = calls[l]
      BY <1>c, <3>2
    <3> QED BY <1>3, <2>2, <3>1, <3>2, Zenon
  <2> QED BY <2>1, <2>2
<1>5. ASSUME NEW j \in DOMAIN b, b[j].kind = "tool_use"
      PROVE  \E l \in DOMAIN calls :
               /\ calls[l].index = j /\ InBlock(calls[l], b) /\ LastOf(calls, l)
               /\ \A m \in DOMAIN w : w[m].id # calls[l].id
  <2>1. j \in DOMAIN blocks /\ blocks[j].kind = "tool_use" /\ j # i BY <1>a, <1>5
  <2>2. PICK l \in DOMAIN calls :
          /\ calls[l].index = j /\ InBlock(calls[l], blocks) /\ LastOf(calls, l)
          /\ \A m \in DOMAIN waiting : waiting[m].id # calls[l].id
    BY <2>1, Zenon DEF Follows
  <2>3. l # k BY <1>b, <2>1, <2>2
  <2>4. InBlock(calls[l], b) BY <1>3, <2>2, <2>3
  <2>5. calls[k].id # calls[l].id BY <2>3, Zenon DEF Follows
  <2>6. \A m \in DOMAIN w : w[m].id # calls[l].id BY <1>c, <2>2, <2>5
  <2> QED BY <2>2, <2>4, <2>6, Zenon
<1>6. /\ \A l \in DOMAIN calls : calls[l].id \in ids
      /\ \A l, m \in DOMAIN calls : calls[l].id = calls[m].id => l = m
  BY Zenon DEF Follows
<1> QED BY <1>1, <1>2, <1>4, <1>5, <1>6, Zenon DEF Follows

\* A piece of a call the chat decoder has not seen.
LEMMA MirrorsNew ==
  ASSUME NEW map, NEW calls, Mirrors(map, calls), NEW call, NEW i, call.index = i,
         NEW m, Longer(m, map, i, call), NEW n, NEW t, Longer(t, calls, n, call)
  PROVE  Mirrors(m, t)
<1>a. /\ DOMAIN m = DOMAIN map \cup {i} /\ i \notin DOMAIN map
      /\ \A j \in DOMAIN map : m[j] = map[j]
      /\ m[i] = call
  BY Zenon DEF Longer
<1>b. /\ DOMAIN t = DOMAIN calls \cup {n} /\ n \notin DOMAIN calls
      /\ \A k \in DOMAIN calls : t[k] = calls[k]
      /\ t[n] = call
  BY Zenon DEF Longer
<1>1. \A j \in DOMAIN m : m[j].index = j /\ \E k \in DOMAIN t : t[k].index = j
  <2>1. \A j \in DOMAIN map : map[j].index = j /\ \E k \in DOMAIN calls : calls[k].index = j
    BY DEF Mirrors
  <2>2. m[i].index = i /\ t[n].index = i /\ n \in DOMAIN t BY <1>a, <1>b
  <2>3. ASSUME NEW j \in DOMAIN m, j # i
        PROVE  m[j].index = j /\ \E k \in DOMAIN t : t[k].index = j
    <3>1. j \in DOMAIN map /\ m[j] = map[j] BY <1>a, <2>3
    <3>2. PICK k \in DOMAIN calls : calls[k].index = j BY <2>1, <3>1
    <3>3. k \in DOMAIN t /\ t[k].index = j BY <1>b, <3>2
    <3> QED BY <2>1, <3>1, <3>3
  <2> QED BY <1>a, <2>2, <2>3
<1>2. ASSUME NEW k \in DOMAIN t PROVE t[k].index \in DOMAIN m /\ m[t[k].index] = t[k]
  <2>1. CASE k = n BY <1>a, <1>b, <2>1
  <2>2. CASE k # n
    <3>1. k \in DOMAIN calls /\ t[k] = calls[k] BY <1>b, <2>2
    <3>2. calls[k].index \in DOMAIN map /\ map[calls[k].index] = calls[k] BY <3>1 DEF Mirrors
    <3> QED BY <1>a, <3>1, <3>2
  <2> QED BY <2>1, <2>2
<1>3. ASSUME NEW k \in DOMAIN t, NEW l \in DOMAIN t, t[k].index = t[l].index PROVE k = l
  <2>1. \A o \in DOMAIN calls : t[o].index \in DOMAIN map /\ t[o].index # i BY <1>a, <1>b DEF Mirrors
  <2>2. CASE k = n /\ l # n BY <1>b, <1>3, <2>1, <2>2
  <2>3. CASE k # n /\ l = n BY <1>b, <1>3, <2>1, <2>3
  <2>4. CASE k # n /\ l # n
    <3>1. k \in DOMAIN calls /\ l \in DOMAIN calls /\ calls[k].index = calls[l].index BY <1>b, <1>3, <2>4
    <3> QED BY <3>1, Zenon DEF Mirrors
  <2> QED BY <2>2, <2>3, <2>4
<1> QED BY <1>1, <1>2, <1>3, Zenon DEF Mirrors

\* A piece of a call it has seen.
LEMMA MirrorsPiece ==
  ASSUME NEW map, NEW calls, Mirrors(map, calls),
         NEW k, k \in DOMAIN calls, NEW i, calls[k].index = i,
         NEW call, call.index = i,
         NEW m, DOMAIN m = DOMAIN map, \A j \in DOMAIN map : j # i => m[j] = map[j], m[i] = call,
         NEW t, DOMAIN t = DOMAIN calls, \A l \in DOMAIN calls : l # k => t[l] = calls[l], t[k] = call
  PROVE  Mirrors(m, t)
<1>1. \A l \in DOMAIN t : t[l].index = calls[l].index OBVIOUS
<1>2. i \in DOMAIN map BY DEF Mirrors
<1>3. ASSUME NEW j \in DOMAIN m PROVE m[j].index = j /\ \E l \in DOMAIN t : t[l].index = j
  <2>1. map[j].index = j /\ \E l \in DOMAIN calls : calls[l].index = j BY DEF Mirrors
  <2> QED BY <1>1, <2>1
<1>4. ASSUME NEW l \in DOMAIN t PROVE t[l].index \in DOMAIN m /\ m[t[l].index] = t[l]
  <2>1. CASE l = k BY <1>2, <2>1
  <2>2. CASE l # k
    <3>1. calls[l].index \in DOMAIN map /\ map[calls[l].index] = calls[l] BY DEF Mirrors
    <3>2. calls[l].index # i
      <4>1. calls[l].index = calls[k].index => l = k BY Zenon DEF Mirrors
      <4> QED BY <2>2, <4>1
    <3> QED BY <2>2, <3>1, <3>2
  <2> QED BY <2>1, <2>2
<1>5. \A l, o \in DOMAIN t : t[l].index = t[o].index => l = o
  <2>1. \A l, o \in DOMAIN calls : calls[l].index = calls[o].index => l = o BY Zenon DEF Mirrors
  <2> QED BY <1>1, <2>1
<1> QED BY <1>3, <1>4, <1>5, Zenon DEF Mirrors

\* What has no final event yet does not end with one.
LEMMA StillOpen ==
  ASSUME NEW s \in Seq(EventSet), NEW d, NEW spoken, NEW form, NEW shut,
         WellFormed(s), FollowsSaid(s, d, spoken, form), ~shut, ~d.terminal
  PROVE  Kept(s, d, spoken, form, shut)
<1>1. ~EndsWith(s, {"completed"})
  <2>1. NoFinal(s) BY Zenon DEF FollowsSaid
  <2>2. s # <<>> => Len(s) \in DOMAIN s OBVIOUS
  <2> QED BY <2>1, <2>2 DEF EndsWith, NoFinal, Final
<1> QED BY <1>1, Zenon DEF Kept

\* What ended with a failure is not completed.
LEMMA OverNow ==
  ASSUME NEW s, NEW d, NEW spoken, NEW form, NEW shut,
         WellFormed(s), EndsWith(s, {"completed", "error"}), ~EndsWith(s, {"completed"}),
         shut \/ d.terminal
  PROVE  Kept(s, d, spoken, form, shut)
BY Zenon DEF Kept

\* The answer is the beginning of what was decoded.
LEMMA Beginning ==
  ASSUME NEW s \in Seq(EventSet), NEW t \in Seq(EventSet), WellFormed(s \o t)
  PROVE  /\ \A i \in DOMAIN s : i \in DOMAIN (s \o t) /\ (s \o t)[i] = s[i]
         /\ \A i \in DOMAIN s : Final(s[i]) => i = Len(s) /\ t = <<>>
         /\ \A i \in Places(s, "tool_call"), j \in Places(s, "text_delta") : j < i
         /\ \A i, j \in Places(s, "tool_call") : s[i].id = s[j].id => i = j
         /\ NoFinal(s \o t) => NoFinal(s)
<1> DEFINE u == s \o t
<1>1. /\ \A i \in DOMAIN s : i \in DOMAIN u /\ u[i] = s[i]
      /\ Len(u) = Len(s) + Len(t) /\ Len(s) \in Nat /\ DOMAIN s = 1 .. Len(s)
  BY Concatenated, Zenon
<1>2. Len(t) \in Nat /\ (Len(t) = 0 => t = <<>>) OBVIOUS
<1> HIDE DEF u
<1>3. WellFormed(u) BY DEF u
<1>4. ASSUME NEW i \in DOMAIN s, Final(s[i]) PROVE i = Len(s) /\ t = <<>>
  <2>1. i = Len(u) BY <1>1, <1>3, <1>4 DEF WellFormed
  <2>2. i \in 1 .. Len(s) BY <1>1
  <2>3. Len(u) = Len(s) + Len(t) /\ Len(s) \in Nat BY <1>1
  <2>4. i = Len(s) /\ Len(t) = 0 BY <1>2, <2>1, <2>2, <2>3
  <2> QED BY <1>2, <2>4
<1>5. \A type : \A i \in Places(s, type) : i \in Places(u, type) /\ u[i] = s[i]
  BY <1>1 DEF Places
<1>6. \A i \in Places(s, "tool_call"), j \in Places(s, "text_delta") : j < i
  BY <1>3, <1>5 DEF WellFormed
<1>7. \A i, j \in Places(s, "tool_call") : s[i].id = s[j].id => i = j
  BY <1>3, <1>5 DEF WellFormed
<1>8. NoFinal(u) => NoFinal(s) BY <1>1 DEF NoFinal
<1> QED BY <1>1, <1>4, <1>6, <1>7, <1>8 DEF u

\* Where a frame is taken out of the body, everything decoded was yielded.
LEMMA Pulled ==
  ASSUME DecoderInv, Pulling
  PROVE  /\ answer \in Seq(EventSet) /\ said \in SaidRecords /\ Out = answer
         /\ WellFormed(answer) /\ FollowsSaid(answer, dec, said, protocol)
         /\ ~closed /\ ~dec.terminal /\ closed \in BOOLEAN
         /\ \/ protocol = "anthropic" /\ dec \in AnthropicDecoders
            \/ protocol = "openai" /\ dec \in ChatDecoders
<1>1. answer \in Seq(EventSet) /\ batch = <<>> /\ ~closed /\ ~dec.terminal
  BY DEF DecoderInv, DecoderTypes, Pulling
<1>2. Out = answer BY <1>1, NoMore, Zenon DEF Out
<1>3. Kept(answer, dec, said, protocol, closed) BY <1>2, Zenon DEF DecoderInv
<1>4. WellFormed(answer) /\ FollowsSaid(answer, dec, said, protocol)
  BY <1>1, <1>3, Zenon DEF Kept
<1> QED BY <1>1, <1>2, <1>4, Zenon DEF DecoderInv, DecoderTypes

\* The generator ends with a failure.
LEMMA ThrowKeeps ==
  ASSUME DecoderInv, ~closed, WellFormed(answer), NoFinal(answer), NEW code \in Codes, Throw(code)
  PROVE  DecoderInv'
<1>1. /\ answer' = Append(answer, Failure(code)) /\ closed' = TRUE /\ batch' = <<>>
      /\ protocol' = protocol /\ dec' = dec /\ said' = said
  BY DEF Throw
<1>2. answer \in Seq(EventSet) BY DEF DecoderInv, DecoderTypes
<1>3. answer' \in Seq(EventSet)
      /\ WellFormed(answer') /\ EndsWith(answer', {"completed", "error"}) /\ ~EndsWith(answer', {"completed"})
  <2>1. Failure(code) \in EventSet BY EventFields
  <2> QED BY <1>1, <1>2, <2>1, FailureAppended
<1>4. Out' = answer' BY <1>1, <1>3, NoMore DEF Out
<1>5. DecoderTypes' 
  <2>1. batch' \in Seq(EventSet) /\ closed' \in BOOLEAN BY <1>1
  <2>2. /\ said' \in SaidRecords
        /\ \/ protocol' = "anthropic" /\ dec' \in AnthropicDecoders
           \/ protocol' = "openai" /\ dec' \in ChatDecoders
           \/ protocol' = "none" /\ closed'
    BY <1>1, Zenon DEF DecoderInv, DecoderTypes
  <2> QED BY <1>3, <2>1, <2>2, Zenon DEF DecoderTypes
<1>6. Kept(answer', dec', said', protocol', closed') BY <1>1, <1>3, OverNow, Zenon
<1> QED BY <1>1, <1>4, <1>5, <1>6, Zenon DEF DecoderInv

\* A frame that is refused, and a body that ends too early.
LEMMA BadFrameKeeps == DecoderInv /\ (BadFrame \/ SourceFails) => DecoderInv'
<1> SUFFICES ASSUME DecoderInv, Pulling, NEW code \in Codes, Throw(code) PROVE DecoderInv'
  BY DEF BadFrame, SourceFails, Codes, Upstream
<1>1. WellFormed(answer) /\ NoFinal(answer) /\ ~closed BY Pulled DEF FollowsSaid
<1> QED BY <1>1, ThrowKeeps

\* The abort, also with events of the last frame still to be yielded.
LEMMA CancelledKeeps == DecoderInv /\ Cancelled => DecoderInv'
<1> SUFFICES ASSUME DecoderInv, Cancelled PROVE DecoderInv' OBVIOUS
<1>1. /\ ~closed /\ Throw("aborted") /\ (batch # <<>> \/ ~dec.terminal)
  BY DEF Cancelled
<1>2. /\ answer \in Seq(EventSet) /\ batch \in Seq(EventSet)
      /\ WellFormed(answer \o batch) /\ Kept(answer \o batch, dec, said, protocol, closed)
  BY DEF DecoderInv, DecoderTypes, Out, Kept
<1>3. NoFinal(answer)
  <2>1. CASE batch # <<>> BY <1>2, <2>1, Beginning DEF NoFinal
  <2>2. CASE ~dec.terminal
    <3>1. NoFinal(answer \o batch) BY <1>1, <1>2, <2>2, Zenon DEF Kept, FollowsSaid
    <3> QED BY <1>2, <3>1, Beginning
  <2> QED BY <1>1, <2>1, <2>2
<1>4. WellFormed(answer)
  <2>1. \A i \in DOMAIN answer : ~Final(answer[i]) BY <1>3 DEF NoFinal
  <2> QED BY <1>2, <2>1, Beginning DEF WellFormed
<1>5. "aborted" \in Codes BY DEF Codes
<1> QED BY <1>1, <1>3, <1>4, <1>5, ThrowKeeps

\* An event goes from the batch to the answer.
LEMMA YieldKeeps == DecoderInv /\ Yield => DecoderInv'
<1> SUFFICES ASSUME DecoderInv, Yield PROVE DecoderInv' OBVIOUS
<1>1. /\ batch # <<>> /\ answer' = Append(answer, Head(batch)) /\ batch' = Tail(batch)
      /\ protocol' = protocol /\ dec' = dec /\ closed' = closed /\ said' = said
  BY DEF Yield
<1>2. answer \in Seq(EventSet) /\ batch \in Seq(EventSet) BY DEF DecoderInv, DecoderTypes
<1>3. answer' \in Seq(EventSet) /\ batch' \in Seq(EventSet) /\ Out' = Out
  BY <1>1, <1>2, Yielded DEF Out
<1>4. ~closed BY <1>1 DEF DecoderInv
<1>5. DecoderTypes' BY <1>1, <1>3, Zenon DEF DecoderInv, DecoderTypes
<1>6. Kept(Out', dec', said', protocol', closed') BY <1>1, <1>3, Zenon DEF DecoderInv
<1> QED BY <1>1, <1>4, <1>5, <1>6, Zenon DEF DecoderInv

\* The generator returns; the abort is asked for.
LEMMA CloseKeeps == DecoderInv /\ (Close \/ Abort) => DecoderInv'
<1>1. ASSUME DecoderInv, Close PROVE DecoderInv'
  <2>1. /\ ~closed /\ batch = <<>> /\ dec.terminal /\ closed' = TRUE
        /\ protocol' = protocol /\ dec' = dec /\ batch' = batch /\ answer' = answer /\ said' = said
    BY <1>1 DEF Close
  <2>2. Out' = Out BY <2>1 DEF Out
  <2>3. closed' \in BOOLEAN BY <2>1
  <2>4. DecoderTypes' BY <1>1, <2>1, <2>3, Zenon DEF DecoderInv, DecoderTypes
  <2>5. Kept(Out', dec', said', protocol', closed') BY <1>1, <2>1, <2>2, Zenon DEF DecoderInv, Kept
  <2> QED BY <2>1, <2>4, <2>5, Zenon DEF DecoderInv
<1>2. ASSUME DecoderInv, Abort PROVE DecoderInv'
  <2>1. UNCHANGED <<protocol, dec, batch, answer, closed, said>> BY <1>2 DEF Abort
  <2>2. Out' = Out BY <2>1 DEF Out
  <2>3. DecoderTypes' BY <1>2, <2>1, Zenon DEF DecoderInv, DecoderTypes
  <2>4. Kept(Out', dec', said', protocol', closed') BY <1>2, <2>1, <2>2, Zenon DEF DecoderInv
  <2> QED BY <1>2, <2>1, <2>3, <2>4, Zenon DEF DecoderInv
<1> QED BY <1>1, <1>2

\* A frame: what it adds to the answer, and the decoder it leaves.
LEMMA FrameKeeps ==
  ASSUME DecoderInv, Pulling, NEW d, NEW events \in Seq(EventSet), Handle(d, events),
         said' \in SaidRecords,
         \/ protocol = "anthropic" /\ d \in AnthropicDecoders
         \/ protocol = "openai" /\ d \in ChatDecoders,
         Kept(answer \o events, d, said', protocol, FALSE)
  PROVE  DecoderInv'
<1>1. /\ answer' = answer /\ batch' = events /\ dec' = d /\ protocol' = protocol /\ closed' = closed
  BY DEF Handle
<1>2. answer \in Seq(EventSet) /\ closed \in BOOLEAN /\ closed = FALSE
  BY DEF DecoderInv, DecoderTypes, Pulling
<1>3. Out' = answer \o events BY <1>1, Zenon DEF Out
<1>4. DecoderTypes' BY <1>1, <1>2, Zenon DEF DecoderTypes
<1>5. Kept(Out', dec', said', protocol', closed') BY <1>1, <1>2, <1>3, Zenon
<1>6. ~closed' BY <1>1, <1>2
<1> QED BY <1>4, <1>5, <1>6, Zenon DEF DecoderInv

\* A frame of one event.
LEMMA OneEvent ==
  ASSUME NEW s \in Seq(EventSet), NEW e \in EventSet
  PROVE  <<e>> \in Seq(EventSet) /\ s \o <<e>> = Append(s, e)
OBVIOUS

\* A decoder that ends is a decoder.
LEMMA Ended ==
  /\ \A d \in AnthropicDecoders : /\ [d EXCEPT !.terminal = TRUE] \in AnthropicDecoders
                                  /\ [d EXCEPT !.terminal = TRUE].terminal
  /\ \A d \in ChatDecoders : /\ [d EXCEPT !.terminal = TRUE] \in ChatDecoders
                             /\ [d EXCEPT !.terminal = TRUE].terminal
BY DEF AnthropicDecoders, ChatDecoders

\* A structured error of the provider.
LEMMA ErrorFrameKeeps == \A code \in Upstream : DecoderInv /\ ErrorFrame(code) => DecoderInv'
<1> SUFFICES ASSUME NEW code \in Upstream, DecoderInv, ErrorFrame(code) PROVE DecoderInv' OBVIOUS
<1> DEFINE d == [dec EXCEPT !.terminal = TRUE]
<1>1. Pulling /\ Handle(d, <<Failure(code)>>) /\ said' = said BY DEF ErrorFrame
<1>2. /\ answer \in Seq(EventSet) /\ said \in SaidRecords
      /\ WellFormed(answer) /\ NoFinal(answer)
  BY <1>1, Pulled, Zenon DEF FollowsSaid
<1>3. /\ d.terminal
      /\ \/ protocol = "anthropic" /\ d \in AnthropicDecoders
         \/ protocol = "openai" /\ d \in ChatDecoders
  BY <1>1, Pulled, Ended, Zenon
<1> HIDE DEF d
<1>4. code \in Codes /\ Failure(code) \in EventSet BY EventFields DEF Codes
<1>5. <<Failure(code)>> \in Seq(EventSet) /\ answer \o <<Failure(code)>> = Append(answer, Failure(code))
  BY <1>2, <1>4, OneEvent
<1>6. WellFormed(Append(answer, Failure(code)))
      /\ EndsWith(Append(answer, Failure(code)), {"completed", "error"})
      /\ ~EndsWith(Append(answer, Failure(code)), {"completed"})
  BY <1>2, <1>4, FailureAppended
<1>7. Kept(Append(answer, Failure(code)), d, said', protocol, FALSE)
  BY <1>3, <1>6, OverNow, Zenon
<1>8. said' \in SaidRecords BY <1>1, <1>2
<1> QED BY <1>1, <1>3, <1>5, <1>7, <1>8, FrameKeeps

LEMMA QuietFrame ==
  ASSUME DecoderInv, Pulling, protocol = "anthropic",
         NEW d \in AnthropicDecoders, ~d.terminal, Handle(d, <<>>),
         said' \in SaidRecords, said'.text = said.text, said'.reason = d.reason,
         Follows(d.blocks, d.pending, d.ids, said'.calls)
  PROVE  DecoderInv'
<1>1. /\ answer \in Seq(EventSet) /\ WellFormed(answer) /\ NoFinal(answer)
      /\ Cardinality(Places(answer, "text_delta")) = said.text
      /\ \A i \in DOMAIN answer : answer[i].type = "text_delta"
  BY Pulled, Zenon DEF FollowsSaid, AnthropicFollows
<1>2. FollowsSaid(answer, d, said', protocol)
  <2>1. AnthropicFollows(answer, d, said') BY <1>1, Zenon DEF AnthropicFollows
  <2>2. protocol # "openai" OBVIOUS
  <2> QED BY <1>1, <2>1, <2>2, Zenon DEF FollowsSaid
<1>3. Kept(answer, d, said', protocol, FALSE) BY <1>1, <1>2, StillOpen
<1>4. <<>> \in Seq(EventSet) /\ answer \o <<>> = answer BY <1>1, NoMore
<1> QED BY <1>3, <1>4, FrameKeeps

\* What is known of the Anthropic decoder before a frame.
LEMMA AnthropicPulled ==
  ASSUME DecoderInv, Pulling, protocol = "anthropic"
  PROVE  /\ dec \in AnthropicDecoders /\ ~dec.terminal /\ said \in SaidRecords
         /\ said.reason = dec.reason
         /\ Follows(dec.blocks, dec.pending, dec.ids, said.calls)
<1>1. protocol # "openai" OBVIOUS
<1> QED BY <1>1, Pulled, Zenon DEF FollowsSaid, AnthropicFollows

\* message_start.
LEMMA MessageStartKeeps == \A c \in BOOLEAN : DecoderInv /\ MessageStart(c) => DecoderInv'
<1> SUFFICES ASSUME NEW c \in BOOLEAN, DecoderInv, MessageStart(c) PROVE DecoderInv' OBVIOUS
<1> DEFINE d == [dec EXCEPT !.started = TRUE, !.input = c, !.output = c]
<1>1. Pulling /\ protocol = "anthropic" /\ Handle(d, <<>>) /\ said' = said BY DEF MessageStart
<1>2. dec \in AnthropicDecoders /\ ~dec.terminal /\ said \in SaidRecords /\ said.reason = dec.reason
      /\ Follows(dec.blocks, dec.pending, dec.ids, said.calls)
  BY <1>1, AnthropicPulled
<1>3. d \in AnthropicDecoders /\ d.terminal = dec.terminal /\ d.blocks = dec.blocks /\ d.reason = dec.reason
      /\ d.pending = dec.pending /\ d.ids = dec.ids
  BY <1>2 DEF AnthropicDecoders
<1> HIDE DEF d
<1>4. Follows(d.blocks, d.pending, d.ids, said'.calls) BY <1>1, <1>2, <1>3
<1> QED BY <1>1, <1>2, <1>3, <1>4, QuietFrame

\* message_delta.
LEMMA MessageDeltaKeeps ==
  \A reason \in Supported \cup {None, "max_tokens"}, c \in BOOLEAN :
    DecoderInv /\ MessageDelta(reason, c) => DecoderInv'
<1> SUFFICES ASSUME NEW reason \in Supported \cup {None, "max_tokens"}, NEW c \in BOOLEAN,
                    DecoderInv, MessageDelta(reason, c)
             PROVE  DecoderInv'
  OBVIOUS
<1> DEFINE r == IF reason = None THEN dec.reason ELSE reason
           d == [dec EXCEPT !.reason = IF reason = None THEN @ ELSE reason, !.output = @ \/ c]
<1>1. Pulling /\ protocol = "anthropic" /\ Handle(d, <<>>)
      /\ said' = [said EXCEPT !.reason = IF reason = None THEN @ ELSE reason]
  BY DEF MessageDelta, Open
<1>2. dec \in AnthropicDecoders /\ ~dec.terminal /\ said \in SaidRecords /\ said.reason = dec.reason
      /\ Follows(dec.blocks, dec.pending, dec.ids, said.calls)
  BY <1>1, AnthropicPulled
<1>3. reason \in Reasons BY DEF Reasons, Supported
<1>4. d \in AnthropicDecoders /\ d.terminal = dec.terminal /\ d.blocks = dec.blocks /\ d.reason = r
      /\ d.pending = dec.pending /\ d.ids = dec.ids
  BY <1>2, <1>3 DEF AnthropicDecoders
<1> HIDE DEF d
<1>5. said' \in SaidRecords /\ said'.text = said.text /\ said'.calls = said.calls /\ said'.reason = r
  BY <1>1, <1>2, <1>3 DEF SaidRecords
<1>6. Follows(d.blocks, d.pending, d.ids, said'.calls) BY <1>2, <1>4, <1>5
<1> QED BY <1>1, <1>2, <1>4, <1>5, <1>6, QuietFrame

\* The open blocks are blocks, at indexes.
LEMMA BlockMapFields ==
  ASSUME NEW f \in BlockMaps
  PROVE  DOMAIN f \subseteq Indexes /\ \A j \in DOMAIN f : f[j] \in Blocks
<1>1. PICK S \in SUBSET Indexes : f \in [S -> Blocks] BY DEF BlockMaps
<1> QED BY <1>1

\* Blocks at indexes are a map of blocks.
LEMMA BlockMapBuilt ==
  ASSUME NEW S, S \subseteq Indexes, NEW f \in [S -> Blocks]
  PROVE  f \in BlockMaps
BY DEF BlockMaps

\* A block opens.
LEMMA BlockPut ==
  ASSUME NEW f \in BlockMaps, NEW i \in Indexes, i \notin DOMAIN f, NEW block \in Blocks
  PROVE  /\ Put(f, i, block) \in BlockMaps
         /\ DOMAIN Put(f, i, block) = DOMAIN f \cup {i}
         /\ \A j \in DOMAIN f : Put(f, i, block)[j] = f[j]
         /\ Put(f, i, block)[i] = block
<1> DEFINE g == Put(f, i, block)
           S == DOMAIN f \cup {i}
<1>1. S \subseteq Indexes /\ \A j \in DOMAIN f : f[j] \in Blocks BY BlockMapFields
<1>2. DOMAIN g = S /\ g[i] = block /\ \A j \in DOMAIN f : g[j] = f[j] BY DEF Put
<1>3. g \in [S -> Blocks] BY <1>1 DEF Put
<1>4. g \in BlockMaps BY <1>1, <1>3, BlockMapBuilt
<1> QED BY <1>2, <1>4

\* content_block_start of a text.
LEMMA TextStartKeeps == \A i \in Indexes : DecoderInv /\ TextStart(i) => DecoderInv'
<1> SUFFICES ASSUME NEW i \in Indexes, DecoderInv, TextStart(i) PROVE DecoderInv' OBVIOUS
<1> DEFINE block == [kind |-> "text"]
           b == Put(dec.blocks, i, block)
           d == [dec EXCEPT !.blocks = Put(@, i, block), !.ids = dec.ids]
<1>1. Pulling /\ protocol = "anthropic" /\ Handle(d, <<>>) /\ said' = said /\ i \notin DOMAIN dec.blocks
  BY DEF TextStart, BlockStart, Open
<1>2. dec \in AnthropicDecoders /\ ~dec.terminal /\ said \in SaidRecords /\ said.reason = dec.reason
      /\ Follows(dec.blocks, dec.pending, dec.ids, said.calls)
  BY <1>1, AnthropicPulled
<1>3. block \in Blocks /\ block.kind # "tool_use" BY DEF Blocks
<1> HIDE DEF block
<1>4. dec.blocks \in BlockMaps BY <1>2 DEF AnthropicDecoders
<1>5. /\ b \in BlockMaps /\ DOMAIN b = DOMAIN dec.blocks \cup {i} /\ b[i] = block
      /\ \A j \in DOMAIN dec.blocks : b[j] = dec.blocks[j]
  BY <1>1, <1>3, <1>4, BlockPut, SMTT(30)
<1> HIDE DEF b
<1>6. d \in AnthropicDecoders /\ d.terminal = dec.terminal /\ d.blocks = b /\ d.reason = dec.reason
      /\ d.pending = dec.pending /\ d.ids = dec.ids
  BY <1>2, <1>5 DEF AnthropicDecoders, b
<1> HIDE DEF d
<1>7. Follows(b, dec.pending, dec.ids, said.calls)
  <2>1. \A j \in DOMAIN b : b[j].kind = "tool_use" => j \in DOMAIN dec.blocks /\ b[j] = dec.blocks[j]
    BY <1>3, <1>5
  <2>2. \A j \in DOMAIN dec.blocks : dec.blocks[j].kind = "tool_use" => j \in DOMAIN b /\ b[j] = dec.blocks[j]
    BY <1>5
  <2> QED BY <1>2, <2>1, <2>2, FollowsText
<1>8. Follows(d.blocks, d.pending, d.ids, said'.calls) BY <1>1, <1>6, <1>7
<1> QED BY <1>1, <1>2, <1>6, <1>8, QuietFrame

\* One more call.
LEMMA CallAppended ==
  ASSUME NEW calls \in Seq(CallRecords), NEW call \in CallRecords
  PROVE  /\ Append(calls, call) \in Seq(CallRecords)
         /\ DOMAIN Append(calls, call) = DOMAIN calls \cup {Len(calls) + 1}
         /\ Len(calls) + 1 \notin DOMAIN calls
         /\ \A k \in DOMAIN calls : Append(calls, call)[k] = calls[k]
         /\ Append(calls, call)[Len(calls) + 1] = call
         /\ \A k \in DOMAIN Append(calls, call) : k <= Len(calls) + 1
OBVIOUS

\* content_block_start of a tool.
LEMMA ToolStartKeeps ==
  \A i \in Indexes, id \in Ids, w \in BOOLEAN : DecoderInv /\ ToolStart(i, id, w) => DecoderInv'
<1> SUFFICES ASSUME NEW i \in Indexes, NEW id \in Ids, NEW w \in BOOLEAN, DecoderInv, ToolStart(i, id, w)
             PROVE  DecoderInv'
  OBVIOUS
<1> DEFINE block == [kind |-> "tool_use", id |-> id, whole |-> w, parts |-> 0]
           call == [index |-> i, id |-> id, parts |-> 0]
           b == Put(dec.blocks, i, block)
           ids == dec.ids \cup {id}
           d == [dec EXCEPT !.blocks = Put(@, i, block), !.ids = ids]
           t == Append(said.calls, call)
<1>1. /\ Pulling /\ protocol = "anthropic" /\ Handle(d, <<>>) /\ i \notin DOMAIN dec.blocks
      /\ id \notin dec.ids /\ said' = [said EXCEPT !.calls = t]
  BY DEF ToolStart, BlockStart, Open, NewId, Announce
<1>2. dec \in AnthropicDecoders /\ ~dec.terminal /\ said \in SaidRecords /\ said.reason = dec.reason
      /\ Follows(dec.blocks, dec.pending, dec.ids, said.calls)
  BY <1>1, AnthropicPulled
<1>3. block \in Blocks /\ block.kind = "tool_use" /\ block.id = id /\ block.parts = 0 BY DEF Blocks
<1>c. call \in CallRecords /\ call.index = i /\ call.id = id /\ call.parts = 0 BY DEF CallRecords
<1> HIDE DEF block, call
<1>4. dec.blocks \in BlockMaps /\ ids \in SUBSET Ids BY <1>2 DEF AnthropicDecoders
<1>5. /\ b \in BlockMaps /\ DOMAIN b = DOMAIN dec.blocks \cup {i} /\ b[i] = block
      /\ \A j \in DOMAIN dec.blocks : b[j] = dec.blocks[j]
  <2>1. i \notin DOMAIN dec.blocks /\ block \in Blocks /\ dec.blocks \in BlockMaps BY <1>1, <1>3, <1>4, Zenon
  <2> QED BY <2>1, BlockPut, ZenonT(60)
<1> HIDE DEF b, ids
<1>6. d \in AnthropicDecoders /\ d.terminal = dec.terminal /\ d.blocks = b /\ d.reason = dec.reason
      /\ d.pending = dec.pending /\ d.ids = ids
  <2>1. d = [dec EXCEPT !.blocks = b, !.ids = ids] BY DEF b
  <2>2. b \in BlockMaps /\ ids \in SUBSET Ids BY <1>4, <1>5
  <2> HIDE DEF d
  <2> QED BY <1>2, <2>1, <2>2 DEF AnthropicDecoders
<1> HIDE DEF d
<1>7. said.calls \in Seq(CallRecords) BY <1>2 DEF SaidRecords
<1>8. /\ t \in Seq(CallRecords)
      /\ DOMAIN t = DOMAIN said.calls \cup {Len(said.calls) + 1}
      /\ Len(said.calls) + 1 \notin DOMAIN said.calls
      /\ \A k \in DOMAIN said.calls : t[k] = said.calls[k]
      /\ t[Len(said.calls) + 1] = call
      /\ \A k \in DOMAIN t : k <= Len(said.calls) + 1
  BY <1>7, <1>c, CallAppended
<1> HIDE DEF t
<1>9. said' \in SaidRecords /\ said'.text = said.text /\ said'.calls = t /\ said'.reason = said.reason
  BY <1>1, <1>2, <1>8 DEF SaidRecords
<1>10. Follows(b, dec.pending, ids, t)
  <2> DEFINE n == Len(said.calls) + 1
  <2>1. /\ DOMAIN t = DOMAIN said.calls \cup {n} /\ n \notin DOMAIN said.calls
        /\ \A k \in DOMAIN said.calls : t[k] = said.calls[k]
        /\ \A k \in DOMAIN t : k <= n /\ t[n] = call
    BY <1>8
  <2>2. t[n] = call BY <1>8
  <2> HIDE DEF n
  <2>3. t[n].index = i /\ t[n].id = id /\ t[n].parts = 0 BY <2>2, <1>c
  <2>4. b[i].kind = "tool_use" /\ b[i].id = id /\ b[i].parts = 0 BY <1>3, <1>5
  <2> QED BY <1>1, <1>2, <1>5, <2>1, <2>3, <2>4, FollowsStart, ZenonT(60) DEF ids
<1>11. Follows(d.blocks, d.pending, d.ids, said'.calls) BY <1>6, <1>9, <1>10
<1> QED BY <1>1, <1>2, <1>6, <1>9, <1>11, QuietFrame

\* text_delta.
LEMMA TextDeltaKeeps == \A i \in Indexes : DecoderInv /\ TextDelta(i) => DecoderInv'
<1> SUFFICES ASSUME NEW i \in Indexes, DecoderInv, TextDelta(i) PROVE DecoderInv' OBVIOUS
<1> DEFINE e == Event("text_delta")
<1>1. Pulling /\ protocol = "anthropic" /\ Handle(dec, <<e>>) /\ said' = [said EXCEPT !.text = @ + 1]
  BY DEF TextDelta, HasBlock, Open
<1>2. dec \in AnthropicDecoders /\ ~dec.terminal /\ said \in SaidRecords /\ said.reason = dec.reason
      /\ Follows(dec.blocks, dec.pending, dec.ids, said.calls)
  BY <1>1, AnthropicPulled
<1>3. said' \in SaidRecords /\ said'.text = said.text + 1 /\ said'.calls = said.calls /\ said'.reason = said.reason
  BY <1>1, <1>2 DEF SaidRecords
<1>4. /\ answer \in Seq(EventSet) /\ WellFormed(answer) /\ NoFinal(answer)
      /\ Cardinality(Places(answer, "text_delta")) = said.text
      /\ \A i_1 \in DOMAIN answer : answer[i_1].type = "text_delta"
  BY <1>1, Pulled, Zenon DEF FollowsSaid, AnthropicFollows
<1>5. e \in EventSet BY EventFields
<1>6. <<e>> \in Seq(EventSet) /\ answer \o <<e>> = Append(answer, e) BY <1>4, <1>5, OneEvent
<1>7. Places(answer, "tool_call") = {} BY <1>4 DEF Places
<1> DEFINE t == Append(answer, e)
<1>8. /\ t \in Seq(EventSet) /\ NoFinal(t) /\ WellFormed(t)
      /\ Cardinality(Places(t, "text_delta")) = Cardinality(Places(answer, "text_delta")) + 1
      /\ \A j \in DOMAIN t : t[j].type = "text_delta"
  BY <1>4, <1>7, TextAppended
<1> HIDE DEF t, e
<1>9. FollowsSaid(t, dec, said', protocol)
  <2>1. AnthropicFollows(t, dec, said') BY <1>2, <1>3, <1>8, Zenon DEF AnthropicFollows
  <2>2. protocol # "openai" BY <1>1
  <2>3. Cardinality(Places(t, "text_delta")) = said'.text BY <1>3, <1>4, <1>8
  <2> QED BY <1>8, <2>1, <2>2, <2>3, Zenon DEF FollowsSaid
<1>10. Kept(t, dec, said', protocol, FALSE) BY <1>2, <1>8, <1>9, StillOpen
<1> QED BY <1>1, <1>2, <1>3, <1>6, <1>10, FrameKeeps DEF t

\* The call an index stands for is the last one announced with it.
LEMMA LastIsMax ==
  ASSUME NEW calls \in Seq(CallRecords), NEW k \in DOMAIN calls, LastOf(calls, k), NEW i, calls[k].index = i
  PROVE  Max({j \in DOMAIN calls : calls[j].index = i}) = k
<1> DEFINE S == {j \in DOMAIN calls : calls[j].index = i}
<1>1. k \in S /\ \A j \in S : j <= k BY DEF LastOf
<1>2. \A j \in S : j \in Nat BY CallFields
<1> HIDE DEF S
<1>3. \A j \in S : k >= j BY <1>1, <1>2
<1>4. \A x \in S : (\A y \in S : x >= y) => x = k
  <2> SUFFICES ASSUME NEW x \in S, \A y \in S : x >= y PROVE x = k OBVIOUS
  <2>1. x \in Nat /\ k \in Nat /\ x >= k /\ x <= k BY <1>1, <1>2
  <2> QED BY <2>1
<1>5. Max(S) = k BY <1>1, <1>3, <1>4 DEF Max
<1> QED BY <1>5 DEF S

\* A call with another piece of it.
More(call, id, parts) ==
  [index |-> call.index, id |-> IF call.id = None THEN id ELSE call.id, parts |-> call.parts + parts]

\* A call is its three fields.
LEMMA SameCall ==
  ASSUME NEW c \in CallRecords, NEW d \in CallRecords,
         c.index = d.index, c.id = d.id, c.parts = d.parts
  PROVE  c = d
BY DEF CallRecords

\* What another piece changes in a call.
LEMMA MoreFields ==
  ASSUME NEW call \in CallRecords, NEW id \in Ids \cup {None}, NEW p \in Nat
  PROVE  /\ More(call, id, p) \in CallRecords /\ More(call, id, p).index = call.index
         /\ More(call, id, p).id = IF call.id = None THEN id ELSE call.id
         /\ More(call, id, p).parts = call.parts + p
         /\ [call EXCEPT !.id = IF @ = None THEN id ELSE @, !.parts = @ + p] = More(call, id, p)
<1> DEFINE x == IF call.id = None THEN id ELSE call.id
           more == [index |-> call.index, id |-> x, parts |-> call.parts + p]
<1>1. x \in Ids \cup {None} BY DEF CallRecords
<1> HIDE DEF x
<1>2. /\ more \in CallRecords /\ more.index = call.index /\ more.id = x /\ more.parts = call.parts + p
  BY <1>1 DEF CallRecords
<1>3. [call EXCEPT !.id = x, !.parts = call.parts + p] = more
  <2> DEFINE c == [call EXCEPT !.id = x, !.parts = call.parts + p]
  <2>p. call.parts + p \in Nat BY DEF CallRecords
  <2>r. \A q \in Nat : LET e == [call EXCEPT !.id = x, !.parts = q]
                      IN  e \in CallRecords /\ e.index = call.index /\ e.id = x /\ e.parts = q
    BY <1>1 DEF CallRecords
  <2>1. c \in CallRecords /\ c.index = call.index /\ c.id = x /\ c.parts = call.parts + p
    BY <2>p, <2>r, Zenon
  <2> HIDE DEF c, more
  <2>2. c = more BY <1>2, <2>1, SameCall
  <2> QED BY <2>2 DEF c
<1>4. More(call, id, p) = more BY Zenon DEF More, x
<1> QED BY <1>2, <1>3, <1>4, Zenon DEF x

\* A call is replaced by another one.
LEMMA Replaced ==
  ASSUME NEW calls \in Seq(CallRecords), NEW k \in DOMAIN calls, NEW call \in CallRecords,
         NEW t, t = [calls EXCEPT ![k] = call]
  PROVE  /\ t \in Seq(CallRecords) /\ DOMAIN t = DOMAIN calls /\ t[k] = call
         /\ \A l \in DOMAIN calls : l # k => t[l] = calls[l]
OBVIOUS

\* Amend gives the piece to the last call of the index.
LEMMA Amended ==
  ASSUME NEW calls \in Seq(CallRecords), NEW k \in DOMAIN calls, LastOf(calls, k), NEW i, calls[k].index = i,
         NEW id \in Ids \cup {None}, NEW p \in Nat
  PROVE  Amend(calls, i, id, p) = [calls EXCEPT ![k] = More(calls[k], id, p)]
<1>1. Amend(calls, i, id, p)
        = [calls EXCEPT ![k].id = IF @ = None THEN id ELSE @, ![k].parts = @ + p]
  <2>1. Max({j \in DOMAIN calls : calls[j].index = i}) = k BY LastIsMax
  <2> QED BY <2>1, Zenon DEF Amend
<1>2. calls[k] \in CallRecords BY CallFields
<1>3. [calls[k] EXCEPT !.id = IF @ = None THEN id ELSE @, !.parts = @ + p] = More(calls[k], id, p)
  BY <1>2, MoreFields, ZenonT(60)
<1>4. [calls EXCEPT ![k].id = IF @ = None THEN id ELSE @, ![k].parts = @ + p]
        = [calls EXCEPT ![k] = [calls[k] EXCEPT !.id = IF @ = None THEN id ELSE @, !.parts = @ + p]]
  OBVIOUS
<1> QED BY <1>1, <1>3, <1>4, Zenon

\* The calls t are calls with one more piece of the k-th one.
IsAmended(t, calls, k, i, id, p) ==
  /\ t \in Seq(CallRecords) /\ DOMAIN t = DOMAIN calls
  /\ \A l \in DOMAIN calls : l # k => t[l] = calls[l]
  /\ t[k] = More(calls[k], id, p) /\ t[k].index = i
  /\ t[k].id = IF calls[k].id = None THEN id ELSE calls[k].id
  /\ t[k].parts = calls[k].parts + p

\* Amend adds a piece to the last call of an index, and to no other.
LEMMA AmendedCalls ==
  ASSUME NEW calls \in Seq(CallRecords), NEW k \in DOMAIN calls, LastOf(calls, k), NEW i, calls[k].index = i,
         NEW id \in Ids \cup {None}, NEW p \in Nat, NEW t, t = Amend(calls, i, id, p)
  PROVE  IsAmended(t, calls, k, i, id, p)
<1> DEFINE more == More(calls[k], id, p)
<1>1. calls[k] \in CallRecords BY CallFields
<1>2. /\ more \in CallRecords /\ more.index = calls[k].index
      /\ more.id = IF calls[k].id = None THEN id ELSE calls[k].id
      /\ more.parts = calls[k].parts + p
  BY <1>1, MoreFields, ZenonT(60)
<1>3. t = [calls EXCEPT ![k] = more] BY Amended
<1> HIDE DEF more
<1>4. /\ t \in Seq(CallRecords) /\ DOMAIN t = DOMAIN calls /\ t[k] = more
      /\ \A l \in DOMAIN calls : l # k => t[l] = calls[l]
  BY <1>2, <1>3, Replaced
<1>5. more = More(calls[k], id, p) BY DEF more
<1> QED BY <1>2, <1>4, <1>5, Zenon DEF IsAmended

\* The call of an open block.
LEMMA CallOfBlock ==
  ASSUME NEW blocks, NEW waiting, NEW ids, NEW calls, Follows(blocks, waiting, ids, calls),
         NEW i, i \in DOMAIN blocks, blocks[i].kind = "tool_use"
  PROVE  \E k \in DOMAIN calls :
           /\ calls[k].index = i /\ InBlock(calls[k], blocks) /\ LastOf(calls, k)
           /\ \A m \in DOMAIN waiting : waiting[m].id # calls[k].id
BY Zenon DEF Follows

\* A fragment is added to an open block.
LEMMA BlockGrown ==
  ASSUME NEW f \in BlockMaps, NEW i \in DOMAIN f, f[i].kind = "tool_use",
         NEW g, g = [f EXCEPT ![i] = [f[i] EXCEPT !.parts = f[i].parts + 1]]
  PROVE  /\ g \in BlockMaps /\ DOMAIN g = DOMAIN f
         /\ \A j \in DOMAIN f : j # i => g[j] = f[j]
         /\ g[i].kind = "tool_use" /\ g[i].id = f[i].id /\ g[i].parts = f[i].parts + 1
<1> DEFINE x == [f[i] EXCEPT !.parts = f[i].parts + 1]
<1>1. DOMAIN f \subseteq Indexes /\ \A j \in DOMAIN f : f[j] \in Blocks BY BlockMapFields
<1>2. f[i] \in [kind : {"tool_use"}, id : Ids, whole : BOOLEAN, parts : Nat] BY <1>1 DEF Blocks
<1>3. /\ x \in [kind : {"tool_use"}, id : Ids, whole : BOOLEAN, parts : Nat]
      /\ x.kind = "tool_use" /\ x.id = f[i].id /\ x.parts = f[i].parts + 1
  BY <1>2
<1>4. x \in Blocks BY <1>3 DEF Blocks
<1>5. g = [f EXCEPT ![i] = x] OBVIOUS
<1> HIDE DEF x
<1>6. f = [j \in DOMAIN f |-> f[j]]
  <2>1. PICK S \in SUBSET Indexes : f \in [S -> Blocks] BY DEF BlockMaps
  <2> QED BY <2>1
<1>7. /\ DOMAIN g = DOMAIN f /\ g[i] = x /\ \A j \in DOMAIN f : j # i => g[j] = f[j]
      /\ g \in [DOMAIN f -> Blocks]
  BY <1>1, <1>4, <1>5, <1>6
<1>8. g \in BlockMaps BY <1>1, <1>7, BlockMapBuilt
<1> QED BY <1>3, <1>7, <1>8

\* input_json_delta.
LEMMA InputDeltaKeeps == \A i \in Indexes : DecoderInv /\ InputDelta(i) => DecoderInv'
<1> SUFFICES ASSUME NEW i \in Indexes, DecoderInv, InputDelta(i) PROVE DecoderInv' OBVIOUS
<1> DEFINE b == [dec.blocks EXCEPT ![i] = [dec.blocks[i] EXCEPT !.parts = dec.blocks[i].parts + 1]]
           d == [dec EXCEPT !.blocks[i].parts = @ + 1]
           t == Amend(said.calls, i, None, 1)
<1>1. /\ Pulling /\ protocol = "anthropic" /\ Handle(d, <<>>)
      /\ i \in DOMAIN dec.blocks /\ dec.blocks[i].kind = "tool_use"
  BY DEF InputDelta, HasBlock, Open
<1>s. said' = [said EXCEPT !.calls = t] BY DEF InputDelta
<1>2. dec \in AnthropicDecoders /\ ~dec.terminal /\ said \in SaidRecords /\ said.reason = dec.reason
      /\ Follows(dec.blocks, dec.pending, dec.ids, said.calls)
  BY <1>1, AnthropicPulled
<1>3. dec.blocks \in BlockMaps /\ said.calls \in Seq(CallRecords) BY <1>2 DEF AnthropicDecoders, SaidRecords
<1>4. /\ b \in BlockMaps /\ DOMAIN b = DOMAIN dec.blocks
      /\ \A j \in DOMAIN dec.blocks : j # i => b[j] = dec.blocks[j]
      /\ b[i].kind = "tool_use" /\ b[i].id = dec.blocks[i].id /\ b[i].parts = dec.blocks[i].parts + 1
  <2>1. i \in DOMAIN dec.blocks /\ dec.blocks[i].kind = "tool_use" BY <1>1
  <2> QED BY <1>3, <2>1, BlockGrown
<1>5. d \in AnthropicDecoders /\ d.terminal = dec.terminal /\ d.blocks = b /\ d.reason = dec.reason
      /\ d.pending = dec.pending /\ d.ids = dec.ids
  <2>1. d = [dec EXCEPT !.blocks = b] OBVIOUS
  <2>2. b \in BlockMaps BY <1>4
  <2> HIDE DEF d, b
  <2> QED BY <1>2, <2>1, <2>2 DEF AnthropicDecoders
<1> HIDE DEF d, b
<1>6. PICK k \in DOMAIN said.calls :
        /\ said.calls[k].index = i /\ InBlock(said.calls[k], dec.blocks) /\ LastOf(said.calls, k)
        /\ \A m \in DOMAIN dec.pending : dec.pending[m].id # said.calls[k].id
  <2>1. i \in DOMAIN dec.blocks /\ dec.blocks[i].kind = "tool_use" BY <1>1
  <2> QED BY <1>2, <2>1, CallOfBlock
<1>10. /\ t \in Seq(CallRecords) /\ DOMAIN t = DOMAIN said.calls
       /\ \A l \in DOMAIN said.calls : l # k => t[l] = said.calls[l]
       /\ t[k].index = i /\ t[k].id = (IF said.calls[k].id = None THEN None ELSE said.calls[k].id)
       /\ t[k].parts = said.calls[k].parts + 1
  <2>1. None \in Ids \cup {None} /\ 1 \in Nat OBVIOUS
  <2>2. said.calls[k].index = i /\ LastOf(said.calls, k) BY <1>6
  <2>3. IsAmended(t, said.calls, k, i, None, 1) BY <1>3, <2>1, <2>2, AmendedCalls
  <2> HIDE DEF t
  <2> QED BY <2>3, Zenon DEF IsAmended
<1> HIDE DEF t
<1>11. said' \in SaidRecords /\ said'.text = said.text /\ said'.calls = t /\ said'.reason = said.reason
  BY <1>s, <1>2, <1>10 DEF SaidRecords
<1>12. Follows(b, dec.pending, dec.ids, t)
  <2>1. t[k].id = said.calls[k].id BY <1>10, Zenon
  <2>2. said.calls[k].parts = dec.blocks[i].parts BY <1>6, Zenon DEF InBlock
  <2>3. t[k].parts = b[i].parts BY <1>4, <1>10, <2>2, Zenon
  <2>4. i \in DOMAIN dec.blocks /\ dec.blocks[i].kind = "tool_use" BY <1>1
  <2> QED BY <1>2, <1>4, <1>6, <1>10, <2>1, <2>3, <2>4, FollowsDelta
<1>13. Follows(d.blocks, d.pending, d.ids, said'.calls) BY <1>5, <1>11, <1>12
<1> QED BY <1>1, <1>2, <1>5, <1>11, <1>13, QuietFrame

\* A block is no longer open.
LEMMA BlockClosed ==
  ASSUME NEW f \in BlockMaps, NEW i \in DOMAIN f, NEW g, g = Restrict(f, DOMAIN f \ {i})
  PROVE  /\ g \in BlockMaps /\ DOMAIN g = DOMAIN f \ {i}
         /\ \A j \in DOMAIN g : g[j] = f[j]
         /\ f[i].kind \in {"text", "tool_use"}
<1>1. DOMAIN f \subseteq Indexes /\ \A j \in DOMAIN f : f[j] \in Blocks BY BlockMapFields
<1>2. /\ DOMAIN g = DOMAIN f \ {i} /\ \A j \in DOMAIN g : g[j] = f[j]
      /\ g \in [DOMAIN f \ {i} -> Blocks]
  BY <1>1 DEF Restrict
<1>3. g \in BlockMaps BY <1>1, <1>2, BlockMapBuilt
<1>4. f[i].kind \in {"text", "tool_use"} BY <1>1 DEF Blocks
<1> QED BY <1>2, <1>3, <1>4

\* content_block_stop.
LEMMA BlockStopKeeps == \A i \in Indexes : DecoderInv /\ BlockStop(i) => DecoderInv'
<1> SUFFICES ASSUME NEW i \in Indexes, DecoderInv, BlockStop(i) PROVE DecoderInv' OBVIOUS
<1> DEFINE block == dec.blocks[i]
           call == [index |-> i, id |-> block.id, parts |-> block.parts]
           b == Restrict(dec.blocks, DOMAIN dec.blocks \ {i})
           w == IF block.kind = "text" THEN dec.pending ELSE Append(dec.pending, call)
           d == [dec EXCEPT !.blocks = b, !.pending = w]
<1>1. Pulling /\ protocol = "anthropic" /\ i \in DOMAIN dec.blocks /\ said' = said
  BY DEF BlockStop, Open
<1>h. Handle(d, <<>>) BY Zenon DEF BlockStop
<1>2. dec \in AnthropicDecoders /\ ~dec.terminal /\ said \in SaidRecords /\ said.reason = dec.reason
      /\ Follows(dec.blocks, dec.pending, dec.ids, said.calls)
  BY <1>1, AnthropicPulled
<1>3. dec.blocks \in BlockMaps /\ dec.pending \in Seq(CallRecords) /\ said.calls \in Seq(CallRecords)
  BY <1>2 DEF AnthropicDecoders, SaidRecords
<1>4. /\ b \in BlockMaps /\ DOMAIN b = DOMAIN dec.blocks \ {i}
      /\ \A j \in DOMAIN b : b[j] = dec.blocks[j]
      /\ block.kind \in {"text", "tool_use"}
  BY <1>1, <1>3, BlockClosed
<1> HIDE DEF b
<1>5. w \in Seq(CallRecords) /\ Follows(b, w, dec.ids, said.calls)
  <2>1. CASE block.kind = "text"
    <3>1. w = dec.pending BY <2>1
    <3>2. \A j \in DOMAIN b : b[j].kind = "tool_use" => j \in DOMAIN dec.blocks /\ b[j] = dec.blocks[j]
      BY <1>4
    <3>3. \A j \in DOMAIN dec.blocks : dec.blocks[j].kind = "tool_use" => j \in DOMAIN b /\ b[j] = dec.blocks[j]
      BY <1>4, <2>1
    <3> HIDE DEF w
    <3>4. Follows(b, dec.pending, dec.ids, said.calls) BY <1>2, <3>2, <3>3, FollowsText
    <3> QED BY <1>3, <3>1, <3>4, Zenon
  <2>2. CASE block.kind = "tool_use"
    <3>0. dec.blocks[i].kind = "tool_use" BY <2>2
    <3>1. PICK k \in DOMAIN said.calls :
            /\ said.calls[k].index = i /\ InBlock(said.calls[k], dec.blocks) /\ LastOf(said.calls, k)
            /\ \A m \in DOMAIN dec.pending : dec.pending[m].id # said.calls[k].id
      BY <1>1, <1>2, <3>0, CallOfBlock
    <3>2. said.calls[k] \in CallRecords BY <1>3, CallFields
    <3>3. call = said.calls[k]
      <4>1. said.calls[k].id = block.id /\ said.calls[k].parts = block.parts
        BY <3>1, Zenon DEF InBlock
      <4>2. said.calls[k] = [index |-> said.calls[k].index, id |-> said.calls[k].id, parts |-> said.calls[k].parts]
        BY <3>2 DEF CallRecords
      <4> QED BY <3>1, <4>1, <4>2, Zenon
    <3>4. w = Append(dec.pending, said.calls[k])
      <4>1. block.kind # "text" BY <2>2
      <4> QED BY <3>3, <4>1, Zenon
    <3> HIDE DEF w, call
    <3>5. /\ w \in Seq(CallRecords) /\ DOMAIN w = DOMAIN dec.pending \cup {Len(dec.pending) + 1}
          /\ Len(dec.pending) + 1 \notin DOMAIN dec.pending
          /\ \A m \in DOMAIN dec.pending : w[m] = dec.pending[m]
          /\ w[Len(dec.pending) + 1] = said.calls[k]
      BY <1>3, <3>2, <3>4, CallAppended
    <3>6. Follows(b, w, dec.ids, said.calls)
      <4> DEFINE n == Len(dec.pending) + 1
      <4>1. /\ DOMAIN w = DOMAIN dec.pending \cup {n} /\ n \notin DOMAIN dec.pending
            /\ \A m \in DOMAIN dec.pending : w[m] = dec.pending[m]
            /\ w[n] = said.calls[k]
        BY <3>5
      <4>2. i \in DOMAIN dec.blocks /\ Without(b, dec.blocks, i) BY <1>1, <1>4, Zenon DEF Without
      <4>3. CallOf(said.calls[k], i, dec.blocks, dec.pending) BY <3>1, Zenon DEF CallOf
      <4>4. Longer(w, dec.pending, n, said.calls[k]) BY <4>1, Zenon DEF Longer
      <4> HIDE DEF n, block, d
      <4> QED BY <1>2, <4>2, <4>3, <4>4, FollowsStop
    <3> QED BY <3>5, <3>6
  <2> QED BY <1>4, <2>1, <2>2
<1> HIDE DEF w
<1>6. d \in AnthropicDecoders /\ d.terminal = dec.terminal /\ d.blocks = b /\ d.reason = dec.reason
      /\ d.pending = w /\ d.ids = dec.ids
  BY <1>2, <1>4, <1>5 DEF AnthropicDecoders
<1> HIDE DEF d
<1>7. Follows(d.blocks, d.pending, d.ids, said'.calls) BY <1>1, <1>5, <1>6
<1> QED BY <1>1, <1>h, <1>2, <1>6, <1>7, QuietFrame

\* The usage event, when there is one.
LEMMA UsageAppended ==
  ASSUME NEW s \in Seq(EventSet), NoFinal(s), WellFormed(s), NEW counted,
         NEW u, u = IF counted THEN <<Event("usage")>> ELSE <<>>,
         NEW t, t = s \o u
  PROVE  /\ u \in Seq(EventSet)
         /\ t \in Seq(EventSet) /\ NoFinal(t) /\ WellFormed(t)
         /\ Places(t, "text_delta") = Places(s, "text_delta")
         /\ Places(t, "tool_call") = Places(s, "tool_call")
         /\ \A calls : Announces(s, calls) => Announces(t, calls)
<1>1. CASE counted
  <2>1. Event("usage") \in EventSet BY EventFields
  <2>2. u = <<Event("usage")>> BY <1>1
  <2>3. u \in Seq(EventSet) /\ t = Append(s, Event("usage")) BY <2>1, <2>2, OneEvent
  <2> QED BY <2>3, PlainAppended
<1>2. CASE ~counted
  <2>1. u = <<>> BY <1>2
  <2>2. u \in Seq(EventSet) /\ t = s BY <2>1, NoMore
  <2> QED BY <2>2, Zenon
<1> QED BY <1>1, <1>2

\* message_stop: the waiting calls are announced and the answer is completed.
LEMMA MessageStopKeeps == DecoderInv /\ MessageStop => DecoderInv'
<1> SUFFICES ASSUME DecoderInv, MessageStop PROVE DecoderInv' OBVIOUS
<1> DEFINE d == [dec EXCEPT !.terminal = TRUE]
           u == IF dec.input /\ dec.output THEN <<Event("usage")>> ELSE <<>>
<1>1. PICK given \in InOrder(dec.pending) :
        Handle(d, [k \in DOMAIN given |-> ToolCall(given[k])] \o u \o <<Completed>>)
  BY Zenon DEF MessageStop
<1>2. Pulling /\ protocol = "anthropic" /\ DOMAIN dec.blocks = {} /\ dec.reason \in Supported
      /\ said' = said
  BY DEF MessageStop, Open, Whole
<1>3. dec \in AnthropicDecoders /\ said \in SaidRecords /\ said.reason = dec.reason
      /\ Follows(dec.blocks, dec.pending, dec.ids, said.calls)
  BY <1>2, AnthropicPulled
<1>4. dec.pending \in Seq(CallRecords) /\ said.calls \in Seq(CallRecords)
  BY <1>3 DEF AnthropicDecoders, SaidRecords
<1>5. d \in AnthropicDecoders /\ d.terminal BY <1>3, Ended, Zenon
<1> HIDE DEF d
<1>6. given \in Seq(CallRecords) /\ Sorts(given, said.calls)
  <2>1. \A m, n \in DOMAIN dec.pending : dec.pending[m].id = dec.pending[n].id => m = n
    BY <1>3, Zenon DEF Follows
  <2>2. given \in Seq(CallRecords) /\ Sorts(given, dec.pending) BY <1>4, <2>1, InOrderSorts
  <2>3. Sorts(given, said.calls) BY <1>2, <1>3, <2>2, SortsAnnounced
  <2> QED BY <2>2, <2>3
<1>7. /\ answer \in Seq(EventSet) /\ WellFormed(answer) /\ NoFinal(answer)
      /\ Cardinality(Places(answer, "text_delta")) = said.text
      /\ \A i \in DOMAIN answer : answer[i].type = "text_delta"
  BY <1>2, Pulled, Zenon DEF FollowsSaid, AnthropicFollows
<1>8. Places(answer, "tool_call") = {} BY <1>7 DEF Places
<1> DEFINE tools == ToolsOf(given)
           a == answer \o tools
           b == a \o u
           c == Append(b, Event("completed"))
<1>9. tools \in Seq(EventSet) BY <1>6, ToolEvents
<1>10. /\ a \in Seq(EventSet) /\ NoFinal(a) /\ WellFormed(a)
       /\ Places(a, "text_delta") = Places(answer, "text_delta")
       /\ Announces(a, said.calls)
  BY <1>4, <1>6, <1>7, <1>8, CallsAppended, Zenon
<1>g. given = given /\ [k \in DOMAIN given |-> ToolCall(given[k])] = tools BY Zenon DEF ToolsOf
<1> HIDE DEF tools, a
<1>11. /\ u \in Seq(EventSet)
       /\ b \in Seq(EventSet) /\ NoFinal(b) /\ WellFormed(b)
       /\ Places(b, "text_delta") = Places(a, "text_delta")
       /\ Announces(b, said.calls)
  BY <1>10, UsageAppended
<1> HIDE DEF u, b
<1>12. /\ c \in Seq(EventSet) /\ WellFormed(c) /\ EndsWith(c, {"completed"})
       /\ Places(c, "text_delta") = Places(b, "text_delta")
       /\ Announces(c, said.calls)
  BY <1>11, PlainAppended
<1>13. WholeOf(c, said)
  <2>1. said.reason \in {"end_turn", "tool_use", "stop", "tool_calls"} BY <1>2, <1>3 DEF Supported
  <2> QED BY <1>7, <1>10, <1>11, <1>12, <2>1, Zenon DEF WholeOf
<1>14. EndsWith(c, {"completed", "error"}) BY <1>12, Zenon DEF EndsWith
<1>15. Kept(c, d, said, protocol, FALSE) BY <1>5, <1>12, <1>13, <1>14, Zenon DEF Kept
<1>16. /\ tools \o u \o <<Completed>> \in Seq(EventSet)
       /\ answer \o (tools \o u \o <<Completed>>) = c
  <2>1. Completed = Event("completed") /\ Completed \in EventSet BY EventFields
  <2>2. <<Completed>> \in Seq(EventSet) BY <2>1
  <2>3. answer \o (tools \o u \o <<Completed>>) = ((answer \o tools) \o u) \o <<Completed>>
    BY <1>7, <1>9, <1>11, <2>2, Regroup, SMTT(30)
  <2>4. ((answer \o tools) \o u) \o <<Completed>> = b \o <<Completed>> BY Zenon DEF a, b
  <2>5. b \o <<Completed>> = c BY <1>11, <2>1, OneEvent
  <2>6. tools \o u \o <<Completed>> \in Seq(EventSet) BY <1>9, <1>11, <2>2
  <2> QED BY <2>3, <2>4, <2>5, <2>6, Zenon
<1> HIDE DEF c
<1>17. Handle(d, tools \o u \o <<Completed>>) BY <1>1, <1>g, Zenon
<1> QED BY <1>2, <1>3, <1>5, <1>15, <1>16, <1>17, FrameKeeps

\* The calls by index are calls, at indexes.
LEMMA CallMapFields ==
  ASSUME NEW f \in CallMaps
  PROVE  DOMAIN f \subseteq Indexes /\ \A j \in DOMAIN f : f[j] \in CallRecords
<1>1. PICK S \in SUBSET Indexes : f \in [S -> CallRecords] BY DEF CallMaps
<1> QED BY <1>1

\* Calls at indexes are a map of calls.
LEMMA CallMapBuilt ==
  ASSUME NEW S, S \subseteq Indexes, NEW f \in [S -> CallRecords]
  PROVE  f \in CallMaps
BY DEF CallMaps

\* What a piece of a call changes, in the decoder and in what was said.
HearsPiece(m, t, map, calls, piece) ==
  /\ m = Applied(map, piece)
  /\ t = IF piece.index \notin DOMAIN map THEN Append(calls, piece)
         ELSE Amend(calls, piece.index, piece.id, piece.parts)

\* A piece changes the decoder as it changes what was said (applyToolCallDelta).
LEMMA PieceMirrored ==
  ASSUME NEW map \in CallMaps, NEW calls \in Seq(CallRecords), Mirrors(map, calls), NEW piece \in Pieces,
         NEW m, NEW t, HearsPiece(m, t, map, calls, piece)
  PROVE  m \in CallMaps /\ t \in Seq(CallRecords) /\ Mirrors(m, t)
<1> DEFINE i == piece.index
<1>1. DOMAIN map \subseteq Indexes /\ \A j \in DOMAIN map : map[j] \in CallRecords BY CallMapFields
<1>2. piece \in CallRecords /\ i \in Indexes /\ piece.id \in Ids \cup {None} /\ piece.parts \in Nat
  BY DEF CallRecords, Pieces
<1>3. CASE i \notin DOMAIN map
  <2>1. t = Append(calls, piece) BY <1>3, Zenon DEF HearsPiece
  <2>2. m = [j \in DOMAIN map \cup {i} |-> IF j # i THEN map[j] ELSE piece] BY <1>3 DEF Applied, HearsPiece
  <2>3. /\ DOMAIN m = DOMAIN map \cup {i} /\ m[i] = piece /\ \A j \in DOMAIN map : m[j] = map[j]
        /\ m \in [DOMAIN map \cup {i} -> CallRecords]
    BY <1>1, <1>2, <1>3, <2>2
  <2>4. m \in CallMaps BY <1>1, <1>2, <2>3, CallMapBuilt
  <2>5. /\ t \in Seq(CallRecords) /\ DOMAIN t = DOMAIN calls \cup {Len(calls) + 1}
        /\ Len(calls) + 1 \notin DOMAIN calls
        /\ \A k \in DOMAIN calls : t[k] = calls[k]
        /\ t[Len(calls) + 1] = piece
    BY <1>2, <2>1, CallAppended
  <2>6. Mirrors(m, t)
    <3> DEFINE n == Len(calls) + 1
    <3>1. Longer(t, calls, n, piece) BY <2>5, Zenon DEF Longer
    <3>2. Longer(m, map, i, piece) BY <1>3, <2>3, Zenon DEF Longer
    <3>3. piece.index = i OBVIOUS
    <3> HIDE DEF i, n
    <3> QED BY <3>1, <3>2, <3>3, MirrorsNew
  <2> QED BY <2>4, <2>5, <2>6
<1>4. CASE i \in DOMAIN map
  <2>1. t = Amend(calls, i, piece.id, piece.parts) BY <1>4, Zenon DEF HearsPiece
  <2>2. PICK k \in DOMAIN calls : calls[k].index = i 
    <3>1. \A j \in DOMAIN map : \E k \in DOMAIN calls : calls[k].index = j BY Zenon DEF Mirrors
    <3> HIDE DEF i
    <3> QED BY <1>4, <3>1, Zenon
  <2>3. map[i] = calls[k] BY <2>2, Zenon DEF Mirrors
  <2>4. LastOf(calls, k)
    <3>1. \A l \in DOMAIN calls : calls[l].index = calls[k].index => l = k BY Zenon DEF Mirrors
    <3>2. k \in Nat BY CallFields
    <3> QED BY <3>1, <3>2 DEF LastOf
  <2> HIDE DEF i
  <2>5. IsAmended(t, calls, k, i, piece.id, piece.parts) BY <1>2, <2>1, <2>2, <2>4, AmendedCalls
  <2>6. /\ t \in Seq(CallRecords) /\ DOMAIN t = DOMAIN calls
        /\ \A l \in DOMAIN calls : l # k => t[l] = calls[l]
        /\ t[k] = More(calls[k], piece.id, piece.parts) /\ t[k].index = i
    BY <2>5, Zenon DEF IsAmended
  <2>7. calls[k] \in CallRecords /\ More(calls[k], piece.id, piece.parts) \in CallRecords
    <3>1. calls[k] \in CallRecords BY CallFields
    <3> QED BY <1>2, <3>1, MoreFields
  <2> DEFINE more == More(calls[k], piece.id, piece.parts)
  <2>8. [calls[k] EXCEPT !.id = IF @ = None THEN piece.id ELSE @, !.parts = @ + piece.parts] = more
    <3>1. \A id \in Ids \cup {None}, p \in Nat :
            [calls[k] EXCEPT !.id = IF @ = None THEN id ELSE @, !.parts = @ + p] = More(calls[k], id, p)
      BY <2>7, MoreFields, ZenonT(60)
    <3> QED BY <1>2, <3>1, Zenon
  <2>9. m = [j \in DOMAIN map \cup {i} |-> IF j # i THEN map[j] ELSE more]
    <3>1. DOMAIN map \cup {i} = DOMAIN map BY <1>4
    <3>2. m = [j \in DOMAIN map \cup {i} |->
                 IF j # i THEN map[j]
                 ELSE IF j \notin DOMAIN map THEN piece
                 ELSE [map[j] EXCEPT !.id = IF @ = None THEN piece.id ELSE @, !.parts = @ + piece.parts]]
      BY Zenon DEF Applied, i, HearsPiece
    <3>3. \A j \in DOMAIN map \cup {i} :
            (IF j # i THEN map[j]
             ELSE IF j \notin DOMAIN map THEN piece
             ELSE [map[j] EXCEPT !.id = IF @ = None THEN piece.id ELSE @, !.parts = @ + piece.parts])
            = (IF j # i THEN map[j] ELSE more)
      BY <1>4, <2>3, <2>8, Zenon
    <3> HIDE DEF more
    <3> QED BY <3>2, <3>3, Zenon
  <2> HIDE DEF more
  <2>a. more \in CallRecords /\ t[k] = more /\ more.index = i
    BY <2>6, <2>7, Zenon DEF more
  <2>10. /\ DOMAIN m = DOMAIN map /\ m[i] = more /\ \A j \in DOMAIN map : j # i => m[j] = map[j]
         /\ m \in [DOMAIN map -> CallRecords]
    BY <1>1, <1>4, <2>9, <2>a
  <2>11. m \in CallMaps BY <1>1, <2>10, CallMapBuilt
  <2>12. Mirrors(m, t) BY <2>2, <2>6, <2>10, <2>a, MirrorsPiece
  <2> QED BY <2>6, <2>11, <2>12
<1> QED BY <1>3, <1>4

\* The text of a chunk, when it has one.
TextOf(text)         == IF text THEN <<Event("text_delta")>> ELSE <<>>
MayHaveText(s, text) == text => Places(s, "tool_call") = {}
HasText(s, text, t)  ==
  /\ t \in Seq(EventSet) /\ NoFinal(t) /\ WellFormed(t)
  /\ Places(t, "tool_call") = Places(s, "tool_call")
  /\ Cardinality(Places(t, "text_delta"))
       = Cardinality(Places(s, "text_delta")) + (IF text THEN 1 ELSE 0)
  /\ ~text => t = s

LEMMA TextMaybe ==
  ASSUME NEW s \in Seq(EventSet), NoFinal(s), WellFormed(s), NEW text, MayHaveText(s, text),
         NEW x, x = TextOf(text), NEW t, t = s \o x
  PROVE  x \in Seq(EventSet) /\ HasText(s, text, t)
<1> USE DEF TextOf, MayHaveText, HasText
<1>1. CASE text
  <2>1. Event("text_delta") \in EventSet BY EventFields
  <2>2. x = <<Event("text_delta")>> BY <1>1
  <2>3. x \in Seq(EventSet) /\ t = Append(s, Event("text_delta")) BY <2>1, <2>2, OneEvent
  <2>4. Places(s, "tool_call") = {} BY <1>1
  <2>5. /\ t \in Seq(EventSet) /\ NoFinal(t) /\ WellFormed(t) /\ Places(t, "tool_call") = {}
        /\ Cardinality(Places(t, "text_delta")) = Cardinality(Places(s, "text_delta")) + 1
    BY <2>3, <2>4, TextAppended
  <2> QED BY <1>1, <2>3, <2>4, <2>5
<1>2. CASE ~text
  <2>1. x = <<>> BY <1>2
  <2>2. x \in Seq(EventSet) /\ t = s BY <2>1, NoMore
  <2>3. Cardinality(Places(s, "text_delta")) \in Nat BY PlacesFinite
  <2>4. Cardinality(Places(t, "text_delta")) = Cardinality(Places(s, "text_delta")) + 0
    <3>1. \A n \in Nat : n = n + 0 OBVIOUS
    <3> QED BY <2>2, <2>3, <3>1, Zenon
  <2> QED BY <1>2, <2>2, <2>4
<1> QED BY <1>1, <1>2

\* What is known of the chat decoder before a chunk.
LEMMA ChatPulled ==
  ASSUME DecoderInv, Pulling, protocol = "openai"
  PROVE  /\ dec \in ChatDecoders /\ ~dec.terminal /\ said \in SaidRecords
         /\ answer \in Seq(EventSet) /\ WellFormed(answer) /\ NoFinal(answer)
         /\ Cardinality(Places(answer, "text_delta")) = said.text
         /\ ChatFollows(answer, dec, said)
<1>1. protocol # "anthropic" OBVIOUS
<1> QED BY <1>1, Pulled, Zenon DEF FollowsSaid

\* The [DONE] sentinel completes the answer.
LEMMA DoneKeeps == DecoderInv /\ Done => DecoderInv'
<1> SUFFICES ASSUME DecoderInv, Done PROVE DecoderInv' OBVIOUS
<1> DEFINE d == [dec EXCEPT !.terminal = TRUE]
           t == Append(answer, Event("completed"))
<1>1. /\ Pulling /\ protocol = "openai" /\ dec.finish # None
      /\ Handle(d, <<Completed>>) /\ said' = said
  BY DEF Done
<1>2. /\ dec \in ChatDecoders /\ said \in SaidRecords
      /\ answer \in Seq(EventSet) /\ WellFormed(answer) /\ NoFinal(answer)
      /\ Cardinality(Places(answer, "text_delta")) = said.text
      /\ ChatFollows(answer, dec, said)
  BY <1>1, ChatPulled
<1>3. d \in ChatDecoders /\ d.terminal BY <1>2, Ended, Zenon
<1> HIDE DEF d
<1>4. /\ said.reason = dec.finish /\ dec.finish \in {"stop", "tool_calls"}
      /\ dec.finish = "stop" => DOMAIN dec.calls = {}
      /\ dec.emitted <=> dec.finish = "tool_calls"
      /\ Mirrors(dec.calls, said.calls)
      /\ IF dec.emitted THEN Announces(answer, said.calls) ELSE Places(answer, "tool_call") = {}
  <2>1. dec.finish # None BY <1>1
  <2> QED BY <1>2, <2>1, Zenon DEF ChatFollows
<1>5. Announces(answer, said.calls)
  <2>1. CASE dec.finish = "tool_calls" BY <1>4, <2>1, Zenon
  <2>2. CASE dec.finish = "stop"
    <3>1. DOMAIN said.calls = {} BY <1>4, <2>2, Zenon DEF Mirrors
    <3>2. Places(answer, "tool_call") = {}
      <4>1. dec.finish # "tool_calls" BY <2>2
      <4> QED BY <1>4, <4>1, Zenon
    <3> QED BY <3>1, <3>2 DEF Announces
  <2> QED BY <1>4, <2>1, <2>2
<1>6. /\ t \in Seq(EventSet) /\ WellFormed(t) /\ EndsWith(t, {"completed"})
      /\ Places(t, "text_delta") = Places(answer, "text_delta")
      /\ Announces(t, said.calls)
  BY <1>2, <1>5, PlainAppended
<1>7. /\ <<Completed>> \in Seq(EventSet) /\ answer \o <<Completed>> = t
  BY <1>2, EventFields, OneEvent
<1> HIDE DEF t
<1>8. WholeOf(t, said)
  <2>1. said.reason \in {"end_turn", "tool_use", "stop", "tool_calls"} BY <1>4
  <2> QED BY <1>2, <1>6, <2>1, Zenon DEF WholeOf
<1>9. EndsWith(t, {"completed", "error"}) BY <1>6, Zenon DEF EndsWith
<1>10. Kept(t, d, said, protocol, FALSE) BY <1>3, <1>6, <1>8, <1>9, Zenon DEF Kept
<1> QED BY <1>1, <1>2, <1>3, <1>7, <1>10, FrameKeeps

\* What the provider has said after a chunk.
LEMMA Saying ==
  ASSUME NEW s \in SaidRecords, NEW n \in {0, 1}, NEW calls \in Seq(CallRecords), NEW reason \in Reasons,
         NEW t, t = [text |-> s.text + n, calls |-> calls, reason |-> reason]
  PROVE  t \in SaidRecords /\ t.text = s.text + n /\ t.calls = calls /\ t.reason = reason
<1>1. s.text + n \in Nat BY DEF SaidRecords
<1> QED BY <1>1 DEF SaidRecords

\* What a chunk makes of the calls.
Hears(m, t, map, calls, piece) ==
  IF piece = NoCall THEN m = map /\ t = calls ELSE HearsPiece(m, t, map, calls, piece)

\* A chunk with a piece of a call, or without one.
LEMMA ChunkCalls ==
  ASSUME NEW map \in CallMaps, NEW calls \in Seq(CallRecords), Mirrors(map, calls),
         NEW piece \in Pieces \cup {NoCall}, NEW m, NEW t, Hears(m, t, map, calls, piece)
  PROVE  m \in CallMaps /\ t \in Seq(CallRecords) /\ Mirrors(m, t)
<1>1. CASE piece = NoCall
  <2>1. m = map /\ t = calls BY <1>1, Zenon DEF Hears
  <2> QED BY <2>1, Zenon
<1>2. CASE piece # NoCall
  <2>1. piece \in Pieces BY <1>2
  <2>2. HearsPiece(m, t, map, calls, piece) BY <1>2, Zenon DEF Hears
  <2> QED BY <2>1, <2>2, PieceMirrored
<1> QED BY <1>1, <1>2

\* A chunk: text, a piece of a call, a reason to finish and the usage at once.
LEMMA ChunkKeeps ==
  \A text, counted \in BOOLEAN, piece \in Pieces \cup {NoCall}, reason \in {None, "stop", "tool_calls"} :
    DecoderInv /\ Chunk(text, piece, reason, counted) => DecoderInv'
<1> SUFFICES ASSUME NEW text \in BOOLEAN, NEW counted \in BOOLEAN, NEW piece \in Pieces \cup {NoCall},
                    NEW reason \in {None, "stop", "tool_calls"},
                    DecoderInv, Chunk(text, piece, reason, counted)
             PROVE  DecoderInv'
  OBVIOUS
<1> DEFINE calls == IF piece = NoCall THEN dec.calls ELSE Applied(dec.calls, piece)
           given == IF piece = NoCall THEN said.calls
                    ELSE IF piece # NoCall /\ piece.index \notin DOMAIN dec.calls THEN Append(said.calls, piece)
                    ELSE Amend(said.calls, piece.index, piece.id, piece.parts)
           n == IF text THEN 1 ELSE 0
           finish == IF reason = None THEN dec.finish ELSE reason
           emitted == dec.emitted \/ reason = "tool_calls"
           d == [dec EXCEPT !.calls = calls, !.finish = finish, !.emitted = emitted]
           x == IF text THEN <<Event("text_delta")>> ELSE <<>>
           u == IF counted THEN <<Event("usage")>> ELSE <<>>
<1>1. PICK tools \in IF reason = "tool_calls" THEN Batch(calls) ELSE {<<>>} : Handle(d, x \o tools \o u)
  BY Zenon DEF Chunk
<1>2. /\ Pulling /\ protocol = "openai"
      /\ dec.finish # None => ~text /\ piece = NoCall /\ reason = None
      /\ reason = "stop" => DOMAIN calls = {}
      /\ reason = "tool_calls" => Emits(calls)
  BY Zenon DEF Chunk, Still
<1>s. said' = [text |-> said.text + n, calls |-> given,
               reason |-> IF reason = None THEN said.reason ELSE reason]
  BY Zenon DEF Chunk
<1>3. /\ dec \in ChatDecoders /\ ~dec.terminal /\ said \in SaidRecords
      /\ answer \in Seq(EventSet) /\ WellFormed(answer) /\ NoFinal(answer)
      /\ Cardinality(Places(answer, "text_delta")) = said.text
      /\ ChatFollows(answer, dec, said)
  BY <1>2, ChatPulled
<1>4. /\ said.reason = dec.finish /\ dec.finish \in {None, "stop", "tool_calls"}
      /\ dec.finish = "stop" => DOMAIN dec.calls = {}
      /\ dec.emitted <=> dec.finish = "tool_calls"
      /\ Mirrors(dec.calls, said.calls)
      /\ IF dec.emitted THEN Announces(answer, said.calls) ELSE Places(answer, "tool_call") = {}
  BY <1>3, Zenon DEF ChatFollows
<1>5. /\ dec.calls \in CallMaps /\ dec.emitted \in BOOLEAN /\ said.calls \in Seq(CallRecords)
  BY <1>3 DEF ChatDecoders, SaidRecords
<1>6. calls \in CallMaps /\ given \in Seq(CallRecords) /\ Mirrors(calls, given)
  <2>1. Hears(calls, given, dec.calls, said.calls, piece)
    <3>1. CASE piece = NoCall BY <3>1, Zenon DEF Hears
    <3>2. CASE piece # NoCall BY <3>2, Zenon DEF Hears, HearsPiece
    <3> QED BY <3>1, <3>2, Zenon
  <2>3. Mirrors(dec.calls, said.calls) BY <1>4
  <2> HIDE DEF calls, given, d
  <2> QED BY <1>5, <2>1, <2>3, ChunkCalls
<1>7. (piece = NoCall => calls = dec.calls /\ given = said.calls) /\ n \in {0, 1}
      /\ emitted \in BOOLEAN
  BY <1>5, Zenon
<1>8. finish \in Reasons /\ finish \in {None, "stop", "tool_calls"}
  BY <1>4 DEF Reasons
<1>n. None # "tool_calls" /\ None # "stop" BY DecodingAssumption
<1>9. reason # None \/ text \/ piece # NoCall => ~dec.emitted /\ Places(answer, "tool_call") = {}
  BY <1>2, <1>4, <1>n, Zenon
<1> HIDE DEF calls, given
<1>10. /\ d \in ChatDecoders /\ ~d.terminal /\ d.calls = calls /\ d.finish = finish /\ d.emitted = emitted
  <2>1. emitted \in BOOLEAN /\ finish \in Reasons BY <1>7, <1>8
  <2>2. d = [dec EXCEPT !.calls = calls, !.finish = finish, !.emitted = emitted] OBVIOUS
  <2> HIDE DEF emitted, finish, d
  <2> QED BY <1>3, <1>6, <2>1, <2>2 DEF ChatDecoders
<1>11. (IF reason = None THEN said.reason ELSE reason) = finish BY <1>4, Zenon
<1> HIDE DEF d
<1>12. said' \in SaidRecords /\ said'.text = said.text + n /\ said'.calls = given /\ said'.reason = finish
  <2>1. said' = [text |-> said.text + n, calls |-> given, reason |-> finish] BY <1>s, <1>11, Zenon
  <2> HIDE DEF finish, n
  <2> QED BY <1>3, <1>6, <1>7, <1>8, <2>1, Saying
<1> DEFINE a == answer \o x
           b == a \o tools
           c == b \o u
<1>13. /\ x \in Seq(EventSet)
       /\ a \in Seq(EventSet) /\ NoFinal(a) /\ WellFormed(a)
       /\ Places(a, "tool_call") = Places(answer, "tool_call")
       /\ Cardinality(Places(a, "text_delta")) = said.text + n
       /\ ~text => a = answer
  <2>1. text => Places(answer, "tool_call") = {} BY <1>9, Zenon
  <2>2. x = IF text THEN <<Event("text_delta")>> ELSE <<>> OBVIOUS
  <2>3. a = answer \o x OBVIOUS
  <2> HIDE DEF a, x, n, u
  <2>4. /\ x \in Seq(EventSet)
        /\ a \in Seq(EventSet) /\ NoFinal(a) /\ WellFormed(a)
        /\ Places(a, "tool_call") = Places(answer, "tool_call")
        /\ Cardinality(Places(a, "text_delta"))
             = Cardinality(Places(answer, "text_delta")) + (IF text THEN 1 ELSE 0)
        /\ ~text => a = answer
    <3>1. answer \in Seq(EventSet) /\ NoFinal(answer) /\ WellFormed(answer) BY <1>3, Zenon
    <3>2. MayHaveText(answer, text) BY <2>1 DEF MayHaveText
    <3>3. x = TextOf(text) BY <2>2 DEF TextOf
    <3>4. x \in Seq(EventSet) /\ HasText(answer, text, a) BY <2>3, <3>1, <3>2, <3>3, TextMaybe, ZenonT(60)
    <3> QED BY <3>4, Zenon DEF HasText
  <2> QED BY <1>3, <2>4, Zenon DEF n
<1> HIDE DEF x, a, n
<1>14. /\ tools \in Seq(EventSet)
       /\ b \in Seq(EventSet) /\ NoFinal(b) /\ WellFormed(b)
       /\ Places(b, "text_delta") = Places(a, "text_delta")
       /\ IF reason = "tool_calls" THEN Announces(b, given) ELSE b = a
  <2>1. CASE reason = "tool_calls"
    <3>1. Emits(calls) /\ tools \in Batch(calls) BY <1>1, <1>2, <2>1, Zenon
    <3>2. PICK sorted \in Seq(CallRecords) : Sorts(sorted, given) /\ tools = ToolsOf(sorted)
      BY <1>6, <3>1, BatchSorts
    <3>3. Places(a, "tool_call") = {}
      <4>1. reason # None BY <1>n, <2>1
      <4> QED BY <1>9, <1>13, <4>1, Zenon
    <3>4. tools \in Seq(EventSet) BY <3>2, ToolEvents
    <3>5. /\ b \in Seq(EventSet) /\ NoFinal(b) /\ WellFormed(b)
          /\ Places(b, "text_delta") = Places(a, "text_delta") /\ Announces(b, given)
      BY <1>6, <1>13, <3>2, <3>3, CallsAppended, Zenon
    <3> QED BY <2>1, <3>4, <3>5, Zenon
  <2>2. CASE reason # "tool_calls"
    <3>1. tools = <<>> BY <1>1, <2>2, Zenon
    <3>2. b = a /\ tools \in Seq(EventSet) BY <1>13, <3>1, NoMore
    <3> QED BY <1>13, <2>2, <3>2, Zenon
  <2> QED BY <2>1, <2>2
<1> HIDE DEF b
<1>15. /\ u \in Seq(EventSet)
       /\ c \in Seq(EventSet) /\ NoFinal(c) /\ WellFormed(c)
       /\ Places(c, "text_delta") = Places(b, "text_delta")
       /\ Places(c, "tool_call") = Places(b, "tool_call")
       /\ \A all : Announces(b, all) => Announces(c, all)
  BY <1>14, UsageAppended, ZenonT(60)
<1> HIDE DEF u, c
<1>16. answer \o (x \o tools \o u) = c /\ x \o tools \o u \in Seq(EventSet)
  <2>1. answer \o (x \o tools \o u) = ((answer \o x) \o tools) \o u
    <3>1. tools \in Seq(EventSet) BY <1>14, Zenon
    <3>2. /\ answer \in Seq(EventSet) /\ x \in Seq(EventSet)
          /\ tools \in Seq(EventSet) /\ u \in Seq(EventSet)
      BY <1>3, <1>13, <1>15, <3>1, Zenon
    <3> QED BY <3>2, Regroup, SMTT(30)
  <2>2. x \o tools \o u \in Seq(EventSet) BY <1>13, <1>14, <1>15
  <2> QED BY <2>1, <2>2, Zenon DEF a, b, c
<1>17. IF emitted THEN Announces(c, given) ELSE Places(c, "tool_call") = {}
  <2>1. CASE reason = "tool_calls"
    <3>1. emitted BY <2>1
    <3>2. Announces(c, given) BY <1>14, <1>15, <2>1, Zenon
    <3> QED BY <3>1, <3>2
  <2>2. CASE reason # "tool_calls" /\ dec.emitted
    <3>1. ~text /\ piece = NoCall BY <1>9, <2>2, Zenon
    <3>2. a = answer /\ given = said.calls /\ b = a BY <1>7, <1>13, <1>14, <2>2, <3>1, Zenon
    <3>3. Announces(b, given) BY <1>4, <2>2, <3>2, Zenon
    <3>4. Announces(c, given) BY <1>15, <3>3, Zenon
    <3>5. emitted BY <2>2
    <3> QED BY <3>4, <3>5
  <2>3. CASE reason # "tool_calls" /\ ~dec.emitted
    <3>1. ~emitted BY <2>3
    <3>2. Places(answer, "tool_call") = {} BY <1>4, <2>3, Zenon
    <3>3. Places(c, "tool_call") = {} BY <1>13, <1>14, <1>15, <2>3, <3>2, Zenon
    <3> QED BY <3>1, <3>3
  <2> QED BY <2>1, <2>2, <2>3
<1>18. finish = "stop" => DOMAIN calls = {}
  <2>1. CASE reason = None
    <3>1. finish = dec.finish BY <2>1
    <3>2. ASSUME dec.finish = "stop" PROVE DOMAIN calls = {}
      <4>1. dec.finish # None BY <1>n, <3>2
      <4>2. calls = dec.calls BY <1>2, <1>7, <4>1, Zenon
      <4> QED BY <1>4, <3>2, <4>2, Zenon
    <3> QED BY <3>1, <3>2, Zenon
  <2>2. CASE reason # None
    <3>1. finish = reason BY <2>2, Zenon
    <3> QED BY <1>2, <3>1, Zenon
  <2> QED BY <2>1, <2>2
<1>19. emitted <=> finish = "tool_calls"
  <2>1. CASE reason = None BY <1>4, <1>n, <2>1, Zenon
  <2>2. CASE reason # None
    <3>1. ~dec.emitted /\ finish = reason BY <1>9, <2>2, Zenon
    <3> QED BY <3>1
  <2> QED BY <2>1, <2>2
<1> HIDE DEF finish, emitted
<1>20. FollowsSaid(c, d, said', protocol)
  <2>1. ChatFollows(c, d, said')
    BY <1>6, <1>8, <1>10, <1>12, <1>17, <1>18, <1>19, Zenon DEF ChatFollows
  <2>2. protocol # "anthropic" BY <1>2
  <2>3. Cardinality(Places(c, "text_delta")) = said'.text BY <1>12, <1>13, <1>14, <1>15, Zenon
  <2> QED BY <1>15, <2>1, <2>2, <2>3, Zenon DEF FollowsSaid
<1>21. Kept(c, d, said', protocol, FALSE) BY <1>10, <1>15, <1>20, StillOpen
<1>22. DecoderInv /\ Pulling /\ protocol = "openai" /\ d \in ChatDecoders
       /\ Handle(d, x \o tools \o u) /\ said' \in SaidRecords
  BY <1>1, <1>2, <1>10, <1>12, Zenon DEF d
<1> QED BY <1>16, <1>21, <1>22, FrameKeeps

\* The empty answer.
LEMMA NothingDecoded ==
  /\ <<>> \in Seq(EventSet) /\ WellFormed(<<>>) /\ NoFinal(<<>>)
  /\ Cardinality(Places(<<>>, "text_delta")) = 0 /\ Places(<<>>, "tool_call") = {}
<1>1. DOMAIN <<>> = {} OBVIOUS
<1>2. Places(<<>>, "text_delta") = {} /\ Places(<<>>, "tool_call") = {} BY <1>1 DEF Places
<1>3. WellFormed(<<>>) /\ NoFinal(<<>>) BY <1>1, <1>2 DEF WellFormed, NoFinal
<1> QED BY <1>2, <1>3, FS_EmptySet

\* Before the first frame nothing was said and nothing was decoded.
LEMMA InitDecoding == StreamsInit => DecoderInv
<1> SUFFICES ASSUME StreamsInit PROVE DecoderInv OBVIOUS
<1>s. /\ Silence \in SaidRecords /\ Silence.text = 0 /\ Silence.calls = <<>> /\ Silence.reason = None
      /\ DOMAIN Silence.calls = {}
  <2>1. <<>> \in Seq(CallRecords) /\ None \in Reasons BY DEF Reasons
  <2> QED BY <2>1 DEF Silence, SaidRecords
<1>e. <<>> \in Seq(EventSet) /\ <<>> \o <<>> = <<>> OBVIOUS
<1>1. CASE NoFrames
  <2>1. /\ protocol = "none" /\ batch = <<>> /\ answer = <<Failure("aborted")>>
        /\ closed = TRUE /\ said = Silence
    BY <1>1 DEF NoFrames
  <2>2. Failure("aborted") \in EventSet /\ "aborted" \in Codes BY EventFields DEF Codes
  <2>3. answer \in Seq(EventSet) /\ answer = Append(<<>>, Failure("aborted")) BY <2>1, <2>2
  <2>4. WellFormed(answer) /\ EndsWith(answer, {"completed", "error"}) /\ ~EndsWith(answer, {"completed"})
    BY <2>2, <2>3, NothingDecoded, FailureAppended
  <2>5. Out = answer BY <2>1, <2>3, NoMore DEF Out
  <2>6. DecoderTypes BY <1>s, <1>e, <2>1, <2>3, Zenon DEF DecoderTypes
  <2>7. Kept(answer, dec, said, protocol, closed) BY <2>1, <2>4, OverNow
  <2> QED BY <2>1, <2>5, <2>6, <2>7, Zenon DEF DecoderInv
<1> DEFINE none == [i \in {} |-> None]
<1>m. DOMAIN none = {} /\ none \in BlockMaps /\ none \in CallMaps
  <2>1. DOMAIN none = {} /\ none \in [{} -> Blocks] /\ none \in [{} -> CallRecords] OBVIOUS
  <2> HIDE DEF none
  <2>2. {} \subseteq Indexes OBVIOUS
  <2> QED BY <2>1, <2>2, BlockMapBuilt, CallMapBuilt
<1>2. CASE AnthropicInit
  <2>1. /\ protocol = "anthropic" /\ dec = Decoder /\ batch = <<>> /\ answer = <<>>
        /\ closed = FALSE /\ said = Silence
    BY <1>2 DEF AnthropicInit, DecodeInit
  <2> HIDE DEF none
  <2>2. /\ Decoder \in AnthropicDecoders /\ ~Decoder.terminal /\ Decoder.reason = None
        /\ Decoder.blocks = none /\ Decoder.pending = <<>> /\ Decoder.ids = {}
    <3>1. Decoder = [started |-> FALSE, terminal |-> FALSE, reason |-> None,
                     input |-> FALSE, output |-> FALSE, blocks |-> none, ids |-> {}, pending |-> <<>>]
      BY DEF Decoder, none
    <3>2. None \in Reasons /\ none \in BlockMaps /\ {} \in SUBSET Ids /\ <<>> \in Seq(CallRecords)
      BY <1>m DEF Reasons
    <3> QED BY <3>1, <3>2 DEF AnthropicDecoders
  <2>3. Follows(none, <<>>, {}, Silence.calls)
    <3>1. DOMAIN <<>> = {} OBVIOUS
    <3> QED BY <1>m, <1>s, <3>1, Zenon DEF Follows
  <2>4. AnthropicFollows(<<>>, dec, said)
    <3>1. DOMAIN <<>> = {} OBVIOUS
    <3> QED BY <1>s, <2>1, <2>2, <2>3, <3>1, Zenon DEF AnthropicFollows
  <2>5. FollowsSaid(<<>>, dec, said, protocol)
    <3>1. protocol # "openai" BY <2>1
    <3> QED BY <1>s, <2>1, <2>4, <3>1, NothingDecoded, Zenon DEF FollowsSaid
  <2>6. Kept(<<>>, dec, said, protocol, closed)
    <3>1. ~dec.terminal /\ ~closed BY <2>1, <2>2
    <3> QED BY <2>5, <3>1, NothingDecoded, StillOpen
  <2>7. Out = <<>> BY <1>e, <2>1, Zenon DEF Out
  <2>8. DecoderTypes BY <1>s, <1>e, <2>1, <2>2, Zenon DEF DecoderTypes
  <2> QED BY <2>1, <2>6, <2>7, <2>8, Zenon DEF DecoderInv
<1>3. CASE ChatInit
  <2>1. /\ protocol = "openai" /\ dec = ChatDecoder /\ batch = <<>> /\ answer = <<>>
        /\ closed = FALSE /\ said = Silence
    BY <1>3 DEF ChatInit, DecodeInit
  <2> HIDE DEF none
  <2>2. /\ ChatDecoder \in ChatDecoders /\ ~ChatDecoder.terminal /\ ChatDecoder.finish = None
        /\ ChatDecoder.calls = none /\ ~ChatDecoder.emitted
    <3>1. ChatDecoder = [terminal |-> FALSE, finish |-> None, emitted |-> FALSE, calls |-> none]
      BY DEF ChatDecoder, none
    <3>2. None \in Reasons /\ none \in CallMaps BY <1>m DEF Reasons
    <3> QED BY <3>1, <3>2 DEF ChatDecoders
  <2>3. Mirrors(none, Silence.calls) BY <1>m, <1>s, Zenon DEF Mirrors
  <2>4. ChatFollows(<<>>, dec, said)
    <3>1. None # "tool_calls" /\ None # "stop" BY DecodingAssumption
    <3>2. None \in {None, "stop", "tool_calls"} OBVIOUS
    <3> QED BY <1>s, <2>1, <2>2, <2>3, <3>1, <3>2, NothingDecoded, Zenon DEF ChatFollows
  <2>5. FollowsSaid(<<>>, dec, said, protocol)
    <3>1. protocol # "anthropic" BY <2>1
    <3> QED BY <1>s, <2>1, <2>4, <3>1, NothingDecoded, Zenon DEF FollowsSaid
  <2>6. Kept(<<>>, dec, said, protocol, closed)
    <3>1. ~dec.terminal /\ ~closed BY <2>1, <2>2
    <3> QED BY <2>5, <3>1, NothingDecoded, StillOpen
  <2>7. Out = <<>> BY <1>e, <2>1, Zenon DEF Out
  <2>8. DecoderTypes BY <1>s, <1>e, <2>1, <2>2, Zenon DEF DecoderTypes
  <2> QED BY <2>1, <2>6, <2>7, <2>8, Zenon DEF DecoderInv
<1> QED BY <1>1, <1>2, <1>3 DEF StreamsInit

\* The other parsers do not touch the decoder.
LEMMA RestDecoding == DecoderInv /\ UNCHANGED decodeVars => DecoderInv'
<1> SUFFICES ASSUME DecoderInv, UNCHANGED decodeVars PROVE DecoderInv' OBVIOUS
<1>1. UNCHANGED <<protocol, dec, batch, answer, closed, said>> BY DEF decodeVars
<1>2. Out' = Out BY <1>1, Zenon DEF Out
<1>3. DecoderTypes' BY <1>1, Zenon DEF DecoderInv, DecoderTypes
<1>4. Kept(Out', dec', said', protocol', closed') BY <1>1, <1>2, Zenon DEF DecoderInv
<1> QED BY <1>1, <1>3, <1>4, Zenon DEF DecoderInv

\* Every step of the streams keeps the invariant.
LEMMA NextDecoding ==
  DecoderInv /\ [StreamsNext]_<<parser, vars, decodeVars, lineVars>> => DecoderInv'
<1> SUFFICES ASSUME DecoderInv, StreamsNext \/ UNCHANGED decodeVars PROVE DecoderInv'
  OBVIOUS
<1>1. CASE UNCHANGED decodeVars BY <1>1, RestDecoding
<1>2. CASE DecodeNext
  BY <1>2, BadFrameKeeps, YieldKeeps, CloseKeeps, CancelledKeeps, ErrorFrameKeeps DEF DecodeNext
<1>3. CASE AnthropicFrame
  BY <1>3, MessageStartKeeps, TextStartKeeps, TextDeltaKeeps, InputDeltaKeeps, BlockStopKeeps,
     ToolStartKeeps, MessageDeltaKeeps, MessageStopKeeps
  DEF AnthropicFrame
<1>4. CASE ChatFrame BY <1>4, ChunkKeeps, DoneKeeps DEF ChatFrame
<1> QED BY <1>1, <1>2, <1>3, <1>4, Zenon DEF StreamsNext, DecoderNext

\* The invariant says of the part that was yielded what the agent loop relies on.
LEMMA DecodingIsSound == DecoderInv => AnswerSound
<1> SUFFICES ASSUME DecoderInv PROVE AnswerSound OBVIOUS
<1>1. /\ answer \in Seq(EventSet) /\ batch \in Seq(EventSet)
      /\ Kept(answer \o batch, dec, said, protocol, closed)
      /\ closed => batch = <<>>
  BY Zenon DEF DecoderInv, DecoderTypes, Out
<1>2. /\ \A i \in DOMAIN answer : Final(answer[i]) => i = Len(answer) /\ batch = <<>>
      /\ \A i \in Places(answer, "tool_call"), j \in Places(answer, "text_delta") : j < i
      /\ \A i, j \in Places(answer, "tool_call") : answer[i].id = answer[j].id => i = j
  <2>1. WellFormed(answer \o batch) BY <1>1, Zenon DEF Kept
  <2> QED BY <1>1, <2>1, Beginning
<1>3. batch = <<>> => Kept(answer, dec, said, protocol, closed) BY <1>1, NoMore
<1>4. \A type : At(type) = Places(answer, type) BY Zenon DEF At, Places
<1>5. closed => answer # <<>> /\ Final(Last(answer))
  <2> SUFFICES ASSUME closed PROVE answer # <<>> /\ Final(Last(answer)) OBVIOUS
  <2>1. EndsWith(answer, {"completed", "error"}) BY <1>1, <1>3, Zenon DEF Kept
  <2> QED BY <2>1 DEF EndsWith, Final, Last
<1>6. AnswerWellFormed BY <1>2, <1>4, <1>5, Zenon DEF AnswerWellFormed
<1>7. CompletedIsWhole
  <2> SUFFICES ASSUME answer # <<>>, Last(answer).type = "completed"
               PROVE  /\ Cardinality(At("text_delta")) = said.text
                      /\ {answer[i] : i \in At("tool_call")} = {ToolCall(said.calls[k]) : k \in DOMAIN said.calls}
                      /\ \A k, l \in DOMAIN said.calls : said.calls[k].id = said.calls[l].id => k = l
                      /\ \A i, j \in At("tool_call"), k, l \in DOMAIN said.calls :
                           i < j /\ said.calls[k].id = answer[i].id /\ said.calls[l].id = answer[j].id
                             => said.calls[k].index <= said.calls[l].index
                      /\ said.reason \in {"end_turn", "tool_use", "stop", "tool_calls"}
    BY Zenon DEF CompletedIsWhole
  <2>1. Len(answer) \in DOMAIN answer /\ Last(answer) = answer[Len(answer)] BY <1>1 DEF Last
  <2>2. batch = <<>> BY <1>2, <2>1 DEF Final
  <2>3. EndsWith(answer, {"completed"}) BY <2>1 DEF EndsWith
  <2>4. WholeOf(answer, said) BY <1>3, <2>2, <2>3, Zenon DEF Kept
  <2> QED BY <1>4, <2>4, Zenon DEF WholeOf, Announces
<1> QED BY <1>6, <1>7 DEF AnswerSound

\* Whatever a provider sends, however its body ends and whenever the turn is
\* aborted, the answer has one final event and it is the last one, no text follows
\* a tool call and no call is announced twice; and a completed answer is the whole
\* of what the provider sent, in the order of the indexes (decodeFrameStream,
\* the two decoders' handlers and emitToolCalls).
THEOREM AnswersAreSound == StreamsSpec => []AnswerSound
<1>1. DecoderInv => AnswerSound BY DecodingIsSound
<1> QED BY InitDecoding, NextDecoding, <1>1, PTL DEF StreamsSpec

(***************************************************************************)
(* The lines of a turn's response.  Some of the body, up to the end of a   *)
(* line, is read and yielded, and what follows is buffered; a chunk that   *)
(* is added at the end changes no line of what was read.                   *)
(***************************************************************************)
\* The lines that start up to p.
Upto(bytes, p) == {b \in Lines(bytes) : b <= p}

\* These events are the lines of the first p bytes, which end with a line.
ReadUpTo(bytes, events, p) ==
  /\ p \in 0 .. Len(bytes) /\ (p > 0 => bytes[p] = "LF")
  /\ Len(events) = Cardinality(Upto(bytes, p))
  /\ \A b \in Upto(bytes, p) : events[Cardinality(Upto(bytes, b))] = bytes[b]

\* What is buffered are the bytes behind the first p.
RestOf(bytes, rest, p) ==
  /\ Len(rest) = Len(bytes) - p
  /\ \A i \in DOMAIN rest : rest[i] = bytes[p + i]

Yields == {"d", "t"}

\* The events that were yielded are the lines up to some place, and while the
\* parser reads, or has read everything, what follows is buffered.
Reads(bytes, rest, events, outcome) ==
  \E p \in Nat : /\ ReadUpTo(bytes, events, p)
                 /\ outcome \in {"reading", "ended"} => RestOf(bytes, rest, p)

TooLarge(bytes) == Len(bytes) > MaxTotal \/ LineTooLong(bytes) \/ HasLongLine(bytes)

LineTypes == /\ sent \in Seq(NdjsonBytes) /\ buffer \in Seq(NdjsonBytes)
             /\ yielded \in Seq(Yields) /\ terminated \in BOOLEAN

TerminalLast == /\ \A i \in DOMAIN yielded : yielded[i] = "t" => i = Len(yielded)
                /\ terminated <=> yielded # <<>> /\ Last(yielded) = "t"

\* The inductive invariant of parseNDJSONStream.
LineInv ==
  /\ LineTypes /\ TerminalLast
  /\ Reads(sent, buffer, yielded, verdict)
  /\ verdict = "ended" /\ sent # <<>> => terminated /\ buffer = <<>>
  /\ verdict = "too_large" => TooLarge(sent)

\* Bytes are numbered from one.
LEMMA ByteFields ==
  ASSUME NEW bytes \in Seq(NdjsonBytes)
  PROVE  DOMAIN bytes = 1 .. Len(bytes) /\ Len(bytes) \in Nat
OBVIOUS

\* The lines of a body can be counted.
LEMMA LinesUpTo ==
  ASSUME NEW bytes \in Seq(NdjsonBytes), NEW p \in Nat
  PROVE  /\ Upto(bytes, p) \subseteq 1 .. Len(bytes)
         /\ IsFiniteSet(Upto(bytes, p)) /\ Cardinality(Upto(bytes, p)) \in Nat
         /\ IsFiniteSet(Lines(bytes)) /\ Cardinality(Lines(bytes)) \in Nat
<1>1. Lines(bytes) \subseteq 1 .. Len(bytes) BY ByteFields DEF Lines
<1>2. Upto(bytes, p) \subseteq Lines(bytes) BY DEF Upto
<1>3. IsFiniteSet(1 .. Len(bytes)) BY FS_Interval, ByteFields
<1>4. IsFiniteSet(Lines(bytes)) /\ IsFiniteSet(Upto(bytes, p)) BY <1>1, <1>2, <1>3, FS_Subset, Zenon
<1> QED BY <1>1, <1>2, <1>4, FS_CardinalityType, Zenon

\* Where the bytes are when a chunk is added.
LEMMA Joined ==
  ASSUME NEW bytes \in Seq(NdjsonBytes), NEW added \in Seq(NdjsonBytes), NEW longer, longer = bytes \o added
  PROVE  /\ longer \in Seq(NdjsonBytes) /\ Len(longer) = Len(bytes) + Len(added)
         /\ \A i \in 1 .. Len(bytes) : longer[i] = bytes[i]
         /\ \A i \in 1 .. Len(added) : longer[Len(bytes) + i] = added[i]
OBVIOUS

\* More bytes leave the lines that were read as they are.
LEMMA SameLines ==
  ASSUME NEW bytes \in Seq(NdjsonBytes), NEW longer \in Seq(NdjsonBytes), Len(bytes) <= Len(longer),
         \A i \in 1 .. Len(bytes) : longer[i] = bytes[i],
         NEW p \in 1 .. Len(bytes), bytes[p] = "LF", NEW b \in Nat, b <= p
  PROVE  Upto(longer, b) = Upto(bytes, b)
<1>d. /\ DOMAIN bytes = 1 .. Len(bytes) /\ Len(bytes) \in Nat
      /\ DOMAIN longer = 1 .. Len(longer) /\ Len(longer) \in Nat
  BY ByteFields
<1>1. ASSUME NEW c \in Nat \ {0}, c <= b PROVE c \in Lines(longer) <=> c \in Lines(bytes)
  <2>1. CASE c = p
    <3>1. longer[c] = "LF" /\ bytes[c] = "LF" BY <2>1
    <3> QED BY <3>1 DEF Lines
  <2>2. CASE c # p
    <3>1. c < p BY <1>1, <2>2
    <3>2. /\ c \in DOMAIN bytes /\ c \in DOMAIN longer
          /\ longer[c] = bytes[c] /\ longer[c + 1] = bytes[c + 1]
      BY <1>d, <1>1, <3>1
    <3>3. Begins(longer, c) <=> Begins(bytes, c)
      <4>1. c > 1 => c - 1 \in 1 .. Len(bytes) BY <1>1, <3>1
      <4> QED BY <4>1 DEF Begins
    <3>4. p \in LineFeeds(bytes) /\ p \in LineFeeds(longer) BY <1>d DEF LineFeeds
    <3> QED BY <3>1, <3>2, <3>3, <3>4 DEF Lines
  <2> QED BY <2>1, <2>2
<1>2. \A c \in Lines(longer) \cup Lines(bytes) : c \in Nat \ {0} BY <1>d DEF Lines
<1> QED BY <1>1, <1>2 DEF Upto

\* What was read stays read when a chunk is added.
LEMMA MoreBytes ==
  ASSUME NEW bytes \in Seq(NdjsonBytes), NEW longer \in Seq(NdjsonBytes), Len(bytes) <= Len(longer),
         \A i \in 1 .. Len(bytes) : longer[i] = bytes[i],
         NEW events, NEW p \in Nat, ReadUpTo(bytes, events, p)
  PROVE  ReadUpTo(longer, events, p)
<1>1. Len(bytes) \in Nat /\ Len(longer) \in Nat OBVIOUS
<1>2. p \in 0 .. Len(bytes) /\ (p > 0 => bytes[p] = "LF") BY Zenon DEF ReadUpTo
<1>3. \A b \in Nat : b <= p => Upto(longer, b) = Upto(bytes, b)
  <2>1. CASE p = 0
    <3>1. \A b \in Lines(bytes) \cup Lines(longer) : b \in Nat /\ b > 0 BY ByteFields DEF Lines
    <3> QED BY <2>1, <3>1 DEF Upto
  <2>2. CASE p # 0
    <3>1. p \in 1 .. Len(bytes) /\ bytes[p] = "LF" BY <1>1, <1>2, <2>2
    <3> QED BY <3>1, SameLines
  <2> QED BY <2>1, <2>2
<1>4. Upto(longer, p) = Upto(bytes, p) BY <1>3
<1>5. p \in 0 .. Len(longer) /\ (p > 0 => longer[p] = "LF") BY <1>1, <1>2
<1>6. ASSUME NEW b \in Upto(bytes, p)
      PROVE  Upto(longer, b) = Upto(bytes, b) /\ longer[b] = bytes[b]
  <2>1. b \in 1 .. Len(bytes) BY LinesUpTo
  <2>2. b <= p BY DEF Upto
  <2> QED BY <1>1, <1>3, <2>1, <2>2
<1>7. /\ Len(events) = Cardinality(Upto(bytes, p))
      /\ \A b \in Upto(bytes, p) : events[Cardinality(Upto(bytes, b))] = bytes[b]
  BY Zenon DEF ReadUpTo
<1>8. \A b \in Upto(longer, p) : events[Cardinality(Upto(longer, b))] = longer[b]
  BY <1>4, <1>6, <1>7, Zenon
<1> QED BY <1>4, <1>5, <1>7, <1>8, Zenon DEF ReadUpTo

\* The first line of the buffer, without its end.
NextText(rest, feed) == NoCr(SubSeq(rest, 1, feed - 1))

\* It is empty.
NoLine(rest, feed) == feed = 1 \/ (feed = 2 /\ rest[1] = "CR")

\* When the first line is empty, and how it starts.
LEMMA NextTextIs ==
  ASSUME NEW rest \in Seq(NdjsonBytes), NEW feed \in LineFeeds(rest)
  PROVE  /\ NextText(rest, feed) = <<>> <=> NoLine(rest, feed)
         /\ NextText(rest, feed) # <<>> => NextText(rest, feed)[1] = rest[1]
<1> DEFINE cut == SubSeq(rest, 1, feed - 1)
<1>1. feed \in 1 .. Len(rest) /\ Len(rest) \in Nat BY ByteFields DEF LineFeeds
<1>2. /\ cut \in Seq(NdjsonBytes) /\ Len(cut) = feed - 1
      /\ \A i \in 1 .. feed - 1 : cut[i] = rest[i]
  BY <1>1
<1> HIDE DEF cut
<1>3. NextText(rest, feed) = NoCr(cut) BY DEF NextText, cut
<1>4. CASE cut # <<>> /\ Last(cut) = "CR"
  <2>1. NoCr(cut) = SubSeq(cut, 1, Len(cut) - 1) BY <1>4 DEF NoCr, Front
  <2>2. feed > 1 /\ Len(cut) = feed - 1 /\ cut[feed - 1] = "CR" BY <1>1, <1>2, <1>4 DEF Last
  <2>3. /\ Len(NoCr(cut)) = feed - 2 /\ NoCr(cut) \in Seq(NdjsonBytes)
        /\ feed > 2 => NoCr(cut)[1] = cut[1]
    BY <1>1, <1>2, <2>1, <2>2
  <2>4. NoCr(cut) = <<>> <=> feed = 2 BY <1>1, <2>2, <2>3
  <2>5. cut[1] = rest[1] BY <1>1, <1>2, <2>2
  <2> QED BY <1>1, <1>3, <2>2, <2>3, <2>4, <2>5 DEF NoLine
<1>5. CASE ~(cut # <<>> /\ Last(cut) = "CR")
  <2>1. NoCr(cut) = cut BY <1>5 DEF NoCr
  <2>2. cut = <<>> <=> feed = 1 BY <1>1, <1>2
  <2>3. feed # 1 => cut[1] = rest[1] BY <1>1, <1>2
  <2>4. feed = 2 => cut[1] # "CR" BY <1>2, <1>5, <2>2 DEF Last
  <2> QED BY <1>3, <2>1, <2>2, <2>3, <2>4 DEF NoLine
<1> QED BY <1>4, <1>5

\* What the parser takes next: p bytes were read, the line ends at feed in the rest.
NextLine(bytes, rest, p, feed) ==
  /\ p \in 0 .. Len(bytes) /\ (p > 0 => bytes[p] = "LF")
  /\ RestOf(bytes, rest, p)
  /\ feed \in LineFeeds(rest) /\ OneLine(rest, 1, feed - 1)

\* The next line of the buffer in the body.
LEMMA NextLineIs ==
  ASSUME NEW bytes \in Seq(NdjsonBytes), NEW rest \in Seq(NdjsonBytes), NEW p, NEW feed,
         NextLine(bytes, rest, p, feed)
  PROVE  /\ p \in Nat /\ feed \in 1 .. Len(rest) /\ p + feed \in 1 .. Len(bytes)
         /\ bytes[p + feed] = "LF"
         /\ \A i \in 1 .. feed : bytes[p + i] = rest[i]
         /\ OneLine(bytes, p + 1, p + feed - 1)
         /\ Begins(bytes, p + 1)
<1>1. /\ DOMAIN rest = 1 .. Len(rest) /\ Len(rest) \in Nat
      /\ DOMAIN bytes = 1 .. Len(bytes) /\ Len(bytes) \in Nat
  BY ByteFields
<1>2. p \in Nat /\ p <= Len(bytes) BY <1>1 DEF NextLine
<1>3. Len(rest) = Len(bytes) - p /\ \A i \in 1 .. Len(rest) : rest[i] = bytes[p + i]
  BY <1>1 DEF NextLine, RestOf
<1>4. feed \in 1 .. Len(rest) /\ rest[feed] = "LF" BY <1>1 DEF NextLine, LineFeeds
<1>5. \A i \in 1 .. feed - 1 : rest[i] # "LF" BY DEF NextLine, OneLine
<1>6. OneLine(bytes, p + 1, p + feed - 1)
  <2> SUFFICES ASSUME NEW i \in p + 1 .. p + feed - 1 PROVE bytes[i] # "LF" BY DEF OneLine
  <2>1. i - p \in 1 .. feed - 1 /\ i - p \in 1 .. Len(rest) /\ p + (i - p) = i BY <1>1, <1>2, <1>4
  <2> QED BY <1>3, <1>5, <2>1
<1>7. Begins(bytes, p + 1) BY <1>2 DEF NextLine, Begins
<1> QED BY <1>1, <1>2, <1>3, <1>4, <1>6, <1>7

\* The next line is the only one that is read with it.
LEMMA LineRead ==
  ASSUME NEW bytes \in Seq(NdjsonBytes), NEW rest \in Seq(NdjsonBytes), NEW p, NEW feed,
         NextLine(bytes, rest, p, feed)
  PROVE  /\ Upto(bytes, p + feed) = Upto(bytes, p) \cup (IF NoLine(rest, feed) THEN {} ELSE {p + 1})
         /\ p + 1 \notin Upto(bytes, p)
         /\ ~NoLine(rest, feed) => Upto(bytes, p + 1) = Upto(bytes, p) \cup {p + 1}
<1>1. /\ p \in Nat /\ feed \in 1 .. Len(rest) /\ p + feed \in 1 .. Len(bytes)
      /\ bytes[p + feed] = "LF"
      /\ \A i \in 1 .. feed : bytes[p + i] = rest[i]
      /\ OneLine(bytes, p + 1, p + feed - 1)
      /\ Begins(bytes, p + 1)
  BY NextLineIs
<1>2. DOMAIN bytes = 1 .. Len(bytes) /\ Len(bytes) \in Nat BY ByteFields
<1>n. feed \in Nat /\ feed > 0 /\ p + feed <= Len(bytes)
  <2>1. Len(rest) \in Nat BY ByteFields
  <2> QED BY <1>1, <1>2, <2>1
<1>3. \A c \in Lines(bytes) : c \in Nat /\ c > 0 BY <1>2 DEF Lines
<1>4. ASSUME NEW c \in Lines(bytes), c > p, c <= p + feed PROVE c = p + 1 /\ ~NoLine(rest, feed)
  <2>1. bytes[c] # "LF" /\ (c > 1 => bytes[c - 1] = "LF") BY DEF Lines, Begins
  <2>2. c # p + feed BY <1>1, <2>1
  <2>3. c - 1 \notin p + 1 .. p + feed - 1 \/ c = 1 BY <1>1, <1>3, <2>1, <1>4 DEF OneLine
  <2>4. c = p + 1 BY <1>1, <1>n, <1>3, <1>4, <2>2, <2>3
  <2>5. ~(bytes[c] = "CR" /\ bytes[c + 1] = "LF") BY DEF Lines
  <2>6. ~NoLine(rest, feed)
    <3>1. feed # 1 BY <2>2, <2>4
    <3>2. feed = 2 => rest[1] = bytes[p + 1] /\ bytes[c + 1] = "LF" BY <1>1, <2>4
    <3> QED BY <2>4, <2>5, <3>1, <3>2 DEF NoLine
  <2> QED BY <2>4, <2>6
<1>5. ASSUME ~NoLine(rest, feed) PROVE p + 1 \in Lines(bytes)
  <2>1. feed > 1 BY <1>5, <1>n DEF NoLine
  <2>2. p + 1 \in DOMAIN bytes /\ p + feed \in LineFeeds(bytes) /\ p + 1 < p + feed
    BY <1>1, <1>2, <1>n, <2>1 DEF LineFeeds
  <2>3. bytes[p + 1] # "LF" BY <1>1, <1>n, <2>1 DEF OneLine
  <2>4. ~(bytes[p + 1] = "CR" /\ bytes[p + 1 + 1] = "LF")
    <3>1. CASE feed = 2 
      <4>1. bytes[p + 1] = rest[1] BY <1>1, <1>n, <3>1
      <4> QED BY <1>5, <3>1, <4>1 DEF NoLine
    <3>2. CASE feed # 2
      <4>1. p + 1 + 1 \in p + 1 .. p + feed - 1 BY <1>1, <1>n, <2>1, <3>2
      <4> QED BY <1>1, <4>1 DEF OneLine
    <3> QED BY <3>1, <3>2
  <2> QED BY <1>1, <2>2, <2>3, <2>4 DEF Lines
<1>6. \A q \in Nat : q <= p => q # p + 1 /\ q <= p + feed /\ q <= p + 1 BY <1>1, <1>n
<1>7. p + 1 <= p + feed BY <1>1, <1>n
<1>8. \A c \in Nat : c <= p + 1 => c <= p \/ c = p + 1 BY <1>1
<1>9. p + 1 \notin Upto(bytes, p) BY <1>1 DEF Upto
<1>10. Upto(bytes, p + feed) = Upto(bytes, p) \cup (IF NoLine(rest, feed) THEN {} ELSE {p + 1})
  <2>1. ASSUME NEW c \in Upto(bytes, p + feed), c \notin Upto(bytes, p)
        PROVE  c \in (IF NoLine(rest, feed) THEN {} ELSE {p + 1})
    <3>1. c \in Lines(bytes) /\ c > p /\ c <= p + feed BY <1>1, <1>3, <2>1 DEF Upto
    <3> QED BY <1>4, <3>1
  <2>2. Upto(bytes, p) \subseteq Upto(bytes, p + feed) BY <1>3, <1>6 DEF Upto
  <2>3. ~NoLine(rest, feed) => p + 1 \in Upto(bytes, p + feed) BY <1>5, <1>7 DEF Upto
  <2> QED BY <2>1, <2>2, <2>3
<1>11. ~NoLine(rest, feed) => Upto(bytes, p + 1) = Upto(bytes, p) \cup {p + 1}
  BY <1>1, <1>3, <1>5, <1>6, <1>8 DEF Upto
<1> QED BY <1>9, <1>10, <1>11

\* new is what follows the first bytes, up to feed.
IsTail(new, rest, feed) ==
  /\ new \in Seq(NdjsonBytes) /\ Len(new) = Len(rest) - feed
  /\ \A i \in 1 .. Len(rest) - feed : new[i] = rest[feed + i]

\* What stays in the buffer behind a line.
LEMMA TailIs ==
  ASSUME NEW rest \in Seq(NdjsonBytes), NEW feed \in 1 .. Len(rest)
  PROVE  IsTail(SubSeq(rest, feed + 1, Len(rest)), rest, feed)
<1>1. Len(rest) \in Nat /\ DOMAIN rest = 1 .. Len(rest) BY ByteFields
<1>2. feed \in Nat /\ feed + 1 \in Int /\ Len(rest) \in Int /\ feed <= Len(rest) BY <1>1
<1>3. \A i \in feed + 1 .. Len(rest) : rest[i] \in NdjsonBytes BY <1>1, <1>2
<1> DEFINE s == SubSeq(rest, feed + 1, Len(rest))
<1>4. /\ s \in Seq(NdjsonBytes)
      /\ Len(s) = IF feed + 1 <= Len(rest) THEN Len(rest) - (feed + 1) + 1 ELSE 0
      /\ \A i \in 1 .. Len(rest) - (feed + 1) + 1 : s[i] = rest[feed + 1 + i - 1]
  BY <1>2, <1>3, SubSeqProperties
<1> HIDE DEF s
<1>5. Len(rest) - (feed + 1) + 1 = Len(rest) - feed BY <1>2
<1>6. Len(s) = Len(rest) - feed BY <1>2, <1>4, SMTT(30)
<1>7. ASSUME NEW i \in 1 .. Len(rest) - feed PROVE s[i] = rest[feed + i]
  <2>1. feed + 1 + i - 1 = feed + i BY <1>2
  <2> QED BY <1>4, <1>5, <2>1
<1> QED BY <1>4, <1>6, <1>7 DEF IsTail, s

\* The bytes behind a line are what is left.
LEMMA RestGoesOn ==
  ASSUME NEW bytes \in Seq(NdjsonBytes), NEW rest \in Seq(NdjsonBytes), NEW p, NEW feed,
         NextLine(bytes, rest, p, feed), NEW new, IsTail(new, rest, feed)
  PROVE  new \in Seq(NdjsonBytes) /\ RestOf(bytes, new, p + feed)
<1>1. p \in Nat /\ feed \in 1 .. Len(rest) BY NextLineIs
<1>2. Len(rest) \in Nat /\ DOMAIN rest = 1 .. Len(rest) /\ Len(bytes) \in Nat BY ByteFields
<1>3. Len(rest) = Len(bytes) - p /\ \A i \in 1 .. Len(rest) : rest[i] = bytes[p + i]
  BY <1>2 DEF NextLine, RestOf
<1>4. /\ new \in Seq(NdjsonBytes) /\ Len(new) = Len(rest) - feed
      /\ \A i \in 1 .. Len(rest) - feed : new[i] = rest[feed + i]
  BY DEF IsTail
<1>5. Len(new) = Len(bytes) - (p + feed) BY <1>1, <1>2, <1>3, <1>4
<1>6. ASSUME NEW i \in DOMAIN new PROVE new[i] = bytes[p + feed + i]
  <2>1. i \in 1 .. Len(rest) - feed BY <1>4
  <2>2. feed + i \in 1 .. Len(rest) /\ p + (feed + i) = p + feed + i BY <1>1, <1>2, <2>1
  <2> QED BY <1>3, <1>4, <2>1, <2>2
<1> QED BY <1>4, <1>5, <1>6 DEF RestOf

\* A line that is too long in the buffer is one of the body.
LEMMA LongLine ==
  ASSUME NEW bytes \in Seq(NdjsonBytes), NEW rest \in Seq(NdjsonBytes), NEW p, NEW feed,
         NextLine(bytes, rest, p, feed), Len(NextText(rest, feed)) > MaxLine
  PROVE  HasLongLine(bytes)
<1>1. /\ p \in Nat /\ feed \in 1 .. Len(rest) /\ p + feed \in 1 .. Len(bytes)
      /\ bytes[p + feed] = "LF"
      /\ \A i \in 1 .. feed : bytes[p + i] = rest[i]
      /\ OneLine(bytes, p + 1, p + feed - 1)
      /\ Begins(bytes, p + 1)
  BY NextLineIs
<1>2. /\ Len(rest) \in Nat /\ DOMAIN rest = 1 .. Len(rest)
      /\ Len(bytes) \in Nat /\ DOMAIN bytes = 1 .. Len(bytes)
  BY ByteFields
<1>n. feed \in Nat /\ feed > 0 /\ p + feed <= Len(bytes) /\ feed <= Len(rest) BY <1>1, <1>2
<1>3. SubSeq(bytes, p + 1, p + feed - 1) = SubSeq(rest, 1, feed - 1)
  <2> DEFINE l == SubSeq(bytes, p + 1, p + feed - 1)
             m == SubSeq(rest, 1, feed - 1)
  <2>1. /\ l \in Seq(NdjsonBytes) /\ Len(l) = feed - 1
        /\ \A i \in 1 .. feed - 1 : l[i] = bytes[p + i]
    BY <1>1, <1>n, <1>2
  <2>2. /\ m \in Seq(NdjsonBytes) /\ Len(m) = feed - 1
        /\ \A i \in 1 .. feed - 1 : m[i] = rest[i]
    BY <1>1, <1>n, <1>2
  <2> HIDE DEF l, m
  <2>3. \A i \in 1 .. feed - 1 : i \in 1 .. feed BY <1>n
  <2>4. \A i \in 1 .. feed - 1 : l[i] = m[i] BY <1>1, <2>1, <2>2, <2>3
  <2>5. l = m BY <1>n, <2>1, <2>2, <2>4
  <2> QED BY <2>5 DEF l, m
<1>4. p + feed \in LineFeeds(bytes) /\ p + 1 \in DOMAIN bytes BY <1>1, <1>2, <1>n DEF LineFeeds
<1>5. Len(NoCr(SubSeq(bytes, p + 1, p + feed - 1))) > MaxLine BY <1>3 DEF NextText
<1>6. \E e \in LineFeeds(bytes), b \in DOMAIN bytes :
         /\ Begins(bytes, b) /\ OneLine(bytes, b, e - 1)
         /\ Len(NoCr(SubSeq(bytes, b, e - 1))) > MaxLine
  <2> USE <1>4
  <2> WITNESS p + feed \in LineFeeds(bytes), p + 1 \in DOMAIN bytes
  <2> QED BY <1>1, <1>5
<1> QED BY <1>6, Zenon DEF HasLongLine

\* The unfinished line of the buffer is that of the body.
LEMMA LongRest ==
  ASSUME NEW bytes \in Seq(NdjsonBytes), NEW rest \in Seq(NdjsonBytes),
         NEW p \in 0 .. Len(bytes), p > 0 => bytes[p] = "LF", RestOf(bytes, rest, p), LineTooLong(rest)
  PROVE  LineTooLong(bytes)
<1>1. PICK b \in DOMAIN rest : /\ Begins(rest, b) /\ OneLine(rest, b, Len(rest))
                               /\ Len(rest) - b + 1 > MaxLine
  BY Zenon DEF LineTooLong
<1>2. /\ Len(rest) \in Nat /\ DOMAIN rest = 1 .. Len(rest)
      /\ Len(bytes) \in Nat /\ DOMAIN bytes = 1 .. Len(bytes)
  BY ByteFields
<1>3. Len(rest) = Len(bytes) - p /\ \A i \in 1 .. Len(rest) : rest[i] = bytes[p + i]
  BY <1>2 DEF RestOf
<1>4. p + b \in DOMAIN bytes BY <1>2, <1>3
<1>5. Len(bytes) - (p + b) + 1 = Len(rest) - b + 1 BY <1>2, <1>3
<1>6. OneLine(bytes, p + b, Len(bytes))
  <2> SUFFICES ASSUME NEW i \in p + b .. Len(bytes) PROVE bytes[i] # "LF" BY DEF OneLine
  <2>1. i - p \in b .. Len(rest) /\ i - p \in 1 .. Len(rest) /\ p + (i - p) = i BY <1>2, <1>3
  <2> QED BY <1>1, <1>3, <2>1 DEF OneLine
<1>7. Begins(bytes, p + b)
  <2>1. CASE b = 1
    <3>1. p + b - 1 = p BY <2>1
    <3> QED BY <1>2, <2>1, <3>1 DEF Begins
  <2>2. CASE b # 1
    <3>1. b - 1 \in 1 .. Len(rest) /\ p + (b - 1) = p + b - 1 /\ b > 1 BY <1>2, <2>2
    <3>2. rest[b - 1] = "LF" BY <1>1, <3>1 DEF Begins
    <3>3. bytes[p + b - 1] = "LF" BY <1>3, <3>1, <3>2
    <3> QED BY <3>3 DEF Begins
  <2> QED BY <2>1, <2>2
<1>8. Len(bytes) - (p + b) + 1 > MaxLine BY <1>1, <1>5
<1> QED BY <1>4, <1>6, <1>7, <1>8, Zenon DEF LineTooLong

\* A chunk is added to the body and to the buffer.
LEMMA RestJoined ==
  ASSUME NEW bytes \in Seq(NdjsonBytes), NEW rest \in Seq(NdjsonBytes), NEW added \in Seq(NdjsonBytes),
         NEW p \in 0 .. Len(bytes), RestOf(bytes, rest, p)
  PROVE  RestOf(bytes \o added, rest \o added, p)
<1> DEFINE l == bytes \o added
           r == rest \o added
<1>1. /\ l \in Seq(NdjsonBytes) /\ Len(l) = Len(bytes) + Len(added)
      /\ \A i \in 1 .. Len(bytes) : l[i] = bytes[i]
      /\ \A i \in 1 .. Len(added) : l[Len(bytes) + i] = added[i]
  BY Joined
<1>2. /\ r \in Seq(NdjsonBytes) /\ Len(r) = Len(rest) + Len(added)
      /\ \A i \in 1 .. Len(rest) : r[i] = rest[i]
      /\ \A i \in 1 .. Len(added) : r[Len(rest) + i] = added[i]
  BY Joined
<1> HIDE DEF l, r
<1>3. /\ Len(rest) \in Nat /\ DOMAIN rest = 1 .. Len(rest)
      /\ Len(bytes) \in Nat /\ Len(added) \in Nat /\ DOMAIN r = 1 .. Len(r)
  BY <1>2, ByteFields
<1>4. Len(rest) = Len(bytes) - p /\ \A i \in 1 .. Len(rest) : rest[i] = bytes[p + i]
  BY <1>3 DEF RestOf
<1>5. Len(r) = Len(l) - p BY <1>1, <1>2, <1>3, <1>4
<1>6. ASSUME NEW i \in 1 .. Len(r) PROVE r[i] = l[p + i]
  <2>1. CASE i <= Len(rest)
    <3>1. i \in 1 .. Len(rest) /\ p + i \in 1 .. Len(bytes) BY <1>3, <1>4, <2>1
    <3> QED BY <1>1, <1>2, <1>4, <3>1
  <2>2. CASE i > Len(rest)
    <3>1. /\ i - Len(rest) \in 1 .. Len(added) /\ Len(rest) + (i - Len(rest)) = i
          /\ Len(bytes) + (i - Len(rest)) = p + i
      BY <1>2, <1>3, <1>4, <2>2
    <3> QED BY <1>1, <1>2, <3>1
  <2> QED BY <1>2, <1>3, <2>1, <2>2
<1>7. RestOf(l, r, p) BY <1>3, <1>5, <1>6 DEF RestOf
<1> QED BY <1>7 DEF l, r

\* A line that was read has its place among them.
LEMMA PlaceOfLine ==
  ASSUME NEW bytes \in Seq(NdjsonBytes), NEW p \in Nat, NEW b \in Upto(bytes, p)
  PROVE  Cardinality(Upto(bytes, b)) \in 1 .. Cardinality(Upto(bytes, p))
<1>1. b \in 1 .. Len(bytes) /\ b \in Nat
  <2>1. b \in 1 .. Len(bytes) BY LinesUpTo
  <2> QED BY <2>1, ByteFields
<1>2. /\ IsFiniteSet(Upto(bytes, b)) /\ Cardinality(Upto(bytes, b)) \in Nat
      /\ IsFiniteSet(Upto(bytes, p)) /\ Cardinality(Upto(bytes, p)) \in Nat
  BY <1>1, LinesUpTo
<1>3. b \in Upto(bytes, b) BY <1>1 DEF Upto
<1>4. Cardinality(Upto(bytes, b)) # 0 BY <1>2, <1>3, FS_EmptySet
<1>5. Upto(bytes, b) \subseteq Upto(bytes, p)
  <2>1. \A c \in Lines(bytes) : c \in Nat BY ByteFields DEF Lines
  <2>2. b <= p BY DEF Upto
  <2>3. \A c \in Lines(bytes) : c <= b => c <= p BY <1>1, <2>1, <2>2
  <2> QED BY <2>3, Zenon DEF Upto
<1>6. Cardinality(Upto(bytes, b)) <= Cardinality(Upto(bytes, p)) BY <1>2, <1>5, FS_Subset
<1> QED BY <1>2, <1>4, <1>6

\* An empty line is read.
LEMMA ReadNothing ==
  ASSUME NEW bytes \in Seq(NdjsonBytes), NEW rest \in Seq(NdjsonBytes), NEW p, NEW feed, NEW events,
         NextLine(bytes, rest, p, feed), NoLine(rest, feed), ReadUpTo(bytes, events, p)
  PROVE  ReadUpTo(bytes, events, p + feed)
<1>1. Upto(bytes, p + feed) = Upto(bytes, p)
  <2>1. Upto(bytes, p + feed) = Upto(bytes, p) \cup (IF NoLine(rest, feed) THEN {} ELSE {p + 1})
    BY LineRead, Zenon
  <2> QED BY <2>1
<1>2. p + feed \in 1 .. Len(bytes) /\ bytes[p + feed] = "LF" BY NextLineIs
<1>3. p + feed \in 0 .. Len(bytes) BY <1>2, ByteFields
<1> QED BY <1>1, <1>2, <1>3, Zenon DEF ReadUpTo

\* An event is read and yielded.
LEMMA ReadEvent ==
  ASSUME NEW bytes \in Seq(NdjsonBytes), NEW rest \in Seq(NdjsonBytes), NEW p, NEW feed,
         NEW events \in Seq(Yields), NextLine(bytes, rest, p, feed), ~NoLine(rest, feed),
         ReadUpTo(bytes, events, p), bytes[p + 1] \in Yields
  PROVE  ReadUpTo(bytes, Append(events, bytes[p + 1]), p + feed)
<1>1. /\ p \in Nat /\ p + feed \in 1 .. Len(bytes) /\ bytes[p + feed] = "LF"
  BY NextLineIs
<1>2. p + feed \in 0 .. Len(bytes) BY <1>1, ByteFields
<1>3. /\ Upto(bytes, p + feed) = Upto(bytes, p) \cup {p + 1}
      /\ Upto(bytes, p + 1) = Upto(bytes, p) \cup {p + 1}
      /\ p + 1 \notin Upto(bytes, p)
  BY LineRead
<1>4. IsFiniteSet(Upto(bytes, p)) /\ Cardinality(Upto(bytes, p)) \in Nat BY <1>1, LinesUpTo
<1>5. Cardinality(Upto(bytes, p) \cup {p + 1}) = Cardinality(Upto(bytes, p)) + 1
  BY <1>3, <1>4, FS_AddElement
<1>6. /\ Len(events) = Cardinality(Upto(bytes, p))
      /\ \A b \in Upto(bytes, p) : events[Cardinality(Upto(bytes, b))] = bytes[b]
  BY Zenon DEF ReadUpTo
<1> DEFINE more == Append(events, bytes[p + 1])
<1>7. /\ Len(more) = Len(events) + 1 /\ more[Len(events) + 1] = bytes[p + 1]
      /\ \A i \in 1 .. Len(events) : more[i] = events[i]
  OBVIOUS
<1> HIDE DEF more
<1>8. Len(more) = Cardinality(Upto(bytes, p + feed)) BY <1>3, <1>5, <1>6, <1>7
<1>9. ASSUME NEW b \in Upto(bytes, p + feed)
      PROVE  more[Cardinality(Upto(bytes, b))] = bytes[b]
  <2>1. CASE b = p + 1
    <3>1. Cardinality(Upto(bytes, b)) = Len(events) + 1 BY <1>3, <1>5, <1>6, <2>1
    <3> QED BY <1>7, <2>1, <3>1
  <2>2. CASE b \in Upto(bytes, p)
    <3>1. Cardinality(Upto(bytes, b)) \in 1 .. Len(events) BY <1>1, <1>6, <2>2, PlaceOfLine
    <3> QED BY <1>6, <1>7, <2>2, <3>1
  <2> QED BY <1>3, <2>1, <2>2
<1>10. ReadUpTo(bytes, more, p + feed) BY <1>1, <1>2, <1>8, <1>9, Zenon DEF ReadUpTo
<1> QED BY <1>10 DEF more

\* Before the first chunk.
LEMMA InitLines == StreamsInit => LineInv
<1> SUFFICES ASSUME StreamsInit PROVE LineInv OBVIOUS
<1>1. /\ sent = <<>> /\ buffer = <<>> /\ yielded = <<>> /\ terminated = FALSE
      /\ verdict \in {"reading", "ended"}
  BY DEF StreamsInit, NdjsonInit, NoLines
<1>e. <<>> \in Seq(NdjsonBytes) /\ <<>> \in Seq(Yields) /\ DOMAIN <<>> = {} OBVIOUS
<1>2. LineTypes /\ TerminalLast BY <1>1, <1>e DEF LineTypes, TerminalLast
<1>3. ReadUpTo(<<>>, <<>>, 0)
  <2>1. Upto(<<>>, 0) = {} BY DEF Upto, Lines
  <2>2. Cardinality({}) = 0 BY FS_EmptySet
  <2> QED BY <2>1, <2>2, SMTT(30) DEF ReadUpTo
<1>4. RestOf(<<>>, <<>>, 0) BY DEF RestOf
<1>5. Reads(sent, buffer, yielded, verdict) BY <1>1, <1>3, <1>4 DEF Reads
<1> QED BY <1>1, <1>2, <1>5 DEF LineInv

\* A chunk is buffered, or is too much.
LEMMA BytesKeep ==
  ASSUME LineInv, NEW added \in Seq(NdjsonBytes), ReadChunk(added)
  PROVE  LineInv'
<1>1. /\ LineTypes /\ TerminalLast /\ verdict = "reading"
      /\ sent' = sent \o added /\ yielded' = yielded /\ terminated' = terminated
      /\ \/ Len(sent') > MaxTotal /\ verdict' = "too_large" /\ buffer' = buffer
         \/ LineTooLong(buffer \o added) /\ verdict' = "too_large" /\ buffer' = buffer
         \/ verdict' = verdict /\ buffer' = buffer \o added
  BY DEF ReadChunk, Awaiting, FailRead, LineInv
<1>2. /\ sent \in Seq(NdjsonBytes) /\ buffer \in Seq(NdjsonBytes)
  BY <1>1 DEF LineTypes
<1>3. /\ sent' \in Seq(NdjsonBytes) /\ Len(sent') = Len(sent) + Len(added)
      /\ \A i \in 1 .. Len(sent) : sent'[i] = sent[i]
  BY <1>1, <1>2, Joined
<1>4. PICK p \in Nat : ReadUpTo(sent, yielded, p) /\ RestOf(sent, buffer, p)
  BY <1>1, Zenon DEF LineInv, Reads
<1>5. Len(sent) <= Len(sent')
  <2>1. Len(sent) \in Nat /\ Len(added) \in Nat BY <1>2, ByteFields
  <2> QED BY <1>3, <2>1
<1>6. ReadUpTo(sent', yielded', p) BY <1>1, <1>2, <1>3, <1>4, <1>5, MoreBytes
<1>7. p \in 0 .. Len(sent) /\ (p > 0 => sent[p] = "LF") BY <1>4, Zenon DEF ReadUpTo
<1>8. RestOf(sent', buffer \o added, p) BY <1>1, <1>2, <1>4, <1>7, RestJoined
<1>9. Reads(sent', buffer', yielded', verdict') BY <1>1, <1>6, <1>8 DEF Reads
<1>10. buffer \o added \in Seq(NdjsonBytes) BY <1>2
<1>11. LineTypes' BY <1>1, <1>2, <1>3, <1>10 DEF LineTypes
<1>12. TerminalLast' BY <1>1 DEF TerminalLast
<1>13. LineTooLong(buffer \o added) => LineTooLong(sent')
  <2>1. p \in 0 .. Len(sent') /\ (p > 0 => sent'[p] = "LF") BY <1>6, Zenon DEF ReadUpTo
  <2> QED BY <1>3, <1>8, <1>10, <2>1, LongRest
<1>14. verdict' = "too_large" => TooLarge(sent')
  BY <1>1, <1>13 DEF TooLarge
<1>15. verdict' # "ended" BY <1>1
<1> QED BY <1>9, <1>11, <1>12, <1>14, <1>15 DEF LineInv

\* The body ends, the read fails, the turn is aborted.
LEMMA EndKeeps ==
  ASSUME LineInv, ReadFails \/ BodyEnds \/ CancelRead \/ ReadAborted
  PROVE  LineInv'
<1>1. /\ UNCHANGED <<sent, buffer, yielded, terminated>> /\ verdict = "reading"
      /\ verdict' \in {"reading", "protocol", "aborted", "ended"}
      /\ verdict' = "ended" => EndsWell
  BY DEF ReadFails, BodyEnds, CancelRead, ReadAborted, FailRead, Awaiting
<1>2. LineTypes' /\ TerminalLast' BY <1>1 DEF LineInv, LineTypes, TerminalLast
<1>3. Reads(sent, buffer, yielded, verdict') BY <1>1, Zenon DEF LineInv, Reads
<1> QED BY <1>1, <1>2, <1>3 DEF LineInv, EndsWell

\* A line is taken from the buffer: empty, refused, or an event.
LEMMA LineKeeps ==
  ASSUME LineInv, BufferedLine
  PROVE  LineInv'
<1>1. /\ LineTypes /\ TerminalLast /\ verdict = "reading" /\ UNCHANGED <<sent, cancelled>>
      /\ sent \in Seq(NdjsonBytes) /\ buffer \in Seq(NdjsonBytes) /\ yielded \in Seq(Yields)
  BY DEF BufferedLine, LineInv, LineTypes
<1>2. PICK feed \in LineFeeds(buffer) :
        /\ OneLine(buffer, 1, feed - 1)
        /\ LET line == NextText(buffer, feed)
               rest == SubSeq(buffer, feed + 1, Len(buffer))
           IN  \/ line = <<>> /\ buffer' = rest /\ UNCHANGED <<yielded, terminated, verdict>>
               \/ line # <<>> /\ Len(line) > MaxLine /\ FailRead("too_large")
               \/ line # <<>> /\ Refused(line) /\ FailRead("protocol")
               \/ /\ line # <<>> /\ Len(line) <= MaxLine /\ ~Refused(line)
                  /\ buffer' = rest /\ yielded' = Append(yielded, line[1])
                  /\ terminated' = (terminated \/ line[1] = "t")
                  /\ UNCHANGED verdict
  BY Zenon DEF BufferedLine, NextText
<1>3. PICK p \in Nat : ReadUpTo(sent, yielded, p) /\ RestOf(sent, buffer, p)
  BY <1>1, Zenon DEF LineInv, Reads
<1>4. NextLine(sent, buffer, p, feed) BY <1>2, <1>3, Zenon DEF NextLine, ReadUpTo
<1> DEFINE line == NextText(buffer, feed)
           rest == SubSeq(buffer, feed + 1, Len(buffer))
<1>5. /\ p + feed \in Nat /\ feed \in 1 .. Len(buffer) /\ sent[p + 1] = buffer[1]
  <2>1. feed \in 1 .. Len(buffer) /\ \A i \in 1 .. feed : sent[p + i] = buffer[i] BY <1>1, <1>4, NextLineIs
  <2>2. Len(buffer) \in Nat BY <1>1, ByteFields
  <2>3. 1 \in 1 .. feed /\ feed \in Nat BY <2>1, <2>2
  <2> QED BY <2>1, <2>3
<1>6. (line = <<>> <=> NoLine(buffer, feed)) /\ (line # <<>> => line[1] = sent[p + 1])
  BY <1>1, <1>2, <1>5, NextTextIs
<1>7. rest \in Seq(NdjsonBytes) /\ RestOf(sent, rest, p + feed)
  BY <1>1, <1>4, <1>5, TailIs, RestGoesOn
<1>8. Len(line) > MaxLine => TooLarge(sent)
  BY <1>1, <1>4, LongLine, Zenon DEF TooLarge
<1> HIDE DEF line, rest
<1>9. \/ line = <<>> /\ buffer' = rest /\ UNCHANGED <<yielded, terminated, verdict>>
      \/ line # <<>> /\ Len(line) > MaxLine /\ FailRead("too_large")
      \/ line # <<>> /\ Refused(line) /\ FailRead("protocol")
      \/ /\ line # <<>> /\ Len(line) <= MaxLine /\ ~Refused(line)
         /\ buffer' = rest /\ yielded' = Append(yielded, line[1])
         /\ terminated' = (terminated \/ line[1] = "t")
         /\ UNCHANGED verdict
  BY <1>2, Zenon DEF line, rest
<1>10. CASE line = <<>> /\ buffer' = rest /\ UNCHANGED <<yielded, terminated, verdict>>
  <2>1. ReadUpTo(sent, yielded, p + feed) BY <1>1, <1>3, <1>4, <1>6, <1>10, ReadNothing
  <2>2. Reads(sent', buffer', yielded', verdict') BY <1>1, <1>5, <1>7, <1>10, <2>1, Zenon DEF Reads
  <2>3. LineTypes' /\ TerminalLast' BY <1>1, <1>7, <1>10 DEF LineTypes, TerminalLast
  <2> QED BY <1>1, <1>10, <2>2, <2>3 DEF LineInv
<1>11. ASSUME NEW code \in {"too_large", "protocol"}, FailRead(code), code = "too_large" => TooLarge(sent)
       PROVE  LineInv'
  <2>1. UNCHANGED <<sent, buffer, yielded, terminated>> /\ verdict' = code BY <1>1, <1>11 DEF FailRead
  <2>2. LineTypes' /\ TerminalLast' BY <1>1, <2>1 DEF LineTypes, TerminalLast
  <2>3. Reads(sent, buffer, yielded, code) BY <1>3, <1>11 DEF Reads
  <2> QED BY <1>11, <2>1, <2>2, <2>3 DEF LineInv
<1>12. CASE /\ line # <<>> /\ Len(line) <= MaxLine /\ ~Refused(line)
            /\ buffer' = rest /\ yielded' = Append(yielded, line[1])
            /\ terminated' = (terminated \/ line[1] = "t")
            /\ UNCHANGED verdict
  <2>1. ~terminated /\ line[1] \in Yields BY <1>12, Zenon DEF Refused, Yields
  <2>2. yielded' = Append(yielded, sent[p + 1]) /\ sent[p + 1] \in Yields BY <1>6, <1>12, <2>1
  <2>3. ReadUpTo(sent, yielded', p + feed) BY <1>1, <1>3, <1>4, <1>6, <1>12, <2>2, ReadEvent
  <2>4. Reads(sent', buffer', yielded', verdict') BY <1>1, <1>5, <1>7, <1>12, <2>3, Zenon DEF Reads
  <2>5. /\ yielded' \in Seq(Yields) /\ Len(yielded') = Len(yielded) + 1
        /\ yielded'[Len(yielded) + 1] = line[1] /\ Len(yielded) \in Nat
        /\ \A i \in 1 .. Len(yielded) : yielded'[i] = yielded[i]
        /\ DOMAIN yielded' = 1 .. Len(yielded) + 1 /\ DOMAIN yielded = 1 .. Len(yielded)
    BY <1>1, <1>12, <2>1
  <2>6. \A i \in DOMAIN yielded : yielded[i] # "t"
    <3>1. ASSUME NEW i \in DOMAIN yielded, yielded[i] = "t" PROVE FALSE
      <4>1. i = Len(yielded) /\ yielded # <<>> BY <1>1, <2>5, <3>1 DEF TerminalLast
      <4>2. Last(yielded) = "t" BY <3>1, <4>1 DEF Last
      <4> QED BY <1>1, <2>1, <4>1, <4>2 DEF TerminalLast
    <3> QED BY <3>1
  <2>7. LineTypes' BY <1>1, <1>7, <1>12, <2>5 DEF LineTypes
  <2>8. \A i \in DOMAIN yielded' : yielded'[i] = "t" => i = Len(yielded') BY <2>5, <2>6
  <2>9. yielded' # <<>> /\ Last(yielded') = line[1] BY <2>5 DEF Last
  <2>10. TerminalLast' BY <1>12, <2>1, <2>8, <2>9 DEF TerminalLast
  <2> QED BY <1>1, <1>12, <2>4, <2>7, <2>10 DEF LineInv
<1> QED BY <1>8, <1>9, <1>10, <1>11, <1>12

\* Every step of the parsers keeps the invariant.
LEMMA NextLines == LineInv /\ [StreamsNext]_<<parser, vars, decodeVars, lineVars>> => LineInv'
<1> SUFFICES ASSUME LineInv, [StreamsNext]_<<parser, vars, decodeVars, lineVars>> PROVE LineInv'
  OBVIOUS
<1>1. CASE UNCHANGED lineVars
  <2>1. UNCHANGED <<sent, buffer, yielded, terminated, verdict>> BY <1>1 DEF lineVars
  <2>2. LineTypes' /\ TerminalLast' BY <2>1 DEF LineInv, LineTypes, TerminalLast
  <2>3. Reads(sent, buffer, yielded, verdict) BY Zenon DEF LineInv
  <2> QED BY <2>1, <2>2, <2>3 DEF LineInv
<1>2. CASE NdjsonNext
  <2>1. ASSUME NEW added \in Chunks, ReadChunk(added) PROVE LineInv'
    <3>1. PICK n \in 1 .. MaxChunk : added \in [1 .. n -> NdjsonBytes] BY DEF Chunks
    <3>2. n \in Nat OBVIOUS
    <3>3. added \in Seq(NdjsonBytes) BY <3>1, <3>2
    <3> QED BY <2>1, <3>3, BytesKeep
  <2> QED BY <1>2, <2>1, EndKeeps, LineKeeps DEF NdjsonNext
<1> QED BY <1>1, <1>2 DEF StreamsNext

\* The invariant says what LinesExact says.
LEMMA LinesSound == LineInv => LinesExact
<1> SUFFICES ASSUME LineInv PROVE LinesExact OBVIOUS
<1>1. /\ sent \in Seq(NdjsonBytes) /\ buffer \in Seq(NdjsonBytes) /\ yielded \in Seq(Yields)
      /\ TerminalLast
  BY DEF LineInv, LineTypes
<1>2. PICK p \in Nat : /\ ReadUpTo(sent, yielded, p)
                       /\ verdict \in {"reading", "ended"} => RestOf(sent, buffer, p)
  BY Zenon DEF LineInv, Reads
<1>3. /\ p \in 0 .. Len(sent) /\ (p > 0 => sent[p] = "LF")
      /\ Len(yielded) = Cardinality(Upto(sent, p))
      /\ \A b \in Upto(sent, p) : yielded[Cardinality(Upto(sent, b))] = sent[b]
  BY <1>2, Zenon DEF ReadUpTo
<1>4. /\ IsFiniteSet(Lines(sent)) /\ Cardinality(Lines(sent)) \in Nat
      /\ IsFiniteSet(Upto(sent, p)) /\ Cardinality(Upto(sent, p)) \in Nat
      /\ Upto(sent, p) \subseteq Lines(sent)
  BY <1>1, LinesUpTo DEF Upto
<1>5. Len(yielded) <= Cardinality(Lines(sent)) BY <1>3, <1>4, FS_Subset
<1>6. ASSUME NEW b \in Lines(sent), Nth(b) <= Len(yielded) PROVE yielded[Nth(b)] = sent[b]
  <2>1. b \in Nat /\ \A c \in Lines(sent) : c \in Nat BY <1>1, ByteFields DEF Lines
  <2>2. Nth(b) = Cardinality(Upto(sent, b)) BY DEF Nth, Upto
  <2>3. CASE b <= p
    <3>1. b \in Upto(sent, p) BY <2>3 DEF Upto
    <3> QED BY <1>3, <2>2, <3>1
  <2>4. CASE b > p
    <3>1. b \notin Upto(sent, p) /\ b \in Upto(sent, b) BY <2>1, <2>4 DEF Upto
    <3>2. Upto(sent, p) \cup {b} \subseteq Upto(sent, b)
      <4>1. \A c \in Lines(sent) : c <= p => c <= b BY <2>1, <2>4
      <4>2. Upto(sent, p) \subseteq Upto(sent, b) BY <4>1, Zenon DEF Upto
      <4> QED BY <3>1, <4>2
    <3>3. IsFiniteSet(Upto(sent, b)) /\ Cardinality(Upto(sent, b)) \in Nat BY <1>1, <2>1, LinesUpTo
    <3>4. Cardinality(Upto(sent, p) \cup {b}) = Cardinality(Upto(sent, p)) + 1
      BY <1>4, <3>1, FS_AddElement
    <3>5. Cardinality(Upto(sent, p) \cup {b}) <= Cardinality(Upto(sent, b)) BY <3>2, <3>3, FS_Subset
    <3> QED BY <1>3, <1>4, <1>6, <2>2, <3>3, <3>4, <3>5
  <2> QED BY <2>1, <2>3, <2>4
<1>7. ASSUME verdict = "ended", sent # <<>>
      PROVE  /\ Len(yielded) = Cardinality(Lines(sent)) /\ Last(yielded) = "t"
             /\ Last(sent) = "LF"
  <2>1. terminated /\ buffer = <<>> /\ RestOf(sent, buffer, p) BY <1>2, <1>7 DEF LineInv
  <2>2. Last(yielded) = "t" BY <1>1, <2>1 DEF TerminalLast
  <2>3. Len(sent) \in Nat /\ DOMAIN sent = 1 .. Len(sent) BY <1>1, ByteFields
  <2>4. Len(sent) # 0 BY <1>1, <1>7
  <2>5. p = Len(sent)
    <3>1. Len(buffer) = 0 BY <2>1
    <3> QED BY <2>1, <2>3, <3>1 DEF RestOf
  <2>6. Last(sent) = "LF" BY <1>3, <2>3, <2>4, <2>5 DEF Last
  <2>7. Upto(sent, p) = Lines(sent)
    <3>1. \A b \in Lines(sent) : b <= p BY <2>3, <2>5 DEF Lines
    <3> QED BY <3>1 DEF Upto
  <2> QED BY <1>3, <2>2, <2>6, <2>7
<1>8. verdict = "too_large" => Len(sent) > MaxTotal \/ LineTooLong(sent) \/ HasLongLine(sent)
  BY Zenon DEF LineInv, TooLarge
<1>9. \A i \in DOMAIN yielded : yielded[i] = "t" => i = Len(yielded) BY <1>1, Zenon DEF TerminalLast
<1> QED BY <1>5, <1>6, <1>7, <1>8, <1>9, Zenon DEF LinesExact

\* However the turn's response is cut into chunks, its consumer gets the events of
\* its lines from the first on, in their order, none twice and none after a terminal
\* one; only a body that is whole and ends with a terminal event ends without an
\* error, and one is refused as too large only if it, or a line of it, is
\* (parseNDJSONStream, ndjson.ts:84-154).
THEOREM LinesAreExact == StreamsSpec => []LinesExact
<1>1. LineInv => LinesExact BY LinesSound
<1> QED BY InitLines, NextLines, <1>1, PTL DEF StreamsSpec
=============================================================================
