----------------------------- MODULE SseFraming -----------------------------
(***************************************************************************)
(* SseFrameParser (packages/model-gateway/src/adapters/sse.ts): the bytes  *)
(* of a Server-Sent Events body, which arrive in chunks cut anywhere, are  *)
(* split into lines and frames.  A step is one round of the loop over a    *)
(* chunk: one line, or the rest that is kept for the next chunk.           *)
(*                                                                         *)
(* A byte is a line terminator, a "data:" (one byte here), or any other:   *)
(* a line that does not start with "data:" is a comment or another field,  *)
(* whose values (event, id, retry) are left out, and so is the check that  *)
(* the bytes are UTF-8.                                                    *)
(***************************************************************************)
EXTENDS Integers, Sequences, FiniteSets, SequencesExt

CONSTANTS MaxFrame, \* maxFrameBytes
          MaxBytes  \* bound: length of a body

ASSUME FramingAssumption == MaxFrame \in Nat \ {0} /\ MaxBytes \in Nat

VARIABLES fed,        \* the bytes received so far (for the properties)
          over,       \* the body has ended
          chunk,      \* what is left of the current chunk
          pending,    \* #pending
          frameBytes, \* #frameBytes
          data,       \* #data, not empty iff #sawData
          out,        \* the frames yielded
          status      \* "open", "ended", or "failed" (provider_protocol_error)

vars == <<fed, over, chunk, pending, frameBytes, data, out, status>>

Bytes == {"data:", "x", "CR", "LF"}
IsText(byte) == byte \in {"data:", "x"}

Init == /\ fed = <<>> /\ over = FALSE /\ chunk = <<>> /\ pending = <<>>
        /\ frameBytes = 0 /\ data = <<>> /\ out = <<>> /\ status = "open"

(***************************************************************************)
(* findLineEnd: where the first line of a chunk ends and the next starts.  *)
(* A CR that is the last byte ends no line yet.                            *)
(***************************************************************************)
LineEnds(buffer) ==
  {e \in (1 .. Len(buffer)) \X (2 .. Len(buffer) + 1) :
     \/ buffer[e[1]] = "LF" /\ e[2] = e[1] + 1
     \/ /\ buffer[e[1]] = "CR" /\ e[1] < Len(buffer)
        /\ e[2] = IF buffer[e[1] + 1] = "LF" THEN e[1] + 2 ELSE e[1] + 1}

FirstLine(buffer) ==
  CHOOSE e \in LineEnds(buffer) : \A f \in LineEnds(buffer) : e[1] <= f[1]

(***************************************************************************)
(* #consumeLine and #dispatch, after the frame's limit has been checked.   *)
(***************************************************************************)
\* Data whose lines join to the empty string are not worth a frame.
Dispatch == /\ out' = IF data \in {<<>>, << <<>> >>} THEN out ELSE Append(out, data)
            /\ data' = <<>> /\ frameBytes' = 0

\* A line that takes, with its terminator, size bytes of the frame.
Consume(line, size) ==
  \/ /\ frameBytes + size > MaxFrame
     /\ status' = "failed" /\ UNCHANGED <<frameBytes, data, out>>
  \/ /\ frameBytes + size <= MaxFrame /\ line = <<>>
     /\ Dispatch /\ UNCHANGED status
  \/ /\ frameBytes + size <= MaxFrame /\ line # <<>>
     /\ data' = IF line[1] = "data:" THEN Append(data, Tail(line)) ELSE data
     /\ frameBytes' = frameBytes + size
     /\ UNCHANGED <<out, status>>

(***************************************************************************)
(* framesFrom.                                                             *)
(***************************************************************************)
Reading == status = "open" /\ chunk # <<>>
CrHeld == pending # <<>> /\ Last(pending) = "CR"

Feed(c) == /\ status = "open" /\ ~over /\ chunk = <<>>
           /\ chunk' = c /\ fed' = fed \o c
           /\ UNCHANGED <<over, pending, frameBytes, data, out, status>>

\* Mutant: the held CR ends its line without a look at what follows it.
MutantTakesLf == FALSE

\* A LF right after the held CR belongs to the same terminator.
TakesLf == chunk[1] = "LF"

ResolveCr ==
  /\ Reading /\ CrHeld
  /\ Consume(Front(pending), Len(pending) + IF TakesLf THEN 1 ELSE 0)
  /\ pending' = <<>>
  /\ chunk' = IF TakesLf THEN Tail(chunk) ELSE chunk
  /\ UNCHANGED <<fed, over>>

Line ==
  /\ Reading /\ ~CrHeld /\ LineEnds(chunk) # {}
  /\ LET e == FirstLine(chunk)
     IN  /\ Consume(pending \o SubSeq(chunk, 1, e[1] - 1), Len(pending) + e[2] - 1)
         /\ chunk' = SubSeq(chunk, e[2], Len(chunk))
  /\ pending' = <<>>
  /\ UNCHANGED <<fed, over>>

\* Mutant: what is already pending is not counted.
MutantFits == frameBytes + Len(chunk) <= MaxFrame

Fits == frameBytes + Len(pending) + Len(chunk) <= MaxFrame

\* The rest of the chunk is part of a line: it is kept if the frame has room.
Keep ==
  /\ Reading /\ ~CrHeld /\ LineEnds(chunk) = {}
  /\ \/ Fits /\ pending' = pending \o chunk /\ UNCHANGED status
     \/ ~Fits /\ status' = "failed" /\ UNCHANGED pending
  /\ chunk' = <<>>
  /\ UNCHANGED <<fed, over, frameBytes, data, out>>

(***************************************************************************)
(* finish.                                                                 *)
(***************************************************************************)
Finish == /\ status = "open" /\ ~over /\ chunk = <<>>
          /\ over' = TRUE
          /\ UNCHANGED <<fed, chunk, pending, frameBytes, data, out, status>>

\* What is pending is a last line, ended by a CR or by the body's end.
LastLine ==
  /\ status = "open" /\ over /\ pending # <<>>
  /\ Consume(IF CrHeld THEN Front(pending) ELSE pending, Len(pending))
  /\ pending' = <<>>
  /\ UNCHANGED <<fed, over, chunk>>

\* A body that stops in the middle of a frame is a truncated one.
Truncated == data # <<>> \/ frameBytes > 0

End == /\ status = "open" /\ over /\ pending = <<>>
       /\ status' = IF Truncated THEN "failed" ELSE "ended"
       /\ UNCHANGED <<fed, over, chunk, pending, frameBytes, data, out>>

Next == \/ \E n \in 1 .. MaxBytes - Len(fed) : \E c \in [1 .. n -> Bytes] : Feed(c)
        \/ ResolveCr \/ Line \/ Keep
        \/ Finish \/ LastLine \/ End

Spec == Init /\ [][Next]_vars

(***************************************************************************)
(* What a body means, whatever its chunks: the reference.                  *)
(***************************************************************************)
\* The last byte of every line terminator.
Breaks == {i \in DOMAIN fed :
             \/ fed[i] = "LF"
             \/ fed[i] = "CR" /\ IF i = Len(fed) THEN over ELSE fed[i + 1] # "LF"}

\* A line starts behind one of these bytes.
Edges == Breaks \cup {0}

\* Where the text of the line ends whose terminator ends at i.
TextEnd(i) == IF i > 1 /\ fed[i] = "LF" /\ fed[i - 1] = "CR" THEN i - 2 ELSE i - 1

\* An empty line ends a frame, and the next one starts behind it.
FrameEnds == {i \in Breaks : TextEnd(i) \in Edges}
FrameEdges == FrameEnds \cup {0}

\* A frame is the edge behind which it starts and its end.
Frames == {f \in FrameEdges \X FrameEnds :
             f[1] < f[2] /\ \A i \in FrameEnds : i <= f[1] \/ i >= f[2]}

TooLong(f) == f[2] - f[1] > MaxFrame

\* Where the data lines between two edges start.
DataLines(b, e) == {s \in b + 1 .. e : fed[s] = "data:" /\ s - 1 \in Edges}

\* These are the lines' values, in their order.
AreValues(values, b, e) ==
  /\ Len(values) = Cardinality(DataLines(b, e))
  /\ \A s \in DataLines(b, e) : \E t \in s + 1 .. e :
       /\ ~IsText(fed[t]) /\ \A k \in s .. t - 1 : IsText(fed[k])
       /\ values[Cardinality(DataLines(b, s))] = SubSeq(fed, s + 1, t - 1)

\* The values do not join to the empty string.
HasData(b, e) == \E s \in DataLines(b, e) : IsText(fed[s + 1]) \/ DataLines(b, e) # {s}

\* The frames worth one, up to the first that is too long.
Shown == {f \in Frames : /\ HasData(f[1], f[2])
                         /\ \A g \in Frames : g[2] <= f[2] => ~TooLong(g)}

FramesAreShown ==
  /\ Len(out) = Cardinality(Shown)
  /\ \A f \in Shown : AreValues(out[Cardinality({g \in Shown : g[2] <= f[2]})], f[1], f[2])

\* A frame is too long, ended or not, or the body stops inside one.
Broken == \/ \E f \in Frames : TooLong(f)
          \/ \A b \in FrameEdges : Len(fed) - b > MaxFrame
          \/ over /\ Len(fed) \notin FrameEdges

(***************************************************************************)
(* Properties.                                                             *)
(***************************************************************************)
\* Between two chunks, and when the stream has ended or failed, the frames
\* yielded and the verdict depend on the bytes alone and not on how they
\* were cut into chunks: a CRLF or a frame cut anywhere reads as if it were
\* whole, and a body is refused exactly when a frame exceeds its limit or the
\* body stops inside one.
ChunkingInvisible ==
  status # "open" \/ (chunk = <<>> /\ ~over) =>
    FramesAreShown /\ (status = "failed" <=> Broken)

\* What the parser holds of an unfinished frame never exceeds the limit of
\* one frame, whatever the size of the chunks.
BufferBounded == frameBytes + Len(pending) <= MaxFrame
=============================================================================
