---------------------------- MODULE NdjsonLines ----------------------------
(***************************************************************************)
(* parseNDJSONStream (packages/local-agent-client/src/ndjson.ts): the      *)
(* events of a turn's response, one JSON line each, whose bytes arrive in  *)
(* chunks cut anywhere.  A step is one read of the body, or one line of    *)
(* what is buffered.                                                       *)
(*                                                                         *)
(* A byte is a line feed, a carriage return, or stands for the text of a   *)
(* line: a line that starts with "d" is an event, with "t" a terminal one, *)
(* with "x" one that validateAgentEvent or JSON.parse refuses.             *)
(***************************************************************************)
EXTENDS Integers, Sequences, FiniteSets, SequencesExt

CONSTANTS MaxLine,  \* maxLineBytes
          MaxTotal, \* maxTotalBytes
          MaxChunk, \* bound: bytes of a chunk
          MaxBody   \* bound: bytes of a body

VARIABLES sent,       \* the bytes received so far
          buffer,     \* what is not consumed of them
          yielded,    \* the events the consumer received
          terminated,
          cancelled,  \* signal.aborted
          verdict     \* "reading", "ended", or the error's code

lineVars == <<sent, buffer, yielded, terminated, cancelled, verdict>>

NdjsonBytes == {"d", "t", "x", "CR", "LF"}

NdjsonInit == /\ sent = <<>> /\ buffer = <<>> /\ yielded = <<>>
              /\ terminated = FALSE /\ cancelled = FALSE /\ verdict = "reading"

LineFeeds(bytes) == {i \in DOMAIN bytes : bytes[i] = "LF"}

\* A line starts at b.
Begins(bytes, b) == b > 1 => bytes[b - 1] = "LF"

\* No line ends between b and e.
OneLine(bytes, b, e) == \A i \in b .. e : bytes[i] # "LF"

NoCr(line) == IF line # <<>> /\ Last(line) = "CR" THEN Front(line) ELSE line

FailRead(code) == verdict' = code /\ UNCHANGED <<buffer, yielded, terminated>>

(***************************************************************************)
(* Reading.                                                                *)
(***************************************************************************)
Awaiting == verdict = "reading" /\ LineFeeds(buffer) = {}

\* The unfinished line, whose carriage return, if it has one, counts.
LineTooLong(bytes) ==
  \E b \in DOMAIN bytes : /\ Begins(bytes, b) /\ OneLine(bytes, b, Len(bytes))
                         /\ Len(bytes) - b + 1 > MaxLine

\* A chunk: its size and the unfinished line are checked before any line of it.
ReadChunk(chunk) ==
  /\ Awaiting /\ ~cancelled
  /\ sent' = sent \o chunk
  /\ UNCHANGED cancelled
  /\ \/ Len(sent') > MaxTotal /\ FailRead("too_large")
     \/ Len(sent') <= MaxTotal /\ LineTooLong(buffer \o chunk) /\ FailRead("too_large")
     \/ /\ Len(sent') <= MaxTotal /\ ~LineTooLong(buffer \o chunk)
        /\ buffer' = buffer \o chunk
        /\ UNCHANGED <<yielded, terminated, verdict>>

\* The read fails, or its bytes are no UTF-8.
ReadFails == /\ Awaiting /\ ~cancelled /\ FailRead("protocol")
             /\ UNCHANGED <<sent, cancelled>>

\* Mutant: a line without its end is taken for an event that was cut off.
MutantEndsWell == terminated

EndsWell == terminated /\ buffer = <<>>

BodyEnds == /\ Awaiting /\ ~cancelled
            /\ FailRead(IF EndsWell THEN "ended" ELSE "protocol")
            /\ UNCHANGED <<sent, cancelled>>

\* The turn is aborted at any time; it is seen by the next or the current read.
CancelRead == /\ verdict = "reading" /\ ~cancelled /\ cancelled' = TRUE
              /\ UNCHANGED <<sent, buffer, yielded, terminated, verdict>>

ReadAborted == /\ Awaiting /\ cancelled /\ FailRead("aborted")
               /\ UNCHANGED <<sent, cancelled>>

(***************************************************************************)
(* One line of the buffer.                                                 *)
(***************************************************************************)
\* A line that is no event, or comes after the terminal one.
Refused(line) == Len(line) <= MaxLine /\ (terminated \/ line[1] \notin {"d", "t"})

BufferedLine ==
  /\ verdict = "reading" /\ ~Awaiting
  /\ UNCHANGED <<sent, cancelled>>
  /\ \E feed \in LineFeeds(buffer) :
       LET line == NoCr(SubSeq(buffer, 1, feed - 1))
           rest == SubSeq(buffer, feed + 1, Len(buffer))
       IN  /\ OneLine(buffer, 1, feed - 1)
           /\ \/ /\ line = <<>> /\ buffer' = rest
                 /\ UNCHANGED <<yielded, terminated, verdict>>
              \/ line # <<>> /\ Len(line) > MaxLine /\ FailRead("too_large")
              \/ line # <<>> /\ Refused(line) /\ FailRead("protocol")
              \/ /\ line # <<>> /\ Len(line) <= MaxLine /\ ~Refused(line)
                 /\ buffer' = rest /\ yielded' = Append(yielded, line[1])
                 /\ terminated' = (terminated \/ line[1] = "t")
                 /\ UNCHANGED verdict

Chunks == UNION {[1 .. n -> NdjsonBytes] : n \in 1 .. MaxChunk}

NdjsonNext == \/ \E chunk \in Chunks : Len(sent) + Len(chunk) <= MaxBody /\ ReadChunk(chunk)
              \/ ReadFails \/ BodyEnds \/ CancelRead \/ ReadAborted \/ BufferedLine

(***************************************************************************)
(* Properties.                                                             *)
(***************************************************************************)
\* Where the lines of a body start, without the unfinished and the empty ones,
\* a carriage return before the line feed not counted.  The first byte of a line
\* tells what it is.
Lines(bytes) ==
  {b \in DOMAIN bytes :
     /\ Begins(bytes, b) /\ \E feed \in LineFeeds(bytes) : b < feed
     /\ bytes[b] # "LF" /\ ~(bytes[b] = "CR" /\ bytes[b + 1] = "LF")}

\* Which line, counted from the first, starts at b.
Nth(b) == Cardinality({c \in Lines(sent) : c <= b})

\* A line, without its end, that is longer than maxLineBytes.
HasLongLine(bytes) ==
  \E feed \in LineFeeds(bytes), b \in DOMAIN bytes :
    /\ Begins(bytes, b) /\ OneLine(bytes, b, feed - 1)
    /\ Len(NoCr(SubSeq(bytes, b, feed - 1))) > MaxLine

\* However the body is cut into chunks, the consumer gets its events from the
\* first on, in their order, none twice and none after a terminal one; the
\* stream ends without an error only if all its lines are events, the last
\* one of them is terminal, and the last line is complete; a body is too large
\* only if one of its lines is, to which the carriage return counts as long as
\* the line feed has not come.
LinesExact ==
  /\ Len(yielded) <= Cardinality(Lines(sent))
  /\ \A b \in Lines(sent) : Nth(b) <= Len(yielded) => yielded[Nth(b)] = sent[b]
  /\ \A i \in DOMAIN yielded : yielded[i] = "t" => i = Len(yielded)
  /\ verdict = "ended" /\ sent # <<>> =>
       /\ Len(yielded) = Cardinality(Lines(sent)) /\ Last(yielded) = "t"
       /\ Last(sent) = "LF"
  /\ verdict = "too_large" => Len(sent) > MaxTotal \/ LineTooLong(sent) \/ HasLongLine(sent)
=============================================================================
