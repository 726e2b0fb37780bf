------------------------------ MODULE MCStreams ------------------------------
(***************************************************************************)
(* The parsers a response goes through: server-sent events, the two        *)
(* providers' decoders of their frames, and the lines of the Local Agent   *)
(* API's own stream.  They share nothing: the initial state chooses one of *)
(* them, and the others rest.                                              *)
(***************************************************************************)
EXTENDS SseFraming, AnthropicStream, OpenAIChatStream, NdjsonLines, TLC

VARIABLE parser \* the parser that runs

\* No body is read.
NoBytes  == /\ fed = <<>> /\ over = TRUE /\ chunk = <<>> /\ pending = <<>>
            /\ frameBytes = 0 /\ data = <<>> /\ out = <<>> /\ status = "ended"
NoFrames == /\ protocol = "none" /\ signal = FALSE /\ dec = [terminal |-> TRUE] /\ batch = <<>>
            /\ answer = <<Failure("aborted")>> /\ closed = TRUE /\ said = Silence
NoLines  == /\ sent = <<>> /\ buffer = <<>> /\ yielded = <<>>
            /\ terminated = FALSE /\ cancelled = FALSE /\ verdict = "ended"

StreamsInit ==
  \/ parser = "sse" /\ Init /\ NoFrames /\ NoLines
  \/ parser = "decoder" /\ NoBytes /\ NoLines /\ (AnthropicInit \/ ChatInit)
  \/ parser = "ndjson" /\ NoBytes /\ NoFrames /\ NdjsonInit

DecoderNext == DecodeNext \/ AnthropicFrame \/ ChatFrame

StreamsNext ==
  /\ UNCHANGED parser
  /\ \/ parser = "sse" /\ Next /\ UNCHANGED <<decodeVars, lineVars>>
     \/ parser = "decoder" /\ DecoderNext /\ UNCHANGED <<vars, lineVars>>
     \/ parser = "ndjson" /\ NdjsonNext /\ UNCHANGED <<vars, decodeVars>>

StreamsSpec == StreamsInit /\ [][StreamsNext]_<<parser, vars, decodeVars, lineVars>>

\* A decoder only compares ids.
IdSymmetry == Permutations(Ids)
=============================================================================
