---------------------------- MODULE FrameDecoding ----------------------------
(***************************************************************************)
(* decodeFrameStream                                                       *)
(* (packages/model-gateway/src/adapters/stream-runtime.ts), the loop that  *)
(* both provider protocols share: a frame of the body is handed to the     *)
(* decoder, the events it answers are yielded one by one, and the consumer *)
(* may abort between any two of them.  AnthropicStream and                 *)
(* OpenAIChatStream say what a frame does.                                 *)
(*                                                                         *)
(* Frames come from SseFraming; ResilientGateway has the chunks, the       *)
(* iterator's release and the waiting.  What a tool is called with is      *)
(* known by the number of its fragments, text by the number of its deltas. *)
(***************************************************************************)
EXTENDS Integers, Sequences, FiniteSets, SequencesExt, Functions

CONSTANTS None,
          Indexes,   \* content block and tool call indexes
          Ids,       \* tool call ids
          MaxInput,  \* maxToolInputBytes, in fragments
          MaxEvents  \* bound: text and usage events of an answer

\* An index is a non-negative integer (readIndex, applyToolCallDelta).
ASSUME DecodingAssumption ==
  /\ Indexes \subseteq Nat /\ MaxInput \in Nat
  /\ None \notin Ids \cup {"end_turn", "tool_use", "max_tokens", "stop", "tool_calls"}

VARIABLES protocol, \* "anthropic" or "openai"
          signal,   \* signal.aborted
          dec,      \* the decoder's state
          batch,    \* events of the frame that are not yielded yet
          answer,   \* events the consumer received
          closed,   \* the generator has returned
          said      \* what the provider has sent so far (for the properties)

decodeVars == <<protocol, signal, dec, batch, answer, closed, said>>

Event(type)    == [type |-> type]
Failure(code)  == [type |-> "error", code |-> code]
Completed      == Event("completed")
ToolCall(call) == [type |-> "tool_call", id |-> call.id, parts |-> call.parts]
Final(event)   == event.type \in {"completed", "error"}

\* mapStructuredErrorType: the codes a provider's own error becomes.
Upstream == {"rate_limited", "upstream_unavailable", "gateway_error"}

\* What a body has said before its first frame.
Silence == [text |-> 0, calls |-> <<>>, reason |-> None]

DecodeInit(decoder) ==
  /\ dec = decoder /\ signal = FALSE /\ batch = <<>>
  /\ answer = <<>> /\ closed = FALSE /\ said = Silence

\* The loop is about to take a frame out of the body.
Pulling == ~closed /\ ~signal /\ batch = <<>> /\ ~dec.terminal

\* The bound: there is room for n more events.
Room(n) == Len(answer) + n <= MaxEvents

\* The frame changes the decoder's state and answers these events.
Handle(decoder, events) ==
  /\ dec' = decoder /\ batch' = events
  /\ UNCHANGED <<protocol, signal, answer, closed>>

\* The generator yields its last event and returns.
Throw(code) == /\ answer' = Append(answer, Failure(code)) /\ closed' = TRUE
               /\ batch' = <<>>
               /\ UNCHANGED <<protocol, signal, dec, said>>

\* A frame outside of the supported subset, and a body that ends too early.
BadFrame == Pulling /\ Throw("provider_protocol_error")

SourceFails == Pulling /\ Throw("gateway_error")

\* A structured error of the provider; its text is dropped.
ErrorFrame(code) ==
  /\ Pulling
  /\ Handle([dec EXCEPT !.terminal = TRUE], <<Failure(code)>>)
  /\ UNCHANGED said

\* Mutant: an event that is ready is yielded without a look at the signal.
MutantYield == /\ batch # <<>>
               /\ answer' = Append(answer, Head(batch)) /\ batch' = Tail(batch)
               /\ UNCHANGED <<protocol, signal, dec, closed, said>>

Yield == /\ batch # <<>> /\ ~signal
         /\ answer' = Append(answer, Head(batch)) /\ batch' = Tail(batch)
         /\ UNCHANGED <<protocol, signal, dec, closed, said>>

\* The last frame's events are out.
Close == /\ ~closed /\ batch = <<>> /\ dec.terminal
         /\ closed' = TRUE
         /\ UNCHANGED <<protocol, signal, dec, batch, answer, said>>

Abort == ~signal /\ ~closed /\ signal' = TRUE
         /\ UNCHANGED <<protocol, dec, batch, answer, closed, said>>

\* Mutant: after the last event the signal is looked at before isTerminal.
MutantCancelled == ~closed /\ signal /\ Throw("aborted")

\* Every check of cancelled().
Cancelled == /\ ~closed /\ signal
             /\ batch # <<>> \/ ~dec.terminal
             /\ Throw("aborted")

DecodeNext == \/ BadFrame \/ SourceFails \/ Yield \/ Close \/ Abort \/ Cancelled
              \/ \E code \in Upstream : ErrorFrame(code)

(***************************************************************************)
(* What the provider has said.                                             *)
(***************************************************************************)
Announce(call) == said' = [said EXCEPT !.calls = Append(@, call)]

\* The last announced call of an index gets what changes.
Amend(calls, index, id, parts) ==
  LET k == Max({j \in DOMAIN calls : calls[j].index = index})
  IN  [calls EXCEPT ![k].id = IF @ = None THEN id ELSE @, ![k].parts = @ + parts]

\* Where the answer has events of a type.
At(type) == {i \in DOMAIN answer : answer[i].type = type}

(***************************************************************************)
(* Properties.                                                             *)
(***************************************************************************)
\* What the agent loop relies on, whatever the provider sends and whenever the
\* turn is aborted: an answer has one terminal event and it is the last one,
\* also when the abort comes between the terminal event and the end of the
\* stream; no text follows a tool call, and no call is announced twice.
AnswerWellFormed ==
  /\ \A i \in DOMAIN answer : Final(answer[i]) => i = Len(answer)
  /\ \A i \in At("tool_call"), j \in At("text_delta") : j < i
  /\ \A i, j \in At("tool_call") : answer[i].id = answer[j].id => i = j
  /\ closed => answer # <<>> /\ Final(Last(answer))

\* A completed answer is the whole of what the provider sent: every text delta,
\* every announced call exactly once with all of its fragments, in the order of
\* the indexes, and a reason to stop that is not a truncation.
CompletedIsWhole ==
  answer # <<>> /\ Last(answer).type = "completed" =>
    /\ Cardinality(At("text_delta")) = said.text
    /\ {answer[i] : i \in At("tool_call")} = {ToolCall(said.calls[k]) : k \in DOMAIN said.calls}
    /\ \A k, l \in DOMAIN said.calls : said.calls[k].id = said.calls[l].id => k = l
    /\ \A i, j \in At("tool_call"), k, l \in DOMAIN said.calls :
         i < j /\ said.calls[k].id = answer[i].id /\ said.calls[l].id = answer[j].id
           => said.calls[k].index <= said.calls[l].index
    /\ said.reason \in {"end_turn", "tool_use", "stop", "tool_calls"}

\* An answer is well formed, and is the whole of what the provider sent when it
\* is completed: what runAgentLoop takes an answer for without a check.
AnswerSound == AnswerWellFormed /\ CompletedIsWhole

\* Once the turn is aborted, nothing but the aborted event reaches the consumer,
\* also from a frame that was decoded before.
AbortSilences ==
  [][signal /\ answer' # answer => answer' = Append(answer, Failure("aborted"))]_decodeVars
=============================================================================
