-------------------------- MODULE OpenAIChatStream --------------------------
(***************************************************************************)
(* The decoder of the OpenAI Chat Completions protocol                     *)
(* (packages/model-gateway/src/adapters/openai-chat-stream.ts): a chunk    *)
(* may carry text, a piece of a tool call, a reason to finish and the      *)
(* usage, all at once.  The id of a call and its name come together here.  *)
(***************************************************************************)
EXTENDS FrameDecoding

\* finish is None until a finish_reason was seen, calls the tool calls by index.
ChatDecoder == [terminal |-> FALSE, finish |-> None, emitted |-> FALSE,
                calls |-> [i \in {} |-> None]]

NoCall == None
Pieces == [index : Indexes, id : Ids \cup {None}, parts : {0, 1}]

\* applyToolCallDelta: an id that is known is never overwritten.
Applies(calls, piece) ==
  piece.index \in DOMAIN calls =>
    /\ piece.id = None \/ calls[piece.index].id \in {None, piece.id}
    /\ calls[piece.index].parts + piece.parts <= MaxInput

Applied(calls, piece) ==
  [j \in DOMAIN calls \cup {piece.index} |->
     IF j # piece.index THEN calls[j]
     ELSE IF j \notin DOMAIN calls THEN piece
     ELSE [calls[j] EXCEPT !.id = IF @ = None THEN piece.id ELSE @, !.parts = @ + piece.parts]]

\* Mutant: two calls may have the same id.
MutantEmits(calls) == \A i \in DOMAIN calls : calls[i].id # None

\* emitToolCalls: the batch is checked as a whole before a call is emitted.
Emits(calls) == /\ \A i \in DOMAIN calls : calls[i].id # None
                /\ \A i, j \in DOMAIN calls : calls[i].id = calls[j].id => i = j

\* The calls in the order of their indexes.
Batch(calls) ==
  {[k \in DOMAIN order |-> ToolCall(calls[order[k]])] :
     order \in {f \in [1 .. Cardinality(DOMAIN calls) -> DOMAIN calls] :
                  /\ Range(f) = DOMAIN calls
                  /\ \A k, l \in DOMAIN f : k < l => f[k] < f[l]}}

\* Nothing but usage follows a finish_reason.
Still(text, piece, reason) ==
  dec.finish # None => ~text /\ piece = NoCall /\ reason = None

Chunk(text, piece, reason, counted) ==
  LET calls == IF piece = NoCall THEN dec.calls ELSE Applied(dec.calls, piece)
      new   == piece # NoCall /\ piece.index \notin DOMAIN dec.calls
  IN  /\ Pulling /\ protocol = "openai"
      /\ Still(text, piece, reason)
      /\ piece # NoCall => Applies(dec.calls, piece)
      /\ reason = "stop" => DOMAIN calls = {}
      /\ reason = "tool_calls" => Emits(calls)
      /\ Room((IF text THEN 1 ELSE 0) + (IF counted THEN 1 ELSE 0))
      /\ \E tools \in IF reason = "tool_calls" THEN Batch(calls) ELSE {<<>>} :
           Handle([dec EXCEPT !.calls = calls,
                              !.finish = IF reason = None THEN @ ELSE reason,
                              !.emitted = @ \/ reason = "tool_calls"],
                  (IF text THEN <<Event("text_delta")>> ELSE <<>>) \o tools
                    \o (IF counted THEN <<Event("usage")>> ELSE <<>>))
      /\ said' = [text   |-> said.text + IF text THEN 1 ELSE 0,
                  calls  |-> IF piece = NoCall THEN said.calls
                             ELSE IF new THEN Append(said.calls, piece)
                             ELSE Amend(said.calls, piece.index, piece.id, piece.parts),
                  reason |-> IF reason = None THEN said.reason ELSE reason]

\* The [DONE] sentinel.
Done == /\ Pulling /\ protocol = "openai"
        /\ dec.finish # None
        /\ dec.finish = "tool_calls" => dec.emitted
        /\ Handle([dec EXCEPT !.terminal = TRUE], <<Completed>>)
        /\ UNCHANGED said

ChatInit == protocol = "openai" /\ DecodeInit(ChatDecoder)

ChatFrame ==
  \/ \E text, counted \in BOOLEAN, piece \in Pieces \cup {NoCall},
        reason \in {None, "stop", "tool_calls"} : Chunk(text, piece, reason, counted)
  \/ Done
=============================================================================
