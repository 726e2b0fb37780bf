--------------------------- MODULE AnthropicStream ---------------------------
(***************************************************************************)
(* The decoder of the Anthropic Messages protocol                          *)
(* (packages/model-gateway/src/adapters/anthropic-stream.ts): content      *)
(* blocks open, grow and close in any interleaving, and the tool calls     *)
(* they make are held back until message_stop.  An action is the handler   *)
(* of a frame it accepts; every other frame is BadFrame of FrameDecoding.  *)
(***************************************************************************)
EXTENDS FrameDecoding

Supported == {"end_turn", "tool_use"}

Decoder == [started |-> FALSE, terminal |-> FALSE, reason |-> None,
            input |-> FALSE, output |-> FALSE,
            blocks |-> [i \in {} |-> None], ids |-> {}, pending |-> <<>>]

Open == Pulling /\ protocol = "anthropic" /\ dec.started

\* usage: the message may say how many tokens went in and came out.
MessageStart(counted) ==
  /\ Pulling /\ protocol = "anthropic" /\ ~dec.started
  /\ Handle([dec EXCEPT !.started = TRUE, !.input = counted, !.output = counted], <<>>)
  /\ UNCHANGED said

Put(blocks, i, block) == [j \in DOMAIN blocks \cup {i} |-> IF j = i THEN block ELSE blocks[j]]

BlockStart(i, block, ids) ==
  /\ Open /\ i \notin DOMAIN dec.blocks
  /\ Handle([dec EXCEPT !.blocks = Put(@, i, block), !.ids = ids], <<>>)

TextStart(i) == BlockStart(i, [kind |-> "text"], dec.ids) /\ UNCHANGED said

NewId(id) == id \notin dec.ids

\* whole: the block's initial input is not empty, and then nothing is added.
ToolStart(i, id, whole) ==
  /\ Open /\ NewId(id)
  /\ BlockStart(i, [kind |-> "tool_use", id |-> id, whole |-> whole, parts |-> 0],
                dec.ids \cup {id})
  /\ Announce([index |-> i, id |-> id, parts |-> 0])

HasBlock(i, kind) == Open /\ i \in DOMAIN dec.blocks /\ dec.blocks[i].kind = kind

TextDelta(i) ==
  /\ HasBlock(i, "text") /\ Room(1)
  /\ Handle(dec, <<Event("text_delta")>>)
  /\ said' = [said EXCEPT !.text = @ + 1]

InputDelta(i) ==
  /\ HasBlock(i, "tool_use") /\ ~dec.blocks[i].whole /\ dec.blocks[i].parts < MaxInput
  /\ Handle([dec EXCEPT !.blocks[i].parts = @ + 1], <<>>)
  /\ said' = [said EXCEPT !.calls = Amend(@, i, None, 1)]

\* A tool call is complete; the fragments make an object, or BadFrame.
BlockStop(i) ==
  /\ Open /\ i \in DOMAIN dec.blocks
  /\ LET block == dec.blocks[i]
         call  == [index |-> i, id |-> block.id, parts |-> block.parts]
     IN  Handle([dec EXCEPT !.blocks = Restrict(@, DOMAIN @ \ {i}),
                            !.pending = IF block.kind = "text" THEN @ ELSE Append(@, call)],
                <<>>)
  /\ UNCHANGED said

MessageDelta(reason, counted) ==
  /\ Open
  /\ Handle([dec EXCEPT !.reason = IF reason = None THEN @ ELSE reason,
                        !.output = @ \/ counted], <<>>)
  /\ said' = [said EXCEPT !.reason = IF reason = None THEN @ ELSE reason]

Whole == DOMAIN dec.blocks = {} /\ dec.reason \in Supported

\* Mutant: the calls are handed out in the order their blocks were closed.
MutantInOrder(calls) == {calls}

\* The calls sorted by their indexes, and those of one index as they were closed.
InOrder(calls) ==
  LET Earlier(i, j) == \/ calls[i].index < calls[j].index
                       \/ calls[i].index = calls[j].index /\ i < j
  IN  {[k \in DOMAIN calls |-> calls[order[k]]] :
         order \in {f \in [DOMAIN calls -> DOMAIN calls] :
                      /\ \A i \in DOMAIN calls : \E k \in DOMAIN calls : f[k] = i
                      /\ \A k, l \in DOMAIN calls : k < l => Earlier(f[k], f[l])}}

MessageStop ==
  /\ Open /\ Whole
  /\ \E calls \in InOrder(dec.pending) :
       Handle([dec EXCEPT !.terminal = TRUE],
              [k \in DOMAIN calls |-> ToolCall(calls[k])]
                \o (IF dec.input /\ dec.output THEN <<Event("usage")>> ELSE <<>>)
                \o <<Completed>>)
  /\ UNCHANGED said

AnthropicInit == protocol = "anthropic" /\ DecodeInit(Decoder)

AnthropicFrame ==
  \/ \E c \in BOOLEAN : MessageStart(c)
  \/ \E i \in Indexes : TextStart(i) \/ TextDelta(i) \/ InputDelta(i) \/ BlockStop(i)
  \/ \E i \in Indexes, id \in Ids, w \in BOOLEAN : ToolStart(i, id, w)
  \/ \E reason \in Supported \cup {None, "max_tokens"}, c \in BOOLEAN : MessageDelta(reason, c)
  \/ MessageStop
=============================================================================
