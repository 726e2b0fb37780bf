-------------------------- MODULE ResilientGateway --------------------------
(***************************************************************************)
(* One stream() of ResilientRoutedHttpModelGateway                         *)
(* (packages/model-gateway/src/resilient-routed-gateway.ts): bounded       *)
(* retries per candidate provider and failover to the next one, each       *)
(* attempt an HTTP request (candidate-attempt.ts) whose body is decoded    *)
(* incrementally (adapters/stream-runtime.ts).                             *)
(*                                                                         *)
(* An abort may come at every await.  pc says where the stream waits:      *)
(*   start      before the first pull                                      *)
(*   backoff    in wait(delay, signal)                                     *)
(*   preparing  in credentials.get                                         *)
(*   sending    the HTTP request races the abort signal                    *)
(*   answered   the response won; its status is looked at next             *)
(*   reading    the next chunk of the body races the abort signal          *)
(*   decoding   inside a chunk, or the consumer holds the last event       *)
(*   ended      the stream is over                                         *)
(*   returned   the consumer gave the stream up                            *)
(* The credential store, the HTTP client and the provider answer whatever  *)
(* they like, or never.                                                    *)
(***************************************************************************)
EXTENDS Naturals, Sequences

CONSTANTS MaxCandidates, \* bound: providers a route resolves to
          MaxPer,        \* policy.maxAttemptsPerProvider
          MaxTotal,      \* policy.maxTotalAttempts
          MaxFrames,     \* bound: frames of a chunk
          MaxEvents      \* bound: after so many events only final frames come

ASSUME GatewayAssumption ==
  /\ MaxCandidates \in Nat \ {0}
  /\ MaxPer \in Nat \ {0}
  /\ MaxTotal \in Nat \ {0}
  /\ MaxFrames \in Nat \ {0}
  /\ MaxEvents \in Nat

VARIABLES aborted,  \* signal.aborted
          pc,
          n,        \* candidates.length
          cand,     \* the candidate being tried, n + 1 after the last one
          attempt,  \* attempts made at this candidate
          used,     \* attemptsUsed
          visible,  \* this attempt has shown an event
          last,     \* lastRetryableCode, or gateway_error
          frames,   \* frames left in the chunk
          batch,    \* events left of the frame
          final,    \* decoder.isTerminal(state)
          eof,      \* the body has ended; its last frame came with the end
          out,      \* events the consumer received
          http      \* the requests sent: candidate, and what became of each

loopVars == <<n, cand, attempt, used, last>>
bodyVars == <<frames, batch, final, eof>>
vars == <<aborted, pc, n, cand, attempt, used, visible, last,
          frames, batch, final, eof, out, http>>

Retryable == {"rate_limited", "upstream_unavailable"}
Errors    == Retryable \cup {"aborted", "gateway_error", "provider_protocol_error"}
Events    == {"text", "tool_call", "usage", "completed"}
Terminals == Errors \cup {"completed"}
Halted    == pc \in {"ended", "returned"}

\* What a frame decodes to: nothing, events, or the last events of the body.
OpenBatches  == {<<>>, <<"text">>, <<"tool_call", "usage">>}
FinalBatches == {<<"completed">>, <<"tool_call", "completed">>}
                  \cup {<<e>> : e \in Retryable \cup {"gateway_error"}}

Init == /\ aborted = FALSE
        /\ pc = "start"
        /\ n = 0 /\ cand = 1 /\ attempt = 0 /\ used = 0
        /\ visible = FALSE
        /\ last = "gateway_error"
        /\ frames = 0 /\ batch = <<>> /\ final = FALSE /\ eof = FALSE
        /\ out = <<>>
        /\ http = <<>>

Finish(e) == out' = Append(out, e) /\ pc' = "ended"

\* The last request's state; the requests before it are left alone.
Mark(state) == http' = [http EXCEPT ![Len(http)].state = state]

(***************************************************************************)
(* The loop over candidates and attempts.                                  *)
(***************************************************************************)
\* Mutant: the total budget is off by one.
MutantSpent == used > MaxTotal

Spent == used >= MaxTotal

\* The candidate and attempt that follow the current ones.
Following == IF attempt + 1 < MaxPer THEN <<cand, attempt + 1>> ELSE <<cand + 1, 0>>

\* Mutant: the run gives up when the first candidate is exhausted.
MutantAdvance(at, size, code) ==
  /\ cand' = at[1] /\ attempt' = at[2]
  /\ last' = code
  /\ \/ at[1] > 1 /\ Finish(code) /\ UNCHANGED <<used, visible>>
     \/ /\ at[1] = 1 /\ ~aborted
        /\ pc' = IF at[2] > 0 THEN "backoff" ELSE "preparing"
        /\ used' = IF at[2] > 0 THEN used ELSE used + 1
        /\ visible' = FALSE
        /\ UNCHANGED out

\* The loop's head at candidate at[1], attempt at[2], with size candidates.
Advance(at, size, code) ==
  /\ cand' = at[1] /\ attempt' = at[2]
  /\ last' = code
  /\ \/ at[1] > size /\ Finish(code) /\ UNCHANGED <<used, visible>>
     \/ at[1] <= size /\ aborted /\ Finish("aborted") /\ UNCHANGED <<used, visible>>
     \/ at[1] <= size /\ ~aborted /\ Spent /\ Finish(code) /\ UNCHANGED <<used, visible>>
     \/ /\ at[1] <= size /\ ~aborted /\ ~Spent
        /\ pc' = IF at[2] > 0 THEN "backoff" ELSE "preparing"
        /\ used' = IF at[2] > 0 THEN used ELSE used + 1
        /\ visible' = FALSE
        /\ UNCHANGED out

\* The first pull: candidates are resolved, or the route is unusable.
Start ==
  /\ pc = "start"
  /\ \/ aborted /\ Finish("aborted") /\ UNCHANGED <<loopVars, visible>>
     \/ ~aborted /\ Finish("gateway_error") /\ UNCHANGED <<loopVars, visible>>
     \/ /\ ~aborted
        /\ n' \in 1 .. MaxCandidates
        /\ Advance(<<1, 0>>, n', last)
  /\ UNCHANGED <<aborted, bodyVars, http>>

\* The wait is over, or the signal ended it.
BackoffOver ==
  /\ pc = "backoff"
  /\ \/ aborted /\ Finish("aborted") /\ UNCHANGED <<used, visible>>
     \/ /\ ~aborted
        /\ used' = used + 1
        /\ visible' = FALSE
        /\ pc' = "preparing"
        /\ UNCHANGED out
  /\ UNCHANGED <<aborted, n, cand, attempt, last, bodyVars, http>>

\* Mutant: a failed attempt may be answered although its output was shown.
MutantCommitted(code) == code \notin Retryable

\* Output was shown, or the error is none that another attempt may answer.
Committed(code) == visible \/ code \notin Retryable

\* The attempt ends with an error event.
AttemptError(code) ==
  /\ \/ Committed(code) /\ Finish(code) /\ UNCHANGED <<loopVars, visible>>
     \/ ~Committed(code) /\ Advance(Following, n, code) /\ UNCHANGED n
  /\ frames' = 0 /\ batch' = <<>> /\ final' = FALSE /\ eof' = FALSE
  /\ UNCHANGED aborted

(***************************************************************************)
(* One attempt: the request.                                               *)
(***************************************************************************)
\* prepareInvocation fails: no credential, another model, no encoding.
PrepareFails == pc = "preparing" /\ AttemptError("gateway_error") /\ UNCHANGED http

\* Mutant: sendRequest does not look at the signal first.
MutantPrepared ==
  /\ pc = "preparing"
  /\ http' = Append(http, [cand |-> cand, state |-> "inflight"])
  /\ pc' = "sending"
  /\ UNCHANGED <<aborted, loopVars, visible, bodyVars, out>>

\* The credential has come; the request is sent unless the signal is set.
Prepared ==
  /\ pc = "preparing"
  /\ \/ aborted /\ AttemptError("aborted") /\ UNCHANGED http
     \/ /\ ~aborted
        /\ http' = Append(http, [cand |-> cand, state |-> "inflight"])
        /\ pc' = "sending"
        /\ UNCHANGED <<aborted, loopVars, visible, bodyVars, out>>

\* Mutant: the response is awaited whatever the signal says.
MutantSendAborted == pc = "sending" /\ aborted /\ FALSE /\ UNCHANGED vars

\* The signal wins: a response that comes later is released unread.
SendAborted == pc = "sending" /\ aborted /\ AttemptError("aborted") /\ Mark("abandoned")

SendFails ==
  /\ pc = "sending"
  /\ AttemptError(IF aborted THEN "aborted" ELSE "upstream_unavailable")
  /\ Mark("released")

\* The response wins the race.
Response ==
  /\ pc = "sending" /\ ~aborted
  /\ Mark("open")
  /\ pc' = "answered"
  /\ UNCHANGED <<aborted, loopVars, visible, bodyVars, out>>

\* Mutant: a rejected response keeps its body.
MutantRejected ==
  /\ pc = "answered"
  /\ \E code \in Retryable \cup {"gateway_error"} : AttemptError(code)
  /\ UNCHANGED http

\* A status outside 2xx: the body is released unread.
Rejected ==
  /\ pc = "answered"
  /\ \E code \in Retryable \cup {"gateway_error"} : AttemptError(code)
  /\ Mark("released")

\* A 2xx response without a body.
NoBody == pc = "answered" /\ AttemptError("provider_protocol_error") /\ Mark("released")

\* The body goes to the decoder, which looks at the signal before it asks the
\* body for its iterator.  If the abort comes just then, nobody has the iterator
\* and nobody gives it back: the body stays unread and unreleased.
Decode ==
  /\ pc = "answered"
  /\ \/ aborted /\ AttemptError("aborted") /\ Mark("unread")
     \/ /\ ~aborted
        /\ Mark("decoding")
        /\ pc' = "reading"
        /\ UNCHANGED <<aborted, loopVars, visible, bodyVars, out>>

(***************************************************************************)
(* One attempt: the body, decodeFrameStream.                               *)
(***************************************************************************)
\* Every way out of the decoder releases the body's iterator.
DecodeError(code) == AttemptError(code) /\ Mark("released")

ReadAborted == pc = "reading" /\ aborted /\ DecodeError("aborted")

\* The body's iterator rejects.
ReadFails == pc = "reading" /\ DecodeError("gateway_error")

\* The body ends before the protocol does, or a carriage return that ended
\* the body completes one more frame.
ReadEnds ==
  /\ pc = "reading" /\ ~aborted
  /\ \/ DecodeError("provider_protocol_error")
     \/ /\ frames' = 1 /\ eof' = TRUE
        /\ pc' = "decoding"
        /\ UNCHANGED <<aborted, loopVars, visible, batch, final, out, http>>

Chunk ==
  /\ pc = "reading" /\ ~aborted
  /\ frames' \in 0 .. MaxFrames
  /\ pc' = "decoding"
  /\ UNCHANGED <<aborted, loopVars, visible, batch, final, eof, out, http>>

Drained == frames = 0 /\ batch = <<>>
Decoding == pc = "decoding" /\ ~(final /\ batch = <<>>) /\ ~(eof /\ Drained)

\* The signal is looked at before every frame and before every event.
DecodeAborted == Decoding /\ aborted /\ DecodeError("aborted")

\* The next frame of the chunk.
Frame ==
  /\ Decoding /\ ~aborted /\ batch = <<>> /\ frames > 0
  /\ frames' = frames - 1
  /\ \/ batch' \in OpenBatches /\ (batch' = <<>> \/ Len(out) < MaxEvents) /\ UNCHANGED final
     \/ batch' \in FinalBatches /\ final' = TRUE
  /\ UNCHANGED <<aborted, pc, loopVars, visible, eof, out, http>>

\* The frame is malformed, too long, or against the protocol.
BadFrame ==
  /\ Decoding /\ ~aborted /\ batch = <<>> /\ frames > 0
  /\ DecodeError("provider_protocol_error")

ChunkDone ==
  /\ Decoding /\ ~aborted /\ Drained
  /\ pc' = "reading"
  /\ UNCHANGED <<aborted, loopVars, visible, bodyVars, out, http>>

\* The frame that came with the end was not the last of the protocol.
BodyDone == pc = "decoding" /\ eof /\ Drained /\ ~final /\ DecodeError("provider_protocol_error")

\* The next event of the frame goes to the consumer as it is.
Emit ==
  /\ Decoding /\ ~aborted /\ batch # <<>> /\ Head(batch) \in Events
  /\ visible' = TRUE
  /\ out' = Append(out, Head(batch))
  /\ batch' = Tail(batch)
  /\ UNCHANGED <<aborted, pc, loopVars, frames, final, eof, http>>

EmitError == Decoding /\ ~aborted /\ batch # <<>> /\ Head(batch) \in Errors /\ DecodeError(Head(batch))

\* Mutant: a stream that completed after an abort still reports the abort.
MutantDecoded ==
  /\ pc = "decoding" /\ final /\ batch = <<>>
  /\ IF aborted THEN Finish("aborted") ELSE pc' = "ended" /\ UNCHANGED out
  /\ Mark("released")
  /\ UNCHANGED <<aborted, loopVars, visible, bodyVars>>

\* The terminal frame was shown: decoder, attempt and stream are over.
Decoded ==
  /\ pc = "decoding" /\ final /\ batch = <<>>
  /\ pc' = "ended"
  /\ Mark("released")
  /\ UNCHANGED <<aborted, loopVars, visible, bodyVars, out>>

(***************************************************************************)
(* The consumer and the network.                                           *)
(***************************************************************************)
Abort == /\ ~aborted /\ ~Halted
         /\ aborted' = TRUE
         /\ UNCHANGED <<pc, loopVars, visible, bodyVars, out, http>>

\* return() at the yield of an event unwinds the decoder's finally block.
Return == /\ pc = "decoding" /\ visible
          /\ pc' = "returned"
          /\ Mark("released")
          /\ UNCHANGED <<aborted, loopVars, visible, bodyVars, out>>

\* Mutant: nobody waits for the response any more and its body is kept.
MutantLateResponse == /\ http # <<>> /\ http[Len(http)].state = "abandoned"
                      /\ Mark("open")
                      /\ UNCHANGED <<aborted, pc, loopVars, visible, bodyVars, out>>

\* The response to an abandoned request comes after all and its body is
\* released unread, or the request fails.
LateResponse == /\ http # <<>> /\ http[Len(http)].state = "abandoned"
                /\ Mark("released")
                /\ UNCHANGED <<aborted, pc, loopVars, visible, bodyVars, out>>

Next == \/ Start \/ BackoffOver \/ PrepareFails \/ Prepared
        \/ SendAborted \/ SendFails \/ Response \/ Rejected \/ NoBody \/ Decode
        \/ ReadAborted \/ ReadFails \/ ReadEnds \/ Chunk
        \/ DecodeAborted \/ Frame \/ BadFrame \/ ChunkDone \/ BodyDone
        \/ Emit \/ EmitError \/ Decoded
        \/ Abort \/ Return \/ LateResponse

Spec == Init /\ [][Next]_vars

\* The consumer pulls, the timer fires and the signal is served; nobody else
\* need ever answer.
Fairness == /\ WF_vars(Start) /\ WF_vars(BackoffOver)
            /\ WF_vars(SendAborted)
            /\ WF_vars(Rejected \/ NoBody \/ Decode)
            /\ WF_vars(ReadAborted) /\ WF_vars(DecodeAborted)
            /\ WF_vars(Frame \/ BadFrame) /\ WF_vars(ChunkDone) /\ WF_vars(BodyDone)
            /\ WF_vars(Emit) /\ WF_vars(EmitError) /\ WF_vars(Decoded)

FairSpec == Spec /\ Fairness

(***************************************************************************)
(* Properties.                                                             *)
(***************************************************************************)
\* A stream that ends has exactly one terminal event, its last: errors that
\* were answered by another attempt never show, and a completion is not
\* followed by the abort that comes just after it.
OneOutcome ==
  /\ \A i \in 1 .. Len(out) - 1 : out[i] \notin Terminals
  /\ pc = "ended" => out # <<>> /\ out[Len(out)] \in Terminals

\* A request is only sent while the consumer has seen nothing and waits for
\* it: text, tool calls and usage are never repeated by a retry or by another
\* provider, and nothing is sent after an abort, also not when it comes during
\* the backoff or while the credential is looked up.
SentOnlyWhileWanted == [][Len(http') > Len(http) => out = <<>> /\ ~aborted]_vars

\* Candidates are tried in their order, none again once left, each at most
\* MaxPer times and all together at most MaxTotal times; and no fewer: a
\* retryable error is the last word only if nothing of the budgets is left.
WithinBudget ==
  /\ Len(http) <= used /\ used <= MaxTotal
  /\ \A i, j \in DOMAIN http : i < j => http[i].cand <= http[j].cand
  /\ \A i, j \in DOMAIN http :
       i <= j /\ http[i].cand = http[j].cand => j - i < MaxPer
  /\ pc = "ended" /\ out # <<>> /\ out[1] \in Retryable =>
       used = MaxTotal \/ used = n * MaxPer

\* Requests do not overlap, and whatever became of one, its connection is given
\* back: a response is held only while the loop looks at its status, a body only
\* while it is read.  A stream that is over has released every response, the
\* rejected and the failed ones too, but for two cases, both of the last request
\* of a stream that shows nothing but an abort: the response may still come, and
\* is released then (abandoned), or it came just before the abort and is left
\* (unread, which BodiesReleased is about).
OneLiveRequest ==
  \A i \in DOMAIN http :
    /\ http[i].state = "inflight" => i = Len(http) /\ pc = "sending"
    /\ http[i].state = "open" => i = Len(http) /\ pc = "answered"
    /\ http[i].state = "decoding" => i = Len(http) /\ pc \in {"reading", "decoding"}
    /\ http[i].state \in {"abandoned", "unread"} =>
         i = Len(http) /\ pc = "ended" /\ out = <<"aborted">>

\* docs/http-transport.md: on an abort the body's iterator is released by
\* return().  Once the stream is over each response is released, or will be when
\* it comes.
BodiesReleased ==
  Halted => \A i \in DOMAIN http : http[i].state \in {"released", "abandoned"}

\* An abort ends the stream, although the provider hangs; only a credential
\* store that never answers can hold it.
AbortEnds == aborted ~> Halted \/ pc = "preparing"
=============================================================================
