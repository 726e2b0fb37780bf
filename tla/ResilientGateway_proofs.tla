----------------------- MODULE ResilientGateway_proofs -----------------------
(***************************************************************************)
(* Theorems about ResilientGateway and, at the end, ProviderDiscovery, for *)
(* any route, any budgets and any bodies.                                  *)
(*                                                                         *)
(* OneOutcome and SentOnlyWhileWanted: up to the body the consumer has     *)
(* seen nothing; inside a body what it has seen is told by visible, and a  *)
(* completion is the last event of the last frame.                         *)
(***************************************************************************)
EXTENDS MCResilientGateway, TLAPS

Before == {"start", "backoff", "preparing", "sending", "answered"}
Waits  == Before \cup {"reading", "decoding", "ended", "returned"}

\* What may be left of a frame, and of the last one.
OpenRests  == OpenBatches \cup {<<"usage">>}
FinalRests == FinalBatches \cup {<<>>}

StreamTypes == /\ pc \in Waits
               /\ visible \in BOOLEAN /\ final \in BOOLEAN
               /\ last \in Errors
               /\ out \in Seq(Terminals \cup Events)
               /\ batch \in IF final THEN FinalRests ELSE OpenRests

\* No terminal event so far; or one, the last.
Clean == \A i \in 1 .. Len(out) : out[i] \notin Terminals
Over  == /\ out # <<>> /\ out[Len(out)] \in Terminals
         /\ \A i \in 1 .. Len(out) - 1 : out[i] \notin Terminals

Shown == /\ pc \in Before => out = <<>> /\ ~visible
         /\ pc \in Before \cup {"reading"} => batch = <<>> /\ ~final
         /\ pc \in {"reading", "decoding"} /\ ~visible => out = <<>>
         /\ pc = "reading" => Clean
         /\ pc \in {"decoding", "returned"} =>
              IF final /\ batch = <<>> THEN Over ELSE Clean
         /\ pc = "ended" => Over

GatewayInv == StreamTypes /\ Shown

LEMMA InitInv == Init => GatewayInv
<1> SUFFICES ASSUME Init PROVE GatewayInv OBVIOUS
<1>1. batch \in IF final THEN FinalRests ELSE OpenRests
  BY DEF Init, OpenRests, OpenBatches
<1>2. out \in Seq(Terminals \cup Events) BY DEF Init
<1> QED BY <1>1, <1>2 DEF Init, GatewayInv, StreamTypes, Shown, Waits, Before, Errors

LEMMA AppendOver ==
  ASSUME out \in Seq(Terminals \cup Events), Clean, NEW e \in Terminals, out' = Append(out, e)
  PROVE  Over' /\ out' \in Seq(Terminals \cup Events)
<1>1. out' \in Seq(Terminals \cup Events) /\ Len(out') = Len(out) + 1 /\ Len(out) \in Nat OBVIOUS
<1>2. \A i \in 1 .. Len(out) : out'[i] = out[i] OBVIOUS
<1>3. out'[Len(out')] = e /\ out' # <<>> BY <1>1
<1> QED BY <1>1, <1>2, <1>3 DEF Clean, Over

LEMMA AppendClean ==
  ASSUME out \in Seq(Terminals \cup Events), Clean,
         NEW e \in Events \ Terminals, out' = Append(out, e)
  PROVE  Clean' /\ out' \in Seq(Terminals \cup Events)
<1>1. out' \in Seq(Terminals \cup Events) /\ Len(out') = Len(out) + 1 /\ Len(out) \in Nat OBVIOUS
<1>2. \A i \in 1 .. Len(out) : out'[i] = out[i] OBVIOUS
<1>3. out'[Len(out')] = e BY <1>1
<1> QED BY <1>1, <1>2, <1>3 DEF Clean

\* The stream ends with an error while no terminal event was shown.
LEMMA FinishInv ==
  ASSUME GatewayInv, Clean, NEW code \in Errors, Finish(code),
         visible' \in BOOLEAN, final' \in BOOLEAN, last' \in Errors,
         batch' \in IF final' THEN FinalRests ELSE OpenRests
  PROVE  GatewayInv'
<1>1. code \in Terminals /\ pc' = "ended" /\ out' = Append(out, code) BY DEF Finish, Terminals
<1>2. Over' /\ out' \in Seq(Terminals \cup Events)
  BY <1>1, AppendOver DEF GatewayInv, StreamTypes
<1> QED BY <1>1, <1>2 DEF GatewayInv, StreamTypes, Shown, Waits, Before

\* The loop's head is reached while the consumer has seen nothing.
LEMMA AdvanceInv ==
  ASSUME GatewayInv, out = <<>>, ~visible, NEW to, NEW count, NEW code \in Errors,
         Advance(to, count, code), batch' = <<>>, final' = FALSE
  PROVE  GatewayInv'
<1>1. Clean BY DEF Clean
<1>2. "aborted" \in Errors /\ last' \in Errors BY DEF Errors, Advance
<1>3. batch' \in IF final' THEN FinalRests ELSE OpenRests
  BY DEF OpenRests, OpenBatches
<1>4. ASSUME NEW e \in Errors, Finish(e), UNCHANGED visible PROVE GatewayInv'
  BY <1>1, <1>2, <1>3, <1>4, FinishInv DEF GatewayInv, StreamTypes
<1>5. CASE pc' \in {"backoff", "preparing"} /\ visible' = FALSE /\ UNCHANGED out
  BY <1>2, <1>3, <1>5 DEF GatewayInv, StreamTypes, Shown, Waits, Before
<1> QED BY <1>2, <1>4, <1>5 DEF Advance

\* An attempt may fail wherever it has not completed.
LEMMA AttemptErrorInv ==
  ASSUME GatewayInv, Clean, pc \notin {"ended", "returned"},
         NEW code \in Errors, AttemptError(code)
  PROVE  GatewayInv'
<1>1. batch' = <<>> /\ final' = FALSE BY DEF AttemptError
<1>2. CASE Committed(code) /\ Finish(code) /\ UNCHANGED <<loopVars, visible>>
  <2>1. batch' \in IF final' THEN FinalRests ELSE OpenRests
    BY <1>1 DEF OpenRests, OpenBatches
  <2> QED BY <1>1, <1>2, <2>1, FinishInv DEF GatewayInv, StreamTypes, loopVars
<1>3. CASE ~Committed(code) /\ Advance(Following, n, code)
  <2>1. ~visible /\ out = <<>>
    BY <1>3 DEF Committed, GatewayInv, StreamTypes, Shown, Waits
  <2> QED BY <1>1, <1>3, <2>1, AdvanceInv
<1> QED BY <1>2, <1>3 DEF AttemptError

\* An attempt that has shown nothing yet.
LEMMA EarlyErrorInv ==
  ASSUME GatewayInv, pc \in Before \cup {"reading"}, NEW code \in Errors, AttemptError(code)
  PROVE  GatewayInv'
<1>1. Clean BY DEF GatewayInv, StreamTypes, Shown, Clean
<1> QED BY <1>1, AttemptErrorInv DEF Before

LEMMA DecodingInv ==
  ASSUME GatewayInv, Decoding \/ (pc = "decoding" /\ ~final), NEW code \in Errors, AttemptError(code)
  PROVE  GatewayInv'
<1>1. pc = "decoding" /\ Clean BY DEF GatewayInv, Shown, Decoding
<1> QED BY <1>1, AttemptErrorInv

\* What is left of a frame when its next event was taken.
LEMMA OpenRest ==
  ASSUME NEW b \in OpenRests, b # <<>>
  PROVE  Head(b) \in Events \ Terminals /\ Tail(b) \in OpenRests
<1> USE DEF OpenRests, OpenBatches, Events, Terminals, Errors, Retryable
<1>1. CASE b = <<"text">>
  <2>1. Head(b) = "text" /\ Tail(b) = <<>> BY <1>1
  <2> QED BY <2>1
<1>2. CASE b = <<"usage">>
  <2>1. Head(b) = "usage" /\ Tail(b) = <<>> BY <1>2
  <2> QED BY <2>1
<1>3. CASE b = <<"tool_call", "usage">>
  <2>1. Head(b) = "tool_call" /\ Tail(b) = <<"usage">> BY <1>3
  <2> QED BY <2>1
<1> QED BY <1>1, <1>2, <1>3

\* The last frame ends with a completion or is an error.
LEMMA FinalRest ==
  ASSUME NEW b \in FinalRests, b # <<>>
  PROVE  \/ Head(b) = "completed" /\ Tail(b) = <<>>
         \/ Head(b) \in Events \ Terminals /\ Tail(b) = <<"completed">>
         \/ Head(b) \notin Events
<1> USE DEF FinalRests, FinalBatches, Events, Terminals, Errors, Retryable
<1>1. CASE b = <<"completed">> BY <1>1
<1>2. CASE b = <<"tool_call", "completed">>
  <2>1. Head(b) = "tool_call" /\ Tail(b) = <<"completed">> BY <1>2
  <2> QED BY <2>1
<1>3. ASSUME NEW e \in Retryable \cup {"gateway_error"}, b = <<e>> PROVE Head(b) \notin Events
  <2>1. Head(b) = e BY <1>3
  <2> QED BY <1>3, <2>1
<1> QED BY <1>1, <1>2, <1>3

LEMMA EmitInv == ASSUME GatewayInv, Emit PROVE GatewayInv'
<1> DEFINE e == Head(batch)
<1>1. /\ pc = "decoding" /\ pc' = "decoding" /\ visible' = TRUE /\ batch # <<>>
      /\ e \in Events /\ out' = Append(out, e) /\ batch' = Tail(batch)
      /\ UNCHANGED <<final, last>>
  BY DEF Emit, Decoding, loopVars
<1>2. Clean /\ out \in Seq(Terminals \cup Events) BY <1>1 DEF GatewayInv, StreamTypes, Shown
<1>3. CASE final
  <2>1. batch \in FinalRests /\ final' BY <1>1, <1>3 DEF GatewayInv, StreamTypes
  <2>2. CASE e = "completed" /\ Tail(batch) = <<>>
    <3>1. Over' /\ out' \in Seq(Terminals \cup Events)
      BY <1>1, <1>2, <2>2, AppendOver DEF Terminals
    <3> QED BY <1>1, <2>1, <2>2, <3>1
           DEF GatewayInv, StreamTypes, Shown, Waits, Before, FinalRests
  <2>3. CASE e \in Events \ Terminals /\ Tail(batch) = <<"completed">>
    <3>1. Clean' /\ out' \in Seq(Terminals \cup Events) BY <1>1, <1>2, <2>3, AppendClean
    <3>2. batch' \in FinalRests /\ batch' # <<>> BY <1>1, <2>3 DEF FinalRests, FinalBatches
    <3> QED BY <1>1, <2>1, <3>1, <3>2 DEF GatewayInv, StreamTypes, Shown, Waits, Before
  <2> QED BY <1>1, <2>1, <2>2, <2>3, FinalRest
<1>4. CASE ~final
  <2>1. e \in Events \ Terminals /\ batch' \in OpenRests
    BY <1>1, <1>4, OpenRest DEF GatewayInv, StreamTypes
  <2>2. Clean' /\ out' \in Seq(Terminals \cup Events) BY <1>1, <1>2, <2>1, AppendClean
  <2> QED BY <1>1, <1>4, <2>1, <2>2 DEF GatewayInv, StreamTypes, Shown, Waits, Before
<1> QED BY <1>3, <1>4 DEF GatewayInv, StreamTypes

LEMMA NextInv == ASSUME GatewayInv, [Next]_vars PROVE GatewayInv'
<1>e. /\ {"aborted", "gateway_error", "upstream_unavailable", "provider_protocol_error"} \subseteq Errors
      /\ Retryable \subseteq Errors
  BY DEF Errors, Retryable
<1>1. CASE UNCHANGED vars
  BY <1>1 DEF vars, loopVars, GatewayInv, StreamTypes, Shown, Clean, Over
<1>2. CASE Start
  <2>1. /\ out = <<>> /\ ~visible /\ batch = <<>> /\ ~final /\ Clean
        /\ UNCHANGED <<batch, final>>
    BY <1>2 DEF Start, bodyVars, GatewayInv, Shown, Before, Clean
  <2>2. ASSUME NEW e \in Errors, Finish(e), UNCHANGED <<loopVars, visible>> PROVE GatewayInv'
    BY <2>1, <2>2, FinishInv DEF GatewayInv, StreamTypes, loopVars
  <2>3. ASSUME Advance(<<1, 0>>, n', last) PROVE GatewayInv'
    BY <2>1, <2>3, AdvanceInv DEF GatewayInv, StreamTypes
  <2> QED BY <1>2, <1>e, <2>2, <2>3 DEF Start
<1>3. CASE BackoffOver
  <2>1. /\ out = <<>> /\ ~visible /\ batch = <<>> /\ ~final /\ Clean
        /\ UNCHANGED <<batch, final, last>>
    BY <1>3 DEF BackoffOver, bodyVars, GatewayInv, Shown, Before, Clean
  <2>2. CASE Finish("aborted") /\ UNCHANGED <<used, visible>>
    BY <1>e, <2>1, <2>2, FinishInv DEF GatewayInv, StreamTypes
  <2>3. CASE visible' = FALSE /\ pc' = "preparing" /\ UNCHANGED out
    BY <2>1, <2>3 DEF GatewayInv, StreamTypes, Shown, Waits, Before
  <2> QED BY <1>3, <2>2, <2>3 DEF BackoffOver
<1>4. CASE PrepareFails BY <1>4, <1>e, EarlyErrorInv DEF PrepareFails, Before
<1>5. CASE Prepared
  <2>1. CASE AttemptError("aborted") BY <1>5, <1>e, <2>1, EarlyErrorInv DEF Prepared, Before
  <2>2. CASE pc' = "sending" /\ UNCHANGED <<loopVars, visible, bodyVars, out>>
    BY <1>5, <2>2 DEF Prepared, loopVars, bodyVars, GatewayInv, StreamTypes, Shown, Waits, Before
  <2> QED BY <1>5, <2>1, <2>2 DEF Prepared
<1>6. CASE SendAborted BY <1>6, <1>e, EarlyErrorInv DEF SendAborted, Before
<1>7. CASE SendFails BY <1>7, <1>e, EarlyErrorInv DEF SendFails, Before
<1>8. CASE Response
  BY <1>8 DEF Response, loopVars, bodyVars, GatewayInv, StreamTypes, Shown, Waits, Before
<1>9. CASE Rejected BY <1>9, <1>e, EarlyErrorInv DEF Rejected, Before
<1>10. CASE NoBody BY <1>10, <1>e, EarlyErrorInv DEF NoBody, Before
<1>11. CASE Decode
  <2>1. CASE AttemptError("aborted") BY <1>11, <1>e, <2>1, EarlyErrorInv DEF Decode, Before
  <2>2. CASE pc' = "reading" /\ UNCHANGED <<loopVars, visible, bodyVars, out>>
    BY <1>11, <2>2
       DEF Decode, loopVars, bodyVars, GatewayInv, StreamTypes, Shown, Waits, Before, Clean
  <2> QED BY <1>11, <2>1, <2>2 DEF Decode
<1>12. CASE ReadAborted BY <1>12, <1>e, EarlyErrorInv DEF ReadAborted, DecodeError
<1>13. CASE ReadFails BY <1>13, <1>e, EarlyErrorInv DEF ReadFails, DecodeError
<1>14. CASE ReadEnds
  <2>1. CASE DecodeError("provider_protocol_error")
    BY <1>14, <1>e, <2>1, EarlyErrorInv DEF ReadEnds, DecodeError
  <2>2. CASE pc' = "decoding" /\ UNCHANGED <<loopVars, visible, batch, final, out>>
    BY <1>14, <2>2
       DEF ReadEnds, loopVars, GatewayInv, StreamTypes, Shown, Waits, Before, Clean
  <2> QED BY <1>14, <2>1, <2>2 DEF ReadEnds
<1>15. CASE Chunk
  BY <1>15 DEF Chunk, loopVars, GatewayInv, StreamTypes, Shown, Waits, Before, Clean
<1>16. CASE DecodeAborted BY <1>16, <1>e, DecodingInv DEF DecodeAborted, DecodeError
<1>17. CASE Frame
  <2>1. /\ pc = "decoding" /\ pc' = "decoding" /\ batch = <<>> /\ ~final /\ Clean
        /\ UNCHANGED <<visible, last, out>>
    BY <1>17 DEF Frame, Decoding, loopVars, GatewayInv, StreamTypes, Shown
  <2>2. Clean' BY <2>1 DEF Clean
  <2>3. CASE batch' \in OpenBatches /\ UNCHANGED final
    BY <2>1, <2>2, <2>3 DEF GatewayInv, StreamTypes, Shown, Waits, Before, OpenRests
  <2>4. CASE batch' \in FinalBatches /\ final' = TRUE
    <3>1. batch' # <<>> BY <2>4 DEF FinalBatches
    <3> QED BY <2>1, <2>2, <2>4, <3>1 DEF GatewayInv, StreamTypes, Shown, Waits, Before, FinalRests
  <2> QED BY <1>17, <2>3, <2>4 DEF Frame
<1>18. CASE BadFrame BY <1>18, <1>e, DecodingInv DEF BadFrame, DecodeError
<1>19. CASE ChunkDone
  BY <1>19 DEF ChunkDone, Decoding, Drained, loopVars, bodyVars,
               GatewayInv, StreamTypes, Shown, Waits, Before, Clean
<1>20. CASE BodyDone BY <1>20, <1>e, DecodingInv DEF BodyDone, DecodeError
<1>21. CASE Emit BY <1>21, EmitInv
<1>22. CASE EmitError BY <1>22, DecodingInv DEF EmitError, DecodeError
<1>23. CASE Decoded
  BY <1>23 DEF Decoded, loopVars, bodyVars, GatewayInv, StreamTypes, Shown, Waits, Before, Over
<1>24. CASE Abort
  BY <1>24 DEF Abort, loopVars, bodyVars, GatewayInv, StreamTypes, Shown, Clean, Over
<1>25. CASE Return
  BY <1>25 DEF Return, loopVars, bodyVars, GatewayInv, StreamTypes, Shown, Waits, Before, Clean, Over
<1>26. CASE LateResponse
  BY <1>26 DEF LateResponse, loopVars, bodyVars, GatewayInv, StreamTypes, Shown, Clean, Over
<1> QED BY <1>1, <1>2, <1>3, <1>4, <1>5, <1>6, <1>7, <1>8, <1>9, <1>10, <1>11, <1>12, <1>13,
           <1>14, <1>15, <1>16, <1>17, <1>18, <1>19, <1>20, <1>21, <1>22, <1>23, <1>24, <1>25,
           <1>26 DEF Next

\* Whatever the providers, the credential store and the network answer, a
\* stream that ends has exactly one terminal event, its last: failures that a
\* retry or another provider made good never show.
THEOREM StreamEndsOnce == Spec => []OneOutcome
<1>1. GatewayInv => OneOutcome
  <2> SUFFICES ASSUME GatewayInv PROVE OneOutcome OBVIOUS
  <2>1. Clean \/ Over BY DEF GatewayInv, StreamTypes, Shown, Waits, Clean
  <2>2. Len(out) \in Nat BY DEF GatewayInv, StreamTypes
  <2> QED BY <2>1, <2>2 DEF GatewayInv, Shown, Clean, Over, OneOutcome
<1> QED BY InitInv, NextInv, <1>1, PTL DEF Spec

\* No provider is asked after an event was shown or after an abort, for any
\* number of candidates and attempts: nothing is shown or billed twice.
THEOREM NothingSentTwice == Spec => SentOnlyWhileWanted
<1>1. ASSUME GatewayInv, [Next]_vars
      PROVE  [Len(http') > Len(http) => out = <<>> /\ ~aborted]_vars
  <2>1. CASE UNCHANGED http BY <2>1
  <2>2. ASSUME NEW s, Mark(s) PROVE Len(http') = Len(http) BY <2>2 DEF Mark
  <2>3. CASE Prepared
    BY <1>1, <2>1, <2>3 DEF Prepared, GatewayInv, Shown, Before
  <2> QED BY <1>1, <2>1, <2>2, <2>3 DEF Next, Start, BackoffOver, PrepareFails, SendAborted,
        SendFails, Response, Rejected, NoBody, Decode, ReadAborted, ReadFails, ReadEnds, Chunk,
        DecodeAborted, Frame, BadFrame, ChunkDone, BodyDone, Emit, EmitError, Decoded,
        DecodeError, Abort, Return, LateResponse
<1> QED BY InitInv, NextInv, <1>1, PTL DEF Spec, SentOnlyWhileWanted

(***************************************************************************)
(* The budgets and the requests.  Every attempt is counted in used once,   *)
(* so that used tells how many candidates and attempts lie behind; of the  *)
(* current candidate as many requests were sent as attempts were made;     *)
(* before a new request everything sent is released.                       *)
(***************************************************************************)
Sent    == {"sending", "answered", "reading", "decoding"}
Busy    == Sent \cup {"preparing"}
States  == {"inflight", "open", "decoding", "released", "abandoned", "unread"}
Records == [cand : Nat, state : States]

BudgetTypes == /\ n \in Nat /\ cand \in Nat \ {0} /\ attempt \in Nat /\ used \in Nat
               /\ http \in Seq(Records)

Tried(c) == (c - 1) * MaxPer

Counted ==
  /\ Len(http) <= used /\ used <= MaxTotal
  /\ attempt < MaxPer
  /\ pc = "start" => cand = 1 /\ attempt = 0 /\ used = 0 /\ http = <<>>
  /\ pc = "backoff" => used = Tried(cand) + attempt /\ used < MaxTotal
  /\ pc \in Busy => used = Tried(cand) + attempt + 1
  /\ pc = "preparing" => Len(http) < used
  /\ pc \in Busy \cup {"backoff"} => cand <= n

InOrder ==
  /\ \A i \in 1 .. Len(http) : http[i].cand <= cand
  /\ \A i, j \in 1 .. Len(http) : i < j => http[i].cand <= http[j].cand
  /\ \A i, j \in 1 .. Len(http) : i <= j /\ http[i].cand = http[j].cand => j - i < MaxPer
  /\ pc \in {"backoff", "preparing"} =>
       \A i \in 1 .. Len(http) : http[i].cand = cand => Len(http) - i < attempt
  /\ pc \in Sent =>
       \A i \in 1 .. Len(http) : http[i].cand = cand => Len(http) - i <= attempt

LastWord ==
  /\ visible => out # <<>>
  /\ pc # "ended" => out = <<>> \/ out[1] \notin Retryable
  /\ pc = "ended" /\ out[1] \in Retryable => used = MaxTotal \/ used = n * MaxPer

\* The stream has shown nothing but that it was aborted.
BareAbort == pc = "ended" /\ out = <<"aborted">>

Released ==
  /\ pc \in Sent => http # <<>>
  /\ \A i \in 1 .. Len(http) :
       /\ http[i].state = "inflight" => i = Len(http) /\ pc = "sending"
       /\ http[i].state = "open" => i = Len(http) /\ pc = "answered"
       /\ http[i].state = "decoding" => i = Len(http) /\ pc \in {"reading", "decoding"}
       /\ http[i].state \in {"abandoned", "unread"} => i = Len(http) /\ BareAbort
       /\ i < Len(http) \/ pc \in {"backoff", "preparing"} => http[i].state = "released"

BudgetInv == BudgetTypes /\ Counted /\ InOrder /\ LastWord /\ Released

(***************************************************************************)
(* Arithmetic and the requests.                                            *)
(***************************************************************************)
LEMMA Distributes == \A a, b \in Nat : a * b \in Nat /\ (a + 1) * b = a * b + b
OBVIOUS

LEMMA TriedFacts ==
  /\ Tried(1) = 0
  /\ \A c \in Nat \ {0} : Tried(c) \in Nat /\ Tried(c + 1) = Tried(c) + MaxPer
  /\ \A m \in Nat : Tried(m + 1) = m * MaxPer
<1>1. MaxPer \in Nat BY GatewayAssumption
<1>2. ASSUME NEW m \in Nat PROVE m * MaxPer \in Nat /\ (m + 1) * MaxPer = m * MaxPer + MaxPer
  BY <1>1, Distributes
<1>3. ASSUME NEW m \in Nat PROVE Tried(m + 1) = m * MaxPer
  <2>1. (m + 1) - 1 = m OBVIOUS
  <2> QED BY <2>1 DEF Tried
<1>4. ASSUME NEW c \in Nat \ {0} PROVE Tried(c) \in Nat /\ Tried(c + 1) = Tried(c) + MaxPer
  <2>1. c - 1 \in Nat /\ (c - 1) + 1 = c OBVIOUS
  <2>2. Tried(c) = (c - 1) * MaxPer BY DEF Tried
  <2>3. Tried(c + 1) = c * MaxPer BY <1>3
  <2> QED BY <1>2, <2>1, <2>2, <2>3
<1>5. Tried(1) = 0
  <2>1. Tried(0 + 1) = 0 * MaxPer BY <1>3
  <2> QED BY <1>1, <2>1
<1> QED BY <1>3, <1>4, <1>5

\* The requests sent are the same ones, whatever became of them.
SameRequests == /\ http' \in Seq(Records) /\ Len(http') = Len(http)
                /\ \A i \in 1 .. Len(http) : http'[i].cand = http[i].cand

LEMMA MarkShape ==
  ASSUME http \in Seq(Records), NEW s \in States, Mark(s)
  PROVE  /\ SameRequests
         /\ \A i \in 1 .. Len(http) :
              http'[i].state = IF i = Len(http) THEN s ELSE http[i].state
<1>1. Len(http) \in Nat OBVIOUS
<1>2. http' = [http EXCEPT ![Len(http)].state = s] BY DEF Mark
<1>3. ASSUME NEW i \in 1 .. Len(http)
      PROVE  /\ http'[i] \in Records
             /\ http'[i].cand = http[i].cand
             /\ http'[i].state = IF i = Len(http) THEN s ELSE http[i].state
  <2>1. http[i] \in Records OBVIOUS
  <2>2. http'[i] = IF i = Len(http) THEN [http[i] EXCEPT !.state = s] ELSE http[i]
    BY <1>1, <1>2
  <2> QED BY <2>1, <2>2 DEF Records
<1>4. Len(http') = Len(http) /\ http' \in Seq(Records)
  <2> DEFINE e == [http[Len(http)] EXCEPT !.state = s]
  <2>0. http' = [http EXCEPT ![Len(http)] = e] BY <1>2
  <2> HIDE DEF e
  <2>1. http' = [i \in 1 .. Len(http) |-> http'[i]]
    <3>1. DOMAIN http = 1 .. Len(http) OBVIOUS
    <3>2. http' = [i \in DOMAIN http |-> IF i = Len(http) THEN e ELSE http[i]] BY <2>0
    <3> QED BY <3>1, <3>2
  <2>2. http' \in [1 .. Len(http) -> Records] BY <1>3, <2>1
  <2> QED BY <1>1, <2>2
<1> QED BY <1>3, <1>4 DEF SameRequests

LEMMA UnchangedRequests == ASSUME BudgetTypes, UNCHANGED http PROVE SameRequests
BY DEF BudgetTypes, SameRequests

LEMMA RequestTypes == ASSUME BudgetTypes PROVE \A i \in 1 .. Len(http) : http[i].cand \in Nat
<1>1. http \in Seq(Records) BY DEF BudgetTypes
<1>2. \A i \in 1 .. Len(http) : http[i] \in Records BY <1>1
<1> QED BY <1>2 DEF Records

\* The counters are numbers.
LEMMA Numbers ==
  ASSUME BudgetTypes, Counted
  PROVE  /\ n \in Nat /\ cand \in Nat \ {0} /\ attempt \in Nat /\ used \in Nat /\ attempt < MaxPer
         /\ MaxPer \in Nat /\ MaxTotal \in Nat /\ Len(http) \in Nat /\ Tried(cand) \in Nat
<1>1. Tried(cand) \in Nat BY TriedFacts DEF BudgetTypes
<1>2. MaxPer \in Nat /\ MaxTotal \in Nat BY GatewayAssumption
<1>3. attempt < MaxPer BY DEF Counted
<1>4. Len(http) \in Nat BY DEF BudgetTypes
<1> QED BY <1>1, <1>2, <1>3, <1>4 DEF BudgetTypes

\* The order of the requests sent does not depend on what becomes of them.
Ordered ==
  /\ \A i \in 1 .. Len(http) : http[i].cand <= cand
  /\ \A i, j \in 1 .. Len(http) : i < j => http[i].cand <= http[j].cand
  /\ \A i, j \in 1 .. Len(http) : i <= j /\ http[i].cand = http[j].cand => j - i < MaxPer

LEMMA OrderStays ==
  ASSUME BudgetTypes, Ordered, SameRequests, cand' \in Nat, cand <= cand'
  PROVE  Ordered'
<1>1. Len(http') = Len(http) /\ \A i \in 1 .. Len(http) : http'[i].cand = http[i].cand
  BY DEF SameRequests
<1>2. \A i \in 1 .. Len(http) : http[i].cand \in Nat
  BY RequestTypes
<1>3. \A i \in 1 .. Len(http) : http[i].cand <= cand'
  BY <1>2 DEF BudgetTypes, Ordered
<1> QED BY <1>1, <1>3 DEF Ordered

(***************************************************************************)
(* A step inside an attempt, and the end of one.                           *)
(***************************************************************************)
Budget == BudgetTypes /\ Counted /\ InOrder /\ LastWord

LEMMA StepInside ==
  ASSUME Budget, pc \in Sent, pc' \in Sent, UNCHANGED loopVars, SameRequests,
         UNCHANGED <<out, visible>>
  PROVE  Budget'
<1>1. Len(http') = Len(http) /\ \A i \in 1 .. Len(http) : http'[i].cand = http[i].cand
  BY DEF SameRequests
<1>2. UNCHANGED <<n, cand, attempt, used, last>> BY DEF loopVars
<1>3. BudgetTypes' BY <1>2 DEF Budget, BudgetTypes, SameRequests
<1>4. Counted' BY <1>1, <1>2 DEF Budget, Counted, Busy, Sent
<1>5. InOrder' BY <1>1, <1>2 DEF Budget, InOrder, Sent
<1>6. LastWord' BY <1>2 DEF Budget, LastWord, Sent
<1> QED BY <1>3, <1>4, <1>5, <1>6 DEF Budget

\* The stream is over.
LEMMA StreamOver ==
  ASSUME Budget, pc' \in {"ended", "returned"}, SameRequests,
         UNCHANGED <<n, used>>, cand' \in Nat \ {0}, cand <= cand',
         attempt' \in Nat, attempt' < MaxPer, LastWord'
  PROVE  Budget'
<1>1. Len(http') = Len(http) BY DEF SameRequests
<1>2. BudgetTypes' BY DEF Budget, BudgetTypes, SameRequests
<1>3. Counted' BY <1>1 DEF Budget, Counted, Busy, Sent
<1>4. Ordered' BY OrderStays DEF Budget, InOrder, Ordered
<1>5. InOrder' BY <1>4 DEF InOrder, Ordered, Sent
<1> QED BY <1>2, <1>3, <1>5 DEF Budget

\* The first event of a stream that ends with e after showing nothing is e.
LEMMA FirstWord ==
  ASSUME out \in Seq(Terminals \cup Events), NEW e \in Terminals, out' = Append(out, e)
  PROVE  /\ out' # <<>>
         /\ out = <<>> => out'[1] = e
         /\ out # <<>> => out'[1] = out[1]
<1>1. Len(out) \in Nat /\ Len(out') = Len(out) + 1 /\ out'[Len(out) + 1] = e
      /\ \A i \in 1 .. Len(out) : out'[i] = out[i]
  OBVIOUS
<1>2. out # <<>> => Len(out) # 0 OBVIOUS
<1>3. out' # <<>> BY <1>1
<1> QED BY <1>1, <1>2, <1>3

\* The loop's head after an attempt of the current candidate, which has
\* failed with a code another attempt may answer.
LEMMA AfterFailure ==
  ASSUME Budget, GatewayInv, pc \in Busy, out = <<>>, NEW code \in Retryable,
         Advance(Following, n, code), SameRequests, UNCHANGED n
  PROVE  Budget' /\ pc' \in {"ended", "backoff", "preparing"}
<1>t. /\ n \in Nat /\ cand \in Nat \ {0} /\ attempt \in Nat /\ used \in Nat
      /\ MaxPer \in Nat \ {0} /\ MaxTotal \in Nat /\ Len(http) \in Nat
  BY GatewayAssumption DEF Budget, BudgetTypes
<1>0. /\ Len(http) <= used /\ used <= MaxTotal /\ attempt < MaxPer
      /\ used = Tried(cand) + attempt + 1 /\ cand <= n
      /\ Tried(cand) \in Nat /\ Tried(cand + 1) = Tried(cand) + MaxPer
  BY <1>t, TriedFacts DEF Budget, Counted
<1>s. Len(http') = Len(http) /\ \A i \in 1 .. Len(http) : http'[i].cand = http[i].cand
  BY DEF SameRequests
<1>o. out \in Seq(Terminals \cup Events) /\ code \in Terminals /\ "aborted" \in Terminals
      /\ "aborted" \notin Retryable
  BY DEF GatewayInv, StreamTypes, Terminals, Errors, Retryable
<1>1. \/ attempt + 1 < MaxPer /\ Following = <<cand, attempt + 1>>
      \/ attempt + 1 = MaxPer /\ Following = <<cand + 1, 0>>
  BY <1>t, <1>0 DEF Following
<1>2. cand' = Following[1] /\ attempt' = Following[2] BY DEF Advance
<1>3. /\ cand' \in Nat \ {0} /\ cand <= cand' /\ attempt' \in Nat /\ attempt' < MaxPer
  BY <1>t, <1>1, <1>2
<1>4. ASSUME NEW e \in Terminals, Finish(e), UNCHANGED <<used, visible>>,
             e \in Retryable => used = MaxTotal \/ used = n * MaxPer
      PROVE  Budget' /\ pc' = "ended"
  <2>1. out' # <<>> /\ out'[1] = e BY <1>o, <1>4, FirstWord DEF Finish
  <2>2. LastWord' BY <1>4, <2>1 DEF LastWord, Finish
  <2> QED BY <1>3, <1>4, <2>2, StreamOver DEF Finish
<1>5. CASE Following[1] > n /\ Finish(code) /\ UNCHANGED <<used, visible>>
  <2>1. cand = n /\ attempt + 1 = MaxPer BY <1>t, <1>0, <1>1, <1>5
  <2>2. used = Tried(n + 1)
    <3>1. used = Tried(cand) + (attempt + 1) BY <1>t, <1>0
    <3>2. used = Tried(cand) + MaxPer BY <2>1, <3>1
    <3> QED BY <1>0, <2>1, <3>2
  <2>3. used = n * MaxPer BY <1>t, <2>2, TriedFacts
  <2> QED BY <1>4, <1>5, <1>o, <2>3
<1>6. CASE Finish("aborted") /\ UNCHANGED <<used, visible>>
  BY <1>4, <1>6, <1>o
<1>7. CASE Spent /\ Finish(code) /\ UNCHANGED <<used, visible>>
  <2>1. used = MaxTotal BY <1>t, <1>0, <1>7 DEF Spent
  <2> QED BY <1>4, <1>7, <1>o, <2>1
<1>8. CASE /\ Following[1] <= n /\ ~Spent
           /\ pc' = IF Following[2] > 0 THEN "backoff" ELSE "preparing"
           /\ used' = IF Following[2] > 0 THEN used ELSE used + 1
           /\ visible' = FALSE
           /\ UNCHANGED out
  <2>1. used < MaxTotal BY <1>t, <1>8 DEF Spent
  <2>2. LastWord' BY <1>8 DEF LastWord
  <2>3. Ordered' BY <1>3, OrderStays DEF Budget, InOrder, Ordered
  <2>4. CASE attempt + 1 < MaxPer /\ Following = <<cand, attempt + 1>>
    <3>1. pc' = "backoff" /\ used' = used /\ cand' = cand /\ attempt' = attempt + 1
      BY <1>t, <1>2, <1>8, <2>4
    <3>2. BudgetTypes' BY <1>3, <3>1 DEF Budget, BudgetTypes, SameRequests
    <3>3. used' = Tried(cand') + attempt' BY <1>t, <1>0, <3>1
    <3>4. Counted' BY <1>0, <1>3, <1>s, <1>t, <2>1, <3>1, <3>3 DEF Counted, Busy, Sent
    <3>5. \A i \in 1 .. Len(http) : http[i].cand = cand => Len(http) - i < attempt + 1
      <4>1. ASSUME NEW i \in 1 .. Len(http), http[i].cand = cand PROVE Len(http) - i <= attempt
        BY <1>t, <4>1 DEF Budget, InOrder, Busy
      <4> QED BY <1>t, <4>1
    <3>6. InOrder' BY <1>s, <2>3, <3>1, <3>5 DEF InOrder, Ordered, Sent
    <3> QED BY <2>2, <3>1, <3>2, <3>4, <3>6 DEF Budget
  <2>5. CASE attempt + 1 = MaxPer /\ Following = <<cand + 1, 0>>
    <3>1. pc' = "preparing" /\ used' = used + 1 /\ cand' = cand + 1 /\ attempt' = 0
      BY <1>t, <1>2, <1>8, <2>5
    <3>2. BudgetTypes' BY <1>3, <1>t, <3>1 DEF Budget, BudgetTypes, SameRequests
    <3>3. used' = Tried(cand') + attempt' + 1 BY <1>t, <1>0, <2>5, <3>1, SMTT(30)
    <3>4. cand' <= n BY <1>2, <1>8
    <3>5. Counted' BY <1>0, <1>3, <1>s, <1>t, <2>1, <3>1, <3>3, <3>4, SMTT(30) DEF Counted, Busy, Sent
    <3>6. \A i \in 1 .. Len(http) : http[i].cand # cand + 1
      <4>1. \A i \in 1 .. Len(http) : http[i].cand <= cand BY DEF Budget, InOrder
      <4>2. \A i \in 1 .. Len(http) : http[i].cand \in Nat BY RequestTypes DEF Budget
      <4> QED BY <1>t, <4>1, <4>2
    <3>7. InOrder' BY <1>s, <2>3, <3>1, <3>6 DEF InOrder, Ordered, Sent
    <3> QED BY <2>2, <3>1, <3>2, <3>5, <3>7 DEF Budget
  <2> QED BY <1>1, <2>4, <2>5
<1> QED BY <1>5, <1>6, <1>7, <1>8 DEF Advance

\* An attempt ends with an error.
LEMMA AttemptEnds ==
  ASSUME Budget, GatewayInv, pc \in Busy, NEW code \in Errors, AttemptError(code), SameRequests
  PROVE  /\ Budget' /\ pc' \in {"ended", "backoff", "preparing"}
         /\ pc' # "ended" => code \in Retryable
<1>1. CASE Committed(code) /\ Finish(code) /\ UNCHANGED <<loopVars, visible>>
  <2>1. out \in Seq(Terminals \cup Events) /\ code \in Terminals
    BY DEF GatewayInv, StreamTypes, Terminals
  <2>2. /\ out' # <<>> /\ pc' = "ended"
        /\ out = <<>> => out'[1] = code
        /\ out # <<>> => out'[1] = out[1]
    BY <1>1, <2>1, FirstWord DEF Finish
  <2>3. out'[1] \notin Retryable
    BY <1>1, <2>2 DEF Committed, Budget, LastWord, Busy, Sent
  <2>4. LastWord' BY <1>1, <2>2, <2>3 DEF LastWord
  <2>5. UNCHANGED <<n, cand, attempt, used>> BY <1>1 DEF loopVars
  <2>6. /\ cand' \in Nat \ {0} /\ cand <= cand' /\ attempt' \in Nat /\ attempt' < MaxPer
    BY <2>5 DEF Budget, BudgetTypes, Counted
  <2> QED BY <2>2, <2>4, <2>5, <2>6, StreamOver
<1>2. CASE ~Committed(code) /\ Advance(Following, n, code) /\ UNCHANGED n
  <2>1. code \in Retryable /\ ~visible BY <1>2 DEF Committed
  <2>2. out = <<>> BY <2>1 DEF GatewayInv, Shown, Before, Busy, Sent
  <2> QED BY <1>2, <2>1, <2>2, AfterFailure
<1> QED BY <1>1, <1>2 DEF AttemptError

(***************************************************************************)
(* The steps of the stream.                                                *)
(***************************************************************************)
LEMMA ReleasedSame ==
  ASSUME BudgetTypes, Released, UNCHANGED http, pc' \notin {"backoff", "preparing"},
         pc \notin {"answered", "ended"},
         pc' \in Sent => pc \in Sent,
         pc = "sending" => pc' = "sending" \/ \A i \in 1 .. Len(http) : http[i].state # "inflight",
         pc \in {"reading", "decoding"} =>
           pc' \in {"reading", "decoding"} \/ \A i \in 1 .. Len(http) : http[i].state # "decoding"
  PROVE  Released'
BY DEF Released, BareAbort

LEMMA ReleasedMark ==
  ASSUME BudgetTypes, Released, NEW s \in States, Mark(s),
         pc' \in Sent => pc \in Sent,
         s = "inflight" => pc' = "sending",
         s = "open" => pc' = "answered",
         s \in {"abandoned", "unread"} => BareAbort',
         s = "decoding" => pc' \in {"reading", "decoding"},
         pc' \in {"backoff", "preparing"} => s = "released"
  PROVE  Released'
<1>1. Len(http) \in Nat /\ http \in Seq(Records) BY DEF BudgetTypes
<1>2. /\ http' \in Seq(Records) /\ Len(http') = Len(http)
      /\ \A i \in 1 .. Len(http) : http'[i].state = IF i = Len(http) THEN s ELSE http[i].state
  BY <1>1, MarkShape DEF SameRequests
<1>3. \A i \in 1 .. Len(http) : i # Len(http) => http[i].state = "released"
  BY <1>1 DEF Released
<1>4. http # <<>> => http' # <<>> BY <1>1, <1>2
<1> QED BY <1>1, <1>2, <1>3, <1>4 DEF Released

LEMMA BudgetInit == Init => BudgetInv
<1> SUFFICES ASSUME Init PROVE BudgetInv OBVIOUS
<1>1. MaxPer \in Nat \ {0} /\ MaxTotal \in Nat \ {0} BY GatewayAssumption
<1>2. http = <<>> /\ Len(http) = 0 BY DEF Init
<1>3. http \in Seq(Records) BY <1>2
<1> QED BY <1>1, <1>2, <1>3
       DEF Init, BudgetInv, BudgetTypes, Counted, InOrder, LastWord, Released, Sent, Busy

\* An attempt that ends where nothing more is to be released.
LEMMA EndsReleased ==
  ASSUME BudgetInv, GatewayInv, pc \in Busy, NEW code \in Errors, AttemptError(code), Mark("released")
  PROVE  BudgetInv'
<1>1. "released" \in States /\ http \in Seq(Records) BY DEF States, BudgetInv, BudgetTypes
<1>2. SameRequests BY <1>1, MarkShape
<1>3. Budget' /\ pc' \in {"ended", "backoff", "preparing"} BY <1>2, AttemptEnds DEF BudgetInv, Budget
<1>4. Released' BY <1>1, <1>3, ReleasedMark DEF BudgetInv, Sent
<1> QED BY <1>3, <1>4 DEF BudgetInv, Budget

\* An attempt that ends before its request was sent.
LEMMA EndsSilently ==
  ASSUME BudgetInv, GatewayInv, pc = "preparing", NEW code \in Errors \ Retryable,
         AttemptError(code), UNCHANGED http
  PROVE  BudgetInv'
<1>1. SameRequests BY UnchangedRequests DEF BudgetInv
<1>2. Budget' /\ pc' = "ended" BY <1>1, AttemptEnds DEF BudgetInv, Budget, Busy, Sent
<1>3. Released' BY <1>2, ReleasedSame DEF BudgetInv, Sent
<1> QED BY <1>2, <1>3 DEF BudgetInv, Budget

\* An abort while the response is awaited, or before the decoder has its body:
\* nothing was shown, so the abort is all the stream shows.
LEMMA EndsAborted ==
  ASSUME BudgetInv, GatewayInv, pc \in {"sending", "answered"}, AttemptError("aborted"),
         NEW s \in {"abandoned", "unread"}, Mark(s)
  PROVE  BudgetInv'
<1>1. /\ "aborted" \in Errors \ Retryable /\ s \in States /\ http \in Seq(Records)
      /\ s \notin {"inflight", "open", "decoding"}
  BY DEF Errors, Retryable, States, BudgetInv, BudgetTypes
<1>2. SameRequests BY <1>1, MarkShape
<1>3. Budget' /\ pc' = "ended" BY <1>1, <1>2, AttemptEnds DEF BudgetInv, Budget, Busy, Sent
<1>4. out = <<>> BY DEF GatewayInv, Shown, Before
<1>5. Finish("aborted") BY <1>1 DEF AttemptError, Committed
<1>6. BareAbort' BY <1>4, <1>5 DEF BareAbort, Finish
<1>7. Released' BY <1>1, <1>3, <1>6, ReleasedMark DEF BudgetInv, Sent
<1> QED BY <1>3, <1>7 DEF BudgetInv, Budget

\* The stream ends with an error that no other attempt could answer, before
\* any request or between two.
LEMMA EndsBetween ==
  ASSUME BudgetInv, GatewayInv, pc \in {"start", "backoff"}, UNCHANGED <<n, used, http, visible>>,
         NEW code \in Errors \ Retryable, Finish(code),
         cand' \in Nat \ {0}, cand <= cand', attempt' \in Nat, attempt' < MaxPer
  PROVE  BudgetInv'
<1>1. out = <<>> /\ out \in Seq(Terminals \cup Events) /\ code \in Terminals
  BY DEF GatewayInv, StreamTypes, Shown, Before, Terminals
<1>2. out' # <<>> /\ out'[1] = code BY <1>1, FirstWord DEF Finish
<1>3. LastWord' BY <1>2 DEF LastWord
<1>4. SameRequests /\ pc' = "ended" BY UnchangedRequests DEF BudgetInv, Finish
<1>5. Budget' BY <1>3, <1>4, StreamOver DEF BudgetInv, Budget
<1>6. Released' BY <1>4, ReleasedSame DEF BudgetInv, Sent
<1> QED BY <1>5, <1>6 DEF BudgetInv, Budget

LEMMA StartBudget == ASSUME BudgetInv, GatewayInv, Start PROVE BudgetInv'
<1>c. /\ MaxPer \in Nat \ {0} /\ MaxTotal \in Nat \ {0} /\ MaxCandidates \in Nat
  BY GatewayAssumption
<1>1. /\ pc = "start" /\ cand = 1 /\ attempt = 0 /\ used = 0 /\ http = <<>> /\ out = <<>>
      /\ ~visible /\ UNCHANGED http
  BY DEF Start, BudgetInv, Counted, GatewayInv, Shown, Before
<1>2. {"aborted", "gateway_error"} \subseteq Errors \ Retryable BY DEF Errors, Retryable
<1>3. ASSUME NEW code \in {"aborted", "gateway_error"}, Finish(code), UNCHANGED <<loopVars, visible>>
      PROVE  BudgetInv'
  <2>1. UNCHANGED <<n, cand, attempt, used>> BY <1>3 DEF loopVars
  <2> QED BY <1>c, <1>1, <1>2, <1>3, <2>1, EndsBetween
<1>4. CASE n' \in 1 .. MaxCandidates /\ ~aborted /\ Advance(<<1, 0>>, n', last)
  <2>1. n' \in Nat /\ 1 <= n' BY <1>c, <1>4
  <2>2. ~Spent BY <1>c, <1>1 DEF Spent
  <2>3. /\ cand' = 1 /\ attempt' = 0 /\ pc' = "preparing" /\ used' = 1
        /\ visible' = FALSE /\ out' = <<>> /\ http' = <<>>
    BY <1>1, <1>4, <2>1, <2>2 DEF Advance
  <2>4. Len(http') = 0 /\ http' \in Seq(Records) BY <2>3
  <2>5. used' = Tried(cand') + attempt' + 1 BY <2>3, TriedFacts
  <2>6. Counted' BY <1>c, <2>1, <2>3, <2>4, <2>5 DEF Counted, Busy, Sent
  <2>7. BudgetTypes' BY <2>1, <2>3, <2>4 DEF BudgetTypes
  <2>8. InOrder' /\ Released' BY <2>3, <2>4 DEF InOrder, Released, Sent
  <2>9. LastWord' BY <2>3 DEF LastWord
  <2> QED BY <2>6, <2>7, <2>8, <2>9 DEF BudgetInv
<1> QED BY <1>3, <1>4 DEF Start

LEMMA BackoffBudget == ASSUME BudgetInv, GatewayInv, BackoffOver PROVE BudgetInv'
<1>c. /\ n \in Nat /\ cand \in Nat \ {0} /\ attempt \in Nat /\ used \in Nat /\ attempt < MaxPer
      /\ MaxPer \in Nat /\ MaxTotal \in Nat /\ Len(http) \in Nat /\ Tried(cand) \in Nat
  BY Numbers DEF BudgetInv
<1>1. pc = "backoff" /\ UNCHANGED <<n, cand, attempt, last, http>> BY DEF BackoffOver
<1>2. CASE Finish("aborted") /\ UNCHANGED <<used, visible>>
  <2>1. "aborted" \in Errors \ Retryable BY DEF Errors, Retryable
  <2> QED BY <1>c, <1>1, <1>2, <2>1, EndsBetween
<1>3. CASE used' = used + 1 /\ visible' = FALSE /\ pc' = "preparing" /\ UNCHANGED out
  <2>1. BudgetTypes' BY <1>1, <1>3 DEF BudgetInv, BudgetTypes
  <2>2. Counted' BY <1>c, <1>1, <1>3 DEF BudgetInv, Counted, Busy, Sent
  <2>3. InOrder' BY <1>1, <1>3 DEF BudgetInv, InOrder, Sent
  <2>4. LastWord' BY <1>1, <1>3 DEF BudgetInv, LastWord
  <2>5. Released' BY <1>1, <1>3 DEF BudgetInv, Released, Sent
  <2> QED BY <2>1, <2>2, <2>3, <2>4, <2>5 DEF BudgetInv
<1> QED BY <1>2, <1>3 DEF BackoffOver

\* The request is sent: the candidate's requests so far are as many as its
\* attempts.
LEMMA SendBudget ==
  ASSUME BudgetInv, pc = "preparing", pc' = "sending",
         http' = Append(http, [cand |-> cand, state |-> "inflight"]),
         UNCHANGED <<loopVars, visible, out>>
  PROVE  BudgetInv'
<1> DEFINE rec == [cand |-> cand, state |-> "inflight"]
<1>c. /\ n \in Nat /\ cand \in Nat \ {0} /\ attempt \in Nat /\ used \in Nat /\ attempt < MaxPer
      /\ MaxPer \in Nat /\ MaxTotal \in Nat /\ Tried(cand) \in Nat
      /\ http \in Seq(Records) /\ Len(http) \in Nat
  BY Numbers DEF BudgetInv, BudgetTypes
<1>1. UNCHANGED <<n, cand, attempt, used, last>> BY DEF loopVars
<1>2. rec \in Records /\ rec.cand = cand /\ rec.state = "inflight" BY <1>c DEF Records, States
<1>3. /\ http' \in Seq(Records) /\ Len(http') = Len(http) + 1 /\ http' # <<>>
      /\ \A i \in 1 .. Len(http) : http'[i] = http[i]
      /\ http'[Len(http) + 1] = rec
  <2> HIDE DEF rec
  <2>1. http' = Append(http, rec) BY DEF rec
  <2> QED BY <1>c, <1>2, <2>1
<1> HIDE DEF rec
<1>t. \A i \in 1 .. Len(http) : http[i].cand \in Nat BY RequestTypes DEF BudgetInv
<1>4. BudgetTypes' BY <1>1, <1>3 DEF BudgetInv, BudgetTypes
<1>5. Counted' BY <1>c, <1>1, <1>3 DEF BudgetInv, Counted, Busy, Sent
<1>6. InOrder'
  <2>1. \A i \in 1 .. Len(http') :
          \/ i \in 1 .. Len(http) /\ http'[i].cand = http[i].cand
          \/ i = Len(http) + 1 /\ http'[i].cand = cand
    BY <1>c, <1>2, <1>3
  <2>2. \A i \in 1 .. Len(http) : /\ http[i].cand <= cand
                                  /\ http[i].cand = cand => Len(http) - i < attempt
    BY DEF BudgetInv, InOrder
  <2>3. \A i \in 1 .. Len(http') : http'[i].cand <= cand'
    BY <1>c, <1>1, <2>1, <2>2
  <2>4. ASSUME NEW i \in 1 .. Len(http'), NEW j \in 1 .. Len(http'), i < j
        PROVE  http'[i].cand <= http'[j].cand
    <3>1. i \in 1 .. Len(http) BY <1>c, <1>3, <2>4
    <3>2. CASE j \in 1 .. Len(http)
      BY <2>1, <2>4, <3>1, <3>2, <1>c DEF BudgetInv, InOrder
    <3>3. CASE j = Len(http) + 1 BY <1>c, <2>1, <2>2, <3>1, <3>3
    <3> QED BY <2>1, <3>2, <3>3
  <2>5. ASSUME NEW i \in 1 .. Len(http'), NEW j \in 1 .. Len(http'), i <= j, http'[i].cand = http'[j].cand
        PROVE  j - i < MaxPer
    <3>1. CASE j \in 1 .. Len(http)
      <4>1. i \in 1 .. Len(http) BY <1>c, <1>3, <2>5, <3>1
      <4>2. http[i].cand = http[j].cand BY <1>3, <2>5, <3>1, <4>1
      <4> QED BY <2>5, <3>1, <4>1, <4>2 DEF BudgetInv, InOrder
    <3>2. CASE j = Len(http) + 1 /\ i \in 1 .. Len(http)
      <4>1. http[i].cand = cand BY <1>c, <2>1, <2>5, <3>2
      <4>2. Len(http) - i < attempt BY <2>2, <3>2, <4>1
      <4> QED BY <1>c, <3>2, <4>2
    <3>3. CASE j = Len(http) + 1 /\ i = j BY <1>c, <3>3
    <3> QED BY <2>1, <3>1, <3>2, <3>3
  <2>6. ASSUME NEW i \in 1 .. Len(http'), http'[i].cand = cand PROVE Len(http') - i <= attempt
    BY <1>c, <1>3, <2>1, <2>2, <2>6
  <2> QED BY <1>1, <2>3, <2>4, <2>5, <2>6 DEF InOrder, Sent
<1>7. LastWord' BY DEF BudgetInv, LastWord
<1>8. Released'
  <2>1. \A i \in 1 .. Len(http) : http[i].state = "released" BY DEF BudgetInv, Released
  <2>2. \A i \in 1 .. Len(http') :
          \/ i \in 1 .. Len(http) /\ http'[i].state = "released"
          \/ i = Len(http') /\ http'[i].state = "inflight"
    BY <1>c, <1>2, <1>3, <2>1
  <2> QED BY <1>c, <1>3, <2>2 DEF Released, Sent
<1> QED BY <1>4, <1>5, <1>6, <1>7, <1>8 DEF BudgetInv

LEMMA EmitBudget == ASSUME BudgetInv, GatewayInv, Emit PROVE BudgetInv'
<1>1. /\ pc = "decoding" /\ UNCHANGED <<pc, n, cand, attempt, used, http>> /\ visible' = TRUE
      /\ Head(batch) \in Events /\ out' = Append(out, Head(batch))
  BY DEF Emit, Decoding, loopVars
<1>2. out \in Seq(Terminals \cup Events) BY DEF GatewayInv, StreamTypes
<1>3. /\ out' # <<>>
      /\ out = <<>> => out'[1] = Head(batch)
      /\ out # <<>> => out'[1] = out[1]
  <2> DEFINE e == Head(batch)
  <2>1. e \in Events /\ out' = Append(out, e) BY <1>1
  <2> HIDE DEF e
  <2>2. Len(out) \in Nat /\ Len(out') = Len(out) + 1 /\ out'[Len(out) + 1] = e
        /\ \A i \in 1 .. Len(out) : out'[i] = out[i]
    BY <1>2, <2>1
  <2>3. out # <<>> => Len(out) # 0 BY <1>2
  <2>4. out' # <<>> BY <2>2
  <2> QED BY <2>2, <2>3, <2>4 DEF e
<1>4. out'[1] \notin Retryable BY <1>1, <1>3 DEF BudgetInv, LastWord, Events, Retryable
<1>5. LastWord' BY <1>1, <1>3, <1>4 DEF LastWord
<1>6. BudgetTypes' /\ Counted' /\ InOrder' /\ Released'
  <2>1. Released'
    <3>1. pc = "decoding" /\ pc' = "decoding" /\ http' = http BY <1>1
    <3> QED BY <3>1, ReleasedSame DEF BudgetInv, Sent
  <2> QED BY <1>1, <2>1 DEF BudgetInv, BudgetTypes, Counted, InOrder
<1> QED BY <1>5, <1>6 DEF BudgetInv

LEMMA BudgetNext == ASSUME BudgetInv, GatewayInv, [Next]_vars PROVE BudgetInv'
<1>e. /\ {"aborted", "gateway_error", "upstream_unavailable", "provider_protocol_error"} \subseteq Errors
      /\ Retryable \subseteq Errors
      /\ {"aborted", "gateway_error"} \subseteq Errors \ Retryable
  BY DEF Errors, Retryable
<1>h. http \in Seq(Records) /\ "released" \in States /\ "open" \in States /\ "decoding" \in States
  BY DEF BudgetInv, BudgetTypes, States
\* A step inside an attempt that leaves the requests alone.
<1>i. ASSUME pc \in {"reading", "decoding"}, pc' \in {"reading", "decoding"},
             UNCHANGED <<loopVars, visible, out, http>>
      PROVE  BudgetInv'
  <2>1. SameRequests BY <1>i, UnchangedRequests DEF BudgetInv
  <2>2. Budget' BY <1>i, <2>1, StepInside DEF BudgetInv, Budget, Sent
  <2>3. Released' BY <1>i, ReleasedSame DEF BudgetInv, Sent
  <2> QED BY <2>2, <2>3 DEF BudgetInv, Budget
\* The stream is over, or given up, and its body is released.
<1>o. ASSUME pc = "decoding", pc' \in {"ended", "returned"}, Mark("released"),
             UNCHANGED <<loopVars, visible, out>>
      PROVE  BudgetInv'
  <2>1. SameRequests BY <1>h, <1>o, MarkShape
  <2>2. UNCHANGED <<n, cand, attempt, used>> BY <1>o DEF loopVars
  <2>3. LastWord'
    <3>1. (visible => out # <<>>) /\ (out = <<>> \/ out[1] \notin Retryable)
      BY <1>o DEF BudgetInv, LastWord
    <3>2. pc' = "ended" => out # <<>>
      <4>1. GatewayInv' BY NextInv
      <4> QED BY <1>o, <4>1 DEF GatewayInv, Shown, Over
    <3> QED BY <1>o, <3>1, <3>2 DEF LastWord
  <2>4. attempt \in Nat /\ attempt < MaxPer /\ cand \in Nat \ {0} /\ cand <= cand
    BY DEF BudgetInv, BudgetTypes, Counted
  <2>5. Budget' BY <1>o, <2>1, <2>2, <2>3, <2>4, StreamOver DEF BudgetInv, Budget
  <2>6. Released' BY <1>h, <1>o, ReleasedMark DEF BudgetInv, Sent
  <2> QED BY <2>5, <2>6 DEF BudgetInv, Budget
<1>1. CASE UNCHANGED vars
  BY <1>1 DEF vars, loopVars, BudgetInv, BudgetTypes, Counted, InOrder, LastWord, Released,
               BareAbort
<1>2. CASE Start BY <1>2, StartBudget
<1>3. CASE BackoffOver BY <1>3, BackoffBudget
<1>4. CASE PrepareFails BY <1>4, <1>e, EndsSilently DEF PrepareFails
<1>5. CASE Prepared
  <2>1. CASE AttemptError("aborted") /\ UNCHANGED http BY <1>5, <1>e, <2>1, EndsSilently DEF Prepared
  <2>2. CASE ~(AttemptError("aborted") /\ UNCHANGED http) BY <1>5, <2>2, SendBudget DEF Prepared
  <2> QED BY <2>1, <2>2
<1>6. CASE SendAborted BY <1>6, EndsAborted DEF SendAborted
<1>7. CASE SendFails BY <1>7, <1>e, EndsReleased DEF SendFails, Busy, Sent
<1>8. CASE Response
  <2>1. pc = "sending" /\ pc' = "answered" /\ Mark("open") /\ UNCHANGED <<loopVars, visible, out>>
    BY <1>8 DEF Response
  <2>2. SameRequests BY <1>h, <2>1, MarkShape
  <2>3. Budget' BY <2>1, <2>2, StepInside DEF BudgetInv, Budget, Sent
  <2>4. Released' BY <1>h, <2>1, ReleasedMark DEF BudgetInv, Sent
  <2> QED BY <2>3, <2>4 DEF BudgetInv, Budget
<1>9. CASE Rejected BY <1>9, <1>e, EndsReleased DEF Rejected, Busy, Sent
<1>10. CASE NoBody BY <1>10, <1>e, EndsReleased DEF NoBody, Busy, Sent
<1>11. CASE Decode
  <2>1. CASE AttemptError("aborted") /\ Mark("unread") BY <1>11, <2>1, EndsAborted DEF Decode
  <2>2. CASE Mark("decoding") /\ pc' = "reading" /\ UNCHANGED <<loopVars, visible, out>>
    <3>1. pc = "answered" BY <1>11 DEF Decode
    <3>2. SameRequests BY <1>h, <2>2, MarkShape
    <3>3. Budget' BY <2>2, <3>1, <3>2, StepInside DEF BudgetInv, Budget, Sent
    <3>4. Released' BY <1>h, <2>2, <3>1, ReleasedMark DEF BudgetInv, Sent
    <3> QED BY <3>3, <3>4 DEF BudgetInv, Budget
  <2> QED BY <1>11, <2>1, <2>2 DEF Decode
<1>12. CASE ReadAborted BY <1>12, <1>e, EndsReleased DEF ReadAborted, DecodeError, Busy, Sent
<1>13. CASE ReadFails BY <1>13, <1>e, EndsReleased DEF ReadFails, DecodeError, Busy, Sent
<1>14. CASE ReadEnds
  <2>1. CASE DecodeError("provider_protocol_error")
    BY <1>14, <1>e, <2>1, EndsReleased DEF ReadEnds, DecodeError, Busy, Sent
  <2>2. CASE pc' = "decoding" /\ UNCHANGED <<loopVars, visible, out, http>>
    BY <1>14, <1>i, <2>2 DEF ReadEnds
  <2> QED BY <1>14, <2>1, <2>2 DEF ReadEnds
<1>15. CASE Chunk BY <1>15, <1>i DEF Chunk
<1>16. CASE DecodeAborted
  BY <1>16, <1>e, EndsReleased DEF DecodeAborted, Decoding, DecodeError, Busy, Sent
<1>17. CASE Frame BY <1>17, <1>i DEF Frame, Decoding
<1>18. CASE BadFrame BY <1>18, <1>e, EndsReleased DEF BadFrame, Decoding, DecodeError, Busy, Sent
<1>19. CASE ChunkDone BY <1>19, <1>i DEF ChunkDone, Decoding
<1>20. CASE BodyDone BY <1>20, <1>e, EndsReleased DEF BodyDone, DecodeError, Busy, Sent
<1>21. CASE Emit BY <1>21, EmitBudget
<1>22. CASE EmitError BY <1>22, EndsReleased DEF EmitError, Decoding, DecodeError, Busy, Sent
<1>23. CASE Decoded BY <1>23, <1>o DEF Decoded
<1>24. CASE Abort
  BY <1>24 DEF Abort, loopVars, BudgetInv, BudgetTypes, Counted, InOrder, LastWord, Released,
               BareAbort
<1>25. CASE Return BY <1>25, <1>o DEF Return
<1>26. CASE LateResponse
  <2>1. Mark("released") /\ UNCHANGED <<pc, n, cand, attempt, used, visible, out>>
    BY <1>26 DEF LateResponse, loopVars
  <2>2. SameRequests BY <1>h, <2>1, MarkShape
  <2>3. BudgetTypes' /\ Counted' /\ InOrder' /\ LastWord'
    <3>1. Len(http') = Len(http) /\ \A i \in 1 .. Len(http) : http'[i].cand = http[i].cand
      BY <2>2 DEF SameRequests
    <3>2. BudgetTypes' BY <2>1, <2>2 DEF BudgetInv, BudgetTypes, SameRequests
    <3>3. Counted'
      <4>1. http = <<>> => http' = <<>> BY <1>h, <2>2, <3>1 DEF SameRequests
      <4> QED BY <2>1, <3>1, <4>1 DEF BudgetInv, Counted
    <3>4. InOrder' BY <2>1, <3>1 DEF BudgetInv, InOrder
    <3>5. LastWord' BY <2>1 DEF BudgetInv, LastWord
    <3> QED BY <3>2, <3>3, <3>4, <3>5
  <2>4. Released'
    <3>1. http[Len(http)].state = "abandoned" /\ http # <<>> BY <1>26 DEF LateResponse
    <3>2. pc' \notin {"backoff", "preparing"} \/ "released" = "released" OBVIOUS
    <3> QED BY <1>h, <2>1, ReleasedMark DEF BudgetInv
  <2> QED BY <2>3, <2>4 DEF BudgetInv
<1> QED BY <1>1, <1>2, <1>3, <1>4, <1>5, <1>6, <1>7, <1>8, <1>9, <1>10, <1>11, <1>12, <1>13,
           <1>14, <1>15, <1>16, <1>17, <1>18, <1>19, <1>20, <1>21, <1>22, <1>23, <1>24, <1>25,
           <1>26 DEF Next

\* The candidates are tried in their order and within both budgets, and a
\* retryable error is only passed on when a budget is used up.
THEOREM BudgetsHold == Spec => []WithinBudget
<1>1. BudgetInv => WithinBudget
  <2> SUFFICES ASSUME BudgetInv PROVE WithinBudget OBVIOUS
  <2>1. DOMAIN http = 1 .. Len(http) BY DEF BudgetInv, BudgetTypes
  <2> QED BY <2>1 DEF BudgetInv, Counted, InOrder, LastWord, WithinBudget
<1> QED BY InitInv, NextInv, BudgetInit, BudgetNext, <1>1, PTL DEF Spec

(***************************************************************************)
(* Provider discovery: a response is held only while its body is read.     *)
(***************************************************************************)
DiscoveryInv ==
  /\ at \in {"called", "credential", "fetching", "reading", "answered"}
  /\ response \in {"none", "asked", "held", "released"}
  /\ response = "held" <=> at = "reading"
  /\ response = "asked" => at \in {"fetching", "answered"}
  /\ size \in Nat
  /\ at # "answered" => size <= MaxBytes
  /\ answer \in {"healthy", "catalog"} => at = "answered" /\ response = "released" /\ size <= MaxBytes
  /\ at # "answered" => answer = "none"

\* A call that is answered with anything but a catalog.
Failures == ConfigErrors \cup StatusErrors \cup
            {"aborted", "store_error", "provider_protocol_error", "duplicate_model_id", "response_too_large"}

LEMMA FailuresShow ==
  \A code \in Failures : code \notin {"healthy", "catalog"} /\ Health(code) \notin {"healthy", "catalog"}
BY DEF Failures, ConfigErrors, StatusErrors, Health

LEMMA DiscoveryNextInv == ASSUME DiscoveryInv, [DiscoveryNext]_discoveryVars PROVE DiscoveryInv'
<1> USE DEF DiscoveryInv
\* A call that fails holds nothing.
<1>f. ASSUME NEW code \in Failures, Answer(code), response' \in {"none", "asked", "released"},
             at # "answered", size' \in Nat
      PROVE  DiscoveryInv'
  <2>1. at' = "answered" /\ answer' \notin {"healthy", "catalog"}
    BY <1>f, FailuresShow DEF Answer
  <2> QED BY <1>f, <2>1
<1>l. ASSUME NEW code \in Failures, Leave(code), at \in {"fetching", "reading"}, size' \in Nat
      PROVE  DiscoveryInv'
  <2>1. response' \in {"none", "asked", "released"} BY <1>l DEF Leave
  <2> QED BY <1>f, <1>l, <2>1 DEF Leave
<1>1. CASE UNCHANGED discoveryVars BY <1>1 DEF discoveryVars
<1>2. CASE LoadCatalog
  <2>1. \A p \in DOMAIN Unusable : Unusable[p] \in Failures
    BY DEF Unusable, Failures, ConfigErrors
  <2>2. "aborted" \in Failures BY DEF Failures
  <2>3. UNCHANGED <<response, size>> /\ at = "called" BY <1>2 DEF LoadCatalog
  <2>4. CASE at' = "credential" /\ UNCHANGED answer BY <2>3, <2>4
  <2> QED BY <1>2, <1>f, <2>1, <2>2, <2>3, <2>4 DEF LoadCatalog
<1>3. ASSUME NEW known \in BOOLEAN, CredentialArrives(known) PROVE DiscoveryInv'
  <2>1. {"aborted", "credential_not_found"} \subseteq Failures BY DEF Failures, ConfigErrors
  <2>2. at = "credential" /\ response # "held" /\ UNCHANGED size BY <1>3 DEF CredentialArrives
  <2>3. CASE at' = "fetching" /\ response' = "asked" /\ UNCHANGED answer BY <2>2, <2>3
  <2> QED BY <1>3, <1>f, <2>1, <2>2, <2>3 DEF CredentialArrives
<1>4. CASE CredentialFails
  <2>1. "store_error" \in Failures BY DEF Failures
  <2> QED BY <1>4, <1>f, <2>1 DEF CredentialFails
<1>5. CASE AbortSettles
  <2>1. "aborted" \in Failures BY DEF Failures
  <2> QED BY <1>5, <1>l, <2>1 DEF AbortSettles, Settling
<1>6. CASE HttpAnswers
  <2>1. CASE at = "answered" /\ response' = Late /\ UNCHANGED <<at, answer>>
    BY <1>6, <2>1 DEF HttpAnswers, Late
  <2>2. CASE at = "fetching"
    <3>1. StatusErrors \cup {"provider_protocol_error"} \subseteq Failures BY DEF Failures
    <3>0. UNCHANGED size BY <1>6 DEF HttpAnswers
    <3>2. CASE at' = "reading" /\ response' = "held" /\ UNCHANGED answer
      BY <2>2, <3>0, <3>2
    <3> QED BY <1>6, <1>f, <2>2, <3>0, <3>1, <3>2 DEF HttpAnswers
  <2> QED BY <1>6, <2>1, <2>2 DEF HttpAnswers
<1>7. CASE HttpFails
  <2>1. "upstream_unavailable" \in Failures BY DEF Failures, StatusErrors
  <2>2. response = "asked" /\ response' = "none" /\ UNCHANGED size BY <1>7 DEF HttpFails
  <2>3. CASE UNCHANGED <<at, answer>> /\ at # "fetching" BY <2>2, <2>3
  <2> QED BY <1>7, <1>f, <2>1, <2>2, <2>3 DEF HttpFails
<1>8. CASE BodyFails
  <2>1. "provider_protocol_error" \in Failures BY DEF Failures
  <2> QED BY <1>8, <1>l, <2>1 DEF BodyFails
<1>9. CASE BodyEnds
  <2>1. {"duplicate_model_id", "provider_protocol_error"} \subseteq Failures BY DEF Failures
  <2>2. CASE Leave("catalog")
    BY <1>9, <2>2 DEF BodyEnds, Leave, Answer
  <2> QED BY <1>9, <1>l, <2>1, <2>2 DEF BodyEnds
<1>10. CASE AbortCall BY <1>10 DEF AbortCall
<1>11. ASSUME NEW k \in 1 .. MaxChunk, BodyChunk(k) PROVE DiscoveryInv'
  <2>1. "response_too_large" \in Failures BY DEF Failures
  <2>0. at = "reading" /\ size' = size + k /\ size' \in Nat /\ MaxBytes \in Nat
    BY <1>11, DiscoveryAssumption DEF BodyChunk
  <2>2. CASE size' > MaxBytes BY <1>11, <1>l, <2>0, <2>1, <2>2 DEF BodyChunk
  <2>3. CASE ~(size' > MaxBytes) /\ UNCHANGED <<at, response, answer>>
    BY <2>0, <2>3
  <2> QED BY <1>11, <2>2, <2>3 DEF BodyChunk
<1> QED BY <1>1, <1>2, <1>3, <1>4, <1>5, <1>6, <1>7, <1>8, <1>9, <1>10, <1>11
       DEF DiscoveryNext, Consume, Credential

\* Whatever providers answer, and whenever the operations are aborted: a stream
\* that is over has released every response, or releases it when it comes, but
\* for the one it leaves unread when the abort comes between the response and
\* its decoder, and then the abort is all it has shown (BodiesReleased does not
\* hold for that reason); a call of provider discovery holds none.
THEOREM NoResponseLeftOpen == CallsSpec => []ResponsesReleased
<1>1. NoStream => GatewayInv /\ BudgetInv
  <2> SUFFICES ASSUME NoStream PROVE GatewayInv /\ BudgetInv OBVIOUS
  <2>1. Len(http) = 0 /\ http \in Seq(Records) /\ out \in Seq(Terminals \cup Events) /\ Len(out) = 0
    BY DEF NoStream
  <2>2. GatewayInv
    <3>1. batch \in IF final THEN FinalRests ELSE OpenRests
      BY DEF NoStream, OpenRests, OpenBatches
    <3>2. Clean BY <2>1 DEF Clean
    <3> QED BY <2>1, <3>1, <3>2 DEF NoStream, GatewayInv, StreamTypes, Shown, Waits, Before, Errors
  <2>3. BudgetInv
    BY <2>1, GatewayAssumption
       DEF NoStream, BudgetInv, BudgetTypes, Counted, InOrder, LastWord, Released, Sent, Busy
  <2> QED BY <2>2, <2>3
<1>2. NoCall \/ DiscoveryInit => DiscoveryInv
  BY DiscoveryAssumption DEF NoCall, DiscoveryInit, DiscoveryInv
<1>3. CallsInit => GatewayInv /\ BudgetInv /\ DiscoveryInv
  BY <1>1, <1>2, InitInv, BudgetInit DEF CallsInit
<1>4. GatewayInv /\ BudgetInv /\ DiscoveryInv /\ [CallsNext]_<<asked, vars, discoveryVars>>
        => (GatewayInv /\ BudgetInv /\ DiscoveryInv)'
  BY NextInv, BudgetNext, DiscoveryNextInv DEF CallsNext
<1>5. GatewayInv /\ BudgetInv /\ DiscoveryInv => ResponsesReleased
  <2> SUFFICES ASSUME BudgetInv, DiscoveryInv PROVE ResponsesReleased OBVIOUS
  <2>1. DOMAIN http = 1 .. Len(http) BY DEF BudgetInv, BudgetTypes
  <2>2. OneLiveRequest BY <2>1 DEF BudgetInv, Released, OneLiveRequest, BareAbort
  <2>3. ResponseReleased BY DEF DiscoveryInv, ResponseReleased
  <2> QED BY <2>2, <2>3 DEF ResponsesReleased
<1> QED BY <1>3, <1>4, <1>5, PTL DEF CallsSpec
=============================================================================
