--------------------------- MODULE AgentLoop_proofs ---------------------------
(***************************************************************************)
(* The properties of AgentLoop for any tool calls, any history and any     *)
(* limits.  TerminatesOnce: what the consumer has received before the end  *)
(* of the stream holds no terminal event.  ToolsOnlyFromAcceptedBatch and  *)
(* HistoryClosed: seen covers every id of this run, so that a tool without *)
(* an invocation is one whose call is new; results tells how far the batch *)
(* has come; and the past turns are closed under seen.                     *)
(* And of ContextBuilder, for any history and any budget: ContextSound     *)
(* rests on the units, which cover the history and do not overlap, on what *)
(* is known while the summarizer works, and on sizes that add up.          *)
(***************************************************************************)
EXTENDS AgentLoop, ContextBuilder, TLAPS, FiniteSetTheorems, WellFoundedInduction

Positions == {"top", "yielded", "streaming", "starting", "executing", "executed",
              "ended", "returned"}

LoopTypes == pc \in Positions /\ out \in Seq(Visible \cup Terminals)

\* A terminal event is the last and ends the stream.
Unended == /\ pc # "ended" => \A i \in 1 .. Len(out) : out[i] \notin Terminals
           /\ pc = "ended" => out # <<>> /\ out[Len(out)] \in Terminals
           /\ \A i \in 1 .. Len(out) - 1 : out[i] \notin Terminals

LoopInv == LoopTypes /\ Unended

LEMMA InitInv == Init => LoopInv
BY DEF Init, LoopInv, LoopTypes, Unended, Positions

\* An event that does not end the stream.
LEMMA ShowInv ==
  ASSUME LoopInv, pc # "ended", pc' \in Positions \ {"ended"},
         NEW e \in Visible, out' = Append(out, e)
  PROVE  LoopInv'
<1> USE DEF LoopInv, LoopTypes, Unended, Positions
<1>1. e \notin Terminals BY DEF Visible, Terminals
<1>2. out' \in Seq(Visible \cup Terminals) /\ Len(out') = Len(out) + 1 /\ Len(out) \in Nat OBVIOUS
<1>3. \A i \in 1 .. Len(out) : out'[i] = out[i] OBVIOUS
<1>4. out'[Len(out')] = e BY <1>2
<1>5. \A i \in 1 .. Len(out') : out'[i] \notin Terminals BY <1>1, <1>2, <1>3, <1>4
<1> QED BY <1>2, <1>5

LEMMA EndInv ==
  ASSUME LoopInv, pc # "ended", pc' = "ended",
         NEW e \in Terminals, out' = Append(out, e)
  PROVE  LoopInv'
<1> USE DEF LoopInv, LoopTypes, Unended, Positions
<1>1. out' \in Seq(Visible \cup Terminals) /\ Len(out') = Len(out) + 1 /\ Len(out) \in Nat OBVIOUS
<1>2. \A i \in 1 .. Len(out) : out'[i] = out[i] OBVIOUS
<1>3. out'[Len(out')] = e /\ out' # <<>> BY <1>1
<1> QED BY <1>1, <1>2, <1>3

\* A step that shows nothing, and does not end the stream.
LEMMA SilentInv ==
  ASSUME LoopInv, pc # "ended", pc' \in Positions \ {"ended"}, UNCHANGED out
  PROVE  LoopInv'
BY DEF LoopInv, LoopTypes, Unended

LEMMA NextInv == ASSUME LoopInv, [Next]_vars PROVE LoopInv'
<1> USE DEF Positions
<1>1. CASE UNCHANGED vars
  BY <1>1 DEF vars, LoopInv, LoopTypes, Unended
<1>2. ASSUME NEW e \in Terminals, pc # "ended", End(e) PROVE LoopInv'
  BY <1>2, EndInv DEF End, Show
<1>3. ASSUME pc # "ended", pc' \in Positions \ {"ended"}, UNCHANGED out PROVE LoopInv'
  BY <1>3, SilentInv
<1>t. {"completed", "aborted", "failed"} \subseteq Terminals BY DEF Terminals
<1>4. CASE Begin BY <1>4, <1>2, <1>3, <1>t DEF Begin
<1>5. CASE Pull BY <1>5, <1>2, <1>3, <1>t DEF Pull
<1>6. CASE StreamAborted BY <1>6, <1>2, <1>t DEF StreamAborted
<1>7. CASE StreamText
  BY <1>7, ShowInv DEF StreamText, Show, Visible
<1>8. CASE StreamCompleted BY <1>8, <1>3 DEF StreamCompleted, Stash
<1>9. ASSUME NEW c \in CallIds, NEW offered \in BOOLEAN, StreamToolCall(c, offered)
      PROVE  LoopInv'
  BY <1>9, ShowInv DEF StreamToolCall, Show, Visible
<1>10. CASE StreamBadCall BY <1>10, <1>2, <1>t DEF StreamBadCall
<1>11. CASE StreamError BY <1>11, <1>2, <1>t DEF StreamError
<1>12. CASE StreamDone BY <1>12, <1>2, <1>3, <1>t DEF StreamDone
<1>13. CASE ToolStart BY <1>13, <1>2, <1>3, <1>t DEF ToolStart
<1>14. CASE ToolAborted BY <1>14, <1>2, <1>t DEF ToolAborted
<1>15. CASE ToolDone BY <1>15, <1>3 DEF ToolDone
<1>16. CASE NextTool BY <1>16, <1>2, <1>3, <1>t DEF NextTool
<1>17. CASE NextTurn
  <2> DEFINE over == turnIndex + 1 >= MaxTurns
             e    == IF over THEN "failed" ELSE "aborted"
  <2>1. CASE over \/ aborted
    <3>1. pc # "ended" /\ pc' = "ended" /\ out' = Append(out, e)
      BY <1>17, <2>1 DEF NextTurn, Show
    <3>2. e \in Terminals BY <1>t
    <3> QED BY <3>1, <3>2, EndInv
  <2>2. CASE ~(over \/ aborted) BY <1>17, <2>2, <1>3 DEF NextTurn
  <2> QED BY <2>1, <2>2
<1>18. ASSUME NEW c \in CallIds, Decide(c) \/ Approve(c) \/ ToolReturns(c) PROVE LoopInv'
  BY <1>18 DEF Decide, Approve, ToolReturns, Tool, LoopInv, LoopTypes, Unended
<1>19. CASE Abort BY <1>19 DEF Abort, LoopInv, LoopTypes, Unended
<1>20. CASE Return BY <1>20, <1>3 DEF Return
<1> QED BY <1>1, <1>4, <1>5, <1>6, <1>7, <1>8, <1>9, <1>10, <1>11, <1>12, <1>13, <1>14,
           <1>15, <1>16, <1>17, <1>18, <1>19, <1>20 DEF Next

\* The stream of a run has at most one terminal event, at its end, whatever
\* the gateway, the policy, the approvals and the tools do.
THEOREM OneTerminalEvent == Spec => []TerminatesOnce
<1>1. LoopInv => TerminatesOnce
  <2> SUFFICES ASSUME LoopInv PROVE TerminatesOnce OBVIOUS
  <2>1. out # <<>> => Len(out) \in 1 .. Len(out) BY DEF LoopInv, LoopTypes
  <2> QED BY <2>1 DEF LoopInv, LoopTypes, Unended, TerminatesOnce
<1> QED BY InitInv, NextInv, <1>1, PTL DEF Spec

\* Whatever decision or approval was under way when the abort came, no tool
\* starts running after it.
THEOREM AbortStopsTools == Spec => NoToolRunsAfterAbort
<1> DEFINE Quiet == \A c \in CallIds : tool[c] # "running" /\ tool'[c] = "running" => ~aborted
<1>1. ASSUME [Next]_vars PROVE [Quiet]_vars
  <2>1. ASSUME NEW c \in CallIds, ~aborted PROVE Quiet BY <2>1
  <2> SUFFICES ASSUME aborted, Next, NEW c \in CallIds, tool[c] # "running"
               PROVE  tool'[c] # "running"
    BY <1>1
  <2>2. CASE UNCHANGED tool BY <2>2
  <2>3. CASE \E d \in CallIds : Decide(d) \/ Approve(d) \/ ToolReturns(d)
    <3>1. PICK d \in CallIds, from \in {"deciding", "approving", "running"} :
            Tool(d, from, "settled")
      BY <2>3 DEF Decide, Approve, ToolReturns
    <3>2. tool' = [tool EXCEPT ![d] = "settled"] BY <3>1 DEF Tool
    <3>3. CASE c = d /\ c \in DOMAIN tool BY <3>2, <3>3
    <3>4. CASE c # d \/ c \notin DOMAIN tool BY <3>2, <3>4
    <3> QED BY <3>3, <3>4
  <2>4. CASE ToolStart BY <2>4 DEF ToolStart, End, Show
  <2> QED BY <2>2, <2>3, <2>4 DEF Next, Begin, Pull, StreamAborted, StreamText, StreamCompleted,
          StreamToolCall, StreamBadCall, StreamError, StreamDone, ToolAborted, ToolDone,
          NextTool, NextTurn, Abort, Return, End
<1> QED BY <1>1, PTL DEF Spec, NoToolRunsAfterAbort

(***************************************************************************)
(* The batch and the history.                                              *)
(***************************************************************************)
Asking    == {"top", "yielded", "streaming"}
Executing == {"starting", "executing", "executed"}

RunTypes ==
  /\ pc \in Positions
  /\ turnIndex \in Nat /\ completed \in BOOLEAN
  /\ seen \subseteq CallIds
  /\ calls \in Seq(Calls) /\ results \in Seq(CallIds)
  /\ tool \in [CallIds -> {"none", "deciding", "approving", "running", "settled"}]
  /\ messages \in Seq([called : Seq(CallIds), answered : Seq(CallIds)])

\* The ids of the run: none twice, none of the history, all of them seen.
IdsSeen ==
  /\ HistoryIds \subseteq seen
  /\ \A i \in 1 .. Len(calls) : calls[i].id \in seen \ HistoryIds
  /\ \A i, j \in 1 .. Len(calls) : calls[i].id = calls[j].id => i = j
  /\ \A c \in CallIds : tool[c] # "none" => c \in seen

\* How far the batch has come.
Cursor ==
  /\ pc \in Asking =>
       results = <<>> /\ \A i \in 1 .. Len(calls) : tool[calls[i].id] = "none"
  /\ pc \in Executing =>
       /\ completed /\ BatchAccepted
       /\ \A i \in 1 .. Len(calls) :
            /\ i <= Len(results) => tool[calls[i].id] = "settled"
            /\ i > Len(results) + 1 => tool[calls[i].id] = "none"
            /\ i = Len(results) + 1 /\ pc # "executing" => tool[calls[i].id] = "none"
  /\ pc \in {"starting", "executing"} => Len(results) < Len(calls)
  /\ Len(results) <= Len(calls)
  /\ \A i \in 1 .. Len(results) : results[i] = calls[i].id

Past ==
  /\ \A m \in 1 .. Len(messages) : messages[m].answered = messages[m].called
  /\ \A m \in 1 .. Len(messages) : \A j \in 1 .. Len(messages[m].called) :
       /\ messages[m].called[j] \in seen \ HistoryIds
       /\ \A i \in 1 .. Len(calls) : calls[i].id # messages[m].called[j]
  /\ \A m, k \in 1 .. Len(messages) :
       \A j \in 1 .. Len(messages[m].called), l \in 1 .. Len(messages[k].called) :
         messages[m].called[j] = messages[k].called[l] => m = k /\ j = l

BatchInv == RunTypes /\ IdsSeen /\ Cursor /\ ToolsOnlyFromAcceptedBatch /\ Past

LEMMA CallsTyped == ASSUME RunTypes PROVE \A i \in 1 .. Len(calls) : calls[i].id \in CallIds
<1>1. \A i \in 1 .. Len(calls) : calls[i] \in Calls BY DEF RunTypes
<1> QED BY <1>1 DEF Calls

LEMMA BatchInit == Init => BatchInv
<1> SUFFICES ASSUME Init PROVE BatchInv OBVIOUS
<1> USE DEF Init
<1>1. calls = <<>> /\ results = <<>> /\ messages = <<>> /\ pc = "top" OBVIOUS
<1>2. RunTypes
  <2>1. calls \in Seq(Calls) /\ results \in Seq(CallIds) BY <1>1
  <2>2. messages \in Seq([called : Seq(CallIds), answered : Seq(CallIds)]) BY <1>1
  <2>3. tool \in [CallIds -> {"none", "deciding", "approving", "running", "settled"}] OBVIOUS
  <2> QED BY <1>1, <2>1, <2>2, <2>3, LoopAssumption DEF RunTypes, Positions
<1>3. IdsSeen BY DEF IdsSeen
<1>4. Cursor BY DEF Cursor, Asking, Executing
<1>5. ToolsOnlyFromAcceptedBatch BY DEF ToolsOnlyFromAcceptedBatch
<1>6. Past BY DEF Past
<1> QED BY <1>2, <1>3, <1>4, <1>5, <1>6 DEF BatchInv

\* A step that moves the loop only.
LEMMA MoveInv ==
  ASSUME BatchInv, UNCHANGED <<options, turnIndex, completed, calls, results, seen, messages, tool>>,
         pc' \in Positions,
         \/ pc' \in {"ended", "returned"} \/ pc' = pc
         \/ pc \in Asking /\ pc' \in Asking
         \/ pc \in Asking /\ pc' = "starting" /\ completed /\ calls # <<>> /\ BatchAccepted
         \/ pc = "executed" /\ pc' = "starting" /\ Len(results) < Len(calls)
  PROVE  BatchInv'
<1> USE DEF BatchInv, Positions
<1>1. RunTypes' BY DEF RunTypes
<1>2. IdsSeen' BY DEF IdsSeen
<1>3. Len(calls) \in Nat /\ (calls # <<>> => Len(calls) > 0) BY DEF RunTypes
<1>4. Cursor' BY <1>3 DEF Cursor, Asking, Executing, BatchAccepted
<1>5. ToolsOnlyFromAcceptedBatch' BY DEF ToolsOnlyFromAcceptedBatch
<1>6. Past' BY DEF Past
<1> QED BY <1>1, <1>2, <1>4, <1>5, <1>6

\* An invocation goes on: only one that began, and one that settled stays so.
LEMMA ToolInv ==
  ASSUME BatchInv, NEW c \in CallIds, NEW from \in {"deciding", "approving", "running"},
         NEW to \in {"approving", "running", "settled"}, Tool(c, from, to)
  PROVE  BatchInv'
<1> USE DEF BatchInv
<1>1. /\ tool[c] = from /\ tool' = [tool EXCEPT ![c] = to]
      /\ UNCHANGED <<options, pc, turnIndex, completed, calls, results, seen, messages>>
  BY DEF Tool, turnVars
<1>2. \A d \in CallIds : /\ tool'[d] # "none" <=> tool[d] # "none"
                         /\ tool[d] = "settled" => tool'[d] = "settled"
  BY <1>1 DEF RunTypes
<1>3. \A i \in 1 .. Len(calls) : calls[i].id \in CallIds BY CallsTyped
<1>4. RunTypes' BY <1>1 DEF RunTypes
<1>5. IdsSeen' BY <1>1, <1>2 DEF IdsSeen
<1>6. Cursor' BY <1>1, <1>2, <1>3 DEF Cursor, BatchAccepted
<1>7. ToolsOnlyFromAcceptedBatch'
  <2>1. DOMAIN calls = 1 .. Len(calls) BY DEF RunTypes
  <2> QED BY <1>1, <1>2, <1>3, <2>1 DEF ToolsOnlyFromAcceptedBatch
<1>8. Past' BY <1>1 DEF Past
<1> QED BY <1>4, <1>5, <1>6, <1>7, <1>8

LEMMA CompletedInv == ASSUME BatchInv, StreamCompleted PROVE BatchInv'
<1> USE DEF BatchInv, StreamCompleted
<1>1. RunTypes' BY DEF RunTypes, Positions
<1>2. IdsSeen' BY DEF IdsSeen
<1>3. Cursor' BY DEF Cursor, Asking, Executing
<1>4. ToolsOnlyFromAcceptedBatch' BY DEF ToolsOnlyFromAcceptedBatch
<1>5. Past' BY DEF Past
<1> QED BY <1>1, <1>2, <1>3, <1>4, <1>5

LEMMA CallInv ==
  ASSUME BatchInv, NEW c \in CallIds, NEW offered \in BOOLEAN, StreamToolCall(c, offered)
  PROVE  BatchInv'
<1> USE DEF BatchInv
<1>1. /\ pc = "streaming" /\ pc' = "yielded" /\ c \notin seen
      /\ calls' = Append(calls, [id |-> c, offered |-> offered]) /\ seen' = seen \cup {c}
      /\ UNCHANGED <<options, turnIndex, completed, results, messages, tool>>
  BY DEF StreamToolCall, FreshId
<1>2. /\ Len(calls') = Len(calls) + 1 /\ Len(calls) \in Nat /\ calls' \in Seq(Calls)
      /\ \A i \in 1 .. Len(calls) : calls'[i] = calls[i]
      /\ calls'[Len(calls')].id = c
      /\ DOMAIN calls = 1 .. Len(calls) /\ DOMAIN calls' = 1 .. Len(calls')
  BY <1>1 DEF RunTypes, Calls
<1>3. tool[c] = "none" BY <1>1 DEF IdsSeen
<1>4. RunTypes' BY <1>1, <1>2 DEF RunTypes, Positions
<1>5. IdsSeen' BY <1>1, <1>2 DEF IdsSeen
<1>6. Cursor'
  <2>1. results = <<>> BY <1>1 DEF Cursor, Asking
  <2>2. \A i \in 1 .. Len(calls') : tool'[calls'[i].id] = "none"
    BY <1>1, <1>2, <1>3 DEF Cursor, Asking
  <2> QED BY <1>1, <1>2, <2>1, <2>2 DEF Cursor, Asking, Executing
<1>7. ToolsOnlyFromAcceptedBatch'
  <2>1. \A i \in DOMAIN calls' : tool'[calls'[i].id] = "none"
    BY <1>1, <1>2, <1>3 DEF Cursor, Asking
  <2> QED BY <2>1 DEF ToolsOnlyFromAcceptedBatch
<1>8. Past' BY <1>1, <1>2 DEF Past
<1> QED BY <1>4, <1>5, <1>6, <1>7, <1>8

\* The call that is executed is one of the batch.
LEMMA CurrentInBatch ==
  ASSUME BatchInv, pc \in {"starting", "executing"}
  PROVE  /\ Len(results) + 1 \in 1 .. Len(calls) /\ Current = calls[Len(results) + 1].id
         /\ Current \in CallIds /\ Current \in seen
         /\ \A i \in 1 .. Len(calls) : calls[i].id \in CallIds
         /\ \A i \in 1 .. Len(calls) : calls[i].id = Current => i = Len(results) + 1
         /\ Len(results) \in Nat /\ Len(calls) \in Nat /\ DOMAIN calls = 1 .. Len(calls)
<1> USE DEF BatchInv
<1>1. Len(results) \in Nat /\ Len(calls) \in Nat /\ Len(results) < Len(calls)
      /\ DOMAIN calls = 1 .. Len(calls)
  BY DEF RunTypes, Cursor
<1>2. Len(results) + 1 \in 1 .. Len(calls) BY <1>1
<1>3. \A i \in 1 .. Len(calls) : calls[i].id \in CallIds BY CallsTyped
<1> QED BY <1>1, <1>2, <1>3 DEF Current, IdsSeen

LEMMA ToolStartInv == ASSUME BatchInv, ToolStart, ~aborted PROVE BatchInv'
<1> USE DEF BatchInv
<1> DEFINE to == IF options.policy THEN "deciding" ELSE "settled"
<1>1. /\ pc = "starting" /\ pc' = "executing" /\ tool' = [tool EXCEPT ![Current] = to]
      /\ UNCHANGED <<options, turnIndex, completed, calls, results, seen, messages>>
  BY DEF ToolStart, turnVars
<1>2. /\ to \in {"deciding", "settled"} /\ tool'[Current] = to
      /\ \A d \in CallIds : d # Current => tool'[d] = tool[d]
      /\ tool' \in [CallIds -> {"none", "deciding", "approving", "running", "settled"}]
  BY <1>1, CurrentInBatch DEF RunTypes
<1> HIDE DEF to
<1>3. RunTypes' BY <1>1, <1>2 DEF RunTypes, Positions
<1>4. IdsSeen'
  <2>1. \A c \in CallIds : tool'[c] # "none" => c \in seen
    BY <1>1, <1>2, CurrentInBatch DEF IdsSeen
  <2> QED BY <1>1, <2>1 DEF IdsSeen
<1>5. Cursor'
  <2>1. \A i \in 1 .. Len(calls) : /\ i <= Len(results) => tool'[calls[i].id] = "settled"
                                   /\ i > Len(results) + 1 => tool'[calls[i].id] = "none"
    BY <1>1, <1>2, CurrentInBatch DEF Cursor, Executing
  <2>2. completed' /\ BatchAccepted' BY <1>1 DEF Cursor, Executing, BatchAccepted
  <2> QED BY <1>1, <2>1, <2>2 DEF Cursor, Asking, Executing
<1>6. ToolsOnlyFromAcceptedBatch'
  <2>1. completed /\ BatchAccepted BY <1>1 DEF Cursor, Executing
  <2>2. \A i \in 1 .. Len(calls) : tool'[calls[i].id] # "none" => i <= Len(results) + 1
    BY <1>1, <1>2, CurrentInBatch DEF Cursor, Executing
  <2>3. \A i \in 1 .. Len(calls) : i <= Len(results) => tool'[calls[i].id] = "settled"
    BY <1>1, <1>2, CurrentInBatch DEF Cursor, Executing
  <2> QED BY <1>1, <2>1, <2>2, <2>3, CurrentInBatch DEF ToolsOnlyFromAcceptedBatch, BatchAccepted
<1>7. Past' BY <1>1 DEF Past
<1> QED BY <1>3, <1>4, <1>5, <1>6, <1>7

LEMMA ToolDoneInv == ASSUME BatchInv, ToolDone PROVE BatchInv'
<1> USE DEF BatchInv
<1>1. /\ pc = "executing" /\ pc' = "executed" /\ tool[Current] = "settled"
      /\ results' = Append(results, Current)
      /\ UNCHANGED <<options, turnIndex, completed, calls, seen, messages, tool>>
  BY DEF ToolDone
<1>2. /\ Len(results') = Len(results) + 1 /\ results' \in Seq(CallIds)
      /\ \A i \in 1 .. Len(results) : results'[i] = results[i]
      /\ results'[Len(results')] = Current
  BY <1>1, CurrentInBatch DEF RunTypes
<1>3. RunTypes' BY <1>1, <1>2 DEF RunTypes, Positions
<1>4. IdsSeen' BY <1>1 DEF IdsSeen
<1>5. Cursor'
  <2>1. completed' /\ BatchAccepted' BY <1>1 DEF Cursor, Executing, BatchAccepted
  <2>2. \A i \in 1 .. Len(results') : results'[i] = calls'[i].id
    BY <1>1, <1>2, CurrentInBatch DEF Cursor
  <2>3. \A i \in 1 .. Len(calls) : i <= Len(results) + 1 => tool[calls[i].id] = "settled"
    BY <1>1, CurrentInBatch DEF Cursor, Executing
  <2>4. \A i \in 1 .. Len(calls) : i > Len(results) + 1 => tool[calls[i].id] = "none"
    BY <1>1 DEF Cursor, Executing
  <2> QED BY <1>1, <1>2, <2>1, <2>2, <2>3, <2>4, CurrentInBatch DEF Cursor, Asking, Executing
<1>6. ToolsOnlyFromAcceptedBatch' BY <1>1 DEF ToolsOnlyFromAcceptedBatch
<1>7. Past' BY <1>1 DEF Past
<1> QED BY <1>3, <1>4, <1>5, <1>6, <1>7

\* A turn that joins the history answers its own calls, and its ids are new.
LEMMA TurnInv == ASSUME BatchInv, NextTurn PROVE BatchInv'
<1> USE DEF BatchInv
<1> DEFINE turn == [called |-> Ids(calls), answered |-> results]
<1>1. /\ Len(results) = Len(calls) /\ messages' = Append(messages, turn)
      /\ turnIndex' = turnIndex + 1 /\ completed' = FALSE /\ calls' = <<>> /\ results' = <<>>
      /\ pc' \in {"ended", "yielded"} /\ UNCHANGED <<options, seen, tool>>
  BY DEF NextTurn
<1>2. /\ Len(calls) \in Nat /\ DOMAIN calls = 1 .. Len(calls) /\ DOMAIN results = 1 .. Len(results)
      /\ \A i \in 1 .. Len(calls) : calls[i].id \in CallIds
  BY CallsTyped DEF RunTypes
<1>3. /\ Ids(calls) = [i \in 1 .. Len(calls) |-> calls[i].id] BY <1>2 DEF Ids
<1>4. Ids(calls) \in Seq(CallIds) /\ Len(Ids(calls)) = Len(calls)
      /\ \A i \in 1 .. Len(calls) : Ids(calls)[i] = calls[i].id
  BY <1>2, <1>3
<1>5. results = Ids(calls)
  <2>1. results = [i \in 1 .. Len(results) |-> results[i]] BY DEF RunTypes
  <2> QED BY <1>1, <1>3, <2>1 DEF Cursor
<1>6. /\ turn.called = Ids(calls) /\ turn.answered = Ids(calls)
      /\ turn \in [called : Seq(CallIds), answered : Seq(CallIds)]
  BY <1>4, <1>5
<1> HIDE DEF turn
<1>7. /\ messages' \in Seq([called : Seq(CallIds), answered : Seq(CallIds)])
      /\ Len(messages) \in Nat /\ Len(messages') = Len(messages) + 1
      /\ \A m \in 1 .. Len(messages) : messages'[m] = messages[m]
      /\ messages'[Len(messages')] = turn
  BY <1>1, <1>6 DEF RunTypes
<1>8. RunTypes'
  <2>1. turnIndex' \in Nat BY <1>1 DEF RunTypes
  <2>2. calls' \in Seq(Calls) /\ results' \in Seq(CallIds) BY <1>1
  <2> QED BY <1>1, <1>7, <2>1, <2>2 DEF RunTypes, Positions
<1>9. IdsSeen' BY <1>1 DEF IdsSeen
<1>10. Cursor' BY <1>1 DEF Cursor, Asking, Executing
<1>11. ToolsOnlyFromAcceptedBatch' BY <1>1 DEF ToolsOnlyFromAcceptedBatch
<1>12. Past'
  <2>1. \A m \in 1 .. Len(messages') : m = Len(messages') \/ m \in 1 .. Len(messages) BY <1>7
  <2>2. \A m \in 1 .. Len(messages') : messages'[m].answered = messages'[m].called
    BY <1>6, <1>7, <2>1 DEF Past
  <2>3. \A m \in 1 .. Len(messages') : \A j \in 1 .. Len(messages'[m].called) :
          messages'[m].called[j] \in seen' \ HistoryIds
    <3>1. \A j \in 1 .. Len(turn.called) : turn.called[j] \in seen \ HistoryIds
      BY <1>4, <1>6 DEF IdsSeen
    <3> QED BY <1>1, <1>7, <2>1, <3>1, SMTT(30) DEF Past
  <2>4. ASSUME NEW m \in 1 .. Len(messages'), NEW k \in 1 .. Len(messages'),
               NEW j \in 1 .. Len(messages'[m].called), NEW l \in 1 .. Len(messages'[k].called),
               messages'[m].called[j] = messages'[k].called[l]
        PROVE  m = k /\ j = l
    <3>0. /\ m \in 1 .. Len(messages) => messages'[m] = messages[m]
          /\ k \in 1 .. Len(messages) => messages'[k] = messages[k]
      BY <1>7
    <3> DEFINE M == messages'[m].called
               K == messages'[k].called
    <3>n. j \in 1 .. Len(M) /\ l \in 1 .. Len(K) /\ M[j] = K[l] BY <2>4
    <3>p. /\ m = Len(messages') => M = Ids(calls)
          /\ k = Len(messages') => K = Ids(calls)
          /\ m \in 1 .. Len(messages) => M = messages[m].called
          /\ k \in 1 .. Len(messages) => K = messages[k].called
      BY <1>6, <1>7, <3>0
    <3> HIDE DEF M, K
    <3>1. CASE m \in 1 .. Len(messages) /\ k \in 1 .. Len(messages)
      <4>1. /\ j \in 1 .. Len(messages[m].called) /\ l \in 1 .. Len(messages[k].called)
            /\ messages[m].called[j] = messages[k].called[l]
        BY <3>1, <3>n, <3>p
      <4> QED BY <3>1, <4>1 DEF Past
    <3>2. CASE m = Len(messages') /\ k = Len(messages')
      <4>1. j \in 1 .. Len(calls) /\ l \in 1 .. Len(calls) /\ calls[j].id = calls[l].id
        BY <1>4, <3>2, <3>n, <3>p
      <4> QED BY <3>2, <4>1 DEF IdsSeen
    <3>3. CASE m = Len(messages') /\ k \in 1 .. Len(messages)
      <4>1. /\ l \in 1 .. Len(messages[k].called) /\ j \in 1 .. Len(calls)
            /\ calls[j].id = messages[k].called[l]
        BY <1>4, <3>3, <3>n, <3>p
      <4> QED BY <3>3, <4>1 DEF Past
    <3>4. CASE m \in 1 .. Len(messages) /\ k = Len(messages')
      <4>1. /\ j \in 1 .. Len(messages[m].called) /\ l \in 1 .. Len(calls)
            /\ calls[l].id = messages[m].called[j]
        BY <1>4, <3>4, <3>n, <3>p
      <4> QED BY <3>4, <4>1 DEF Past
    <3> QED BY <2>1, <3>1, <3>2, <3>3, <3>4
  <2>5. \A i \in 1 .. Len(calls') : FALSE BY <1>1
  <2> QED BY <2>2, <2>3, <2>4, <2>5 DEF Past
<1> QED BY <1>8, <1>9, <1>10, <1>11, <1>12

LEMMA BatchNext == ASSUME BatchInv, [Next]_vars PROVE BatchInv'
<1> USE DEF turnVars, Positions, Asking
<1>0. pc \in Positions BY DEF BatchInv, RunTypes
<1>1. CASE UNCHANGED vars BY <1>0, <1>1, MoveInv DEF vars
<1>2. ASSUME NEW e, End(e) PROVE BatchInv' BY <1>2, MoveInv DEF End
<1>3. CASE Begin BY <1>2, <1>3, MoveInv DEF Begin
<1>4. CASE Pull BY <1>2, <1>4, MoveInv DEF Pull
<1>5. CASE StreamAborted \/ StreamBadCall \/ StreamError \/ ToolAborted
  BY <1>2, <1>5 DEF StreamAborted, StreamBadCall, StreamError, ToolAborted
<1>6. CASE StreamText BY <1>6, MoveInv DEF StreamText
<1>7. CASE StreamCompleted BY <1>7, CompletedInv
<1>8. ASSUME NEW c \in CallIds, NEW offered \in BOOLEAN, StreamToolCall(c, offered)
      PROVE  BatchInv'
  BY <1>8, CallInv
<1>9. CASE StreamDone BY <1>2, <1>9, MoveInv DEF StreamDone
<1>10. CASE ToolStart
  <2>1. CASE aborted BY <1>2, <1>10, <2>1 DEF ToolStart
  <2>2. CASE ~aborted BY <1>10, <2>2, ToolStartInv
  <2> QED BY <2>1, <2>2
<1>11. CASE ToolDone BY <1>11, ToolDoneInv
<1>12. CASE NextTool BY <1>2, <1>12, MoveInv DEF NextTool
<1>13. CASE NextTurn BY <1>13, TurnInv
<1>14. ASSUME NEW c \in CallIds, Decide(c) \/ Approve(c) \/ ToolReturns(c) PROVE BatchInv'
  BY <1>14, ToolInv DEF Decide, Approve, ToolReturns
<1>15. CASE Abort \/ Return BY <1>0, <1>15, MoveInv DEF Abort, Return
<1> QED BY <1>1, <1>3, <1>4, <1>5, <1>6, <1>7, <1>8, <1>9, <1>10, <1>11, <1>12, <1>13, <1>14,
           <1>15 DEF Next

\* No tool is invoked unless its whole batch is acceptable, the turn was
\* completed and the model can still be asked; the tools of a batch run one at
\* a time, in their order.
THEOREM BatchBeforeTools == Spec => []ToolsOnlyFromAcceptedBatch
<1>1. BatchInv => ToolsOnlyFromAcceptedBatch BY DEF BatchInv
<1> QED BY BatchInit, BatchNext, <1>1, PTL DEF Spec

\* Every request the model gets holds the answers of its own calls, and no id
\* twice, also when the model repeats ids or a tool was slow or aborted.
THEOREM HistoryWellFormed == Spec => []HistoryClosed
<1>1. BatchInv => HistoryClosed
  <2> SUFFICES ASSUME BatchInv PROVE HistoryClosed OBVIOUS
  <2> DEFINE at == {p \in (1 .. Len(messages)) \X (1 .. Cardinality(CallIds)) :
                      p[2] <= Len(messages[p[1]].called)}
  <2>1. Past /\ RunTypes BY DEF BatchInv
  <2>2. DOMAIN messages = 1 .. Len(messages) BY <2>1 DEF RunTypes
  <2>3. ASSUME NEW p \in at
        PROVE  /\ p = <<p[1], p[2]>> /\ p[1] \in 1 .. Len(messages)
               /\ p[2] \in 1 .. Len(messages[p[1]].called)
    <3>1. Len(messages[p[1]].called) \in Nat BY <2>1, <2>3 DEF RunTypes
    <3> QED BY <2>3, <3>1
  <2>4. \A p, q \in at :
          messages[p[1]].called[p[2]] = messages[q[1]].called[q[2]] => p = q
    <3> SUFFICES ASSUME NEW p \in at, NEW q \in at,
                        messages[p[1]].called[p[2]] = messages[q[1]].called[q[2]]
                 PROVE  p = q
      OBVIOUS
    <3>1. p[1] = q[1] /\ p[2] = q[2] BY <2>1, <2>3 DEF Past
    <3> QED BY <2>3, <3>1
  <2>5. \A p \in at : messages[p[1]].called[p[2]] \notin HistoryIds BY <2>1, <2>3 DEF Past
  <2> QED BY <2>1, <2>2, <2>4, <2>5 DEF Past, HistoryClosed
<1> QED BY BatchInit, BatchNext, <1>1, PTL DEF Spec

(***************************************************************************)
(* ContextBuilder: smallest and largest numbers, and smallest sets.        *)
(***************************************************************************)
LEMMA Smallest ==
  ASSUME NEW B \in SUBSET Nat, B # {}
  PROVE  \E m \in B : \A k \in B : m <= k
<1>1. PICK m \in B : \A k \in B : ~(<<k, m>> \in OpToRel(<, Nat))
  BY NatLessThanWellFounded, WFMin
<1>2. ASSUME NEW k \in B PROVE m <= k
  <2>1. ~(k < m) BY <1>1, <1>2 DEF OpToRel
  <2>2. k \in Nat /\ m \in Nat OBVIOUS
  <2> QED BY <2>1, <2>2
<1> QED BY <1>2

LEMMA Largest ==
  ASSUME NEW n \in Nat, NEW B \in SUBSET (0 .. n), B # {}
  PROVE  \E m \in B : \A k \in B : k <= m
<1> DEFINE C == {n - k : k \in B}
<1>1. C \in SUBSET Nat /\ C # {}
  <2>1. \A k \in B : k \in 0 .. n /\ n - k \in Nat OBVIOUS
  <2> QED BY <2>1
<1>2. PICK c \in C : \A d \in C : c <= d BY <1>1, Smallest
<1>3. PICK m \in B : c = n - m OBVIOUS
<1>4. ASSUME NEW k \in B PROVE k <= m
  <2>1. n - k \in C OBVIOUS
  <2>2. c <= n - k BY <1>2, <2>1
  <2> HIDE DEF C
  <2>3. k \in 0 .. n /\ m \in 0 .. n OBVIOUS
  <2> QED BY <1>3, <2>2, <2>3
<1> QED BY <1>4

\* Among subsets of a finite set there is one without a smaller one.
LEMMA SmallestSet ==
  ASSUME NEW S, IsFiniteSet(S), NEW B \in SUBSET SUBSET S, B # {}
  PROVE  \E T \in B : \A U \in SUBSET T : U # T => U \notin B
<1> DEFINE Sized == {Cardinality(T) : T \in B}
<1>1. \A T \in SUBSET S : IsFiniteSet(T) /\ Cardinality(T) \in Nat BY FS_Subset, FS_CardinalityType
<1>2. Sized \in SUBSET Nat /\ Sized # {} BY <1>1
<1>3. PICK n \in Sized : \A k \in Sized : n <= k BY <1>2, Smallest
<1>4. PICK T \in B : n = Cardinality(T) OBVIOUS
<1>5. ASSUME NEW U \in SUBSET T, U # T, U \in B PROVE FALSE
  <2>1. Cardinality(U) \in Sized BY <1>5
  <2>2. n <= Cardinality(U) BY <1>3, <2>1
  <2>3. IsFiniteSet(T) /\ Cardinality(T) \in Nat /\ Cardinality(U) \in Nat BY <1>1, <1>5
  <2>4. Cardinality(U) < Cardinality(T) BY <1>5, <2>3, FS_Subset
  <2> HIDE DEF Sized
  <2> QED BY <1>4, <2>2, <2>3, <2>4
<1> QED BY <1>5

(***************************************************************************)
(* The sum of the messages' sizes is a fold, whose function is defined.    *)
(***************************************************************************)
Step(f, T) == IF T = {} THEN 0
              ELSE LET x == CHOOSE x \in T : TRUE IN history[x].size + f[T \ {x}]

Sums(S, f) == f = [T \in SUBSET S |-> Step(f, T)]

LEMMA Unfold == ASSUME NEW S PROVE Size(S) = (CHOOSE f : Sums(S, f))[S]
BY DEF Size, MapThenSumSet, MapThenFoldSet, Sums, Step

LEMMA StepOf ==
  ASSUME NEW f, NEW T, T # {}
  PROVE  \E x \in T : Step(f, T) = history[x].size + f[T \ {x}] /\ x = CHOOSE y \in T : TRUE
BY DEF Step

\* Two functions agree where both are defined.
LEMMA SumsAgree ==
  ASSUME NEW S, NEW R, IsFiniteSet(S), NEW f, NEW g, Sums(S, f), Sums(R, g), NEW T \in SUBSET S, T \subseteq R
  PROVE  f[T] = g[T]
<1> DEFINE B == {U \in SUBSET S : U \subseteq R /\ f[U] # g[U]}
<1>1. ASSUME B # {} PROVE FALSE
  <2>1. B \in SUBSET SUBSET S OBVIOUS
  <2>2. PICK U \in B : \A V \in SUBSET U : V # U => V \notin B BY <1>1, <2>1, SmallestSet
  <2>3. f[U] = Step(f, U) /\ g[U] = Step(g, U) BY DEF Sums
  <2>4. U # {} BY <2>3 DEF Step
  <2>5. PICK x \in U : Step(f, U) = history[x].size + f[U \ {x}] /\ x = CHOOSE y \in U : TRUE
    BY <2>4, StepOf
  <2>6. Step(g, U) = history[x].size + g[U \ {x}] BY <2>4, <2>5 DEF Step
  <2>7. f[U \ {x}] = g[U \ {x}] BY <2>2
  <2> QED BY <2>3, <2>5, <2>6, <2>7
<1> QED BY <1>1

LEMMA SumsExist == ASSUME NEW S, IsFiniteSet(S) PROVE \E f : Sums(S, f)
<1> DEFINE B == {T \in SUBSET S : ~ \E f : Sums(T, f)}
<1>1. ASSUME B # {} PROVE FALSE
  <2>1. B \in SUBSET SUBSET S OBVIOUS
  <2>2. PICK T \in B : \A U \in SUBSET T : U # T => U \notin B
    <3> HIDE DEF B
    <3> QED BY <1>1, <2>1, SmallestSet
  <2> DEFINE F(U) == CHOOSE f : Sums(U, f)
             first(U) == CHOOSE x \in U : TRUE
             sum == [U \in SUBSET T |->
                       IF U = {} THEN 0
                       ELSE history[first(U)].size + F(U \ {first(U)})[U \ {first(U)}]]
  <2>3. \A U \in SUBSET T : U # T => Sums(U, F(U)) BY <2>2
  <2>4. \A U \in SUBSET T : U # {} => first(U) \in U OBVIOUS
  <2>5. ASSUME NEW U \in SUBSET T, U # T PROVE sum[U] = F(U)[U]
    <3>1. F(U)[U] = Step(F(U), U)
      <4>1. Sums(U, F(U)) BY <2>3, <2>5
      <4> HIDE DEF F
      <4> QED BY <4>1 DEF Sums
    <3>2. CASE U = {} BY <3>1, <3>2 DEF Step
    <3>3. CASE U # {}
      <4>1. first(U) \in U BY <2>4, <3>3
      <4> DEFINE V == U \ {first(U)}
      <4>2. V \in SUBSET T /\ V # T /\ V \in SUBSET U BY <4>1
      <4>3. Sums(V, F(V)) /\ Sums(U, F(U)) BY <2>3, <2>5, <4>2
      <4>4. IsFiniteSet(U) BY FS_Subset
      <4> HIDE DEF F
      <4>5. F(U)[V] = F(V)[V] BY <4>2, <4>3, <4>4, SumsAgree
      <4>6. F(U)[U] = history[first(U)].size + F(U)[V] BY <3>1, <3>3 DEF Step
      <4> QED BY <3>3, <4>5, <4>6
    <3> QED BY <3>2, <3>3
  <2>6. ASSUME NEW U \in SUBSET T PROVE sum[U] = Step(sum, U)
    <3>1. CASE U = {} BY <3>1 DEF Step
    <3>2. CASE U # {}
      <4>1. first(U) \in U BY <2>4, <3>2
      <4>2. U \ {first(U)} \in SUBSET T /\ U \ {first(U)} # T BY <4>1
      <4>3. sum[U \ {first(U)}] = F(U \ {first(U)})[U \ {first(U)}] BY <2>5, <4>2
      <4>4. sum[U] = history[first(U)].size + F(U \ {first(U)})[U \ {first(U)}] BY <3>2
      <4> HIDE DEF F, sum
      <4> QED BY <3>2, <4>3, <4>4 DEF Step
    <3> QED BY <3>1, <3>2
  <2>7. sum = [U \in SUBSET T |-> sum[U]] OBVIOUS
  <2> HIDE DEF sum
  <2>8. sum = [U \in SUBSET T |-> Step(sum, U)] BY <2>6, <2>7
  <2>9. Sums(T, sum) BY <2>8 DEF Sums
  <2> QED BY <2>9
<1> QED BY <1>1

\* Sizes add up to a number of bytes.
LEMMA SizeIsNat ==
  ASSUME NEW S, IsFiniteSet(S), \A i \in S : history[i].size \in Nat
  PROVE  Size(S) \in Nat
<1> DEFINE f == CHOOSE f : Sums(S, f)
           B == {T \in SUBSET S : f[T] \notin Nat}
<1>1. Sums(S, f) BY SumsExist
<1> HIDE DEF f
<1>2. ASSUME B # {} PROVE FALSE
  <2>1. B \in SUBSET SUBSET S OBVIOUS
  <2>2. PICK T \in B : \A U \in SUBSET T : U # T => U \notin B
    <3> HIDE DEF B
    <3> QED BY <1>2, <2>1, SmallestSet
  <2>3. f[T] = Step(f, T) BY <1>1 DEF Sums
  <2>4. T # {} BY <2>3 DEF Step
  <2>5. PICK x \in T : f[T] = history[x].size + f[T \ {x}] BY <2>3, <2>4, StepOf
  <2>6. f[T \ {x}] \in Nat BY <2>2
  <2>7. history[x].size \in Nat OBVIOUS
  <2>8. f[T] \notin Nat OBVIOUS
  <2> HIDE DEF B
  <2> QED BY <2>5, <2>6, <2>7, <2>8
<1>3. f[S] \in Nat BY <1>2
<1> QED BY <1>3, Unfold DEF f

(***************************************************************************)
(* Units.                                                                  *)
(***************************************************************************)
\* What the histories have in common, whatever their length.
Proper(h) ==
  /\ Len(h) \in Nat /\ DOMAIN h = 1 .. Len(h)
  /\ \A i \in DOMAIN h : /\ h[i].size \in Nat
                         /\ h[i].kind = "result" =>
                              h[i].of \in 1 .. i - 1 /\ h[h[i].of].kind = "call"

LEMMA HistoriesProper == ASSUME ContextAssumption, NEW h \in Histories PROVE Proper(h)
<1>1. PICK n \in 1 .. MaxMessages : h \in [1 .. n -> Messages(n)] BY DEF Histories
<1>2. n \in Nat /\ DOMAIN h = 1 .. n BY <1>1 DEF ContextAssumption
<1>3. Len(h) = n
  <2>1. h \in Seq(Messages(n)) BY <1>1, <1>2
  <2> QED BY <1>2, <2>1
<1>4. ASSUME NEW i \in DOMAIN h
      PROVE  /\ h[i].size \in Nat
             /\ h[i].kind = "result" => h[i].of \in 1 .. i - 1 /\ h[h[i].of].kind = "call"
  <2>1. h[i] \in Messages(n) BY <1>1, <1>4
  <2>2. h[i].size \in Nat BY <2>1 DEF Messages, ContextAssumption
  <2>3. ASSUME h[i].kind = "result" PROVE h[i].of \in 1 .. i - 1 /\ h[h[i].of].kind = "call"
    <3>1. h[i].of \in 1 .. n - 1 BY <2>1, <2>3 DEF Messages, Kinds
    <3>2. h[i].of < i /\ h[h[i].of].kind = "call" BY <2>3 DEF Histories
    <3> QED BY <1>2, <1>4, <3>1, <3>2
  <2> QED BY <2>2, <2>3
<1> QED BY <1>2, <1>3, <1>4 DEF Proper

\* Every message is in a unit.
LEMMA UnitsCover ==
  ASSUME Proper(history), NEW i \in All
  PROVE  \E h \in Heads : i \in Unit(h)
<1> DEFINE B == {h \in 1 .. i : \A j \in h + 1 .. i : Grouped(j)}
<1>1. i \in Nat /\ i >= 1 /\ All = 1 .. Len(history) /\ Len(history) \in Nat /\ i <= Len(history)
  BY DEF Proper, All
<1>2. B \in SUBSET Nat /\ i \in B BY <1>1
<1>3. PICK h \in B : \A k \in B : h <= k
  <2> HIDE DEF B
  <2> QED BY <1>2, Smallest
<1>4. h \in 1 .. i /\ h \in All BY <1>1
<1>5. ASSUME Grouped(h) PROVE FALSE
  <2>1. h - 1 \in 1 .. i BY <1>1, <1>4, <1>5 DEF Grouped
  <2>2. \A j \in (h - 1) + 1 .. i : j = h \/ j \in h + 1 .. i BY <1>1, <1>4
  <2>3. h - 1 \in B BY <1>3, <1>5, <2>1, <2>2
  <2> QED BY <1>1, <1>3, <1>4, <2>3
<1> QED BY <1>1, <1>3, <1>4, <1>5 DEF Heads, Unit

\* No message is in two units.
LEMMA UnitsApart ==
  ASSUME Proper(history), NEW h \in Heads, NEW g \in Heads, NEW i \in Unit(h), i \in Unit(g)
  PROVE  h = g
<1>1. h \in Nat /\ g \in Nat /\ i \in Nat /\ i >= h /\ i >= g BY DEF Heads, Unit, All, Proper
<1>2. ~(h < g) BY <1>1 DEF Heads, Unit
<1>3. ~(g < h) BY <1>1 DEF Heads, Unit
<1> QED BY <1>1, <1>2, <1>3

\* A region has a message exactly if it has the message's unit.
LEMMA RegionHasUnits ==
  ASSUME Proper(history), NEW heads \in SUBSET Compressible, NEW h \in Heads, NEW i \in Unit(h)
  PROVE  i \in Region(heads) <=> h \in heads \/ Protected(h)
<1>1. ASSUME i \in Region(heads) PROVE h \in heads \/ Protected(h)
  <2>1. PICK g \in heads \cup {k \in Heads : Protected(k)} : i \in Unit(g) BY <1>1 DEF Region
  <2>2. g \in Heads BY DEF Compressible
  <2>3. h = g BY <2>1, <2>2, UnitsApart
  <2> QED BY <2>1, <2>3
<1>2. ASSUME h \in heads \/ Protected(h) PROVE i \in Region(heads) BY <1>2 DEF Region
<1> QED BY <1>1, <1>2

LEMMA RegionInHistory == ASSUME NEW heads PROVE Region(heads) \subseteq All
BY DEF Region, Unit

\* A call and the results that follow it are one unit.
LEMMA CallAndResult ==
  ASSUME Proper(history), NEW i \in Results, Adjacent(i), NEW h \in Heads
  PROVE  i \in Unit(h) <=> history[i].of \in Unit(h)
<1> DEFINE c == history[i].of
<1>1. /\ i \in All /\ All = 1 .. Len(history) /\ Len(history) \in Nat
      /\ c \in 1 .. i - 1 /\ history[c].kind = "call"
  BY DEF Proper, Results, All
<1>2. \A j \in c + 1 .. i : history[j].kind = "result" BY DEF Adjacent
<1> HIDE DEF c
<1>3. c \in All /\ h \in All BY <1>1 DEF Heads
<1>4. ASSUME NEW j \in c + 1 .. i PROVE Grouped(j)
  <2>1. c \in 1 .. j - 1 BY <1>1
  <2>2. \A k \in c + 1 .. j : history[k].kind = "result" BY <1>1, <1>2
  <2> QED BY <1>1, <1>2, <2>1, <2>2 DEF Grouped
<1>5. ASSUME c \in Unit(h) PROVE i \in Unit(h)
  <2>1. h <= c /\ \A j \in h + 1 .. c : Grouped(j) BY <1>5 DEF Unit
  <2>2. \A j \in h + 1 .. i : j \in h + 1 .. c \/ j \in c + 1 .. i BY <1>1, <1>3
  <2> QED BY <1>1, <1>3, <1>4, <2>1, <2>2 DEF Unit
<1>6. ASSUME i \in Unit(h) PROVE c \in Unit(h)
  <2>1. h <= i /\ \A j \in h + 1 .. i : Grouped(j) BY <1>6 DEF Unit
  <2>2. h \notin c + 1 .. i BY <1>4 DEF Heads
  <2>3. h <= c BY <1>1, <1>3, <2>1, <2>2
  <2> QED BY <1>1, <1>3, <2>1, <2>3 DEF Unit
<1> QED BY <1>5, <1>6 DEF c

\* So it stays or goes with them.
LEMMA TogetherOrNot ==
  ASSUME Proper(history), NEW heads \in SUBSET Compressible, NEW i \in Results, Adjacent(i)
  PROVE  i \in Region(heads) <=> history[i].of \in Region(heads)
<1>1. i \in All BY DEF Results
<1>2. PICK h \in Heads : i \in Unit(h) BY <1>1, UnitsCover
<1>3. history[i].of \in Unit(h) BY <1>2, CallAndResult
<1> QED BY <1>2, <1>3, RegionHasUnits

\* The last message of a user, if there is one.
LEMMA LastUserIs ==
  ASSUME Proper(history)
  PROVE  /\ LastUser \in Nat
         /\ LastUser > 0 => LastUser \in All /\ history[LastUser].kind = "user"
<1> DEFINE users == {i \in All : history[i].kind = "user"} \cup {0}
<1>1. Len(history) \in Nat /\ All = 1 .. Len(history) BY DEF Proper, All
<1>2. users \in SUBSET (0 .. Len(history)) /\ users # {} BY <1>1
<1>3. \E m \in users : \A k \in users : k <= m
  <2> HIDE DEF users
  <2> QED BY <1>1, <1>2, Largest
<1>4. LastUser = CHOOSE m \in users : \A k \in users : m >= k BY DEF LastUser, Max
<1>5. PICK m \in users : \A k \in users : k <= m BY <1>3
<1>6. \A k \in users : m >= k
  <2> HIDE DEF users
  <2> QED BY <1>1, <1>2, <1>5
<1>7. LastUser \in users
  <2> HIDE DEF users
  <2> QED BY <1>4, <1>6
<1> QED BY <1>1, <1>7

\* What is protected: every system message, and all from the last user message.
LEMMA ProtectedStay ==
  ASSUME Proper(history), NEW heads \in SUBSET Compressible
  PROVE  /\ {i \in All : history[i].kind = "system"} \subseteq Region(heads)
         /\ LastUser > 0 => LastUser .. Len(history) \subseteq Region(heads)
<1>1. Len(history) \in Nat /\ All = 1 .. Len(history) BY DEF Proper, All
<1>2. ASSUME NEW i \in All, history[i].kind = "system" PROVE i \in Region(heads)
  <2>1. i \in Heads /\ Protected(i) BY <1>2 DEF Heads, Grouped, Protected
  <2>2. i \in Unit(i) BY <1>1 DEF Unit
  <2> QED BY <2>1, <2>2, RegionHasUnits
<1>3. ASSUME LastUser > 0, NEW i \in LastUser .. Len(history) PROVE i \in Region(heads)
  <2>1. LastUser \in Nat /\ LastUser \in All /\ history[LastUser].kind = "user" BY <1>3, LastUserIs
  <2>2. i \in All BY <1>1, <1>3, <2>1
  <2>3. PICK h \in Heads : i \in Unit(h) BY <2>2, UnitsCover
  <2>4. ~Grouped(LastUser) BY <2>1 DEF Grouped
  <2>5. h \in Nat /\ i \in Nat /\ \A j \in h + 1 .. i : Grouped(j) BY <1>1, <2>2, <2>3 DEF Heads, Unit
  <2>6. LastUser \notin h + 1 .. i BY <2>4, <2>5
  <2>7. h >= LastUser BY <1>3, <2>1, <2>5, <2>6
  <2>8. Protected(h) BY <1>3, <2>7 DEF Protected
  <2> QED BY <2>3, <2>8, RegionHasUnits
<1> QED BY <1>2, <1>3

(***************************************************************************)
(* The call.  While the summarizer works, the history is known not to fit. *)
(***************************************************************************)
Whole  == Bytes(memory + Size(All)) <= budget
Guards == Bytes(memory + Size(ProtectedRegion)) + Reserved > budget

ContextInv ==
  /\ Proper(history) /\ memory \in Nat /\ budget \in Nat
  /\ step \in {"called", "summarizing", "answered"}
  /\ step # "answered" => result = Nothing
  /\ step = "summarizing" => ~Whole /\ ~Guards
  /\ ContextSound

LEMMA SizeStays == ASSUME NEW kept, UNCHANGED history PROVE Size(kept)' = Size(kept)
BY DEF Size, MapThenSumSet, MapThenFoldSet

LEMMA ContextSizes ==
  ASSUME ContextAssumption, ContextInv, NEW kept \in SUBSET All
  PROVE  Size(kept) \in Nat /\ Bytes(memory + Size(kept)) \in Nat /\ Reserved \in Nat /\ budget \in Nat
<1>1. IsFiniteSet(All)
  <2>1. Len(history) \in Nat /\ All = 1 .. Len(history) BY DEF ContextInv, Proper, All
  <2> QED BY <2>1, FS_Interval
<1>2. IsFiniteSet(kept) /\ \A i \in kept : history[i].size \in Nat
  BY <1>1, FS_Subset DEF ContextInv, Proper, All
<1>3. Size(kept) \in Nat BY <1>2, SizeIsNat
<1> QED BY <1>3 DEF ContextInv, Bytes, Reserved, ContextAssumption

\* The selection leaves something out: all of it would not have fitted.
LEMMA SomethingGoes ==
  ASSUME ContextAssumption, ContextInv, ~Whole, ~Guards,
         NEW heads \in SUBSET Compressible, Selected(heads)
  PROVE  Region(heads) # All
<1> SUFFICES ASSUME Region(heads) = All PROVE FALSE OBVIOUS
<1>1. Proper(history) /\ Len(history) \in Nat /\ All = 1 .. Len(history)
  BY DEF ContextInv, Proper, All
<1>2. ASSUME NEW h \in Compressible PROVE h \in heads
  <2>1. h \in Heads /\ ~Protected(h) /\ h \in Unit(h) BY <1>1 DEF Compressible, Heads, Unit
  <2>2. h \in Region(heads) BY <2>1 DEF Heads
  <2> QED BY <1>1, <2>1, <2>2, RegionHasUnits
<1>3. heads \in SUBSET Nat BY <1>1 DEF Compressible, Heads
<1>4. CASE heads = {}
  <2>1. ProtectedRegion = All BY <1>4 DEF ProtectedRegion
  <2>2. Bytes(memory + Size(All)) \in Nat /\ Reserved \in Nat /\ budget \in Nat BY ContextSizes
  <2> QED BY <2>1, <2>2 DEF Whole, Guards
<1>5. CASE heads # {}
  <2>1. PICK m \in heads : \A k \in heads : m <= k BY <1>3, <1>5, Smallest
  <2>2. {g \in heads : g > m} \cup {m} = heads
    <3>1. \A g \in heads : g > m \/ g = m
      <4> SUFFICES ASSUME NEW g \in heads PROVE g > m \/ g = m OBVIOUS
      <4>1. g \in Nat /\ m \in Nat /\ m <= g BY <1>3, <2>1
      <4> QED BY <4>1
    <3> QED BY <3>1
  <2>3. Fits(Region(heads)) BY <2>1, <2>2 DEF Selected
  <2>4. Bytes(memory + Size(All)) \in Nat /\ Reserved \in Nat /\ budget \in Nat BY ContextSizes
  <2> QED BY <2>3, <2>4 DEF Fits, Whole
<1> QED BY <1>4, <1>5

LEMMA InitContext == ASSUME ContextAssumption PROVE ContextInit => ContextInv
<1> SUFFICES ASSUME ContextInit PROVE ContextInv OBVIOUS
<1>1. Proper(history) BY HistoriesProper DEF ContextInit
<1>2. memory \in Nat /\ budget \in Nat BY DEF ContextInit, ContextAssumption
<1> QED BY <1>1, <1>2 DEF ContextInit, ContextInv, ContextSound, Nothing

\* An answer with the history as it was.
LEMMA AnswerKeeps ==
  ASSUME ContextAssumption, ContextInv, NEW code, NEW kept \in SUBSET All, NEW summary \in Nat,
         Reply(code, kept, summary),
         code = "ok" =>
           /\ {i \in All : history[i].kind = "system"} \subseteq kept
           /\ LastUser > 0 => LastUser .. Len(history) \subseteq kept
           /\ \A i \in Results : Adjacent(i) => (i \in kept <=> history[i].of \in kept)
           /\ Bytes(memory + summary + Size(kept)) <= budget
           /\ (kept = All) <=> (summary = 0),
         code = "invalid_messages" => \E i \in Results : ~Adjacent(i)
  PROVE  ContextInv'
<1>1. /\ step' = "answered" /\ result' = [code |-> code, kept |-> kept, summary |-> summary]
      /\ UNCHANGED <<history, memory, budget>>
  BY DEF Reply
<1>2. All' = All /\ LastUser' = LastUser /\ Results' = Results
  BY <1>1 DEF All, LastUser, Results
<1>3. Size(kept)' = Size(kept) BY <1>1, SizeStays
<1>5. ContextSound' BY <1>1, <1>2, <1>3 DEF ContextSound, Adjacent, Bytes, All, Results
<1> QED BY <1>1, <1>5 DEF ContextInv, Proper

LEMMA RefusalKeeps ==
  ASSUME ContextAssumption, ContextInv, NEW code, code \notin {"ok", "invalid_messages"}, Refuse(code)
  PROVE  ContextInv'
BY AnswerKeeps DEF Refuse

\* The history is as it was, and there is no answer yet.
LEMMA WaitingKeeps ==
  ASSUME ContextInv, step # "answered", UNCHANGED <<history, memory, budget, result>>,
         \/ step' = step
         \/ step' = "summarizing" /\ ~Whole /\ ~Guards
  PROVE  ContextInv'
<1>1. Size(All)' = Size(All) /\ Size(ProtectedRegion)' = Size(ProtectedRegion)
  <2>1. All' = All /\ ProtectedRegion' = ProtectedRegion
    BY DEF All, ProtectedRegion, Region, Heads, Grouped, Unit, Protected, LastUser
  <2> QED BY <2>1 DEF Size, MapThenSumSet, MapThenFoldSet
<1>2. Whole' = Whole /\ Guards' = Guards BY <1>1 DEF Whole, Guards, Reserved, Bytes
<1>3. result' = Nothing BY DEF ContextInv
<1>4. ContextSound' BY <1>3 DEF ContextSound, Nothing
<1> QED BY <1>2, <1>3, <1>4 DEF ContextInv, Proper

LEMMA WholeHistory ==
  ASSUME ContextAssumption, ContextInv, Outcome = "whole", Reply("ok", All, 0)
  PROVE  ContextInv'
<1>1. Proper(history) /\ Len(history) \in Nat /\ All = 1 .. Len(history) /\ memory \in Nat
  BY DEF ContextInv, Proper, All
<1>2. Bytes(memory + 0 + Size(All)) <= budget
  <2>1. Bytes(memory + Size(All)) <= budget BY DEF Outcome
  <2>2. memory + 0 = memory BY <1>1
  <2> QED BY <2>1, <2>2
<1>3. LastUser > 0 => LastUser .. Len(history) \subseteq All BY <1>1, LastUserIs
<1>4. \A i \in Results : i \in All /\ history[i].of \in All
  BY <1>1 DEF Results, Proper
<1> QED BY <1>2, <1>3, <1>4, AnswerKeeps

\* A context with a summary.
LEMMA SummaryAnswers ==
  ASSUME ContextAssumption, ContextInv, step = "summarizing", NEW text \in 1 .. MaxSummary,
         NEW heads \in SUBSET Compressible, Selected(heads), Answer(Region(heads), text)
  PROVE  ContextInv'
<1> DEFINE kept == Region(heads)
<1>1. Proper(history) /\ memory \in Nat /\ ~Whole /\ ~Guards /\ text \in Nat /\ text > 0 /\ Header \in Nat
  BY DEF ContextInv, ContextAssumption
<1>2. kept \in SUBSET All BY RegionInHistory
<1>3. kept # All BY <1>1, SomethingGoes
<1>4. /\ {i \in All : history[i].kind = "system"} \subseteq kept
      /\ LastUser > 0 => LastUser .. Len(history) \subseteq kept
  BY <1>1, ProtectedStay
<1>5. \A i \in Results : Adjacent(i) => (i \in kept <=> history[i].of \in kept)
  BY <1>1, TogetherOrNot
<1>6. Orphaned(kept) => \E i \in Results : ~Adjacent(i)
  BY <1>2, <1>5 DEF Orphaned, Results
<1> HIDE DEF kept
<1>7. CASE Orphaned(kept) /\ Refuse("invalid_messages")
  <2>1. Reply("invalid_messages", {}, 0) BY <1>7 DEF Refuse
  <2> QED BY <1>6, <1>7, <2>1, AnswerKeeps
<1>8. CASE Refuse("budget_exceeded") BY <1>8, RefusalKeeps
<1>9. CASE /\ Bytes(memory + Header + text + Size(kept)) <= budget
           /\ Reply("ok", kept, Header + text)
  <2>1. Header + text \in Nat /\ Header + text # 0
        /\ memory + Header + text = memory + (Header + text)
    BY <1>1
  <2>2. Bytes(memory + (Header + text) + Size(kept)) <= budget BY <1>9, <2>1
  <2> QED BY <1>2, <1>3, <1>4, <1>5, <1>9, <2>1, <2>2, AnswerKeeps
<1> QED BY <1>7, <1>8, <1>9 DEF Answer, kept

LEMMA NextContext ==
  ASSUME ContextAssumption, ContextInv, [ContextNext]_contextVars
  PROVE  ContextInv'
<1>1. CASE BuildContext
  <2>1. CASE Outcome = "whole" /\ Reply("ok", All, 0) BY <2>1, WholeHistory
  <2>2. CASE Outcome \in {"aborted", "budget_exceeded"} /\ Refuse(Outcome) BY <2>2, RefusalKeeps
  <2>3. CASE Refuse("compression_required") \/ Refuse("compression_failed") BY <2>3, RefusalKeeps
  <2>4. CASE /\ Outcome = "compress" /\ step' = "summarizing"
             /\ UNCHANGED <<history, memory, budget, cancelled, result>>
    <3>1. ~Whole /\ ~Guards BY <2>4 DEF Outcome, Whole, Guards
    <3> QED BY <1>1, <2>4, <3>1, WaitingKeeps DEF BuildContext
  <2> QED BY <1>1, <2>1, <2>2, <2>3, <2>4 DEF BuildContext
<1>2. CASE SummarizerFails BY <1>2, RefusalKeeps DEF SummarizerFails
<1>3. CASE AbortContext
  <2>1. step # "answered" /\ step' = step /\ UNCHANGED <<history, memory, budget, result>>
    BY <1>3 DEF AbortContext
  <2> QED BY <2>1, WaitingKeeps
<1>4. CASE SummaryAborted BY <1>4, RefusalKeeps DEF SummaryAborted
<1>5. ASSUME NEW text \in 0 .. MaxSummary + 1, Summarized(text) PROVE ContextInv'
  BY <1>5, RefusalKeeps, SummaryAnswers DEF Summarized
<1>6. CASE UNCHANGED contextVars
  <2>1. CASE step = "answered"
    <3>1. ContextSound'
      <4>1. Size(result.kept)' = Size(result.kept) BY <1>6, SizeStays DEF contextVars
      <4> QED BY <1>6, <4>1
              DEF ContextInv, ContextSound, contextVars, All, LastUser, Results, Adjacent, Bytes
    <3> QED BY <1>6, <2>1, <3>1 DEF contextVars, ContextInv, Proper
  <2>2. CASE step # "answered"
    <3>1. step' = step /\ UNCHANGED <<history, memory, budget, result>> BY <1>6 DEF contextVars
    <3> QED BY <2>2, <3>1, WaitingKeeps
  <2> QED BY <2>1, <2>2
<1> QED BY <1>1, <1>2, <1>3, <1>4, <1>5, <1>6 DEF ContextNext

\* A context that was cut down, for every history and every budget, keeps what
\* is protected and every call with its results, stays within the budget and
\* has a summary of what it leaves out (buildContext).
THEOREM ContextsAreSound == ContextSpec => []ContextSound
<1>1. ContextInit => ContextInv BY ContextAssumption, InitContext
<1>2. ContextInv /\ [ContextNext]_contextVars => ContextInv' BY ContextAssumption, NextContext
<1>3. ContextInv => ContextSound BY DEF ContextInv
<1> QED BY <1>1, <1>2, <1>3, PTL DEF ContextSpec
=============================================================================
