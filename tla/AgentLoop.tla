------------------------------ MODULE AgentLoop ------------------------------
(***************************************************************************)
(* One run of the agent: the multi-turn loop of                            *)
(* packages/agent-runtime/src/agent-loop.ts over Agent Core, its governed  *)
(* tool executor (tool-policy.ts) and the mapping onto the events of the   *)
(* Local Agent API (packages/agent-backend/src/events.ts).                 *)
(*                                                                         *)
(* The loop is an async generator: it runs only when its consumer pulls,   *)
(* and an abort may come whenever it is suspended.  pc says where:         *)
(*   top       before the first pull                                       *)
(*   yielded   at a yield inside a model turn                              *)
(*   streaming in await nextStep: the gateway or the abort signal          *)
(*   starting  at the yield of tool_execution_started                      *)
(*   executing in await executeTool: the tool or the abort signal          *)
(*   executed  at the yield of tool_execution_completed                    *)
(*   ended     the stream has ended by itself                              *)
(*   returned  the consumer gave the stream up                             *)
(* The gateway's answers are arbitrary.  A tool invocation is an activity  *)
(* of its own, which an abort does not stop.                               *)
(***************************************************************************)
EXTENDS Naturals, Sequences, FiniteSets

CONSTANTS CallIds,      \* ids a model may give its tool calls
          HistoryIds,   \* ids that the caller's messages already hold
          MaxTurns,     \* resolved.maxTurns
          MaxToolCalls, \* resolved.maxToolCallsPerTurn
          MaxTexts      \* bound: text, usage and route events per turn

ASSUME LoopAssumption ==
  /\ HistoryIds \subseteq CallIds
  /\ MaxTurns \in Nat \ {0}
  /\ MaxToolCalls \in Nat \ {0}
  /\ MaxTexts \in Nat

VARIABLES options,   \* which of executor, policy, approvalHandler were given
          aborted,   \* signal.aborted
          pc,        \* where the loop is suspended
          turnIndex,
          texts,     \* events counted by MaxTexts in this turn
          completed, \* the gateway sent completed in this turn
          calls,     \* toolCalls of this turn: id, and whether the tool is offered
          results,   \* ids of resultBlocks of this turn
          seen,      \* seenToolCallIds
          messages,  \* turns appended to the history: ids called, ids answered
          tool,      \* the invocation of each call
          pending,   \* mapAgentLoopEvents: a completed is stashed
          out        \* events the consumer received

turnVars == <<texts, completed, calls, results>>
vars == <<options, aborted, pc, turnIndex, texts, completed, calls, results,
          seen, messages, tool, pending, out>>

Terminals == {"completed", "aborted", "failed"}
Visible   == {"text", "tool_call"}
Halted == pc \in {"ended", "returned"}

Calls == [id : CallIds, offered : BOOLEAN]
Ids(s) == [i \in DOMAIN s |-> s[i].id]
Current == calls[Len(results) + 1].id   \* the call being executed

Init == /\ options \in [executor : BOOLEAN, policy : BOOLEAN, approval : BOOLEAN]
        /\ aborted = FALSE
        /\ pc = "top"
        /\ turnIndex = 0
        /\ texts = 0 /\ completed = FALSE /\ calls = <<>> /\ results = <<>>
        /\ seen = HistoryIds
        /\ messages = <<>>
        /\ tool = [c \in CallIds |-> "none"]
        /\ pending = FALSE
        /\ out = <<>>

(***************************************************************************)
(* Events, as mapAgentLoopEvents passes them on.                           *)
(***************************************************************************)
Show(e) == out' = Append(out, e) /\ pending' = FALSE

\* An error event, or loop_completed, and return.
End(e) == /\ Show(e)
          /\ pc' = "ended"
          /\ UNCHANGED <<options, aborted, turnIndex, turnVars, seen, messages, tool>>

\* Mutant: the first completed of a turn is passed on at once.
MutantStash == out' = Append(out, "completed") /\ pending' = TRUE

\* A turn's completed is kept back until the loop completes.
Stash == pending' = TRUE /\ UNCHANGED out

(***************************************************************************)
(* A model turn.                                                           *)
(***************************************************************************)
\* The first pull: the abort check, the request is read, then the yield of
\* turn_started.
Begin ==
  /\ pc = "top"
  /\ \/ aborted /\ End("aborted")
     \/ ~aborted /\ End("failed")
     \/ /\ ~aborted
        /\ pc' = "yielded"
        /\ UNCHANGED <<options, aborted, turnIndex, turnVars, seen, messages, tool, pending, out>>

\* nextStep: looks at the signal, then asks the gateway.
Pull ==
  /\ pc = "yielded"
  /\ \/ aborted /\ End("aborted")
     \/ /\ ~aborted
        /\ pc' = "streaming"
        /\ UNCHANGED <<options, aborted, turnIndex, turnVars, seen, messages, tool, pending, out>>

\* Mutant: nextStep waits for the gateway alone.
MutantStreamAborted == pc = "streaming" /\ aborted /\ FALSE /\ UNCHANGED vars

\* The signal wins the race in nextStep.
StreamAborted == pc = "streaming" /\ aborted /\ End("aborted")

\* route_selected, text_delta or usage.
StreamText ==
  /\ pc = "streaming" /\ texts < MaxTexts
  /\ texts' = texts + 1
  /\ Show("text")
  /\ pc' = "yielded"
  /\ UNCHANGED <<options, aborted, turnIndex, completed, calls, results, seen, messages, tool>>

StreamCompleted ==
  /\ pc = "streaming"
  /\ completed' = TRUE
  /\ Stash
  /\ pc' = "yielded"
  /\ UNCHANGED <<options, aborted, turnIndex, texts, calls, results, seen, messages, tool>>

\* Mutant: ids are compared within the turn only.
MutantFreshId(c) == \A i \in DOMAIN calls : calls[i].id # c

\* readToolCall: an id may not repeat one of the history or of this run.
FreshId(c) == c \notin seen

StreamToolCall(c, offered) ==
  /\ pc = "streaming" /\ FreshId(c)
  /\ calls' = Append(calls, [id |-> c, offered |-> offered])
  /\ seen' = seen \cup {c}
  /\ Show("tool_call")
  /\ pc' = "yielded"
  /\ UNCHANGED <<options, aborted, turnIndex, texts, completed, results, messages, tool>>

\* A malformed call or a repeated id ends the run.
StreamBadCall == pc = "streaming" /\ End("failed")

\* An error event of Agent Core, or its stream throws.
StreamError == pc = "streaming" /\ \E e \in {"aborted", "failed"} : End(e)

\* Mutant: the budget of turns is looked at only by the loop's head.
MutantBatchAccepted ==
  /\ Len(calls) <= MaxToolCalls
  /\ options.executor
  /\ \A i \in DOMAIN calls : calls[i].offered

\* The whole batch is checked before a single tool runs.
BatchAccepted ==
  /\ Len(calls) <= MaxToolCalls
  /\ options.executor
  /\ \A i \in DOMAIN calls : calls[i].offered
  /\ turnIndex + 1 < MaxTurns

\* The gateway's stream is over: the checks after the event loop, in order.
StreamDone ==
  /\ pc = "streaming"
  /\ \/ aborted /\ End("aborted")
     \/ ~aborted /\ ~completed /\ End("failed")
     \/ ~aborted /\ completed /\ calls = <<>> /\ End("completed")
     \/ ~aborted /\ completed /\ calls # <<>> /\ ~BatchAccepted /\ End("failed")
     \/ /\ ~aborted /\ completed /\ calls # <<>> /\ BatchAccepted
        /\ pc' = "starting"
        /\ UNCHANGED <<options, aborted, turnIndex, turnVars, seen, messages, tool, pending, out>>

(***************************************************************************)
(* The tools of a turn, one after the other.                               *)
(***************************************************************************)
\* executeTool: the abort check, then the executor is called.  Without a
\* policy the governed executor denies at once.
ToolStart ==
  /\ pc = "starting"
  /\ \/ aborted /\ End("aborted")
     \/ /\ ~aborted
        /\ tool' = [tool EXCEPT ![Current] = IF options.policy THEN "deciding" ELSE "settled"]
        /\ pc' = "executing"
        /\ UNCHANGED <<options, aborted, turnIndex, turnVars, seen, messages, pending, out>>

\* The signal wins the race in executeTool; the invocation goes on.
ToolAborted == pc = "executing" /\ aborted /\ End("aborted")

\* Mutant: the next tool of the batch starts before this one is awaited.
MutantToolDone ==
  /\ pc = "executing"
  /\ results' = Append(results, Current)
  /\ pc' = "executed"
  /\ UNCHANGED <<options, aborted, turnIndex, texts, completed, calls, seen, messages, tool,
                 pending, out>>

\* The invocation settled, with whatever result.
ToolDone ==
  /\ pc = "executing" /\ tool[Current] = "settled"
  /\ results' = Append(results, Current)
  /\ pc' = "executed"
  /\ UNCHANGED <<options, aborted, turnIndex, texts, completed, calls, seen, messages, tool,
                 pending, out>>

\* The next tool of the batch.
NextTool ==
  /\ pc = "executed" /\ Len(results) < Len(calls)
  /\ \/ aborted /\ End("aborted")
     \/ /\ ~aborted
        /\ pc' = "starting"
        /\ UNCHANGED <<options, aborted, turnIndex, turnVars, seen, messages, tool, pending, out>>

\* All tools ran: calls and results join the history together, and the loop
\* goes on with its head and its abort check.
NextTurn ==
  /\ pc = "executed" /\ Len(results) = Len(calls)
  /\ messages' = Append(messages, [called |-> Ids(calls), answered |-> results])
  /\ turnIndex' = turnIndex + 1
  /\ texts' = 0 /\ completed' = FALSE /\ calls' = <<>> /\ results' = <<>>
  /\ LET over == turnIndex + 1 >= MaxTurns
     IN  IF over \/ aborted
           THEN Show(IF over THEN "failed" ELSE "aborted") /\ pc' = "ended"
           ELSE pc' = "yielded" /\ UNCHANGED <<pending, out>>
  /\ UNCHANGED <<options, aborted, seen, tool>>

(***************************************************************************)
(* The governed executor (tool-policy.ts).                                 *)
(***************************************************************************)
Tool(c, from, to) ==
  /\ tool[c] = from
  /\ tool' = [tool EXCEPT ![c] = to]
  /\ UNCHANGED <<options, aborted, pc, turnIndex, turnVars, seen, messages, pending, out>>

\* Mutant: the signal is not looked at again after the approval.
MutantApprove(c) == Tool(c, "approving", "running") \/ Tool(c, "approving", "settled")

\* policy.decide settles: deny, a throw and an unknown answer settle the call.
Decide(c) ==
  \/ ~aborted /\ Tool(c, "deciding", "running")
  \/ ~aborted /\ options.approval /\ Tool(c, "deciding", "approving")
  \/ Tool(c, "deciding", "settled")

\* requestApproval settles; only "approved" before an abort runs the tool.
Approve(c) ==
  \/ ~aborted /\ Tool(c, "approving", "running")
  \/ Tool(c, "approving", "settled")

\* The tool itself returns or throws.
ToolReturns(c) == Tool(c, "running", "settled")

(***************************************************************************)
(* The consumer.                                                           *)
(***************************************************************************)
Abort == /\ ~aborted /\ ~Halted
         /\ aborted' = TRUE
         /\ UNCHANGED <<options, pc, turnIndex, turnVars, seen, messages, tool, pending, out>>

\* return() at the yield of a visible event.
Return == /\ pc = "yielded" /\ ~pending /\ (texts > 0 \/ calls # <<>>)
          /\ pc' = "returned"
          /\ UNCHANGED <<options, aborted, turnIndex, turnVars, seen, messages, tool, pending, out>>

Next == \/ Begin \/ Pull
        \/ StreamAborted \/ StreamText \/ StreamCompleted
        \/ \E c \in CallIds, offered \in BOOLEAN : StreamToolCall(c, offered)
        \/ StreamBadCall \/ StreamError \/ StreamDone
        \/ ToolStart \/ ToolAborted \/ ToolDone \/ NextTool \/ NextTurn
        \/ \E c \in CallIds : Decide(c) \/ Approve(c) \/ ToolReturns(c)
        \/ Abort \/ Return

Spec == Init /\ [][Next]_vars

\* The consumer pulls and the event loop serves the abort signal; neither the
\* gateway nor a policy, an approval or a tool need ever answer.
Fairness == /\ WF_vars(Begin) /\ WF_vars(Pull) /\ WF_vars(StreamAborted)
            /\ WF_vars(ToolStart) /\ WF_vars(ToolAborted)
            /\ WF_vars(NextTool) /\ WF_vars(NextTurn)

FairSpec == Spec /\ Fairness

(***************************************************************************)
(* Properties.                                                             *)
(***************************************************************************)
\* The stream has at most one terminal event, at its end; a stream that ended
\* by itself has one.  Completions of middle turns do not surface.
TerminatesOnce ==
  /\ \A i \in 1 .. Len(out) - 1 : out[i] \notin Terminals
  /\ pc = "ended" <=> out # <<>> /\ out[Len(out)] \in Terminals

\* Every request the model gets is well formed: each turn of the history
\* answers exactly its own calls, in order, and no id occurs twice, also not
\* one the caller's history had.
HistoryClosed ==
  /\ \A i \in DOMAIN messages : messages[i].answered = messages[i].called
  /\ LET at == {p \in (1 .. Len(messages)) \X (1 .. Cardinality(CallIds)) :
                  p[2] <= Len(messages[p[1]].called)}
     IN /\ \A p, q \in at :
             messages[p[1]].called[p[2]] = messages[q[1]].called[q[2]] => p = q
        /\ \A p \in at : messages[p[1]].called[p[2]] \notin HistoryIds

\* No tool is invoked unless its whole batch is acceptable and the model can
\* still be asked about the results; what a tool did is never lost.  The tools
\* of a batch run one at a time, in the order asked: an earlier one has settled.
ToolsOnlyFromAcceptedBatch ==
  \A i \in DOMAIN calls :
    tool[calls[i].id] # "none" =>
      /\ completed /\ options.executor
      /\ Len(calls) <= MaxToolCalls
      /\ \A j \in DOMAIN calls : calls[j].offered
      /\ turnIndex + 1 < MaxTurns
      /\ \A j \in DOMAIN calls : j < i => tool[calls[j].id] = "settled"

\* After an abort no tool starts running, although decisions and approvals
\* that were under way still come in.
NoToolRunsAfterAbort ==
  [][\A c \in CallIds : tool[c] # "running" /\ tool'[c] = "running" => ~aborted]_vars

\* An abort ends the run even though gateway, policy, approval and tool hang.
AbortEnds == aborted ~> Halted
=============================================================================
