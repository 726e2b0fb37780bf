--------------------------- MODULE ContextBuilder ---------------------------
(***************************************************************************)
(* buildContext (packages/agent-memory/src/context-builder.ts,             *)
(* context-validation.ts): the messages of a session are cut down to a     *)
(* budget of bytes; what is left out goes to a summarizer, and the call    *)
(* may be aborted while that one works.                                    *)
(*                                                                         *)
(* A message is its kind and its size: an assistant's tool calls are a     *)
(* "call", what answers one of them is a "result" (role tool).  The size   *)
(* is that of its JSON with the comma or bracket after it.  Options that   *)
(* parseBuildOptions refuses are left out.                                 *)
(***************************************************************************)
EXTENDS Integers, Sequences, SequencesExt, FiniteSetsExt

CONSTANTS MaxMessages, \* bound: length of a history
          Sizes,       \* sizes of messages and of memory
          Header,      \* size of a summary message without its text
          MaxSummary,  \* maxSummaryBytes
          Budgets      \* bound: values of maxContextBytes

\* A message takes some bytes, and so does the frame of a summary.
ASSUME ContextAssumption ==
  /\ MaxMessages \in Nat /\ Sizes \subseteq Nat \ {0} /\ Header \in Nat \ {0}
  /\ MaxSummary \in Nat /\ Budgets \subseteq Nat

VARIABLES history,
          memory,    \* size of the memory message, 0 if there are no entries
          budget,    \* maxContextBytes
          cancelled, \* signal.aborted
          step,      \* "called", "summarizing" or "answered"
          result     \* the answer's code, and the messages it has

contextVars == <<history, memory, budget, cancelled, step, result>>

Nothing == [code |-> "none", kept |-> {}, summary |-> 0]

Kinds == {"system", "user", "assistant", "call", "result"}

\* validateAgentMessages: a result names a call before it, not always the last
\* message's.
Messages(n) == [kind : Kinds \ {"result"}, size : Sizes, of : {0}]
               \cup [kind : {"result"}, size : Sizes, of : 1 .. n - 1]

Histories ==
  {h \in UNION {[1 .. n -> Messages(n)] : n \in 1 .. MaxMessages} :
     \A i \in DOMAIN h : h[i].kind = "result" => h[i].of < i /\ h[h[i].of].kind = "call"}

ContextInit ==
  /\ history \in Histories /\ memory \in Sizes \cup {0} /\ budget \in Budgets
  /\ cancelled \in BOOLEAN
  /\ step = "called" /\ result = Nothing

(***************************************************************************)
(* Sizes and units.                                                        *)
(***************************************************************************)
\* estimateContextBytes of an array whose messages have this size.
Bytes(size) == IF size = 0 THEN 2 ELSE size + 1

Size(kept) == MapThenSumSet(LAMBDA i : history[i].size, kept)

All == DOMAIN history

LastUser == Max({i \in All : history[i].kind = "user"} \cup {0})

\* Mutant: a call is grouped with the first of its results.
MutantGrouped(i) == /\ history[i].kind = "result"
                    /\ i > 1 /\ history[i - 1].kind = "call"

\* The result belongs to the call right before it or before its siblings.
Grouped(i) ==
  /\ history[i].kind = "result"
  /\ \E c \in 1 .. i - 1 : /\ history[c].kind = "call"
                           /\ \A j \in c + 1 .. i : history[j].kind = "result"

Heads == {i \in All : ~Grouped(i)}

Unit(h) == {i \in All : i >= h /\ \A j \in h + 1 .. i : Grouped(j)}

Protected(h) == \/ history[h].kind \in {"system", "result"}
                \/ LastUser > 0 /\ h >= LastUser

Compressible == {h \in Heads : ~Protected(h)}

\* The protected units and those that start at these messages.
Region(heads) == UNION {Unit(h) : h \in heads \cup {g \in Heads : Protected(g)}}

ProtectedRegion == Region({})

(***************************************************************************)
(* Which units stay: from the most recent one on, each that still fits     *)
(* next to those that were taken.                                          *)
(***************************************************************************)
Reserved == Bytes(Header)

Fits(kept) == Bytes(memory + Size(kept)) <= budget - Reserved

Selected(heads) ==
  \A h \in Compressible :
    h \in heads <=> Fits(Region({g \in heads : g > h} \cup {h}))

(***************************************************************************)
(* The call.                                                               *)
(***************************************************************************)
Reply(code, kept, summary) ==
  /\ step' = "answered" /\ result' = [code |-> code, kept |-> kept, summary |-> summary]
  /\ UNCHANGED <<history, memory, budget, cancelled>>

Refuse(code) == Reply(code, {}, 0)

\* What becomes of a call before its only await.
Outcome ==
  IF cancelled THEN "aborted"
  ELSE IF Bytes(memory + Size(All)) <= budget THEN "whole"
  ELSE IF Bytes(memory + Size(ProtectedRegion)) + Reserved > budget THEN "budget_exceeded"
  ELSE "compress"

BuildContext ==
  /\ step = "called"
  /\ \/ Outcome = "whole" /\ Reply("ok", All, 0)
     \/ Outcome \in {"aborted", "budget_exceeded"} /\ Refuse(Outcome)
     \/ Outcome = "compress" /\ Refuse("compression_required")  \* no summarizer
     \/ Outcome = "compress" /\ Refuse("compression_failed")    \* it throws at once
     \/ /\ Outcome = "compress" /\ step' = "summarizing"
        /\ UNCHANGED <<history, memory, budget, cancelled, result>>

\* A result that stays although its call goes; the message list is not valid.
Orphaned(kept) == \E i \in kept : history[i].kind = "result" /\ history[i].of \notin kept

Answer(kept, text) ==
  \/ Orphaned(kept) /\ Refuse("invalid_messages")
  \/ /\ ~Orphaned(kept) /\ Bytes(memory + Header + text + Size(kept)) > budget
     /\ Refuse("budget_exceeded")
  \/ /\ ~Orphaned(kept) /\ Bytes(memory + Header + text + Size(kept)) <= budget
     /\ Reply("ok", kept, Header + text)

\* The summarizer answers with a text of this size.
Summarized(text) ==
  /\ step = "summarizing" /\ ~cancelled
  /\ \/ text = 0 /\ Refuse("summary_invalid")
     \/ text > MaxSummary /\ Refuse("summary_too_large")
     \/ /\ text \in 1 .. MaxSummary
        /\ \E heads \in SUBSET Compressible : Selected(heads) /\ Answer(Region(heads), text)

SummarizerFails == /\ step = "summarizing" /\ ~cancelled /\ Refuse("compression_failed")

AbortContext == /\ ~cancelled /\ step # "answered" /\ cancelled' = TRUE
                /\ UNCHANGED <<history, memory, budget, step, result>>

\* The race with the summarizer is lost; what it answers later is dropped.
SummaryAborted == step = "summarizing" /\ cancelled /\ Refuse("aborted")

ContextNext == \/ BuildContext \/ SummarizerFails \/ AbortContext \/ SummaryAborted
               \/ \E text \in 0 .. MaxSummary + 1 : Summarized(text)

ContextSpec == ContextInit /\ [][ContextNext]_contextVars

(***************************************************************************)
(* Properties.                                                             *)
(***************************************************************************)
\* The result comes after its call, with nothing but results between them.
Adjacent(i) == \A j \in history[i].of + 1 .. i : history[j].kind = "result"

Results == {i \in All : history[i].kind = "result"}

\* A context that was cut keeps every system message, the last user message and
\* all that follows it; a tool call stays with all of its results or goes with
\* all of them, and then a history of the agent loop is not refused as invalid;
\* the result is within the budget and what is left out is summarized.
ContextSound ==
  /\ result.code = "ok" =>
       /\ {i \in All : history[i].kind = "system"} \subseteq result.kept
       /\ LastUser > 0 => LastUser .. Len(history) \subseteq result.kept
       /\ \A i \in Results : Adjacent(i) => (i \in result.kept <=> history[i].of \in result.kept)
       /\ Bytes(memory + result.summary + Size(result.kept)) <= budget
       /\ (result.kept = All) <=> (result.summary = 0)
  /\ result.code = "invalid_messages" => \E i \in Results : ~Adjacent(i)

\* context-builder.ts:199: "Keep most recent compressible units first; drop
\* oldest until we fit.", and :200: "Reserve space for the summary system message
\* that will be inserted."  A call is refused over the budget only if no selection
\* of units would do, with room for the longest summary of what it leaves out.
RefusedOnlyIfNothingFits ==
  result.code = "budget_exceeded" =>
    \A heads \in SUBSET Compressible \ {Compressible} :
      Bytes(memory + Header + MaxSummary + Size(Region(heads))) > budget
=============================================================================
