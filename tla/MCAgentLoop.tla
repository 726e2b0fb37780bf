----------------------------- MODULE MCAgentLoop -----------------------------
(***************************************************************************)
(* AgentLoop with four tool call ids, of which the caller's history has    *)
(* one; and the context builder, which cuts such a history down.  The      *)
(* initial state chooses one of them, the other rests.                     *)
(***************************************************************************)
EXTENDS AgentLoop, ContextBuilder

VARIABLE part \* the component that runs

NoRun == /\ options = [executor |-> FALSE, policy |-> FALSE, approval |-> FALSE]
         /\ aborted = FALSE /\ pc = "returned" /\ turnIndex = 0
         /\ texts = 0 /\ completed = FALSE /\ calls = <<>> /\ results = <<>>
         /\ seen = HistoryIds /\ messages = <<>> /\ tool = [c \in CallIds |-> "none"]
         /\ pending = FALSE /\ out = <<>>

NoContext == /\ history = <<>> /\ memory = 0 /\ budget = 0 /\ cancelled = FALSE
             /\ step = "answered" /\ result = Nothing

RunInit == \/ part = "loop" /\ Init /\ NoContext
           \/ part = "context" /\ NoRun /\ ContextInit

RunNext == /\ UNCHANGED part
           /\ \/ part = "loop" /\ Next /\ UNCHANGED contextVars
              \/ part = "context" /\ ContextNext /\ UNCHANGED vars

RunSpec == RunInit /\ [][RunNext]_<<part, vars, contextVars>> /\ Fairness
=============================================================================
