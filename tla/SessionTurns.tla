---------------------------- MODULE SessionTurns ----------------------------
(***************************************************************************)
(* What the Local Agent API promises about a session                       *)
(* (docs/local-agent-api.md, "Session" state machine): a session is        *)
(* created idle, runs at most one turn at a time, and each turn ends with  *)
(* exactly one outcome.  LocalAgentApi is shown to implement it for        *)
(* clients that wait for an answer before posting again.                   *)
(***************************************************************************)

CONSTANTS Sessions, \* session ids
          Turns,    \* turn ids
          None      \* "no turn"

VARIABLES status,   \* LocalAgentSession.status
          turn      \* LocalAgentSession.activeTurnId

vars == <<status, turn>>

Outcomes == {"completed", "cancelled", "failed"}

Init == /\ status = [s \in Sessions |-> "absent"]
        /\ turn = [s \in Sessions |-> None]

Create(s) == /\ status[s] = "absent"
             /\ status' = [status EXCEPT ![s] = "idle"]
             /\ UNCHANGED turn

\* A turn begins only in a session that is not running one.
Begin(s, t) == /\ status[s] \in {"idle"} \cup Outcomes
               /\ status' = [status EXCEPT ![s] = "running"]
               /\ turn' = [turn EXCEPT ![s] = t]

End(s, o) == /\ status[s] = "running"
             /\ status' = [status EXCEPT ![s] = o]
             /\ turn' = [turn EXCEPT ![s] = None]

Next == \E s \in Sessions : \/ Create(s)
                            \/ \E t \in Turns : Begin(s, t)
                            \/ \E o \in Outcomes : End(s, o)

Spec == Init /\ [][Next]_vars
=============================================================================
