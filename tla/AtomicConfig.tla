---------------------------- MODULE AtomicConfig ----------------------------
(***************************************************************************)
(* What the configuration API promises (docs/config-management.md): a      *)
(* configuration that is valid at all times, changed by one mutation at a  *)
(* time; a call answers ok if and only if its mutation took effect, and a  *)
(* call that answers an error changed nothing.  ConfigManager implements   *)
(* it, its config being the file.                                          *)
(***************************************************************************)
EXTENDS ProviderRegistry

CONSTANT Calls \* calls of the ConfigManager's mutators

VARIABLES config, \* the configuration
          call    \* what has become of each call

vars == <<config, call>>

Init == /\ config = EmptyConfig
        /\ call = [c \in Calls |-> "idle"]

To(c, state) == call' = [call EXCEPT ![c] = state]

Ask(c)    == call[c] \in {"idle", "ok", "error"} /\ To(c, "asked") /\ UNCHANGED config
Commit(c) == /\ call[c] = "asked"
             /\ Mutation(config, config')
             /\ Valid(config')
             /\ To(c, "committed")
Ok(c)     == call[c] = "committed" /\ To(c, "ok") /\ UNCHANGED config
Error(c)  == call[c] = "asked" /\ To(c, "error") /\ UNCHANGED config

\* The process dies: no call is answered any more.
Die == call' = [c \in Calls |-> "idle"] /\ UNCHANGED config

Next == Die \/ \E c \in Calls : Ask(c) \/ Commit(c) \/ Ok(c) \/ Error(c)

Spec == Init /\ [][Next]_vars
=============================================================================
