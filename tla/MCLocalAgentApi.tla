--------------------------- MODULE MCLocalAgentApi ---------------------------
(* LocalAgentApi on small sets of sessions and requests. *)
EXTENDS LocalAgentApi, TLC

\* Turns are interchangeable: no formula names one.
Symmetry == Permutations(Requests)
=============================================================================
