-------------------------- MODULE MCContextBuilder --------------------------
(* ContextBuilder on every history of up to four messages. *)
EXTENDS ContextBuilder

Spec == ContextSpec
=============================================================================
