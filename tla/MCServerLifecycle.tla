-------------------------- MODULE MCServerLifecycle --------------------------
(* Model-checking instance of ServerLifecycle. *)
EXTENDS ServerLifecycle
=============================================================================
