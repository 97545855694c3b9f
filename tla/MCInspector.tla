---------------------------- MODULE MCInspector ----------------------------
(* Model-checking instance of Inspector. *)
EXTENDS Inspector
=============================================================================
