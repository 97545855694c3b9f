--------------------------- MODULE MCServerRestart ---------------------------
(* Model-checking instance of ServerRestart. *)
EXTENDS ServerRestart
=============================================================================
