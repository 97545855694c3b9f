---------------------------- MODULE MCTunnelClient ----------------------------
(* Small instances of TunnelClient for TLC. *)
EXTENDS TunnelClient
=============================================================================
