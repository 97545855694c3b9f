---------------------------- MODULE MCProxyRequest ----------------------------
(* Small instances of ProxyRequest for TLC. *)
EXTENDS ProxyRequest
=============================================================================
