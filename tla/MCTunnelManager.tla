--------------------------- MODULE MCTunnelManager ---------------------------
(* Small instances of TunnelManager for TLC. *)
EXTENDS TunnelManager, TLC

CONSTANTS s1, s2, t1, t2

(* s1 and s2 share a token, as a client and its reconnection do. *)
SameToken == (s1 :> t1) @@ (s2 :> t1)
TwoTokens == (s1 :> t1) @@ (s2 :> t2)

DataSymmetry == Permutations(Ids) \cup Permutations(Names) \cup Permutations(Ports)
=============================================================================
