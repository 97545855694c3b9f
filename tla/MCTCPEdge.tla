------------------------------ MODULE MCTCPEdge ------------------------------
(* Small instances of TCPEdge for TLC. *)
EXTENDS TCPEdge, TLC

Symmetry == Permutations(Ports) \cup Permutations(Listeners) \cup Permutations(Tunnels)
=============================================================================
