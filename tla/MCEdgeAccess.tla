---------------------------- MODULE MCEdgeAccess ----------------------------
(* Model-checking instance of EdgeAccess: one address is listed or not. *)
EXTENDS EdgeAccess, TLC
CONSTANTS x, y
MCAddresses == {x, y}
MCACLs == {[mode |-> "allow", cidrs |-> {x}], [mode |-> "deny", cidrs |-> {x}],
           [mode |-> "allow", cidrs |-> {}]}
Symmetry == Permutations(Visitors) \cup Permutations(Admins) \cup Permutations(Entries)
              \cup Permutations(Names)
=============================================================================
