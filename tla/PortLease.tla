------------------------------ MODULE PortLease ------------------------------
(***************************************************************************)
(* What the server promises about the TCP ports of its range, whatever the *)
(* goroutines that assign and release them: a port goes round one cycle,   *)
(* free -> reserved (bound for a registration in progress) -> serving (one *)
(* live tunnel) -> draining (the tunnel is gone, the socket still open) -> *)
(* free.  It changes hands only through free, and no reservation and no    *)
(* drain lasts for ever.                                                   *)
(***************************************************************************)
CONSTANT Ports
VARIABLE lease

Leases == {"free", "reserved", "serving", "draining"}
TypeOK == lease \in [Ports -> Leases]

Init == lease = [p \in Ports |-> "free"]

Reserve(p) == lease[p] = "free" /\ lease' = [lease EXCEPT ![p] = "reserved"]
Publish(p) == lease[p] = "reserved" /\ lease' = [lease EXCEPT ![p] = "serving"]

(* One tunnel is closed, or all those of a session at once. *)
Withdraw(S) ==
  /\ \A p \in S : lease[p] = "serving"
  /\ lease' = [p \in Ports |-> IF p \in S THEN "draining" ELSE lease[p]]

Free(p) == lease[p] = "draining" /\ lease' = [lease EXCEPT ![p] = "free"]

Next ==
  \/ \E p \in Ports : Reserve(p) \/ Publish(p) \/ Free(p)
  \/ \E S \in SUBSET Ports : Withdraw(S)

SafeSpec == Init /\ [][Next]_lease

Spec ==
  /\ SafeSpec
  /\ \A p \in Ports : WF_lease(Publish(p)) /\ WF_lease(Free(p))
=============================================================================
