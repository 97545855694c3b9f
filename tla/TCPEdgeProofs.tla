---------------------------- MODULE TCPEdgeProofs ----------------------------
(***************************************************************************)
(* Proofs about TCPEdge, for any sets of ports, listeners, tunnels and     *)
(* visitors: ports are served, a visitor goes to no tunnel but the one it  *)
(* came in for while that is there, and until Shutdown it implements       *)
(* PortLease.                                                              *)
(***************************************************************************)
EXTENDS TCPEdge, TLAPS

(* A tunnel has a port, from AssignPort to the close of the listener. *)
Uses(i) == tun[i].at # "none"

(* Until Shutdown closes listeners under their tunnels, the map has the    *)
(* listener of every holder, every listener that is open is that of one    *)
(* tunnel, and no two tunnels share a port or a listener.                  *)
TablesAgree ==
  ctx # "shut" =>
    /\ \A i \in Tunnels : Holds(i) => listeners[tun[i].port] = tun[i].ln
    /\ \A i \in Tunnels : Uses(i) => tun[i].ln \in open /\ PortOf(tun[i].ln) = tun[i].port
    /\ \A i, j \in Tunnels : i # j /\ Uses(i) /\ Uses(j) =>
         tun[i].port # tun[j].port /\ tun[i].ln # tun[j].ln
    /\ \A l \in open : \E i \in Tunnels : Uses(i) /\ tun[i].ln = l

IInv == TypeOK /\ PortServed /\ TablesAgree /\ VisitorsFollowPort

LEMMA InitIInv == Init => IInv
BY NoneAssumption
   DEF Init, IInv, TypeOK, PortServed, TablesAgree, VisitorsFollowPort, Holds, Uses,
       NoLoop, NoTun, NoVisit, Loop, Tun, Visit

LEMMA TypeStep == TypeOK /\ [Next]_vars => TypeOK'
<1>. SUFFICES ASSUME TypeOK, [Next]_vars PROVE TypeOK'
  OBVIOUS
<1>. USE NoneAssumption DEF TypeOK, Loop, NoLoop, Tun, NoTun, Visit, NoVisit, PortOf
<1>1. ASSUME NEW i \in Tunnels, NEW p \in Ports, NEW l \in Listeners, AssignPort(i, p, l)
      PROVE  TypeOK'
  BY <1>1 DEF AssignPort
<1>2. ASSUME NEW i \in Tunnels, Insert(i) PROVE TypeOK'
  BY <1>2 DEF Insert
<1>3. ASSUME NEW i \in Tunnels, Remove(i) PROVE TypeOK'
  BY <1>3 DEF Remove
<1>4. ASSUME NEW i \in Tunnels, ReleasePort(i) PROVE TypeOK'
  BY <1>4 DEF ReleasePort
<1>5. ASSUME NEW i \in Tunnels, CloseListener(i) PROVE TypeOK'
  BY <1>5 DEF CloseListener
<1>6. CASE Cancel
  BY <1>6 DEF Cancel
<1>7. CASE Shutdown
  BY <1>7 DEF Shutdown
<1>8. ASSUME NEW l \in Listeners, NEW v \in Visitors, Accept(l, v) PROVE TypeOK'
  BY <1>8 DEF Accept
<1>9. ASSUME NEW l \in Listeners, AcceptFails(l) PROVE TypeOK'
  BY <1>9 DEF AcceptFails
<1>10. ASSUME NEW l \in Listeners, CheckContext(l) PROVE TypeOK'
  BY <1>10 DEF CheckContext
<1>11. ASSUME NEW l \in Listeners, CheckListed(l) PROVE TypeOK'
  BY <1>11 DEF CheckListed
<1>12. ASSUME NEW v \in Visitors, Lookup(v) PROVE TypeOK'
  BY <1>12 DEF Lookup
<1>13. ASSUME NEW v \in Visitors, Proxy(v) PROVE TypeOK'
  BY <1>13 DEF Proxy
<1>14. ASSUME NEW v \in Visitors, Leave(v) PROVE TypeOK'
  BY <1>14 DEF Leave
<1>15. CASE UNCHANGED vars
  BY <1>15 DEF vars
<1>. QED
  BY <1>1, <1>2, <1>3, <1>4, <1>5, <1>6, <1>7, <1>8, <1>9, <1>10, <1>11, <1>12, <1>13, <1>14,
     <1>15 DEF Next, TunnelNext, LoopNext, VisitNext

(* What has a port has a listener. *)
LEMMA HolderType ==
  ASSUME TypeOK, NEW i \in Tunnels
  PROVE  /\ Uses(i) => tun[i].port \in Ports /\ tun[i].ln \in Listeners
         /\ Holds(i) => Uses(i)
         /\ Uses(i) => Holds(i) \/ tun[i].at = "closing"
BY NoneAssumption DEF TypeOK, Holds, Uses, NoTun, Tun

(* A step of a visitor or a loop leaves the tables alone. *)
LEMMA TablesSame ==
  ASSUME TypeOK, TablesAgree, UNCHANGED <<listeners, open, tun, ctx>>,
         \A l \in Listeners : PortOf(l)' = PortOf(l)
  PROVE  TablesAgree'
<1>1. \A i \in Tunnels : (Uses(i)' <=> Uses(i)) /\ (Holds(i)' <=> Holds(i))
  BY DEF Uses, Holds
<1>2. \A i \in Tunnels : Uses(i) => PortOf(tun[i].ln)' = PortOf(tun[i].ln)
  BY HolderType
<1>. QED
  BY <1>1, <1>2 DEF TablesAgree

LEMMA VisitorsSame ==
  ASSUME TypeOK, VisitorsFollowPort, UNCHANGED <<tun, ctx, visit, open>>,
         \A l \in Listeners : PortOf(l)' = PortOf(l)
  PROVE  VisitorsFollowPort'
<1>1. \A v \in Visitors : visit[v].to \in Tunnels => visit[v].ln \in Listeners
  BY NoneAssumption DEF TypeOK, NoVisit, Visit
<1>2. \A i \in Tunnels : Holds(i)' <=> Holds(i)
  BY DEF Holds
<1>. QED
  BY <1>1, <1>2 DEF VisitorsFollowPort

(* A step of a loop that goes on while its listener is that of a tunnel.   *)
LEMMA LoopStep ==
  ASSUME IInv, TypeOK', NEW l \in Listeners, UNCHANGED <<listeners, open, tun, visit, ctx>>,
         NEW at, loop' = [loop EXCEPT ![l].at = at], Running(l),
         ctx = "live" /\ listeners[PortOf(l)] # None => at \in {"accept", "failed", "checking"}
  PROVE  IInv'
<1>1. /\ PortOf(l)' = PortOf(l) /\ loop'[l].at = at
      /\ \A k \in Listeners \ {l} : loop'[k] = loop[k]
  <2>1. loop[l] \in [at: {"accept", "failed", "checking", "exited"}, port: Ports]
    BY DEF IInv, TypeOK, Running, NoLoop, Loop
  <2>. QED
    BY <2>1 DEF IInv, TypeOK, PortOf
<1>2. PortServed'
  <2>. SUFFICES ASSUME ctx = "live", NEW i \in Tunnels, Holds(i)
                PROVE  /\ listeners[tun[i].port] = tun[i].ln /\ PortOf(tun[i].ln)' = tun[i].port
                       /\ tun[i].ln \in open /\ Running(tun[i].ln)'
    BY DEF PortServed, Holds
  <2>1. /\ listeners[tun[i].port] = tun[i].ln /\ PortOf(tun[i].ln) = tun[i].port
        /\ tun[i].ln \in open /\ Running(tun[i].ln)
        /\ tun[i].port \in Ports /\ tun[i].ln \in Listeners
    BY HolderType DEF IInv, PortServed
  <2>. QED
    BY <1>1, <2>1, NoneAssumption DEF PortOf, Running
<1>3. TablesAgree'
  BY <1>1, TablesSame DEF IInv, PortOf
<1>4. VisitorsFollowPort'
  BY <1>1, VisitorsSame DEF IInv, PortOf
<1>. QED
  BY <1>2, <1>3, <1>4 DEF IInv

(* AssignPort gives a tunnel a port and a listener of its own. *)
LEMMA AssignStep ==
  ASSUME IInv, NEW i \in Tunnels, NEW p \in Ports, NEW l \in Listeners, AssignPort(i, p, l)
  PROVE  PortServed' /\ TablesAgree' /\ VisitorsFollowPort'
<1>. SUFFICES ASSUME ctx # "shut"
              PROVE  PortServed' /\ TablesAgree' /\ VisitorsFollowPort'
  BY DEF AssignPort, PortServed, TablesAgree, VisitorsFollowPort
<1>1. /\ tun'[i] = [at |-> "ported", port |-> p, ln |-> l]
      /\ \A j \in Tunnels \ {i} : tun'[j] = tun[j]
      /\ ~Uses(i) /\ ~Holds(i) /\ Uses(i)' /\ Holds(i)'
      /\ \A j \in Tunnels \ {i} : (Uses(j)' <=> Uses(j)) /\ (Holds(j)' <=> Holds(j))
  BY DEF AssignPort, IInv, TypeOK, Holds, Uses, Tun
<1>2. /\ PortOf(l)' = p /\ Running(l)'
      /\ \A k \in Listeners \ {l} : loop'[k] = loop[k]
      /\ listeners'[p] = l /\ \A q \in Ports \ {p} : listeners'[q] = listeners[q]
      /\ open' = open \cup {l}
  BY DEF AssignPort, IInv, TypeOK, PortOf, Running, Loop
<1>3. \A j \in Tunnels : Uses(j) =>
        tun[j].ln \in Listeners \ {l} /\ tun[j].port \in Ports \ {p}
  <2>1. ASSUME NEW j \in Tunnels, Uses(j) PROVE tun[j].port # p
    BY <2>1 DEF IInv, TablesAgree, AssignPort
  <2>. QED
    BY <2>1, HolderType DEF AssignPort, Unused, IInv
<1>4. PortServed'
  BY <1>1, <1>2, <1>3, HolderType DEF AssignPort, IInv, PortServed, PortOf, Running
<1>5. TablesAgree'
  <2>1. \A j \in Tunnels : Holds(j)' => listeners'[tun'[j].port] = tun'[j].ln
    BY <1>1, <1>2, <1>3, HolderType DEF IInv, TablesAgree
  <2>2. \A j \in Tunnels : Uses(j)' =>
          tun'[j].ln \in open' /\ loop'[tun'[j].ln].port = tun'[j].port
    BY <1>1, <1>2, <1>3 DEF IInv, TablesAgree, PortOf
  <2>3. \A j, k \in Tunnels : j # k /\ Uses(j)' /\ Uses(k)' =>
          tun'[j].port # tun'[k].port /\ tun'[j].ln # tun'[k].ln
    BY <1>1, <1>3 DEF IInv, TablesAgree
  <2>4. \A k \in open' : \E j \in Tunnels : Uses(j)' /\ tun'[j].ln = k
    BY <1>1, <1>2 DEF IInv, TablesAgree
  <2>. QED
    BY <2>1, <2>2, <2>3, <2>4 DEF TablesAgree, PortOf
<1>6. VisitorsFollowPort'
  <2>1. \A v \in Visitors : visit[v].to \in Tunnels =>
          visit[v].ln \in Listeners \ {l} /\ visit[v].to # i
    BY NoneAssumption DEF AssignPort, Unused, IInv, TypeOK, NoVisit, Visit
  <2>2. visit' = visit /\ ctx' = ctx
    BY DEF AssignPort
  <2>. SUFFICES ASSUME NEW v \in Visitors, NEW j \in Tunnels, visit[v].to = j, Holds(j)'
                PROVE  /\ PortOf(visit[v].ln)' = tun'[j].port
                       /\ visit[v].ln = tun'[j].ln \/ visit[v].ln \notin open'
    BY <2>2 DEF VisitorsFollowPort
  <2>3. j # i /\ Holds(j) /\ tun'[j] = tun[j] /\ visit[v].ln \in Listeners \ {l}
    BY <1>1, <2>1
  <2>4. /\ PortOf(visit[v].ln) = tun[j].port
        /\ visit[v].ln = tun[j].ln \/ visit[v].ln \notin open
    BY <2>3 DEF IInv, VisitorsFollowPort
  <2>5. loop'[visit[v].ln] = loop[visit[v].ln] /\ (visit[v].ln \in open' => visit[v].ln \in open)
    BY <1>2, <2>3
  <2>. QED
    BY <2>2, <2>3, <2>4, <2>5 DEF PortOf
<1>. QED
  BY <1>4, <1>5, <1>6

(* ReleasePort takes the tunnel's own listener out of the map. *)
LEMMA ReleaseStep ==
  ASSUME IInv, NEW i \in Tunnels, ReleasePort(i)
  PROVE  PortServed' /\ TablesAgree' /\ VisitorsFollowPort'
<1>. SUFFICES ASSUME ctx # "shut"
              PROVE  PortServed' /\ TablesAgree' /\ VisitorsFollowPort'
  BY DEF ReleasePort, PortServed, TablesAgree, VisitorsFollowPort
<1>1. /\ Holds(i) /\ Uses(i) /\ tun[i].port \in Ports /\ tun[i].ln \in Listeners
      /\ listeners[tun[i].port] = tun[i].ln
  BY HolderType DEF ReleasePort, Holds, IInv, TablesAgree
<1>2. /\ tun'[i] = [at |-> "closing", port |-> tun[i].port, ln |-> tun[i].ln]
      /\ \A j \in Tunnels \ {i} : tun'[j] = tun[j]
      /\ Uses(i)' /\ ~Holds(i)'
      /\ \A j \in Tunnels \ {i} : (Uses(j)' <=> Uses(j)) /\ (Holds(j)' <=> Holds(j))
  BY <1>1, NoneAssumption DEF ReleasePort, IInv, TypeOK, Holds, Uses, Tun
<1>3. \A j \in Tunnels \ {i} : Uses(j) => tun[j].port # tun[i].port /\ tun[j].ln # tun[i].ln
  BY <1>1 DEF IInv, TablesAgree
<1>4. /\ \A q \in Ports \ {tun[i].port} : listeners'[q] = listeners[q]
      /\ UNCHANGED <<open, loop, visit, ctx>>
  BY <1>1 DEF ReleasePort, IInv, TypeOK
<1>5. PortServed'
  BY <1>2, <1>3, <1>4, HolderType DEF IInv, PortServed, PortOf, Running
<1>6. TablesAgree'
  <2>1. \A j \in Tunnels : tun'[j].port = tun[j].port /\ tun'[j].ln = tun[j].ln
    BY <1>2
  <2>2. \A j \in Tunnels : (Uses(j)' <=> Uses(j)) /\ (Holds(j)' <=> Holds(j) /\ j # i)
    BY <1>1, <1>2
  <2>3. \A j \in Tunnels : Holds(j)' => listeners'[tun[j].port] = tun[j].ln
    BY <1>3, <1>4, <2>2, HolderType DEF IInv, TablesAgree
  <2>. QED
    BY <1>4, <2>1, <2>2, <2>3 DEF IInv, TablesAgree, PortOf
<1>7. VisitorsFollowPort'
  BY <1>2, <1>4 DEF IInv, VisitorsFollowPort, PortOf
<1>. QED
  BY <1>5, <1>6, <1>7

(* What CloseListener closes is no other tunnel's listener. *)
LEMMA CloseStep ==
  ASSUME IInv, NEW i \in Tunnels, CloseListener(i)
  PROVE  PortServed' /\ TablesAgree' /\ VisitorsFollowPort'
<1>. SUFFICES ASSUME ctx # "shut"
              PROVE  PortServed' /\ TablesAgree' /\ VisitorsFollowPort'
  BY DEF CloseListener, PortServed, TablesAgree, VisitorsFollowPort
<1>1. /\ tun'[i] = NoTun
      /\ \A j \in Tunnels \ {i} : tun'[j] = tun[j]
      /\ Uses(i) /\ ~Uses(i)' /\ ~Holds(i)'
      /\ \A j \in Tunnels \ {i} : (Uses(j)' <=> Uses(j)) /\ (Holds(j)' <=> Holds(j))
  BY DEF CloseListener, IInv, TypeOK, Holds, Uses, NoTun, Tun
<1>2. \A j \in Tunnels \ {i} : Uses(j) => tun[j].ln # tun[i].ln
  BY <1>1 DEF IInv, TablesAgree
<1>3. open' = open \ {tun[i].ln} /\ UNCHANGED <<listeners, loop, visit, ctx>>
  BY DEF CloseListener
<1>4. PortServed'
  BY <1>1, <1>2, <1>3, HolderType DEF IInv, PortServed, PortOf, Running
<1>5. TablesAgree'
  BY <1>1, <1>2, <1>3, HolderType DEF IInv, TablesAgree, PortOf
<1>6. VisitorsFollowPort'
  BY <1>1, <1>3 DEF IInv, VisitorsFollowPort, PortOf
<1>. QED
  BY <1>4, <1>5, <1>6

LEMMA Step == IInv /\ [Next]_vars => IInv'
<1>. SUFFICES ASSUME IInv, [Next]_vars PROVE IInv'
  OBVIOUS
<1>0. TypeOK'
  BY TypeStep DEF IInv
<1>1. ASSUME NEW i \in Tunnels,
             \/ \E p \in Ports, l \in Listeners : AssignPort(i, p, l)
             \/ ReleasePort(i) \/ CloseListener(i)
      PROVE  IInv'
  BY <1>0, <1>1, AssignStep, ReleaseStep, CloseStep DEF IInv
<1>2. ASSUME NEW i \in Tunnels, Insert(i) \/ Remove(i) PROVE IInv'
  <2>1. /\ \A j \in Tunnels : tun'[j].ln = tun[j].ln /\ tun'[j].port = tun[j].port
        /\ \A j \in Tunnels : (Holds(j)' <=> Holds(j)) /\ (Uses(j)' <=> Uses(j))
    BY <1>2, NoneAssumption DEF Insert, Remove, IInv, TypeOK, Holds, Uses, NoTun, Tun
  <2>2. UNCHANGED <<listeners, open, loop, visit, ctx>>
    BY <1>2 DEF Insert, Remove
  <2>3. PortServed'
    BY <2>1, <2>2 DEF IInv, PortServed, PortOf, Running
  <2>4. TablesAgree' /\ VisitorsFollowPort'
    BY <2>1, <2>2 DEF IInv, TablesAgree, VisitorsFollowPort, PortOf
  <2>. QED
    BY <1>0, <2>3, <2>4 DEF IInv
<1>3. CASE Cancel
  <2>1. PortServed'
    BY <1>3 DEF Cancel, PortServed
  <2>2. TablesAgree' /\ VisitorsFollowPort'
    BY <1>3 DEF Cancel, IInv, TablesAgree, VisitorsFollowPort, Uses, Holds, PortOf
  <2>. QED
    BY <1>0, <2>1, <2>2 DEF IInv
<1>7. CASE Shutdown
  BY <1>0, <1>7 DEF Shutdown, IInv, PortServed, TablesAgree, VisitorsFollowPort
<1>4. ASSUME NEW l \in Listeners, AcceptFails(l) \/ CheckContext(l) \/ CheckListed(l) PROVE IInv'
  <2>1. CASE AcceptFails(l)
    BY <1>0, <2>1, LoopStep DEF AcceptFails, Running
  <2>2. CASE CheckContext(l)
    BY <1>0, <2>2, LoopStep DEF CheckContext, Running
  <2>3. CASE CheckListed(l)
    BY <1>0, <2>3, LoopStep DEF CheckListed, Running
  <2>. QED
    BY <1>4, <2>1, <2>2, <2>3
<1>5. ASSUME NEW v \in Visitors, Lookup(v) \/ Proxy(v) \/ Leave(v) \/ \E l \in Listeners : Accept(l, v)
      PROVE  IInv'
  <2>1. UNCHANGED <<listeners, open, loop, tun, ctx>>
    BY <1>5 DEF Lookup, Proxy, Leave, Accept
  <2>2. PortServed' /\ TablesAgree'
    BY <2>1, TablesSame DEF IInv, PortServed, Holds, PortOf, Running
  <2>3. \A w \in Visitors \ {v} : visit'[w] = visit[w]
    BY <1>5 DEF Lookup, Proxy, Leave, Accept, IInv, TypeOK
  <2>4. ASSUME ctx # "shut", NEW i \in Tunnels, Holds(i), visit'[v].to = i
        PROVE  /\ PortOf(visit'[v].ln) = tun[i].port
               /\ visit'[v].ln = tun[i].ln \/ visit'[v].ln \notin open
    <3>1. CASE \E l \in Listeners : Accept(l, v)
      BY <2>4, <3>1, NoneAssumption DEF Accept, IInv, TypeOK, Visit
    <3>2. CASE Leave(v)
      BY <2>4, <3>2, NoneAssumption DEF Leave, NoVisit, IInv, TypeOK, Visit
    <3>3. CASE Proxy(v)
      BY <2>4, <3>3 DEF Proxy, IInv, TypeOK, VisitorsFollowPort
    <3>4. CASE Lookup(v)
      <4>1. CASE visit' = [visit EXCEPT ![v] = NoVisit]
        BY <2>4, <4>1, NoneAssumption DEF IInv, TypeOK, NoVisit, Visit
      <4>2. ASSUME NEW j \in Tunnels, tun[j].at = "active", tun[j].port = PortOf(visit[v].ln),
                   visit' = [visit EXCEPT ![v] = Visit("found", @.ln, j)]
            PROVE  /\ PortOf(visit'[v].ln) = tun[i].port
                   /\ visit'[v].ln = tun[i].ln \/ visit'[v].ln \notin open
        <5>1. visit'[v].ln = visit[v].ln /\ j = i /\ Uses(i)
          BY <2>4, <4>2 DEF IInv, TypeOK, Visit, Uses
        <5>2. ASSUME visit[v].ln \in open PROVE visit[v].ln = tun[i].ln
          <6>1. PICK k \in Tunnels : Uses(k) /\ tun[k].ln = visit[v].ln
            BY <2>4, <5>2 DEF IInv, TablesAgree
          <6>2. tun[k].port = tun[i].port
            BY <2>4, <4>2, <5>1, <6>1 DEF IInv, TablesAgree
          <6>. QED
            BY <2>4, <5>1, <6>1, <6>2 DEF IInv, TablesAgree
        <5>. QED
          BY <4>2, <5>1, <5>2
      <4>. QED
        BY <3>4, <4>1, <4>2 DEF Lookup
    <3>. QED
      BY <1>5, <3>1, <3>2, <3>3, <3>4
  <2>5. VisitorsFollowPort'
    BY <2>1, <2>3, <2>4 DEF IInv, VisitorsFollowPort, Holds, PortOf
  <2>. QED
    BY <1>0, <2>2, <2>5 DEF IInv
<1>6. CASE UNCHANGED vars
  BY <1>0, <1>6, TablesSame, VisitorsSame DEF vars, IInv, PortServed, Holds, PortOf, Running
<1>. QED
  BY <1>1, <1>2, <1>3, <1>4, <1>5, <1>6, <1>7 DEF Next, TunnelNext, LoopNext, VisitNext

(* The invariant holds in every reachable state: no order of releases,     *)
(* assignments and failing Accepts makes two tunnels share a port.         *)
THEOREM Invariant == Spec => []IInv
BY InitIInv, Step, PTL DEF Spec

(* The port table, the loops, the tunnels and the visitors are well typed. *)
THEOREM TypeCorrect == Spec => []TypeOK
<1>1. IInv => TypeOK
  BY DEF IInv
<1>. QED
  BY <1>1, Invariant, PTL

(* acceptLoop never leaves an assigned port unserved before Shutdown.      *)
THEOREM PortsAreServed == Spec => []PortServed
<1>1. IInv => PortServed
  BY DEF IInv
<1>. QED
  BY <1>1, Invariant, PTL

(* handleConnection asks for the port after the accept; what it finds is    *)
(* the tunnel whose listener accepted, as long as that listener is open.    *)
THEOREM VisitorsFollowTheirPort == Spec => []VisitorsFollowPort
<1>1. IInv => VisitorsFollowPort
  BY DEF IInv
<1>. QED
  BY <1>1, Invariant, PTL

-----------------------------------------------------------------------------
(* The lease that a tunnel's place stands for. *)
Stage(i) ==
  CASE tun[i].at = "ported" -> "reserved"
    [] tun[i].at = "active" -> "serving"
    [] OTHER -> "draining"

(* Until Shutdown, the lease of a port is that of the one tunnel that has  *)
(* it: every listener that is open is that of a tunnel.                    *)
LeaseTable ==
  ctx # "shut" => \A p \in Ports :
    /\ \A i \in Tunnels : Uses(i) /\ tun[i].port = p => lease[p] = Stage(i)
    /\ (\A i \in Tunnels : Uses(i) => tun[i].port # p) => lease[p] = "free"

LEMMA LeaseTableHolds == IInv => LeaseTable
<1>. SUFFICES ASSUME IInv, ctx # "shut", NEW p \in Ports
              PROVE  /\ \A i \in Tunnels : Uses(i) /\ tun[i].port = p => lease[p] = Stage(i)
                     /\ (\A i \in Tunnels : Uses(i) => tun[i].port # p) => lease[p] = "free"
  BY DEF LeaseTable
<1>1. lease[p] = LeaseOf(p)
  BY DEF lease
<1>2. \A l \in open : PortOf(l) = p <=> \E i \in Tunnels : Uses(i) /\ tun[i].ln = l /\ tun[i].port = p
  BY DEF IInv, TablesAgree
<1>3. ASSUME NEW i \in Tunnels, Uses(i), tun[i].port = p PROVE LeaseOf(p) = Stage(i)
  <2>1. \A j \in Tunnels : tun[j].at \in {"active", "ported"} /\ tun[j].port = p => j = i
    BY <1>3 DEF IInv, TablesAgree, Uses
  <2>2. \E l \in open : PortOf(l) = p
    BY <1>3 DEF IInv, TablesAgree
  <2>. QED
    BY <1>3, <2>1, <2>2 DEF LeaseOf, Stage
<1>4. ASSUME \A i \in Tunnels : Uses(i) => tun[i].port # p PROVE LeaseOf(p) = "free"
  BY <1>2, <1>4 DEF LeaseOf, Uses
<1>. QED
  BY <1>1, <1>3, <1>4

(* A step of tunnel i leaves the leases of other ports alone. *)
LEMMA LeaseElsewhere ==
  ASSUME LeaseTable, LeaseTable', ctx # "shut", ctx' # "shut",
         NEW i \in Tunnels, \A j \in Tunnels \ {i} : tun'[j] = tun[j],
         NEW p \in Ports, Uses(i) => tun[i].port # p, Uses(i)' => tun'[i].port # p
  PROVE  lease'[p] = lease[p]
<1>1. CASE \A j \in Tunnels : Uses(j) => tun[j].port # p
  <2>1. \A j \in Tunnels : Uses(j)' => tun'[j].port # p
    BY <1>1 DEF Uses
  <2>. QED
    BY <1>1, <2>1 DEF LeaseTable
<1>2. ASSUME NEW j \in Tunnels, Uses(j), tun[j].port = p PROVE lease'[p] = lease[p]
  <2>1. tun'[j] = tun[j]
    BY <1>2
  <2>2. Uses(j)' /\ tun'[j].port = p /\ Stage(j)' = Stage(j)
    BY <1>2, <2>1 DEF Uses, Stage
  <2>. QED
    BY <1>2, <2>2 DEF LeaseTable
<1>. QED
  BY <1>1, <1>2

(* A step of tunnel i changes the lease of its port only. *)
LEMMA LeaseChange ==
  ASSUME LeaseTable, LeaseTable', ctx # "shut", ctx' # "shut",
         NEW i \in Tunnels, \A j \in Tunnels \ {i} : tun'[j] = tun[j],
         NEW p \in Ports, Uses(i) => tun[i].port = p, Uses(i)' => tun'[i].port = p
  PROVE  lease' = [lease EXCEPT ![p] = lease'[p]]
<1>1. \A q \in Ports \ {p} : lease'[q] = lease[q]
  BY LeaseElsewhere
<1>2. \A q \in Ports \ {p} : LeaseOf(q)' = LeaseOf(q)
  BY <1>1 DEF lease
<1>. QED
  BY <1>2 DEF lease

(* A step that leaves the tunnels and the listeners alone. *)
LEMMA LeaseSame ==
  ASSUME UNCHANGED <<open, tun>>, \A l \in open : PortOf(l)' = PortOf(l)
  PROVE  UNCHANGED lease
BY DEF lease, LeaseOf

(* The step of each action of a tunnel, until Shutdown. *)
LEMMA LeaseTunnelStep ==
  ASSUME IInv, LeaseTable, LeaseTable', ctx # "shut", ctx' # "shut", NEW i \in Tunnels,
         \/ \E p \in Ports, l \in Listeners : AssignPort(i, p, l)
         \/ Insert(i) \/ Remove(i) \/ ReleasePort(i) \/ CloseListener(i)
  PROVE  [Leasing!Next]_lease
<1>0. \A j \in Tunnels \ {i} : tun'[j] = tun[j]
  BY DEF AssignPort, Insert, Remove, ReleasePort, CloseListener, IInv, TypeOK
<1>1. ASSUME NEW p \in Ports, NEW l \in Listeners, AssignPort(i, p, l)
      PROVE  [Leasing!Next]_lease
  <2>1. \A j \in Tunnels : Uses(j) => tun[j].port # p
    BY <1>1 DEF IInv, TablesAgree, AssignPort
  <2>2. ~Uses(i) /\ Uses(i)' /\ tun'[i].port = p /\ Stage(i)' = "reserved"
    BY <1>1 DEF AssignPort, IInv, TypeOK, Uses, Stage, Tun
  <2>3. lease[p] = "free" /\ lease'[p] = "reserved"
    BY <2>1, <2>2 DEF LeaseTable
  <2>4. lease' = [lease EXCEPT ![p] = "reserved"]
    BY <1>0, <2>2, <2>3, LeaseChange
  <2>. QED
    BY <2>3, <2>4 DEF Leasing!Next, Leasing!Reserve
<1>. DEFINE p == tun[i].port
<1>2. CASE Insert(i)
  <2>1. /\ Uses(i) /\ p \in Ports /\ Uses(i)' /\ tun'[i].port = p
        /\ Stage(i) = "reserved" /\ Stage(i)' = "serving"
    BY <1>2, HolderType DEF Insert, IInv, TypeOK, Uses, Stage
  <2>. HIDE DEF p
  <2>2. lease[p] = "reserved" /\ lease'[p] = "serving"
    BY <2>1 DEF LeaseTable, p
  <2>3. lease' = [lease EXCEPT ![p] = "serving"]
    BY <1>0, <2>1, <2>2, LeaseChange DEF p
  <2>. QED
    BY <2>1, <2>2, <2>3 DEF Leasing!Next, Leasing!Publish
<1>3. CASE Remove(i)
  <2>1. /\ Uses(i) /\ p \in Ports /\ Uses(i)' /\ tun'[i].port = p
        /\ Stage(i) = "serving" /\ Stage(i)' = "draining"
    BY <1>3, HolderType DEF Remove, IInv, TypeOK, Uses, Stage
  <2>2. lease[p] = "serving" /\ lease'[p] = "draining"
    BY <2>1 DEF LeaseTable
  <2>3. \A q \in Ports : lease'[q] = IF q \in {p} THEN "draining" ELSE lease[q]
    BY <1>0, <2>1, <2>2, LeaseElsewhere
  <2>. HIDE DEF p
  <2>4. lease' = [q \in Ports |-> IF q \in {p} THEN "draining" ELSE lease[q]]
    BY <2>3 DEF lease
  <2>5. Leasing!Withdraw({p})
    BY <2>2, <2>4 DEF Leasing!Withdraw
  <2>. QED
    BY <2>1, <2>5 DEF Leasing!Next
<1>4. CASE ReleasePort(i)
  <2>1. /\ Uses(i) /\ p \in Ports /\ Uses(i)' /\ tun'[i].port = p
        /\ Stage(i) = "draining" /\ Stage(i)' = "draining"
    <3>1. Holds(i) /\ Uses(i) /\ p \in Ports /\ listeners[p] = tun[i].ln /\ tun[i].ln \in Listeners
      BY <1>4, HolderType DEF ReleasePort, Holds, IInv, TablesAgree
    <3>. QED
      BY <1>4, <3>1, NoneAssumption DEF ReleasePort, IInv, TypeOK, Uses, Stage, Tun
  <2>2. lease[p] = "draining" /\ lease'[p] = "draining"
    BY <2>1 DEF LeaseTable
  <2>3. \A q \in Ports : lease'[q] = lease[q]
    BY <1>0, <2>1, <2>2, LeaseElsewhere
  <2>4. \A q \in Ports : LeaseOf(q)' = LeaseOf(q)
    BY <2>3 DEF lease
  <2>5. UNCHANGED lease
    BY <2>4 DEF lease
  <2>. QED
    BY <2>5
<1>5. CASE CloseListener(i)
  <2>1. Uses(i) /\ p \in Ports /\ ~Uses(i)' /\ Stage(i) = "draining"
    BY <1>5, HolderType DEF CloseListener, IInv, TypeOK, Uses, Stage, NoTun, Tun
  <2>2. \A j \in Tunnels : Uses(j)' => tun'[j].port # p
    BY <1>0, <2>1 DEF IInv, TablesAgree, Uses
  <2>3. lease[p] = "draining" /\ lease'[p] = "free"
    BY <2>1, <2>2 DEF LeaseTable
  <2>4. lease' = [lease EXCEPT ![p] = "free"]
    BY <1>0, <2>1, <2>3, LeaseChange
  <2>. QED
    BY <2>1, <2>3, <2>4 DEF Leasing!Next, Leasing!Free
<1>. QED
  BY <1>1, <1>2, <1>3, <1>4, <1>5

LEMMA LeaseStep ==
  IInv /\ LeaseTable /\ LeaseTable' /\ [Next]_vars => (ctx' # "shut" => [Leasing!Next]_lease)
<1>. SUFFICES ASSUME IInv, LeaseTable, LeaseTable', [Next]_vars, ctx' # "shut"
              PROVE  [Leasing!Next]_lease
  OBVIOUS
<1>1. ctx # "shut" /\ ~Shutdown
  BY DEF Next, TunnelNext, LoopNext, VisitNext, AssignPort, Insert, Remove, ReleasePort,
         CloseListener, AcceptFails, CheckContext, CheckListed, Accept, Lookup, Proxy, Leave,
         Cancel, Shutdown, vars
<1>2. CASE TunnelNext
  BY <1>1, <1>2, LeaseTunnelStep DEF TunnelNext
<1>3. ASSUME NEW l \in Listeners,
             AcceptFails(l) \/ CheckContext(l) \/ CheckListed(l) \/ \E v \in Visitors : Accept(l, v)
      PROVE  UNCHANGED lease
  <2>1. \A k \in Listeners : loop'[k].port = loop[k].port
    BY <1>3 DEF AcceptFails, CheckContext, CheckListed, Accept, IInv, TypeOK, NoLoop, Loop
  <2>2. UNCHANGED <<open, tun>> /\ open \subseteq Listeners
    BY <1>3 DEF AcceptFails, CheckContext, CheckListed, Accept, IInv, TypeOK
  <2>. QED
    BY <2>1, <2>2, LeaseSame DEF PortOf
<1>4. CASE VisitNext \/ Cancel \/ UNCHANGED vars
  BY <1>4, LeaseSame DEF VisitNext, Lookup, Proxy, Leave, Cancel, vars, PortOf
<1>. QED
  BY <1>1, <1>2, <1>3, <1>4 DEF Next, LoopNext

LEMMA LeaseInit == Init => Leasing!Init
BY DEF Init, Leasing!Init, lease, LeaseOf, NoTun, Tun

(* Until Shutdown the TCP edge implements the lease of ports: a port is    *)
(* bound for a tunnel, or served by it, only when the listener of the      *)
(* tunnel that had it before is closed, and no listener is left behind.    *)
THEOREM KeepsPortLease == Spec => LeasesUntilShutdown
BY Invariant, LeaseTableHolds, LeaseInit, LeaseStep, PTL DEF Spec, LeasesUntilShutdown
=============================================================================
