------------------------------- MODULE TCPEdge -------------------------------
(***************************************************************************)
(* The TCP edge (internal/server/tcpedge.go): the listener and the accept  *)
(* loop of every assigned port, the visitors they accept, ReleasePort and  *)
(* Shutdown. The tunnel manager appears as the calls it makes: a tunnel is *)
(* assigned a port, is inserted, is removed, releases its port. Module     *)
(* TunnelManager has the rest of the manager and no accept loops.          *)
(*                                                                         *)
(* A listener is an object of its own: a port that is released and         *)
(* assigned again gets another one, with an accept loop of its own. A      *)
(* value of Listeners, Tunnels or Visitors is used again when nothing      *)
(* refers to it any more.                                                  *)
(***************************************************************************)
CONSTANTS
  Ports,      \* portMin..portMax
  Listeners,  \* net.Listener values
  Tunnels,    \* tunnels of protocol "tcp"
  Visitors,   \* TCP connections to an assigned port
  None

ASSUME NoneAssumption == None \notin Ports \cup Listeners \cup Tunnels

VARIABLES
  listeners,  \* t.listeners: port -> listener
  open,       \* listeners that are not closed
  loop,       \* acceptLoop of a listener: its place and its port
  tun,        \* a tunnel's place in Register and Deregister, its port
  visit,      \* a visitor's handleConnection
  ctx         \* t.ctx and the progress of Shutdown

vars == <<listeners, open, loop, tun, visit, ctx>>

Loop(at, p) == [at |-> at, port |-> p]
NoLoop == Loop("none", None)
Tun(at, p, l) == [at |-> at, port |-> p, ln |-> l]
NoTun == Tun("none", None, None)
Visit(at, l, i) == [at |-> at, ln |-> l, to |-> i]
NoVisit == Visit("none", None, None)

Running(l) == loop[l].at \in {"accept", "failed", "checking"}
PortOf(l)  == loop[l].port

(* A listener value that nothing refers to. *)
Unused(l) ==
  /\ ~Running(l) /\ l \notin open
  /\ \A i \in Tunnels : tun[i].ln # l
  /\ \A v \in Visitors : visit[v].ln # l

Init ==
  /\ listeners = [p \in Ports |-> None]
  /\ open = {}
  /\ loop = [l \in Listeners |-> NoLoop]
  /\ tun = [i \in Tunnels |-> NoTun]
  /\ visit = [v \in Visitors |-> NoVisit]
  /\ ctx = "live"

-----------------------------------------------------------------------------
(* The calls of the tunnel manager. *)

(* AssignPort, under t.mu: any port that is not in the map and that        *)
(* net.Listen can bind. The context is not consulted.                      *)
AssignPort(i, p, l) ==
  /\ tun[i].at = "none" /\ (\A v \in Visitors : visit[v].to # i)
  /\ Unused(l)
  /\ listeners[p] = None
  /\ \A k \in open : PortOf(k) # p
  /\ listeners' = [listeners EXCEPT ![p] = l]
  /\ open' = open \cup {l}
  /\ loop' = [loop EXCEPT ![l] = Loop("accept", p)]
  /\ tun' = [tun EXCEPT ![i] = Tun("ported", p, l)]
  /\ UNCHANGED <<visit, ctx>>

(* The entry is in the manager's maps: ListActive finds it from now on. *)
Insert(i) ==
  /\ tun[i].at = "ported"
  /\ tun' = [tun EXCEPT ![i].at = "active"]
  /\ UNCHANGED <<listeners, open, loop, visit, ctx>>

(* Mutant: the port is released before the entry leaves the maps. *)
RemoveLate(i) ==
  /\ tun[i].at = "active"
  /\ IF tun[i].ln \in open
     THEN /\ listeners' = [listeners EXCEPT ![tun[i].port] = None]
          /\ open' = open \ {tun[i].ln}
          /\ UNCHANGED tun
     ELSE tun' = [tun EXCEPT ![i] = NoTun] /\ UNCHANGED <<listeners, open>>
  /\ UNCHANGED <<loop, visit, ctx>>

(* Deregister or DeregisterBySession takes the entry out of the maps ... *)
Remove(i) ==
  /\ tun[i].at = "active"
  /\ tun' = [tun EXCEPT ![i].at = "removed"]
  /\ UNCHANGED <<listeners, open, loop, visit, ctx>>

(* ... then ReleasePort takes the listener out of the map, under t.mu ...  *)
(* (after a Shutdown it may find none, or that of another tunnel)          *)
ReleasePort(i) ==
  /\ tun[i].at = "removed"
  /\ LET p == tun[i].port IN
     /\ tun' = [tun EXCEPT ![i] = IF listeners[p] = None THEN NoTun
                                  ELSE Tun("closing", p, listeners[p])]
     /\ listeners' = [listeners EXCEPT ![p] = None]
  /\ UNCHANGED <<open, loop, visit, ctx>>

(* ... and closes it after the lock. *)
CloseListener(i) ==
  /\ tun[i].at = "closing"
  /\ open' = open \ {tun[i].ln}
  /\ tun' = [tun EXCEPT ![i] = NoTun]
  /\ UNCHANGED <<listeners, loop, visit, ctx>>

-----------------------------------------------------------------------------
(* Shutdown cancels the context, then closes what the map holds. *)
Cancel ==
  /\ ctx = "live" /\ ctx' = "cancelled"
  /\ UNCHANGED <<listeners, open, loop, tun, visit>>

Shutdown ==
  /\ ctx = "cancelled" /\ ctx' = "shut"
  /\ open' = open \ {listeners[p] : p \in Ports}
  /\ listeners' = [p \in Ports |-> None]
  /\ UNCHANGED <<loop, tun, visit>>

-----------------------------------------------------------------------------
(* The accept loop of listener l. *)
Accept(l, v) ==
  /\ loop[l].at = "accept" /\ l \in open
  /\ visit[v].at = "none"
  /\ visit' = [visit EXCEPT ![v] = Visit("accepted", l, None)]
  /\ UNCHANGED <<listeners, open, loop, tun, ctx>>

(* Accept returns an error: the listener is closed, or a passing condition *)
(* such as a lack of file descriptors.                                     *)
AcceptFails(l) ==
  /\ loop[l].at = "accept"
  /\ loop' = [loop EXCEPT ![l].at = "failed"]
  /\ UNCHANGED <<listeners, open, tun, visit, ctx>>

(* Mutants: the loop gives up at any error; it ignores the context; it     *)
(* ignores the map.                                                        *)
GiveUp(l) ==
  /\ loop[l].at = "failed"
  /\ loop' = [loop EXCEPT ![l].at = "exited"]
  /\ UNCHANGED <<listeners, open, tun, visit, ctx>>
IgnoreContext(l) ==
  /\ loop[l].at = "failed"
  /\ loop' = [loop EXCEPT ![l].at = "checking"]
  /\ UNCHANGED <<listeners, open, tun, visit, ctx>>
IgnoreMap(l) ==
  /\ loop[l].at = "checking"
  /\ loop' = [loop EXCEPT ![l].at = "accept"]
  /\ UNCHANGED <<listeners, open, tun, visit, ctx>>

CheckContext(l) ==
  /\ loop[l].at = "failed"
  /\ loop' = [loop EXCEPT ![l].at = IF ctx = "live" THEN "checking" ELSE "exited"]
  /\ UNCHANGED <<listeners, open, tun, visit, ctx>>

(* The map is asked for the port, not for the listener. *)
CheckListed(l) ==
  /\ loop[l].at = "checking"
  /\ loop' = [loop EXCEPT ![l].at = IF listeners[PortOf(l)] # None THEN "accept" ELSE "exited"]
  /\ UNCHANGED <<listeners, open, tun, visit, ctx>>

-----------------------------------------------------------------------------
(* handleConnection. *)

(* lookupByPort finds an entry that has the port at this moment, whatever  *)
(* tunnel had it when the visitor was accepted. Without one, the           *)
(* connection is closed.                                                   *)
Lookup(v) ==
  /\ visit[v].at = "accepted"
  /\ LET has == {i \in Tunnels : tun[i].at = "active" /\ tun[i].port = PortOf(visit[v].ln)} IN
     \/ \E i \in has : visit' = [visit EXCEPT ![v] = Visit("found", @.ln, i)]
     \/ has = {} /\ visit' = [visit EXCEPT ![v] = NoVisit]
  /\ UNCHANGED <<listeners, open, loop, tun, ctx>>

(* Within its rate limit and ACL, the visitor gets a "tcp-proxy" channel. *)
Proxy(v) ==
  /\ visit[v].at = "found"
  /\ visit' = [visit EXCEPT ![v].at = "proxied"]
  /\ UNCHANGED <<listeners, open, loop, tun, ctx>>

(* The connection is closed: refused, no channel, or both copies ended. *)
Leave(v) ==
  /\ visit[v].at \in {"found", "proxied"}
  /\ visit' = [visit EXCEPT ![v] = NoVisit]
  /\ UNCHANGED <<listeners, open, loop, tun, ctx>>

-----------------------------------------------------------------------------
TunnelNext ==
  \E i \in Tunnels :
    \/ \E p \in Ports, l \in Listeners : AssignPort(i, p, l)
    \/ Insert(i) \/ Remove(i) \/ ReleasePort(i) \/ CloseListener(i)
LoopNext ==
  \E l \in Listeners :
    \/ AcceptFails(l) \/ CheckContext(l) \/ CheckListed(l)
    \/ \E v \in Visitors : Accept(l, v)
VisitNext == \E v \in Visitors : Lookup(v) \/ Proxy(v) \/ Leave(v)

Next == TunnelNext \/ LoopNext \/ VisitNext \/ Cancel \/ Shutdown
Spec == Init /\ [][Next]_vars

(* The goroutines of the server run. Accept returns at once on a closed    *)
(* listener, and need never fail on an open one.                           *)
Fairness ==
  /\ \A i \in Tunnels : WF_vars(Insert(i)) /\ WF_vars(ReleasePort(i)) /\ WF_vars(CloseListener(i))
  /\ \A l \in Listeners :
       /\ WF_vars(l \notin open /\ AcceptFails(l))
       /\ WF_vars(CheckContext(l)) /\ WF_vars(CheckListed(l))
  /\ WF_vars(Shutdown)
FairSpec == Spec /\ Fairness

-----------------------------------------------------------------------------
(* Type correctness; a closed or exited listener keeps its port. *)
TypeOK ==
  /\ listeners \in [Ports -> Listeners \cup {None}]
  /\ open \subseteq Listeners
  /\ loop \in [Listeners -> {NoLoop} \cup
                 [at: {"accept", "failed", "checking", "exited"}, port: Ports]]
  /\ tun \in [Tunnels -> {NoTun} \cup
                [at: {"ported", "active", "removed", "closing"}, port: Ports, ln: Listeners]]
  /\ visit \in [Visitors -> {NoVisit} \cup [at: {"accepted"}, ln: Listeners, to: {None}]
                  \cup [at: {"found", "proxied"}, ln: Listeners, to: Tunnels]]
  /\ ctx \in {"live", "cancelled", "shut"}

Holds(i) == tun[i].at \in {"ported", "active", "removed"}

(* Until Shutdown, a tunnel that was given a port is served on it: the map *)
(* has its own listener, which is open, and an accept loop runs on it,     *)
(* whatever errors Accept returns and whatever ports come and go.          *)
PortServed ==
  ctx = "live" => \A i \in Tunnels : Holds(i) =>
    LET l == tun[i].ln IN
    /\ listeners[tun[i].port] = l /\ PortOf(l) = tun[i].port
    /\ l \in open /\ Running(l)

(* Until Shutdown closes listeners, a visitor who was handed to a tunnel    *)
(* came in on that tunnel's port, and on its listener or on one that is     *)
(* closed by now. handleConnection asks for the port again after the accept *)
(* (tcpedge.go:142), so a visitor of a tunnel that was removed meanwhile is *)
(* handed to the port's next one; but while the listener it came in on is   *)
(* open, it goes to nobody else.                                            *)
VisitorsFollowPort ==
  ctx # "shut" => \A v \in Visitors, i \in Tunnels :
    visit[v].to = i /\ Holds(i) =>
      /\ PortOf(visit[v].ln) = tun[i].port
      /\ visit[v].ln = tun[i].ln \/ visit[v].ln \notin open

(* The lease of a port, read off the tunnels and the listeners. Until       *)
(* Shutdown closes listeners under their tunnels, it goes round its cycle: *)
(* a port is not bound for a tunnel, nor served, before the listener of    *)
(* the tunnel that had it is closed (ReleasePort closes it after t.mu).    *)
LeaseOf(p) ==
  IF \E i \in Tunnels : tun[i].at = "active" /\ tun[i].port = p THEN "serving"
  ELSE IF \E i \in Tunnels : tun[i].at = "ported" /\ tun[i].port = p THEN "reserved"
  ELSE IF \E l \in open : PortOf(l) = p THEN "draining"
  ELSE "free"
lease == [p \in Ports |-> LeaseOf(p)]
Leasing == INSTANCE PortLease WITH Ports <- Ports, lease <- lease
LeasesUntilShutdown == Leasing!Init /\ [][ctx' # "shut" => [Leasing!Next]_lease]_vars

(* The accept loop of a closed listener ends, unless it finds its port     *)
(* assigned again.                                                         *)
LoopsEndOrPortReused ==
  \A l \in Listeners :
    l \notin open /\ Running(l) ~> ~Running(l) \/ listeners[PortOf(l)] # None

(* After Shutdown it ends in any case, the spinning ones too. *)
ShutdownEndsLoops ==
  \A l \in Listeners : ctx = "shut" /\ l \notin open /\ Running(l) ~> ~Running(l)
=============================================================================
