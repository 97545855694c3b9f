------------------------- MODULE TunnelManagerProofs -------------------------
(***************************************************************************)
(* The safety proofs of TunnelManager, for any sets of sessions, tokens,   *)
(* IDs, names, ports, admin handlers and requests: its types, the          *)
(* agreement of its indexes, ports with one holder that do not leak,       *)
(* evictions that respect tokens, and that it implements PortLease.        *)
(***************************************************************************)
EXTENDS TunnelManager, TLAPS

(* The goroutines are pairwise different. *)
LEMMA WorkerFacts ==
  /\ \A s \in Sessions : Control(s) \in Workers /\ Cleaner(s) \in Workers
  /\ \A a \in Admins : Admin(a) \in Workers
BY DEF Workers, Control, Cleaner, Admin

LEMMA TypeInit == Init => TypeOK
BY NoneAssumption, TokenOfAssumption, WorkerFacts
   DEF Init, TypeOK, At, Frame, Frames

(* Deregister writes well typed maps. *)
LEMMA UnlinkType ==
  ASSUME TypeOK, NEW w \in Workers, NEW i \in Ids, Unlink(w, i)
  PROVE  /\ tunnels' \in [Ids -> Tunnel \cup {None}]
         /\ byName' \in [Names -> Ids \cup {None}]
         /\ byPort' \in [Ports -> Ids \cup {None}]
         /\ bySession' \in [Sessions -> SUBSET Ids]
         /\ drop' \in [Workers -> SUBSET Ports]
         /\ purge' \in [Workers -> SUBSET Ids]
<1>1. CASE ~Live(i)
  BY <1>1 DEF Unlink, TypeOK, registry
<1>2. CASE Live(i)
  <2>1. tunnels[i] \in Tunnel
    BY <1>2 DEF TypeOK, Live
  <2>2. /\ tunnels[i].name \in Names
        /\ tunnels[i].port \in Ports \cup {None}
        /\ tunnels[i].session \in Sessions
    BY <2>1 DEF Tunnel
  <2>. QED
    BY <1>2, <2>2 DEF Unlink, TypeOK
<1>. QED
  BY <1>1, <1>2

LEMMA TypeStep == TypeOK /\ [Next]_vars => TypeOK'
<1>. SUFFICES ASSUME TypeOK, [Next]_vars PROVE TypeOK'
  OBVIOUS
<1>. USE WorkerFacts
<1>1. CASE ReleaseNext
  <2>1. ASSUME NEW w \in Workers, NEW p \in Ports, UnlistPort(w, p) PROVE TypeOK'
    BY <2>1 DEF UnlistPort, TypeOK, registry, admin
  <2>2. ASSUME NEW w \in Workers, CloseListener(w) PROVE TypeOK'
    BY <2>2 DEF CloseListener, TypeOK, registry, admin
  <2>3. ASSUME NEW w \in Workers, RemoveLimiter(w) PROVE TypeOK'
    BY <2>3 DEF RemoveLimiter, TypeOK, registry, edge, admin
  <2>. QED
    BY <1>1, <2>1, <2>2, <2>3 DEF ReleaseNext
<1>2. CASE SessionNext
  <2>. PICK s \in Sessions :
         \/ Connect(s) \/ Disconnect(s) \/ Cleanup(s) \/ CleanupDone(s)
         \/ OpenControl(s) \/ EndControl(s)
    BY <1>2 DEF SessionNext
  <2>. At("none") \in Frames /\ At("idle") \in Frames /\ At("ended") \in Frames
    BY DEF At, Frame, Frames
  <2>1. CASE Connect(s)
    BY <2>1 DEF Connect, TypeOK, registry, edge, releases, admin
  <2>2. CASE Disconnect(s)
    BY <2>2 DEF Disconnect, TypeOK, registry, edge, releases, admin
  <2>3. CASE Cleanup(s)
    <3>1. ASSUME NEW i \in Ids, Live(i)
          PROVE tunnels[i].port \in Ports \cup {None}
      BY <3>1 DEF TypeOK, Live, Tunnel
    <3>2. {tunnels[i].port : i \in {i \in bySession[s] : Live(i)}} \ {None} \in SUBSET Ports
      BY <3>1 DEF TypeOK
    <3>. QED
      BY <2>3, <3>2 DEF Cleanup, TypeOK, edge, admin
  <2>4. CASE CleanupDone(s)
    BY <2>4 DEF CleanupDone, TypeOK, registry, edge, releases, admin
  <2>5. CASE OpenControl(s)
    BY <2>5 DEF OpenControl, TypeOK, registry, edge, releases, admin
  <2>6. CASE EndControl(s)
    BY <2>6 DEF EndControl, TypeOK, registry, edge, releases, admin
  <2>. QED
    BY <2>1, <2>2, <2>3, <2>4, <2>5, <2>6
<1>3. CASE RegisterNext
  <2>1. ASSUME NEW s \in Sessions, NEW i \in Ids, NEW n \in Names, ClaimName(s, i, n)
        PROVE TypeOK'
    <3>1. Frame("named", i, n, None, None) \in Frames
      BY DEF Frame, Frames
    <3>. QED
      BY <2>1, <3>1 DEF ClaimName, TypeOK, registry, edge, releases, admin
  <2>2. ASSUME NEW s \in Sessions, NEW i \in Ids, NEW n \in Names, FindStale(s, i, n)
        PROVE TypeOK'
    <3>1. Frame("evict", i, n, None, byName[n]) \in Frames
      BY <2>2 DEF FindStale, Frame, Frames, TypeOK
    <3>. QED
      BY <2>2, <3>1 DEF FindStale, TypeOK, registry, edge, releases, admin
  <2>3. ASSUME NEW s \in Sessions, EvictStale(s) PROVE TypeOK'
    <3>1. /\ ctl[s].victim \in Ids
          /\ Frame("named", ctl[s].id, ctl[s].name, None, None) \in Frames
      BY <2>3 DEF EvictStale, TypeOK, Frame, Frames
    <3>2. Unlink(Control(s), ctl[s].victim)
      BY <2>3 DEF EvictStale
    <3>. QED
      BY <2>3, <3>1, <3>2, UnlinkType DEF EvictStale, TypeOK, edge, admin
  <2>4. ASSUME NEW s \in Sessions, NEW p \in Ports, AssignPort(s, p) PROVE TypeOK'
    <3>1. Frame("ported", ctl[s].id, ctl[s].name, p, None) \in Frames
      BY <2>4 DEF AssignPort, Frame, Frames, TypeOK
    <3>. QED
      BY <2>4, <3>1 DEF AssignPort, TypeOK, registry, releases, admin
  <2>5. ASSUME NEW s \in Sessions, NoPortLeft(s) PROVE TypeOK'
    BY <2>5 DEF NoPortLeft, TypeOK, At, Frame, Frames, registry, edge, releases, admin
  <2>6. ASSUME NEW s \in Sessions, Insert(s) PROVE TypeOK'
    <3>1. /\ ctl[s].id \in Ids
          /\ [name |-> ctl[s].name, port |-> ctl[s].port, session |-> s] \in Tunnel
      BY <2>6 DEF Insert, TypeOK, Frames, Tunnel
    <3>2. At("idle") \in Frames
      BY DEF At, Frame, Frames
    <3>. QED
      BY <2>6, <3>1, <3>2 DEF Insert, TypeOK, edge, releases, admin
  <2>7. ASSUME NEW s \in Sessions, NEW i \in Ids, CloseTunnel(s, i) PROVE TypeOK'
    <3>1. Unlink(Control(s), i)
      BY <2>7 DEF CloseTunnel
    <3>. QED
      BY <2>7, <3>1, UnlinkType DEF CloseTunnel, TypeOK, edge, admin
  <2>. QED
    BY <1>3, <2>1, <2>2, <2>3, <2>4, <2>5, <2>6, <2>7 DEF RegisterNext
<1>4. CASE AdminNext
  <2>1. ASSUME NEW a \in Admins, NEW i \in Ids, ForceClose(a, i) PROVE TypeOK'
    BY <2>1 DEF ForceClose, TypeOK, registry, edge, releases
  <2>2. ASSUME NEW a \in Admins, NEW i \in Ids, DeregisterNext(a, i) PROVE TypeOK'
    <3>1. Unlink(Admin(a), i)
      BY <2>2 DEF DeregisterNext
    <3>. QED
      BY <2>2, <3>1, UnlinkType DEF DeregisterNext, TypeOK, edge
  <2>3. ASSUME NEW a \in Admins, NEW t \in Tokens, RevokeToken(a, t) \/ RevokeOnly(a, t) PROVE TypeOK'
    BY <2>3 DEF RevokeToken, RevokeOnly, TypeOK, registry, edge, releases, admin
  <2>4. ASSUME NEW a \in Admins, ListByToken(a) PROVE TypeOK'
    BY <2>4 DEF ListByToken, TypeOK, registry, edge, releases
  <2>5. ASSUME NEW t \in Tokens, CreateToken(t) PROVE TypeOK'
    BY <2>5 DEF CreateToken, TypeOK, registry, edge, releases, admin
  <2>. QED
    BY <1>4, <2>1, <2>2, <2>3, <2>4, <2>5 DEF AdminNext
<1>5. CASE RequestNext
  <2>1. ASSUME NEW r \in Requests, UseLimiter(r) PROVE TypeOK'
    BY <2>1 DEF UseLimiter, TypeOK, registry, edge, releases, admin
  <2>2. ASSUME NEW r \in Requests, NEW i \in Ids, LookupTunnel(r, i) PROVE TypeOK'
    BY <2>2 DEF LookupTunnel, TypeOK, registry, edge, releases, admin
  <2>. QED
    BY <1>5, <2>1, <2>2 DEF RequestNext
<1>6. CASE UNCHANGED vars
  BY <1>6 DEF vars, TypeOK, registry, edge, releases, admin
<1>. QED
  BY <1>1, <1>2, <1>3, <1>4, <1>5, <1>6 DEF Next

(* Every variable keeps its type. *)
THEOREM TypeCorrect == Spec => []TypeOK
BY TypeInit, TypeStep, PTL DEF Spec

-----------------------------------------------------------------------------
(* Safety. *)
PortInv == OneHolder /\ NoPortLeak

(* The indexes depend on the registry only. *)
LEMMA IndexSame ==
  ASSUME IndexesAgree, UNCHANGED registry
  PROVE  IndexesAgree'
BY DEF IndexesAgree, registry, Live

(* A step that neither moves a port nor a port's holder. *)
LEMMA PortSame ==
  ASSUME PortInv, UNCHANGED <<byPort, drop, shut, listeners, sockets>>,
         \A s \in Sessions, p \in Ports : Reserves(s, p)' <=> Reserves(s, p)
  PROVE  PortInv'
BY DEF PortInv, OneHolder, NoPortLeak, Serves, Drains, Closes

(* A step that keeps IDs and victims, and creates no tunnel. *)
LEMMA IdsSame ==
  ASSUME IdsReserved, EvictsOwnToken, TypeOK,
         \A i \in Ids : Live(i)' => Live(i) /\ tunnels'[i] = tunnels[i],
         UNCHANGED ctl
  PROVE  IdsReserved' /\ EvictsOwnToken'
<1>1. IdsReserved'
  <2>1. \A s \in Sessions : ctl[s].at \in Registering => ctl[s].id \in Ids
    BY DEF TypeOK, Frames, Registering
  <2>. QED
    BY <2>1 DEF IdsReserved
<1>2. EvictsOwnToken'
  <2>1. \A s \in Sessions : ctl[s].at = "evict" => ctl[s].victim \in Ids
    BY DEF TypeOK, Frames
  <2>. QED
    BY <2>1 DEF EvictsOwnToken, Owner
<1>. QED
  BY <1>1, <1>2

(* Tunnels that served the ports of S are withdrawn by goroutine w, which  *)
(* has to release these ports now.                                         *)
LEMMA PortWithdraw ==
  ASSUME PortInv, TypeOK, NEW w \in Workers, NEW S \in SUBSET Ports,
         \A p \in S : Serves(p), drop[w] = {},
         drop' = [drop EXCEPT ![w] = S],
         \A p \in Ports : Serves(p)' <=> Serves(p) /\ p \notin S,
         \A s \in Sessions, p \in Ports : Reserves(s, p)' <=> Reserves(s, p),
         UNCHANGED <<shut, listeners, sockets>>
  PROVE  PortInv'
<1>1. \A v \in Workers, p \in Ports :
        Drains(v, p)' <=> IF v = w THEN p \in S ELSE Drains(v, p)
  BY DEF Drains, TypeOK
<1>2. \A p \in Ports : ~Drains(w, p)
  BY DEF Drains
<1>3. \A v \in Workers, p \in Ports : Closes(v, p)' <=> Closes(v, p)
  BY DEF Closes
<1>4. OneHolder'
  BY <1>1, <1>2 DEF PortInv, OneHolder
<1>5. NoPortLeak'
  <2>1. ASSUME NEW p \in Ports
        PROVE (p \in listeners <=>
               \/ Serves(p)
               \/ \E s \in Sessions : Reserves(s, p)
               \/ \E v \in Workers : Drains(v, p))'
    BY <1>1, <1>2 DEF PortInv, NoPortLeak
  <2>. QED
    BY <2>1, <1>3 DEF PortInv, NoPortLeak
<1>. QED
  BY <1>4, <1>5 DEF PortInv

(* Deregister creates no tunnel. *)
LEMMA UnlinkRemoves ==
  ASSUME TypeOK, NEW w \in Workers, NEW i \in Ids, Unlink(w, i)
  PROVE  \A j \in Ids : Live(j)' => Live(j) /\ tunnels'[j] = tunnels[j]
BY DEF Unlink, TypeOK, Live, registry

(* Deregister keeps the indexes in agreement. *)
LEMMA UnlinkIndexes ==
  ASSUME TypeOK, IndexesAgree, NEW w \in Workers, NEW i \in Ids, Unlink(w, i)
  PROVE  IndexesAgree'
<1>1. CASE ~Live(i)
  BY <1>1, IndexSame DEF Unlink
<1>2. CASE Live(i)
  <2>. DEFINE e == tunnels[i]
  <2>1. e.name \in Names /\ e.port \in Ports \cup {None} /\ e.session \in Sessions
    BY <1>2 DEF TypeOK, Live, Tunnel
  <2>2. /\ tunnels' = [tunnels EXCEPT ![i] = None]
        /\ byName' = [byName EXCEPT ![e.name] = None]
        /\ byPort' = [p \in Ports |-> IF p = e.port THEN None ELSE byPort[p]]
        /\ bySession' = [bySession EXCEPT ![e.session] = @ \ {i}]
    BY <1>2 DEF Unlink
  <2>3. \A j \in Ids : Live(j)' <=> Live(j) /\ j # i
    BY <2>2 DEF TypeOK, Live
  <2>4. \A j \in Ids : j # i => tunnels'[j] = tunnels[j]
    BY <2>2 DEF TypeOK
  <2>5. ASSUME NEW n \in Names, byName'[n] # None
        PROVE  Live(byName[n])' /\ tunnels'[byName'[n]].name = n /\ byName'[n] = byName[n]
    <3>1. byName'[n] = byName[n] /\ n # e.name
      BY <2>1, <2>2, <2>5 DEF TypeOK
    <3>2. byName[n] \in Ids /\ byName[n] # i
      BY <2>5, <3>1 DEF TypeOK, IndexesAgree
    <3>. QED
      BY <2>3, <2>4, <2>5, <3>1, <3>2 DEF IndexesAgree
  <2>6. ASSUME NEW p \in Ports, byPort'[p] # None
        PROVE  Live(byPort[p])' /\ tunnels'[byPort'[p]].port = p /\ byPort'[p] = byPort[p]
    <3>1. byPort'[p] = byPort[p] /\ p # e.port
      BY <2>1, <2>2, <2>6 DEF TypeOK
    <3>2. byPort[p] \in Ids /\ byPort[p] # i
      BY <2>6, <3>1 DEF TypeOK, IndexesAgree
    <3>. QED
      BY <2>3, <2>4, <2>6, <3>1, <3>2 DEF IndexesAgree
  <2>7. ASSUME NEW j \in Ids, Live(j)', tunnels'[j].port # None
        PROVE  byPort'[tunnels'[j].port] = j
    <3>1. Live(j) /\ j # i /\ tunnels'[j] = tunnels[j]
      BY <2>3, <2>4, <2>7
    <3>2. tunnels[j].port \in Ports
      BY <2>7, <3>1 DEF TypeOK, Live, Tunnel
    <3>3. byPort[tunnels[j].port] = j
      BY <2>7, <3>1 DEF IndexesAgree
    <3>4. tunnels[j].port # e.port
      BY <1>2, <2>7, <3>1, <3>2, <3>3 DEF IndexesAgree
    <3>. QED
      BY <2>2, <3>1, <3>2, <3>3, <3>4
  <2>8. ASSUME NEW s \in Sessions, NEW j \in Ids
        PROVE  j \in bySession'[s] <=> Live(j)' /\ tunnels'[j].session = s
    <3>1. j \in bySession'[s] <=> j \in bySession[s] /\ ~(s = e.session /\ j = i)
      BY <2>1, <2>2 DEF TypeOK
    <3>2. j \in bySession[s] <=> Live(j) /\ tunnels[j].session = s
      BY DEF IndexesAgree
    <3>. QED
      BY <2>3, <2>4, <3>1, <3>2
  <2>9. (\A n \in Names : byName[n] # None =>
          Live(byName[n]) /\ tunnels[byName[n]].name = n)'
    BY <2>5
  <2>10. (\A p \in Ports : byPort[p] # None =>
           Live(byPort[p]) /\ tunnels[byPort[p]].port = p)'
    BY <2>6
  <2>11. (\A j \in Ids : Live(j) /\ tunnels[j].port # None => byPort[tunnels[j].port] = j)'
    BY <2>7
  <2>12. (\A s \in Sessions, j \in Ids :
            j \in bySession[s] <=> Live(j) /\ tunnels[j].session = s)'
    BY <2>8
  <2>. QED
    BY <2>9, <2>10, <2>11, <2>12 DEF IndexesAgree
<1>. QED
  BY <1>1, <1>2

(* Deregister moves the port of the tunnel to the calling goroutine. *)
LEMMA UnlinkPorts ==
  ASSUME TypeOK, IndexesAgree, PortInv, NEW w \in Workers, NEW i \in Ids, Unlink(w, i),
         UNCHANGED <<shut, listeners, sockets>>,
         \A s \in Sessions, p \in Ports : Reserves(s, p)' <=> Reserves(s, p)
  PROVE  PortInv'
<1>1. CASE ~Live(i)
  BY <1>1, PortSame DEF Unlink, registry
<1>2. CASE Live(i)
  <2>. DEFINE S == {tunnels[i].port} \ {None}
  <2>1. S \in SUBSET Ports
    BY <1>2 DEF TypeOK, Live, Tunnel
  <2>2. \A p \in S : Serves(p)
    BY <1>2, NoneAssumption DEF IndexesAgree, Serves
  <2>3. drop[w] = {} /\ drop' = [drop EXCEPT ![w] = S]
    BY <1>2 DEF Unlink, Busy
  <2>4. \A p \in Ports : Serves(p)' <=> Serves(p) /\ p \notin S
    BY <1>2, NoneAssumption DEF Unlink, Serves
  <2>. HIDE DEF S
  <2>. QED
    BY <2>1, <2>2, <2>3, <2>4, PortWithdraw
<1>. QED
  BY <1>1, <1>2

(* DeregisterBySession keeps the indexes in agreement ... *)
LEMMA CleanupIndexes ==
  ASSUME TypeOK, IndexesAgree, NEW s \in Sessions, Cleanup(s)
  PROVE  /\ IndexesAgree'
         /\ \A j \in Ids : Live(j)' => Live(j) /\ tunnels'[j] = tunnels[j]
<1>. DEFINE gone  == {i \in bySession[s] : Live(i)}
            names == {tunnels[i].name : i \in gone}
            ports == {tunnels[i].port : i \in gone} \ {None}
<1>1. /\ tunnels' = [i \in Ids |-> IF i \in gone THEN None ELSE tunnels[i]]
      /\ byName' = [n \in Names |-> IF n \in names THEN None ELSE byName[n]]
      /\ byPort' = [p \in Ports |-> IF p \in ports THEN None ELSE byPort[p]]
      /\ bySession' = [bySession EXCEPT ![s] = {}]
  BY DEF Cleanup
<1>2. \A i \in Ids : i \in gone <=> Live(i) /\ tunnels[i].session = s
  BY DEF IndexesAgree
<1>3. \A i \in Ids : Live(i) /\ i \in gone => tunnels[i].name \in names
  OBVIOUS
<1>4. \A i \in Ids : Live(i) /\ i \in gone /\ tunnels[i].port # None => tunnels[i].port \in ports
  OBVIOUS
<1>5. \A p \in ports : p \in Ports => byPort[p] \in gone
  BY DEF IndexesAgree, TypeOK
<1>. HIDE DEF gone, names, ports
<1>6. \A j \in Ids :
        /\ Live(j)' <=> Live(j) /\ j \notin gone
        /\ Live(j)' => tunnels'[j] = tunnels[j]
  BY <1>1 DEF Live
<1>7. ASSUME NEW n \in Names, byName'[n] # None
      PROVE  Live(byName[n])' /\ tunnels'[byName'[n]].name = n
  <2>1. n \notin names /\ byName'[n] = byName[n]
    BY <1>1, <1>7
  <2>2. byName[n] \in Ids /\ Live(byName[n]) /\ tunnels[byName[n]].name = n
    BY <1>7, <2>1 DEF TypeOK, IndexesAgree
  <2>3. byName[n] \notin gone
    BY <1>3, <2>1, <2>2
  <2>4. Live(byName[n])'
    BY <1>6, <2>1, <2>2, <2>3 DEF Live
  <2>. QED
    BY <1>6, <2>1, <2>2, <2>3, <2>4
<1>8. ASSUME NEW p \in Ports, byPort'[p] # None
      PROVE  Live(byPort[p])' /\ tunnels'[byPort'[p]].port = p
  <2>1. p \notin ports /\ byPort'[p] = byPort[p]
    BY <1>1, <1>8
  <2>2. byPort[p] \in Ids /\ Live(byPort[p]) /\ tunnels[byPort[p]].port = p /\ p # None
    BY <1>8, <2>1, NoneAssumption DEF TypeOK, IndexesAgree
  <2>3. byPort[p] \notin gone
    BY <1>4, <2>1, <2>2
  <2>4. Live(byPort[p])'
    BY <1>6, <2>1, <2>2, <2>3 DEF Live
  <2>. QED
    BY <1>6, <2>1, <2>2, <2>3, <2>4
<1>9. ASSUME NEW j \in Ids, Live(j)', tunnels'[j].port # None
      PROVE  byPort'[tunnels'[j].port] = j
  <2>1. Live(j) /\ j \notin gone /\ tunnels'[j] = tunnels[j]
    BY <1>6, <1>9
  <2>2. tunnels[j].port \in Ports /\ byPort[tunnels[j].port] = j
    BY <1>9, <2>1 DEF TypeOK, Live, Tunnel, IndexesAgree
  <2>3. tunnels[j].port \notin ports
    BY <1>5, <2>1, <2>2
  <2>. QED
    BY <1>1, <2>1, <2>2, <2>3
<1>10. ASSUME NEW r \in Sessions, NEW j \in Ids
       PROVE  j \in bySession'[r] <=> Live(j)' /\ tunnels'[j].session = r
  <2>1. j \in bySession'[r] <=> j \in bySession[r] /\ r # s
    BY <1>1 DEF TypeOK
  <2>2. j \in bySession[r] <=> Live(j) /\ tunnels[j].session = r
    BY DEF IndexesAgree
  <2>. QED
    BY <1>2, <1>6, <2>1, <2>2
<1>11. IndexesAgree'
  <2>1. (\A n \in Names : byName[n] # None =>
          Live(byName[n]) /\ tunnels[byName[n]].name = n)'
    BY <1>7
  <2>2. (\A p \in Ports : byPort[p] # None =>
          Live(byPort[p]) /\ tunnels[byPort[p]].port = p)'
    BY <1>8
  <2>3. (\A j \in Ids : Live(j) /\ tunnels[j].port # None => byPort[tunnels[j].port] = j)'
    BY <1>9
  <2>4. (\A r \in Sessions, j \in Ids :
           j \in bySession[r] <=> Live(j) /\ tunnels[j].session = r)'
    BY <1>10
  <2>. QED
    BY <2>1, <2>2, <2>3, <2>4 DEF IndexesAgree
<1>. QED
  BY <1>6, <1>11

(* ... and hands all the ports of the session to the cleanup goroutine. *)
LEMMA CleanupPorts ==
  ASSUME TypeOK, IndexesAgree, PortInv, NEW s \in Sessions, Cleanup(s)
  PROVE  PortInv'
<1>. DEFINE gone  == {i \in bySession[s] : Live(i)}
            ports == {tunnels[i].port : i \in gone} \ {None}
<1>1. ports \in SUBSET Ports
  BY DEF TypeOK, Live, Tunnel
<1>2. \A p \in ports : Serves(p)
  BY NoneAssumption DEF TypeOK, IndexesAgree, Serves
<1>3. \A p \in Ports : Serves(p)' <=> Serves(p) /\ p \notin ports
  BY DEF Cleanup, Serves
<1>4. /\ drop[Cleaner(s)] = {}
      /\ drop' = [drop EXCEPT ![Cleaner(s)] = ports]
      /\ UNCHANGED <<shut, listeners, sockets, ctl>>
  BY DEF Cleanup, Busy, edge
<1>5. \A r \in Sessions, p \in Ports : Reserves(r, p)' <=> Reserves(r, p)
  BY <1>4 DEF Reserves
<1>. HIDE DEF gone, ports
<1>. QED
  BY <1>1, <1>2, <1>3, <1>4, <1>5, WorkerFacts, PortWithdraw

(* Register's insertion: the ID is new, and the port is only its own. *)
LEMMA InsertIndexes ==
  ASSUME IInv, NEW s \in Sessions, Insert(s)
  PROVE  IndexesAgree'
<1>. DEFINE f == ctl[s]
            i == ctl[s].id
            e == [name |-> f.name, port |-> f.port, session |-> s]
<1>1. /\ i \in Ids /\ f.name \in Names /\ f.port \in Ports \cup {None}
      /\ f.port # None => f.at = "ported" /\ f.port \in Ports
      /\ f.at \in Registering
  BY NoneAssumption DEF IInv, TypeOK, Insert, Frames, Registering
<1>2. /\ tunnels' = [tunnels EXCEPT ![i] = e]
      /\ byName' = [byName EXCEPT ![f.name] = i]
      /\ byPort' = [p \in Ports |-> IF p = f.port THEN i ELSE byPort[p]]
      /\ bySession' = [bySession EXCEPT ![s] = @ \cup {i}]
  BY DEF Insert
<1>3. ~Live(i) /\ i # None
  BY <1>1, NoneAssumption DEF IInv, IdsReserved
<1>4. f.port # None => byPort[f.port] = None
  BY <1>1 DEF IInv, OneHolder, Reserves, Serves
<1>5. e # None /\ e.name = f.name /\ e.port = f.port /\ e.session = s
  BY <1>1, NoneAssumption DEF Tunnel
<1>. HIDE DEF e
<1>6. /\ tunnels'[i] = e
      /\ \A j \in Ids : j # i => tunnels'[j] = tunnels[j]
      /\ \A j \in Ids : Live(j)' <=> Live(j) \/ j = i
  BY <1>1, <1>2, <1>5 DEF IInv, TypeOK, Live
<1>7. (\A n \in Names : byName[n] # None =>
         Live(byName[n]) /\ tunnels[byName[n]].name = n)'
  <2>. SUFFICES ASSUME NEW n \in Names, byName'[n] # None
                PROVE  Live(byName[n])' /\ tunnels'[byName'[n]].name = n
    OBVIOUS
  <2>1. CASE n = f.name
    <3>1. byName'[n] = i
      BY <1>1, <1>2, <2>1 DEF IInv, TypeOK
    <3>. QED
      BY <1>5, <1>6, <2>1, <3>1 DEF Live
  <2>2. CASE n # f.name
    <3>1. byName'[n] = byName[n] /\ byName[n] \in Ids
      BY <1>2, <2>2 DEF IInv, TypeOK
    <3>2. Live(byName[n]) /\ tunnels[byName[n]].name = n
      BY <3>1 DEF IInv, IndexesAgree
    <3>. QED
      BY <1>3, <1>6, <3>1, <3>2 DEF Live
  <2>. QED
    BY <2>1, <2>2
<1>8. (\A p \in Ports : byPort[p] # None =>
         Live(byPort[p]) /\ tunnels[byPort[p]].port = p)'
  <2>. SUFFICES ASSUME NEW p \in Ports, byPort'[p] # None
                PROVE  Live(byPort[p])' /\ tunnels'[byPort'[p]].port = p
    OBVIOUS
  <2>1. CASE p = f.port
    BY <1>2, <1>5, <1>6, <2>1 DEF Live
  <2>2. CASE p # f.port
    <3>1. byPort'[p] = byPort[p] /\ byPort[p] \in Ids
      BY <1>2, <2>2 DEF IInv, TypeOK
    <3>2. Live(byPort[p]) /\ tunnels[byPort[p]].port = p
      BY <3>1 DEF IInv, IndexesAgree
    <3>. QED
      BY <1>3, <1>6, <3>1, <3>2 DEF Live
  <2>. QED
    BY <2>1, <2>2
<1>9. (\A j \in Ids : Live(j) /\ tunnels[j].port # None => byPort[tunnels[j].port] = j)'
  <2>. SUFFICES ASSUME NEW j \in Ids, Live(j)', tunnels'[j].port # None
                PROVE  byPort'[tunnels'[j].port] = j
    OBVIOUS
  <2>1. CASE j = i
    BY <1>1, <1>2, <1>5, <1>6, <2>1
  <2>2. CASE j # i
    <3>1. Live(j) /\ tunnels'[j] = tunnels[j] /\ tunnels[j].port # None
      BY <1>6, <2>2
    <3>2. tunnels[j].port \in Ports /\ byPort[tunnels[j].port] = j
      BY <3>1 DEF IInv, TypeOK, Live, Tunnel, IndexesAgree
    <3>3. tunnels[j].port # f.port
      BY <1>4, <3>1, <3>2, NoneAssumption
    <3>. QED
      BY <1>2, <3>1, <3>2, <3>3
  <2>. QED
    BY <2>1, <2>2
<1>10. (\A r \in Sessions, j \in Ids :
          j \in bySession[r] <=> Live(j) /\ tunnels[j].session = r)'
  <2>. SUFFICES ASSUME NEW r \in Sessions, NEW j \in Ids
                PROVE  j \in bySession'[r] <=> Live(j)' /\ tunnels'[j].session = r
    OBVIOUS
  <2>1. j \in bySession'[r] <=> j \in bySession[r] \/ (r = s /\ j = i)
    BY <1>2 DEF IInv, TypeOK
  <2>2. j \in bySession[r] <=> Live(j) /\ tunnels[j].session = r
    BY DEF IInv, IndexesAgree
  <2>3. CASE j = i
    BY <1>3, <1>5, <1>6, <2>1, <2>2, <2>3
  <2>4. CASE j # i
    BY <1>6, <2>1, <2>2, <2>4
  <2>. QED
    BY <2>3, <2>4
<1>. HIDE DEF f, i
<1>. QED
  BY <1>7, <1>8, <1>9, <1>10 DEF IndexesAgree

LEMMA InsertPorts ==
  ASSUME IInv, NEW s \in Sessions, Insert(s)
  PROVE  PortInv'
<1>. DEFINE f == ctl[s]
<1>1. /\ f.port \in Ports => f.at = "ported"
      /\ f.at = "ported" => f.port \in Ports
      /\ f.port \in Ports \cup {None} /\ f.id \in Ids
  BY NoneAssumption DEF IInv, TypeOK, Insert, Frames
<1>2. /\ byPort' = [p \in Ports |-> IF p = f.port THEN f.id ELSE byPort[p]]
      /\ ctl' = [ctl EXCEPT ![s] = At("idle")]
      /\ UNCHANGED <<drop, shut, listeners, sockets>>
  BY DEF Insert, edge, releases
<1>3. \A p \in Ports : Serves(p)' <=> Serves(p) \/ Reserves(s, p)
  BY <1>1, <1>2, NoneAssumption DEF Serves, Reserves
<1>4. \A r \in Sessions, p \in Ports : Reserves(r, p)' <=> Reserves(r, p) /\ r # s
  BY <1>2 DEF IInv, TypeOK, Reserves, At, Frame
<1>5. \A w \in Workers, p \in Ports :
        (Drains(w, p)' <=> Drains(w, p)) /\ (Closes(w, p)' <=> Closes(w, p))
  BY <1>2 DEF Drains, Closes
<1>. HIDE DEF f
<1>6. OneHolder /\ NoPortLeak
  BY DEF IInv
<1>7. OneHolder'
  BY <1>3, <1>4, <1>5, <1>6 DEF OneHolder
<1>8. NoPortLeak'
  BY <1>2, <1>3, <1>4, <1>5, <1>6 DEF NoPortLeak
<1>. QED
  BY <1>7, <1>8 DEF PortInv

(* The new ID is not that of another registration nor of a victim. *)
LEMMA InsertIds ==
  ASSUME IInv, NEW s \in Sessions, Insert(s)
  PROVE  IdsReserved' /\ EvictsOwnToken'
<1>1. ctl[s].at \in Registering /\ ctl[s].id \in Ids
  BY DEF IInv, TypeOK, Insert, Frames, Registering
<1>2. ctl' = [ctl EXCEPT ![s] = At("idle")]
  BY DEF Insert
<1>3. \A j \in Ids : j # ctl[s].id => tunnels'[j] = tunnels[j] /\ (Live(j)' <=> Live(j))
  BY DEF Insert, IInv, TypeOK, Live
<1>4. \A r \in Sessions : r # s => ctl'[r] = ctl[r]
  BY <1>2 DEF IInv, TypeOK
<1>5. /\ ctl'[s].at = "idle" /\ ctl'[s].id = None /\ ctl'[s].victim = None
  BY <1>2 DEF At, Frame, IInv, TypeOK
<1>6. IdsReserved'
  <2>. SUFFICES ASSUME NEW r \in Sessions, ctl'[r].at \in Registering
                PROVE  /\ ~Live(ctl[r].id)'
                       /\ \A q \in Sessions : ctl'[q].id = ctl'[r].id => q = r
                       /\ \A q \in Sessions : ctl'[q].victim # ctl'[r].id
    BY DEF IdsReserved
  <2>1. r # s /\ ctl'[r] = ctl[r]
    BY <1>4, <1>5 DEF Registering
  <2>2. ctl[r].id \in Ids /\ ctl[r].id # None
    BY <2>1, NoneAssumption DEF IInv, TypeOK, Frames, Registering
  <2>3. ctl[r].id # ctl[s].id /\ ~Live(ctl[r].id)
    BY <1>1, <2>1 DEF IInv, IdsReserved
  <2>4. ~Live(ctl[r].id)'
    BY <1>3, <2>1, <2>2, <2>3 DEF Live
  <2>5. ASSUME NEW q \in Sessions
        PROVE (ctl'[q].id = ctl'[r].id => q = r) /\ ctl'[q].victim # ctl'[r].id
    BY <1>4, <1>5, <2>1, <2>2 DEF IInv, IdsReserved
  <2>. QED
    BY <2>4, <2>5
<1>7. EvictsOwnToken'
  <2>. SUFFICES ASSUME NEW r \in Sessions, ctl'[r].at = "evict", Live(ctl[r].victim)'
                PROVE  Owner(ctl[r].victim)' = TokenOf[r]
    BY DEF EvictsOwnToken
  <2>1. r # s /\ ctl'[r] = ctl[r] /\ ctl[r].at = "evict"
    BY <1>4, <1>5
  <2>2. ctl[r].victim \in Ids /\ ctl[r].victim # ctl[s].id
    BY <1>1, <2>1 DEF IInv, TypeOK, Frames, IdsReserved
  <2>. QED
    BY <1>3, <2>1, <2>2 DEF IInv, EvictsOwnToken, Owner, Live
<1>. QED
  BY <1>6, <1>7

(* The control loop of s drops its frame, having no port. *)
LEMMA FrameReset ==
  ASSUME IInv, NEW s \in Sessions, NEW x \in {"none", "idle", "ended"},
         ctl' = [ctl EXCEPT ![s] = At(x)], ctl[s].at # "ported", UNCHANGED tunnels
  PROVE  /\ IdsReserved' /\ EvictsOwnToken'
         /\ \A r \in Sessions, p \in Ports : Reserves(r, p)' <=> Reserves(r, p)
<1>1. \A r \in Sessions : r # s => ctl'[r] = ctl[r]
  BY DEF IInv, TypeOK
<1>2. ctl'[s].at = x /\ ctl'[s].id = None /\ ctl'[s].victim = None
  BY DEF At, Frame, IInv, TypeOK
<1>3. \A r \in Sessions : ctl[r].at \in Registering => ctl[r].id # None
  BY NoneAssumption DEF IInv, TypeOK, Frames, Registering
<1>4. x \notin Registering /\ x # "ported" /\ x # "evict"
  BY DEF Registering
<1>5. IdsReserved'
  BY <1>1, <1>2, <1>3, <1>4 DEF IInv, IdsReserved, Live
<1>6. EvictsOwnToken'
  BY <1>1, <1>2, <1>4 DEF IInv, EvictsOwnToken, Live, Owner
<1>7. \A r \in Sessions, p \in Ports : Reserves(r, p)' <=> Reserves(r, p)
  BY <1>1, <1>2, <1>4 DEF Reserves
<1>. QED
  BY <1>5, <1>6, <1>7

(* The control loop of s takes a fresh ID, and a victim of its own token.  *)
LEMMA FrameClaim ==
  ASSUME IInv, NEW s \in Sessions, NEW i \in Ids, NEW n \in Names, FreshId(i),
         NEW at \in {"named", "evict"}, NEW v \in Ids \cup {None},
         at = "named" => v = None,
         at = "evict" => v \in Ids /\ Live(v) /\ Owner(v) = TokenOf[s],
         ctl' = [ctl EXCEPT ![s] = Frame(at, i, n, None, v)],
         ctl[s].at = "idle", UNCHANGED tunnels
  PROVE  /\ IdsReserved' /\ EvictsOwnToken'
         /\ \A r \in Sessions, p \in Ports : Reserves(r, p)' <=> Reserves(r, p)
<1>1. \A r \in Sessions : r # s => ctl'[r] = ctl[r]
  BY DEF IInv, TypeOK
<1>2. ctl'[s].at = at /\ ctl'[s].id = i /\ ctl'[s].victim = v
  BY DEF Frame, IInv, TypeOK
<1>3. \A r \in Sessions : ctl[r].id # i /\ ctl[r].victim # i
  BY DEF FreshId
<1>4. ~Live(i) /\ v # i
  BY NoneAssumption DEF FreshId
<1>5. \A r \in Sessions : ctl[r].at \in Registering =>
        ~Live(ctl[r].id) /\ ctl[r].id \in Ids
  BY DEF IInv, IdsReserved, TypeOK, Frames, Registering
<1>6. IdsReserved'
  <2>. SUFFICES ASSUME NEW r \in Sessions, ctl'[r].at \in Registering
                PROVE  /\ ~Live(ctl[r].id)'
                       /\ \A q \in Sessions : ctl'[q].id = ctl'[r].id => q = r
                       /\ \A q \in Sessions : ctl'[q].victim # ctl'[r].id
    BY DEF IdsReserved
  <2>1. CASE r = s
    BY <1>1, <1>2, <1>3, <1>4, <2>1 DEF Live
  <2>2. CASE r # s
    <3>1. ctl'[r] = ctl[r] /\ ctl[r].id # i /\ ~Live(ctl[r].id)
      BY <1>1, <1>3, <1>5, <2>2
    <3>2. v # ctl[r].id
      BY <1>1, <1>5, <2>2, NoneAssumption
    <3>. QED
      BY <1>1, <1>2, <2>2, <3>1, <3>2 DEF IInv, IdsReserved, Live
  <2>. QED
    BY <2>1, <2>2
<1>7. EvictsOwnToken'
  BY <1>1, <1>2 DEF IInv, EvictsOwnToken, Live, Owner
<1>8. \A r \in Sessions, p \in Ports : Reserves(r, p)' <=> Reserves(r, p)
  BY <1>1, <1>2 DEF Reserves
<1>. QED
  BY <1>6, <1>7, <1>8

(* AssignPort hands a port that nobody answers for to the registration. *)
LEMMA AssignSafe ==
  ASSUME IInv, NEW s \in Sessions, NEW p \in Ports, AssignPort(s, p)
  PROVE  IdsReserved' /\ EvictsOwnToken' /\ PortInv'
<1>1. /\ ctl' = [ctl EXCEPT ![s] = Frame("ported", ctl[s].id, ctl[s].name, p, None)]
      /\ ctl[s].at = "named"
      /\ listeners' = listeners \cup {p} /\ sockets' = sockets \cup {p}
      /\ p \notin listeners /\ p \notin sockets
      /\ UNCHANGED <<tunnels, byPort, drop, shut>>
  BY DEF AssignPort, registry, releases
<1>2. \A r \in Sessions : r # s => ctl'[r] = ctl[r]
  BY <1>1 DEF IInv, TypeOK
<1>3. /\ ctl'[s].at = "ported" /\ ctl'[s].id = ctl[s].id
      /\ ctl'[s].port = p /\ ctl'[s].victim = None
  BY <1>1 DEF Frame, IInv, TypeOK
<1>4. ctl[s].at \in Registering /\ ctl[s].victim = None
  BY <1>1 DEF IInv, TypeOK, Frames, Registering
<1>5. IdsReserved'
  BY <1>1, <1>2, <1>3, <1>4 DEF IInv, IdsReserved, Live
<1>6. EvictsOwnToken'
  BY <1>1, <1>2, <1>3 DEF IInv, EvictsOwnToken, Live, Owner
<1>7. /\ ~Serves(p)
      /\ \A r \in Sessions : ~Reserves(r, p)
      /\ \A w \in Workers : ~Drains(w, p) /\ ~Closes(w, p)
  BY <1>1 DEF IInv, NoPortLeak
<1>8. \A r \in Sessions, q \in Ports :
        Reserves(r, q)' <=> Reserves(r, q) \/ (r = s /\ q = p)
  BY <1>1, <1>2, <1>3 DEF Reserves
<1>9. /\ \A q \in Ports : Serves(q)' <=> Serves(q)
      /\ \A w \in Workers, q \in Ports :
           (Drains(w, q)' <=> Drains(w, q)) /\ (Closes(w, q)' <=> Closes(w, q))
  BY <1>1 DEF Serves, Drains, Closes
<1>10. OneHolder /\ NoPortLeak
  BY DEF IInv
<1>11. OneHolder'
  BY <1>7, <1>8, <1>9, <1>10 DEF OneHolder
<1>12. NoPortLeak'
  BY <1>1, <1>7, <1>8, <1>9, <1>10 DEF NoPortLeak
<1>. QED
  BY <1>5, <1>6, <1>11, <1>12 DEF PortInv

(* The eviction ends, the registration goes on with its ID and name. *)
LEMMA EvictSafe ==
  ASSUME IInv, NEW s \in Sessions, EvictStale(s)
  PROVE  IndexesAgree' /\ IdsReserved' /\ EvictsOwnToken' /\ PortInv'
<1>1. /\ ctl' = [ctl EXCEPT ![s] = Frame("named", ctl[s].id, ctl[s].name, None, None)]
      /\ ctl[s].at = "evict" /\ ctl[s].victim \in Ids /\ ctl[s].id \in Ids
      /\ UNCHANGED <<shut, listeners, sockets>>
  BY DEF EvictStale, edge, IInv, TypeOK, Frames
<1>2. Unlink(Control(s), ctl[s].victim)
  BY DEF EvictStale
<1>3. \A j \in Ids : Live(j)' => Live(j) /\ tunnels'[j] = tunnels[j]
  BY <1>1, <1>2, WorkerFacts, UnlinkRemoves DEF IInv
<1>4. \A r \in Sessions : r # s => ctl'[r] = ctl[r]
  BY <1>1 DEF IInv, TypeOK
<1>5. ctl'[s].at = "named" /\ ctl'[s].id = ctl[s].id /\ ctl'[s].victim = None
  BY <1>1 DEF Frame, IInv, TypeOK
<1>6. \A r \in Sessions : /\ ctl[r].at \in Registering => ctl[r].id \in Ids
                          /\ ctl[r].at = "evict" => ctl[r].victim \in Ids
  BY DEF IInv, TypeOK, Frames, Registering
<1>7. \A r \in Sessions, p \in Ports : Reserves(r, p)' <=> Reserves(r, p)
  BY <1>1, <1>4, <1>5 DEF Reserves
<1>8. IdsReserved'
  <2>. SUFFICES ASSUME NEW r \in Sessions, ctl'[r].at \in Registering
                PROVE  /\ ~Live(ctl[r].id)'
                       /\ \A q \in Sessions : ctl'[q].id = ctl'[r].id => q = r
                       /\ \A q \in Sessions : ctl'[q].victim # ctl'[r].id
    BY DEF IdsReserved
  <2>1. ctl'[r].id = ctl[r].id /\ ctl[r].at \in Registering /\ ctl[r].id \in Ids
    BY <1>1, <1>4, <1>5, <1>6 DEF Registering
  <2>2. ~Live(ctl[r].id)'
    BY <1>3, <2>1 DEF IInv, IdsReserved, Live
  <2>3. ctl[r].id # None
    BY <2>1, NoneAssumption
  <2>. QED
    BY <1>4, <1>5, <2>1, <2>2, <2>3 DEF IInv, IdsReserved
<1>9. EvictsOwnToken'
  BY <1>3, <1>4, <1>5, <1>6 DEF IInv, EvictsOwnToken, Live, Owner
<1>10. IndexesAgree' /\ PortInv'
  BY <1>1, <1>2, <1>7, WorkerFacts, UnlinkIndexes, UnlinkPorts DEF IInv, PortInv
<1>. QED
  BY <1>8, <1>9, <1>10

(* ReleasePort under t.mu: the port passes from the map to the closing     *)
(* goroutine.                                                              *)
LEMMA UnlistSafe ==
  ASSUME IInv, NEW w \in Workers, NEW p \in Ports, UnlistPort(w, p)
  PROVE  PortInv'
<1>1. /\ p \in drop[w] /\ shut[w] = None
      /\ drop' = [drop EXCEPT ![w] = @ \ {p}]
      /\ shut' = [shut EXCEPT ![w] = IF p \in listeners THEN p ELSE None]
      /\ listeners' = listeners \ {p}
      /\ UNCHANGED <<byPort, sockets, ctl>>
  BY DEF UnlistPort, registry
<1>2. OneHolder /\ NoPortLeak
  BY DEF IInv
<1>3. Drains(w, p)
  BY <1>1 DEF Drains
<1>4. p \in listeners
  BY <1>2, <1>3 DEF NoPortLeak
<1>5. \A v \in Workers, q \in Ports :
        /\ Drains(v, q)' <=> Drains(v, q) /\ ~(v = w /\ q = p)
        /\ Closes(v, q)' <=> Closes(v, q) \/ (v = w /\ q = p)
  BY <1>1, <1>4, NoneAssumption DEF Drains, Closes, IInv, TypeOK
<1>6. /\ \A q \in Ports : Serves(q)' <=> Serves(q)
      /\ \A s \in Sessions, q \in Ports : Reserves(s, q)' <=> Reserves(s, q)
  BY <1>1 DEF Serves, Reserves
<1>7. \A v \in Workers : ~Closes(v, p)
  BY <1>2, <1>4 DEF NoPortLeak
<1>8. OneHolder'
  BY <1>2, <1>5, <1>6 DEF OneHolder
<1>9. NoPortLeak'
  <2>1. (\A q \in Ports : q \in listeners <=>
           \/ Serves(q)
           \/ \E s \in Sessions : Reserves(s, q)
           \/ \E v \in Workers : Drains(v, q))'
    <3>. SUFFICES ASSUME NEW q \in Ports
                  PROVE q \in listeners' <=>
                        \/ Serves(q)'
                        \/ \E s \in Sessions : Reserves(s, q)'
                        \/ \E v \in Workers : Drains(v, q)'
      OBVIOUS
    <3>1. CASE q = p
      BY <1>1, <1>2, <1>3, <1>5, <1>6, <3>1 DEF OneHolder
    <3>2. CASE q # p
      BY <1>1, <1>2, <1>5, <1>6, <3>2 DEF NoPortLeak
    <3>. QED
      BY <3>1, <3>2
  <2>2. (\A q \in Ports : q \in sockets <=> q \in listeners \/ \E v \in Workers : Closes(v, q))'
    BY <1>1, <1>2, <1>4, <1>5, <1>7 DEF NoPortLeak
  <2>3. (\A q \in Ports, v \in Workers : Closes(v, q) =>
           q \notin listeners /\ \A u \in Workers : Closes(u, q) => u = v)'
    BY <1>1, <1>2, <1>5, <1>7 DEF NoPortLeak
  <2>. QED
    BY <2>1, <2>2, <2>3 DEF NoPortLeak
<1>. QED
  BY <1>8, <1>9 DEF PortInv

(* ln.Close: the socket that is closed was the goroutine's own. *)
LEMMA CloseSafe ==
  ASSUME IInv, NEW w \in Workers, CloseListener(w)
  PROVE  PortInv'
<1>1. /\ sockets' = sockets \ {shut[w]}
      /\ shut' = [shut EXCEPT ![w] = None]
      /\ UNCHANGED <<byPort, listeners, drop, ctl>>
  BY DEF CloseListener, registry
<1>2. OneHolder /\ NoPortLeak
  BY DEF IInv
<1>3. \A v \in Workers, q \in Ports : Closes(v, q)' <=> Closes(v, q) /\ v # w
  BY <1>1, NoneAssumption DEF Closes, IInv, TypeOK
<1>4. \A q \in Ports : q \in sockets' <=> q \in sockets /\ ~Closes(w, q)
  BY <1>1 DEF Closes
<1>5. /\ \A q \in Ports : Serves(q)' <=> Serves(q)
      /\ \A s \in Sessions, q \in Ports : Reserves(s, q)' <=> Reserves(s, q)
      /\ \A v \in Workers, q \in Ports : Drains(v, q)' <=> Drains(v, q)
  BY <1>1 DEF Serves, Reserves, Drains
<1>6. OneHolder'
  BY <1>2, <1>5 DEF OneHolder
<1>7. NoPortLeak'
  BY <1>1, <1>2, <1>3, <1>4, <1>5 DEF NoPortLeak
<1>. QED
  BY <1>6, <1>7 DEF PortInv

LEMMA InvInit == Init => IInv
<1>. SUFFICES ASSUME Init PROVE IInv
  OBVIOUS
<1>1. \A s \in Sessions : ctl[s].at = "none" /\ ctl[s].port = None
  BY DEF Init, At, Frame
<1>2. IndexesAgree
  BY DEF Init, IndexesAgree, Live
<1>3. IdsReserved /\ EvictsOwnToken
  BY <1>1 DEF IdsReserved, EvictsOwnToken, Registering
<1>4. OneHolder /\ NoPortLeak
  BY <1>1, NoneAssumption DEF Init, OneHolder, NoPortLeak, Serves, Reserves, Drains, Closes
<1>. QED
  BY <1>2, <1>3, <1>4, TypeInit DEF IInv

LEMMA InvStep == IInv /\ [Next]_vars => IInv'
<1>. SUFFICES ASSUME IInv, [Next]_vars
              PROVE  IndexesAgree' /\ IdsReserved' /\ EvictsOwnToken' /\ PortInv'
  BY TypeStep DEF IInv, PortInv
<1>. USE WorkerFacts
<1>inv. /\ TypeOK /\ IndexesAgree /\ IdsReserved /\ EvictsOwnToken /\ PortInv
  BY DEF IInv, PortInv
<1>live. UNCHANGED tunnels => \A i \in Ids : Live(i)' => Live(i) /\ tunnels'[i] = tunnels[i]
  BY DEF Live
<1>0. ASSUME UNCHANGED <<registry, edge, ctl, drop, shut>>
      PROVE  IndexesAgree' /\ IdsReserved' /\ EvictsOwnToken' /\ PortInv'
  <2>1. \A s \in Sessions, p \in Ports : Reserves(s, p)' <=> Reserves(s, p)
    BY <1>0 DEF Reserves
  <2>2. UNCHANGED <<tunnels, byPort, listeners, sockets>>
    BY <1>0 DEF registry, edge
  <2>. QED
    BY <1>inv, <1>live, <1>0, <2>1, <2>2, IndexSame, IdsSame, PortSame
<1>1. ASSUME NEW s \in Sessions, NEW x \in {"none", "idle", "ended"},
             ctl' = [ctl EXCEPT ![s] = At(x)], ctl[s].at # "ported",
             UNCHANGED <<registry, edge, releases>>
      PROVE  IndexesAgree' /\ IdsReserved' /\ EvictsOwnToken' /\ PortInv'
  <2>1. UNCHANGED <<tunnels, byPort, listeners, sockets, drop, shut>>
    BY <1>1 DEF registry, edge, releases
  <2>. QED
    BY <1>inv, <1>1, <2>1, FrameReset, IndexSame, PortSame
<1>2. CASE ReleaseNext
  <2>1. ASSUME NEW w \in Workers, NEW p \in Ports, UnlistPort(w, p)
        PROVE  IndexesAgree' /\ IdsReserved' /\ EvictsOwnToken' /\ PortInv'
    <3>1. UNCHANGED <<registry, ctl>> /\ UNCHANGED tunnels
      BY <2>1 DEF UnlistPort, registry
    <3>. QED
      BY <1>inv, <1>live, <2>1, <3>1, UnlistSafe, IndexSame, IdsSame
  <2>2. ASSUME NEW w \in Workers, CloseListener(w)
        PROVE  IndexesAgree' /\ IdsReserved' /\ EvictsOwnToken' /\ PortInv'
    <3>1. UNCHANGED <<registry, ctl>> /\ UNCHANGED tunnels
      BY <2>2 DEF CloseListener, registry
    <3>. QED
      BY <1>inv, <1>live, <2>2, <3>1, CloseSafe, IndexSame, IdsSame
  <2>3. ASSUME NEW w \in Workers, RemoveLimiter(w)
        PROVE  IndexesAgree' /\ IdsReserved' /\ EvictsOwnToken' /\ PortInv'
    BY <1>0, <2>3 DEF RemoveLimiter
  <2>. QED
    BY <1>2, <2>1, <2>2, <2>3 DEF ReleaseNext
<1>3. CASE SessionNext
  <2>. PICK s \in Sessions :
         \/ Connect(s) \/ Disconnect(s) \/ Cleanup(s) \/ CleanupDone(s)
         \/ OpenControl(s) \/ EndControl(s)
    BY <1>3 DEF SessionNext
  <2>1. CASE Connect(s)
    BY <1>1, <2>1 DEF Connect
  <2>2. CASE Disconnect(s) \/ CleanupDone(s)
    BY <1>0, <2>2 DEF Disconnect, CleanupDone, releases
  <2>3. CASE Cleanup(s)
    <3>1. UNCHANGED ctl
      BY <2>3 DEF Cleanup
    <3>. QED
      BY <1>inv, <2>3, <3>1, CleanupIndexes, CleanupPorts, IdsSame
  <2>4. CASE OpenControl(s)
    BY <1>1, <2>4 DEF OpenControl
  <2>5. CASE EndControl(s)
    BY <1>1, <2>5 DEF EndControl
  <2>. QED
    BY <2>1, <2>2, <2>3, <2>4, <2>5
<1>4. CASE RegisterNext
  <2>1. ASSUME NEW s \in Sessions, NEW i \in Ids, NEW n \in Names,
               ClaimName(s, i, n) \/ FindStale(s, i, n)
        PROVE  IndexesAgree' /\ IdsReserved' /\ EvictsOwnToken' /\ PortInv'
    <3>1. /\ UNCHANGED <<registry, edge, releases>>
          /\ UNCHANGED <<tunnels, byPort, listeners, sockets, drop, shut>>
          /\ FreshId(i) /\ ctl[s].at = "idle"
      BY <2>1 DEF ClaimName, FindStale, registry, edge, releases
    <3>2. /\ IdsReserved' /\ EvictsOwnToken'
          /\ \A r \in Sessions, p \in Ports : Reserves(r, p)' <=> Reserves(r, p)
      <4>1. CASE ClaimName(s, i, n)
        BY <3>1, <4>1, FrameClaim DEF ClaimName
      <4>2. CASE FindStale(s, i, n)
        <5>1. /\ byName[n] \in Ids /\ Live(byName[n]) /\ Owner(byName[n]) = TokenOf[s]
              /\ ctl' = [ctl EXCEPT ![s] = Frame("evict", i, n, None, byName[n])]
          BY <1>inv, <4>2 DEF FindStale, TypeOK, IndexesAgree
        <5>. QED
          BY <3>1, <5>1, FrameClaim
      <4>. QED
        BY <2>1, <4>1, <4>2
    <3>. QED
      BY <1>inv, <3>1, <3>2, IndexSame, PortSame
  <2>2. ASSUME NEW s \in Sessions, EvictStale(s)
        PROVE  IndexesAgree' /\ IdsReserved' /\ EvictsOwnToken' /\ PortInv'
    BY <2>2, EvictSafe
  <2>3. ASSUME NEW s \in Sessions, NEW p \in Ports, AssignPort(s, p)
        PROVE  IndexesAgree' /\ IdsReserved' /\ EvictsOwnToken' /\ PortInv'
    <3>1. UNCHANGED registry
      BY <2>3 DEF AssignPort
    <3>. QED
      BY <1>inv, <2>3, <3>1, AssignSafe, IndexSame
  <2>4. ASSUME NEW s \in Sessions, NoPortLeft(s)
        PROVE  IndexesAgree' /\ IdsReserved' /\ EvictsOwnToken' /\ PortInv'
    BY <1>1, <2>4 DEF NoPortLeft
  <2>5. ASSUME NEW s \in Sessions, Insert(s)
        PROVE  IndexesAgree' /\ IdsReserved' /\ EvictsOwnToken' /\ PortInv'
    BY <2>5, InsertIndexes, InsertPorts, InsertIds
  <2>6. ASSUME NEW s \in Sessions, NEW i \in Ids, CloseTunnel(s, i)
        PROVE  IndexesAgree' /\ IdsReserved' /\ EvictsOwnToken' /\ PortInv'
    <3>1. Unlink(Control(s), i) /\ UNCHANGED <<ctl, shut, listeners, sockets>>
      BY <2>6 DEF CloseTunnel, edge
    <3>2. \A r \in Sessions, p \in Ports : Reserves(r, p)' <=> Reserves(r, p)
      BY <3>1 DEF Reserves
    <3>. QED
      BY <1>inv, <3>1, <3>2, UnlinkIndexes, UnlinkPorts, UnlinkRemoves, IdsSame
  <2>. QED
    BY <1>4, <2>1, <2>2, <2>3, <2>4, <2>5, <2>6 DEF RegisterNext
<1>5. CASE AdminNext
  <2>1. ASSUME NEW a \in Admins, NEW i \in Ids, DeregisterNext(a, i)
        PROVE  IndexesAgree' /\ IdsReserved' /\ EvictsOwnToken' /\ PortInv'
    <3>1. Unlink(Admin(a), i) /\ UNCHANGED <<ctl, shut, listeners, sockets>>
      BY <2>1 DEF DeregisterNext, edge
    <3>2. \A r \in Sessions, p \in Ports : Reserves(r, p)' <=> Reserves(r, p)
      BY <3>1 DEF Reserves
    <3>. QED
      BY <1>inv, <3>1, <3>2, UnlinkIndexes, UnlinkPorts, UnlinkRemoves, IdsSame
  <2>2. ASSUME NEW a \in Admins, NEW i \in Ids, ForceClose(a, i)
        PROVE  IndexesAgree' /\ IdsReserved' /\ EvictsOwnToken' /\ PortInv'
    BY <1>0, <2>2 DEF ForceClose, releases
  <2>3. ASSUME NEW a \in Admins, NEW t \in Tokens, RevokeToken(a, t) \/ RevokeOnly(a, t)
        PROVE  IndexesAgree' /\ IdsReserved' /\ EvictsOwnToken' /\ PortInv'
    BY <1>0, <2>3 DEF RevokeToken, RevokeOnly, releases
  <2>4. ASSUME NEW a \in Admins, ListByToken(a)
        PROVE  IndexesAgree' /\ IdsReserved' /\ EvictsOwnToken' /\ PortInv'
    BY <1>0, <2>4 DEF ListByToken, releases
  <2>5. ASSUME NEW t \in Tokens, CreateToken(t)
        PROVE  IndexesAgree' /\ IdsReserved' /\ EvictsOwnToken' /\ PortInv'
    BY <1>0, <2>5 DEF CreateToken, releases
  <2>. QED
    BY <1>5, <2>1, <2>2, <2>3, <2>4, <2>5 DEF AdminNext
<1>6. CASE RequestNext
  <2>1. UNCHANGED <<registry, edge, ctl, drop, shut>>
    BY <1>6 DEF RequestNext, UseLimiter, LookupTunnel, releases
  <2>. QED
    BY <1>0, <2>1
<1>7. CASE UNCHANGED vars
  BY <1>0, <1>7 DEF vars, releases
<1>. QED
  BY <1>2, <1>3, <1>4, <1>5, <1>6, <1>7 DEF Next

(* The inductive invariant holds throughout. *)
THEOREM Invariant == Spec => []IInv
BY InvInit, InvStep, PTL DEF Spec

(* The maps of the manager never disagree. *)
THEOREM IndexesAlwaysAgree == Spec => []IndexesAgree
<1>1. IInv => IndexesAgree
  BY DEF IInv
<1>. QED
  BY <1>1, Invariant, PTL

(* Each port has at most one holder. *)
THEOREM PortsAlwaysHeldOnce == Spec => []OneHolder
<1>1. IInv => OneHolder
  BY DEF IInv
<1>. QED
  BY <1>1, Invariant, PTL

(* No listener and no socket is without a holder. *)
THEOREM PortsNeverLeak == Spec => []NoPortLeak
<1>1. IInv => NoPortLeak
  BY DEF IInv
<1>. QED
  BY <1>1, Invariant, PTL

(* Register evicts only tunnels of the token that registers. *)
THEOREM EvictionsKeepToTokens == Spec => []EvictsOwnToken
<1>1. IInv => EvictsOwnToken
  BY DEF IInv
<1>. QED
  BY <1>1, Invariant, PTL

-----------------------------------------------------------------------------
(* The abstract state of a port, read off the concrete one. *)
LEMMA LeaseValues ==
  ASSUME IInv, NEW p \in Ports
  PROVE  /\ lease[p] = "serving" <=> Serves(p)
         /\ lease[p] = "reserved" <=> \E s \in Sessions : Reserves(s, p)
         /\ lease[p] = "free" <=> p \notin sockets
         /\ lease[p] = "draining" <=>
              p \in sockets /\ ~Serves(p) /\ \A s \in Sessions : ~Reserves(s, p)
<1>1. lease[p] = LeaseOf(p)
  BY DEF lease
<1>2. Serves(p) => p \in sockets
  BY DEF IInv, NoPortLeak
<1>3. ASSUME NEW s \in Sessions, Reserves(s, p) PROVE ~Serves(p) /\ p \in sockets
  BY <1>3 DEF IInv, OneHolder, NoPortLeak
<1>. QED
  BY <1>1, <1>2, <1>3 DEF LeaseOf

LEMMA LeaseSame ==
  ASSUME UNCHANGED <<byPort, sockets>>,
         \A s \in Sessions, p \in Ports : Reserves(s, p)' <=> Reserves(s, p)
  PROVE  UNCHANGED lease
BY DEF lease, LeaseOf, Serves

(* Withdrawing the tunnels of the ports in S. *)
LEMMA LeaseWithdraw ==
  ASSUME IInv, NEW S \in SUBSET Ports, \A p \in S : Serves(p),
         \A p \in Ports : Serves(p)' <=> Serves(p) /\ p \notin S,
         \A s \in Sessions, p \in Ports : Reserves(s, p)' <=> Reserves(s, p),
         UNCHANGED sockets
  PROVE  Leasing!Withdraw(S)
<1>1. \A p \in S : lease[p] = "serving"
  BY LeaseValues
<1>2. ASSUME NEW p \in Ports
      PROVE LeaseOf(p)' = IF p \in S THEN "draining" ELSE lease[p]
  <2>1. CASE p \in S
    <3>1. p \in sockets /\ \A s \in Sessions : ~Reserves(s, p)
      BY <2>1 DEF IInv, OneHolder, NoPortLeak
    <3>. QED
      BY <2>1, <3>1 DEF LeaseOf
  <2>2. CASE p \notin S
    BY <2>2 DEF LeaseOf, lease
  <2>. QED
    BY <2>1, <2>2
<1>3. lease' = [p \in Ports |-> IF p \in S THEN "draining" ELSE lease[p]]
  BY <1>2 DEF lease
<1>. QED
  BY <1>1, <1>3 DEF Leasing!Withdraw

LEMMA LeaseUnlink ==
  ASSUME IInv, NEW w \in Workers, NEW i \in Ids, Unlink(w, i), UNCHANGED sockets,
         \A s \in Sessions, p \in Ports : Reserves(s, p)' <=> Reserves(s, p)
  PROVE  [Leasing!Next]_lease
<1>1. CASE ~Live(i)
  BY <1>1, LeaseSame DEF Unlink, registry
<1>2. CASE Live(i)
  <2>. DEFINE S == {tunnels[i].port} \ {None}
  <2>1. S \in SUBSET Ports
    BY <1>2 DEF IInv, TypeOK, Live, Tunnel
  <2>2. \A p \in S : Serves(p)
    BY <1>2, NoneAssumption DEF IInv, IndexesAgree, Serves
  <2>3. \A p \in Ports : Serves(p)' <=> Serves(p) /\ p \notin S
    BY <1>2, NoneAssumption DEF Unlink, Serves
  <2>. HIDE DEF S
  <2>4. Leasing!Withdraw(S)
    BY <2>1, <2>2, <2>3, LeaseWithdraw
  <2>. QED
    BY <2>1, <2>4 DEF Leasing!Next
<1>. QED
  BY <1>1, <1>2

LEMMA LeaseCleanup ==
  ASSUME IInv, NEW s \in Sessions, Cleanup(s)
  PROVE  [Leasing!Next]_lease
<1>. DEFINE gone  == {i \in bySession[s] : Live(i)}
            ports == {tunnels[i].port : i \in gone} \ {None}
<1>1. ports \in SUBSET Ports
  BY DEF IInv, TypeOK, Live, Tunnel
<1>2. \A p \in ports : Serves(p)
  BY NoneAssumption DEF IInv, TypeOK, IndexesAgree, Serves
<1>3. \A p \in Ports : Serves(p)' <=> Serves(p) /\ p \notin ports
  BY DEF Cleanup, Serves
<1>4. /\ UNCHANGED sockets
      /\ \A r \in Sessions, p \in Ports : Reserves(r, p)' <=> Reserves(r, p)
  BY DEF Cleanup, edge, Reserves
<1>. HIDE DEF gone, ports
<1>5. Leasing!Withdraw(ports)
  BY <1>1, <1>2, <1>3, <1>4, LeaseWithdraw
<1>. QED
  BY <1>1, <1>5 DEF Leasing!Next

LEMMA LeaseAssign ==
  ASSUME IInv, NEW s \in Sessions, NEW p \in Ports, AssignPort(s, p)
  PROVE  [Leasing!Next]_lease
<1>1. /\ ctl' = [ctl EXCEPT ![s] = Frame("ported", ctl[s].id, ctl[s].name, p, None)]
      /\ ctl[s].at = "named" /\ sockets' = sockets \cup {p}
      /\ p \notin sockets /\ byPort' = byPort
  BY DEF AssignPort, registry
<1>2. \A r \in Sessions, q \in Ports :
        Reserves(r, q)' <=> Reserves(r, q) \/ (r = s /\ q = p)
  BY <1>1 DEF Reserves, Frame, IInv, TypeOK
<1>3. lease[p] = "free" /\ ~Serves(p)
  BY <1>1, LeaseValues DEF IInv, NoPortLeak
<1>4. \A q \in Ports : LeaseOf(q)' = IF q = p THEN "reserved" ELSE lease[q]
  BY <1>1, <1>2, <1>3 DEF LeaseOf, lease, Serves
<1>5. lease' = [lease EXCEPT ![p] = "reserved"]
  BY <1>4 DEF lease
<1>. QED
  BY <1>3, <1>5 DEF Leasing!Next, Leasing!Reserve

LEMMA LeaseInsert ==
  ASSUME IInv, NEW s \in Sessions, Insert(s)
  PROVE  [Leasing!Next]_lease
<1>. DEFINE f == ctl[s]
<1>1. /\ f.port \in Ports <=> f.at = "ported"
      /\ f.port \in Ports \cup {None} /\ f.id \in Ids
  BY NoneAssumption DEF IInv, TypeOK, Insert, Frames
<1>2. /\ byPort' = [p \in Ports |-> IF p = f.port THEN f.id ELSE byPort[p]]
      /\ ctl' = [ctl EXCEPT ![s] = At("idle")]
      /\ sockets' = sockets
  BY DEF Insert, edge
<1>3. \A p \in Ports : Serves(p)' <=> Serves(p) \/ Reserves(s, p)
  BY <1>1, <1>2, NoneAssumption DEF Serves, Reserves
<1>4. \A r \in Sessions, p \in Ports : Reserves(r, p)' <=> Reserves(r, p) /\ r # s
  BY <1>2 DEF IInv, TypeOK, Reserves, At, Frame
<1>5. CASE f.at # "ported"
  <2>1. \A p \in Ports : ~Reserves(s, p)
    BY <1>5 DEF Reserves
  <2>2. \A p \in Ports : LeaseOf(p)' = LeaseOf(p)
    BY <1>2, <1>3, <1>4, <2>1 DEF LeaseOf
  <2>. QED
    BY <2>2 DEF lease
<1>6. CASE f.at = "ported"
  <2>. DEFINE p == f.port
  <2>1. p \in Ports /\ Reserves(s, p) /\ \A q \in Ports : Reserves(s, q) => q = p
    BY <1>1, <1>6 DEF Reserves
  <2>. HIDE DEF p
  <2>2. lease[p] = "reserved"
    BY <2>1, LeaseValues
  <2>3. \A q \in Ports : LeaseOf(q)' = IF q = p THEN "serving" ELSE lease[q]
    BY <1>2, <1>3, <1>4, <2>1 DEF LeaseOf, lease
  <2>4. lease' = [lease EXCEPT ![p] = "serving"]
    BY <2>3 DEF lease
  <2>. QED
    BY <2>1, <2>2, <2>4 DEF Leasing!Next, Leasing!Publish
<1>. QED
  BY <1>5, <1>6

LEMMA LeaseClose ==
  ASSUME IInv, NEW w \in Workers, CloseListener(w)
  PROVE  [Leasing!Next]_lease
<1>. DEFINE p == shut[w]
<1>1. /\ p \in Ports /\ sockets' = sockets \ {p}
      /\ UNCHANGED <<byPort, ctl>>
  BY DEF CloseListener, registry, IInv, TypeOK
<1>2. Closes(w, p)
  BY DEF Closes
<1>. HIDE DEF p
<1>3. p \in sockets /\ p \notin listeners
  BY <1>1, <1>2 DEF IInv, NoPortLeak
<1>4. ~Serves(p) /\ \A s \in Sessions : ~Reserves(s, p)
  BY <1>1, <1>3 DEF IInv, NoPortLeak
<1>5. lease[p] = "draining"
  BY <1>1, <1>3, <1>4, LeaseValues
<1>6. \A q \in Ports : LeaseOf(q)' = IF q = p THEN "free" ELSE lease[q]
  BY <1>1, <1>4 DEF LeaseOf, lease, Serves, Reserves
<1>7. lease' = [lease EXCEPT ![p] = "free"]
  BY <1>6 DEF lease
<1>. QED
  BY <1>1, <1>5, <1>7 DEF Leasing!Next, Leasing!Free

LEMMA LeaseInit == Init => Leasing!Init
BY DEF Init, Leasing!Init, lease, LeaseOf, Serves, Reserves, At, Frame

LEMMA LeaseStep == IInv /\ [Next]_vars => [Leasing!Next]_lease
<1>. SUFFICES ASSUME IInv, [Next]_vars PROVE [Leasing!Next]_lease
  OBVIOUS
<1>. USE WorkerFacts
<1>0. ASSUME UNCHANGED <<registry, sockets, ctl>> PROVE UNCHANGED lease
  BY <1>0, LeaseSame DEF registry, Reserves
<1>1. ASSUME NEW s \in Sessions, NEW x, ctl' = [ctl EXCEPT ![s] = x],
             UNCHANGED <<registry, sockets>>, ctl[s].at # "ported", x.at # "ported"
      PROVE  UNCHANGED lease
  <2>1. \A r \in Sessions, p \in Ports : Reserves(r, p)' <=> Reserves(r, p)
    BY <1>1 DEF Reserves, IInv, TypeOK
  <2>. QED
    BY <1>1, <2>1, LeaseSame DEF registry
<1>2. CASE ReleaseNext
  <2>1. ASSUME NEW w \in Workers, CloseListener(w) PROVE [Leasing!Next]_lease
    BY <2>1, LeaseClose
  <2>2. ASSUME NEW w \in Workers, RemoveLimiter(w) \/ \E p \in Ports : UnlistPort(w, p)
        PROVE  UNCHANGED lease
    BY <1>0, <2>2 DEF RemoveLimiter, UnlistPort, edge
  <2>. QED
    BY <1>2, <2>1, <2>2 DEF ReleaseNext
<1>3. CASE SessionNext
  <2>. PICK s \in Sessions :
         \/ Connect(s) \/ Disconnect(s) \/ Cleanup(s) \/ CleanupDone(s)
         \/ OpenControl(s) \/ EndControl(s)
    BY <1>3 DEF SessionNext
  <2>1. CASE Cleanup(s)
    BY <2>1, LeaseCleanup
  <2>2. CASE Disconnect(s) \/ CleanupDone(s)
    BY <1>0, <2>2 DEF Disconnect, CleanupDone, edge
  <2>3. CASE Connect(s) \/ OpenControl(s) \/ EndControl(s)
    BY <1>1, <2>3 DEF Connect, OpenControl, EndControl, edge, At, Frame
  <2>. QED
    BY <2>1, <2>2, <2>3
<1>4. CASE RegisterNext
  <2>1. ASSUME NEW s \in Sessions, NEW i \in Ids, NEW n \in Names,
               ClaimName(s, i, n) \/ FindStale(s, i, n)
        PROVE  UNCHANGED lease
    BY <1>1, <2>1 DEF ClaimName, FindStale, edge, Frame
  <2>2. ASSUME NEW s \in Sessions, EvictStale(s) PROVE [Leasing!Next]_lease
    <3>1. /\ ctl' = [ctl EXCEPT ![s] = Frame("named", ctl[s].id, ctl[s].name, None, None)]
          /\ ctl[s].at = "evict" /\ ctl[s].victim \in Ids
          /\ UNCHANGED sockets
          /\ Unlink(Control(s), ctl[s].victim)
      BY <2>2 DEF EvictStale, edge, IInv, TypeOK, Frames
    <3>2. \A r \in Sessions, p \in Ports : Reserves(r, p)' <=> Reserves(r, p)
      BY <3>1 DEF Reserves, Frame, IInv, TypeOK
    <3>. QED
      BY <3>1, <3>2, LeaseUnlink
  <2>3. ASSUME NEW s \in Sessions, NEW p \in Ports, AssignPort(s, p)
        PROVE  [Leasing!Next]_lease
    BY <2>3, LeaseAssign
  <2>4. ASSUME NEW s \in Sessions, NoPortLeft(s) PROVE UNCHANGED lease
    <3>1. /\ ctl' = [ctl EXCEPT ![s] = At("idle")] /\ ctl[s].at = "named"
          /\ UNCHANGED <<registry, sockets>>
      BY <2>4 DEF NoPortLeft, edge
    <3>2. At("idle").at = "idle"
      BY DEF At, Frame
    <3>. QED
      BY <1>1, <3>1, <3>2
  <2>5. ASSUME NEW s \in Sessions, Insert(s) PROVE [Leasing!Next]_lease
    BY <2>5, LeaseInsert
  <2>6. ASSUME NEW s \in Sessions, NEW i \in Ids, CloseTunnel(s, i)
        PROVE  [Leasing!Next]_lease
    BY <2>6, LeaseUnlink DEF CloseTunnel, edge, Reserves
  <2>. QED
    BY <1>4, <2>1, <2>2, <2>3, <2>4, <2>5, <2>6 DEF RegisterNext
<1>5. CASE AdminNext
  <2>1. ASSUME NEW a \in Admins, NEW i \in Ids, DeregisterNext(a, i)
        PROVE  [Leasing!Next]_lease
    BY <2>1, LeaseUnlink DEF DeregisterNext, edge, Reserves
  <2>2. ASSUME NEW a \in Admins,
               \/ \E i \in Ids : ForceClose(a, i)
               \/ \E t \in Tokens : RevokeToken(a, t) \/ RevokeOnly(a, t)
               \/ ListByToken(a)
        PROVE  UNCHANGED lease
    BY <1>0, <2>2 DEF ForceClose, RevokeToken, RevokeOnly, ListByToken, edge
  <2>3. ASSUME NEW t \in Tokens, CreateToken(t) PROVE UNCHANGED lease
    BY <1>0, <2>3 DEF CreateToken, edge
  <2>. QED
    BY <1>5, <2>1, <2>2, <2>3 DEF AdminNext
<1>6. CASE RequestNext
  BY <1>0, <1>6 DEF RequestNext, UseLimiter, LookupTunnel, edge
<1>7. CASE UNCHANGED vars
  BY <1>0, <1>7 DEF vars, edge
<1>. QED
  BY <1>2, <1>3, <1>4, <1>5, <1>6, <1>7 DEF Next

(* The manager and the TCP edge implement the lease of ports: no port is   *)
(* given to a second tunnel before the first one's listener is closed.     *)
THEOREM RefinesPortLease == Spec => ImplementsPortLease
BY Invariant, LeaseInit, LeaseStep, PTL DEF Spec, ImplementsPortLease, Leasing!SafeSpec
=============================================================================
