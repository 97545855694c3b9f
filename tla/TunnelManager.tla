---------------------------- MODULE TunnelManager ----------------------------
(***************************************************************************)
(* The registry of active tunnels (internal/server/tunnel.go) with the     *)
(* goroutines that call it: the control loop and the cleanup of every SSH  *)
(* session (control.go), the admin handlers (admin.go, auth_handlers.go),  *)
(* the requests of the edges that touch a rate limiter (edge.go,           *)
(* tcpedge.go), and the port table of the TCP edge (tcpedge.go).           *)
(*                                                                         *)
(* An action is one lock section of the code together with the local work  *)
(* up to the next one, so every interleaving of lock sections is explored. *)
(*                                                                         *)
(* A tunnel ID, a session and a token stand for any value of their kind:   *)
(* one is used again only when no part of the state refers to it any more. *)
(* Accidental repetition of a six character ID drawn by crypto/rand is     *)
(* thereby left out.                                                       *)
(***************************************************************************)
CONSTANTS
  Sessions,   \* SSH sessions (a *Session value each)
  Tokens,     \* API token IDs
  TokenOf,    \* the token a session authenticated with
  Ids,        \* tunnel IDs
  Names,      \* subdomain names
  Ports,      \* the configured range portMin..portMax
  Admins,     \* goroutines serving admin requests
  Requests,   \* goroutines that hold a looked up tunnel and use its limiter
  None        \* absent entry, nil

Tunnel == [name: Names, port: Ports \cup {None}, session: Sessions]

ASSUME TokenOfAssumption == TokenOf \in [Sessions -> Tokens]
ASSUME NoneAssumption ==
  /\ None \notin Ids \cup Names \cup Ports \cup Tokens
  /\ None \notin Tunnel

VARIABLES
  tunnels,    \* tm.tunnels: ID -> entry
  byName,     \* tm.byName: name -> ID of the entry
  byPort,     \* tm.byPort: assigned port -> ID of the entry
  bySession,  \* tm.bySession: session -> set of IDs
  listeners,  \* TCPEdge.listeners: ports with an entry in the map
  sockets,    \* ports whose listening socket is still open in the kernel
  limiters,   \* RateLimiter.limiters: IDs with a limiter
  tokens,     \* valid tokens of the store
  conn,       \* the SSH connection and the cleanup goroutine of a session
  ctl,        \* the frame of the control loop of a session
  drop,       \* ports a goroutine collected and must still release
  shut,       \* a port whose map entry it deleted, before ln.Close()
  purge,      \* a tunnel it deregistered, before rateLimiter.Remove
  todo,       \* IDs an admin handler must still deregister
  revoking,   \* the token an admin handler deleted, before ListActive
  held        \* the tunnel an edge request looked up, before Allow

registry == <<tunnels, byName, byPort, bySession>>
releases == <<drop, shut, purge>>
edge     == <<listeners, sockets>>
admin    == <<todo, revoking>>
vars == <<registry, edge, limiters, tokens, conn, ctl, releases, admin, held>>

-----------------------------------------------------------------------------
(* The goroutines that call Deregister or DeregisterBySession. *)
Control(s) == <<"control", s>>
Cleaner(s) == <<"cleanup", s>>
Admin(a)   == <<"admin", a>>
Workers == ({"control", "cleanup"} \X Sessions) \cup ({"admin"} \X Admins)

Live(i)  == tunnels[i] # None
Owner(i) == TokenOf[tunnels[i].session]

(* A goroutine inside Deregister or DeregisterBySession, after the lock. *)
Busy(w) == drop[w] # {} \/ shut[w] # None \/ purge[w] # {}

(* The local variables of Register and of the loop around it. *)
Frame(at, i, n, p, v) == [at |-> at, id |-> i, name |-> n, port |-> p, victim |-> v]
At(at) == Frame(at, None, None, None, None)
Registering == {"evict", "named", "ported"}
Frames ==
  [at: {"none", "idle", "ended"}, id: {None}, name: {None}, port: {None}, victim: {None}]
  \cup [at: {"evict"}, id: Ids, name: Names, port: {None}, victim: Ids]
  \cup [at: {"named"}, id: Ids, name: Names, port: {None}, victim: {None}]
  \cup [at: {"ported"}, id: Ids, name: Names, port: Ports, victim: {None}]

(* An ID that generateUniqueID may return: absent from tunnels, and not    *)
(* one that some goroutine still has in hand.                              *)
FreshId(i) ==
  /\ ~Live(i)
  /\ \A s \in Sessions : ctl[s].id # i /\ ctl[s].victim # i
  /\ \A a \in Admins : i \notin todo[a]
  /\ \A w \in Workers : i \notin purge[w]
  /\ \A r \in Requests : held[r] # i

Init ==
  /\ tunnels = [i \in Ids |-> None]
  /\ byName = [n \in Names |-> None]
  /\ byPort = [p \in Ports |-> None]
  /\ bySession = [s \in Sessions |-> {}]
  /\ listeners = {} /\ sockets = {} /\ limiters = {}
  /\ tokens = Tokens
  /\ conn = [s \in Sessions |-> "off"]
  /\ ctl = [s \in Sessions |-> At("none")]
  /\ drop = [w \in Workers |-> {}]
  /\ shut = [w \in Workers |-> None]
  /\ purge = [w \in Workers |-> {}]
  /\ todo = [a \in Admins |-> {}]
  /\ revoking = [a \in Admins |-> None]
  /\ held = [r \in Requests |-> None]

-----------------------------------------------------------------------------
(* Deregister(id) called by goroutine w: the section under tm.mu. The port *)
(* and the limiter are released after the lock, by the actions below.      *)
Unlink(w, i) ==
  /\ ~Busy(w)
  /\ \/ ~Live(i) /\ UNCHANGED <<registry, drop, purge>>
     \/ /\ Live(i)
        /\ LET e == tunnels[i] IN
           /\ byName' = [byName EXCEPT ![e.name] = None]
           /\ byPort' = [p \in Ports |-> IF p = e.port THEN None ELSE byPort[p]]
           /\ bySession' = [bySession EXCEPT ![e.session] = @ \ {i}]
           /\ drop' = [drop EXCEPT ![w] = {e.port} \ {None}]
        /\ tunnels' = [tunnels EXCEPT ![i] = None]
        /\ purge' = [purge EXCEPT ![w] = {i}]

(* ReleasePort, under t.mu: the listener leaves the map ... *)
UnlistPort(w, p) ==
  /\ p \in drop[w] /\ shut[w] = None
  /\ drop' = [drop EXCEPT ![w] = @ \ {p}]
  /\ shut' = [shut EXCEPT ![w] = IF p \in listeners THEN p ELSE None]
  /\ listeners' = listeners \ {p}
  /\ UNCHANGED <<registry, sockets, limiters, tokens, conn, ctl, purge, admin, held>>

(* ... and is closed after the lock. *)
CloseListener(w) ==
  /\ shut[w] # None
  /\ sockets' = sockets \ {shut[w]}
  /\ shut' = [shut EXCEPT ![w] = None]
  /\ UNCHANGED <<registry, listeners, limiters, tokens, conn, ctl, drop, purge, admin, held>>

(* The end of Deregister: rateLimiter.Remove. *)
RemoveLimiter(w) ==
  /\ purge[w] # {} /\ drop[w] = {} /\ shut[w] = None
  /\ limiters' = limiters \ purge[w]
  /\ purge' = [purge EXCEPT ![w] = {}]
  /\ UNCHANGED <<registry, edge, tokens, conn, ctl, drop, shut, admin, held>>

-----------------------------------------------------------------------------
(* The life of an SSH session. *)

(* passwordCallback accepts the token, the session's goroutines start. *)
Connect(s) ==
  /\ conn[s] = "off" /\ ctl[s].at \in {"none", "ended"} /\ bySession[s] = {}
  /\ TokenOf[s] \in tokens
  /\ conn' = [conn EXCEPT ![s] = "open"]
  /\ ctl' = [ctl EXCEPT ![s] = At("none")]
  /\ UNCHANGED <<registry, edge, limiters, tokens, releases, admin, held>>

Disconnect(s) ==
  /\ conn[s] = "open"
  /\ conn' = [conn EXCEPT ![s] = "lost"]
  /\ UNCHANGED <<registry, edge, limiters, tokens, ctl, releases, admin, held>>

(* The control channel is accepted once per session, its loop started. *)
OpenControl(s) ==
  /\ conn[s] = "open" /\ ctl[s].at = "none"
  /\ ctl' = [ctl EXCEPT ![s] = At("idle")]
  /\ UNCHANGED <<registry, edge, limiters, tokens, conn, releases, admin, held>>

(* Decode fails: the channel was closed, by the client or with the session.*)
(* Messages read ahead of the loss are still served before that.           *)
EndControl(s) ==
  /\ ctl[s].at = "idle" /\ ~Busy(Control(s))
  /\ ctl' = [ctl EXCEPT ![s] = At("ended")]
  /\ UNCHANGED <<registry, edge, limiters, tokens, conn, releases, admin, held>>

(* Mutants: the cleanup forgets the port index, or to collect the ports.   *)
CleanupWith(s, ports, index) ==
  /\ conn[s] = "lost" /\ ~Busy(Cleaner(s))
  /\ conn' = [conn EXCEPT ![s] = "cleaning"]
  /\ tunnels' = [i \in Ids |-> IF i \in bySession[s] THEN None ELSE tunnels[i]]
  /\ byName' = [n \in Names |-> IF byName[n] \in bySession[s] THEN None ELSE byName[n]]
  /\ byPort' = index
  /\ drop' = [drop EXCEPT ![Cleaner(s)] = ports]
  /\ bySession' = [bySession EXCEPT ![s] = {}]
  /\ UNCHANGED <<edge, limiters, tokens, ctl, shut, purge, admin, held>>
PortsOf(s) == {p \in Ports : byPort[p] \in bySession[s]}
IndexWithout(s) == [p \in Ports |-> IF byPort[p] \in bySession[s] THEN None ELSE byPort[p]]
CleanupKeepsIndex(s) == CleanupWith(s, PortsOf(s), byPort)
CleanupKeepsPorts(s) == CleanupWith(s, {}, IndexWithout(s))

(* HandleChannels sees its channel closed: DeregisterBySession, the        *)
(* section under tm.mu. Rate limiters are not touched.                     *)
Cleanup(s) ==
  /\ conn[s] = "lost" /\ ~Busy(Cleaner(s))
  /\ conn' = [conn EXCEPT ![s] = "cleaning"]
  /\ LET gone == {i \in bySession[s] : Live(i)}
         names == {tunnels[i].name : i \in gone}
         ports == {tunnels[i].port : i \in gone} \ {None}
     IN /\ tunnels' = [i \in Ids |-> IF i \in gone THEN None ELSE tunnels[i]]
        /\ byName' = [n \in Names |-> IF n \in names THEN None ELSE byName[n]]
        /\ byPort' = [p \in Ports |-> IF p \in ports THEN None ELSE byPort[p]]
        /\ drop' = [drop EXCEPT ![Cleaner(s)] = ports]
  /\ bySession' = [bySession EXCEPT ![s] = {}]
  /\ UNCHANGED <<edge, limiters, tokens, ctl, shut, purge, admin, held>>

CleanupDone(s) ==
  /\ conn[s] = "cleaning" /\ ~Busy(Cleaner(s))
  /\ conn' = [conn EXCEPT ![s] = "off"]
  /\ UNCHANGED <<registry, edge, limiters, tokens, ctl, releases, admin, held>>

-----------------------------------------------------------------------------
(* Register, run by the control loop of session s. *)

(* The ID is drawn and the name found free, whether requested or generated.*)
ClaimName(s, i, n) ==
  /\ ctl[s].at = "idle" /\ ~Busy(Control(s))
  /\ FreshId(i) /\ byName[n] = None
  /\ ctl' = [ctl EXCEPT ![s] = Frame("named", i, n, None, None)]
  /\ UNCHANGED <<registry, edge, limiters, tokens, conn, releases, admin, held>>

(* Mutant: the token of the tunnel that has the name is not compared. *)
FindAnyone(s, i, n) ==
  /\ ctl[s].at = "idle" /\ ~Busy(Control(s))
  /\ FreshId(i) /\ byName[n] # None
  /\ ctl' = [ctl EXCEPT ![s] = Frame("evict", i, n, None, byName[n])]
  /\ UNCHANGED <<registry, edge, limiters, tokens, conn, releases, admin, held>>

(* The requested name is in use by a tunnel of the same token: that one is *)
(* the stale entry to remove. In use by another token, the request fails   *)
(* and changes nothing.                                                    *)
FindStale(s, i, n) ==
  /\ ctl[s].at = "idle" /\ ~Busy(Control(s))
  /\ FreshId(i) /\ byName[n] # None
  /\ Owner(byName[n]) = TokenOf[s]
  /\ ctl' = [ctl EXCEPT ![s] = Frame("evict", i, n, None, byName[n])]
  /\ UNCHANGED <<registry, edge, limiters, tokens, conn, releases, admin, held>>

(* Mutant: the eviction waits until the stale tunnel is there. *)
EvictLive(s) ==
  /\ ctl[s].at = "evict" /\ Live(ctl[s].victim)
  /\ Unlink(Control(s), ctl[s].victim)
  /\ ctl' = [ctl EXCEPT ![s] = Frame("named", @.id, @.name, None, None)]
  /\ UNCHANGED <<edge, limiters, tokens, conn, shut, admin, held>>

EvictStale(s) ==
  /\ ctl[s].at = "evict"
  /\ Unlink(Control(s), ctl[s].victim)
  /\ ctl' = [ctl EXCEPT ![s] = Frame("named", @.id, @.name, None, None)]
  /\ UNCHANGED <<edge, limiters, tokens, conn, shut, admin, held>>

(* AssignPort, under t.mu: any port that is not in the map and that        *)
(* net.Listen can bind; another program may hold lower ones.               *)
AssignPort(s, p) ==
  /\ ctl[s].at = "named" /\ ~Busy(Control(s))
  /\ p \notin listeners /\ p \notin sockets
  /\ listeners' = listeners \cup {p}
  /\ sockets' = sockets \cup {p}
  /\ ctl' = [ctl EXCEPT ![s] = Frame("ported", @.id, @.name, p, None)]
  /\ UNCHANGED <<registry, limiters, tokens, conn, releases, admin, held>>

(* The range is exhausted, every free port of it is held elsewhere, or no  *)
(* TCP edge is configured: the request fails, after any eviction.          *)
NoPortLeft(s) ==
  /\ ctl[s].at = "named" /\ ~Busy(Control(s))
  /\ ctl' = [ctl EXCEPT ![s] = At("idle")]
  /\ UNCHANGED <<registry, edge, limiters, tokens, conn, releases, admin, held>>

(* Mutant: the port of a TCP tunnel is not indexed. *)
InsertUnindexed(s) ==
  /\ ctl[s].at \in {"named", "ported"} /\ ~Busy(Control(s))
  /\ LET f == ctl[s] IN
     /\ tunnels' = [tunnels EXCEPT ![f.id] = [name |-> f.name, port |-> f.port, session |-> s]]
     /\ byName' = [byName EXCEPT ![f.name] = f.id]
     /\ bySession' = [bySession EXCEPT ![s] = @ \cup {f.id}]
  /\ ctl' = [ctl EXCEPT ![s] = At("idle")]
  /\ UNCHANGED <<byPort, edge, limiters, tokens, conn, releases, admin, held>>

(* The entry is inserted under tm.mu, a "tcp" one with its port; an "http" *)
(* one comes here without.                                                 *)
Insert(s) ==
  /\ ctl[s].at \in {"named", "ported"} /\ ~Busy(Control(s))
  /\ LET f == ctl[s] IN
     /\ tunnels' = [tunnels EXCEPT ![f.id] = [name |-> f.name, port |-> f.port, session |-> s]]
     /\ byName' = [byName EXCEPT ![f.name] = f.id]
     /\ byPort' = [p \in Ports |-> IF p = f.port THEN f.id ELSE byPort[p]]
     /\ bySession' = [bySession EXCEPT ![s] = @ \cup {f.id}]
  /\ ctl' = [ctl EXCEPT ![s] = At("idle")]
  /\ UNCHANGED <<edge, limiters, tokens, conn, releases, admin, held>>

(* handleTunnelClose. *)
CloseTunnel(s, i) ==
  /\ ctl[s].at = "idle"
  /\ Live(i) /\ Unlink(Control(s), i)
  /\ UNCHANGED <<edge, limiters, tokens, conn, ctl, shut, admin, held>>

-----------------------------------------------------------------------------
(* The admin handlers. *)
IdleAdmin(a) == todo[a] = {} /\ revoking[a] = None /\ ~Busy(Admin(a))

(* handleDeleteTunnelByID finds the tunnel; Deregister comes later. (Given *)
(* a name, Lookup succeeds but Deregister finds no such ID: no change.)    *)
ForceClose(a, i) ==
  /\ IdleAdmin(a) /\ Live(i)
  /\ todo' = [todo EXCEPT ![a] = {i}]
  /\ UNCHANGED <<registry, edge, limiters, tokens, conn, ctl, releases, revoking, held>>

(* handleDeleteTokenAuth: the store forgets the token ... *)
RevokeToken(a, t) ==
  /\ IdleAdmin(a) /\ t \in tokens
  /\ tokens' = tokens \ {t}
  /\ revoking' = [revoking EXCEPT ![a] = t]
  /\ UNCHANGED <<registry, edge, limiters, conn, ctl, releases, todo, held>>

(* ... ListActive gives a copy of the tunnels of that moment ... *)
ListByToken(a) ==
  /\ revoking[a] # None
  /\ todo' = [todo EXCEPT ![a] = {i \in Ids : Live(i) /\ Owner(i) = revoking[a]}]
  /\ revoking' = [revoking EXCEPT ![a] = None]
  /\ UNCHANGED <<registry, edge, limiters, tokens, conn, ctl, releases, held>>

(* ... and the token's are deregistered one by one. *)
DeregisterNext(a, i) ==
  /\ i \in todo[a]
  /\ Unlink(Admin(a), i)
  /\ todo' = [todo EXCEPT ![a] = @ \ {i}]
  /\ UNCHANGED <<edge, limiters, tokens, conn, ctl, shut, revoking, held>>

(* The dashboard's handleTokenAction and the command line's token revoke   *)
(* stop here: no tunnel is disconnected.                                   *)
RevokeOnly(a, t) ==
  /\ IdleAdmin(a) /\ t \in tokens
  /\ tokens' = tokens \ {t}
  /\ UNCHANGED <<registry, edge, limiters, conn, ctl, releases, admin, held>>

(* A token that nothing refers to any more may stand for a new one. *)
CreateToken(t) ==
  /\ t \notin tokens
  /\ \A s \in Sessions : TokenOf[s] = t =>
       conn[s] = "off" /\ ctl[s].at \in {"none", "ended"} /\ bySession[s] = {}
  /\ \A a \in Admins : revoking[a] # t
  /\ tokens' = tokens \cup {t}
  /\ UNCHANGED <<registry, edge, limiters, conn, ctl, releases, admin, held>>

-----------------------------------------------------------------------------
(* An edge request or PUT ratelimit: the tunnel is looked up, its limiter  *)
(* is used, and so created, without a lock in between.                     *)
LookupTunnel(r, i) ==
  /\ held[r] = None /\ Live(i)
  /\ held' = [held EXCEPT ![r] = i]
  /\ UNCHANGED <<registry, edge, limiters, tokens, conn, ctl, releases, admin>>

UseLimiter(r) ==
  /\ held[r] # None
  /\ limiters' = limiters \cup {held[r]}
  /\ held' = [held EXCEPT ![r] = None]
  /\ UNCHANGED <<registry, edge, tokens, conn, ctl, releases, admin>>

-----------------------------------------------------------------------------
ReleaseNext ==
  \E w \in Workers :
    \/ \E p \in Ports : UnlistPort(w, p)
    \/ CloseListener(w) \/ RemoveLimiter(w)
SessionNext ==
  \E s \in Sessions :
    \/ Connect(s) \/ Disconnect(s) \/ Cleanup(s) \/ CleanupDone(s)
    \/ OpenControl(s) \/ EndControl(s)
RegisterNext ==
  \E s \in Sessions :
    \/ \E i \in Ids, n \in Names : ClaimName(s, i, n) \/ FindStale(s, i, n)
    \/ \E p \in Ports : AssignPort(s, p)
    \/ \E i \in Ids : CloseTunnel(s, i)
    \/ EvictStale(s) \/ NoPortLeft(s) \/ Insert(s)
AdminNext ==
  \/ \E a \in Admins :
       \/ \E i \in Ids : ForceClose(a, i) \/ DeregisterNext(a, i)
       \/ \E t \in Tokens : RevokeToken(a, t) \/ RevokeOnly(a, t)
       \/ ListByToken(a)
  \/ \E t \in Tokens : CreateToken(t)
RequestNext ==
  \E r \in Requests : UseLimiter(r) \/ \E i \in Ids : LookupTunnel(r, i)

Next == ReleaseNext \/ SessionNext \/ RegisterNext \/ AdminNext \/ RequestNext
Spec == Init /\ [][Next]_vars

(* Every goroutine that can run does. Clients, operators and visitors need *)
(* not act: no fairness for their actions.                                 *)
Fairness ==
  /\ \A w \in Workers :
       /\ WF_vars(\E p \in Ports : UnlistPort(w, p))
       /\ WF_vars(CloseListener(w))
       /\ WF_vars(RemoveLimiter(w))
  /\ \A s \in Sessions :
       /\ WF_vars(Cleanup(s))
       /\ WF_vars(CleanupDone(s))
       /\ WF_vars(EvictStale(s))
       /\ WF_vars(Insert(s) \/ NoPortLeft(s) \/ \E p \in Ports : AssignPort(s, p))
  /\ \A a \in Admins :
       /\ WF_vars(ListByToken(a))
       /\ WF_vars(\E i \in Ids : DeregisterNext(a, i))
FairSpec == Spec /\ Fairness

-----------------------------------------------------------------------------
(* Type correctness of the whole state. *)
TypeOK ==
  /\ tunnels \in [Ids -> Tunnel \cup {None}]
  /\ byName \in [Names -> Ids \cup {None}]
  /\ byPort \in [Ports -> Ids \cup {None}]
  /\ bySession \in [Sessions -> SUBSET Ids]
  /\ listeners \subseteq Ports /\ sockets \subseteq Ports
  /\ limiters \subseteq Ids /\ tokens \subseteq Tokens
  /\ conn \in [Sessions -> {"off", "open", "lost", "cleaning"}]
  /\ ctl \in [Sessions -> Frames]
  /\ drop \in [Workers -> SUBSET Ports]
  /\ shut \in [Workers -> Ports \cup {None}]
  /\ purge \in [Workers -> SUBSET Ids]
  /\ todo \in [Admins -> SUBSET Ids]
  /\ revoking \in [Admins -> Tokens \cup {None}]
  /\ held \in [Requests -> Ids \cup {None}]

(* Who answers for a port that is in TCPEdge.listeners. *)
Serves(p)      == byPort[p] # None
Reserves(s, p) == ctl[s].at = "ported" /\ ctl[s].port = p
Drains(w, p)   == p \in drop[w]
Closes(w, p)   == shut[w] = p

(* The four maps of the manager never disagree, although they are written  *)
(* by the control loops, the session cleanups and the admin handlers: a    *)
(* name or a port leads to a live tunnel that has it, every live TCP       *)
(* tunnel is found by its port, and a session's set is exactly the set of  *)
(* its live tunnels. (A live tunnel need not be found by its name.)        *)
IndexesAgree ==
  /\ \A n \in Names : byName[n] # None =>
       Live(byName[n]) /\ tunnels[byName[n]].name = n
  /\ \A p \in Ports : byPort[p] # None =>
       Live(byPort[p]) /\ tunnels[byPort[p]].port = p
  /\ \A i \in Ids : Live(i) /\ tunnels[i].port # None => byPort[tunnels[i].port] = i
  /\ \A s \in Sessions, i \in Ids :
       i \in bySession[s] <=> Live(i) /\ tunnels[i].session = s

(* A port has one holder at a time: a live tunnel, the registration that   *)
(* was assigned it, or the goroutine that is to release it. Otherwise one  *)
(* of them would close the listener of another (Deregister and             *)
(* DeregisterBySession call ReleasePort after tm.mu is unlocked).          *)
OneHolder ==
  /\ \A p \in Ports, s \in Sessions : Reserves(s, p) =>
       /\ ~Serves(p)
       /\ \A r \in Sessions : Reserves(r, p) => r = s
       /\ \A w \in Workers : ~Drains(w, p)
  /\ \A p \in Ports, w \in Workers : Drains(w, p) =>
       /\ ~Serves(p)
       /\ \A v \in Workers : Drains(v, p) => v = w

(* No listener leaks and none is closed under its holder: the map holds    *)
(* exactly the ports that someone answers for, and a socket outside the    *)
(* map is about to be closed by exactly one goroutine (ReleasePort deletes *)
(* the entry under t.mu and closes the listener after).                    *)
NoPortLeak ==
  /\ \A p \in Ports : p \in listeners <=>
       \/ Serves(p)
       \/ \E s \in Sessions : Reserves(s, p)
       \/ \E w \in Workers : Drains(w, p)
  /\ \A p \in Ports : p \in sockets <=> p \in listeners \/ \E w \in Workers : Closes(w, p)
  /\ \A p \in Ports, w \in Workers : Closes(w, p) =>
       /\ p \notin listeners
       /\ \A v \in Workers : Closes(v, p) => v = w

(* Register decides under RLock that the holder of the name is a stale     *)
(* tunnel of the same token, and deregisters it in a later lock section:   *)
(* by then it still belongs to that token, or is gone.                     *)
EvictsOwnToken ==
  \A s \in Sessions : ctl[s].at = "evict" /\ Live(ctl[s].victim) =>
    Owner(ctl[s].victim) = TokenOf[s]

(* The ID of a registration in progress is not that of a live tunnel, of   *)
(* another registration, nor of a tunnel about to be evicted.              *)
IdsReserved ==
  \A s \in Sessions : ctl[s].at \in Registering =>
    /\ ~Live(ctl[s].id)
    /\ \A r \in Sessions : ctl[r].id = ctl[s].id => r = s
    /\ \A r \in Sessions : ctl[r].victim # ctl[s].id

(* The inductive invariant of the proofs: all of the above. *)
IInv == TypeOK /\ IndexesAgree /\ IdsReserved /\ OneHolder /\ NoPortLeak /\ EvictsOwnToken

(* The port table implements the abstract lease of ports. *)
LeaseOf(p) ==
  IF Serves(p) THEN "serving"
  ELSE IF \E s \in Sessions : Reserves(s, p) THEN "reserved"
  ELSE IF p \in sockets THEN "draining"
  ELSE "free"
lease == [p \in Ports |-> LeaseOf(p)]
Leasing == INSTANCE PortLease WITH Ports <- Ports, lease <- lease
ImplementsPortLease == Leasing!SafeSpec
ImplementsFairPortLease == Leasing!Spec

(* A registration never gets stuck: it inserts its tunnel or is refused,   *)
(* and the control loop reads the next message, whatever the others do.    *)
RegisterReturns == \A s \in Sessions : ctl[s].at \in Registering ~> ctl[s].at = "idle"

(* tunnel.go:106: a requested name is "checked for uniqueness". It does    *)
(* not hold: as an invariant of MCTunnelManager_safety it is violated, as  *)
(* is RevocationDisconnects.                                               *)
NamesUnique ==
  \A i, j \in Ids : Live(i) /\ Live(j) /\ tunnels[i].name = tunnels[j].name => i = j

(* tunnel.go:275: DeregisterBySession "removes all tunnels owned by the    *)
(* given session", "on client disconnect to clean up resources".           *)
CleanupRemovesAll == \A s \in Sessions : conn[s] = "off" => bySession[s] = {}

(* CON-002:241: revoking a token disconnects any active tunnel using it.   *)
RevocationDisconnects ==
  (\A a \in Admins : IdleAdmin(a)) =>
    \A i \in Ids : Live(i) => Owner(i) \in tokens
=============================================================================
