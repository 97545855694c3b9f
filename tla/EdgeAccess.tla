------------------------------ MODULE EdgeAccess ------------------------------
(***************************************************************************)
(* Who gets to a tunnel: visitors that pass the rate limiter and the ACL   *)
(* of a tunnel, over HTTP (internal/server/edge.go, handleRequest) or TCP  *)
(* (tcpedge.go, handleConnection), while administrators close the tunnel   *)
(* or change its limit and its ACL (admin.go, handleTunnelSubRoutes) and   *)
(* its session ends and registers again. Each visitor and each             *)
(* administrator is a goroutine; the limiters are in a sync.Map            *)
(* (ratelimit.go), and an entry's ACL is a field without a lock.           *)
(*                                                                         *)
(* An entry stands for its tunnel ID, which is fresh. Names are unique     *)
(* among live entries here: module TunnelManager has the registry, and     *)
(* where they are not.                                                     *)
(***************************************************************************)
EXTENDS FiniteSets
CONSTANTS Visitors, Admins, Entries, Names, Addresses, ACLs, Limits, None

ASSUME SortsAssumption ==
  /\ Visitors \cap Admins = {} /\ Entries \cap Names = {}
  /\ None \notin Visitors \cup Admins \cup Entries \cup Names \cup Limits \cup ACLs
  /\ ACLs \subseteq [mode: {"allow", "deny"}, cidrs: SUBSET Addresses]

Workers == Visitors \cup Admins

(* What a URL or, by extractSubdomain, a Host header may name. *)
Keys == Entries \cup Names

VARIABLES
  name,     \* the name of each entry registered so far
  live,     \* entries in the tunnel manager's maps
  acl,      \* TunnelEntry.ACL
  limiter,  \* RateLimiter.limiters: a limiter is known by who created it
  setting,  \* the rate and burst of each limiter; None for the defaults
  purge,    \* evicted tunnels whose limiter is still to be removed
  visitor,
  admin

registry == <<name, live, purge>>
limits   == <<limiter, setting>>
vars     == <<registry, acl, limits, visitor, admin>>

Default == [rate |-> None, burst |-> None]
NoVisit == [at |-> "idle", kind |-> None, ip |-> None, entry |-> None, acl |-> None,
            lim |-> None, told |-> {}]
NoOrder == [at |-> "idle", op |-> None, key |-> None, entry |-> None, arg |-> None, lim |-> None]

Init ==
  /\ name = [e \in Entries |-> None] /\ live = {} /\ purge = {}
  /\ acl = [e \in Entries |-> None]
  /\ limiter = [k \in Keys |-> None] /\ setting = [w \in Workers |-> Default]
  /\ visitor = [v \in Visitors |-> NoVisit]
  /\ admin = [a \in Admins |-> NoOrder]

(* By ID, then by name. *)
Lookup(key) == {e \in live : e = key \/ name[e] = key}

(* ACL.Check; an empty list and a missing ACL allow everyone. *)
Check(list, ip) ==
  \/ list = None \/ list.cidrs = {}
  \/ list.mode = "allow" /\ ip \in list.cidrs
  \/ list.mode = "deny" /\ ip \notin list.cidrs

-----------------------------------------------------------------------------
(* The registry: a tunnel is registered, is evicted by its owner's next    *)
(* registration (Deregister, then rateLimiter.Remove), or ends with its    *)
(* session (which leaves the limiter).                                     *)
Register(e, n) ==
  /\ name[e] = None /\ \A o \in live : name[o] # n
  /\ name' = [name EXCEPT ![e] = n] /\ live' = live \cup {e}
  /\ UNCHANGED <<purge, acl, limits, visitor, admin>>

Evict(e) ==
  /\ e \in live
  /\ live' = live \ {e} /\ purge' = purge \cup {e}
  /\ UNCHANGED <<name, acl, limits, visitor, admin>>

RemoveLimiter(e) ==
  /\ e \in purge
  /\ purge' = purge \ {e} /\ limiter' = [limiter EXCEPT ![e] = None]
  /\ UNCHANGED <<name, live, acl, setting, visitor, admin>>

EndSession(e) ==
  /\ e \in live /\ live' = live \ {e}
  /\ UNCHANGED <<name, purge, acl, limits, visitor, admin>>

-----------------------------------------------------------------------------
(* getOrCreate, for a worker w that wants the limiter of key: Load, and,   *)
(* if there is none, LoadOrStore of a new one. Its result is got.          *)
Load(key, got) == limiter[key] # None /\ got = limiter[key] /\ UNCHANGED limits

(* Mutant: Store. *)
Store(w, key, got) ==
  /\ got = w /\ limiter' = [limiter EXCEPT ![key] = w]
  /\ UNCHANGED setting

LoadOrStore(w, key, got) ==
  /\ got = IF limiter[key] = None THEN w ELSE limiter[key]
  /\ limiter' = [limiter EXCEPT ![key] = got]
  /\ UNCHANGED setting

(* A visitor that is refused. *)
Refused(v, answer) == visitor' = [visitor EXCEPT ![v] = [NoVisit EXCEPT !.at = answer]]

(* What is done: the answers administrators were given before a visitor    *)
(* comes.                                                                  *)
Told == {a \in Admins : admin[a].at = "ok"}

(* handleRequest up to the limiter. A host without a known subdomain is    *)
(* the dashboard's.                                                        *)
Arrive(v, ip, key) ==
  /\ visitor[v].at = "idle"
  /\ IF Lookup(key) = {}
     THEN Refused(v, "404")
     ELSE \E e \in Lookup(key) :
            visitor' = [visitor EXCEPT ![v] =
              [NoVisit EXCEPT !.at = "load", !.kind = "http", !.ip = ip, !.entry = e,
                              !.told = Told]]
  /\ UNCHANGED <<registry, acl, limits, admin>>

(* handleConnection looks its tunnel up by port, in a copy of the entries. *)
Connect(v, ip, e) ==
  /\ visitor[v].at = "idle" /\ e \in live
  /\ visitor' = [visitor EXCEPT ![v] =
       [NoVisit EXCEPT !.at = "load", !.kind = "tcp", !.ip = ip, !.entry = e,
                       !.acl = acl[e], !.told = Told]]
  /\ UNCHANGED <<registry, acl, limits, admin>>

(* RateLimiter.Allow. *)
LoadLimiter(v) ==
  /\ visitor[v].at = "load"
  /\ \/ \E got \in Workers :
          /\ Load(visitor[v].entry, got)
          /\ visitor' = [visitor EXCEPT ![v].at = "allow", ![v].lim = got]
     \/ /\ limiter[visitor[v].entry] = None
        /\ visitor' = [visitor EXCEPT ![v].at = "create"]
        /\ UNCHANGED limits
  /\ UNCHANGED <<registry, acl, admin>>

CreateLimiter(v) ==
  /\ visitor[v].at = "create"
  /\ \E got \in Workers :
       /\ LoadOrStore(v, visitor[v].entry, got)
       /\ visitor' = [visitor EXCEPT ![v].at = "allow", ![v].lim = got]
  /\ UNCHANGED <<registry, acl, admin>>

(* A token is left in the bucket, or not. *)
Allow(v) ==
  /\ visitor[v].at = "allow"
  /\ \/ visitor' = [visitor EXCEPT ![v].at = "acl", ![v].lim = None]
     \/ Refused(v, "429")
  /\ UNCHANGED <<registry, acl, limits, admin>>

(* Over HTTP the entry's ACL is read now; over TCP it was copied. *)
CheckACL(v) ==
  LET list == IF visitor[v].kind = "http" THEN acl[visitor[v].entry] ELSE visitor[v].acl IN
  /\ visitor[v].at = "acl"
  /\ IF Check(list, visitor[v].ip)
     THEN visitor' = [visitor EXCEPT ![v].at = "open"]
     ELSE Refused(v, "403")
  /\ UNCHANGED <<registry, acl, limits, admin>>

(* The channel to the client; over HTTP the tunnel is looked up again. *)
Open(v) ==
  /\ visitor[v].at = "open"
  /\ \/ /\ visitor[v].kind = "tcp" \/ visitor[v].entry \in live
        /\ visitor' = [visitor EXCEPT ![v].at = "proxied"]
     \/ Refused(v, "502")
  /\ UNCHANGED <<registry, acl, limits, admin>>

-----------------------------------------------------------------------------
(* handleTunnelSubRoutes and its handlers. They look the tunnel up by its  *)
(* ID or its name.                                                         *)
Ask(a, op, key, arg) ==
  /\ admin[a].at = "idle"
  /\ \/ \E e \in Lookup(key) :
          admin' = [admin EXCEPT ![a] = [NoOrder EXCEPT !.at = op, !.op = op, !.key = key,
                                                        !.entry = e, !.arg = arg]]
     \/ /\ Lookup(key) = {}
        /\ admin' = [admin EXCEPT ![a] = [NoOrder EXCEPT !.at = "404"]]
  /\ UNCHANGED <<registry, acl, limits, visitor>>

(* The body of a PUT is not valid. *)
Refuse(a) ==
  /\ admin[a].at \in {"limit", "acl"}
  /\ admin' = [admin EXCEPT ![a] = [NoOrder EXCEPT !.at = "400"]]
  /\ UNCHANGED <<registry, acl, limits, visitor>>

(* Mutant: only the limiter is cleaned up. *)
DeleteKeepsEntry(a) ==
  /\ admin[a].at = "delete"
  /\ admin' = [admin EXCEPT ![a].at = "purge"]
  /\ UNCHANGED <<registry, acl, limits, visitor>>

(* Deregister, which knows tunnels by ID only. *)
Delete(a) ==
  /\ admin[a].at = "delete"
  /\ \/ /\ admin[a].key \in live
        /\ live' = live \ {admin[a].key}
        /\ admin' = [admin EXCEPT ![a].at = "purge"]
     \/ /\ admin[a].key \notin live
        /\ admin' = [admin EXCEPT ![a].at = "ok"]
        /\ UNCHANGED live
  /\ UNCHANGED <<name, purge, acl, limits, visitor>>

DeleteLimiter(a) ==
  /\ admin[a].at = "purge"
  /\ limiter' = [limiter EXCEPT ![admin[a].key] = None]
  /\ admin' = [admin EXCEPT ![a].at = "ok"]
  /\ UNCHANGED <<registry, acl, setting, visitor>>

(* handleSetRateLimit, with the key as it was sent: the limiter is found   *)
(* or created, and its rate and its burst are set one after the other.     *)
FindLimiter(a) ==
  /\ admin[a].at = "limit"
  /\ \/ \E got \in Workers :
          /\ Load(admin[a].key, got)
          /\ admin' = [admin EXCEPT ![a].at = "rate", ![a].lim = got]
     \/ /\ limiter[admin[a].key] = None
        /\ admin' = [admin EXCEPT ![a].at = "create"]
        /\ UNCHANGED limits
  /\ UNCHANGED <<registry, acl, visitor>>

MakeLimiter(a) ==
  /\ admin[a].at = "create"
  /\ \E got \in Workers :
       /\ LoadOrStore(a, admin[a].key, got)
       /\ admin' = [admin EXCEPT ![a].at = "rate", ![a].lim = got]
  /\ UNCHANGED <<registry, acl, visitor>>

SetLimit(a) ==
  /\ \/ /\ admin[a].at = "rate"
        /\ setting' = [setting EXCEPT ![admin[a].lim].rate = admin[a].arg]
        /\ admin' = [admin EXCEPT ![a].at = "burst"]
     \/ /\ admin[a].at = "burst"
        /\ setting' = [setting EXCEPT ![admin[a].lim].burst = admin[a].arg]
        /\ admin' = [admin EXCEPT ![a].at = "ok"]
  /\ UNCHANGED <<registry, acl, limiter, visitor>>

(* Mutant: the entry that was looked up is a copy. *)
SetACLOfCopy(a) ==
  /\ admin[a].at = "acl"
  /\ admin' = [admin EXCEPT ![a].at = "ok"]
  /\ UNCHANGED <<registry, acl, limits, visitor>>

SetACL(a) ==
  /\ admin[a].at = "acl"
  /\ acl' = [acl EXCEPT ![admin[a].entry] = admin[a].arg]
  /\ admin' = [admin EXCEPT ![a].at = "ok"]
  /\ UNCHANGED <<registry, limits, visitor>>

DeleteACL(a) ==
  /\ admin[a].at = "noacl"
  /\ acl' = [acl EXCEPT ![admin[a].entry] = None]
  /\ admin' = [admin EXCEPT ![a].at = "ok"]
  /\ UNCHANGED <<registry, limits, visitor>>

-----------------------------------------------------------------------------
Visit(v) ==
  \/ LoadLimiter(v) \/ CreateLimiter(v) \/ Allow(v) \/ CheckACL(v) \/ Open(v)
  \/ \E ip \in Addresses, key \in Keys : Arrive(v, ip, key)
  \/ \E ip \in Addresses, e \in Entries : Connect(v, ip, e)

Order(a) ==
  \/ Refuse(a) \/ Delete(a) \/ DeleteLimiter(a) \/ FindLimiter(a) \/ MakeLimiter(a)
  \/ SetLimit(a) \/ SetACL(a) \/ DeleteACL(a)
  \/ \E key \in Keys :
       \/ \E op \in {"delete", "noacl"} : Ask(a, op, key, None)
       \/ \E l \in Limits : Ask(a, "limit", key, l)
       \/ \E l \in ACLs : Ask(a, "acl", key, l)

Next ==
  \/ \E v \in Visitors : Visit(v)
  \/ \E a \in Admins : Order(a)
  \/ \E e \in Entries :
       Evict(e) \/ RemoveLimiter(e) \/ EndSession(e) \/ \E n \in Names : Register(e, n)
Spec == Init /\ [][Next]_vars

-----------------------------------------------------------------------------
(* Type correctness: a goroutine at a place has what it needs there. *)
VisitRecord ==
  {r \in [at: {"idle", "load", "create", "allow", "acl", "open", "proxied",
               "404", "429", "403", "502"},
          kind: {None, "http", "tcp"}, ip: Addresses \cup {None}, entry: Entries \cup {None},
          acl: ACLs \cup {None}, lim: Workers \cup {None}, told: SUBSET Admins] :
     /\ r.at \in {"load", "create", "allow", "acl", "open", "proxied"} => r.entry \in Entries
     /\ r.at = "allow" => r.lim \in Workers}

OrderRecord ==
  {r \in [at: {"idle", "delete", "purge", "limit", "create", "rate", "burst", "acl", "noacl",
               "ok", "404", "400"},
          op: {"delete", "limit", "acl", "noacl", None}, key: Keys \cup {None},
          entry: Entries \cup {None}, arg: Limits \cup ACLs \cup {None},
          lim: Workers \cup {None}] :
     /\ r.at \notin {"idle", "404", "400"} =>
          r.key \in Keys /\ r.entry \in Entries
     /\ r.at \in {"limit", "create", "rate", "burst"} => r.op = "limit" /\ r.arg \in Limits
     /\ r.at \in {"delete", "purge"} => r.op = "delete"
     /\ r.at = "acl" => r.op = "acl" /\ r.arg \in ACLs
     /\ r.at = "noacl" => r.op = "noacl"
     /\ r.at \in {"rate", "burst"} => r.lim \in Workers}

TypeOK ==
  /\ name \in [Entries -> Names \cup {None}]
  /\ live \subseteq Entries /\ purge \subseteq Entries \ live
  /\ \A e \in live \cup purge : name[e] # None
  /\ acl \in [Entries -> ACLs \cup {None}]
  /\ limiter \in [Keys -> Workers \cup {None}]
  /\ setting \in [Workers -> [rate: Limits \cup {None}, burst: Limits \cup {None}]]
  /\ visitor \in [Visitors -> VisitRecord]
  /\ admin \in [Admins -> OrderRecord]

(* The only order of this kind for the tunnel. *)
Alone(a, ops) ==
  \A b \in Admins \ {a} :
    ~(admin[b].op \in ops /\ (admin[b].entry = admin[a].entry \/ admin[b].key = admin[a].key))

(* A limit that an administrator was told is set for a tunnel's ID is the  *)
(* one its limiter has, rate and burst, for as long as the tunnel lives:   *)
(* no request that creates the limiter at the same time brings the         *)
(* defaults back, and no cleanup of another tunnel removes it.             *)
LimitEnforced ==
  \A a \in Admins :
    admin[a].op = "limit" /\ admin[a].at = "ok" /\ admin[a].key \in live
      /\ Alone(a, {"limit"}) =>
        /\ limiter[admin[a].key] # None
        /\ setting[limiter[admin[a].key]] = [rate |-> admin[a].arg, burst |-> admin[a].arg]

(* A visitor that comes after an administrator was told of the tunnel's    *)
(* ACL, given by ID or name, reaches the tunnel only if the list allows    *)
(* its address. The next registration of the name starts without a list.   *)
AclEnforced ==
  \A v \in Visitors :
    visitor[v].at = "proxied" =>
      \A a \in visitor[v].told :
        admin[a].op = "acl" /\ admin[a].entry = visitor[v].entry /\ Alone(a, {"acl", "noacl"})
          => Check(admin[a].arg, visitor[v].ip)

(* A visitor that comes after an administrator was told that a tunnel is   *)
(* closed, by its ID, does not reach it, over HTTP or over TCP.            *)
DeleteEnforced ==
  \A v \in Visitors :
    visitor[v].at = "proxied" =>
      \A a \in visitor[v].told : admin[a].op = "delete" => admin[a].key # visitor[v].entry
=============================================================================
