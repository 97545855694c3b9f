--------------------------- MODULE EdgeAccessProofs ---------------------------
(***************************************************************************)
(* Proofs about EdgeAccess, for any sets of visitors, administrators,      *)
(* tunnels, names, addresses, lists and limits.                            *)
(***************************************************************************)
EXTENDS EdgeAccess, TLAPS

-----------------------------------------------------------------------------
(* Closed tunnels. *)

(* An ID that an administrator has looked up was registered, and IDs are   *)
(* not used again.                                                         *)
Registered ==
  \A a \in Admins : admin[a].key \in Entries => name[admin[a].key] # None

(* Deregister has been called, or the tunnel was gone.                     *)
Deleted ==
  \A a \in Admins :
    admin[a].op = "delete" /\ admin[a].at \in {"purge", "ok"} => admin[a].key \notin live

(* An answer that a visitor comes after is final, and the visitor's entry  *)
(* is none that was closed before.                                         *)
CameAfter ==
  \A v \in Visitors : \A a \in visitor[v].told :
    admin[a].at = "ok" /\ (admin[a].op = "delete" => admin[a].key # visitor[v].entry)

DelInv == Registered /\ Deleted /\ CameAfter

-----------------------------------------------------------------------------
(* Lists. *)

(* Administrator a is the last that was answered about its entry's list.   *)
LastList(a) ==
  \A b \in Admins \ {a} :
    ~(admin[b].at = "ok" /\ admin[b].op \in {"acl", "noacl"} /\ admin[b].entry = admin[a].entry)

AclSet ==
  \A a \in Admins :
    admin[a].at = "ok" /\ admin[a].op = "acl" /\ LastList(a) => acl[admin[a].entry] = admin[a].arg

(* A visitor carries the list, or was checked against it.                  *)
AclSeen ==
  \A v \in Visitors : \A a \in visitor[v].told :
    admin[a].op = "acl" /\ admin[a].entry = visitor[v].entry /\ LastList(a) =>
      /\ visitor[v].kind # "http" => visitor[v].acl = admin[a].arg
      /\ visitor[v].at \in {"open", "proxied"} => Check(admin[a].arg, visitor[v].ip)

AclInv == AclSet /\ AclSeen

-----------------------------------------------------------------------------
(* Limiters. *)

(* A goroutine that has not created a limiter: none is known by it.        *)
Fresh(w) ==
  /\ \A k \in Keys : limiter[k] # w
  /\ \A a \in Admins : admin[a].lim # w

NotYet ==
  /\ \A v \in Visitors : visitor[v].at \in {"idle", "load", "create"} => Fresh(v)
  /\ \A a \in Admins : admin[a].at \in {"idle", "limit", "create"} => Fresh(a)

(* A limiter serves one key.                                               *)
OneKey ==
  /\ \A k, j \in Keys : limiter[k] # None /\ limiter[k] = limiter[j] => k = j
  /\ \A a \in Admins, k \in Keys :
       admin[a].lim # None /\ limiter[k] = admin[a].lim => k = admin[a].key
  /\ \A a, b \in Admins :
       admin[a].lim # None /\ admin[a].lim = admin[b].lim => admin[a].key = admin[b].key

(* The limiter of a live tunnel stays the one that was found.              *)
Setting(a) == admin[a].op = "limit" /\ admin[a].at \in {"rate", "burst", "ok"}
LimiterKept ==
  \A a \in Admins : Setting(a) =>
    /\ admin[a].lim # None
    /\ admin[a].key \in live => limiter[admin[a].key] = admin[a].lim

LastLimit(a) == \A b \in Admins \ {a} : ~(Setting(b) /\ admin[b].key = admin[a].key)
LimitSet ==
  \A a \in Admins : Setting(a) /\ LastLimit(a) =>
    /\ admin[a].at \in {"burst", "ok"} => setting[admin[a].lim].rate = admin[a].arg
    /\ admin[a].at = "ok" => setting[admin[a].lim].burst = admin[a].arg

LimInv == NotYet /\ OneKey /\ LimiterKept /\ LimitSet

IInv == TypeOK /\ DelInv /\ AclInv /\ LimInv

-----------------------------------------------------------------------------
LEMMA NoneFacts ==
  /\ None \notin Workers /\ None \notin Entries /\ None \notin Names /\ None \notin Keys
  /\ None \notin Limits /\ None \notin ACLs
BY SortsAssumption DEF Workers, Keys

LEMMA TypeInit == Init => TypeOK
<1>1. NoVisit \in VisitRecord
  BY NoneFacts DEF NoVisit, VisitRecord
<1>2. NoOrder \in OrderRecord
  BY NoneFacts DEF NoOrder, OrderRecord
<1>. QED
  BY <1>1, <1>2 DEF Init, TypeOK, Default

(* A step of one visitor, and one of one administrator. *)
VisitStep(v, r) == visitor' = [visitor EXCEPT ![v] = r]
OrderStep(a, r) == admin' = [admin EXCEPT ![a] = r]

LEMMA VisitType ==
  ASSUME TypeOK, NEW v \in Visitors, Visit(v)
  PROVE  TypeOK'
<1>. DEFINE R == visitor[v]
<1>0. R \in VisitRecord
  BY DEF TypeOK
<1>1. ASSUME NEW r \in VisitRecord, VisitStep(v, r), limiter' \in [Keys -> Workers \cup {None}],
             UNCHANGED <<registry, acl, setting, admin>>
      PROVE  TypeOK'
  BY <1>1 DEF VisitStep, TypeOK, registry
<1>2. ASSUME NEW at \in {"404", "429", "403", "502"} PROVE [NoVisit EXCEPT !.at = at] \in VisitRecord
  BY NoneFacts DEF NoVisit, VisitRecord
<1>3. ASSUME NEW at \in {"404", "429", "403", "502"}, Refused(v, at), UNCHANGED <<registry, acl, limits, admin>>
      PROVE  TypeOK'
  BY <1>1, <1>2, <1>3 DEF Refused, VisitStep, limits, TypeOK
<1>4. ASSUME NEW ip \in Addresses, NEW k \in Keys, Arrive(v, ip, k) PROVE TypeOK'
  <2>1. CASE Refused(v, "404")
    BY <1>3, <1>4, <2>1 DEF Arrive
  <2>2. ASSUME NEW e \in Lookup(k),
               visitor' = [visitor EXCEPT ![v] =
                 [NoVisit EXCEPT !.at = "load", !.kind = "http", !.ip = ip, !.entry = e, !.told = Told]]
        PROVE  TypeOK'
    <3>1. [NoVisit EXCEPT !.at = "load", !.kind = "http", !.ip = ip, !.entry = e, !.told = Told]
            \in VisitRecord
      BY DEF NoVisit, VisitRecord, Lookup, TypeOK, Told
    <3>. QED
      BY <1>1, <1>4, <2>2, <3>1 DEF VisitStep, Arrive, limits, TypeOK
  <2>. QED
    BY <1>4, <2>1, <2>2 DEF Arrive
<1>5. ASSUME NEW ip \in Addresses, NEW e \in Entries, Connect(v, ip, e) PROVE TypeOK'
  <2>1. [NoVisit EXCEPT !.at = "load", !.kind = "tcp", !.ip = ip, !.entry = e, !.acl = acl[e], !.told = Told]
          \in VisitRecord
    BY DEF NoVisit, VisitRecord, TypeOK, Told
  <2>. QED
    BY <1>1, <1>5, <2>1 DEF VisitStep, Connect, limits, TypeOK
<1>6. CASE LoadLimiter(v)
  <2>1. ASSUME NEW got \in Workers, Load(R.entry, got),
               visitor' = [visitor EXCEPT ![v].at = "allow", ![v].lim = got]
        PROVE  TypeOK'
    <3>1. [R EXCEPT !.at = "allow", !.lim = got] \in VisitRecord /\ UNCHANGED limits
      BY <1>0, <1>6, <2>1 DEF VisitRecord, LoadLimiter, Load
    <3>2. VisitStep(v, [R EXCEPT !.at = "allow", !.lim = got])
      BY <2>1 DEF VisitStep
    <3>. QED
      BY <1>1, <1>6, <3>1, <3>2 DEF LoadLimiter, limits, TypeOK
  <2>2. CASE visitor' = [visitor EXCEPT ![v].at = "create"] /\ UNCHANGED limits
    <3>1. [R EXCEPT !.at = "create"] \in VisitRecord
      BY <1>0, <1>6 DEF VisitRecord, LoadLimiter
    <3>2. VisitStep(v, [R EXCEPT !.at = "create"])
      BY <2>2 DEF VisitStep
    <3>. QED
      BY <1>1, <1>6, <2>2, <3>1, <3>2 DEF LoadLimiter, limits, TypeOK
  <2>. QED
    BY <1>6, <2>1, <2>2 DEF LoadLimiter
<1>7. CASE CreateLimiter(v)
  <2>1. PICK got \in Workers : /\ LoadOrStore(v, R.entry, got)
                               /\ visitor' = [visitor EXCEPT ![v].at = "allow", ![v].lim = got]
    BY <1>7 DEF CreateLimiter
  <2>2. [R EXCEPT !.at = "allow", !.lim = got] \in VisitRecord
    BY <1>0, <1>7 DEF VisitRecord, CreateLimiter
  <2>3. VisitStep(v, [R EXCEPT !.at = "allow", !.lim = got])
    BY <2>1 DEF VisitStep
  <2>4. limiter' \in [Keys -> Workers \cup {None}]
    BY <2>1 DEF LoadOrStore, TypeOK
  <2>. QED
    BY <1>1, <1>7, <2>1, <2>2, <2>3, <2>4 DEF CreateLimiter, LoadOrStore
<1>8. CASE Allow(v)
  <2>1. CASE visitor' = [visitor EXCEPT ![v].at = "acl", ![v].lim = None]
    <3>1. [R EXCEPT !.at = "acl", !.lim = None] \in VisitRecord
      BY <1>0, <1>8 DEF VisitRecord, Allow
    <3>2. VisitStep(v, [R EXCEPT !.at = "acl", !.lim = None])
      BY <2>1 DEF VisitStep
    <3>. QED
      BY <1>1, <1>8, <3>1, <3>2 DEF Allow, limits, TypeOK
  <2>. QED
    BY <1>3, <1>8, <2>1 DEF Allow
<1>9. CASE CheckACL(v)
  <2>1. CASE visitor' = [visitor EXCEPT ![v].at = "open"]
    <3>1. [R EXCEPT !.at = "open"] \in VisitRecord
      BY <1>0, <1>9 DEF VisitRecord, CheckACL
    <3>2. VisitStep(v, [R EXCEPT !.at = "open"])
      BY <2>1 DEF VisitStep
    <3>. QED
      BY <1>1, <1>9, <3>1, <3>2 DEF CheckACL, limits, TypeOK
  <2>. QED
    BY <1>3, <1>9, <2>1 DEF CheckACL
<1>10. CASE Open(v)
  <2>1. CASE visitor' = [visitor EXCEPT ![v].at = "proxied"]
    <3>1. [R EXCEPT !.at = "proxied"] \in VisitRecord
      BY <1>0, <1>10 DEF VisitRecord, Open
    <3>2. VisitStep(v, [R EXCEPT !.at = "proxied"])
      BY <2>1 DEF VisitStep
    <3>. QED
      BY <1>1, <1>10, <3>1, <3>2 DEF Open, limits, TypeOK
  <2>. QED
    BY <1>3, <1>10, <2>1 DEF Open
<1>. QED
  BY <1>4, <1>5, <1>6, <1>7, <1>8, <1>9, <1>10 DEF Visit

LEMMA OrderType ==
  ASSUME TypeOK, NEW a \in Admins, Order(a)
  PROVE  TypeOK'
<1>. DEFINE R == admin[a]
<1>0. R \in OrderRecord
  BY DEF TypeOK
<1>1. ASSUME NEW r \in OrderRecord, OrderStep(a, r), live' \subseteq live,
             limiter' \in [Keys -> Workers \cup {None}], acl' \in [Entries -> ACLs \cup {None}],
             setting' \in [Workers -> [rate: Limits \cup {None}, burst: Limits \cup {None}]],
             UNCHANGED <<name, purge, visitor>>
      PROVE  TypeOK'
  BY <1>1 DEF OrderStep, TypeOK
<1>2. ASSUME NEW r \in OrderRecord, OrderStep(a, r), UNCHANGED <<registry, acl, limits, visitor>>
      PROVE  TypeOK'
  BY <1>1, <1>2 DEF registry, limits, TypeOK
<1>3. ASSUME NEW op \in {"delete", "noacl", "limit", "acl"}, NEW k \in Keys,
             NEW arg \in Limits \cup ACLs \cup {None},
             op = "limit" => arg \in Limits, op = "acl" => arg \in ACLs, Ask(a, op, k, arg)
      PROVE  TypeOK'
  <2>1. ASSUME NEW e \in Lookup(k),
               admin' = [admin EXCEPT ![a] = [NoOrder EXCEPT !.at = op, !.op = op, !.key = k,
                                                             !.entry = e, !.arg = arg]]
        PROVE  TypeOK'
    <3>1. [NoOrder EXCEPT !.at = op, !.op = op, !.key = k, !.entry = e, !.arg = arg]
            \in OrderRecord
      BY <1>3, NoneFacts DEF NoOrder, OrderRecord, Lookup, TypeOK
    <3>. QED
      BY <1>2, <1>3, <2>1, <3>1 DEF OrderStep, Ask
  <2>2. CASE OrderStep(a, [NoOrder EXCEPT !.at = "404"])
    <3>1. [NoOrder EXCEPT !.at = "404"] \in OrderRecord
      BY NoneFacts DEF NoOrder, OrderRecord
    <3>. QED
      BY <1>2, <1>3, <2>2, <3>1 DEF Ask
  <2>. QED
    BY <1>3, <2>1, <2>2 DEF Ask, OrderStep
<1>4. CASE Refuse(a)
  <2>1. [NoOrder EXCEPT !.at = "400"] \in OrderRecord
    BY NoneFacts DEF NoOrder, OrderRecord
  <2>. QED
    BY <1>2, <1>4, <2>1 DEF Refuse, OrderStep
<1>5. CASE Delete(a)
  <2>1. \A at \in {"purge", "ok"} : [R EXCEPT !.at = at] \in OrderRecord
    BY <1>0, <1>5 DEF OrderRecord, Delete
  <2>2. PICK at \in {"purge", "ok"} : OrderStep(a, [R EXCEPT !.at = at]) /\ live' \subseteq live
    BY <1>5 DEF Delete, OrderStep
  <2>. QED
    BY <1>1, <1>5, <2>1, <2>2 DEF Delete, limits, TypeOK
<1>6. CASE DeleteLimiter(a)
  <2>1. [R EXCEPT !.at = "ok"] \in OrderRecord
    BY <1>0, <1>6 DEF OrderRecord, DeleteLimiter
  <2>2. OrderStep(a, [R EXCEPT !.at = "ok"])
    BY <1>6 DEF DeleteLimiter, OrderStep
  <2>3. limiter' \in [Keys -> Workers \cup {None}]
    BY <1>6 DEF DeleteLimiter, TypeOK
  <2>. QED
    BY <1>1, <1>6, <2>1, <2>2, <2>3 DEF DeleteLimiter, registry, TypeOK
<1>7. CASE FindLimiter(a)
  <2>1. ASSUME NEW got \in Workers, Load(R.key, got),
               admin' = [admin EXCEPT ![a].at = "rate", ![a].lim = got]
        PROVE  TypeOK'
    <3>1. [R EXCEPT !.at = "rate", !.lim = got] \in OrderRecord
      BY <1>0, <1>7 DEF OrderRecord, FindLimiter
    <3>2. OrderStep(a, [R EXCEPT !.at = "rate", !.lim = got])
      BY <2>1 DEF OrderStep
    <3>. QED
      BY <1>2, <1>7, <2>1, <3>1, <3>2 DEF FindLimiter, Load
  <2>2. CASE admin' = [admin EXCEPT ![a].at = "create"] /\ UNCHANGED limits
    <3>1. [R EXCEPT !.at = "create"] \in OrderRecord
      BY <1>0, <1>7 DEF OrderRecord, FindLimiter
    <3>2. OrderStep(a, [R EXCEPT !.at = "create"])
      BY <2>2 DEF OrderStep
    <3>. QED
      BY <1>2, <1>7, <2>2, <3>1, <3>2 DEF FindLimiter
  <2>. QED
    BY <1>7, <2>1, <2>2 DEF FindLimiter
<1>8. CASE MakeLimiter(a)
  <2>1. PICK got \in Workers : /\ LoadOrStore(a, R.key, got)
                               /\ admin' = [admin EXCEPT ![a].at = "rate", ![a].lim = got]
    BY <1>8 DEF MakeLimiter
  <2>2. [R EXCEPT !.at = "rate", !.lim = got] \in OrderRecord
    BY <1>0, <1>8 DEF OrderRecord, MakeLimiter
  <2>3. OrderStep(a, [R EXCEPT !.at = "rate", !.lim = got])
    BY <2>1 DEF OrderStep
  <2>4. limiter' \in [Keys -> Workers \cup {None}]
    BY <2>1 DEF LoadOrStore, TypeOK
  <2>. QED
    BY <1>1, <1>8, <2>1, <2>2, <2>3, <2>4 DEF MakeLimiter, LoadOrStore, registry, TypeOK
<1>9. CASE SetLimit(a)
  <2>1. \A at \in {"burst", "ok"} : [R EXCEPT !.at = at] \in OrderRecord
    BY <1>0, <1>9 DEF OrderRecord, SetLimit
  <2>2. PICK at \in {"burst", "ok"} : OrderStep(a, [R EXCEPT !.at = at])
    BY <1>9 DEF SetLimit, OrderStep
  <2>3. R.arg \in Limits
    BY <1>0, <1>9 DEF OrderRecord, SetLimit
  <2>4. setting' \in [Workers -> [rate: Limits \cup {None}, burst: Limits \cup {None}]]
    BY <1>9, <2>3 DEF SetLimit, TypeOK
  <2>. QED
    BY <1>1, <1>9, <2>1, <2>2, <2>4 DEF SetLimit, registry, TypeOK
<1>10. CASE SetACL(a) \/ DeleteACL(a)
  <2>1. [R EXCEPT !.at = "ok"] \in OrderRecord
    BY <1>0, <1>10 DEF OrderRecord, SetACL, DeleteACL
  <2>2. OrderStep(a, [R EXCEPT !.at = "ok"])
    BY <1>10 DEF SetACL, DeleteACL, OrderStep
  <2>3. R.at = "acl" => R.arg \in ACLs
    BY <1>0 DEF OrderRecord
  <2>4. acl' \in [Entries -> ACLs \cup {None}]
    BY <1>10, <2>3 DEF SetACL, DeleteACL, TypeOK
  <2>. QED
    BY <1>1, <1>10, <2>1, <2>2, <2>4 DEF SetACL, DeleteACL, registry, limits, TypeOK
<1>. QED
  BY <1>3, <1>4, <1>5, <1>6, <1>7, <1>8, <1>9, <1>10 DEF Order

(* The steps of the registry. *)
Registry(e) == Evict(e) \/ RemoveLimiter(e) \/ EndSession(e) \/ \E n \in Names : Register(e, n)

LEMMA TypeStep == TypeOK /\ [Next]_vars => TypeOK'
<1>. SUFFICES ASSUME TypeOK, [Next]_vars PROVE TypeOK'
  OBVIOUS
<1>1. ASSUME NEW e \in Entries, Registry(e) PROVE TypeOK'
  <2>1. ASSUME NEW n \in Names, Register(e, n) PROVE TypeOK'
    BY <2>1, NoneFacts DEF Register, limits, TypeOK
  <2>2. CASE Evict(e)
    BY <2>2 DEF Evict, limits, TypeOK
  <2>3. CASE RemoveLimiter(e)
    BY <2>3 DEF RemoveLimiter, TypeOK
  <2>4. CASE EndSession(e)
    BY <2>4 DEF EndSession, limits, TypeOK
  <2>. QED
    BY <1>1, <2>1, <2>2, <2>3, <2>4 DEF Registry
<1>2. CASE UNCHANGED vars
  BY <1>2 DEF vars, registry, limits, TypeOK
<1>. QED
  BY <1>1, <1>2, VisitType, OrderType DEF Next, Registry

-----------------------------------------------------------------------------
(* What a visitor's step is, if r is its record after it: it comes, it is  *)
(* refused, or it goes on.                                                 *)
Comes(v, r) ==
  /\ visitor[v].at = "idle" /\ r.at = "load" /\ r.entry \in live /\ r.told = Told
  /\ r.kind # "http" => r.acl = acl[r.entry]
  /\ UNCHANGED limiter

Leaves(r) == r.at \in {"404", "429", "403", "502"} /\ r.told = {} /\ UNCHANGED limiter

(* It is at a later place, which it reaches after CreateLimiter and        *)
(* CheckACL only.                                                          *)
Creates(v, r) ==
  /\ visitor[v].at = "create" /\ r.at = "allow"
  /\ limiter[visitor[v].entry] = None
  /\ limiter' = [limiter EXCEPT ![visitor[v].entry] = v]
GoesOn(v, r) ==
  LET list == IF visitor[v].kind = "http" THEN acl[visitor[v].entry] ELSE visitor[v].acl IN
  /\ <<r.told, r.entry, r.kind, r.acl, r.ip>> =
     <<visitor[v].told, visitor[v].entry, visitor[v].kind, visitor[v].acl, visitor[v].ip>>
  /\ visitor[v].entry \in Entries
  /\ r.at \in {"idle", "load", "create"} => visitor[v].at \in {"idle", "load", "create"}
  /\ r.at \in {"open", "proxied"} => visitor[v].at = "open" \/ Check(list, visitor[v].ip)
  /\ UNCHANGED limiter \/ Creates(v, r)

LEMMA VisitShape ==
  ASSUME TypeOK, NEW v \in Visitors, Visit(v)
  PROVE  /\ \E r : VisitStep(v, r) /\ (Comes(v, r) \/ Leaves(r) \/ GoesOn(v, r))
         /\ UNCHANGED <<registry, acl, setting, admin>>
<1>. DEFINE R == visitor[v]
            Good(r) == VisitStep(v, r) /\ (Comes(v, r) \/ Leaves(r) \/ GoesOn(v, r))
            Rest == UNCHANGED <<registry, acl, setting, admin>>
<1>0. R \in VisitRecord
  BY DEF TypeOK
<1>1. ASSUME NEW at \in {"404", "429", "403", "502"}, Refused(v, at), UNCHANGED limiter
      PROVE  \E r : Good(r)
  <2>1. Leaves([NoVisit EXCEPT !.at = at]) /\ VisitStep(v, [NoVisit EXCEPT !.at = at])
    BY <1>1 DEF Leaves, NoVisit, Refused, VisitStep
  <2>. QED
    BY <2>1
<1>2. ASSUME NEW ip \in Addresses, NEW k \in Keys, Arrive(v, ip, k) PROVE (\E r : Good(r)) /\ Rest
  <2>1. Rest /\ UNCHANGED limiter
    BY <1>2 DEF Arrive, limits
  <2>2. ASSUME NEW e \in Lookup(k),
               visitor' = [visitor EXCEPT ![v] =
                 [NoVisit EXCEPT !.at = "load", !.kind = "http", !.ip = ip, !.entry = e, !.told = Told]]
        PROVE  \E r : Good(r)
    <3>. DEFINE r == [NoVisit EXCEPT !.at = "load", !.kind = "http", !.ip = ip, !.entry = e, !.told = Told]
    <3>1. Comes(v, r)
      BY <1>2, <2>1 DEF Comes, NoVisit, Lookup, Arrive
    <3>2. VisitStep(v, r)
      BY <2>2 DEF VisitStep
    <3>. HIDE DEF r
    <3>. QED
      BY <3>1, <3>2
  <2>3. CASE Refused(v, "404")
    BY <1>1, <2>1, <2>3
  <2>. QED
    BY <1>2, <2>1, <2>2, <2>3 DEF Arrive
<1>3. ASSUME NEW ip \in Addresses, NEW e \in Entries, Connect(v, ip, e) PROVE (\E r : Good(r)) /\ Rest
  <2>. DEFINE r == [NoVisit EXCEPT !.at = "load", !.kind = "tcp", !.ip = ip, !.entry = e,
                                   !.acl = acl[e], !.told = Told]
  <2>1. Rest /\ UNCHANGED limiter
    BY <1>3 DEF Connect, limits
  <2>2. Comes(v, r) /\ VisitStep(v, r)
    BY <1>3, <2>1 DEF Comes, NoVisit, VisitStep, Connect
  <2>. HIDE DEF r
  <2>. QED
    BY <2>1, <2>2
<1>4. CASE LoadLimiter(v)
  <2>1. Rest /\ UNCHANGED limiter
    BY <1>4 DEF LoadLimiter, Load, limits
  <2>2. ASSUME NEW got, visitor' = [visitor EXCEPT ![v].at = "allow", ![v].lim = got]
        PROVE  \E r : Good(r)
    <3>. DEFINE r == [R EXCEPT !.at = "allow", !.lim = got]
    <3>1. GoesOn(v, r) /\ VisitStep(v, r)
      BY <1>0, <1>4, <2>1, <2>2 DEF GoesOn, VisitRecord, VisitStep, LoadLimiter
    <3>. HIDE DEF r
    <3>. QED
      BY <3>1
  <2>3. CASE visitor' = [visitor EXCEPT ![v].at = "create"]
    <3>. DEFINE r == [R EXCEPT !.at = "create"]
    <3>1. GoesOn(v, r) /\ VisitStep(v, r)
      BY <1>0, <1>4, <2>1, <2>3 DEF GoesOn, VisitRecord, VisitStep, LoadLimiter
    <3>. HIDE DEF r
    <3>. QED
      BY <2>1, <3>1
  <2>. QED
    BY <1>4, <2>1, <2>2, <2>3 DEF LoadLimiter
<1>5. CASE CreateLimiter(v)
  <2>1. PICK got \in Workers : /\ LoadOrStore(v, R.entry, got)
                               /\ visitor' = [visitor EXCEPT ![v].at = "allow", ![v].lim = got]
    BY <1>5 DEF CreateLimiter
  <2>. DEFINE r == [R EXCEPT !.at = "allow", !.lim = got]
  <2>2. Rest
    BY <1>5, <2>1 DEF CreateLimiter, LoadOrStore
  <2>3. UNCHANGED limiter \/ Creates(v, r)
    BY <1>0, <1>5, <2>1 DEF Creates, CreateLimiter, LoadOrStore, TypeOK, VisitRecord
  <2>4. GoesOn(v, r) /\ VisitStep(v, r)
    BY <1>0, <1>5, <2>1, <2>3 DEF GoesOn, VisitRecord, VisitStep, CreateLimiter
  <2>. HIDE DEF r
  <2>. QED
    BY <2>2, <2>4
<1>6. CASE Allow(v)
  <2>1. Rest /\ UNCHANGED limiter
    BY <1>6 DEF Allow, limits
  <2>2. CASE visitor' = [visitor EXCEPT ![v].at = "acl", ![v].lim = None]
    <3>. DEFINE r == [R EXCEPT !.at = "acl", !.lim = None]
    <3>1. GoesOn(v, r) /\ VisitStep(v, r)
      BY <1>0, <1>6, <2>1, <2>2 DEF GoesOn, VisitRecord, VisitStep, Allow
    <3>. HIDE DEF r
    <3>. QED
      BY <2>1, <3>1
  <2>. QED
    BY <1>1, <1>6, <2>1, <2>2 DEF Allow
<1>7. CASE CheckACL(v)
  <2>1. Rest /\ UNCHANGED limiter
    BY <1>7 DEF CheckACL, limits
  <2>. DEFINE list == IF R.kind = "http" THEN acl[R.entry] ELSE R.acl
  <2>2. CASE Check(list, R.ip) /\ visitor' = [visitor EXCEPT ![v].at = "open"]
    <3>. DEFINE r == [R EXCEPT !.at = "open"]
    <3>1. GoesOn(v, r) /\ VisitStep(v, r)
      BY <1>0, <1>7, <2>1, <2>2 DEF GoesOn, VisitRecord, VisitStep, CheckACL
    <3>. HIDE DEF r
    <3>. QED
      BY <2>1, <3>1
  <2>. QED
    BY <1>1, <1>7, <2>1, <2>2 DEF CheckACL
<1>8. CASE Open(v)
  <2>1. Rest /\ UNCHANGED limiter
    BY <1>8 DEF Open, limits
  <2>2. CASE visitor' = [visitor EXCEPT ![v].at = "proxied"]
    <3>. DEFINE r == [R EXCEPT !.at = "proxied"]
    <3>1. GoesOn(v, r) /\ VisitStep(v, r)
      BY <1>0, <1>8, <2>1, <2>2 DEF GoesOn, VisitRecord, VisitStep, Open
    <3>. HIDE DEF r
    <3>. QED
      BY <2>1, <3>1
  <2>. QED
    BY <1>1, <1>8, <2>1, <2>2 DEF Open
<1>. QED
  BY <1>2, <1>3, <1>4, <1>5, <1>6, <1>7, <1>8 DEF Visit

-----------------------------------------------------------------------------
(* What an administrator's step is, if r is the order after it. *)
Starts(a, r) ==
  /\ admin[a].at = "idle" /\ r.op \in {"delete", "noacl", "limit", "acl"} /\ r.at = r.op
  /\ r.key \in Keys /\ r.entry \in Lookup(r.key) /\ r.lim = None
  /\ UNCHANGED <<live, acl, limiter, setting>>

Fails(a, r) ==
  /\ r.at \in {"404", "400"} /\ r.op = None /\ r.key = None /\ r.lim = None
  /\ admin[a].at \in {"idle", "limit", "acl"}
  /\ UNCHANGED <<live, acl, limiter, setting>>

Same(a, r) == <<r.op, r.key, r.entry, r.arg>> =
              <<admin[a].op, admin[a].key, admin[a].entry, admin[a].arg>>

Deletes(a, r) ==
  /\ Same(a, r) /\ r.lim = admin[a].lim /\ UNCHANGED <<acl, setting>>
  /\ \/ /\ admin[a].at = "delete" /\ r.at = "purge"
        /\ live' = live \ {admin[a].key} /\ UNCHANGED limiter
     \/ /\ admin[a].at = "delete" /\ r.at = "ok" /\ admin[a].key \notin live
        /\ UNCHANGED <<live, limiter>>
     \/ /\ admin[a].at = "purge" /\ r.at = "ok" /\ UNCHANGED live
        /\ limiter' = [limiter EXCEPT ![admin[a].key] = None]

Finds(a, r) ==
  /\ Same(a, r) /\ UNCHANGED <<live, acl, setting>>
  /\ admin[a].at \in {"limit", "create"}
  /\ \/ r.at = "rate" /\ r.lim \in Workers /\ limiter[r.key] = r.lim /\ UNCHANGED limiter
     \/ r.at = "create" /\ r.lim = admin[a].lim /\ UNCHANGED limiter
     \/ /\ r.at = "rate" /\ r.lim = a /\ limiter[r.key] = None
        /\ limiter' = [limiter EXCEPT ![r.key] = a]

Sets(a, r) ==
  /\ Same(a, r) /\ r.lim = admin[a].lim /\ UNCHANGED <<live, acl, limiter>>
  /\ \/ /\ admin[a].at = "rate" /\ r.at = "burst"
        /\ setting' = [setting EXCEPT ![r.lim].rate = r.arg]
     \/ /\ admin[a].at = "burst" /\ r.at = "ok"
        /\ setting' = [setting EXCEPT ![r.lim].burst = r.arg]

Lists(a, r) ==
  /\ Same(a, r) /\ r.lim = admin[a].lim /\ UNCHANGED <<live, limiter, setting>>
  /\ admin[a].at \in {"acl", "noacl"} /\ r.at = "ok"
  /\ acl' = [acl EXCEPT ![r.entry] = IF admin[a].at = "acl" THEN r.arg ELSE None]

OrderKind(a, r) ==
  \/ Starts(a, r) \/ Fails(a, r) \/ Deletes(a, r) \/ Finds(a, r) \/ Sets(a, r) \/ Lists(a, r)

LEMMA OrderShape ==
  ASSUME TypeOK, NEW a \in Admins, Order(a)
  PROVE  (\E r : OrderStep(a, r) /\ OrderKind(a, r)) /\ UNCHANGED <<name, purge, visitor>>
<1>. DEFINE R == admin[a]
            Good == \E r : OrderStep(a, r) /\ OrderKind(a, r)
            Rest == UNCHANGED <<name, purge, visitor>>
<1>0. R \in OrderRecord
  BY DEF TypeOK
<1>1. ASSUME NEW r, OrderStep(a, r), OrderKind(a, r) PROVE Good
  BY <1>1
<1>2. ASSUME NEW at \in {"404", "400"}, OrderStep(a, [NoOrder EXCEPT !.at = at]),
             UNCHANGED <<registry, acl, limits>>, R.at \in {"idle", "limit", "acl"}
      PROVE  Good
  <2>1. Fails(a, [NoOrder EXCEPT !.at = at])
    BY <1>2 DEF Fails, NoOrder, registry, limits
  <2>. QED
    BY <1>1, <1>2, <2>1 DEF OrderKind
<1>3. ASSUME NEW op \in {"delete", "noacl", "limit", "acl"}, NEW k \in Keys, NEW arg,
             Ask(a, op, k, arg)
      PROVE  Good /\ Rest
  <2>1. ASSUME NEW e \in Lookup(k),
               admin' = [admin EXCEPT ![a] = [NoOrder EXCEPT !.at = op, !.op = op, !.key = k,
                                                             !.entry = e, !.arg = arg]]
        PROVE  Good
    <3>. DEFINE r == [NoOrder EXCEPT !.at = op, !.op = op, !.key = k, !.entry = e, !.arg = arg]
    <3>1. Starts(a, r)
      BY <1>3, <2>1 DEF Starts, NoOrder, Ask, registry, limits
    <3>2. OrderStep(a, r)
      BY <2>1 DEF OrderStep
    <3>. QED
      BY <1>1, <3>1, <3>2 DEF OrderKind
  <2>. QED
    BY <1>2, <1>3, <2>1 DEF Ask, OrderStep, registry
<1>4. CASE Refuse(a)
  BY <1>2, <1>4 DEF Refuse, OrderStep, registry
<1>5. CASE Delete(a)
  <2>1. PICK at \in {"purge", "ok"} :
          /\ OrderStep(a, [R EXCEPT !.at = at])
          /\ at = "purge" => live' = live \ {R.key}
          /\ at = "ok" => R.key \notin live /\ UNCHANGED live
    BY <1>5 DEF Delete, OrderStep
  <2>2. Deletes(a, [R EXCEPT !.at = at])
    BY <1>0, <1>5, <2>1 DEF Deletes, Same, Delete, OrderRecord, limits
  <2>3. Rest
    BY <1>5 DEF Delete
  <2>. QED
    BY <1>1, <2>1, <2>2, <2>3 DEF OrderKind
<1>6. CASE DeleteLimiter(a)
  <2>1. OrderStep(a, [R EXCEPT !.at = "ok"])
    BY <1>6 DEF DeleteLimiter, OrderStep
  <2>2. Deletes(a, [R EXCEPT !.at = "ok"])
    BY <1>0, <1>6 DEF Deletes, Same, DeleteLimiter, OrderRecord, registry
  <2>3. Rest
    BY <1>6 DEF DeleteLimiter, registry
  <2>. QED
    BY <1>1, <2>1, <2>2, <2>3 DEF OrderKind
<1>7. CASE FindLimiter(a)
  <2>0. Rest /\ UNCHANGED <<live, acl, limiter, setting>>
    BY <1>7 DEF FindLimiter, Load, registry, limits
  <2>1. ASSUME NEW got \in Workers, Load(R.key, got),
               admin' = [admin EXCEPT ![a].at = "rate", ![a].lim = got]
        PROVE  Good
    <3>1. OrderStep(a, [R EXCEPT !.at = "rate", !.lim = got])
      BY <2>1 DEF OrderStep
    <3>2. Finds(a, [R EXCEPT !.at = "rate", !.lim = got])
      BY <1>0, <1>7, <2>0, <2>1 DEF Finds, Same, FindLimiter, Load, OrderRecord
    <3>. QED
      BY <1>1, <3>1, <3>2 DEF OrderKind
  <2>2. CASE admin' = [admin EXCEPT ![a].at = "create"]
    <3>1. OrderStep(a, [R EXCEPT !.at = "create"])
      BY <2>2 DEF OrderStep
    <3>2. Finds(a, [R EXCEPT !.at = "create"])
      BY <1>0, <1>7, <2>0 DEF Finds, Same, FindLimiter, OrderRecord
    <3>. QED
      BY <1>1, <2>0, <3>1, <3>2 DEF OrderKind
  <2>. QED
    BY <1>7, <2>0, <2>1, <2>2 DEF FindLimiter
<1>8. CASE MakeLimiter(a)
  <2>1. PICK got \in Workers : /\ LoadOrStore(a, R.key, got)
                               /\ admin' = [admin EXCEPT ![a].at = "rate", ![a].lim = got]
    BY <1>8 DEF MakeLimiter
  <2>. DEFINE r == [R EXCEPT !.at = "rate", !.lim = got]
  <2>2. OrderStep(a, r)
    BY <2>1 DEF OrderStep
  <2>3. Rest /\ UNCHANGED <<live, acl, setting>>
    BY <1>8, <2>1 DEF MakeLimiter, LoadOrStore, registry
  <2>4. /\ R.at = "create" /\ r.at = "rate" /\ r.lim = got /\ Same(a, r)
    BY <1>0, <1>8 DEF Same, MakeLimiter, OrderRecord
  <2>5. \/ limiter[r.key] = got /\ UNCHANGED limiter
        \/ got = a /\ limiter[r.key] = None /\ limiter' = [limiter EXCEPT ![r.key] = a]
    BY <1>0, <2>1 DEF LoadOrStore, TypeOK, OrderRecord
  <2>. HIDE DEF r
  <2>6. Finds(a, r)
    BY <2>3, <2>4, <2>5 DEF Finds
  <2>. QED
    BY <1>1, <2>2, <2>3, <2>6 DEF OrderKind
<1>9. CASE SetLimit(a)
  <2>1. PICK at \in {"burst", "ok"} :
          /\ OrderStep(a, [R EXCEPT !.at = at])
          /\ at = "burst" => R.at = "rate" /\ setting' = [setting EXCEPT ![R.lim].rate = R.arg]
          /\ at = "ok" => R.at = "burst" /\ setting' = [setting EXCEPT ![R.lim].burst = R.arg]
    BY <1>9 DEF SetLimit, OrderStep
  <2>2. Sets(a, [R EXCEPT !.at = at])
    BY <1>0, <1>9, <2>1 DEF Sets, Same, SetLimit, OrderRecord, registry
  <2>3. Rest
    BY <1>9 DEF SetLimit, registry
  <2>. QED
    BY <1>1, <2>1, <2>2, <2>3 DEF OrderKind
<1>10. CASE SetACL(a) \/ DeleteACL(a)
  <2>1. OrderStep(a, [R EXCEPT !.at = "ok"])
    BY <1>10 DEF SetACL, DeleteACL, OrderStep
  <2>2. Lists(a, [R EXCEPT !.at = "ok"])
    BY <1>0, <1>10 DEF Lists, Same, SetACL, DeleteACL, OrderRecord, registry, limits
  <2>3. Rest
    BY <1>10 DEF SetACL, DeleteACL, registry
  <2>. QED
    BY <1>1, <2>1, <2>2, <2>3 DEF OrderKind
<1>. QED
  BY <1>3, <1>4, <1>5, <1>6, <1>7, <1>8, <1>9, <1>10 DEF Order, Refuse, registry

-----------------------------------------------------------------------------
LEMMA RegistryShape ==
  ASSUME TypeOK, NEW e \in Entries, Registry(e)
  PROVE  /\ UNCHANGED <<acl, setting, visitor, admin>>
         /\ \/ /\ name[e] = None /\ live' = live \cup {e} /\ UNCHANGED limiter
               /\ \E n \in Names : name' = [name EXCEPT ![e] = n]
            \/ live' = live \ {e} /\ UNCHANGED <<name, limiter>>
            \/ /\ e \notin live /\ limiter' = [limiter EXCEPT ![e] = None]
               /\ UNCHANGED <<name, live>>
<1>1. CASE \E n \in Names : Register(e, n)
  BY <1>1 DEF Register, limits
<1>2. CASE Evict(e)
  BY <1>2 DEF Evict, limits
<1>3. CASE RemoveLimiter(e)
  BY <1>3 DEF RemoveLimiter, TypeOK
<1>4. CASE EndSession(e)
  BY <1>4 DEF EndSession, limits
<1>. QED
  BY <1>1, <1>2, <1>3, <1>4 DEF Registry

LEMMA DelStep == TypeOK /\ DelInv /\ [Next]_vars => DelInv'
<1>. SUFFICES ASSUME TypeOK, DelInv, [Next]_vars PROVE DelInv'
  OBVIOUS
<1>1. ASSUME NEW v \in Visitors, Visit(v) PROVE DelInv'
  <2>0. UNCHANGED <<name, live, admin>>
    BY <1>1, VisitShape DEF registry
  <2>1. Registered' /\ Deleted'
    BY <2>0 DEF DelInv, Registered, Deleted
  <2>2. PICK r : VisitStep(v, r) /\ (Comes(v, r) \/ Leaves(r) \/ GoesOn(v, r))
    BY <1>1, VisitShape
  <2>3. \A w \in Visitors : visitor'[w] = IF w = v THEN r ELSE visitor[w]
    BY <2>2 DEF VisitStep, TypeOK
  <2>4. \A a \in r.told : admin[a].at = "ok" /\ (admin[a].op = "delete" => admin[a].key # r.entry)
    <3>1. CASE Comes(v, r)
      BY <3>1 DEF Comes, Told, DelInv, Deleted
    <3>2. CASE Leaves(r)
      BY <3>2 DEF Leaves
    <3>3. CASE GoesOn(v, r)
      BY <3>3 DEF GoesOn, DelInv, CameAfter
    <3>. QED
      BY <2>2, <3>1, <3>2, <3>3
  <2>5. CameAfter'
    BY <2>0, <2>3, <2>4 DEF DelInv, CameAfter
  <2>. QED
    BY <2>1, <2>5 DEF DelInv
<1>2. ASSUME NEW a \in Admins, Order(a) PROVE DelInv'
  <2>0. UNCHANGED <<name, visitor>>
    BY <1>2, OrderShape
  <2>1. PICK r : OrderStep(a, r) /\ OrderKind(a, r)
    BY <1>2, OrderShape
  <2>2. \A b \in Admins : admin'[b] = IF b = a THEN r ELSE admin[b]
    BY <2>1 DEF OrderStep, TypeOK
  <2>3. live' \subseteq live
    BY <2>1 DEF OrderKind, Starts, Fails, Deletes, Finds, Sets, Lists
  <2>4. admin[a].at # "ok"
    BY <2>1, <1>2 DEF Order, Ask, Refuse, Delete, DeleteLimiter, FindLimiter, MakeLimiter,
                      SetLimit, SetACL, DeleteACL
  <2>5. r.key \in Entries => name[r.key] # None
    <3>1. CASE Starts(a, r)
      BY <3>1, NoneFacts, SortsAssumption DEF Starts, Lookup, TypeOK
    <3>2. CASE Fails(a, r)
      BY <3>2, NoneFacts DEF Fails
    <3>3. CASE Same(a, r)
      BY <3>3 DEF Same, DelInv, Registered
    <3>. QED
      BY <2>1, <3>1, <3>2, <3>3 DEF OrderKind, Deletes, Finds, Sets, Lists
  <2>6. Registered'
    BY <2>0, <2>2, <2>5 DEF DelInv, Registered
  <2>7. r.op = "delete" /\ r.at \in {"purge", "ok"} => r.key \notin live'
    <3>1. CASE Starts(a, r)
      BY <3>1 DEF Starts
    <3>2. CASE Fails(a, r)
      BY <3>2 DEF Fails
    <3>3. CASE Deletes(a, r)
      BY <3>3 DEF Deletes, Same, DelInv, Deleted
    <3>4. CASE Finds(a, r)
      BY <3>4 DEF Finds
    <3>5. CASE Sets(a, r) \/ Lists(a, r)
      BY <3>5 DEF Sets, Lists, Same, TypeOK, OrderRecord
    <3>. QED
      BY <2>1, <3>1, <3>2, <3>3, <3>4, <3>5 DEF OrderKind
  <2>8. Deleted'
    BY <2>2, <2>3, <2>7 DEF DelInv, Deleted
  <2>9. CameAfter'
    BY <2>0, <2>2, <2>4 DEF DelInv, CameAfter, TypeOK, VisitRecord
  <2>. QED
    BY <2>6, <2>8, <2>9 DEF DelInv
<1>3. ASSUME NEW e \in Entries, Registry(e) PROVE DelInv'
  <2>1. UNCHANGED <<visitor, admin>>
    BY <1>3, RegistryShape
  <2>2. \A f \in Entries : name[f] # None => name'[f] # None /\ (f \in live' => f \in live)
    BY <1>3, RegistryShape, NoneFacts DEF TypeOK
  <2>3. \A k : k \in live' => k \in Entries
    BY <1>3, RegistryShape DEF TypeOK
  <2>. QED
    BY <2>1, <2>2, <2>3 DEF DelInv, Registered, Deleted, CameAfter
<1>4. CASE UNCHANGED vars
  BY <1>4 DEF vars, registry, DelInv, Registered, Deleted, CameAfter
<1>. QED
  BY <1>1, <1>2, <1>3, <1>4 DEF Next, Registry

-----------------------------------------------------------------------------
LEMMA AclStep == TypeOK /\ DelInv /\ AclInv /\ [Next]_vars => AclInv'
<1>. SUFFICES ASSUME TypeOK, DelInv, AclInv, [Next]_vars PROVE AclInv'
  OBVIOUS
<1>1. ASSUME NEW v \in Visitors, Visit(v) PROVE AclInv'
  <2>0. UNCHANGED <<acl, admin>>
    BY <1>1, VisitShape
  <2>1. AclSet' /\ \A a \in Admins : LastList(a)' => LastList(a)
    BY <2>0 DEF AclInv, AclSet, LastList
  <2>2. PICK r : VisitStep(v, r) /\ (Comes(v, r) \/ Leaves(r) \/ GoesOn(v, r))
    BY <1>1, VisitShape
  <2>3. \A w \in Visitors : visitor'[w] = IF w = v THEN r ELSE visitor[w]
    BY <2>2 DEF VisitStep, TypeOK
  <2>4. ASSUME NEW a \in r.told, a \in Admins,
               admin[a].op = "acl", admin[a].entry = r.entry, LastList(a)
        PROVE  /\ r.kind # "http" => r.acl = admin[a].arg
               /\ r.at \in {"open", "proxied"} => Check(admin[a].arg, r.ip)
    <3>1. CASE Comes(v, r)
      BY <2>4, <3>1 DEF Comes, Told, AclInv, AclSet
    <3>2. CASE Leaves(r)
      BY <3>2 DEF Leaves
    <3>3. CASE GoesOn(v, r)
      <4>1. admin[a].at = "ok" /\ acl[r.entry] = admin[a].arg
        BY <2>4, <3>3 DEF GoesOn, DelInv, CameAfter, AclInv, AclSet
      <4>2. r.kind # "http" => r.acl = admin[a].arg
        BY <2>4, <3>3 DEF GoesOn, AclInv, AclSeen
      <4>3. visitor[v].at = "open" => Check(admin[a].arg, r.ip)
        BY <2>4, <3>3 DEF GoesOn, AclInv, AclSeen
      <4>. QED
        BY <3>3, <4>1, <4>2, <4>3 DEF GoesOn
    <3>. QED
      BY <2>2, <3>1, <3>2, <3>3
  <2>5. \A w \in Visitors : visitor'[w].told \subseteq Admins
    BY <1>1, VisitType DEF TypeOK, VisitRecord
  <2>6. AclSeen'
    BY <2>0, <2>1, <2>3, <2>4, <2>5 DEF AclInv, AclSeen
  <2>. QED
    BY <2>1, <2>6 DEF AclInv
<1>2. ASSUME NEW b \in Admins, Order(b) PROVE AclInv'
  <2>0. UNCHANGED visitor
    BY <1>2, OrderShape
  <2>1. PICK r : OrderStep(b, r) /\ OrderKind(b, r)
    BY <1>2, OrderShape
  <2>2. \A a \in Admins : admin'[a] = IF a = b THEN r ELSE admin[a]
    BY <2>1 DEF OrderStep, TypeOK
  <2>3. admin[b].at # "ok"
    BY <2>1 DEF OrderKind, Starts, Fails, Deletes, Finds, Sets, Lists
  <2>4. \A a \in Admins \ {b} : LastList(a)' => LastList(a)
    BY <2>2, <2>3 DEF LastList
  <2>5. AclSet'
    <3>1. CASE Lists(b, r)
      <4>1. r.op \in {"acl", "noacl"} /\ (r.op = "acl" => acl'[r.entry] = r.arg)
        BY <3>1 DEF Lists, Same, TypeOK, OrderRecord
      <4>2. ASSUME NEW a \in Admins \ {b}, admin[a].op = "acl", LastList(a)'
            PROVE  acl'[admin[a].entry] = acl[admin[a].entry]
        BY <2>2, <3>1, <4>1, <4>2 DEF LastList, Lists, TypeOK, OrderRecord
      <4>. QED
        BY <2>2, <2>4, <4>1, <4>2 DEF AclInv, AclSet
    <3>2. CASE ~Lists(b, r)
      <4>1. UNCHANGED acl
        BY <2>1, <3>2 DEF OrderKind, Starts, Fails, Deletes, Finds, Sets
      <4>2. ~(r.at = "ok" /\ r.op = "acl")
        BY <2>1, <3>2 DEF OrderKind, Starts, Fails, Deletes, Finds, Sets, Same, TypeOK, OrderRecord
      <4>. QED
        BY <2>2, <2>4, <4>1, <4>2 DEF AclInv, AclSet
    <3>. QED
      BY <3>1, <3>2
  <2>6. ASSUME NEW v \in Visitors, NEW a \in visitor[v].told
        PROVE  a \in Admins \ {b}
    BY <2>3 DEF DelInv, CameAfter, TypeOK, VisitRecord
  <2>7. AclSeen'
    BY <2>0, <2>2, <2>4, <2>6 DEF AclInv, AclSeen
  <2>. QED
    BY <2>5, <2>7 DEF AclInv
<1>3. ASSUME NEW e \in Entries, Registry(e) PROVE AclInv'
  <2>1. UNCHANGED <<acl, visitor, admin>>
    BY <1>3, RegistryShape
  <2>. QED
    BY <2>1 DEF AclInv, AclSet, AclSeen, LastList
<1>4. CASE UNCHANGED vars
  BY <1>4 DEF vars, AclInv, AclSet, AclSeen, LastList
<1>. QED
  BY <1>1, <1>2, <1>3, <1>4 DEF Next, Registry

-----------------------------------------------------------------------------
(* The limiters, one step at a time. *)
LEMMA LimVisit ==
  ASSUME TypeOK, LimInv, NEW v \in Visitors, Visit(v)
  PROVE  LimInv'
<1>0. UNCHANGED <<live, setting, admin>>
  BY VisitShape DEF registry
<1>1. PICK r : VisitStep(v, r) /\ (Comes(v, r) \/ Leaves(r) \/ GoesOn(v, r))
  BY VisitShape
<1>2. \A w \in Visitors : visitor'[w] = IF w = v THEN r ELSE visitor[w]
  BY <1>1 DEF VisitStep, TypeOK
<1>3. r.at \in {"idle", "load", "create"} =>
        visitor[v].at \in {"idle", "load", "create"} /\ UNCHANGED limiter
  BY <1>1 DEF Comes, Leaves, GoesOn, Creates
<1>4. \/ UNCHANGED limiter
      \/ \E k \in Keys : /\ limiter[k] = None /\ Fresh(v)
                         /\ limiter' = [limiter EXCEPT ![k] = v]
  BY <1>1 DEF Comes, Leaves, GoesOn, Creates, LimInv, NotYet, Keys
<1>5. ASSUME NEW w \in Workers, w # v, Fresh(w) PROVE Fresh(w)'
  BY <1>0, <1>4, <1>5 DEF Fresh, TypeOK
<1>6. UNCHANGED limiter => (Fresh(v) => Fresh(v)')
  BY <1>0 DEF Fresh
<1>7. NotYet'
  BY <1>0, <1>2, <1>3, <1>5, <1>6, SortsAssumption DEF LimInv, NotYet, Workers
<1>8. OneKey'
  <2>1. CASE UNCHANGED limiter
    BY <1>0, <2>1 DEF LimInv, OneKey
  <2>2. ASSUME NEW k \in Keys, limiter[k] = None, Fresh(v), limiter' = [limiter EXCEPT ![k] = v]
        PROVE  OneKey'
    BY <1>0, <2>2 DEF LimInv, OneKey, Fresh, TypeOK
  <2>. QED
    BY <1>4, <2>1, <2>2
<1>9. LimiterKept'
  <2>1. \A k \in Keys : limiter[k] # None => limiter'[k] = limiter[k]
    BY <1>4 DEF TypeOK
  <2>2. live \subseteq Keys
    BY DEF TypeOK, Keys
  <2>. QED
    BY <1>0, <2>1, <2>2 DEF LimInv, LimiterKept, Setting
<1>10. LimitSet'
  BY <1>0 DEF LimInv, LimitSet, LastLimit, Setting
<1>. QED
  BY <1>7, <1>8, <1>9, <1>10 DEF LimInv

LEMMA LimRegistry ==
  ASSUME TypeOK, DelInv, LimInv, NEW e \in Entries, Registry(e)
  PROVE  LimInv'
<1>0. UNCHANGED <<setting, visitor, admin>>
  BY RegistryShape
<1>1. UNCHANGED limiter \/ (e \notin live /\ limiter' = [limiter EXCEPT ![e] = None])
  <2>1. CASE RemoveLimiter(e)
    BY <2>1 DEF RemoveLimiter, TypeOK
  <2>2. CASE ~RemoveLimiter(e)
    BY <2>2 DEF Registry, Evict, EndSession, Register, limits
  <2>. QED
    BY <2>1, <2>2
<1>2. \A k \in Keys : limiter'[k] \in {limiter[k], None}
  BY <1>1 DEF TypeOK
<1>3. NotYet'
  BY <1>0, <1>2, NoneFacts DEF LimInv, NotYet, Fresh, Workers
<1>4. OneKey'
  BY <1>0, <1>2 DEF LimInv, OneKey
<1>5. ASSUME NEW k, k \in live', \E a \in Admins : k = admin[a].key
      PROVE  k \in live /\ limiter'[k] = limiter[k]
  BY <1>1, <1>5, RegistryShape DEF DelInv, Registered, TypeOK, Keys
<1>6. LimiterKept'
  BY <1>0, <1>5 DEF LimInv, LimiterKept, Setting
<1>7. LimitSet'
  BY <1>0 DEF LimInv, LimitSet, LastLimit, Setting
<1>. QED
  BY <1>3, <1>4, <1>6, <1>7 DEF LimInv

LEMMA LimOrder ==
  ASSUME TypeOK, DelInv, LimInv, NEW b \in Admins, Order(b)
  PROVE  LimInv'
<1>0. UNCHANGED visitor
  BY OrderShape
<1>1. PICK r : OrderStep(b, r) /\ OrderKind(b, r)
  BY OrderShape
<1>2. \A a \in Admins : admin'[a] = IF a = b THEN r ELSE admin[a]
  BY <1>1 DEF OrderStep, TypeOK
<1>. DEFINE R == admin[b]
<1>3. R \in OrderRecord
  BY DEF TypeOK
(* What becomes of the limiters, and of the one the order has.             *)
<1>4. \/ UNCHANGED limiter
      \/ R.at = "purge" /\ limiter' = [limiter EXCEPT ![R.key] = None]
      \/ /\ R.at \in {"limit", "create"} /\ r.at = "rate" /\ r.key = R.key /\ r.lim = b
         /\ limiter[r.key] = None /\ limiter' = [limiter EXCEPT ![r.key] = b]
  BY <1>1 DEF OrderKind, Starts, Fails, Deletes, Finds, Sets, Lists, Same
<1>5. \/ r.lim = None
      \/ r.lim = R.lim /\ r.key = R.key
      \/ /\ R.at \in {"limit", "create"} /\ r.key = R.key
         /\ r.lim \in Workers /\ limiter[r.key] = r.lim /\ UNCHANGED limiter
      \/ /\ R.at \in {"limit", "create"} /\ r.key = R.key /\ r.lim = b
         /\ limiter[r.key] = None /\ limiter' = [limiter EXCEPT ![r.key] = b]
  BY <1>1 DEF OrderKind, Starts, Fails, Deletes, Finds, Sets, Lists, Same
<1>6. R.at \in {"limit", "create", "purge"} => R.key \in Keys
  BY <1>3 DEF OrderRecord
<1>7. NotYet'
  <2>1. r.at \in {"idle", "limit", "create"} =>
          R.at \in {"idle", "limit", "create"} /\ r.lim \in {None, R.lim} /\ UNCHANGED limiter
    BY <1>1 DEF OrderKind, Starts, Fails, Deletes, Finds, Sets, Lists
  <2>2. ASSUME NEW w \in Workers, w # b, Fresh(w) PROVE Fresh(w)'
    <3>1. \A k \in Keys : limiter'[k] # w
      BY <1>4, <1>6, <2>2, NoneFacts DEF Fresh, TypeOK
    <3>2. r.lim # w
      BY <1>5, <1>6, <2>2, NoneFacts DEF Fresh
    <3>. QED
      BY <1>2, <2>2, <3>1, <3>2 DEF Fresh
  <2>3. r.lim \in {None, R.lim} /\ UNCHANGED limiter => (Fresh(b) => Fresh(b)')
    BY <1>2, NoneFacts DEF Fresh, Workers
  <2>. QED
    BY <1>0, <1>2, <2>1, <2>2, <2>3, SortsAssumption DEF LimInv, NotYet, Workers
<1>8. OneKey'
  <2>1. R.at \in {"limit", "create"} => Fresh(b)
    BY DEF LimInv, NotYet
  <2>2. (\A k, j \in Keys : limiter[k] # None /\ limiter[k] = limiter[j] => k = j)'
    BY <1>4, <1>6, <2>1 DEF LimInv, OneKey, Fresh, TypeOK
  <2>3. ASSUME NEW k \in Keys, r.lim # None, limiter'[k] = r.lim PROVE k = r.key
    BY <1>4, <1>5, <1>6, <2>1, <2>3 DEF LimInv, OneKey, Fresh, TypeOK
  <2>4. ASSUME NEW a \in Admins \ {b}, NEW k \in Keys,
               admin[a].lim # None, limiter'[k] = admin[a].lim
        PROVE  k = admin[a].key
    BY <1>4, <1>6, <2>1, <2>4 DEF LimInv, OneKey, Fresh, TypeOK
  <2>5. ASSUME NEW a \in Admins \ {b}, r.lim # None, admin[a].lim = r.lim
        PROVE  admin[a].key = r.key
    BY <1>5, <1>6, <2>1, <2>5 DEF LimInv, OneKey, Fresh
  <2>6. (\A a \in Admins, k \in Keys :
           admin[a].lim # None /\ limiter[k] = admin[a].lim => k = admin[a].key)'
    BY <1>2, <2>3, <2>4
  <2>7. (\A a, c \in Admins :
           admin[a].lim # None /\ admin[a].lim = admin[c].lim => admin[a].key = admin[c].key)'
    BY <1>2, <2>5 DEF LimInv, OneKey
  <2>. QED
    BY <2>2, <2>6, <2>7 DEF OneKey
<1>9. LimiterKept'
  <2>1. live' \subseteq live /\ live \subseteq Keys
    BY <1>1 DEF OrderKind, Starts, Fails, Deletes, Finds, Sets, Lists, TypeOK, Keys
  <2>2. \A k \in live : limiter[k] # None => limiter'[k] = limiter[k]
    BY <1>3, <1>4, <1>6, <2>1 DEF DelInv, Deleted, TypeOK, OrderRecord
  <2>3. r.op = "limit" /\ r.at \in {"rate", "burst", "ok"} =>
          /\ r.lim # None
          /\ r.key \in live' => limiter'[r.key] = r.lim
    <3>1. CASE Finds(b, r)
      BY <1>6, <3>1, NoneFacts DEF Finds, Same, Workers, TypeOK
    <3>2. CASE Sets(b, r)
      BY <1>3, <3>2 DEF Sets, Same, LimInv, LimiterKept, Setting, OrderRecord
    <3>3. CASE Starts(b, r)
      BY <3>3 DEF Starts
    <3>4. CASE Fails(b, r)
      BY <3>4 DEF Fails
    <3>5. CASE Deletes(b, r)
      BY <1>3, <3>5 DEF Deletes, Same, OrderRecord
    <3>6. CASE Lists(b, r)
      BY <1>3, <3>6 DEF Lists, Same, OrderRecord
    <3>. QED
      BY <1>1, <3>1, <3>2, <3>3, <3>4, <3>5, <3>6 DEF OrderKind
  <2>. QED
    BY <1>2, <2>1, <2>2, <2>3 DEF LimInv, LimiterKept, Setting
<1>10. LimitSet'
  <2>1. Setting(b) => r.op = "limit" /\ r.at \in {"rate", "burst", "ok"} /\ r.key = R.key
    BY <1>1, <1>3 DEF OrderKind, Starts, Fails, Deletes, Finds, Sets, Lists, Same, Setting,
                      OrderRecord
  <2>2. \A a \in Admins \ {b} : LastLimit(a)' => LastLimit(a)
    BY <1>2, <2>1 DEF LastLimit, Setting
  <2>3. R.key = r.key => (LastLimit(b)' => LastLimit(b))
    BY <1>2 DEF LastLimit, Setting
  <2>4. CASE Sets(b, r)
    <3>1. Setting(b) /\ r.key = R.key /\ R.lim \in Workers /\ r.lim = R.lim
      BY <1>3, <2>4 DEF Sets, Same, Setting, OrderRecord
    <3>2. ASSUME NEW a \in Admins \ {b}, Setting(a), LastLimit(a)'
          PROVE  setting'[admin[a].lim] = setting[admin[a].lim]
      <4>1. admin[a].lim # R.lim
        BY <1>2, <2>1, <3>1, <3>2 DEF LastLimit, Setting, LimInv, LimiterKept, OneKey
      <4>2. admin[a].lim \in Workers
        BY <3>2 DEF LimInv, LimiterKept, Setting, TypeOK, OrderRecord
      <4>. QED
        BY <2>4, <3>1, <4>1, <4>2 DEF Sets, TypeOK
    <3>3. LastLimit(b)' =>
            /\ setting'[r.lim].rate = r.arg
            /\ r.at = "ok" => setting'[r.lim].burst = r.arg
      BY <2>3, <2>4, <3>1 DEF Sets, Same, LimInv, LimitSet, TypeOK
    <3>4. r.at \in {"burst", "ok"}
      BY <2>4 DEF Sets
    <3>. QED
      BY <1>2, <2>2, <3>2, <3>3, <3>4 DEF LimInv, LimitSet, Setting
  <2>5. CASE ~Sets(b, r)
    <3>1. UNCHANGED setting
      BY <1>1, <2>5 DEF OrderKind, Starts, Fails, Deletes, Finds, Lists
    <3>2. ~(r.op = "limit" /\ r.at \in {"burst", "ok"})
      BY <1>1, <1>3, <2>5 DEF OrderKind, Starts, Fails, Deletes, Finds, Lists, Same, OrderRecord
    <3>. QED
      BY <1>2, <2>2, <3>1, <3>2 DEF LimInv, LimitSet, Setting
  <2>. QED
    BY <2>4, <2>5
<1>. QED
  BY <1>7, <1>8, <1>9, <1>10 DEF LimInv

LEMMA LimStep == TypeOK /\ DelInv /\ LimInv /\ [Next]_vars => LimInv'
<1>. SUFFICES ASSUME TypeOK, DelInv, LimInv, [Next]_vars PROVE LimInv'
  OBVIOUS
<1>1. CASE UNCHANGED vars
  BY <1>1 DEF vars, registry, limits, LimInv, NotYet, Fresh, OneKey, LimiterKept, LimitSet,
              LastLimit, Setting
<1>. QED
  BY <1>1, LimVisit, LimOrder, LimRegistry DEF Next, Registry

-----------------------------------------------------------------------------
LEMMA InitInv == Init => IInv
<1>. SUFFICES ASSUME Init PROVE IInv
  OBVIOUS
<1>1. DelInv
  BY NoneFacts DEF Init, NoVisit, NoOrder, DelInv, Registered, Deleted, CameAfter
<1>2. AclInv
  BY DEF Init, NoVisit, NoOrder, AclInv, AclSet, AclSeen
<1>3. LimInv
  <2>1. \A w \in Workers : Fresh(w)
    BY NoneFacts DEF Init, NoOrder, Fresh
  <2>2. NotYet
    BY <2>1 DEF NotYet, Workers
  <2>3. OneKey /\ LimiterKept /\ LimitSet
    BY DEF Init, NoOrder, OneKey, LimiterKept, LimitSet, Setting
  <2>. QED
    BY <2>2, <2>3 DEF LimInv
<1>. QED
  BY <1>1, <1>2, <1>3, TypeInit DEF IInv

(* Everything that is claimed of visitors and limiters rests on this.      *)
THEOREM Invariant == Spec => []IInv
<1>1. IInv /\ [Next]_vars => IInv'
  BY TypeStep, DelStep, AclStep, LimStep DEF IInv
<1>. QED
  BY InitInv, <1>1, PTL DEF Spec

(* A goroutine at a place has the tunnel, the limiter and the argument it  *)
(* needs there.                                                            *)
THEOREM TypeCorrect == Spec => []TypeOK
<1>1. IInv => TypeOK
  BY DEF IInv
<1>. QED
  BY <1>1, Invariant, PTL

(* Whoever comes after a tunnel was closed by its ID does not reach it.    *)
THEOREM ClosedIsClosed == Spec => []DeleteEnforced
<1>1. IInv => DeleteEnforced
  BY DEF IInv, DelInv, CameAfter, DeleteEnforced
<1>. QED
  BY <1>1, Invariant, PTL

(* Whoever comes after a list was set passes it.                           *)
THEOREM ListsAreEnforced == Spec => []AclEnforced
<1>1. IInv => AclEnforced
  <2>. SUFFICES ASSUME IInv, NEW v \in Visitors, visitor[v].at = "proxied",
                       NEW a \in visitor[v].told, admin[a].op = "acl",
                       admin[a].entry = visitor[v].entry, Alone(a, {"acl", "noacl"})
                PROVE  Check(admin[a].arg, visitor[v].ip)
    BY DEF AclEnforced
  <2>1. LastList(a)
    BY DEF Alone, LastList
  <2>. QED
    BY <2>1 DEF IInv, AclInv, AclSeen
<1>. QED
  BY <1>1, Invariant, PTL

(* A limit that was set is the one the tunnel's limiter has.               *)
THEOREM LimitsAreEnforced == Spec => []LimitEnforced
<1>1. IInv => LimitEnforced
  <2>. SUFFICES ASSUME IInv, NEW a \in Admins, admin[a].op = "limit", admin[a].at = "ok",
                       admin[a].key \in live, Alone(a, {"limit"})
                PROVE  /\ limiter[admin[a].key] # None
                       /\ setting[limiter[admin[a].key]] =
                            [rate |-> admin[a].arg, burst |-> admin[a].arg]
    BY DEF LimitEnforced
  <2>1. Setting(a) /\ LastLimit(a)
    BY DEF Alone, LastLimit, Setting
  <2>2. limiter[admin[a].key] = admin[a].lim /\ admin[a].lim # None
    BY <2>1 DEF IInv, LimInv, LimiterKept
  <2>3. setting[admin[a].lim].rate = admin[a].arg /\ setting[admin[a].lim].burst = admin[a].arg
    BY <2>1 DEF IInv, LimInv, LimitSet
  <2>4. setting[admin[a].lim] \in [rate: Limits \cup {None}, burst: Limits \cup {None}]
    BY <2>2 DEF IInv, TypeOK, OrderRecord
  <2>. QED
    BY <2>2, <2>3, <2>4
<1>. QED
  BY <1>1, Invariant, PTL
=============================================================================
