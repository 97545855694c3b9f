----------------------------- MODULE ServerProofs -----------------------------
(***************************************************************************)
(* Proofs about the server process: what it keeps from one run to the next *)
(* (ServerRestart), for any numbers of clients, browsers and commands, and *)
(* any number of kills and failures; and the start and stop of one run     *)
(* (ServerLifecycle), for any SSH connections and visitors.                *)
(***************************************************************************)
EXTENDS ServerRestart, ServerLifecycle, TLAPS

-----------------------------------------------------------------------------
(* What a place of the start-up says of the file it is about: a file is    *)
(* only made when there is nothing to keep in it, and what is in use is    *)
(* what is in the file.                                                    *)
KeySaved ==
  /\ server = "saving key" => keyFile = Absent
  /\ server = "writing key" => keyFile = Torn
  /\ server \in {"keyed", "saving secret", "writing secret", "serving"} => keyFile = key

SecretSaved ==
  /\ server \in {"saving secret", "writing secret"} => secretFile \notin Secrets
  /\ server = "serving" => secretFile = secret

(* What was told to the outside is in the file.                            *)
KnownSaved == \A c \in Clients : known[c] # Absent => keyFile = known[c]
CookiesSaved == \A b \in Browsers : cookie[b] # Absent => secretFile = cookie[b]

RestartInv == RestartTypeOK /\ KeySaved /\ SecretSaved /\ KnownSaved /\ CookiesSaved

LEMMA RestartInitInv == RestartInit => RestartInv
BY BoundAssumption
   DEF RestartInit, RestartInv, RestartTypeOK, KeySaved, SecretSaved, KnownSaved, CookiesSaved,
       StartPlaces

(* A step that leaves the server, its memory and the files alone and tells *)
(* nobody anything.                                                        *)
LEMMA CommandStep ==
  ASSUME RestartInv, RestartTypeOK', UNCHANGED <<server, memory, files, users>>
  PROVE  RestartInv'
BY DEF RestartInv, KeySaved, SecretSaved, KnownSaved, CookiesSaved, memory, files, users

(* An exit of the server keeps the files.                                  *)
LEMMA ExitStep ==
  ASSUME RestartInv, RestartTypeOK', Exit, UNCHANGED <<files, users>>
  PROVE  RestartInv'
BY DEF RestartInv, KeySaved, SecretSaved, KnownSaved, CookiesSaved, Exit, files, users

LEMMA FailType ==
  ASSUME RestartTypeOK, Fail
  PROVE  failures' \in 0 .. MaxFailures
<1>1. failures \in 0 .. MaxFailures
  BY DEF RestartTypeOK
<1>. QED
  BY <1>1, BoundAssumption DEF Fail

LEMMA MigrateStep ==
  ASSUME RestartInv, NEW p \in Processes, Migrate(p)
  PROVE  RestartInv'
<1>. USE DEF Place, Goto, StartPlaces
<1>1. RestartTypeOK'
  <2>0. CASE CheckTables(p)
    BY <2>0, ServerAssumption
       DEF CheckTables, RestartInv, RestartTypeOK, memory, files, users, Processes
  <2>1. CASE MigrateTables(p)
    BY <2>1, ServerAssumption
       DEF MigrateTables, RestartInv, RestartTypeOK, memory, files, users, Processes
  <2>2. CASE CheckColumn(p)
    BY <2>2, ServerAssumption
       DEF CheckColumn, RestartInv, RestartTypeOK, memory, files, users, Processes
  <2>3. CASE AddColumn(p)
    BY <2>3, ServerAssumption
       DEF AddColumn, RestartInv, RestartTypeOK, memory, files, users, Processes
  <2>. QED
    BY <2>0, <2>1, <2>2, <2>3 DEF Migrate
<1>2. /\ UNCHANGED <<memory, files, users>>
      /\ server' = server \/ server' \in StartPlaces \cup {"down"}
  BY DEF Migrate, CheckTables, MigrateTables, CheckColumn, AddColumn
<1>. QED
  BY <1>1, <1>2
     DEF RestartInv, KeySaved, SecretSaved, KnownSaved, CookiesSaved, memory, files, users

LEMMA RestartStep == RestartInv /\ [RestartNext]_restartVars => RestartInv'
<1>. SUFFICES ASSUME RestartInv, [RestartNext]_restartVars PROVE RestartInv'
  OBVIOUS
<1>. USE OutsidersAssumption, BoundAssumption
<1>. USE DEF StartPlaces
<1>1. CASE StartUp
  <2>1. CASE Start
    BY <2>1 DEF Start, RestartInv, RestartTypeOK, KeySaved, SecretSaved, KnownSaved, CookiesSaved,
                memory, files, users
  <2>2. CASE Migrate(Server)
    BY <2>2, MigrateStep DEF Processes
  <2>3. CASE LoadKey
    <3>1. CASE keyFile = Torn
      <4>1. RestartTypeOK'
        BY <2>3, <3>1 DEF LoadKey, Exit, RestartInv, RestartTypeOK, files, users
      <4>. QED
        BY <2>3, <3>1, <4>1, ExitStep DEF LoadKey
    <3>2. CASE keyFile \notin {Torn, Absent}
      BY <2>3, <3>2 DEF LoadKey, RestartInv, RestartTypeOK, KeySaved, SecretSaved, KnownSaved,
                        CookiesSaved, files, users
    <3>3. CASE keyFile = Absent
      BY <2>3, <3>3 DEF LoadKey, RestartInv, RestartTypeOK, KeySaved, SecretSaved, KnownSaved,
                        CookiesSaved, files, users
    <3>. QED
      BY <3>1, <3>2, <3>3
  <2>4. CASE CreateKeyFile
    <3>1. RestartTypeOK'
      BY <2>4, FailType DEF CreateKeyFile, Exit, RestartInv, RestartTypeOK, memory, users
    <3>2. CASE keyFile' = Torn /\ server' = "writing key" /\ UNCHANGED memory
      <4>1. keyFile = Absent
        BY <2>4 DEF CreateKeyFile, RestartInv, KeySaved
      <4>2. \A c \in Clients : known[c] = Absent
        BY <4>1 DEF RestartInv, KnownSaved
      <4>. QED
        BY <2>4, <3>1, <3>2, <4>2 DEF CreateKeyFile, RestartInv, KeySaved, SecretSaved, KnownSaved,
                                      CookiesSaved, memory, users
    <3>3. CASE Exit /\ UNCHANGED keyFile
      BY <2>4, <3>1, <3>3, ExitStep DEF CreateKeyFile, files
    <3>. QED
      BY <2>4, <3>2, <3>3 DEF CreateKeyFile
  <2>5. CASE WriteKey
    <3>1. RestartTypeOK'
      BY <2>5, FailType DEF WriteKey, Exit, RestartInv, RestartTypeOK, memory, users
    <3>2. CASE keyFile' = key /\ server' = "keyed" /\ UNCHANGED memory
      <4>1. keyFile = Torn
        BY <2>5 DEF WriteKey, RestartInv, KeySaved
      <4>2. \A c \in Clients : known[c] = Absent
        BY <4>1 DEF RestartInv, KnownSaved, RestartTypeOK
      <4>. QED
        BY <2>5, <3>1, <3>2, <4>2 DEF WriteKey, RestartInv, KeySaved, SecretSaved, KnownSaved,
                                      CookiesSaved, memory, users
    <3>3. CASE Exit /\ UNCHANGED keyFile
      BY <2>5, <3>1, <3>3, ExitStep DEF WriteKey, files
    <3>. QED
      BY <2>5, <3>2, <3>3 DEF WriteKey
  <2>6. CASE LoadSecret
    BY <2>6 DEF LoadSecret, RestartInv, RestartTypeOK, KeySaved, SecretSaved, KnownSaved,
                CookiesSaved, files, users
  <2>7. CASE CreateSecretFile
    <3>1. RestartTypeOK'
      BY <2>7, FailType DEF CreateSecretFile, Exit, RestartInv, RestartTypeOK, memory, users
    <3>2. CASE secretFile' = Torn /\ server' = "writing secret" /\ UNCHANGED memory
      <4>1. secretFile \notin Secrets
        BY <2>7 DEF CreateSecretFile, RestartInv, SecretSaved
      <4>2. \A b \in Browsers : cookie[b] = Absent
        BY <4>1 DEF RestartInv, CookiesSaved, RestartTypeOK
      <4>. QED
        BY <2>7, <3>1, <3>2, <4>2 DEF CreateSecretFile, RestartInv, KeySaved, SecretSaved,
                                      KnownSaved, CookiesSaved, memory, users
    <3>3. CASE Exit /\ UNCHANGED secretFile
      BY <2>7, <3>1, <3>3, ExitStep DEF CreateSecretFile, files
    <3>. QED
      BY <2>7, <3>2, <3>3 DEF CreateSecretFile
  <2>8. CASE WriteSecret
    <3>1. RestartTypeOK'
      BY <2>8, FailType DEF WriteSecret, Exit, RestartInv, RestartTypeOK, memory, users
    <3>2. CASE secretFile' = secret /\ server' = "serving" /\ UNCHANGED memory
      <4>1. secretFile \notin Secrets
        BY <2>8 DEF WriteSecret, RestartInv, SecretSaved
      <4>2. \A b \in Browsers : cookie[b] = Absent
        BY <4>1 DEF RestartInv, CookiesSaved, RestartTypeOK
      <4>. QED
        BY <2>8, <3>1, <3>2, <4>2 DEF WriteSecret, RestartInv, KeySaved, SecretSaved, KnownSaved,
                                      CookiesSaved, memory, users
    <3>3. CASE Exit /\ UNCHANGED secretFile
      BY <2>8, <3>1, <3>3, ExitStep DEF WriteSecret, files
    <3>. QED
      BY <2>8, <3>2, <3>3 DEF WriteSecret
  <2>. QED
    BY <1>1, <2>1, <2>2, <2>3, <2>4, <2>5, <2>6, <2>7, <2>8 DEF StartUp
<1>2. CASE Kill
  <2>1. RestartTypeOK'
    BY <1>2, FailType DEF Kill, Exit, RestartInv, RestartTypeOK, files, users
  <2>. QED
    BY <1>2, <2>1, ExitStep DEF Kill
<1>3. ASSUME NEW c \in Commands, CommandNext(c) PROVE RestartInv'
  <2>1. CASE Migrate(c)
    BY <2>1, MigrateStep DEF Processes
  <2>2. CASE Run(c) \/ EndCommand(c) \/ KillCommand(c)
    <3>1. RestartTypeOK'
      BY <2>2, FailType DEF Run, EndCommand, KillCommand, RestartInv, RestartTypeOK, memory, files,
                            users
    <3>. QED
      BY <2>2, <3>1, CommandStep DEF Run, EndCommand, KillCommand
  <2>. QED
    BY <1>3, <2>1, <2>2 DEF CommandNext
<1>4. ASSUME NEW c \in Clients, Connect(c) PROVE RestartInv'
  BY <1>4 DEF Connect, RestartInv, RestartTypeOK, KeySaved, SecretSaved, KnownSaved, CookiesSaved,
              memory, files
<1>5. ASSUME NEW b \in Browsers, Login(b) \/ Logout(b) PROVE RestartInv'
  BY <1>5 DEF Login, Logout, RestartInv, RestartTypeOK, KeySaved, SecretSaved, KnownSaved,
              CookiesSaved, memory, files
<1>6. CASE UNCHANGED restartVars
  BY <1>6 DEF restartVars, RestartInv, RestartTypeOK, KeySaved, SecretSaved, KnownSaved,
              CookiesSaved, memory, files, users
<1>. QED
  BY <1>1, <1>2, <1>3, <1>4, <1>5, <1>6 DEF RestartNext

(* The invariant holds in every reachable state: no kill, failed write or  *)
(* restart of NewServer parts a value in use from the one in its file.     *)
THEOREM RestartInvariant == RestartSpec => []RestartInv
BY RestartInitInv, RestartStep, PTL DEF RestartSpec

(* The server's variables are well typed, and it holds a key and a secret  *)
(* from the step of NewServer that loads or makes them until it exits.     *)
THEOREM RestartTypeCorrect == RestartSpec => []RestartTypeOK
<1>1. RestartInv => RestartTypeOK
  BY DEF RestartInv
<1>. QED
  BY <1>1, RestartInvariant, PTL

(* No client ever meets a second host key (loadOrGenerateHostKey).         *)
THEOREM HostKeyNeverChanges == RestartSpec => []HostKeyStays
<1>1. RestartInv => HostKeyStays
  BY DEF RestartInv, KeySaved, KnownSaved, HostKeyStays
<1>. QED
  BY <1>1, RestartInvariant, PTL

(* Every run of the server accepts the sessions of the runs before         *)
(* (NewJWTManager).                                                        *)
THEOREM SessionsOutliveServer == RestartSpec => []SessionsStay
<1>1. RestartInv => SessionsStay
  BY DEF RestartInv, SecretSaved, CookiesSaved, SessionsStay, Accepted
<1>. QED
  BY <1>1, RestartInvariant, PTL

(* A step that changes neither an identity in the files nor what serves,   *)
(* nor what anyone remembers, is none of ServerIdentity.                   *)
SameKey == keyFile' \in Keys \/ keyFile \in Keys => UNCHANGED keyFile
SameSecret == secretFile' \in Secrets \/ secretFile \in Secrets => UNCHANGED secretFile
SameService == server' = "serving" \/ server = "serving" => UNCHANGED <<server, memory>>

LEMMA IdentityStutter ==
  ASSUME SameKey, SameSecret, SameService, UNCHANGED users
  PROVE  UNCHANGED Identity!vars
BY DEF Identity!vars, savedKey, savedSecret, usedKey, usedSecret,
       SameKey, SameSecret, SameService, memory, users

(* The end of the server process is the end of a run, if it serves.        *)
LEMMA IdentityExit ==
  ASSUME RestartInv, Exit, SameKey, SameSecret, UNCHANGED users
  PROVE  [Identity!Next]_(Identity!vars)
<1>1. CASE server = "serving"
  <2>1. usedKey # Absent
    BY <1>1 DEF RestartInv, RestartTypeOK, StartPlaces, usedKey, usedSecret
  <2>2. usedKey' = Absent /\ usedSecret' = Absent
    BY DEF Exit, usedKey, usedSecret
  <2>3. Identity!Down
    BY <2>1, <2>2 DEF Identity!Down, savedKey, savedSecret, SameKey, SameSecret, users
  <2>. QED
    BY <2>3 DEF Identity!Next
<1>2. CASE server # "serving"
  BY <1>2, IdentityStutter DEF Exit, SameService
<1>. QED
  BY <1>1, <1>2

LEMMA IdentityStep == RestartInv /\ [RestartNext]_restartVars => [Identity!Next]_(Identity!vars)
<1>. SUFFICES ASSUME RestartInv, [RestartNext]_restartVars PROVE [Identity!Next]_(Identity!vars)
  OBVIOUS
<1>. USE OutsidersAssumption DEF savedKey, savedSecret
<1>1. CASE StartUp
  <2>1. CASE Start
    BY <2>1, IdentityStutter DEF Start, SameKey, SameSecret, SameService, files
  <2>2. CASE Migrate(Server)
    BY <2>2, IdentityStutter DEF Migrate, CheckTables, MigrateTables, CheckColumn,
                                 AddColumn, Place, Goto, SameKey, SameSecret, SameService, files
  <2>3. CASE LoadKey
    BY <2>3, IdentityStutter DEF LoadKey, Exit, SameKey, SameSecret, SameService, files
  <2>4. CASE CreateKeyFile
    <3>1. keyFile \notin Keys /\ keyFile' \notin Keys
      BY <2>4 DEF CreateKeyFile, RestartInv, KeySaved
    <3>. QED
      BY <2>4, <3>1, IdentityStutter DEF CreateKeyFile, Exit, SameKey, SameSecret, SameService
  <2>5. CASE WriteKey
    <3>1. keyFile = Torn /\ key \in Keys
      BY <2>5 DEF WriteKey, RestartInv, RestartTypeOK, KeySaved, StartPlaces
    <3>2. CASE keyFile' = key /\ server' = "keyed"
      <4>1. Identity!MakeHostKey
        BY <2>5, <3>1, <3>2 DEF WriteKey, Identity!MakeHostKey, usedKey, usedSecret, users
      <4>. QED
        BY <4>1 DEF Identity!Next
    <3>3. CASE Exit /\ UNCHANGED keyFile
      BY <2>5, <3>3, IdentityExit DEF WriteKey, SameKey, SameSecret
    <3>. QED
      BY <2>5, <3>2, <3>3 DEF WriteKey
  <2>6. CASE LoadSecret
    <3>1. keyFile = key /\ key \in Keys
      BY <2>6 DEF LoadSecret, RestartInv, RestartTypeOK, KeySaved, StartPlaces
    <3>2. CASE secretFile \in Secrets
      <4>1. Identity!Up
        BY <2>6, <3>1, <3>2 DEF LoadSecret, Identity!Up, usedKey, usedSecret, files, users
      <4>. QED
        BY <4>1 DEF Identity!Next
    <3>3. CASE secretFile \notin Secrets
      BY <2>6, <3>3, IdentityStutter DEF LoadSecret, SameKey, SameSecret, SameService, files
    <3>. QED
      BY <3>2, <3>3
  <2>7. CASE CreateSecretFile
    <3>1. secretFile \notin Secrets /\ secretFile' \notin Secrets
      BY <2>7 DEF CreateSecretFile, RestartInv, SecretSaved
    <3>. QED
      BY <2>7, <3>1, IdentityStutter DEF CreateSecretFile, Exit, SameKey, SameSecret, SameService
  <2>8. CASE WriteSecret
    <3>1. /\ keyFile = key /\ key \in Keys
          /\ secretFile \notin Secrets /\ secret \in Secrets
      BY <2>8 DEF WriteSecret, RestartInv, RestartTypeOK, KeySaved, SecretSaved, StartPlaces
    <3>2. CASE secretFile' = secret /\ server' = "serving" /\ UNCHANGED memory
      <4>1. Identity!Up
        BY <2>8, <3>1, <3>2 DEF WriteSecret, Identity!Up, usedKey, usedSecret, memory, users
      <4>. QED
        BY <4>1 DEF Identity!Next
    <3>3. CASE Exit /\ UNCHANGED secretFile
      BY <2>8, <3>3, IdentityExit DEF WriteSecret, SameKey, SameSecret
    <3>. QED
      BY <2>8, <3>2, <3>3 DEF WriteSecret
  <2>. QED
    BY <1>1, <2>1, <2>2, <2>3, <2>4, <2>5, <2>6, <2>7, <2>8 DEF StartUp
<1>2. CASE Kill
  BY <1>2, IdentityExit DEF Kill, SameKey, SameSecret, files
<1>3. ASSUME NEW c \in Commands, CommandNext(c) PROVE [Identity!Next]_(Identity!vars)
  <2>1. c # Server
    BY ServerAssumption
  <2>2. UNCHANGED <<server, memory, files, users>>
    BY <1>3, <2>1 DEF CommandNext, Run, Migrate, CheckTables, MigrateTables, CheckColumn,
                      AddColumn, Goto, EndCommand, KillCommand
  <2>. QED
    BY <2>2, IdentityStutter DEF SameKey, SameSecret, SameService, files
<1>4. ASSUME NEW c \in Clients, Connect(c) PROVE [Identity!Next]_(Identity!vars)
  <2>1. usedKey = key /\ key # Absent
    BY <1>4 DEF Connect, RestartInv, RestartTypeOK, StartPlaces, usedKey, usedSecret
  <2>2. Identity!Connect(c)
    BY <1>4, <2>1 DEF Connect, Identity!Connect, usedKey, usedSecret, memory, files
  <2>. QED
    BY <2>2 DEF Identity!Next
<1>5. ASSUME NEW b \in Browsers, Login(b) \/ Logout(b) PROVE [Identity!Next]_(Identity!vars)
  <2>1. CASE Login(b)
    <3>1. usedSecret = secret /\ secret # Absent
      BY <2>1 DEF Login, RestartInv, RestartTypeOK, usedKey, usedSecret
    <3>2. Identity!Login(b)
      BY <2>1, <3>1 DEF Login, Identity!Login, usedKey, usedSecret, memory, files
    <3>. QED
      BY <3>2 DEF Identity!Next
  <2>2. CASE Logout(b)
    <3>1. Identity!Logout(b)
      BY <2>2 DEF Logout, Identity!Logout, usedKey, usedSecret, memory, files
    <3>. QED
      BY <3>1 DEF Identity!Next
  <2>. QED
    BY <1>5, <2>1, <2>2
<1>6. CASE UNCHANGED restartVars
  BY <1>6, IdentityStutter DEF restartVars, SameKey, SameSecret, SameService, files
<1>. QED
  BY <1>1, <1>2, <1>3, <1>4, <1>5, <1>6 DEF RestartNext

(* The files, the memory and the starts that fail or are killed together   *)
(* implement ServerIdentity: one host key and one secret, for good         *)
(* (loadOrGenerateHostKey, NewJWTManager).                                 *)
THEOREM RefinesIdentity == RestartSpec => ImplementsIdentity
<1>1. RestartInit => Identity!Init
  BY OutsidersAssumption DEF RestartInit, Identity!Init, savedKey, savedSecret, usedKey, usedSecret
<1>. QED
  BY <1>1, IdentityStep, RestartInvariant, PTL DEF RestartSpec, ImplementsIdentity, Identity!Spec

-----------------------------------------------------------------------------
(* One run. What Start and Stop keep of each subsystem. *)
Tables ==
  /\ sub \in [Subs -> {"starting", "redirecting", "listening", "serving", "returned"}]
  /\ errCh \in [Subs -> {None, "nil", "error"}]
  /\ listener \in [Subs -> {"none", "open", "closed"}] /\ down \in [Subs -> BOOLEAN]
Sent == \A s \in Subs : (sub[s] = "returned") <=> (errCh[s] # None)

(* The places of the orchestrator, the watchers and the redirect server,   *)
(* and the connections and requests.                                       *)
Places ==
  /\ ctx \in BOOLEAN /\ errs \in BOOLEAN /\ tcp \in BOOLEAN /\ store \in BOOLEAN
  /\ main \in {"select", "admin", "admin drains", "redirect", "edge", "edge drains", "tcp", "ssh",
               "store", "returned"}
  /\ result \in {None, "nil", "error"} /\ (main = "returned" => result # None)
  /\ watcher \in [Subs -> {"none", "waiting", "redirected", "done"}]
  /\ redirect \in {"off", "none", "made", "open", "failed", "serving", "ended"}
  /\ marked \in BOOLEAN /\ (redirect = "ended" => marked)
Users ==
  /\ conn \in [Conns -> {"none", "handshake", "open", "listed"}]
  /\ active \subseteq Visitors

(* The places of Stop at which a subsystem has been stopped. *)
AfterAdmin == {"admin drains", "redirect", "edge", "edge drains", "tcp", "ssh", "store"}
AfterEdge  == {"edge drains", "tcp", "ssh", "store"}

(* A marked HTTP server does not accept, and what Stop has passed is       *)
(* stopped.                                                                *)
MarkedIsStopped ==
  \A s \in Http : down[s] => ~(sub[s] = "serving" /\ listener[s] = "open")

StopsInOrder ==
  /\ ~store => main = "returned"
  /\ main \in AfterAdmin \/ ~store => down["admin"]
  /\ main \in AfterEdge \/ ~store => down["edge"]
  /\ main \in {"ssh", "store"} \/ ~store => ~tcp

(* While Start waits, only the watchers stop a subsystem, after the signal; *)
(* a subsystem ends without an error only when it is stopped.              *)
NilMeansStopped == \A s \in Subs : errCh[s] = "nil" => down[s]
StopMeansSignal ==
  /\ (main = "select" /\ \E s \in Subs : down[s]) => ctx
  /\ result = None => main # "returned"
  /\ result = None /\ main # "select" => ctx
  /\ main = "select" => result = None /\ ~errs
  /\ result = "nil" => main = "returned"

LifeInv ==
  /\ TypeOK /\ MarkedIsStopped /\ StopsInOrder /\ NilMeansStopped /\ StopMeansSignal
  /\ ResultExplained

LEMMA LifeTables == TypeOK <=> Places /\ Tables /\ Sent /\ Users
BY DEF TypeOK, Places, Tables, Sent, Users

(* The steps of connections and requests. *)
LEMMA LifeUsers ==
  ASSUME \/ \E c \in Conns : Accept(c) \/ Handshake(c) \/ List(c) \/ Drop(c)
         \/ \E v \in Visitors : Arrive(v) \/ Served(v)
         \/ UNCHANGED vars
  PROVE  UNCHANGED <<ctx, starts, closes>>
BY DEF Accept, Handshake, List, Drop, Served, Arrive, vars

LEMMA LifeInit == Init => LifeInv
<1>. USE NoneAssumption DEF Init, Http, Subs
<1>1. Init => Tables /\ Sent
  BY DEF Tables, Sent
<1>2. Init => Places
  <2>1. Init => watcher \in [Subs -> {"none", "waiting", "redirected", "done"}]
    OBVIOUS
  <2>2. Init => ctx \in BOOLEAN /\ tcp \in BOOLEAN /\ store \in BOOLEAN /\ marked \in BOOLEAN
    OBVIOUS
  <2>3. Init => redirect \in {"off", "none"} /\ main = "select" /\ result = None /\ errs = FALSE
    OBVIOUS
  <2>. QED
    BY <2>1, <2>2, <2>3 DEF Places
<1>3. Init => Users
  BY DEF Users
<1>4. Init => MarkedIsStopped /\ StopsInOrder
  BY DEF MarkedIsStopped, StopsInOrder, AfterAdmin, AfterEdge
<1>5. Init => StopMeansSignal
  BY DEF StopMeansSignal
<1>6. Init => NilMeansStopped /\ ResultExplained
  BY DEF NilMeansStopped, ResultExplained
<1>. QED
  BY <1>1, <1>2, <1>3, <1>4, <1>5, <1>6, LifeTables DEF LifeInv

LEMMA UsersStep ==
  ASSUME Users, [Next]_vars
  PROVE  Users'
<1>. USE DEF Users, starts, port80, outcome, closes
<1>1. CASE UNCHANGED <<conn, active>>
  BY <1>1
<1>2. CASE conn' = [c \in Conns |-> IF conn[c] = "listed" THEN "none" ELSE conn[c]]
           /\ UNCHANGED active
  BY <1>2
<1>3. ASSUME NEW c \in Conns, Accept(c) \/ Handshake(c) \/ List(c) \/ Drop(c)
      PROVE  Users'
  BY <1>3 DEF Accept, Handshake, List, Drop
<1>4. ASSUME NEW v \in Visitors, Arrive(v) \/ Served(v) PROVE Users'
  BY <1>4 DEF Arrive, Served
<1>5. ASSUME NEW s \in Failing, ServeFails(s) PROVE Users'
  BY <1>1, <1>5 DEF ServeFails
<1>6. ASSUME Orchestrator PROVE Users'
  BY <1>1, <1>2, <1>6 DEF Orchestrator, Select, StopRedirect, StopTCP,
     StopSSHServer, StopSSH, CloseStore, StopHttp, Shutdown, DrainEnds
<1>7. ASSUME NEW s \in Subs, Starting(s) \/ Serving(s) PROVE Users'
  BY <1>1, <1>7 DEF Starting, Listen, ListenFails, MakeRedirect,
     ListenRedirect, ServeRedirect, Serving, Serve, LoopEnds
<1>8. ASSUME NEW s \in Subs, Watching(s) PROVE Users'
  BY <1>1, <1>2, <1>8 DEF Watching, WatcherStops, WatcherStopsRedirect,
     StopSSH, Shutdown
<1>. QED
  BY <1>1, <1>3, <1>4, <1>5, <1>6, <1>7, <1>8 DEF Next, Cancel, vars

(* Steps of the subsystems that leave the orchestrator and the watchers.   *)
LEMMA PlacesKept ==
  ASSUME Places, UNCHANGED <<ctx, main, outcome, watcher, port80, tcp, store>>
  PROVE  Places'
<1>1. ctx' = ctx /\ errs' = errs /\ tcp' = tcp /\ store' = store /\ marked' = marked
  BY DEF outcome, port80
<1>2. main' = main /\ result' = result /\ watcher' = watcher /\ redirect' = redirect
  BY DEF outcome, port80
<1>3. /\ ctx' \in BOOLEAN /\ errs' \in BOOLEAN /\ tcp' \in BOOLEAN /\ store' \in BOOLEAN
      /\ marked' \in BOOLEAN
  BY <1>1 DEF Places
<1>4. redirect' = "ended" => marked'
  BY <1>1, <1>2 DEF Places
<1>5. watcher' \in [Subs -> {"none", "waiting", "redirected", "done"}]
  BY <1>2 DEF Places
<1>6. /\ result' \in {None, "nil", "error"} /\ (main' = "returned" => result' # None)
      /\ redirect' \in {"off", "none", "made", "open", "failed", "serving", "ended"}
  BY <1>2 DEF Places
<1>7. main' \in {"select", "admin", "admin drains", "redirect", "edge", "edge drains", "tcp", "ssh",
               "store", "returned"}
  BY <1>2 DEF Places
<1>. QED
  BY <1>3, <1>4, <1>5, <1>6, <1>7 DEF Places

LEMMA PlacesStep ==
  ASSUME Places, [Next]_vars
  PROVE  Places'
<1>. USE NoneAssumption DEF Places, Http, Subs, starts, port80, outcome,
       closes
<1>1. CASE Cancel
  BY <1>1 DEF Cancel
<1>2. CASE Select
  BY <1>2 DEF Select
<1>3. CASE StopRedirect
  BY <1>3 DEF StopRedirect, ShutdownRedirect
<1>4. CASE StopTCP
  BY <1>4 DEF StopTCP
<1>5. CASE StopSSHServer
  BY <1>5 DEF StopSSHServer, StopSSH, StopErr
<1>6. CASE CloseStore
  BY <1>6 DEF CloseStore, StopErr
<1>7. ASSUME NEW s \in Http, StopHttp(s) \/ DrainEnds(s) PROVE Places'
  <2>1. CASE StopHttp(s)
    BY <2>1 DEF StopHttp, Shutdown
  <2>2. CASE DrainEnds(s)
    BY <2>2 DEF DrainEnds, StopErr
  <2>. QED
    BY <1>7, <2>1, <2>2
<1>8. ASSUME NEW s \in Subs, Starting(s) PROVE Places'
  <2>1. CASE Listen(s)
    <3>1. watcher' \in [Subs -> {"none", "waiting", "redirected", "done"}]
      BY <2>1 DEF Listen
    <3>2. UNCHANGED <<ctx, main, result, errs, redirect, marked, tcp, store>>
      BY <2>1 DEF Listen
    <3>3. /\ ctx' \in BOOLEAN /\ errs' \in BOOLEAN /\ tcp' \in BOOLEAN /\ store' \in BOOLEAN
          /\ marked' \in BOOLEAN
      BY <3>2
    <3>4. main' = main /\ result' = result /\ redirect' = redirect /\ marked' = marked
      BY <3>2
    <3>. QED
      BY <3>1, <3>3, <3>4
  <2>2. CASE ListenFails(s)
    BY <2>2, PlacesKept DEF ListenFails
  <2>3. CASE MakeRedirect
    BY <2>3 DEF MakeRedirect
  <2>4. CASE ListenRedirect
    BY <2>4 DEF ListenRedirect
  <2>5. CASE ServeRedirect
    BY <2>5 DEF ServeRedirect
  <2>. QED
    BY <1>8, <2>1, <2>2, <2>3, <2>4, <2>5 DEF Starting
<1>9. ASSUME NEW s \in Subs, Watching(s) PROVE Places'
  <2>1. CASE WatcherStopsRedirect
    BY <2>1 DEF WatcherStopsRedirect, ShutdownRedirect
  <2>2. CASE WatcherStops(s) /\ s = "ssh"
    BY <2>2 DEF WatcherStops, StopSSH
  <2>3. CASE WatcherStops(s) /\ s # "ssh"
    BY <2>3 DEF WatcherStops, Shutdown
  <2>. QED
    BY <1>9, <2>1, <2>2, <2>3 DEF Watching
<1>10. ASSUME NEW s \in Subs, Serving(s) PROVE Places'
  <2>1. CASE Serve(s)
    BY <2>1, PlacesKept DEF Serve
  <2>2. CASE LoopEnds(s)
    BY <2>2, PlacesKept DEF LoopEnds
  <2>. QED
    BY <1>10, <2>1, <2>2 DEF Serving
<1>11. ASSUME NEW s \in Failing, ServeFails(s) PROVE Places'
  BY <1>11, PlacesKept DEF ServeFails
<1>12. CASE UNCHANGED <<ctx, starts, closes>>
  BY <1>12, PlacesKept
<1>. QED
  BY <1>1, <1>2, <1>3, <1>4, <1>5, <1>6, <1>7, <1>8, <1>9, <1>10, <1>11, <1>12, LifeUsers DEF
     Next, Orchestrator

LEMMA TablesStep ==
  ASSUME Tables, [Next]_vars
  PROVE  Tables'
<1>. USE DEF Tables, Http, Subs, starts, port80, outcome, closes
<1>1. CASE Cancel
  BY <1>1 DEF Cancel
<1>2. CASE Select
  BY <1>2 DEF Select
<1>3. CASE StopRedirect
  BY <1>3 DEF StopRedirect, ShutdownRedirect
<1>4. CASE StopTCP
  BY <1>4 DEF StopTCP
<1>5. CASE StopSSHServer
  BY <1>5 DEF StopSSHServer, StopSSH, StopErr
<1>6. CASE CloseStore
  BY <1>6 DEF CloseStore, StopErr
<1>7. ASSUME NEW s \in Http, StopHttp(s) \/ DrainEnds(s) PROVE Tables'
  <2>1. CASE StopHttp(s)
    BY <2>1 DEF StopHttp, Shutdown
  <2>2. CASE DrainEnds(s)
    BY <2>2 DEF DrainEnds, StopErr
  <2>. QED
    BY <1>7, <2>1, <2>2
<1>8. ASSUME NEW s \in Subs, Starting(s) PROVE Tables'
  <2>1. CASE Listen(s)
    BY <2>1 DEF Listen
  <2>2. CASE ListenFails(s)
    BY <2>2 DEF ListenFails, Return
  <2>3. CASE MakeRedirect
    BY <2>3 DEF MakeRedirect
  <2>4. CASE ListenRedirect
    BY <2>4 DEF ListenRedirect
  <2>5. CASE ServeRedirect
    BY <2>5 DEF ServeRedirect
  <2>. QED
    BY <1>8, <2>1, <2>2, <2>3, <2>4, <2>5 DEF Starting
<1>9. ASSUME NEW s \in Subs, Watching(s) PROVE Tables'
  <2>1. CASE WatcherStopsRedirect
    BY <2>1 DEF WatcherStopsRedirect, ShutdownRedirect
  <2>2. CASE WatcherStops(s) /\ s = "ssh"
    BY <2>2 DEF WatcherStops, StopSSH
  <2>3. CASE WatcherStops(s) /\ s # "ssh"
    BY <2>3 DEF WatcherStops, Shutdown
  <2>. QED
    BY <1>9, <2>1, <2>2, <2>3 DEF Watching
<1>10. ASSUME NEW s \in Subs, Serving(s) PROVE Tables'
  <2>1. CASE Serve(s)
    BY <2>1 DEF Serve, Return
  <2>2. CASE LoopEnds(s)
    BY <2>2 DEF LoopEnds, Return
  <2>. QED
    BY <1>10, <2>1, <2>2 DEF Serving
<1>11. ASSUME NEW s \in Failing, ServeFails(s) PROVE Tables'
  BY <1>11, FailingAssumption DEF ServeFails, Return
<1>12. CASE UNCHANGED <<ctx, starts, closes>>
  BY <1>12
<1>. QED
  BY <1>1, <1>2, <1>3, <1>4, <1>5, <1>6, <1>7, <1>8, <1>9, <1>10, <1>11, <1>12, LifeUsers DEF
     Next, Orchestrator

LEMMA SentStep ==
  ASSUME Tables, Sent, [Next]_vars
  PROVE  Sent'
<1>. USE NoneAssumption DEF Tables, Sent, Http, Subs, starts, port80, outcome,
       closes
<1>1. CASE Cancel
  BY <1>1 DEF Cancel
<1>2. CASE Select
  BY <1>2 DEF Select
<1>3. CASE StopRedirect
  BY <1>3 DEF StopRedirect, ShutdownRedirect
<1>4. CASE StopTCP
  BY <1>4 DEF StopTCP
<1>5. CASE StopSSHServer
  BY <1>5 DEF StopSSHServer, StopSSH, StopErr
<1>6. CASE CloseStore
  BY <1>6 DEF CloseStore, StopErr
<1>7. ASSUME NEW s \in Http, StopHttp(s) \/ DrainEnds(s) PROVE Sent'
  <2>1. CASE StopHttp(s)
    BY <2>1 DEF StopHttp, Shutdown
  <2>2. CASE DrainEnds(s)
    BY <2>2 DEF DrainEnds, StopErr
  <2>. QED
    BY <1>7, <2>1, <2>2
<1>8. ASSUME NEW s \in Subs, Starting(s) PROVE Sent'
  <2>1. CASE Listen(s)
    BY <2>1 DEF Listen
  <2>2. CASE ListenFails(s)
    BY <2>2 DEF ListenFails, Return
  <2>3. CASE MakeRedirect
    BY <2>3 DEF MakeRedirect
  <2>4. CASE ListenRedirect
    BY <2>4 DEF ListenRedirect
  <2>5. CASE ServeRedirect
    BY <2>5 DEF ServeRedirect
  <2>. QED
    BY <1>8, <2>1, <2>2, <2>3, <2>4, <2>5 DEF Starting
<1>9. ASSUME NEW s \in Subs, Watching(s) PROVE Sent'
  <2>1. CASE WatcherStopsRedirect
    BY <2>1 DEF WatcherStopsRedirect, ShutdownRedirect
  <2>2. CASE WatcherStops(s) /\ s = "ssh"
    BY <2>2 DEF WatcherStops, StopSSH
  <2>3. CASE WatcherStops(s) /\ s # "ssh"
    BY <2>3 DEF WatcherStops, Shutdown
  <2>. QED
    BY <1>9, <2>1, <2>2, <2>3 DEF Watching
<1>10. ASSUME NEW s \in Subs, Serving(s) PROVE Sent'
  <2>1. CASE Serve(s)
    BY <2>1 DEF Serve, Return
  <2>2. CASE LoopEnds(s)
    BY <2>2 DEF LoopEnds, Return
  <2>. QED
    BY <1>10, <2>1, <2>2 DEF Serving
<1>11. ASSUME NEW s \in Failing, ServeFails(s) PROVE Sent'
  BY <1>11, FailingAssumption DEF ServeFails, Return
<1>12. CASE UNCHANGED <<ctx, starts, closes>>
  BY <1>12
<1>. QED
  BY <1>1, <1>2, <1>3, <1>4, <1>5, <1>6, <1>7, <1>8, <1>9, <1>10, <1>11, <1>12, LifeUsers DEF
     Next, Orchestrator

LEMMA LifeTypeStep ==
  ASSUME TypeOK, [Next]_vars
  PROVE  TypeOK'
<1>1. Places /\ Tables /\ Sent /\ Users
  BY LifeTables
<1>2. Places' /\ Tables' /\ Sent' /\ Users'
  BY <1>1, PlacesStep, TablesStep, SentStep, UsersStep
<1>. QED
  BY <1>2 DEF TypeOK, Places, Tables, Sent, Users

LEMMA MarkedStep ==
  ASSUME LifeInv, [Next]_vars
  PROVE  MarkedIsStopped'
<1>. USE LifeTables DEF LifeInv, Tables, MarkedIsStopped, Http, Subs, starts,
       port80, outcome, closes
<1>1. CASE Cancel
  BY <1>1 DEF Cancel
<1>2. CASE Select
  BY <1>2 DEF Select
<1>3. CASE StopRedirect
  BY <1>3 DEF StopRedirect, ShutdownRedirect
<1>4. CASE StopTCP
  BY <1>4 DEF StopTCP
<1>5. CASE StopSSHServer
  BY <1>5 DEF StopSSHServer, StopSSH, StopErr
<1>6. CASE CloseStore
  BY <1>6 DEF CloseStore, StopErr
<1>7. ASSUME NEW s \in Http, StopHttp(s) \/ DrainEnds(s) PROVE MarkedIsStopped'
  <2>1. CASE StopHttp(s)
    BY <2>1 DEF StopHttp, Shutdown
  <2>2. CASE DrainEnds(s)
    BY <2>2 DEF DrainEnds, StopErr
  <2>. QED
    BY <1>7, <2>1, <2>2
<1>8. ASSUME NEW s \in Subs, Starting(s) PROVE MarkedIsStopped'
  <2>1. CASE Listen(s)
    BY <2>1 DEF Listen
  <2>2. CASE ListenFails(s)
    BY <2>2 DEF ListenFails, Return
  <2>3. CASE MakeRedirect
    BY <2>3 DEF MakeRedirect
  <2>4. CASE ListenRedirect
    BY <2>4 DEF ListenRedirect
  <2>5. CASE ServeRedirect
    BY <2>5 DEF ServeRedirect
  <2>. QED
    BY <1>8, <2>1, <2>2, <2>3, <2>4, <2>5 DEF Starting
<1>9. ASSUME NEW s \in Subs, Watching(s) PROVE MarkedIsStopped'
  <2>1. CASE WatcherStopsRedirect
    BY <2>1 DEF WatcherStopsRedirect, ShutdownRedirect
  <2>2. CASE WatcherStops(s) /\ s = "ssh"
    BY <2>2 DEF WatcherStops, StopSSH
  <2>3. CASE WatcherStops(s) /\ s # "ssh"
    BY <2>3 DEF WatcherStops, Shutdown
  <2>. QED
    BY <1>9, <2>1, <2>2, <2>3 DEF Watching
<1>10. ASSUME NEW s \in Subs, Serving(s) PROVE MarkedIsStopped'
  <2>1. CASE Serve(s)
    BY <2>1 DEF Serve, Return
  <2>2. CASE LoopEnds(s)
    BY <2>2 DEF LoopEnds, Return
  <2>. QED
    BY <1>10, <2>1, <2>2 DEF Serving
<1>11. ASSUME NEW s \in Failing, ServeFails(s) PROVE MarkedIsStopped'
  BY <1>11, FailingAssumption DEF ServeFails, Return
<1>12. CASE UNCHANGED <<ctx, starts, closes>>
  BY <1>12
<1>. QED
  BY <1>1, <1>2, <1>3, <1>4, <1>5, <1>6, <1>7, <1>8, <1>9, <1>10, <1>11, <1>12, LifeUsers DEF
     Next, Orchestrator

LEMMA OrderStep ==
  ASSUME LifeInv, [Next]_vars
  PROVE  StopsInOrder'
<1>. USE LifeTables DEF LifeInv, Tables, StopsInOrder, AfterAdmin, AfterEdge, Http,
       Subs, starts, port80, outcome, closes
<1>1. CASE Cancel
  BY <1>1 DEF Cancel
<1>2. CASE Select
  BY <1>2 DEF Select
<1>3. CASE StopRedirect
  BY <1>3 DEF StopRedirect, ShutdownRedirect
<1>4. CASE StopTCP
  BY <1>4 DEF StopTCP
<1>5. CASE StopSSHServer
  BY <1>5 DEF StopSSHServer, StopSSH, StopErr
<1>6. CASE CloseStore
  BY <1>6 DEF CloseStore, StopErr
<1>7. ASSUME NEW s \in Http, StopHttp(s) \/ DrainEnds(s) PROVE StopsInOrder'
  <2>1. CASE StopHttp(s)
    BY <2>1 DEF StopHttp, Shutdown
  <2>2. CASE DrainEnds(s)
    BY <2>2 DEF DrainEnds, StopErr
  <2>. QED
    BY <1>7, <2>1, <2>2
<1>8. ASSUME NEW s \in Subs, Starting(s) PROVE StopsInOrder'
  <2>1. CASE Listen(s)
    BY <2>1 DEF Listen
  <2>2. CASE ListenFails(s)
    BY <2>2 DEF ListenFails, Return
  <2>3. CASE MakeRedirect
    BY <2>3 DEF MakeRedirect
  <2>4. CASE ListenRedirect
    BY <2>4 DEF ListenRedirect
  <2>5. CASE ServeRedirect
    BY <2>5 DEF ServeRedirect
  <2>. QED
    BY <1>8, <2>1, <2>2, <2>3, <2>4, <2>5 DEF Starting
<1>9. ASSUME NEW s \in Subs, Watching(s) PROVE StopsInOrder'
  <2>1. CASE WatcherStopsRedirect
    BY <2>1 DEF WatcherStopsRedirect, ShutdownRedirect
  <2>2. CASE WatcherStops(s) /\ s = "ssh"
    BY <2>2 DEF WatcherStops, StopSSH
  <2>3. CASE WatcherStops(s) /\ s # "ssh"
    BY <2>3 DEF WatcherStops, Shutdown
  <2>. QED
    BY <1>9, <2>1, <2>2, <2>3 DEF Watching
<1>10. ASSUME NEW s \in Subs, Serving(s) PROVE StopsInOrder'
  <2>1. CASE Serve(s)
    BY <2>1 DEF Serve, Return
  <2>2. CASE LoopEnds(s)
    BY <2>2 DEF LoopEnds, Return
  <2>. QED
    BY <1>10, <2>1, <2>2 DEF Serving
<1>11. ASSUME NEW s \in Failing, ServeFails(s) PROVE StopsInOrder'
  BY <1>11, FailingAssumption DEF ServeFails, Return
<1>12. CASE UNCHANGED <<ctx, starts, closes>>
  BY <1>12
<1>. QED
  BY <1>1, <1>2, <1>3, <1>4, <1>5, <1>6, <1>7, <1>8, <1>9, <1>10, <1>11, <1>12, LifeUsers DEF
     Next, Orchestrator

LEMMA NilStep ==
  ASSUME LifeInv, [Next]_vars
  PROVE  NilMeansStopped'
<1>. USE LifeTables, NoneAssumption DEF LifeInv, Tables, NilMeansStopped, Http,
       Subs, starts, port80, outcome, closes
<1>1. CASE Cancel
  BY <1>1 DEF Cancel
<1>2. CASE Select
  BY <1>2 DEF Select
<1>3. CASE StopRedirect
  BY <1>3 DEF StopRedirect, ShutdownRedirect
<1>4. CASE StopTCP
  BY <1>4 DEF StopTCP
<1>5. CASE StopSSHServer
  BY <1>5 DEF StopSSHServer, StopSSH, StopErr
<1>6. CASE CloseStore
  BY <1>6 DEF CloseStore, StopErr
<1>7. ASSUME NEW s \in Http, StopHttp(s) \/ DrainEnds(s) PROVE NilMeansStopped'
  <2>1. CASE StopHttp(s)
    BY <2>1 DEF StopHttp, Shutdown
  <2>2. CASE DrainEnds(s)
    BY <2>2 DEF DrainEnds, StopErr
  <2>. QED
    BY <1>7, <2>1, <2>2
<1>8. ASSUME NEW s \in Subs, Starting(s) PROVE NilMeansStopped'
  <2>1. CASE Listen(s)
    BY <2>1 DEF Listen
  <2>2. CASE ListenFails(s)
    BY <2>2 DEF ListenFails, Return
  <2>3. CASE MakeRedirect
    BY <2>3 DEF MakeRedirect
  <2>4. CASE ListenRedirect
    BY <2>4 DEF ListenRedirect
  <2>5. CASE ServeRedirect
    BY <2>5 DEF ServeRedirect
  <2>. QED
    BY <1>8, <2>1, <2>2, <2>3, <2>4, <2>5 DEF Starting
<1>9. ASSUME NEW s \in Subs, Watching(s) PROVE NilMeansStopped'
  <2>1. CASE WatcherStopsRedirect
    BY <2>1 DEF WatcherStopsRedirect, ShutdownRedirect
  <2>2. CASE WatcherStops(s) /\ s = "ssh"
    BY <2>2 DEF WatcherStops, StopSSH
  <2>3. CASE WatcherStops(s) /\ s # "ssh"
    BY <2>3 DEF WatcherStops, Shutdown
  <2>. QED
    BY <1>9, <2>1, <2>2, <2>3 DEF Watching
<1>10. ASSUME NEW s \in Subs, Serving(s) PROVE NilMeansStopped'
  <2>1. CASE Serve(s)
    BY <2>1 DEF Serve, Return
  <2>2. CASE LoopEnds(s)
    BY <2>2 DEF LoopEnds, Return
  <2>. QED
    BY <1>10, <2>1, <2>2 DEF Serving
<1>11. ASSUME NEW s \in Failing, ServeFails(s) PROVE NilMeansStopped'
  BY <1>11, FailingAssumption DEF ServeFails, Return
<1>12. CASE UNCHANGED <<ctx, starts, closes>>
  BY <1>12
<1>. QED
  BY <1>1, <1>2, <1>3, <1>4, <1>5, <1>6, <1>7, <1>8, <1>9, <1>10, <1>11, <1>12, LifeUsers DEF
     Next, Orchestrator

LEMMA SignalStep ==
  ASSUME LifeInv, [Next]_vars
  PROVE  StopMeansSignal'
<1>. USE LifeTables, NoneAssumption DEF LifeInv, Tables, NilMeansStopped, StopMeansSignal,
       Http, Subs, starts, port80, outcome, closes
<1>1. CASE Cancel
  BY <1>1 DEF Cancel
<1>2. CASE Select
  BY <1>2 DEF Select
<1>3. CASE StopRedirect
  BY <1>3 DEF StopRedirect, ShutdownRedirect
<1>4. CASE StopTCP
  BY <1>4 DEF StopTCP
<1>5. CASE StopSSHServer
  BY <1>5 DEF StopSSHServer, StopSSH, StopErr
<1>6. CASE CloseStore
  BY <1>6 DEF CloseStore, StopErr
<1>7. ASSUME NEW s \in Http, StopHttp(s) \/ DrainEnds(s) PROVE StopMeansSignal'
  <2>1. CASE StopHttp(s)
    BY <2>1 DEF StopHttp, Shutdown
  <2>2. CASE DrainEnds(s)
    BY <2>2 DEF DrainEnds, StopErr
  <2>. QED
    BY <1>7, <2>1, <2>2
<1>8. ASSUME NEW s \in Subs, Starting(s) PROVE StopMeansSignal'
  <2>1. CASE Listen(s)
    BY <2>1 DEF Listen
  <2>2. CASE ListenFails(s)
    BY <2>2 DEF ListenFails, Return
  <2>3. CASE MakeRedirect
    BY <2>3 DEF MakeRedirect
  <2>4. CASE ListenRedirect
    BY <2>4 DEF ListenRedirect
  <2>5. CASE ServeRedirect
    BY <2>5 DEF ServeRedirect
  <2>. QED
    BY <1>8, <2>1, <2>2, <2>3, <2>4, <2>5 DEF Starting
<1>9. ASSUME NEW s \in Subs, Watching(s) PROVE StopMeansSignal'
  <2>1. CASE WatcherStopsRedirect
    BY <2>1 DEF WatcherStopsRedirect, ShutdownRedirect
  <2>2. CASE WatcherStops(s) /\ s = "ssh"
    BY <2>2 DEF WatcherStops, StopSSH
  <2>3. CASE WatcherStops(s) /\ s # "ssh"
    BY <2>3 DEF WatcherStops, Shutdown
  <2>. QED
    BY <1>9, <2>1, <2>2, <2>3 DEF Watching
<1>10. ASSUME NEW s \in Subs, Serving(s) PROVE StopMeansSignal'
  <2>1. CASE Serve(s)
    BY <2>1 DEF Serve, Return
  <2>2. CASE LoopEnds(s)
    BY <2>2 DEF LoopEnds, Return
  <2>. QED
    BY <1>10, <2>1, <2>2 DEF Serving
<1>11. ASSUME NEW s \in Failing, ServeFails(s) PROVE StopMeansSignal'
  BY <1>11, FailingAssumption DEF ServeFails, Return
<1>12. CASE UNCHANGED <<ctx, starts, closes>>
  BY <1>12
<1>. QED
  BY <1>1, <1>2, <1>3, <1>4, <1>5, <1>6, <1>7, <1>8, <1>9, <1>10, <1>11, <1>12, LifeUsers DEF
     Next, Orchestrator

LEMMA ResultStep ==
  ASSUME LifeInv, [Next]_vars
  PROVE  ResultExplained'
<1>. USE LifeTables, NoneAssumption DEF LifeInv, Tables, Sent, NilMeansStopped,
       StopMeansSignal, ResultExplained, Http, Subs, starts,
       port80, outcome, closes
<1>1. CASE Cancel
  BY <1>1 DEF Cancel
<1>2. CASE Select
  BY <1>2 DEF Select
<1>3. CASE StopRedirect
  BY <1>3 DEF StopRedirect, ShutdownRedirect
<1>4. CASE StopTCP
  BY <1>4 DEF StopTCP
<1>5. CASE StopSSHServer
  <2>1. result # "nil" /\ result' = result /\ ctx' = ctx /\ errCh' = errCh
    BY <1>5 DEF StopSSHServer
  <2>2. errs => errs'
    BY <1>5 DEF StopSSHServer, StopErr
  <2>. QED
    BY <2>1, <2>2
<1>6. CASE CloseStore
  <2>1. (errs => errs') /\ ctx' = ctx /\ errCh' = errCh
    BY <1>6 DEF CloseStore, StopErr
  <2>2. errs' \in BOOLEAN /\ (result # None => errs' = errs)
    BY <1>6 DEF CloseStore, StopErr, Places
  <2>3. CASE result = None
    BY <1>6, <2>1, <2>2, <2>3 DEF CloseStore
  <2>4. CASE result = "error"
    BY <1>6, <2>1, <2>4 DEF CloseStore
  <2>. QED
    BY <1>6, <2>3, <2>4 DEF CloseStore, Places
<1>7. ASSUME NEW s \in Http, StopHttp(s) \/ DrainEnds(s) PROVE ResultExplained'
  <2>1. CASE StopHttp(s)
    BY <2>1 DEF StopHttp, Shutdown
  <2>2. CASE DrainEnds(s)
    BY <2>2 DEF DrainEnds, StopErr
  <2>. QED
    BY <1>7, <2>1, <2>2
<1>8. ASSUME NEW s \in Subs, Starting(s) PROVE ResultExplained'
  <2>1. CASE Listen(s)
    BY <2>1 DEF Listen
  <2>2. CASE ListenFails(s)
    BY <2>2 DEF ListenFails, Return
  <2>3. CASE MakeRedirect
    BY <2>3 DEF MakeRedirect
  <2>4. CASE ListenRedirect
    BY <2>4 DEF ListenRedirect
  <2>5. CASE ServeRedirect
    BY <2>5 DEF ServeRedirect
  <2>. QED
    BY <1>8, <2>1, <2>2, <2>3, <2>4, <2>5 DEF Starting
<1>9. ASSUME NEW s \in Subs, Watching(s) PROVE ResultExplained'
  <2>1. CASE WatcherStopsRedirect
    BY <2>1 DEF WatcherStopsRedirect, ShutdownRedirect
  <2>2. CASE WatcherStops(s) /\ s = "ssh"
    BY <2>2 DEF WatcherStops, StopSSH
  <2>3. CASE WatcherStops(s) /\ s # "ssh"
    BY <2>3 DEF WatcherStops, Shutdown
  <2>. QED
    BY <1>9, <2>1, <2>2, <2>3 DEF Watching
<1>10. ASSUME NEW s \in Subs, Serving(s) PROVE ResultExplained'
  <2>1. CASE Serve(s)
    BY <2>1 DEF Serve, Return
  <2>2. CASE LoopEnds(s)
    BY <2>2 DEF LoopEnds, Return
  <2>. QED
    BY <1>10, <2>1, <2>2 DEF Serving
<1>11. ASSUME NEW s \in Failing, ServeFails(s) PROVE ResultExplained'
  BY <1>11, FailingAssumption DEF ServeFails, Return
<1>12. CASE UNCHANGED <<ctx, starts, closes>>
  BY <1>12
<1>. QED
  BY <1>1, <1>2, <1>3, <1>4, <1>5, <1>6, <1>7, <1>8, <1>9, <1>10, <1>11, <1>12, LifeUsers DEF
     Next, Orchestrator

(* One run of the server keeps this invariant, whatever subsystem is slow  *)
(* to start, fails or is stopped while it starts.                          *)
THEOREM LifeInvariant == Spec => []LifeInv
<1>1. LifeInv /\ [Next]_vars => LifeInv'
  BY LifeTypeStep, MarkedStep, OrderStep, NilStep, SignalStep, ResultStep DEF LifeInv
<1>. QED
  BY <1>1, LifeInit, PTL DEF Spec

(* The places of Start, Stop and the subsystems; Start returns a result.   *)
THEOREM LifeTypeCorrect == Spec => []TypeOK
<1>1. LifeInv => TypeOK
  BY DEF LifeInv
<1>. QED
  BY <1>1, LifeInvariant, PTL

(* Stop never closes the database under a server that still accepts.       *)
THEOREM StoreClosedLast == Spec => []StoreOutlivesServing
<1>1. LifeInv => StoreOutlivesServing
  BY DEF LifeInv, MarkedIsStopped, StopsInOrder, StoreOutlivesServing, Http
<1>. QED
  BY <1>1, LifeInvariant, PTL

(* Start returns nil only for a signal after which every stop went well,   *)
(* and an error only for one of a subsystem or, after a signal, of Stop.   *)
THEOREM ResultIsExplained == Spec => []ResultExplained
<1>1. LifeInv => ResultExplained
  BY DEF LifeInv
<1>. QED
  BY <1>1, LifeInvariant, PTL
=============================================================================
