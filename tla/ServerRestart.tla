---------------------------- MODULE ServerRestart ----------------------------
(***************************************************************************)
(* What the server keeps from one run to the next: the schema of the       *)
(* database (internal/store/store.go), the SSH host key (ssh.go) and the   *)
(* secret of the dashboard's sessions (internal/auth/jwt.go), which        *)
(* NewServer (server.go) brings up in this order. A run may be killed at   *)
(* any step, or exit with an error, and is started again                   *)
(* (docker-compose.yml, restart: unless-stopped); the server's commands    *)
(* (cmd/server/main.go, openStore) migrate the same database beside it.    *)
(*                                                                         *)
(* The process is killed, not the machine: what was written stays. Reading *)
(* a file that exists does not fail. os.WriteFile truncates or creates the *)
(* file and then writes it; between the two, or after a write that failed, *)
(* it is torn, that is empty or too short.                                 *)
(***************************************************************************)
EXTENDS Naturals
CONSTANTS
  Keys,        \* values that rand.Reader may yield for the host key ...
  Secrets,     \* ... and for the secret of the sessions
  Clients,     \* SSH clients that remember the host key they saw
  Browsers,    \* browsers with a session cookie
  Commands,    \* processes of the server's command line
  MaxFailures, \* bound on the kills and failures of a behaviour
  Torn,        \* an incomplete file
  Absent       \* no file, nothing loaded or remembered

ASSUME OutsidersAssumption ==
  /\ Torn # Absent /\ Torn \notin Keys \cup Secrets /\ Absent \notin Keys \cup Secrets
ASSUME BoundAssumption == MaxFailures \in Nat
Server == "server"
ASSUME ServerAssumption == Server \notin Commands

VARIABLES
  server,     \* the place of the server process
  key,        \* the host key and ...
  secret,     \* ... the secret in its memory
  keyFile,    \* data-dir/host_key
  secretFile, \* data-dir/jwt_secret
  schema,     \* what the migrations have made: the tables, the column user_id
  command,    \* the place of each command
  known,      \* the host key that each client remembers
  cookie,     \* the secret that each browser's session is signed with
  failures

memory == <<key, secret>>
files  == <<keyFile, secretFile>>
users  == <<known, cookie>>
restartVars == <<server, memory, files, schema, command, users, failures>>

Processes == Commands \cup {Server}

RestartInit ==
  /\ server = "down" /\ key = Absent /\ secret = Absent
  /\ keyFile = Absent /\ secretFile = Absent
  /\ schema = {}
  /\ command = [c \in Commands |-> "down"]
  /\ known = [c \in Clients |-> Absent] /\ cookie = [b \in Browsers |-> Absent]
  /\ failures = 0

(* A value that nothing holds or held: rand.Reader does not repeat itself. *)
FreshKey(k) == k \notin {key, keyFile} \cup {known[c] : c \in Clients}
FreshSecret(x) == x \notin {secret, secretFile} \cup {cookie[b] : b \in Browsers}

(* The server process is gone, with its memory. *)
Exit == server' = "down" /\ key' = Absent /\ secret' = Absent

Fail == failures < MaxFailures /\ failures' = failures + 1

-----------------------------------------------------------------------------
(* The supervisor starts the server, an operator a command. *)
Start ==
  /\ server = "down" /\ server' = "migrating"
  /\ UNCHANGED <<memory, files, schema, command, users, failures>>

Run(c) ==
  /\ command[c] = "down" /\ command' = [command EXCEPT ![c] = "migrating"]
  /\ UNCHANGED <<server, memory, files, schema, users, failures>>

(* Migrate, in the server or in a command. *)
Place(p) == IF p = Server THEN server ELSE command[p]
Goto(p, at) ==
  IF p = Server THEN server' = at /\ UNCHANGED command
  ELSE command' = [command EXCEPT ![p] = at] /\ UNCHANGED server

(* Every file of migrations: CREATE ... IF NOT EXISTS, which looks for the *)
(* table ...                                                               *)
CheckTables(p) ==
  /\ Place(p) = "migrating"
  /\ Goto(p, IF "tables" \in schema THEN "migrated" ELSE "creating")
  /\ UNCHANGED <<memory, files, schema, users, failures>>

(* ... and enters it in the catalog later: PostgreSQL may answer with an   *)
(* error if another process did so in between, which ends this one.        *)
MigrateTables(p) ==
  /\ Place(p) = "creating"
  /\ \/ Goto(p, "migrated")
     \/ "tables" \in schema /\ Goto(p, "down")
  /\ schema' = schema \cup {"tables"}
  /\ UNCHANGED <<memory, files, users, failures>>

(* addColumnIfMissing asks first ... *)
CheckColumn(p) ==
  /\ Place(p) = "migrated"
  /\ Goto(p, IF "column" \in schema THEN "open" ELSE "altering")
  /\ UNCHANGED <<memory, files, schema, users, failures>>

(* ... and alters the table later: an error if another process did so in   *)
(* between, which ends this one.                                           *)
AddColumn(p) ==
  /\ Place(p) = "altering"
  /\ Goto(p, IF "column" \in schema THEN "down" ELSE "open")
  /\ schema' = schema \cup {"column"}
  /\ UNCHANGED <<memory, files, users, failures>>

(* A command does its work in the database and ends. *)
EndCommand(c) ==
  /\ command[c] = "open" /\ command' = [command EXCEPT ![c] = "down"]
  /\ UNCHANGED <<server, memory, files, schema, users, failures>>

-----------------------------------------------------------------------------
(* loadOrGenerateHostKey reads the file. One that cannot be parsed is an   *)
(* error, one that is not there is made.                                   *)
LoadKey ==
  /\ server = "open"
  /\ IF keyFile = Torn THEN Exit /\ UNCHANGED <<files, failures>>
     ELSE IF keyFile # Absent
     THEN key' = keyFile /\ server' = "keyed" /\ UNCHANGED <<secret, files, failures>>
     ELSE /\ \E k \in Keys : FreshKey(k) /\ key' = k
          /\ server' = "saving key" /\ UNCHANGED <<secret, files, failures>>
  /\ UNCHANGED <<schema, command, users>>

(* Mutant: a key that cannot be saved is used all the same. *)
CreateKeyFileOrNot ==
  /\ server = "saving key"
  /\ \/ keyFile' = Torn /\ server' = "writing key" /\ UNCHANGED failures
     \/ Fail /\ server' = "keyed" /\ UNCHANGED keyFile
  /\ UNCHANGED <<memory, secretFile, schema, command, users>>

(* os.WriteFile opens the file, or cannot. *)
CreateKeyFile ==
  /\ server = "saving key"
  /\ \/ keyFile' = Torn /\ server' = "writing key" /\ UNCHANGED <<memory, failures>>
     \/ Fail /\ Exit /\ UNCHANGED keyFile
  /\ UNCHANGED <<secretFile, schema, command, users>>

(* It writes the key, or fails in the middle.                              *)
WriteKey ==
  /\ server = "writing key"
  /\ \/ keyFile' = key /\ server' = "keyed" /\ UNCHANGED <<memory, failures>>
     \/ Fail /\ Exit /\ UNCHANGED keyFile
  /\ UNCHANGED <<secretFile, schema, command, users>>

(* NewJWTManager reads the secret; one that is missing or too short is     *)
(* made anew. Mutants: the length must be greater than JWTSecretLen; a     *)
(* short file is an error.                                                 *)
LoadSecretLonger ==
  /\ server = "keyed"
  /\ \E x \in Secrets : FreshSecret(x) /\ secret' = x
  /\ server' = "saving secret"
  /\ UNCHANGED <<key, files, schema, command, users, failures>>

LoadSecretStrictly ==
  /\ server = "keyed"
  /\ IF secretFile = Torn THEN Exit
     ELSE IF secretFile # Absent
     THEN secret' = secretFile /\ server' = "serving" /\ UNCHANGED key
     ELSE /\ \E x \in Secrets : FreshSecret(x) /\ secret' = x
          /\ server' = "saving secret" /\ UNCHANGED key
  /\ UNCHANGED <<files, schema, command, users, failures>>

LoadSecret ==
  /\ server = "keyed"
  /\ IF secretFile \in Secrets
     THEN secret' = secretFile /\ server' = "serving"
     ELSE /\ \E x \in Secrets : FreshSecret(x) /\ secret' = x
          /\ server' = "saving secret"
  /\ UNCHANGED <<key, files, schema, command, users, failures>>

CreateSecretFile ==
  /\ server = "saving secret"
  /\ \/ secretFile' = Torn /\ server' = "writing secret" /\ UNCHANGED <<memory, failures>>
     \/ Fail /\ Exit /\ UNCHANGED secretFile
  /\ UNCHANGED <<keyFile, schema, command, users>>

WriteSecret ==
  /\ server = "writing secret"
  /\ \/ secretFile' = secret /\ server' = "serving" /\ UNCHANGED <<memory, failures>>
     \/ Fail /\ Exit /\ UNCHANGED secretFile
  /\ UNCHANGED <<keyFile, schema, command, users>>

-----------------------------------------------------------------------------
(* The server is killed or stopped, or loses the database in a migration;  *)
(* so may a command be.                                                    *)
Kill ==
  /\ server # "down" /\ Fail /\ Exit
  /\ UNCHANGED <<files, schema, command, users>>

KillCommand(c) ==
  /\ command[c] # "down" /\ Fail
  /\ command' = [command EXCEPT ![c] = "down"]
  /\ UNCHANGED <<server, memory, files, schema, users>>

(* A client that has not seen a host key remembers the one it sees. *)
Connect(c) ==
  /\ server = "serving" /\ known[c] = Absent
  /\ known' = [known EXCEPT ![c] = key]
  /\ UNCHANGED <<server, memory, files, schema, command, cookie, failures>>

(* handleLogin, of the API or the dashboard, and handleRegister sign a     *)
(* session and set the cookie.                                             *)
Login(b) ==
  /\ server = "serving"
  /\ cookie' = [cookie EXCEPT ![b] = secret]
  /\ UNCHANGED <<server, memory, files, schema, command, known, failures>>

(* The session expires, or handleLogout clears the cookie. *)
Logout(b) ==
  /\ cookie[b] # Absent
  /\ cookie' = [cookie EXCEPT ![b] = Absent]
  /\ UNCHANGED <<server, memory, files, schema, command, known, failures>>

(* AuthMiddleware and requireAuth: the session's signature verifies.       *)
Accepted(b) == server = "serving" /\ cookie[b] = secret

-----------------------------------------------------------------------------
Migrate(p) == CheckTables(p) \/ MigrateTables(p) \/ CheckColumn(p) \/ AddColumn(p)
StartUp ==
  \/ Start \/ Migrate(Server) \/ LoadKey \/ CreateKeyFile \/ WriteKey
  \/ LoadSecret \/ CreateSecretFile \/ WriteSecret
CommandNext(c) == Run(c) \/ Migrate(c) \/ EndCommand(c) \/ KillCommand(c)

RestartNext ==
  \/ StartUp \/ Kill
  \/ \E c \in Commands : CommandNext(c)
  \/ \E c \in Clients : Connect(c)
  \/ \E b \in Browsers : Login(b) \/ Logout(b)
RestartSpec == RestartInit /\ [][RestartNext]_restartVars

(* The supervisor restarts the server, and the processes run. *)
RestartFairSpec == RestartSpec /\ WF_restartVars(StartUp)

-----------------------------------------------------------------------------
StartPlaces == {"migrating", "creating", "migrated", "altering", "open"}
(* Type correctness; the server has what it has loaded so far.             *)
RestartTypeOK ==
  /\ server \in StartPlaces \cup {"down", "saving key", "writing key", "keyed",
                               "saving secret", "writing secret", "serving"}
  /\ key \in Keys \cup {Absent} /\ secret \in Secrets \cup {Absent}
  /\ keyFile \in Keys \cup {Absent, Torn} /\ secretFile \in Secrets \cup {Absent, Torn}
  /\ schema \subseteq {"tables", "column"}
  /\ command \in [Commands -> StartPlaces \cup {"down"}]
  /\ known \in [Clients -> Keys \cup {Absent}]
  /\ cookie \in [Browsers -> Secrets \cup {Absent}]
  /\ failures \in 0 .. MaxFailures
  /\ key # Absent <=> server \notin StartPlaces \cup {"down"}
  /\ secret # Absent <=> server \in {"saving secret", "writing secret", "serving"}

(* A client that has seen the server's host key never meets another one,   *)
(* however often the server was killed, or failed, in its start: a key is  *)
(* used only after it was saved, and a saved key is never replaced.        *)
HostKeyStays ==
  \A c \in Clients : server = "serving" /\ known[c] # Absent => known[c] = key

(* A session outlives the server: every run accepts the cookies that any   *)
(* earlier run has set, although a file that is too short is replaced.     *)
SessionsStay ==
  \A b \in Browsers : server = "serving" /\ cookie[b] # Absent => Accepted(b)

(* What is in the files of the data directory is one identity that the     *)
(* server has for good: torn files, lost starts and kills are steps of it  *)
(* that change nothing.                                                    *)
savedKey    == IF keyFile \in Keys THEN keyFile ELSE Absent
savedSecret == IF secretFile \in Secrets THEN secretFile ELSE Absent
usedKey     == IF server = "serving" THEN key ELSE Absent
usedSecret  == IF server = "serving" THEN secret ELSE Absent
Identity == INSTANCE ServerIdentity WITH
  hostKey <- savedKey, signing <- savedSecret, shown <- usedKey, accepted <- usedSecret
ImplementsIdentity == Identity!Spec

(* A server that is killed or fails only so often serves in the end,       *)
(* whatever commands migrate beside it: a migration that lost the race for *)
(* the tables or the column, or a torn secret, costs one start at most.    *)
(* The exception is a torn host key, which every start refuses.            *)
ServesAgain == <>[](server = "serving") \/ <>[](keyFile = Torn)
=============================================================================
