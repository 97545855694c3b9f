# fonzygrok: a verification project

fonzygrok is a self-hosted tunnel service. A client keeps an SSH connection to
the server and asks for tunnels on a control channel; the server serves each
tunnel under a subdomain (HTTP) or on a port of its own (TCP), and carries every
visitor over the SSH connection to a service on the client's machine. The
modules here model the parts of the Go code that carry state between
goroutines, processes and restarts, check them with TLC on small instances, and
prove the safety of all nine with TLAPS for every instance.

Contents: [the system](#the-system), [modules](#modules),
[runs](#runs-and-bounds), [fairness](#fairness), [proofs](#proofs),
[divergences](#divergences), [what is not modelled](#not-modelled),
[plan](#plan).

## The system

| Component | State | Operations | What is hard, what makes it correct |
|---|---|---|---|
| Tunnel registry (`internal/server/tunnel.go`) | `tunnels`, `byName`, `bySession`, `byPort` under one RWMutex | Register, Deregister, DeregisterBySession, Lookup, ListActive | Each operation is several lock sections with port and limiter calls in between. The four maps agree; a name's eviction stays within its token; no port leaks or changes hands wrongly; every registration and cleanup ends. |
| TCP edge (`tcpedge.go`) | `listeners` under its own mutex, sockets, one accept loop each | AssignPort, ReleasePort, Shutdown, accept, proxy | Accept loops, visitors and releases race. An assigned port is served; a visitor goes to no tunnel of another port, and to its own port's next tunnel only when its own was removed; loops end. |
| Control channel (`control.go`) | per session: `hasCtrl`, the loop | HandleChannels, readControlLoop, tunnel_request, tunnel_close | The loop and the session's cleanup are different goroutines. |
| SSH server (`ssh.go`) | `sessions`, `listener`, `closed` | Start, Stop, handleConn, passwordCallback | Handshakes and Stop race. |
| HTTP edge (`edge.go`) | per request: handler and reader goroutine | handleRequest, proxyRequest | Timeout against late answers, full windows, half-closes. Responses are whole, errors are true, goroutines end. |
| Rate limiter, ACL (`ratelimit.go`, `acl.go`) | `sync.Map` of limiters; a field of the entry | Allow, SetLimit, Remove, Check | Read and written without a common lock. What an administrator was told is enforced. |
| Admin API (`admin.go`, `auth_handlers.go`) | none of its own | force close, limit, ACL, tokens | Works on IDs looked up earlier, beside everything else. |
| Registration (`invite_codes.go`, `users.go`, handlers) | tables users and invite_codes | RegisterUserWithInviteCode, CreateUser, CreateInviteCode | Concurrent transactions, failures, crash. Users and redeemed codes match; answers are true; no lock is kept. |
| Orchestration (`server.go`, `cmd/server`) | subsystems, `errCh`, watchers | Start, Stop | Watchers and Stop act at once. Start returns, with an error if a stop failed; loops end. |
| Client connector (`connection.go`, `reconnect.go`, `control.go`, `cmd/client`) | `Connector.client`, per-connection context, callback and watcher | Connect, retry loop, OnConnected, waitForDisconnect, Close | Goroutines of an old connection act on the new one. An open connection is known, callbacks report what is so, cancellation is obeyed, the client recovers. |
| Inspector (`inspector.go`, `inspector_assets/app.js`) | ring buffer and `nextID` under one lock, subscribers under another; the page's list | Record, Entries, Clear, handleSSE; fetch, stream, clear | Record holds neither lock throughout, pages read at their own pace. The buffer is in order; no stream repeats an entry; requests do not wait for pages. |
| Start-up (`store.go`, `ssh.go`, `auth/jwt.go`, commands) | schema, host key file, secret file | Migrate, loadOrGenerateHostKey, NewJWTManager | Kills in the middle of a write, commands that migrate at once. Keys and sessions outlive runs; the server serves again. |
| Client proxy (`proxy.go`) | per channel: two copiers, local connection | HandleChannels, handleSingleChannel, handleTCPChannel | Half-closes in both directions, dial failures. |
| Passwords, dashboard pages, TLS, metrics, names, codec, config, display | see [below](#not-modelled) | | |

Interaction: `NewServer` wires the SSH server's session callback to a
ControlHandler, that to the registry, the registry to the TCP edge and the
limiter; both edges look tunnels up in the registry and open SSH channels on
their sessions; the admin API calls the registry, the limiter and the store. On
the client the retry loop owns the Connector, which the set-up callback and the
disconnect watcher of every connection share.

## Modules

**TunnelManager** is the core. One action is one lock section with the local
work up to the next; goroutines are *workers* (control loop and cleanup per
session, one per admin request). `tunnels`, `byName`, `byPort`, `bySession` are
the maps; `listeners` and `sockets` are the TCP edge's map and the open sockets;
`ctl[s]` is the frame of the session's control loop inside Register (`ClaimName`
or `FindStale`, `EvictStale`, `AssignPort` or `NoPortLeft`, `Insert`); `drop`,
`shut`, `purge` are what a Deregister still has to do after its lock (ports to
release, a socket to close, limiters to remove); `todo` and `revoking` are the
admin handlers' copies from ListActive. The port table's `AssignPort` takes any
free port, where the code takes the lowest. `RevokeToken` is the API's
revocation, which goes on to disconnect; `RevokeOnly` the dashboard's and the
command line's, which does not.

**PortLease** is what the server promises of a port, whatever the goroutines do:
free, reserved, serving, draining, free. TunnelManager implements it under the
mapping `LeaseOf`: as safety for all instances (proved), and with fairness on
small ones (TLC). TCPEdge implements it too, until Shutdown, under a `LeaseOf`
that is read off tunnels and open listeners.

**TCPEdge** refines the picture of a port: every listener is an object with its
own accept loop and visitors, and the registry is reduced to the calls it makes.

**TunnelClient** has the client's retry loop, Connector, callback and watchers,
and on the server the session and control loop of each connection with the one
name the client asks for. Connect holds the Connector's lock through the dial and
the handshake, which has no deadline (`Unlocked`); the watcher's probe waits for
its answer and for nothing else (`probing`). A back-off may overtake the
goroutines of an earlier connection: `forgotten` are the open connections that a
watcher so overtaken made the Connector forget, `taken` says that the late
request of an earlier session took the name. Both are history; the properties
name them where the code has no better to offer. `Bounded` turns on two bounds
for TLC, `FewLate` (when a back-off may overtake, and what) and `NoneLate` (when
the network may become stable); the theorems hold with them and without. `stable`
marks the point from which network and server fail no more and answer in time.

**ProxyRequest** follows one HTTP request or one TCP connection with the SSH
channel's windows and the sockets' buffers, the edge's handler and reader or the
TCP edge's two copiers, the client's bridge and a local service of any habit:
serves, stalls in the middle of its answer, answers without reading, reads and is
silent, or hangs; plain or TLS. Its visitor may leave at any time, which the
handler notices when it reads the request's body or writes the response, as the
code does, and not while it waits for the service.

**EdgeAccess** has visitors over HTTP and TCP, administrators and the registry's
changes around the limiter and the ACL. In it a limiter is known by the
goroutine that created it, which tells apart two that `LoadOrStore` saw.

**Registration** has the transaction's statements over PostgreSQL at READ
COMMITTED: row locks, unique columns that wait for uncommitted rows, errors of
every statement and of Commit, and a crash of the server. **InviteAccounts** is
what registration promises: account and redeemed code appear in one step, once
for a request and not after its visitor was told anything; every answer is true
when it is given. Registration implements it under the mapping `told` of its
answers; Commit is the step that registers.

**ServerLifecycle** has Start, Stop, the three subsystems with their watchers,
the edge's redirect server on port 80 (`redirect`, `marked`), SSH connections and
requests under way. A read of `redirectSrv` without a lock may miss it. An HTTP
server fails when it listens or later (`ServeFails`); `errs` is whether one of
Stop's calls returned an error that Start will return: a deadline that passed
over a request, a listener, a connection or the database that did not close.

**ServerRestart** has what the server keeps from one run to the next: the schema,
the host key file and the secret file, which NewServer brings up in this order
(`server` is its place in it), and what the outside remembers of them: the host
key that a client has seen, the secret that a browser's session is signed with.
os.WriteFile is two steps, so a kill or a full disk leaves a `Torn` file. The
commands of the command line are processes that run the same migrations; the
question for the column and its ALTER are two steps, and so are the look of
CREATE TABLE IF NOT EXISTS and its entry in PostgreSQL's catalog: who loses
either race ends with an error. **ServerIdentity** is what
all runs together promise to those that remember the server: one host key and
one secret, each made once, never replaced, shown and accepted by every run.
ServerRestart implements it (`ImplementsIdentity`) under the mapping `savedKey`,
`savedSecret`, which read the identity off the files.

**Inspector** has the client's ring buffer, the goroutines that call Record in
its two lock sections, and the page: its fetch, its event stream with the channel
of 16, its clear button, its reconnections. An entry stands for its ID. What the
page does between its fetch and its stream is modelled as it is written, so a
page may show an entry late, twice or not at all; the properties say what holds.

**...Proofs** modules have the [proofs](#proofs).

**MC...** modules give symmetry sets and constants to TLC. A definition whose
comment begins with *Mutant* is a variant of the action after it with a
plausible mistake, and no part of the specification: each property is known to
fail with one of them.

A property that is only in the module, and in no run, is proved, and TLC found it
to hold on the instance of the module's run first: each module's `TypeOK`;
`AnswersTrue`, `WaitsAreShort` and `NeverTakenBack` of Registration;
`ResultExplained` of ServerLifecycle; `SessionsStay` of ServerRestart.
Two definitions of TunnelManager are in no run because the code does not have
them (see [divergences](#divergences)).

The modules do not share variables. They overlap where a component has two
faces (the port table in TunnelManager and TCPEdge, Register in TunnelManager,
EdgeAccess and TunnelClient); the more detailed one is named in each header.

## Runs and bounds

| Run | Instance | What it shows |
|---|---|---|
| registry | 2 sessions of 2 tokens, 2 IDs, 2 names, 2 ports, 1 admin | `IndexesAgree`, `OneHolder`, `NoPortLeak`, `EvictsOwnToken`, `ImplementsPortLease` |
| reconnect | 2 sessions of 1 token, 2 IDs, 1 name, 1 port, 1 request | where sessions evict each other, `ImplementsFairPortLease`, `RegisterReturns` |
| ports | 2 ports, 2 listeners, 2 tunnels, 1 visitor | `PortServed`, `VisitorsFollowPort`, `LeasesUntilShutdown`, `LoopsEndOrPortReused`, `ShutdownEndsLoops` |
| retry | 2 connections, reused | `OpenIsKnown`, `ReturnedClosed`, `SetupIsTrue`, `CancelReturns`, `Recovers` |
| request | request of 3 units, response of 2, windows and sockets of 1 | `WholeResponse`, `UnreachableMeansFailure`, `InputWhole`, `WaitEnds`, `ReaderEnds`, `BridgeCompletes`, `TCPEnds` |
| accounts | 3 registrations, 2 names, 2 codes | `UsersMatchInvites`, `ImplementsAccounts`, `RegistrationEnds` |
| access | 1 visitor, 2 admins, 2 tunnels one after the other of one name | `LimitEnforced`, `AclEnforced`, `DeleteEnforced` |
| server | 1 connection, 1 visitor, the edge may fail late | `StoreOutlivesServing`, `StartReturns`, `ServingEnds` |
| inspector | 2 concurrent requests, 1 page, buffer and channel of 2, 4 entries | `BufferInOrder`, `StreamedOnce`, `RecordReturns`, `QueuedShown` |
| restart | 4 kills or failures, 1 client, 2 browsers, 2 commands | `HostKeyStays`, `ImplementsIdentity`, `ServesAgain` |
| orphans, stuck | as reconnect, request | one expected violation each, see [divergences](#divergences) |

Why these bounds. The registry's hazards are between two goroutines over one
name or one port; a third only adds copies (two sessions already bring four
goroutines, an admin a fifth). IDs, tokens, listeners and connections are
reused once nothing refers to them, so two of each allow histories of any
length. In the request the buffers together (one unit in each of window and
socket) hold fewer units than the request has, so every writer can block. Three
registrations over two codes let two compete for a code while a third competes
with one of them for a name. EdgeAccess's second entry is the next registration
of the same name, which must inherit nothing. In the
inspector four entries overflow buffer, page and channel of two each (the code
has 100, 100 and 16), twice. In TunnelClient two connections, each used again
when nothing refers to it, give an old one and a new one at any time; `FewLate`
lets a back-off overtake callbacks that have not begun and watchers about to take
the lock, which are the ones that then meet the next connection, and `NoneLate`
keeps what was overtaken out of the phase that `Recovers` is about. In the run
`server` the edge alone fails late (`Failing`), since the two HTTP servers differ
only in the edge's redirect server. In ServerRestart `MaxFailures` bounds kills and
failed writes: four let each file be torn and still leave one in a start of the
other; there are as many keys and secrets as four failures can use up. Counters
are bounded by these constants, in guards, and no state constraint is used.

Deadlock is checked where the system never stops (ports, restart, inspector, and all runs of
TunnelManager). A client that returned, a served request, a finished
registration, a stopped server stop for good, and those runs say so.

## Fairness

A goroutine that can take a step takes it: weak fairness of each goroutine's
own actions, which is what the Go scheduler and an unlocked mutex give. A timer
fires, a dial ends, and a mux answers a close; a handshake and a probe end only when
the other side answers. Clients, visitors, administrators,
signals, errors and losses have none: they may happen or not. In ProxyRequest a
local service reads and answers according to its habit and is never obliged to
close by itself, and a visitor need not leave. In TunnelClient a lost connection is
noticed on both sides sooner or later (Wait, keepalive, TCP); what waits for the
server (the handshake, the opening of the control channel, the probe) is fair only
once the network is `stable`, from which on recovery is asked. The select of a
watcher picks at random among what is ready, so that it sees a cancelled context
in the end although probes may come first: strong fairness of that step alone. In
ServerLifecycle requests and connections need not end, and servers need not fail;
a subsystem's listening and serving are one goroutine and fair together. In Inspector only the
second section of Record is fair: pages may stop reading, and `QueuedShown` asks
only of a page that keeps reading, by its own premise. In ServerRestart the
supervisor starts the server again (docker-compose.yml, `restart:
unless-stopped`) and its start-up goes on, while kills and failures are bounded;
commands, clients and browsers have no fairness.

## Proofs

For every value of the constants TLAPS proves the safety properties of all
passing runs, as invariants, action properties or refinements of PortLease,
InviteAccounts and ServerIdentity; TLC found each inductive invariant to hold on the instances
first. Each proof has the same layout: `InitIInv` or the like, a type lemma with
a case per action, a lemma for each conjunct that steps can disturb, `Invariant`
(`Spec => []IInv`), and the theorems drawn from it. Assumptions are those of the
modules, named, evaluated by TLC in every run: `None` and other outsiders are
none of the values, sizes are natural numbers, a session has a token.

| Module | Theorems | The inductive invariant and why it is needed |
|---|---|---|
| TunnelManagerProofs | `TypeCorrect`, `Invariant`, `IndexesAlwaysAgree`, `PortsAlwaysHeldOnce`, `PortsNeverLeak`, `EvictionsKeepToTokens`, `RefinesPortLease` | `TypeOK /\ IndexesAgree /\ IdsReserved /\ OneHolder /\ NoPortLeak /\ EvictsOwnToken`. None of the index and port invariants is inductive alone. An `Insert` keeps the maps in agreement only because the ID of a registration in progress is not live, not another registration's and not about to be evicted (`IdsReserved`), and because the port it was assigned serves no other tunnel (`OneHolder`); a port is released once only because the goroutine that drains it is the only one, which needs that tunnels and `byPort` agree when one is unlinked. Lemmas for the steps that move an entry or a port, a *frame* lemma for each invariant over the steps that leave its variables alone, one case per action. For the refinement, under the same `IInv`, `AssignPort` maps to Reserve, `Insert` to Publish, an unlink or a cleanup to Withdraw, `CloseListener` to Free, every other step to a stutter. |
| TCPEdgeProofs | `TypeCorrect`, `Invariant`, `PortsAreServed`, `VisitorsFollowTheirPort`, `KeepsPortLease` | `TypeOK /\ PortServed /\ TablesAgree /\ VisitorsFollowPort`. `TablesAgree`: until Shutdown the map has the listener of every holder, no two tunnels share a port or a listener, and every open listener is a tunnel's. The first parts keep a release from closing another tunnel's listener; the last makes a port free when its tunnel's listener closes, which the refinement needs. Lemmas read the stage of a port off its tunnel (`LeaseTable`), and a tunnel's step changes it for no other port (`LeaseElsewhere`). |
| TunnelClientProofs | `TypeCorrect`, `Invariant`, `NoConnectionForgotten`, `ReturnsWithNoneOpen`, `ReportsAreTrue` | `NoClient`: between connections the Connector has none. `ClearsLost`: a watcher about to clear the client has seen the connection lost that it waited on, so the client it clears is either that one, which is not open, or a newer one, which is then `forgotten`. With these `OpenIsKnown` is inductive, however late goroutines run, and `NoClient` makes `ReturnedClosed` follow. For `ReportsAreTrue`, on the callbacks alone: `Sole` (a control channel belongs to one callback), `Asked` (one that waits has a control loop that knows of its request) and `Told` (one that has its assignment has it from that loop), which hold also for a callback that took the client of a newer connection. |
| RegistrationProofs | `TypeCorrect`, `Invariant`, `NoOrphans`, `AnswersAreTrue`, `CommittedStays`, `NoDeadlock`, `RefinesAccounts` | What a transaction has pending follows from its place (`Rows`), it holds its code's row from the SELECT on, and the code is good for as long (`Locks`), its user's name is its own (`NamesFree`), only one that ended or was cut off in Commit has rows (`Committed`), a refused one has none (`Refused`). The refinement needs all of them: `Locks` and `NamesFree` make the code unused and the name free when Commit maps to the atomic Register, `Committed` makes a refusal true; a crash maps to the loss of all answers under way, every other successful statement to a stutter. `CommittedStays`: only COMMIT and CreateUser write owners and redemptions, and `Locks` and `NamesFree` say that it then finds both rows free. `NoDeadlock` follows from `IInv` without another step: `Rows` and `Locks` leave a transaction that has inserted its name nothing to wait for, so one that waits for a code's row waits for one that waits at most for a name. |
| EdgeAccessProofs | `TypeCorrect`, `Invariant`, `ClosedIsClosed`, `ListsAreEnforced`, `LimitsAreEnforced` | Three parts. `DelInv`: a handler past Deregister has a dead entry, a visitor's entry is none of those closed before it came. `AclInv`: the last acknowledged list is in the entry, and a visitor that came after carries it or was checked against it. `LimInv`: a goroutine that has created no limiter is known by none, a limiter serves one key, and the one a handler found stays the limiter of its tunnel while the tunnel lives. |
| InspectorProofs | `TypeCorrect`, `Invariant`, `BufferStaysInOrder`, `EntriesAreStreamedOnce` | IDs still to be drawn are nowhere (`Drawn`), and answers have no entry twice (`RepliesOnce`), both needed to keep a stream's new entry from being one the page may already have twice. Sequence lemmas say what `Push` and `Tail` do to the elements. |
| ProxyRequestProofs | `TypeCorrect`, `Invariant`, `ResponseIsConserved`, `WholeResponseDelivered`, `UnreachableOnlyOnFailure`, `InputIsWhole` | That a response is whole is about its last step only; the invariant says where its units are before. `ResponseConserved`: each is with the service, in a buffer, held by the reader or delivered. `DrainsBeforeEOF` and `RelayDrains`: a copier has ended without a failure only when nothing is left before it. `PlacesAgree`, `BridgeAgrees`, `ClosesExplained`: which places of handler, reader, relays, copiers and service go together, and who has closed the channel and why. `ReaderSucceeds`: without a failure the reader sees no error while it is waited for. For the input, `WrittenFirst` (a handler waits, or a visitor has finished, only with nothing left to write) and `RelayEndsLast` (the TCP edge's copier ends its direction once, and only behind all it read) carry `InputWhole` through every half-close; `HalfMeansOver`: the service's input ends only when the channel towards the client has ended or is gone. |
| ServerProofs (ServerRestart) | `RestartInvariant`, `RestartTypeCorrect`, `HostKeyNeverChanges`, `SessionsOutliveServer`, `RefinesIdentity` | What a place of the start-up says of its file (`KeySaved`, `SecretSaved`), and that what was told to the outside is in the file (`KnownSaved`, `CookiesSaved`). The refinement uses the same invariant: writing the host key maps to MakeHostKey, the start's last step to Up, which also makes the secret if no run has served yet, an exit or a kill to Down, the commands and the rest of the start-up to stutters. |
| ServerProofs (ServerLifecycle) | `LifeInvariant`, `LifeTypeCorrect`, `StoreClosedLast`, `ResultIsExplained` | `MarkedIsStopped`: an HTTP server that was told to stop does not accept, also when it was told before it served. `StopsInOrder`: what Stop has passed is stopped; with `MarkedIsStopped` it gives `StoreOutlivesServing`. `NilMeansStopped` and `StopMeansSignal`: a subsystem ends without an error only when stopped, and while Start waits only the watchers stop one, after the signal; so a result nil means a signal. `StopMeansSignal` also has that Stop has met no error before it starts and that a result nil ends Start, so an error of Stop is never lost to a nil. |

Start and stop share a module with the restarts, which are of the same process;
ServerRestart's `RestartInit`, `RestartNext`, `RestartSpec` and `Absent` are
named so that it can stand beside ServerLifecycle.

Only model-checked: all liveness (fairness and ENABLED are out of the prover's
reach), so also `ImplementsFairPortLease`; of `RegistrationEnds` the safe half,
that transactions do not wait for each other in a cycle, is `NoDeadlock`. No theorem computes what a recursive
definition yields; the modules have none.

## Divergences

The code does not do what it should in two places that a run shows:

- **orphans** (`CleanupRemovesAll`): a registration in progress when its session
  is cleaned up inserts a tunnel that no cleanup removes (tunnel.go:275).
- **stuck** (`RequestEnds`): proxyRequest writes the request before its timeout
  starts; a service that does not read it holds handler and visitor
  (edge.go:29, CON-001:245).

Two more are stated in TunnelManager and refuted by TLC within seconds when they
stand in place of the INVARIANTS of MCTunnelManager_safety.cfg:

- `NamesUnique`: the uniqueness test of Register (tunnel.go:129) and the
  insertion (181) are different lock sections; two registrations can share a
  name, which tunnel.go:106 excludes. The second hides the first, whose
  Deregister then deletes the second's name.
- `RevocationDisconnects`: a token's revocation can leave a tunnel active under
  it, registered meanwhile or later by a session that stays open
  (admin.go:518 against CON-002:241; the dashboard and the command line
  disconnect nothing).

Met while modelling, and left without a run of their own:

- A token that the dashboard has revoked is unknown to the API's revocation,
  which answers 404 before it disconnects (tokens.go:140, auth_handlers.go:358):
  its tunnels can only be closed one by one.
- A host key file torn by a kill or a full disk makes every later start fail
  (ssh.go:260), although a torn secret file is replaced (jwt.go:73):
  `ServesAgain` names it as its exception.
- A page of the inspector can lose or repeat entries: its fetch's answer replaces
  what the stream has brought (app.js:25), a reconnection fetches nothing
  (app.js:47), a full channel drops (inspector.go:122), and a request that ends
  while the page is opened may be both in the answer and in the stream. README.md:158
  of the repository has it show all requests in real time.
- The API's registration folds the e-mail to lower case (auth_handlers.go:55), the
  dashboard's does not, so one address can have two accounts.
- A command and the server's first start can both find the column, or a table,
  missing (store.go:105, 78); the ALTER or CREATE of one then fails and ends it. A
  second start succeeds.
- The accept loop of a released port spins while the port is assigned to another
  tunnel (tcpedge.go:122 against the comment at 120): `LoopsEndOrPortReused`
  states what does hold, and `ShutdownEndsLoops` that it ends at last.
- A late tunnel_request of a lost connection evicts the reconnected client's
  tunnel (tunnel.go:138); the client stays connected without one. `Recovers`
  names it (`taken`).
- A watcher that takes the lock only after the next Connect sets the new
  connection's client to nil (reconnect.go:214): it stays open, and nothing closes
  it. It takes a watcher that is a back-off, a second or more, late.
  `OpenIsKnown` and `ReturnedClosed` name it (`forgotten`).
- The client's handshake has neither context nor deadline and holds the
  Connector's lock (connection.go:89, against the comment at 81), and the watcher's
  probe waits for its answer alone (reconnect.go:224): a server that accepts and is
  silent keeps the client from obeying a cancellation. `CancelReturns` names both.
- A response that stalls behind its header has no timeout (edge.go:447 against
  edge.go:29), and the handler does not notice that the visitor has left until it
  writes. `WaitEnds` names it (`Stalled`).
- A visitor that leaves in the middle of its request makes the handler close the
  channel over a request cut short (edge.go:390); the service sees its end.
- A visitor accepted for a tunnel that is then removed is handed to the port's
  next tunnel, whosever that is, if one has the port by then (tcpedge.go:142-146).
  `VisitorsFollowPort` says that no other hand-over happens.
- AssignPort does not look at the cancelled context (tcpedge.go:46): a listener
  opened after Shutdown stays open. `ShutdownEndsLoops` leaves it out.
- A database error at an invite code is told as an invalid code
  (auth_handlers.go:91), and an error of CreateToken after the commit as a failed
  registration (auth_handlers.go:106), although the account exists.
- After a signal Start returns an error if a request outlasts a deadline of 5 s
  (server.go:247-254), so a stop that went as intended can end the process with
  one. `ResultExplained` has it.
- The inspector's entries of TCP connections have no method (proxy.go:254), which
  the page's table reads (app.js:93): `QueuedShown` is about the page's list, not
  about its table.
- Limiters of cleaned-up sessions stay in the map (tunnel.go:308,
  ratelimit.go:53).
- Force close and rate limits given by a tunnel's name answer success and do
  nothing to it (admin.go:592, 630); `DeleteEnforced` and `LimitEnforced` are
  stated for IDs.
- The SSH server's own watcher closes tunnels at a signal while the edge still
  drains, against the order in server.go:236.
- A list set for a tunnel is lost when its client reconnects, since it belongs
  to the entry (RUN-001:491 describes one set at registration).

Limits of the properties. `BridgeCompletes` and `TCPEnds` leave out TLS services
(the client sends them no CloseWrite, proxy.go:174) and services that hang or do
not read: those keep goroutines and sockets for as long as both ends live.
`EvictsOwnToken` is about the tunnels that end: the eviction of a namesake may
delete the entry of byName that leads to a tunnel of another token
(tunnel.go:247). `ImplementsPortLease` does not say that AssignPort succeeds when a
port is free. `StartReturns` says nothing of the requests that a stop cuts off.
`ServingEnds` leaves out an SSH server that is stopped before it listens, and is
about the loops only, since the process exits after Start.

## Not modelled

- bcrypt, API token hashes, the role in a session: stateless calls of libraries.
  Dashboard pages, listings, health, metrics: they read and render.
- Names and hosts as strings (a name is a model value, a host names an ID or a
  name), JSON framing, configuration, certificates, terminal output.
- In modelled parts: the token bucket of a limiter (any answer), MaxConnections
  (no command sets it), the Upgrade path and
  header rewriting of proxyRequest, header capture in the client's copiers,
  token ownership in revocation (the two statements of DeleteTokenForUser are
  one step, since a token never changes its owner and is never made active again), accidental repetition of random IDs, equality of an ID and a name; in
  ServerRestart a crash of the machine (what was written stays), an unreadable
  file, two servers on one data directory; filtering and rendering of the
  inspector's page.

## Plan

Done: registry and port table, TCP edge, client, request, registration, access
control, orchestration with the redirect server, restarts and migrations, the
inspector; proofs of the safety of all of them.

Left, models:

1. A composition of TunnelClient's server side with TunnelManager's Register, in
   which the late request is a run.
2. E-mail folding of the two registration handlers.

Left, theorems: that the units of a request reach the service at most once and
in order (`InputWhole` says that none is missing before the end; a unit has no
identity in ProxyRequest); what `SetupIsTrue` says with the full registry, which
needs the composition.
