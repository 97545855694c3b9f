--------------------------- MODULE ServerLifecycle ---------------------------
(***************************************************************************)
(* Start and stop of the server (internal/server/server.go): the three     *)
(* subsystems that listen, the SSH server (ssh.go), the edge (edge.go) and *)
(* the admin API (admin.go), each in a goroutine of Start and each with a  *)
(* goroutine of its own that waits for the context and stops it; the       *)
(* orchestrator that waits for the context or a result and runs Stop; the  *)
(* SSH connections and the edge's requests that are under way.             *)
(*                                                                         *)
(* net/http: Shutdown marks the server, closes the listener that Serve     *)
(* has taken over, and waits for handlers or its 5 s; Serve on a marked    *)
(* server closes its listener and returns.                                 *)
(***************************************************************************)
EXTENDS FiniteSets
CONSTANTS
  Conns, Visitors,
  Failing, \* bound: the HTTP servers whose Serve may fail later
  None

Http == {"edge", "admin"}
Subs == Http \cup {"ssh"}

ASSUME NoneAssumption == None \notin {"nil", "error"}
ASSUME FailingAssumption == Failing \subseteq Http

VARIABLES
  ctx,      \* whether the context is cancelled
  main,     \* the place of Server.Start, and of Stop inside it
  result,   \* what Start returns
  errs,     \* whether Stop has an error for Start to return
  sub,      \* the Start of each subsystem
  errCh,    \* what each has sent to errCh
  listener,
  down,     \* SSHServer.closed, and inShutdown of the HTTP servers
  watcher,  \* the goroutine that waits for the context
  redirect, \* the edge's redirect server on port 80; "off" without TLS
  marked,   \* whether that server is shut down
  tcp,      \* whether the TCP edge is open
  store,    \* whether the database is open
  conn,     \* SSH connections; "none" also when it has closed
  active    \* the visitors of the edge with a request under way

outcome == <<result, errs>>
starts == <<main, outcome, sub, errCh, watcher>>
port80 == <<redirect, marked>>
closes == <<listener, down, port80, tcp, store>>
vars   == <<ctx, starts, closes, conn, active>>

Init ==
  /\ ctx = FALSE /\ main = "select" /\ result = None /\ errs = FALSE
  /\ sub = [s \in Subs |-> "starting"] /\ errCh = [s \in Subs |-> None]
  /\ listener = [s \in Subs |-> "none"] /\ down = [s \in Subs |-> FALSE]
  /\ watcher = [s \in Subs |-> "none"]
  /\ redirect \in {"off", "none"} /\ marked = FALSE
  /\ tcp = TRUE /\ store = TRUE
  /\ conn = [c \in Conns |-> "none"]
  /\ active = {}

(* SIGINT or SIGTERM. *)
Cancel == ~ctx /\ ctx' = TRUE /\ UNCHANGED <<starts, closes, conn, active>>

-----------------------------------------------------------------------------
(* The Start of a subsystem. *)
Return(s, res) ==
  /\ sub' = [sub EXCEPT ![s] = "returned"] /\ errCh' = [errCh EXCEPT ![s] = res]

(* It listens and starts its watcher, or cannot listen. The SSH server     *)
(* does not look whether it was stopped meanwhile. The edge with TLS has   *)
(* its redirect server to start before its watcher.                        *)
Listen(s) ==
  /\ sub[s] = "starting"
  /\ listener' = [listener EXCEPT ![s] = "open"]
  /\ IF s = "edge" /\ redirect = "none"
     THEN sub' = [sub EXCEPT ![s] = "redirecting"] /\ UNCHANGED watcher
     ELSE /\ sub' = [sub EXCEPT ![s] = IF s = "ssh" THEN "serving" ELSE "listening"]
          /\ watcher' = [watcher EXCEPT ![s] = "waiting"]
  /\ UNCHANGED <<ctx, main, outcome, errCh, down, port80, tcp, store, conn, active>>

(* startTLS assigns e.redirectSrv ... *)
MakeRedirect ==
  /\ sub["edge"] = "redirecting" /\ redirect = "none"
  /\ redirect' = "made"
  /\ UNCHANGED <<ctx, starts, listener, down, marked, tcp, store, conn, active>>

(* ... listens on port 80 and starts a goroutine, or goes on without.      *)
ListenRedirect ==
  /\ sub["edge"] = "redirecting" /\ redirect = "made"
  /\ redirect' \in {"open", "failed"}
  /\ sub' = [sub EXCEPT !["edge"] = "listening"]
  /\ watcher' = [watcher EXCEPT !["edge"] = "waiting"]
  /\ UNCHANGED <<ctx, main, outcome, errCh, listener, down, marked, tcp, store, conn, active>>

(* The goroutine: Serve on a server that may be shut down already. *)
ServeRedirect ==
  /\ redirect = "open"
  /\ redirect' = IF marked THEN "ended" ELSE "serving"
  /\ UNCHANGED <<ctx, starts, listener, down, marked, tcp, store, conn, active>>

ListenFails(s) ==
  /\ sub[s] = "starting" /\ Return(s, "error")
  /\ UNCHANGED <<ctx, main, outcome, watcher, closes, conn, active>>

Serve(s) ==
  /\ sub[s] = "listening"
  /\ IF down[s]
     THEN Return(s, "nil") /\ listener' = [listener EXCEPT ![s] = "closed"]
     ELSE sub' = [sub EXCEPT ![s] = "serving"] /\ UNCHANGED <<errCh, listener>>
  /\ UNCHANGED <<ctx, main, outcome, watcher, down, port80, tcp, store, conn, active>>

(* A later failure: Accept fails although nobody stopped the server. Serve *)
(* closes its listener and returns it; the SSH server's loop goes on.      *)
ServeFails(s) ==
  /\ sub[s] = "serving" /\ ~down[s] /\ Return(s, "error")
  /\ listener' = [listener EXCEPT ![s] = "closed"]
  /\ UNCHANGED <<ctx, main, outcome, watcher, down, port80, tcp, store, conn, active>>

(* Accept fails on the closed listener, of a server that is marked. *)
LoopEnds(s) ==
  /\ sub[s] = "serving" /\ listener[s] = "closed" /\ down[s]
  /\ Return(s, "nil")
  /\ UNCHANGED <<ctx, main, outcome, watcher, closes, conn, active>>

-----------------------------------------------------------------------------
(* Stops, by a watcher or by the orchestrator. *)

(* Mutant: the listener is closed without the mark. *)
StopSSHUnmarked ==
  /\ listener' = [listener EXCEPT !["ssh"] = IF @ = "open" THEN "closed" ELSE @]
  /\ conn' = [c \in Conns |-> IF conn[c] = "listed" THEN "none" ELSE conn[c]]
  /\ UNCHANGED down

(* SSHServer.Stop, in one section under its mutex: the listener it has and *)
(* the sessions that are in the map.                                       *)
StopSSH ==
  /\ down' = [down EXCEPT !["ssh"] = TRUE]
  /\ IF down["ssh"] THEN UNCHANGED <<listener, conn>>
     ELSE /\ listener' = [listener EXCEPT !["ssh"] = IF @ = "open" THEN "closed" ELSE @]
          /\ conn' = [c \in Conns |-> IF conn[c] = "listed" THEN "none" ELSE conn[c]]

(* Mutant: there is no server to shut down before Start has made it. *)
ShutdownStarted(s) ==
  /\ down' = [down EXCEPT ![s] = @ \/ sub[s] # "starting"]
  /\ listener' = [listener EXCEPT ![s] = IF sub[s] = "serving" THEN "closed" ELSE @]
  /\ UNCHANGED conn

(* The first part of http.Server.Shutdown. *)
Shutdown(s) ==
  /\ down' = [down EXCEPT ![s] = TRUE]
  /\ listener' = [listener EXCEPT ![s] = IF sub[s] = "serving" THEN "closed" ELSE @]
  /\ UNCHANGED conn

(* EdgeRouter.Stop begins with the redirect server, of which it waits for  *)
(* the requests, but not longer than the deadline of both.                 *)
ShutdownRedirect ==
  /\ marked' = TRUE
  /\ redirect' = IF redirect = "serving" THEN "ended" ELSE redirect

WatcherStopsRedirect ==
  /\ watcher["edge"] = "waiting" /\ ctx /\ redirect # "off"
  /\ watcher' = [watcher EXCEPT !["edge"] = "redirected"]
  /\ ShutdownRedirect
  /\ UNCHANGED <<ctx, main, outcome, sub, errCh, listener, down, tcp, store, conn, active>>

WatcherStops(s) ==
  /\ ctx
  /\ \/ watcher[s] = "waiting" /\ ~(s = "edge" /\ redirect # "off")
     \/ watcher[s] = "redirected"
  /\ watcher' = [watcher EXCEPT ![s] = "done"]
  /\ IF s = "ssh" THEN StopSSH ELSE Shutdown(s)
  /\ UNCHANGED <<ctx, main, outcome, sub, errCh, port80, tcp, store, active>>

(* The select of Start: the context, or a result; an error of a subsystem  *)
(* stops the others, and the result nil ends Start without a Stop.         *)
Select ==
  /\ main = "select"
  /\ \/ ctx /\ main' = "admin" /\ UNCHANGED result
     \/ \E s \in Subs : errCh[s] = "error" /\ main' = "admin" /\ result' = "error"
     \/ \E s \in Subs : errCh[s] = "nil" /\ main' = "returned" /\ result' = "nil"
  /\ UNCHANGED <<ctx, errs, sub, errCh, watcher, closes, conn, active>>

(* Server.Stop: admin, edge with its redirect server, TCP edge, SSH,       *)
(* store. It reads e.redirectSrv without a lock, and may find it nil       *)
(* although startTLS has just assigned it.                                 *)
StopRedirect ==
  /\ main = "redirect" /\ main' = "edge"
  /\ \/ redirect \notin {"off", "none"} /\ ShutdownRedirect
     \/ UNCHANGED port80
  /\ UNCHANGED <<ctx, outcome, sub, errCh, watcher, listener, down, tcp, store, conn, active>>

StopHttp(s) ==
  /\ main = s /\ main' = IF s = "admin" THEN "admin drains" ELSE "edge drains"
  /\ Shutdown(s)
  /\ UNCHANGED <<ctx, outcome, sub, errCh, watcher, port80, tcp, store, active>>

(* Stop collects an error. Start drops them all when it has one already.   *)
StopErr == errs' = (errs \/ result = None)

(* The requests of the admin API are not modelled. *)
Idle(s) == s = "edge" => active = {}

(* Mutant: without a deadline. *)
DrainEndsIdle(s) ==
  /\ main = IF s = "admin" THEN "admin drains" ELSE "edge drains"
  /\ main' = IF s = "admin" THEN "redirect" ELSE "tcp"
  /\ Idle(s) /\ UNCHANGED errs
  /\ UNCHANGED <<ctx, result, sub, errCh, watcher, closes, conn, active>>

(* Its end: no request is under way, or an error, that of the deadline     *)
(* when a request, at the edge or of the API, has outlasted the 5 s, or of *)
(* the listener.                                                           *)
DrainEnds(s) ==
  /\ main = IF s = "admin" THEN "admin drains" ELSE "edge drains"
  /\ main' = IF s = "admin" THEN "redirect" ELSE "tcp"
  /\ \/ Idle(s) /\ UNCHANGED errs
     \/ StopErr
  /\ UNCHANGED <<ctx, result, sub, errCh, watcher, closes, conn, active>>

StopTCP ==
  /\ main = "tcp" /\ main' = "ssh" /\ tcp' = FALSE
  /\ UNCHANGED <<ctx, outcome, sub, errCh, watcher, listener, down, port80, store, conn, active>>

(* Closing the listener or a connection may fail; an SSH server that its   *)
(* watcher has stopped answers nil.                                        *)
StopSSHServer ==
  /\ main = "ssh" /\ main' = "store"
  /\ StopSSH
  /\ \/ UNCHANGED errs
     \/ ~down["ssh"] /\ StopErr
  /\ UNCHANGED <<ctx, result, sub, errCh, watcher, port80, tcp, store, active>>

(* Last, the database. After a signal Start returns the errors that Stop   *)
(* joins; after a subsystem's error it returns that one.                   *)
CloseStore ==
  /\ main = "store" /\ main' = "returned" /\ store' = FALSE
  /\ UNCHANGED errs \/ StopErr
  /\ result' = IF result = None /\ ~errs' THEN "nil" ELSE "error"
  /\ UNCHANGED <<ctx, sub, errCh, watcher, listener, down, port80, tcp, conn, active>>

-----------------------------------------------------------------------------
(* SSH connections: accepted, authenticated against the store in           *)
(* NewServerConn, entered in the map of sessions, until they close.        *)
Accept(c) ==
  /\ conn[c] = "none" /\ sub["ssh"] = "serving" /\ listener["ssh"] = "open"
  /\ conn' = [conn EXCEPT ![c] = "handshake"]
  /\ UNCHANGED <<ctx, starts, closes, active>>

Handshake(c) ==
  /\ conn[c] = "handshake"
  /\ \/ store /\ conn' = [conn EXCEPT ![c] = "open"]
     \/ conn' = [conn EXCEPT ![c] = "none"]
  /\ UNCHANGED <<ctx, starts, closes, active>>

List(c) ==
  /\ conn[c] = "open" /\ conn' = [conn EXCEPT ![c] = "listed"]
  /\ UNCHANGED <<ctx, starts, closes, active>>

Drop(c) ==
  /\ conn[c] = "listed" /\ conn' = [conn EXCEPT ![c] = "none"]
  /\ UNCHANGED <<ctx, starts, closes, active>>

(* A request at the edge for the tunnel of a connection. Nothing bounds    *)
(* the time that it is under way.                                          *)
Arrive(v) ==
  /\ v \notin active /\ sub["edge"] = "serving" /\ listener["edge"] = "open"
  /\ \E c \in Conns : conn[c] = "listed"
  /\ active' = active \cup {v}
  /\ UNCHANGED <<ctx, starts, closes, conn>>

Served(v) ==
  /\ v \in active /\ active' = active \ {v}
  /\ UNCHANGED <<ctx, starts, closes, conn>>

-----------------------------------------------------------------------------
Starting(s) ==
  \/ Listen(s) \/ ListenFails(s)
  \/ s = "edge" /\ (MakeRedirect \/ ListenRedirect \/ ServeRedirect)
Orchestrator ==
  \/ Select \/ StopRedirect \/ StopTCP \/ StopSSHServer \/ CloseStore
  \/ \E s \in Http : StopHttp(s) \/ DrainEnds(s)
Serving(s) == Serve(s) \/ LoopEnds(s)
Watching(s) == WatcherStops(s) \/ (s = "edge" /\ WatcherStopsRedirect)

Next ==
  \/ Cancel \/ Orchestrator
  \/ \E s \in Subs : Starting(s) \/ Watching(s)
  \/ \E s \in Subs : Serving(s)
  \/ \E s \in Failing : ServeFails(s)
  \/ \E c \in Conns : Accept(c) \/ Handshake(c) \/ List(c) \/ Drop(c)
  \/ \E v \in Visitors : Arrive(v) \/ Served(v)
Spec == Init /\ [][Next]_vars

(* Goroutines run; deadlines pass. Requests and connections need not end,  *)
(* and a server that serves need not fail.                                 *)
FairSpec ==
  /\ Spec /\ WF_vars(Orchestrator)
  /\ \A s \in Subs : WF_vars(Starting(s) \/ Serving(s)) /\ WF_vars(Watching(s))
-----------------------------------------------------------------------------
(* Type correctness: Start returns with a result, and what has returned    *)
(* has sent its own.                                                       *)
TypeOK ==
  /\ ctx \in BOOLEAN /\ tcp \in BOOLEAN /\ store \in BOOLEAN
  /\ main \in {"select", "admin", "admin drains", "redirect", "edge", "edge drains", "tcp", "ssh",
               "store", "returned"}
  /\ result \in {None, "nil", "error"} /\ (main = "returned" => result # None)
  /\ errs \in BOOLEAN
  /\ sub \in [Subs -> {"starting", "redirecting", "listening", "serving", "returned"}]
  /\ errCh \in [Subs -> {None, "nil", "error"}]
  /\ \A s \in Subs : (sub[s] = "returned") <=> (errCh[s] # None)
  /\ listener \in [Subs -> {"none", "open", "closed"}] /\ down \in [Subs -> BOOLEAN]
  /\ watcher \in [Subs -> {"none", "waiting", "redirected", "done"}]
  /\ redirect \in {"off", "none", "made", "open", "failed", "serving", "ended"}
  /\ marked \in BOOLEAN /\ (redirect = "ended" => marked)
  /\ conn \in [Conns -> {"none", "handshake", "open", "listed"}]
  /\ active \subseteq Visitors

(* Stop closes the database last: by then the TCP edge is closed and the   *)
(* admin API and the edge accept no request, nor will they, although they  *)
(* may have been starting when they were stopped.                          *)
StoreOutlivesServing ==
  ~store => ~tcp /\ \A s \in Http : ~(sub[s] = "serving" /\ listener[s] = "open")

(* Start returns nil only after a signal, also when a subsystem that the   *)
(* signal stops returns before Start sees it, and never over an error of   *)
(* Stop; an error, only for that of a subsystem or, after a signal, for    *)
(* one of Stop's.                                                          *)
ResultExplained ==
  /\ result = "nil" => ctx /\ ~errs
  /\ result = "error" => \/ \E s \in Subs : errCh[s] = "error"
                         \/ ctx /\ errs

(* Start returns after a signal, and after the failure of a subsystem,     *)
(* whatever requests are still under way.                                  *)
StartReturns == ctx \/ (\E s \in Subs : errCh[s] = "error") ~> main = "returned"

(* When Start has returned, for a signal or an error, the loops of its     *)
(* three subsystems end, but for an SSH server that was stopped before it  *)
(* listened. Once the context is cancelled the redirect server ends too,   *)
(* also one that Stop missed because startTLS had not got so far.          *)
ServingEnds ==
  /\ main = "returned" ~>
       \A s \in Subs : \/ sub[s] = "returned"
                       \/ s = "ssh" /\ down[s] /\ listener[s] = "open"
  /\ ctx ~> [](redirect \notin {"open", "serving"})
=============================================================================
