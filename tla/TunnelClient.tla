----------------------------- MODULE TunnelClient -----------------------------
(***************************************************************************)
(* A tunnel client and its server: the retry loop of the client            *)
(* (internal/client/reconnect.go), the Connector it shares with the setup  *)
(* callback and the disconnect watcher of every connection                 *)
(* (connection.go), the callback itself (cmd/client/main.go, control.go),  *)
(* and on the server the session and the control loop of every connection  *)
(* and the one name the client asks for (control.go, tunnel.go; module     *)
(* TunnelManager has them in full).                                        *)
(*                                                                         *)
(* Time is abstract. Until the network is stable nothing is known of it: a *)
(* backoff may end while goroutines of earlier connections still run, a    *)
(* handshake or a probe may wait for ever. From then on the server answers *)
(* and a backoff (a second at least) outlasts the old goroutines.          *)
(* connected and client are always assigned together: the model keeps      *)
(* client.                                                                 *)
(***************************************************************************)
CONSTANTS
  Conns,   \* SSH connections; one is used again when nothing refers to it
  None,
  Orphan,  \* what has the name when a session's cleanup did not find its tunnel
  Bounded  \* whether the bounds FewLate and NoneLate apply, for TLC

ASSUME NoneAssumption == None \notin Conns /\ Orphan \notin Conns \cup {None}
ASSUME BoundedAssumption == Bounded \in BOOLEAN

VARIABLES
  main,       \* ConnectWithRetryHooks: its place, the connection it is about
  ctx,        \* whether the caller's context is cancelled
  client,     \* Connector.client
  setup,      \* the OnConnected goroutine of a connection and the
              \* connection its control channel is on
  watch,      \* the waitForDisconnect goroutine and the client it waits on
  up,         \* connections that are open for the client
  sess,       \* the server's session of a connection
  ctl,        \* the server's control loop of a connection
  holder,     \* the session whose tunnel has the client's name
  stable,     \* whether network and server fail no more, and answer in time
  forgotten,  \* open connections whose client another one's watcher cleared
  taken       \* whether an earlier session's request took the name of main's
              \* (history, as forgotten: no step depends on them)

local  == <<client, setup, watch, forgotten>>
server == <<sess, ctl, holder, taken>>
vars == <<main, ctx, local, up, server, stable>>

Main(at, k) == [at |-> at, conn |-> k]
Setup(at, c) == [at |-> at, via |-> c]
Watch(at, c) == [at |-> at, on |-> c]

Init ==
  /\ main = Main("connect", None)
  /\ ctx = FALSE /\ client = None
  /\ setup = [k \in Conns |-> Setup("failed", None)]
  /\ watch = [k \in Conns |-> Watch("done", None)]
  /\ up = {}
  /\ sess = [k \in Conns |-> "gone"]
  /\ ctl = [k \in Conns |-> "ended"]
  /\ holder = None
  /\ stable = FALSE
  /\ forgotten = {} /\ taken = FALSE

(* c.mu is not held by Connect, which keeps it through the handshake. *)
Unlocked == main.at # "handshake"

(* The goroutines of connection k have come to rest. *)
AtRest(k) ==
  /\ watch[k].at = "done"
  /\ setup[k].at \in {"failed", "closed"}

(* connCtx of connection k is cancelled: with ctx, or by cancelConn. *)
Cancelled(k) == ctx \/ ~(main.at \in {"select", "established"} /\ main.conn = k)

(* Nothing refers to connection k. *)
Unused(k) ==
  /\ AtRest(k) /\ k \notin up /\ sess[k] = "gone" /\ ctl[k] = "ended"
  /\ client # k /\ main.conn # k
  /\ \A j \in Conns : (setup[j].via = k \/ watch[j].on = k) => AtRest(j)

(* When a connection is lost its control loop ends, unless it still has a  *)
(* message to serve that was received before.                              *)
CutOff(k) == IF ctl[k] \in {"requested", "closing"} THEN ctl[k] ELSE "ended"

-----------------------------------------------------------------------------
(* ConnectWithRetryHooks. *)

(* Connect refuses while connected, and dials with ctx ... *)
Dial ==
  /\ main.at = "connect" /\ client = None /\ ~ctx
  /\ main' = Main("handshake", None)
  /\ UNCHANGED <<ctx, local, up, server, stable>>

ConnectFails ==
  /\ \/ main.at = "connect" /\ (client # None \/ ctx \/ ~stable)
     \/ main.at = "handshake" /\ ~stable
  /\ main' = Main("sleep", None)
  /\ UNCHANGED <<ctx, local, up, server, stable>>

(* ... but waits for the handshake to finish without it, and without a     *)
(* deadline. The callback and the watcher of the new connection start.     *)
Connected(k) ==
  /\ main.at = "handshake" /\ Unused(k)
  /\ main' = Main("select", k)
  /\ client' = k
  /\ setup' = [j \in Conns |-> IF j = k THEN Setup("start", None)
                               ELSE IF setup[j].via = k THEN Setup("failed", None) ELSE setup[j]]
  /\ watch' = [watch EXCEPT ![k] = Watch("start", None)]
  /\ up' = up \cup {k}
  /\ sess' = [sess EXCEPT ![k] = "open"]
  /\ ctl' = [ctl EXCEPT ![k] = "none"]
  /\ taken' = FALSE
  /\ UNCHANGED <<ctx, holder, stable, forgotten>>

SetupDone ==
  /\ main.at = "select" /\ setup[main.conn].at \in {"ok", "closed"}
  /\ main' = [main EXCEPT !.at = "established"]
  /\ UNCHANGED <<ctx, local, up, server, stable>>

SetupFailed ==
  /\ main.at = "select" /\ setup[main.conn].at = "failed"
  /\ main' = [main EXCEPT !.at = "failed"]
  /\ UNCHANGED <<ctx, local, up, server, stable>>

(* disconnected is closed: the watcher has returned. *)
Disconnected ==
  /\ main.at \in {"select", "established"} /\ watch[main.conn].at = "done"
  /\ main' = [main EXCEPT !.at = "lost"]
  /\ UNCHANGED <<ctx, local, up, server, stable>>

(* Mutants: the connection is closed only if setup failed; only if lost.  *)
CloseIf(closes) ==
  /\ main.at \in {"failed", "lost"}
  /\ up' = IF closes THEN up \ {client} ELSE up
  /\ ctl' = [k \in Conns |-> IF closes /\ k = client THEN CutOff(k) ELSE ctl[k]]
  /\ client' = IF closes THEN None ELSE client
  /\ main' = Main(IF main.at = "lost" /\ ctx THEN "returned" ELSE "sleep", None)
  /\ UNCHANGED <<ctx, setup, watch, forgotten, sess, holder, taken, stable>>
CloseAfterFailure == CloseIf(main.at = "failed")
CloseAfterLoss == CloseIf(main.at = "lost")

(* c.Close, then the return on a cancelled context, or the backoff. *)
Close ==
  /\ main.at \in {"failed", "lost"}
  /\ up' = up \ {client} /\ client' = None
  /\ ctl' = [k \in Conns |-> IF k = client THEN CutOff(k) ELSE ctl[k]]
  /\ main' = Main(IF main.at = "lost" /\ ctx THEN "returned" ELSE "sleep", None)
  /\ UNCHANGED <<ctx, setup, watch, forgotten, sess, holder, taken, stable>>

(* Bounds: a backoff that overtakes goroutines does so when nothing else   *)
(* is left of any connection and one is unused, and overtakes only         *)
(* callbacks that have not begun and watchers about to take the lock; the  *)
(* network gets stable before a dial or with a connection established, and *)
(* when none is late.                                                      *)
FewLate ==
  /\ up = {} /\ holder = None
  /\ \A k \in Conns : /\ sess[k] = "gone" /\ ctl[k] = "ended"
                      /\ watch[k].at \in {"done", "clearing"}
                      /\ setup[k].at \in {"failed", "closed", "start"} /\ setup[k].via = None
  /\ \E k \in Conns : Unused(k)
NoneLate ==
  /\ forgotten = {} /\ main.at \in {"connect", "established"}
  /\ \A k \in Conns : k = main.conn \/ AtRest(k)

(* sleepWithContext: the timer fires, the context not being cancelled; in  *)
(* a stable network old goroutines are at rest by then.                    *)
Wake ==
  /\ main.at = "sleep" /\ ~ctx
  /\ (\A k \in Conns : AtRest(k)) \/ (~stable /\ (Bounded => FewLate))
  /\ main' = Main("connect", None)
  /\ UNCHANGED <<ctx, local, up, server, stable>>

(* ... or the context is cancelled. *)
SleepCancelled ==
  /\ main.at = "sleep" /\ ctx
  /\ main' = Main("returned", None)
  /\ UNCHANGED <<ctx, local, up, server, stable>>

-----------------------------------------------------------------------------
(* onConnect, run for connection k. *)

(* OpenControl takes the client of this moment ...                         *)
OpenControl(k) ==
  /\ setup[k].at = "start" /\ Unlocked
  /\ setup' = [setup EXCEPT ![k] = IF client = None THEN Setup("failed", None)
                                   ELSE Setup("opening", client)]
  /\ UNCHANGED <<main, ctx, client, watch, forgotten, up, server, stable>>

(* Mutant: the server accepts a second control channel. *)
OpenSecond(k) ==
  LET c == setup[k].via IN
  /\ setup[k].at = "opening" /\ c \in up /\ ctl[c] # "ended" /\ sess[c] = "open"
  /\ setup' = [setup EXCEPT ![k].at = "waiting"]
  /\ ctl' = [ctl EXCEPT ![c] = "requested"]
  /\ UNCHANGED <<main, ctx, client, watch, forgotten, up, sess, holder, taken, stable>>

(* ... and opens a channel on it. The server accepts one control channel   *)
(* per session; on it the tunnel is requested.                             *)
ControlOpens(k) ==
  LET c == setup[k].via IN
  /\ setup[k].at = "opening" /\ c \in up /\ ctl[c] = "none" /\ sess[c] = "open"
  /\ setup' = [setup EXCEPT ![k].at = "waiting"]
  /\ ctl' = [ctl EXCEPT ![c] = "requested"]
  /\ UNCHANGED <<main, ctx, client, watch, forgotten, up, sess, holder, taken, stable>>

ControlFails(k) ==
  LET c == setup[k].via IN
  /\ setup[k].at = "opening" /\ (c \notin up \/ ctl[c] # "none")
  /\ setup' = [setup EXCEPT ![k] = Setup("failed", None)]
  /\ UNCHANGED <<main, ctx, client, watch, forgotten, up, server, stable>>

(* RequestTunnel returns the assignment ... *)
Assigned(k) ==
  /\ setup[k].at = "waiting" /\ ctl[setup[k].via] = "assigned"
  /\ setup' = [setup EXCEPT ![k].at = "assigned"]
  /\ UNCHANGED <<main, ctx, client, watch, forgotten, up, server, stable>>

(* ... or an error, the server's or the channel's. *)
RequestFails(k) ==
  /\ setup[k].at = "waiting"
  /\ ctl[setup[k].via] = "refused" \/ setup[k].via \notin up
  /\ setup' = [setup EXCEPT ![k].at = "failed"]
  /\ UNCHANGED <<main, ctx, client, watch, forgotten, up, server, stable>>

(* SSHClient may be nil by now. *)
StartProxy(k) ==
  /\ setup[k].at = "assigned" /\ Unlocked
  /\ setup' = [setup EXCEPT ![k].at = IF client = None THEN "failed" ELSE "ok"]
  /\ UNCHANGED <<main, ctx, client, watch, forgotten, up, server, stable>>

(* When connCtx is cancelled: CloseTunnel on the control channel, at best. *)
CloseTunnel(k) ==
  /\ setup[k].at = "ok" /\ Cancelled(k)
  /\ setup' = [setup EXCEPT ![k].at = "closed"]
  /\ \/ /\ setup[k].via \in up /\ ctl[setup[k].via] = "assigned"
        /\ ctl' = [ctl EXCEPT ![setup[k].via] = "closing"]
     \/ UNCHANGED ctl
  /\ UNCHANGED <<main, ctx, client, watch, forgotten, up, sess, holder, taken, stable>>

-----------------------------------------------------------------------------
(* waitForDisconnect, run for connection k. *)
WatchClient(k) ==
  /\ watch[k].at = "start" /\ Unlocked
  /\ watch' = [watch EXCEPT ![k] = IF client = None THEN Watch("done", None)
                                   ELSE Watch("waiting", client)]
  /\ UNCHANGED <<main, ctx, client, setup, forgotten, up, server, stable>>

(* The ticker: SendRequest waits for the answer, and for nothing else. *)
Probe(k) ==
  /\ watch[k].at = "waiting"
  /\ watch' = [watch EXCEPT ![k].at = "probing"]
  /\ UNCHANGED <<main, ctx, client, setup, forgotten, up, server, stable>>

ProbeAnswered(k) ==
  /\ watch[k].at = "probing" /\ watch[k].on \in up
  /\ watch' = [watch EXCEPT ![k].at = "waiting"]
  /\ UNCHANGED <<main, ctx, client, setup, forgotten, up, server, stable>>

(* Wait returns, or the probe fails. *)
WatchLost(k) ==
  /\ watch[k].at \in {"waiting", "probing"} /\ watch[k].on \notin up
  /\ watch' = [watch EXCEPT ![k].at = "clearing"]
  /\ UNCHANGED <<main, ctx, client, setup, forgotten, up, server, stable>>

(* The lock is taken later: whatever the client is now, it is forgotten. *)
WatchClear(k) ==
  /\ watch[k].at = "clearing" /\ Unlocked
  /\ client' = None
  /\ watch' = [watch EXCEPT ![k] = Watch("done", None)]
  /\ forgotten' = IF client \in {None, watch[k].on} THEN forgotten ELSE forgotten \cup {client}
  /\ UNCHANGED <<main, ctx, setup, up, server, stable>>

(* Mutants: a cancelled watcher forgets the client too; it does not end.   *)
WatchForgets(k) ==
  /\ watch[k].at = "waiting" /\ Cancelled(k)
  /\ client' = None
  /\ watch' = [watch EXCEPT ![k] = Watch("done", None)]
  /\ UNCHANGED <<main, ctx, setup, forgotten, up, server, stable>>
WatchIgnores(k) ==
  /\ watch[k].at = "waiting" /\ Cancelled(k)
  /\ UNCHANGED vars

(* The select sees the cancelled context; SendRequest does not. *)
WatchCancelled(k) ==
  /\ watch[k].at = "waiting" /\ Cancelled(k)
  /\ watch' = [watch EXCEPT ![k] = Watch("done", None)]
  /\ UNCHANGED <<main, ctx, client, setup, forgotten, up, server, stable>>

-----------------------------------------------------------------------------
(* The server. *)

(* The request is served, even after the loss of the connection if it was  *)
(* received before: a tunnel of the name, which is of the same token, is   *)
(* evicted. Or it is refused. A tunnel registered after the cleanup of its *)
(* session stays until it is evicted.                                      *)
Register(k) ==
  /\ ctl[k] = "requested"
  /\ \/ /\ ctl' = [ctl EXCEPT ![k] = IF k \in up THEN "assigned" ELSE "ended"]
        /\ holder' = IF sess[k] = "open" THEN k ELSE Orphan
        /\ taken' = (taken \/ (holder = main.conn /\ k # main.conn /\ holder # None))
     \/ /\ ~stable
        /\ ctl' = [ctl EXCEPT ![k] = IF k \in up THEN "refused" ELSE "ended"]
        /\ UNCHANGED <<holder, taken>>
  /\ UNCHANGED <<main, ctx, local, up, sess, stable>>

Deregister(k) ==
  /\ ctl[k] = "closing"
  /\ ctl' = [ctl EXCEPT ![k] = "ended"]
  /\ holder' = IF holder = k THEN None ELSE holder
  /\ UNCHANGED <<main, ctx, local, up, sess, taken, stable>>

(* The control loop reads the end of its channel: the connection is lost,  *)
(* perhaps with a message that never arrived, or the callback is done with *)
(* the channel (cc.Close).                                                 *)
EndControl(k) ==
  /\ ctl[k] # "ended"
  /\ \/ k \notin up \/ sess[k] = "gone"
     \/ \E j \in Conns : setup[j].via = k /\ setup[j].at \in {"failed", "closed"}
  /\ ctl' = [ctl EXCEPT ![k] = "ended"]
  /\ UNCHANGED <<main, ctx, local, up, sess, holder, taken, stable>>

(* DeregisterBySession, once the server sees the connection lost. *)
Cleanup(k) ==
  /\ sess[k] = "open" /\ (k \notin up \/ ~stable)
  /\ sess' = [sess EXCEPT ![k] = "gone"]
  /\ holder' = IF holder = k THEN None ELSE holder
  /\ UNCHANGED <<main, ctx, local, up, ctl, taken, stable>>

-----------------------------------------------------------------------------
(* The client's machine and the network. *)
LoseConnection(k) ==
  /\ k \in up /\ (~stable \/ sess[k] = "gone")
  /\ up' = up \ {k} /\ forgotten' = forgotten \ {k}
  /\ ctl' = [ctl EXCEPT ![k] = CutOff(k)]
  /\ UNCHANGED <<main, ctx, client, setup, watch, sess, holder, taken, stable>>

Cancel ==
  /\ ~ctx /\ ctx' = TRUE
  /\ UNCHANGED <<main, client, setup, watch, forgotten, up, server, stable>>

Stabilize ==
  /\ ~stable /\ stable' = TRUE /\ (Bounded => NoneLate)
  /\ UNCHANGED <<main, ctx, local, up, server>>

MainNext ==
  \/ Dial \/ ConnectFails \/ SetupDone \/ SetupFailed \/ Disconnected
  \/ Close \/ Wake \/ SleepCancelled
  \/ \E k \in Conns : Connected(k)
SetupStep(k) ==
  \/ OpenControl(k) \/ ControlOpens(k) \/ ControlFails(k) \/ Assigned(k)
  \/ RequestFails(k) \/ StartProxy(k) \/ CloseTunnel(k)
SetupNext == \E k \in Conns : SetupStep(k)
WatchNext ==
  \E k \in Conns :
    \/ WatchClient(k) \/ Probe(k) \/ ProbeAnswered(k) \/ WatchLost(k)
    \/ WatchClear(k) \/ WatchCancelled(k)
ServerNext ==
  \E k \in Conns : Register(k) \/ Deregister(k) \/ EndControl(k) \/ Cleanup(k)

Next ==
  \/ MainNext \/ SetupNext \/ WatchNext \/ ServerNext
  \/ Cancel \/ Stabilize \/ \E k \in Conns : LoseConnection(k)
Spec == Init /\ [][Next]_vars

(* Every goroutine runs, and a lost connection is noticed on both sides in *)
(* the end (TCP gives up). That a handshake ends and a probe or a channel  *)
(* is answered is fair only once the network is stable. A select picks     *)
(* among what is ready at random: the cancelled context is seen in the     *)
(* end, however many probes come before it. The network need not become    *)
(* stable, nor the user cancel.                                            *)
Fairness ==
  /\ WF_vars(Unlocked /\ MainNext)
  /\ WF_vars(stable /\ MainNext)
  /\ \A k \in Conns :
       /\ WF_vars(setup[k].at # "opening" /\ SetupStep(k))
       /\ WF_vars(stable /\ SetupStep(k))
       /\ WF_vars(WatchClient(k) \/ WatchLost(k) \/ WatchClear(k))
       /\ WF_vars(stable /\ ProbeAnswered(k))
       /\ SF_vars(WatchCancelled(k))
       /\ WF_vars(Register(k) \/ Deregister(k) \/ EndControl(k))
       /\ WF_vars(k \notin up /\ Cleanup(k))
       /\ WF_vars(sess[k] = "gone" /\ LoseConnection(k))
FairSpec == Spec /\ Fairness

-----------------------------------------------------------------------------
(* Type correctness. *)
TypeOK ==
  /\ main \in [at: {"select", "established", "failed", "lost"}, conn: Conns] \cup
              [at: {"connect", "handshake", "sleep", "returned"}, conn: {None}]
  /\ ctx \in BOOLEAN /\ stable \in BOOLEAN
  /\ client \in Conns \cup {None}
  /\ setup \in [Conns -> [at: {"start", "failed"}, via: Conns \cup {None}]
                  \cup [at: {"opening", "waiting", "assigned", "failed", "ok", "closed"}, via: Conns]]
  /\ watch \in [Conns -> [at: {"start", "done"}, on: {None}]
                  \cup [at: {"waiting", "probing", "clearing"}, on: Conns]]
  /\ up \subseteq Conns
  /\ sess \in [Conns -> {"open", "gone"}]
  /\ ctl \in [Conns -> {"none", "requested", "assigned", "refused", "closing", "ended"}]
  /\ holder \in Conns \cup {None, Orphan}
  /\ forgotten \subseteq Conns /\ taken \in BOOLEAN

(* An open connection is the one that Close would close, although the      *)
(* retry loop, the callback and the watcher each act on the Connector: no  *)
(* watcher makes the Connector forget its own connection while it is open. *)
(* It is only ever forgotten when the watcher of an earlier one, overtaken *)
(* by the backoff, takes the lock after Connect.                           *)
OpenIsKnown == \A k \in up : client = k \/ k \in forgotten

(* When ConnectWithRetryHooks returns, it leaves no connection open but    *)
(* those that were forgotten so.                                           *)
ReturnedClosed == main.at = "returned" => up \subseteq forgotten

(* What a callback reports is so, although it takes the Connector's client *)
(* of the moment and a late one may find a newer connection: no other      *)
(* callback got a control channel on the same connection, and as long as   *)
(* that and its session are open the server's control loop has the tunnel  *)
(* assigned.                                                               *)
SetupIsTrue ==
  \A k \in Conns : setup[k].at \in {"assigned", "ok"} =>
    LET c == setup[k].via IN
      /\ \A j \in Conns \ {k} : setup[j].via = c => setup[j].at = "opening"
      /\ c \in up /\ sess[c] = "open" => ctl[c] = "assigned"

(* Once the user cancels, ConnectWithRetryHooks returns, unless it waits   *)
(* for ever for a server that is connected and silent: in the handshake,   *)
(* or in the watcher's probe.                                              *)
AwaitsServer ==
  \/ main.at = "handshake"
  \/ main.at \in {"select", "established"} /\ watch[main.conn].at = "probing"
CancelReturns == ctx ~> main.at = "returned" \/ []AwaitsServer

(* Once network and server stop failing, the client gets a connection and  *)
(* a session that stay open, set up, and its tunnel has the client's name, *)
(* unless the late request of an earlier session has taken it from it, or  *)
(* the client was told to end.                                             *)
Recovers ==
  stable ~> [](\/ ctx
               \/ /\ main.at = "established"
                  /\ main.conn \in up /\ sess[main.conn] = "open"
                  /\ holder = main.conn \/ taken)
=============================================================================
