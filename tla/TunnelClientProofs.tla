-------------------------- MODULE TunnelClientProofs --------------------------
(***************************************************************************)
(* Proofs about TunnelClient, for any set of connections, with Bounded or  *)
(* without: a backoff may overtake whatever goroutines it likes.           *)
(***************************************************************************)
EXTENDS TunnelClient, TLAPS

(* Between connections the Connector has no client.                        *)
NoClient == main.at \in {"connect", "handshake", "sleep", "returned"} => client = None

(* A watcher that is to forget the client has seen its own one lost.       *)
ClearsLost == \A k \in Conns : watch[k].at = "clearing" => watch[k].on \notin up

IInv == TypeOK /\ NoClient /\ ClearsLost /\ OpenIsKnown

LEMMA InitIInv == Init => IInv
<1>. SUFFICES ASSUME Init PROVE IInv
  OBVIOUS
<1>1. TypeOK
  BY DEF Init, TypeOK, Main, Setup, Watch
<1>2. NoClient /\ ClearsLost /\ OpenIsKnown
  BY DEF Init, NoClient, ClearsLost, OpenIsKnown, Watch
<1>. QED
  BY <1>1, <1>2 DEF IInv

LEMMA TypeStep == TypeOK /\ [Next]_vars => TypeOK'
<1>. SUFFICES ASSUME TypeOK, [Next]_vars PROVE TypeOK'
  OBVIOUS
<1>. USE NoneAssumption DEF TypeOK, Main, Setup, Watch, CutOff, local, server
<1>1. CASE MainNext
  <2>1. CASE Dial
    BY <2>1 DEF Dial
  <2>2. CASE ConnectFails
    BY <2>2 DEF ConnectFails
  <2>3. CASE SetupDone
    BY <2>3 DEF SetupDone
  <2>4. CASE SetupFailed
    BY <2>4 DEF SetupFailed
  <2>5. CASE Disconnected
    BY <2>5 DEF Disconnected
  <2>6. CASE Close
    BY <2>6 DEF Close
  <2>7. CASE Wake
    BY <2>7 DEF Wake
  <2>8. CASE SleepCancelled
    BY <2>8 DEF SleepCancelled
  <2>9. ASSUME NEW k \in Conns, Connected(k) PROVE TypeOK'
    BY <2>9 DEF Connected
  <2>. QED
    BY <1>1, <2>1, <2>2, <2>3, <2>4, <2>5, <2>6, <2>7, <2>8, <2>9 DEF MainNext
<1>2. CASE SetupNext
  <2>1. ASSUME NEW k \in Conns, OpenControl(k) PROVE TypeOK'
    BY <2>1 DEF OpenControl
  <2>2. ASSUME NEW k \in Conns, Assigned(k) PROVE TypeOK'
    BY <2>2 DEF Assigned
  <2>3. ASSUME NEW k \in Conns, RequestFails(k) PROVE TypeOK'
    BY <2>3 DEF RequestFails
  <2>4. ASSUME NEW k \in Conns, StartProxy(k) PROVE TypeOK'
    BY <2>4 DEF StartProxy
  <2>5. ASSUME NEW k \in Conns, CloseTunnel(k) PROVE TypeOK'
    BY <2>5 DEF CloseTunnel
  <2>6. ASSUME NEW k \in Conns, ControlOpens(k) PROVE TypeOK'
    BY <2>6 DEF ControlOpens
  <2>7. ASSUME NEW k \in Conns, ControlFails(k) PROVE TypeOK'
    BY <2>7 DEF ControlFails
  <2>. QED
    BY <1>2, <2>1, <2>2, <2>3, <2>4, <2>5, <2>6, <2>7 DEF SetupNext, SetupStep
<1>3. CASE WatchNext
  <2>1. ASSUME NEW k \in Conns, WatchClient(k) PROVE TypeOK'
    BY <2>1 DEF WatchClient
  <2>2. ASSUME NEW k \in Conns, WatchLost(k) PROVE TypeOK'
    BY <2>2 DEF WatchLost
  <2>3. ASSUME NEW k \in Conns, WatchClear(k) PROVE TypeOK'
    BY <2>3 DEF WatchClear
  <2>4. ASSUME NEW k \in Conns, WatchCancelled(k) PROVE TypeOK'
    BY <2>4 DEF WatchCancelled
  <2>5. ASSUME NEW k \in Conns, Probe(k) \/ ProbeAnswered(k) PROVE TypeOK'
    BY <2>5 DEF Probe, ProbeAnswered
  <2>. QED
    BY <1>3, <2>1, <2>2, <2>3, <2>4, <2>5 DEF WatchNext
<1>4. CASE ServerNext
  <2>1. ASSUME NEW k \in Conns, Register(k) PROVE TypeOK'
    BY <2>1 DEF Register
  <2>2. ASSUME NEW k \in Conns, Deregister(k) PROVE TypeOK'
    BY <2>2 DEF Deregister
  <2>3. ASSUME NEW k \in Conns, EndControl(k) PROVE TypeOK'
    BY <2>3 DEF EndControl
  <2>4. ASSUME NEW k \in Conns, Cleanup(k) PROVE TypeOK'
    BY <2>4 DEF Cleanup
  <2>. QED
    BY <1>4, <2>1, <2>2, <2>3, <2>4 DEF ServerNext
<1>5. CASE Cancel \/ Stabilize
  BY <1>5 DEF Cancel, Stabilize
<1>6. ASSUME NEW k \in Conns, LoseConnection(k) PROVE TypeOK'
  BY <1>6 DEF LoseConnection
<1>7. CASE UNCHANGED vars
  BY <1>7 DEF vars
<1>. QED
  BY <1>1, <1>2, <1>3, <1>4, <1>5, <1>6, <1>7 DEF Next

(* A step that opens no connection, sends no watcher to clear, and leaves  *)
(* the loop where it has its client or has none.                           *)
LEMMA QuietStep ==
  ASSUME IInv, TypeOK', UNCHANGED <<client, watch, up, forgotten>>,
         main'.at \in {"connect", "handshake", "sleep", "returned"} => client = None
  PROVE  IInv'
BY DEF IInv, NoClient, ClearsLost, OpenIsKnown

LEMMA Step ==
  ASSUME IInv, [Next]_vars
  PROVE  IInv'
<1>0. TypeOK'
  BY TypeStep DEF IInv
<1>. USE DEF Main, Watch, local, server
<1>1. CASE MainNext
  <2>1. CASE \/ Dial \/ ConnectFails \/ SetupDone \/ SetupFailed \/ Disconnected
             \/ Wake \/ SleepCancelled
    <3>1. /\ UNCHANGED <<client, watch, up, forgotten>>
          /\ main'.at \in {"connect", "handshake", "sleep", "returned"} =>
               main.at \in {"connect", "handshake", "sleep", "returned"}
      BY <2>1 DEF Dial, ConnectFails, SetupDone, SetupFailed, Disconnected, Wake,
                  SleepCancelled, IInv, TypeOK
    <3>. QED
      BY <1>0, <3>1, QuietStep DEF IInv, NoClient
  <2>2. CASE Close
    BY <1>0, <2>2 DEF Close, IInv, NoClient, ClearsLost, OpenIsKnown
  <2>3. ASSUME NEW k \in Conns, Connected(k) PROVE IInv'
    <3>1. client = None /\ \A j \in up : j \in forgotten
      BY <2>3, NoneAssumption DEF Connected, IInv, TypeOK, NoClient, OpenIsKnown
    <3>2. NoClient' /\ OpenIsKnown'
      BY <2>3, <3>1 DEF Connected, NoClient, OpenIsKnown
    <3>3. \A j \in Conns : watch'[j].at = "clearing" => watch[j].at = "clearing" /\ watch'[j] = watch[j]
      BY <2>3 DEF Connected, IInv, TypeOK
    <3>4. \A j \in Conns : watch[j].at = "clearing" => watch[j].on # k
      BY <2>3 DEF Connected, Unused, AtRest
    <3>5. ClearsLost'
      BY <2>3, <3>3, <3>4 DEF Connected, IInv, ClearsLost
    <3>. QED
      BY <1>0, <3>2, <3>5 DEF IInv
  <2>. QED
    BY <1>1, <2>1, <2>2, <2>3 DEF MainNext
<1>2. CASE SetupNext \/ ServerNext \/ Cancel \/ Stabilize
  <2>1. UNCHANGED <<main, client, watch, up, forgotten>>
    BY <1>2
       DEF SetupNext, SetupStep, OpenControl, ControlOpens, ControlFails, Assigned,
           RequestFails, StartProxy, CloseTunnel, ServerNext, Register, Deregister,
           EndControl, Cleanup, Cancel, Stabilize
  <2>. QED
    BY <1>0, <2>1, QuietStep DEF IInv, NoClient
<1>3. CASE WatchNext
  <2>. PICK k \in Conns : \/ WatchClient(k) \/ Probe(k) \/ ProbeAnswered(k) \/ WatchLost(k)
                          \/ WatchClear(k) \/ WatchCancelled(k)
    BY <1>3 DEF WatchNext
  <2>1. CASE WatchClient(k) \/ Probe(k) \/ ProbeAnswered(k) \/ WatchLost(k) \/ WatchCancelled(k)
    <3>1. UNCHANGED <<main, client, up, forgotten>>
      BY <2>1 DEF WatchClient, Probe, ProbeAnswered, WatchLost, WatchCancelled
    <3>2. ClearsLost'
      BY <2>1, <3>1
         DEF WatchClient, Probe, ProbeAnswered, WatchLost, WatchCancelled, IInv, TypeOK, ClearsLost
    <3>. QED
      BY <1>0, <3>1, <3>2 DEF IInv, NoClient, OpenIsKnown
  <2>2. CASE WatchClear(k)
    <3>1. watch[k].on \notin up
      BY <2>2 DEF WatchClear, IInv, ClearsLost
    <3>2. OpenIsKnown'
      BY <2>2, <3>1, NoneAssumption DEF WatchClear, IInv, TypeOK, OpenIsKnown
    <3>3. NoClient' /\ ClearsLost'
      BY <2>2 DEF WatchClear, IInv, TypeOK, NoClient, ClearsLost
    <3>. QED
      BY <1>0, <3>2, <3>3 DEF IInv
  <2>. QED
    BY <2>1, <2>2
<1>4. ASSUME NEW k \in Conns, LoseConnection(k) PROVE IInv'
  BY <1>0, <1>4 DEF LoseConnection, IInv, NoClient, ClearsLost, OpenIsKnown
<1>5. CASE UNCHANGED vars
  BY <1>0, <1>5, QuietStep DEF vars, IInv, NoClient
<1>. QED
  BY <1>1, <1>2, <1>3, <1>4, <1>5 DEF Next

(* The variables of client and server are well typed.                      *)
THEOREM TypeCorrect == Spec => []TypeOK
<1>1. Init => TypeOK
  BY InitIInv DEF IInv
<1>. QED
  BY <1>1, TypeStep, PTL DEF Spec

(* The Connector has a client only while the loop is about a connection,   *)
(* and a watcher clears it only for a connection that is lost.             *)
THEOREM Invariant == Spec => []IInv
<1>1. IInv /\ [Next]_vars => IInv'
  BY Step
<1>. QED
  BY <1>1, InitIInv, PTL DEF Spec

(* The Connector forgets an open connection only when the watcher of       *)
(* another clears it, however long old goroutines run on.                  *)
THEOREM NoConnectionForgotten == Spec => []OpenIsKnown
<1>1. IInv => OpenIsKnown
  BY DEF IInv
<1>. QED
  BY <1>1, Invariant, PTL

(* ConnectWithRetryHooks leaves no connection open when it returns but     *)
(* those that were forgotten so.                                           *)
THEOREM ReturnsWithNoneOpen == Spec => []ReturnedClosed
<1>1. IInv => ReturnedClosed
  BY NoneAssumption DEF IInv, TypeOK, NoClient, OpenIsKnown, ReturnedClosed
<1>. QED
  BY <1>1, Invariant, PTL

-----------------------------------------------------------------------------
(* The callbacks and their control channels.                               *)
Using == {"waiting", "assigned", "ok"}

(* Who uses a control channel is the only one that got one on that         *)
(* connection; who got one, the server has seen ask.                       *)
Sole ==
  \A j, k \in Conns :
    setup[k].at \in Using /\ j # k /\ setup[j].via = setup[k].via => setup[j].at = "opening"
Asked ==
  \A k \in Conns : setup[k].via # None /\ setup[k].at # "opening" => ctl[setup[k].via] # "none"

(* While connection and session are open, the server's control loop is     *)
(* where the callback takes it to be.                                      *)
Told ==
  \A k \in Conns :
    LET c == setup[k].via IN
      setup[k].at \in Using /\ c \in up /\ sess[c] = "open" =>
        IF setup[k].at = "waiting" THEN ctl[c] \in {"requested", "assigned", "refused"}
        ELSE ctl[c] = "assigned"

CallbackInv == TypeOK /\ Sole /\ Asked /\ Told

(* The connection a callback uses is a connection.                         *)
LEMMA ViaConn ==
  ASSUME TypeOK, NEW k \in Conns
  PROVE  /\ setup[k].at \in Using \cup {"opening", "closed"} => setup[k].via \in Conns
         /\ setup[k].via \in Conns \cup {None}
         /\ setup[k].at = "start" \/ setup[k].via # None \/ setup[k].at = "failed"
BY NoneAssumption DEF TypeOK, Using

(* Steps that leave the callbacks alone and change no control loop but     *)
(* those of connections that are then lost or cleaned up.                  *)
LEMMA CallbacksLeft ==
  ASSUME CallbackInv, TypeOK', UNCHANGED setup,
         \A c \in Conns : ctl[c] # "none" => ctl'[c] # "none",
         \A c \in up' : sess'[c] = "open" => c \in up /\ sess[c] = "open" /\ ctl'[c] = ctl[c]
  PROVE  CallbackInv'
<1>1. Sole'
  BY DEF CallbackInv, Sole
<1>2. Asked'
  BY ViaConn DEF CallbackInv, Asked
<1>3. Told'
  BY DEF CallbackInv, Told
<1>. QED
  BY <1>1, <1>2, <1>3 DEF CallbackInv

(* A step of callback k that keeps its connection or gives it up, moves    *)
(* forward, and leaves the control loops alone.                            *)
LEMMA CallbackMoves ==
  ASSUME CallbackInv, TypeOK', NEW k \in Conns, UNCHANGED <<up, sess, ctl>>,
         \A j \in Conns \ {k} : setup'[j] = setup[j],
         \/ setup[k].at = "start" /\ setup'[k].at = "opening"
         \/ setup'[k].at = "failed" /\ setup'[k].via = None
         \/ /\ setup[k].at \in Using /\ setup'[k].via = setup[k].via
            /\ \/ setup'[k].at \in {"failed", "closed"}
               \/ /\ setup'[k].at \in {"assigned", "ok"}
                  /\ setup[k].at \in {"assigned", "ok"} \/ ctl[setup[k].via] = "assigned"
  PROVE  CallbackInv'
<1>. USE DEF Using
<1>1. Sole'
  BY ViaConn, NoneAssumption DEF CallbackInv, Sole
<1>2. Asked'
  BY DEF CallbackInv, Asked
<1>3. Told'
  BY DEF CallbackInv, Told
<1>. QED
  BY <1>1, <1>2, <1>3 DEF CallbackInv

LEMMA CallbackStep ==
  ASSUME CallbackInv, TypeOK', NEW k \in Conns, SetupStep(k)
  PROVE  CallbackInv'
<1>. USE DEF Setup, server
<1>0. setup \in [Conns -> [at: {"start", "failed"}, via: Conns \cup {None}]
                  \cup [at: {"opening", "waiting", "assigned", "failed", "ok", "closed"}, via: Conns]]
  BY DEF CallbackInv, TypeOK
<1>1. CASE OpenControl(k) \/ ControlFails(k)
  BY <1>0, <1>1, CallbackMoves DEF OpenControl, ControlFails
<1>2. CASE Assigned(k) \/ RequestFails(k) \/ StartProxy(k)
  BY <1>0, <1>2, CallbackMoves DEF Assigned, RequestFails, StartProxy, Using
<1>3. CASE ControlOpens(k)
  <2>. DEFINE c == setup[k].via
  <2>1. /\ c \in Conns /\ ctl[c] = "none" /\ UNCHANGED <<up, sess>>
        /\ setup'[k].at = "waiting" /\ setup'[k].via = c
        /\ \A j \in Conns \ {k} : setup'[j] = setup[j]
        /\ ctl'[c] = "requested" /\ \A d \in Conns \ {c} : ctl'[d] = ctl[d]
    BY <1>0, <1>3, ViaConn DEF ControlOpens, CallbackInv, TypeOK
  <2>2. \A j \in Conns : setup[j].via = c => setup[j].at = "opening"
    BY <2>1, NoneAssumption DEF CallbackInv, Asked
  <2>3. Sole'
    BY <2>1, <2>2 DEF CallbackInv, Sole, Using
  <2>4. Asked'
    BY <2>1, ViaConn DEF CallbackInv, Asked
  <2>5. Told'
    BY <2>1, <2>2, ViaConn DEF CallbackInv, Told, Using
  <2>. QED
    BY <2>3, <2>4, <2>5 DEF CallbackInv
<1>4. CASE CloseTunnel(k)
  <2>. DEFINE c == setup[k].via
  <2>1. /\ c \in Conns /\ setup[k].at = "ok" /\ UNCHANGED <<up, sess>>
        /\ setup'[k].at = "closed" /\ setup'[k].via = c
        /\ \A j \in Conns \ {k} : setup'[j] = setup[j]
        /\ ctl'[c] \in {ctl[c], "closing"} /\ \A d \in Conns \ {c} : ctl'[d] = ctl[d]
    BY <1>0, <1>4, ViaConn DEF CloseTunnel, CallbackInv, TypeOK, Using
  <2>2. \A j \in Conns \ {k} : setup[j].at \in Using => setup[j].via # c
    BY <2>1 DEF CallbackInv, Sole, Using
  <2>3. Sole'
    BY <2>1, <2>2 DEF CallbackInv, Sole, Using
  <2>4. Asked'
    BY <2>1, ViaConn DEF CallbackInv, Asked, Using
  <2>5. Told'
    BY <2>1, <2>2, ViaConn DEF CallbackInv, Told, Using
  <2>. QED
    BY <2>3, <2>4, <2>5 DEF CallbackInv
<1>. QED
  BY <1>1, <1>2, <1>3, <1>4 DEF SetupStep

(* The server's side of connection k. *)
LEMMA ServerStep ==
  ASSUME CallbackInv, TypeOK', NEW k \in Conns,
         Register(k) \/ Deregister(k) \/ EndControl(k) \/ Cleanup(k)
  PROVE  CallbackInv'
<1>. USE DEF local
<1>0. UNCHANGED <<setup, up>>
  BY DEF Register, Deregister, EndControl, Cleanup
<1>1. Sole'
  BY <1>0 DEF CallbackInv, Sole
<1>2. /\ \A c \in Conns \ {k} : ctl'[c] = ctl[c]
      /\ ctl'[k] # "none" \/ ctl'[k] = ctl[k]
      /\ \A c \in Conns : sess'[c] = "open" => sess[c] = "open"
  BY DEF Register, Deregister, EndControl, Cleanup, CallbackInv, TypeOK
<1>3. Asked'
  BY <1>0, <1>2, ViaConn DEF CallbackInv, Asked
<1>4. ASSUME NEW j \in Conns, setup[j].at \in Using, setup[j].via = k, k \in up, sess[k] = "open"
      PROVE  IF setup[j].at = "waiting" THEN ctl'[k] \in {"requested", "assigned", "refused"}
             ELSE ctl'[k] = "assigned"
  <2>1. IF setup[j].at = "waiting" THEN ctl[k] \in {"requested", "assigned", "refused"}
        ELSE ctl[k] = "assigned"
    BY <1>4 DEF CallbackInv, Told
  <2>2. ~EndControl(k)
    BY <1>4 DEF EndControl, CallbackInv, Sole, Using
  <2>. QED
    BY <1>0, <1>4, <2>1, <2>2 DEF Register, Deregister, Cleanup, CallbackInv, TypeOK
<1>5. Told'
  BY <1>0, <1>2, <1>4, ViaConn DEF CallbackInv, Told
<1>. QED
  BY <1>1, <1>3, <1>5 DEF CallbackInv

LEMMA CallbackInvStep ==
  ASSUME CallbackInv, [Next]_vars
  PROVE  CallbackInv'
<1>0. TypeOK'
  BY TypeStep DEF CallbackInv
<1>. USE DEF local, server
<1>1. CASE MainNext
  <2>1. ASSUME NEW k \in Conns, Connected(k) PROVE CallbackInv'
    <3>0. ASSUME NEW j \in Conns
          PROVE  \/ setup'[j].at \in {"start", "failed"} /\ setup'[j].via = None
                 \/ setup'[j] = setup[j] /\ setup[j].via # k
      BY <2>1 DEF Connected, Setup
    <3>1. /\ up' = up \cup {k}
          /\ \A c \in Conns \ {k} : sess'[c] = sess[c] /\ ctl'[c] = ctl[c]
      BY <2>1 DEF Connected, CallbackInv, TypeOK
    <3>2. Sole'
      BY <3>0, <3>1, ViaConn, NoneAssumption DEF CallbackInv, Sole, Using
    <3>3. Asked'
      BY <3>0, <3>1, ViaConn DEF CallbackInv, Asked
    <3>4. Told'
      BY <3>0, <3>1, ViaConn DEF CallbackInv, Told, Using
    <3>. QED
      BY <1>0, <3>2, <3>3, <3>4 DEF CallbackInv
  <2>2. CASE Close
    <3>1. /\ UNCHANGED <<setup, sess>> /\ up' = up \ {client}
          /\ \A c \in Conns : ctl'[c] = IF c = client THEN CutOff(c) ELSE ctl[c]
      BY <2>2 DEF Close
    <3>. QED
      BY <1>0, <3>1, CallbacksLeft DEF CutOff, CallbackInv, TypeOK
  <2>3. CASE \/ Dial \/ ConnectFails \/ SetupDone \/ SetupFailed \/ Disconnected
             \/ Wake \/ SleepCancelled
    <3>1. UNCHANGED <<setup, up, sess, ctl>>
      BY <2>3 DEF Dial, ConnectFails, SetupDone, SetupFailed, Disconnected, Wake, SleepCancelled
    <3>. QED
      BY <1>0, <3>1, CallbacksLeft
  <2>. QED
    BY <1>1, <2>1, <2>2, <2>3 DEF MainNext
<1>2. CASE SetupNext
  BY <1>0, <1>2, CallbackStep DEF SetupNext
<1>3. CASE ServerNext
  BY <1>0, <1>3, ServerStep DEF ServerNext
<1>4. ASSUME NEW k \in Conns, LoseConnection(k) PROVE CallbackInv'
  <2>1. /\ UNCHANGED <<setup, sess>> /\ up' = up \ {k}
        /\ \A c \in Conns : ctl'[c] = IF c = k THEN CutOff(k) ELSE ctl[c]
    BY <1>4 DEF LoseConnection, CallbackInv, TypeOK
  <2>. QED
    BY <1>0, <2>1, CallbacksLeft DEF CutOff, CallbackInv, TypeOK
<1>5. CASE WatchNext \/ Cancel \/ Stabilize \/ UNCHANGED vars
  <2>1. UNCHANGED <<setup, up, sess, ctl>>
    BY <1>5 DEF WatchNext, WatchClient, Probe, ProbeAnswered, WatchLost, WatchClear,
                WatchCancelled, Cancel, Stabilize, vars
  <2>. QED
    BY <1>0, <2>1, CallbacksLeft
<1>. QED
  BY <1>1, <1>2, <1>3, <1>4, <1>5 DEF Next

(* A callback that has its tunnel is alone on its control channel, and the *)
(* server's control loop agrees (main.go's onConnect, handleTunnelRequest),*)
(* whichever connection it found in the Connector.                         *)
THEOREM ReportsAreTrue == Spec => []SetupIsTrue
<1>1. Init => CallbackInv
  BY InitIInv, NoneAssumption
     DEF IInv, Init, Setup, CallbackInv, Sole, Asked, Told, Using
<1>2. CallbackInv /\ [Next]_vars => CallbackInv'
  BY CallbackInvStep
<1>3. CallbackInv => SetupIsTrue
  BY DEF CallbackInv, Sole, Told, SetupIsTrue, Using
<1>. QED
  BY <1>1, <1>2, <1>3, PTL DEF Spec
=============================================================================
