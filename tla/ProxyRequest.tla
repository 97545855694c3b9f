----------------------------- MODULE ProxyRequest -----------------------------
(***************************************************************************)
(* One HTTP request or TCP connection on its way through a tunnel: the     *)
(* edge's handler and its response reader (internal/server/edge.go,        *)
(* proxyRequest), or the TCP edge's two copiers (tcpedge.go, proxy); the   *)
(* SSH channel between server and client; the client's bridge to the local *)
(* service with its two copiers (internal/client/proxy.go); and the local  *)
(* service. Requests do not interact but through the registry, which       *)
(* module TunnelManager has.                                               *)
(*                                                                         *)
(* Bytes come in units, of which the channel and the socket hold a few. A  *)
(* peer's EOF or close is read after the data that was sent before it. The *)
(* mux of each side answers a close with its own.                          *)
(***************************************************************************)
EXTENDS Naturals
CONSTANTS
  Body,    \* units of the request
  Resp,    \* units of the service's response
  Window,  \* units a direction of the channel holds
  Sock,    \* units a direction of the local connection holds
  None

ASSUME SizesAssumption == {Body, Resp, Window, Sock} \subseteq Nat \ {0}
ASSUME NoneAssumption ==
  None \notin {"offline", "unreachable", "timeout", "response", "left", "closed", "error",
               "plain", "tls", "serves", "stalls", "hasty", "silent", "hung"}

VARIABLES
  edge,      \* the place of proxyRequest, or of handleConnection
  answer,    \* what the visitor was told in the end
  toWrite,   \* units of the request still to be written
  proto,     \* whether the tunnel is an HTTP or a TCP tunnel
  visitor,   \* whether the visitor still sends, has finished (TCP), or left
  relays,    \* the copiers of TCPEdge.proxy
  reader,    \* the goroutine that reads the response
  result,    \* what is in resultCh
  delivered, \* units of the response the visitor has been sent
  link,      \* whether the SSH connection is up
  reqs,      \* units in the channel towards the client
  resps,     \* units in the channel towards the server
  ended,     \* sides that sent EOF
  closed,    \* sides that sent close
  client,    \* the place of handleSingleChannel
  copiers,   \* its goroutines that still copy
  half,      \* whether the service sees the end of its input
  service,   \* the local service and its connection
  in, out    \* units in the socket towards and from the service

tcp     == <<proto, visitor, relays>>
handler == <<edge, answer, toWrite, delivered, tcp>>
read    == <<reader, result>>
channel == <<link, reqs, resps, ended, closed>>
bridge  == <<client, copiers, half>>
local   == <<service, in, out>>
vars    == <<handler, read, channel, bridge, local>>

Kinds  == {"plain", "tls"}
(* A service reads the request and answers, stops in the middle of its     *)
(* answer (as a stream with nothing to say does), answers without reading, *)
(* reads and does not answer, or does neither.                             *)
Habits == {"serves", "stalls", "hasty", "silent", "hung"}
NoService == [habit |-> None, kind |-> None, at |-> "none", left |-> 0, failed |-> FALSE]

Init ==
  /\ edge = "open" /\ answer = None /\ toWrite = Body /\ delivered = 0
  /\ proto \in {"http", "tcp"} /\ visitor = "here" /\ relays = {}
  /\ reader = "none" /\ result = None
  /\ link = TRUE /\ reqs = 0 /\ resps = 0 /\ ended = {} /\ closed = {}
  /\ client = "none" /\ copiers = {} /\ half = FALSE
  /\ service = NoService /\ in = 0 /\ out = 0

(* A side has nothing more to read than what is in the channel. *)
Over(side) == side \in ended \cup closed \/ ~link
Writable == link /\ closed = {}

-----------------------------------------------------------------------------
(* proxyRequest. Its return closes the channel. *)
Finish(a) ==
  /\ edge' = "done" /\ answer' = a /\ closed' = closed \cup {"server"}

(* The channel is asked for, or cannot be: no such tunnel any more, no      *)
(* connection.                                                             *)
OpenProxyChannel ==
  /\ edge = "open"
  /\ \/ link /\ edge' = "opening" /\ UNCHANGED answer
     \/ edge' = "done" /\ answer' = "offline"
  /\ UNCHANGED <<toWrite, delivered, tcp, read, channel, bridge, local>>

(* The client's HandleChannels takes it and starts a goroutine for it; a   *)
(* client that has no handler yet, or has stopped, does not accept.        *)
AcceptChannel ==
  /\ edge = "opening"
  /\ \/ /\ link /\ client' = "accepted" /\ UNCHANGED answer
        /\ IF proto = "http" THEN edge' = "writing" /\ UNCHANGED relays
           ELSE edge' = "relaying" /\ relays' = {"in", "out"}
     \/ edge' = "done" /\ answer' = "offline" /\ UNCHANGED <<client, relays>>
  /\ UNCHANGED <<toWrite, delivered, proto, visitor, read, channel, copiers, half, local>>

(* r.Write blocks while the channel is full. *)
Write ==
  /\ edge = "writing" /\ toWrite > 0 /\ reqs < Window /\ Writable
  /\ toWrite' = toWrite - 1 /\ reqs' = reqs + 1
  /\ UNCHANGED <<edge, answer, delivered, read, link, resps, ended, closed, bridge, local, tcp>>

(* The channel has closed, or the visitor has left and the rest of its body *)
(* cannot be read: the client is then left with a part of the request.      *)
WriteFails ==
  /\ edge = "writing" /\ toWrite > 0
  /\ ~Writable \/ (visitor = "left" /\ reqs < Window)
  /\ Finish("offline")
  /\ UNCHANGED <<toWrite, delivered, read, link, reqs, resps, ended, bridge, local, tcp>>

(* Mutant: the server sends EOF after the request. *)
WrittenEOF ==
  /\ edge = "writing" /\ toWrite = 0
  /\ edge' = "waiting" /\ reader' = "reading" /\ ended' = ended \cup {"server"}
  /\ UNCHANGED <<answer, toWrite, delivered, result, link, reqs, resps, closed, bridge, local, tcp>>

(* Without an EOF; the reader starts. *)
Written ==
  /\ edge = "writing" /\ toWrite = 0
  /\ edge' = "waiting" /\ reader' = "reading"
  /\ UNCHANGED <<answer, toWrite, delivered, result, channel, bridge, local, tcp>>

(* Mutant: resultCh has no buffer. *)
ReadUnbuffered ==
  /\ reader = "reading" /\ edge = "waiting"
  /\ \/ resps > 0 /\ resps' = resps - 1 /\ result' = "response"
     \/ (resps = 0 \/ ~link) /\ Over("client") /\ result' = "error" /\ UNCHANGED resps
  /\ reader' = "done"
  /\ UNCHANGED <<handler, link, reqs, ended, closed, bridge, local>>

(* The reader leaves its result in resultCh, which has room for it. *)
ReadResponse ==
  /\ reader = "reading"
  /\ \/ resps > 0 /\ resps' = resps - 1 /\ result' = "response"
     \/ (resps = 0 \/ ~link) /\ Over("client") /\ result' = "error" /\ UNCHANGED resps
  /\ reader' = "done"
  /\ UNCHANGED <<handler, link, reqs, ended, closed, bridge, local>>

TakeResponse ==
  /\ edge = "waiting" /\ result = "response"
  /\ edge' = "copying" /\ delivered' = 1
  /\ UNCHANGED <<answer, toWrite, read, channel, bridge, local, tcp>>

TakeError ==
  /\ edge = "waiting" /\ result = "error"
  /\ Finish("unreachable")
  /\ UNCHANGED <<toWrite, delivered, read, link, reqs, resps, ended, bridge, local, tcp>>

(* Mutant: the timeout is not enforced. *)
NoTimeout == edge = "waiting" /\ UNCHANGED vars

Timeout ==
  /\ edge = "waiting"
  /\ Finish("timeout")
  /\ UNCHANGED <<toWrite, delivered, read, link, reqs, resps, ended, bridge, local, tcp>>

CopyBody ==
  /\ edge = "copying" /\ resps > 0
  /\ resps' = resps - 1 /\ delivered' = delivered + 1
  /\ UNCHANGED <<edge, answer, toWrite, read, link, reqs, ended, closed, bridge, local, tcp>>

(* The body is complete, or cut short, or a write to the visitor fails,    *)
(* who has left. Without anything to write, that is not noticed.           *)
CopyEnds ==
  /\ edge = "copying"
  /\ \/ /\ delivered = Resp \/ ((resps = 0 \/ ~link) /\ Over("client"))
        /\ Finish("response")
     \/ visitor = "left" /\ resps > 0 /\ Finish("left")
  /\ UNCHANGED <<toWrite, delivered, read, link, reqs, resps, ended, bridge, local, tcp>>

-----------------------------------------------------------------------------
(* TCPEdge.proxy: what the visitor sends ... *)
RelayIn ==
  /\ "in" \in relays /\ toWrite > 0 /\ visitor # "left" /\ reqs < Window /\ Writable
  /\ toWrite' = toWrite - 1 /\ reqs' = reqs + 1
  /\ UNCHANGED <<edge, answer, delivered, tcp, read, link, resps, ended, closed, bridge, local>>

(* Mutant: the client is not told. *)
RelayInEndsQuietly ==
  /\ "in" \in relays
  /\ visitor # "here" \/ (toWrite > 0 /\ ~Writable)
  /\ relays' = relays \ {"in"}
  /\ UNCHANGED <<edge, answer, toWrite, delivered, proto, visitor, read, channel, bridge, local>>

(* CloseWrite, at its end or on a failed write. *)
RelayInEnds ==
  /\ "in" \in relays
  /\ visitor # "here" \/ (toWrite > 0 /\ ~Writable)
  /\ relays' = relays \ {"in"} /\ ended' = ended \cup {"server"}
  /\ UNCHANGED <<edge, answer, toWrite, delivered, proto, visitor, read, link, reqs, resps,
                 closed, bridge, local>>

(* ... and what it is sent. It is not told of the end. *)
RelayOut ==
  /\ "out" \in relays /\ resps > 0 /\ visitor # "left"
  /\ resps' = resps - 1 /\ delivered' = delivered + 1
  /\ UNCHANGED <<edge, answer, toWrite, tcp, read, link, reqs, ended, closed, bridge, local>>

RelayOutEnds ==
  /\ "out" \in relays
  /\ ((resps = 0 \/ ~link) /\ Over("client")) \/ (visitor = "left" /\ resps > 0)
  /\ relays' = relays \ {"out"}
  /\ UNCHANGED <<edge, answer, toWrite, delivered, proto, visitor, read, channel, bridge, local>>

(* wg.Wait, and the deferred closes of the connection and the channel. *)
RelaysEnd ==
  /\ edge = "relaying" /\ relays = {}
  /\ Finish("closed")
  /\ UNCHANGED <<toWrite, delivered, tcp, read, link, reqs, resps, ended, bridge, local>>

(* A TCP visitor closes its side when it has sent all; any visitor may     *)
(* close its connection at once.                                           *)
VisitorEnds ==
  /\ visitor = "here" /\ edge \in {"writing", "waiting", "copying", "relaying"}
  /\ visitor' \in (IF proto = "tcp" /\ toWrite = 0 THEN {"finished", "left"} ELSE {"left"})
  /\ UNCHANGED <<edge, answer, toWrite, delivered, proto, relays, read, channel, bridge, local>>

-----------------------------------------------------------------------------
(* handleSingleChannel and handleTCPChannel. *)

(* The local service is reached, with or without TLS ... *)
Dial(kind, habit) ==
  /\ client = "accepted"
  /\ client' = "bridging" /\ copiers' = {"up", "down"}
  /\ service' = [habit |-> habit, kind |-> kind, left |-> Resp, failed |-> FALSE,
                 at |-> IF habit = "hasty" THEN "answering" ELSE "reading"]
  /\ UNCHANGED <<handler, read, channel, half, in, out>>

(* ... or it is not: http502Response, of one unit, and a close. *)
DialFails ==
  /\ client = "accepted" /\ proto = "http"
  /\ client' = "done" /\ closed' = closed \cup {"client"}
  /\ resps' = IF Writable THEN 1 ELSE 0
  /\ service' = [NoService EXCEPT !.at = "closed"]
  /\ UNCHANGED <<handler, read, link, reqs, ended, copiers, half, in, out>>

(* For TCP the channel is only closed. *)
DialTCPFails ==
  /\ client = "accepted" /\ proto = "tcp"
  /\ client' = "done" /\ closed' = closed \cup {"client"}
  /\ service' = [NoService EXCEPT !.at = "closed"]
  /\ UNCHANGED <<handler, read, link, reqs, resps, ended, copiers, half, in, out>>

UpCopy ==
  /\ "up" \in copiers /\ reqs > 0 /\ in < Sock /\ service.at # "closed"
  /\ reqs' = reqs - 1 /\ in' = in + 1
  /\ UNCHANGED <<handler, read, link, resps, ended, closed, bridge, service, out>>

(* Mutant: the copy ends with data still in the channel. *)
UpOverEarly == Over("server") \/ (reqs > 0 /\ service.at = "closed")

(* io.Copy's end: the channel's, or a failed write. *)
UpOver == (reqs = 0 /\ Over("server")) \/ (reqs > 0 /\ service.at = "closed")

(* Mutant: the service is not told. *)
UpEndsQuietly ==
  /\ "up" \in copiers /\ UpOver
  /\ copiers' = copiers \ {"up"}
  /\ UNCHANGED <<handler, read, channel, client, half, local>>

(* CloseWrite on a plain connection only. *)
UpEnds ==
  /\ "up" \in copiers /\ UpOver
  /\ copiers' = copiers \ {"up"}
  /\ half' = (service.kind = "plain")
  /\ UNCHANGED <<handler, read, channel, client, local>>

DownCopy ==
  /\ "down" \in copiers /\ out > 0 /\ resps < Window /\ Writable
  /\ out' = out - 1 /\ resps' = resps + 1
  /\ UNCHANGED <<handler, read, link, reqs, ended, closed, bridge, service, in>>

(* Mutant: what the service has sent before it closed is not read. *)
DownEndsEarly ==
  /\ "down" \in copiers
  /\ service.at = "closed" \/ (out > 0 /\ ~Writable)
  /\ copiers' = copiers \ {"down"} /\ ended' = ended \cup {"client"}
  /\ UNCHANGED <<handler, read, link, reqs, resps, closed, client, half, local>>

(* CloseWrite, at the end of the service's output or on a failed write. *)
DownEnds ==
  /\ "down" \in copiers
  /\ (out = 0 /\ service.at = "closed") \/ (out > 0 /\ ~Writable)
  /\ copiers' = copiers \ {"down"} /\ ended' = ended \cup {"client"}
  /\ UNCHANGED <<handler, read, link, reqs, resps, closed, client, half, local>>

(* wg.Wait, and the deferred closes of both connections. *)
BridgeEnds ==
  /\ client = "bridging" /\ copiers = {}
  /\ client' = "done" /\ closed' = closed \cup {"client"} /\ half' = TRUE
  /\ UNCHANGED <<handler, read, link, reqs, resps, ended, copiers, local>>

-----------------------------------------------------------------------------
(* The local service. *)
ServiceReads ==
  /\ service.at = "reading" /\ service.habit \in {"serves", "stalls", "silent"} /\ in > 0
  /\ in' = in - 1
  /\ UNCHANGED <<handler, read, channel, bridge, service, out>>

(* It answers when it has read the whole request. *)
ServiceStarts ==
  /\ service.at = "reading" /\ service.habit \in {"serves", "stalls"}
  /\ toWrite = 0 /\ reqs = 0 /\ in = 0
  /\ service' = [service EXCEPT !.at = "answering"]
  /\ UNCHANGED <<handler, read, channel, bridge, in, out>>

ServiceAnswers ==
  /\ service.at = "answering" /\ service.left > 0 /\ out < Sock
  /\ service.habit = "stalls" => service.left = Resp
  /\ service' = [service EXCEPT !.left = @ - 1]
  /\ out' = out + 1
  /\ UNCHANGED <<handler, read, channel, bridge, in>>

(* It closes when it has seen the end of its input, perhaps before it has  *)
(* answered.                                                               *)
ServiceCloses ==
  /\ service.at \in {"reading", "answering"} /\ service.habit # "hung"
  /\ half /\ (in = 0 \/ service.habit = "hasty")
  /\ service' = [service EXCEPT !.at = "closed"]
  /\ UNCHANGED <<handler, read, channel, bridge, in, out>>

(* Or once it has answered, by itself (Connection: close, an idle timeout). *)
ServiceHangsUp ==
  /\ service.at = "answering" /\ service.habit = "serves" /\ service.left = 0
  /\ service' = [service EXCEPT !.at = "closed"]
  /\ UNCHANGED <<handler, read, channel, bridge, in, out>>

ServiceFails ==
  /\ service.at \in {"reading", "answering"}
  /\ service' = [service EXCEPT !.at = "closed", !.failed = TRUE]
  /\ UNCHANGED <<handler, read, channel, bridge, in, out>>

-----------------------------------------------------------------------------
(* The SSH connection. *)
AnswerClose(side) ==
  /\ closed # {} /\ side \notin closed /\ link
  /\ closed' = closed \cup {side}
  /\ UNCHANGED <<handler, read, link, reqs, resps, ended, bridge, local>>

LoseLink ==
  /\ link /\ link' = FALSE
  /\ UNCHANGED <<handler, read, reqs, resps, ended, closed, bridge, local>>

Handler ==
  \/ OpenProxyChannel \/ AcceptChannel \/ Write \/ WriteFails \/ Written \/ TakeResponse \/ TakeError
  \/ Timeout \/ CopyBody \/ CopyEnds
Relay == RelayIn \/ RelayInEnds \/ RelayOut \/ RelayOutEnds \/ RelaysEnd
Bridge == DialFails \/ DialTCPFails \/ BridgeEnds \/ \E k \in Kinds, h \in Habits : Dial(k, h)
Up   == UpCopy \/ UpEnds
Down == DownCopy \/ DownEnds
Service == ServiceReads \/ ServiceStarts \/ ServiceAnswers \/ ServiceCloses
Mux == \E side \in {"server", "client"} : AnswerClose(side)

Next ==
  \/ Handler \/ Relay \/ VisitorEnds \/ ReadResponse \/ Bridge \/ Up \/ Down \/ Mux
  \/ Service \/ ServiceHangsUp \/ ServiceFails \/ LoseLink
Spec == Init /\ [][Next]_vars

(* Goroutines run, dials end, the timer fires, the peer's mux answers and  *)
(* a service that has something to do does it. Nothing need fail.          *)
FairSpec ==
  /\ Spec
  /\ WF_vars(Handler) /\ WF_vars(Relay) /\ WF_vars(ReadResponse) /\ WF_vars(Bridge)
  /\ WF_vars(Up) /\ WF_vars(Down) /\ WF_vars(Service) /\ WF_vars(Mux)

-----------------------------------------------------------------------------
(* Type correctness: places, and the room of buffers. *)
TypeOK ==
  /\ edge \in {"open", "opening", "writing", "waiting", "copying", "relaying", "done"}
  /\ answer \in {None, "offline", "unreachable", "timeout", "response", "left", "closed"}
  /\ proto \in {"http", "tcp"} /\ visitor \in {"here", "finished", "left"}
  /\ relays \subseteq {"in", "out"} /\ (relays # {} => edge = "relaying")
  /\ (edge = "done") = (answer # None)
  /\ toWrite \in 0..Body /\ delivered \in 0..Resp
  /\ reader \in {"none", "reading", "done"} /\ result \in {None, "response", "error"}
  /\ link \in BOOLEAN /\ reqs \in 0..Window /\ resps \in 0..Window
  /\ ended \subseteq {"server", "client"} /\ closed \subseteq {"server", "client"}
  /\ client \in {"none", "accepted", "bridging", "done"}
  /\ copiers \subseteq {"up", "down"} /\ half \in BOOLEAN
  /\ service \in [habit: Habits \cup {None}, kind: Kinds \cup {None},
                  at: {"none", "reading", "answering", "closed"}, left: 0..Resp,
                  failed: BOOLEAN]
  /\ in \in 0..Sock /\ out \in 0..Sock

(* A response that the handler has copied to its end is the service's      *)
(* whole response (or the client's 502), and a TCP visitor that stayed got *)
(* all that the service sent, unless the connection or the service failed: *)
(* neither side closes the channel on data under way.                      *)
WholeResponse ==
  link /\ ~service.failed =>
    /\ answer = "response" => delivered = IF service.habit = None THEN 1 ELSE Resp
    /\ answer = "closed" /\ visitor # "left" =>
         delivered = IF service.habit = None THEN 0 ELSE Resp - service.left

(* The visitor is told that the service did not respond only if the        *)
(* connection or the service failed, never because the tunnel's own        *)
(* half-closes ended the service's connection early (DEF-003).             *)
UnreachableMeansFailure == answer = "unreachable" => ~link \/ service.failed

(* The service sees the end of its input only behind all that was sent     *)
(* towards it, and while the connection is up and the visitor has not left *)
(* that is all of the visitor's input: no half-close overtakes the data.   *)
InputWhole ==
  half /\ client = "bridging" /\ service.at # "closed" =>
    reqs = 0 /\ (toWrite = 0 \/ visitor = "left" \/ ~link)

(* A response that has begun and does not go on, over a connection that    *)
(* stays up: nothing bounds the handler's wait for the rest.               *)
Stalled == link /\ service.habit = "stalls" /\ service.at = "answering"

(* Once the request is written, the handler ends, whatever the service does *)
(* with it: by the response, the timeout, or the end of the connection. But *)
(* io.Copy (edge.go:447) waits for a stalled response as long as that lasts.*)
WaitEnds == edge \in {"waiting", "copying"} ~> edge = "done" \/ []Stalled

(* The goroutine that reads the response does not outlive the handler for  *)
(* good, whichever of response and timeout came first.                     *)
ReaderEnds == edge = "done" ~> reader # "reading"

(* The client's goroutines and its local connection end after the request, *)
(* with a plain service that reads its input.                              *)
BridgeCompletes ==
  edge = "done" ~> \/ client \in {"none", "done"}
                   \/ service.kind = "tls" \/ service.habit \in {"hasty", "hung"}

(* A TCP connection ends after its visitor has closed its side, with a     *)
(* plain service that reads its input: the half-close goes through.        *)
TCPEnds ==
  edge = "relaying" /\ visitor # "here" ~>
    edge = "done" \/ service.kind = "tls" \/ service.habit \in {"hasty", "hung"}

(* edge.go:29 "ProxyTimeout is the maximum time to wait for a proxied      *)
(* response": a handler that has opened its channel ends.                  *)
RequestEnds == edge = "writing" ~> edge = "done"
=============================================================================
