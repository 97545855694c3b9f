-------------------------- MODULE ProxyRequestProofs --------------------------
(***************************************************************************)
(* Proofs about ProxyRequest, for a request, a response and buffers of any *)
(* size: nothing of a response is lost on the way but by a failure.        *)
(***************************************************************************)
EXTENDS ProxyRequest, TLAPS

(* The places of the handler, its reader and the client fit together. *)
PlacesAgree ==
  /\ proto = "http" => edge # "relaying" /\ answer # "closed"
  /\ proto = "tcp" => /\ edge \notin {"writing", "waiting", "copying"}
                      /\ reader = "none" /\ answer \notin {"response", "unreachable"}
  /\ edge \in {"open", "opening"} => client = "none"
  /\ edge \in {"writing", "waiting", "copying", "relaying"} => client # "none"
  /\ edge \in {"open", "opening", "writing"} => reader = "none"
  /\ (reader = "done") = (result # None)
  /\ proto = "http" =>
       /\ edge \in {"open", "opening", "writing", "waiting"} => delivered = 0
       /\ edge = "copying" \/ answer = "response" => delivered > 0
       /\ delivered > 0 => result = "response"
  /\ edge \in {"open", "opening"} => delivered = 0

(* The client's copiers and the service exist while it bridges. *)
BridgeAgrees ==
  /\ client \in {"none", "accepted"} =>
       /\ service = NoService /\ in = 0 /\ out = 0 /\ resps = 0 /\ ~half
       /\ "client" \notin ended
  /\ client = "bridging" => service.habit # None
  /\ client \in {"bridging", "done"} => service.at # "none"
  /\ copiers # {} => client = "bridging"
  /\ "client" \in ended => "down" \notin copiers
  /\ half => "up" \notin copiers
  /\ service.habit = None => client \in {"none", "accepted", "done"} /\ service.left = 0 /\ out = 0

(* A side closes the channel when it is done, or answers the other's close. *)
ClosesExplained ==
  /\ "server" \in closed => edge = "done" \/ ("client" \in closed /\ client = "done")
  /\ "client" \in closed => client = "done" \/ ("server" \in closed /\ edge = "done")
  /\ "server" \in ended => proto = "tcp"

(* The unit the reader holds until the handler takes it. *)
Held == IF result = "response" /\ delivered = 0 THEN 1 ELSE 0

(* Every unit of the response is somewhere; the 502 is of one unit. *)
ResponseConserved ==
  /\ service.habit # None => delivered + Held + resps + out + service.left = Resp
  /\ service.habit = None => delivered + Held + resps <= IF proto = "http" THEN 1 ELSE 0
  /\ client \in {"none", "accepted"} => delivered + Held + resps = 0
  /\ service.habit = None /\ proto = "http" /\ client = "done" /\ link /\ edge # "done" =>
       delivered + Held + resps = 1

(* Until the handler is done or something fails, the client stops reading  *)
(* from the service only at the end of its output, and an HTTP service's   *)
(* input does not end before its output has.                               *)
DrainsBeforeEOF ==
  link /\ edge # "done" /\ client \in {"bridging", "done"} =>
    /\ "down" \notin copiers => out = 0 /\ service.at = "closed"
    /\ proto = "http" /\ "up" \notin copiers => service.at = "closed"
    /\ proto = "http" /\ service.at = "closed" /\ ~service.failed => service.left = 0

(* A TCP visitor who stays has been sent everything when its copier ends. *)
RelayDrains ==
  /\ link /\ proto = "tcp" /\ visitor # "left"
  /\ (edge = "relaying" /\ "out" \notin relays) \/ answer = "closed"
  =>
    client \in {"bridging", "done"} /\ resps = 0 /\ out = 0 /\ service.at = "closed"

(* While nothing fails, the reader gets a response as long as it is waited *)
(* for.                                                                    *)
ReaderSucceeds == link /\ ~service.failed /\ edge # "done" => result # "error"

IInv ==
  /\ TypeOK /\ PlacesAgree /\ BridgeAgrees /\ ClosesExplained /\ ResponseConserved
  /\ DrainsBeforeEOF /\ RelayDrains /\ ReaderSucceeds /\ WholeResponse /\ UnreachableMeansFailure

LEMMA InitIInv == Init => IInv
<1>. USE SizesAssumption, NoneAssumption DEF Init, NoService
<1>1. Init => TypeOK
  <2>1. NoService \in [habit: Habits \cup {None}, kind: Kinds \cup {None},
                      at: {"none", "reading", "answering", "closed"}, left: 0..Resp,
                      failed: BOOLEAN]
    OBVIOUS
  <2>2. {0, Body} \subseteq 0..Body /\ 0 \in 0..Resp /\ 0 \in 0..Window /\ 0 \in 0..Sock
    OBVIOUS
  <2>. QED
    BY <2>1, <2>2 DEF TypeOK
<1>2. Init => ResponseConserved
  BY DEF ResponseConserved, Held
<1>3. Init => PlacesAgree /\ BridgeAgrees /\ ClosesExplained
  BY DEF PlacesAgree, BridgeAgrees, ClosesExplained
<1>4. Init => /\ DrainsBeforeEOF /\ RelayDrains /\ ReaderSucceeds
              /\ WholeResponse /\ UnreachableMeansFailure
  BY DEF DrainsBeforeEOF, RelayDrains, ReaderSucceeds, WholeResponse, UnreachableMeansFailure
<1>. QED
  BY <1>1, <1>2, <1>3, <1>4 DEF IInv

LEMMA TypeStep == TypeOK /\ PlacesAgree /\ BridgeAgrees /\ ResponseConserved /\ [Next]_vars => TypeOK'
<1>. SUFFICES ASSUME TypeOK, PlacesAgree, BridgeAgrees, ResponseConserved, [Next]_vars
              PROVE  TypeOK'
  OBVIOUS
<1>. USE SizesAssumption, NoneAssumption DEF TypeOK, PlacesAgree, BridgeAgrees,
       ResponseConserved, Held, Kinds, Habits, handler, read, channel, bridge, local, tcp
<1>1. CASE Handler
  <2>1. CASE OpenProxyChannel
    BY <2>1 DEF OpenProxyChannel
  <2>2. CASE AcceptChannel
    BY <2>2 DEF AcceptChannel
  <2>3. CASE Write
    BY <2>3 DEF Write
  <2>4. CASE WriteFails
    BY <2>4 DEF WriteFails, Finish
  <2>5. CASE Written
    BY <2>5 DEF Written
  <2>6. CASE TakeResponse
    BY <2>6 DEF TakeResponse
  <2>7. CASE TakeError
    BY <2>7 DEF TakeError, Finish
  <2>8. CASE Timeout
    BY <2>8 DEF Timeout, Finish
  <2>9. CASE CopyBody
    BY <2>9 DEF CopyBody
  <2>10. CASE CopyEnds
    <3>1. /\ edge = "copying" /\ edge' = "done" /\ answer' \in {"response", "left"}
          /\ closed' = closed \cup {"server"}
      BY <2>10 DEF CopyEnds, Finish
    <3>. QED
      BY <2>10, <3>1 DEF CopyEnds
  <2>. QED
    BY <1>1, <2>1, <2>2, <2>3, <2>4, <2>5, <2>6, <2>7, <2>8, <2>9, <2>10 DEF Handler
<1>2. CASE Relay \/ VisitorEnds
  <2>1. CASE RelayIn
    BY <2>1 DEF RelayIn
  <2>2. CASE RelayInEnds
    BY <2>2 DEF RelayInEnds
  <2>3. CASE RelayOut
    BY <2>3 DEF RelayOut
  <2>4. CASE RelayOutEnds
    BY <2>4 DEF RelayOutEnds
  <2>5. CASE RelaysEnd
    BY <2>5 DEF RelaysEnd, Finish
  <2>6. CASE VisitorEnds
    BY <2>6 DEF VisitorEnds
  <2>. QED
    BY <1>2, <2>1, <2>2, <2>3, <2>4, <2>5, <2>6 DEF Relay
<1>3. CASE ReadResponse
  BY <1>3 DEF ReadResponse
<1>4. CASE Bridge
  <2>1. ASSUME NEW k \in Kinds, NEW h \in Habits, Dial(k, h) PROVE TypeOK'
    BY <2>1 DEF Dial, Kinds, Habits
  <2>2. CASE DialFails
    <3>1. resps' \in 0..Window
      BY <2>2 DEF DialFails
    <3>2. service' \in [habit: Habits \cup {None}, kind: Kinds \cup {None},
                        at: {"none", "reading", "answering", "closed"}, left: 0..Resp,
                        failed: BOOLEAN]
      BY <2>2 DEF DialFails
    <3>. QED
      BY <2>2, <3>1, <3>2 DEF DialFails
  <2>3. CASE DialTCPFails
    BY <2>3 DEF DialTCPFails
  <2>4. CASE BridgeEnds
    BY <2>4 DEF BridgeEnds
  <2>. QED
    BY <1>4, <2>1, <2>2, <2>3, <2>4 DEF Bridge
<1>5. CASE Up
  <2>1. CASE UpCopy
    BY <2>1 DEF UpCopy
  <2>2. CASE UpEnds
    BY <2>2 DEF UpEnds, UpOver
  <2>. QED
    BY <1>5, <2>1, <2>2 DEF Up
<1>6. CASE Down
  <2>1. CASE DownCopy
    BY <2>1 DEF DownCopy
  <2>2. CASE DownEnds
    BY <2>2 DEF DownEnds
  <2>. QED
    BY <1>6, <2>1, <2>2 DEF Down
<1>7. CASE Mux
  BY <1>7 DEF Mux, AnswerClose
<1>8. CASE Service \/ ServiceHangsUp \/ ServiceFails
  <2>1. CASE ServiceReads
    BY <2>1 DEF ServiceReads
  <2>2. CASE ServiceStarts
    BY <2>2 DEF ServiceStarts
  <2>3. CASE ServiceAnswers
    BY <2>3 DEF ServiceAnswers
  <2>4. CASE ServiceCloses
    BY <2>4 DEF ServiceCloses
  <2>5. CASE ServiceHangsUp
    BY <2>5 DEF ServiceHangsUp
  <2>6. CASE ServiceFails
    <3>1. service' \in [habit: Habits \cup {None}, kind: Kinds \cup {None},
                        at: {"none", "reading", "answering", "closed"}, left: 0..Resp,
                        failed: BOOLEAN]
      BY <2>6 DEF ServiceFails
    <3>. QED
      BY <2>6, <3>1 DEF ServiceFails
  <2>. QED
    BY <1>8, <2>1, <2>2, <2>3, <2>4, <2>5, <2>6 DEF Service
<1>9. CASE LoseLink
  <2>1. CASE LoseLink
    <3>1. link' \in BOOLEAN
      BY <2>1 DEF LoseLink
    <3>2. UNCHANGED <<handler, read, reqs, resps, ended, closed, bridge, local>>
      BY <2>1 DEF LoseLink
    <3>. QED
      BY <3>1, <3>2
  <2>. QED
    BY <1>9, <2>1
<1>10. CASE UNCHANGED vars
  BY <1>10 DEF vars
<1>. QED
  BY <1>1, <1>2, <1>3, <1>4, <1>5, <1>6, <1>7, <1>8, <1>9, <1>10 DEF Next

LEMMA PlacesStep == IInv /\ [Next]_vars => PlacesAgree'
<1>. SUFFICES ASSUME IInv, [Next]_vars
              PROVE  PlacesAgree'
  OBVIOUS
<1>. USE SizesAssumption, NoneAssumption DEF IInv, TypeOK, PlacesAgree, BridgeAgrees,
       handler, read, channel, bridge, local, tcp
<1>1. CASE Handler
  BY <1>1 DEF Handler, OpenProxyChannel, AcceptChannel, Write, WriteFails, Finish, Written,
     TakeResponse, TakeError, Timeout, CopyBody, CopyEnds
<1>2. CASE Relay \/ VisitorEnds
  BY <1>2 DEF Relay, RelayIn, RelayInEnds, RelayOut, RelayOutEnds, RelaysEnd, Finish,
     VisitorEnds
<1>3. CASE ReadResponse
  BY <1>3 DEF ReadResponse
<1>4. CASE Bridge
  BY <1>4 DEF Bridge, Dial, Kinds, Habits, DialFails, DialTCPFails, BridgeEnds
<1>5. CASE Up
  BY <1>5 DEF Up, UpCopy, UpEnds, UpOver
<1>6. CASE Down
  BY <1>6 DEF Down, DownCopy, DownEnds
<1>7. CASE Mux
  BY <1>7 DEF Mux, AnswerClose
<1>8. CASE Service \/ ServiceHangsUp \/ ServiceFails
  BY <1>8 DEF Service, ServiceReads, ServiceStarts, ServiceAnswers, ServiceCloses,
     ServiceHangsUp, ServiceFails
<1>9. CASE LoseLink
  BY <1>9 DEF LoseLink
<1>10. CASE UNCHANGED vars
  BY <1>10 DEF vars
<1>. QED
  BY <1>1, <1>2, <1>3, <1>4, <1>5, <1>6, <1>7, <1>8, <1>9, <1>10 DEF Next

LEMMA BridgeStep == IInv /\ [Next]_vars => BridgeAgrees'
<1>. SUFFICES ASSUME IInv, [Next]_vars
              PROVE  BridgeAgrees'
  OBVIOUS
<1>. USE SizesAssumption, NoneAssumption DEF IInv, TypeOK, PlacesAgree, BridgeAgrees,
       NoService, handler, read, channel, bridge, local, tcp
<1>1. CASE Handler
  BY <1>1 DEF Handler, OpenProxyChannel, AcceptChannel, Write, WriteFails, Finish, Written,
     TakeResponse, TakeError, Timeout, CopyBody, CopyEnds
<1>2. CASE Relay \/ VisitorEnds
  BY <1>2 DEF Relay, RelayIn, RelayInEnds, RelayOut, RelayOutEnds, RelaysEnd, Finish,
     VisitorEnds
<1>3. CASE ReadResponse
  BY <1>3 DEF ReadResponse
<1>4. CASE Bridge
  BY <1>4 DEF Bridge, Dial, Kinds, Habits, DialFails, DialTCPFails, BridgeEnds
<1>5. CASE Up
  BY <1>5 DEF Up, UpCopy, UpEnds, UpOver
<1>6. CASE Down
  BY <1>6 DEF Down, DownCopy, DownEnds
<1>7. CASE Mux
  BY <1>7 DEF Mux, AnswerClose
<1>8. CASE Service \/ ServiceHangsUp \/ ServiceFails
  <2>1. CASE ServiceReads
    BY <2>1 DEF ServiceReads
  <2>2. CASE ServiceStarts
    BY <2>2 DEF ServiceStarts
  <2>3. CASE ServiceAnswers
    BY <2>3 DEF ServiceAnswers
  <2>4. CASE ServiceCloses
    BY <2>4 DEF ServiceCloses
  <2>5. CASE ServiceHangsUp
    BY <2>5 DEF ServiceHangsUp
  <2>6. CASE ServiceFails
    BY <2>6 DEF ServiceFails
  <2>. QED
    BY <1>8, <2>1, <2>2, <2>3, <2>4, <2>5, <2>6 DEF Service
<1>9. CASE LoseLink
  BY <1>9 DEF LoseLink
<1>10. CASE UNCHANGED vars
  BY <1>10 DEF vars
<1>. QED
  BY <1>1, <1>2, <1>3, <1>4, <1>5, <1>6, <1>7, <1>8, <1>9, <1>10 DEF Next

LEMMA ClosesStep == IInv /\ [Next]_vars => ClosesExplained'
<1>. SUFFICES ASSUME IInv, [Next]_vars
              PROVE  ClosesExplained'
  OBVIOUS
<1>. USE SizesAssumption, NoneAssumption DEF IInv, TypeOK, PlacesAgree, ClosesExplained,
       handler, read, channel, bridge, local, tcp
<1>1. CASE Handler
  BY <1>1 DEF Handler, OpenProxyChannel, AcceptChannel, Write, WriteFails, Finish, Written,
     TakeResponse, TakeError, Timeout, CopyBody, CopyEnds
<1>2. CASE Relay \/ VisitorEnds
  BY <1>2 DEF Relay, RelayIn, RelayInEnds, RelayOut, RelayOutEnds, RelaysEnd, Finish,
     VisitorEnds
<1>3. CASE ReadResponse
  BY <1>3 DEF ReadResponse
<1>4. CASE Bridge
  BY <1>4 DEF Bridge, Dial, Kinds, Habits, DialFails, DialTCPFails, BridgeEnds
<1>5. CASE Up
  BY <1>5 DEF Up, UpCopy, UpEnds, UpOver
<1>6. CASE Down
  BY <1>6 DEF Down, DownCopy, DownEnds
<1>7. CASE Mux
  <2>1. ASSUME NEW side \in {"server", "client"}, AnswerClose(side) PROVE ClosesExplained'
    <3>1. closed # {} /\ side \notin closed /\ closed \subseteq {"server", "client"}
      BY <2>1 DEF AnswerClose
    <3>2. PICK x : x \in closed /\ x # side
      BY <3>1
    <3>3. side = "server" => "client" \in closed
      BY <3>1, <3>2
    <3>4. side = "client" => "server" \in closed
      BY <3>1, <3>2
    <3>. QED
      BY <2>1, <3>3, <3>4 DEF AnswerClose
  <2>. QED
    BY <1>7, <2>1 DEF Mux
<1>8. CASE Service \/ ServiceHangsUp \/ ServiceFails
  BY <1>8 DEF Service, ServiceReads, ServiceStarts, ServiceAnswers, ServiceCloses,
     ServiceHangsUp, ServiceFails
<1>9. CASE LoseLink
  BY <1>9 DEF LoseLink
<1>10. CASE UNCHANGED vars
  BY <1>10 DEF vars
<1>. QED
  BY <1>1, <1>2, <1>3, <1>4, <1>5, <1>6, <1>7, <1>8, <1>9, <1>10 DEF Next

LEMMA ConservedStep == IInv /\ [Next]_vars => ResponseConserved'
<1>. SUFFICES ASSUME IInv, [Next]_vars
              PROVE  ResponseConserved'
  OBVIOUS
<1>. USE SizesAssumption, NoneAssumption DEF IInv, TypeOK, PlacesAgree, BridgeAgrees,
       ClosesExplained, ResponseConserved, Held, NoService, Writable, handler, read,
       channel, bridge, local, tcp
<1>1. CASE Handler
  BY <1>1 DEF Handler, OpenProxyChannel, AcceptChannel, Write, WriteFails, Finish, Written,
     TakeResponse, TakeError, Timeout, CopyBody, CopyEnds
<1>2. CASE Relay \/ VisitorEnds
  BY <1>2 DEF Relay, RelayIn, RelayInEnds, RelayOut, RelayOutEnds, RelaysEnd, Finish,
     VisitorEnds
<1>3. CASE ReadResponse
  BY <1>3 DEF ReadResponse
<1>4. CASE Bridge
  <2>1. ASSUME NEW k \in Kinds, NEW h \in Habits, Dial(k, h) PROVE ResponseConserved'
    <3>1. service'.habit = h /\ service'.left = Resp /\ h # None
      BY <2>1 DEF Dial, Habits
    <3>2. service.habit = None /\ delivered + Held + resps = 0 /\ out = 0
      BY <2>1 DEF Dial
    <3>. QED
      BY <2>1, <3>1, <3>2 DEF Dial
  <2>2. CASE DialFails
    BY <2>2 DEF DialFails
  <2>3. CASE DialTCPFails
    BY <2>3 DEF DialTCPFails
  <2>4. CASE BridgeEnds
    BY <2>4 DEF BridgeEnds
  <2>. QED
    BY <1>4, <2>1, <2>2, <2>3, <2>4 DEF Bridge
<1>5. CASE Up
  BY <1>5 DEF Up, UpCopy, UpEnds, UpOver
<1>6. CASE Down
  BY <1>6 DEF Down, DownCopy, DownEnds
<1>7. CASE Mux
  BY <1>7 DEF Mux, AnswerClose
<1>8. CASE Service \/ ServiceHangsUp \/ ServiceFails
  <2>1. CASE ServiceReads
    BY <2>1 DEF ServiceReads
  <2>2. CASE ServiceStarts
    BY <2>2 DEF ServiceStarts
  <2>3. CASE ServiceAnswers
    <3>1. /\ service.left > 0 /\ out' = out + 1
          /\ service' = [service EXCEPT !.left = @ - 1]
          /\ UNCHANGED <<delivered, result, resps, client, proto, link, edge>>
      BY <2>3 DEF ServiceAnswers
    <3>2. service'.left = service.left - 1 /\ service'.habit = service.habit
      BY <3>1
    <3>. QED
      BY <3>1, <3>2
  <2>4. CASE ServiceCloses
    BY <2>4 DEF ServiceCloses
  <2>5. CASE ServiceHangsUp
    BY <2>5 DEF ServiceHangsUp
  <2>6. CASE ServiceFails
    BY <2>6 DEF ServiceFails
  <2>. QED
    BY <1>8, <2>1, <2>2, <2>3, <2>4, <2>5, <2>6 DEF Service
<1>9. CASE LoseLink
  BY <1>9 DEF LoseLink
<1>10. CASE UNCHANGED vars
  BY <1>10 DEF vars
<1>. QED
  BY <1>1, <1>2, <1>3, <1>4, <1>5, <1>6, <1>7, <1>8, <1>9, <1>10 DEF Next

LEMMA DrainsStep == IInv /\ [Next]_vars => DrainsBeforeEOF'
<1>. SUFFICES ASSUME IInv, [Next]_vars
              PROVE  DrainsBeforeEOF'
  OBVIOUS
<1>. USE SizesAssumption, NoneAssumption DEF IInv, TypeOK, BridgeAgrees, ClosesExplained,
       DrainsBeforeEOF, NoService, Over, Writable, handler, read, channel, bridge, local,
       tcp
<1>1. CASE Handler
  BY <1>1 DEF Handler, OpenProxyChannel, AcceptChannel, Write, WriteFails, Finish, Written,
     TakeResponse, TakeError, Timeout, CopyBody, CopyEnds
<1>2. CASE Relay \/ VisitorEnds
  BY <1>2 DEF Relay, RelayIn, RelayInEnds, RelayOut, RelayOutEnds, RelaysEnd, Finish,
     VisitorEnds
<1>3. CASE ReadResponse
  BY <1>3 DEF ReadResponse
<1>4. CASE Bridge
  <2>1. ASSUME NEW k \in Kinds, NEW h \in Habits, Dial(k, h) PROVE DrainsBeforeEOF'
    BY <2>1 DEF Dial, Kinds, Habits
  <2>2. CASE DialFails
    BY <2>2 DEF DialFails
  <2>3. CASE DialTCPFails
    BY <2>3 DEF DialTCPFails
  <2>4. CASE BridgeEnds
    BY <2>4 DEF BridgeEnds
  <2>. QED
    BY <1>4, <2>1, <2>2, <2>3, <2>4 DEF Bridge
<1>5. CASE Up
  BY <1>5 DEF Up, UpCopy, UpEnds, UpOver
<1>6. CASE Down
  <2>1. CASE DownCopy
    BY <2>1 DEF DownCopy
  <2>2. CASE DownEnds
    BY <2>2 DEF DownEnds
  <2>. QED
    BY <1>6, <2>1, <2>2 DEF Down
<1>7. CASE Mux
  BY <1>7 DEF Mux, AnswerClose
<1>8. CASE Service \/ ServiceHangsUp \/ ServiceFails
  <2>1. CASE ServiceReads
    BY <2>1 DEF ServiceReads
  <2>2. CASE ServiceStarts
    BY <2>2 DEF ServiceStarts
  <2>3. CASE ServiceAnswers
    BY <2>3 DEF ServiceAnswers
  <2>4. CASE ServiceCloses
    BY <2>4 DEF ServiceCloses
  <2>5. CASE ServiceHangsUp
    BY <2>5 DEF ServiceHangsUp
  <2>6. CASE ServiceFails
    BY <2>6 DEF ServiceFails
  <2>. QED
    BY <1>8, <2>1, <2>2, <2>3, <2>4, <2>5, <2>6 DEF Service
<1>9. CASE LoseLink
  BY <1>9 DEF LoseLink
<1>10. CASE UNCHANGED vars
  BY <1>10 DEF vars
<1>. QED
  BY <1>1, <1>2, <1>3, <1>4, <1>5, <1>6, <1>7, <1>8, <1>9, <1>10 DEF Next

LEMMA RelayStep == IInv /\ [Next]_vars => RelayDrains'
<1>. SUFFICES ASSUME IInv, [Next]_vars
              PROVE  RelayDrains'
  OBVIOUS
<1>. USE SizesAssumption, NoneAssumption DEF IInv, TypeOK, BridgeAgrees, ClosesExplained,
       DrainsBeforeEOF, RelayDrains, Over, handler, read, channel, bridge, local, tcp
<1>1. CASE Handler
  BY <1>1 DEF Handler, OpenProxyChannel, AcceptChannel, Write, WriteFails, Finish, Written,
     TakeResponse, TakeError, Timeout, CopyBody, CopyEnds
<1>2. CASE Relay \/ VisitorEnds
  BY <1>2 DEF Relay, RelayIn, RelayInEnds, RelayOut, RelayOutEnds, RelaysEnd, Finish,
     VisitorEnds
<1>3. CASE ReadResponse
  BY <1>3 DEF ReadResponse
<1>4. CASE Bridge
  BY <1>4 DEF Bridge, Dial, Kinds, Habits, DialFails, DialTCPFails, BridgeEnds
<1>5. CASE Up
  BY <1>5 DEF Up, UpCopy, UpEnds, UpOver
<1>6. CASE Down
  <2>1. CASE DownCopy
    BY <2>1 DEF DownCopy
  <2>2. CASE DownEnds
    BY <2>2 DEF DownEnds
  <2>. QED
    BY <1>6, <2>1, <2>2 DEF Down
<1>7. CASE Mux
  BY <1>7 DEF Mux, AnswerClose
<1>8. CASE Service \/ ServiceHangsUp \/ ServiceFails
  BY <1>8 DEF Service, ServiceReads, ServiceStarts, ServiceAnswers, ServiceCloses,
     ServiceHangsUp, ServiceFails
<1>9. CASE LoseLink
  BY <1>9 DEF LoseLink
<1>10. CASE UNCHANGED vars
  BY <1>10 DEF vars
<1>. QED
  BY <1>1, <1>2, <1>3, <1>4, <1>5, <1>6, <1>7, <1>8, <1>9, <1>10 DEF Next

LEMMA ReaderStep == IInv /\ [Next]_vars => ReaderSucceeds'
<1>. SUFFICES ASSUME IInv, [Next]_vars
              PROVE  ReaderSucceeds'
  OBVIOUS
<1>. USE SizesAssumption, NoneAssumption DEF IInv, TypeOK, PlacesAgree, BridgeAgrees,
       ClosesExplained, ResponseConserved, DrainsBeforeEOF, ReaderSucceeds, Held, NoService,
       Over, handler, read, channel, bridge, local, tcp
<1>1. CASE Handler
  BY <1>1 DEF Handler, OpenProxyChannel, AcceptChannel, Write, WriteFails, Finish, Written,
     TakeResponse, TakeError, Timeout, CopyBody, CopyEnds
<1>2. CASE Relay \/ VisitorEnds
  BY <1>2 DEF Relay, RelayIn, RelayInEnds, RelayOut, RelayOutEnds, RelaysEnd, Finish,
     VisitorEnds
<1>3. CASE ReadResponse
  BY <1>3 DEF ReadResponse
<1>4. CASE Bridge
  <2>1. ASSUME NEW k \in Kinds, NEW h \in Habits, Dial(k, h) PROVE ReaderSucceeds'
    BY <2>1 DEF Dial, Kinds, Habits
  <2>2. CASE DialFails
    BY <2>2 DEF DialFails
  <2>3. CASE DialTCPFails
    BY <2>3 DEF DialTCPFails
  <2>4. CASE BridgeEnds
    BY <2>4 DEF BridgeEnds
  <2>. QED
    BY <1>4, <2>1, <2>2, <2>3, <2>4 DEF Bridge
<1>5. CASE Up
  BY <1>5 DEF Up, UpCopy, UpEnds, UpOver
<1>6. CASE Down
  BY <1>6 DEF Down, DownCopy, DownEnds
<1>7. CASE Mux
  BY <1>7 DEF Mux, AnswerClose
<1>8. CASE Service \/ ServiceHangsUp \/ ServiceFails
  <2>1. CASE ServiceReads
    BY <2>1 DEF ServiceReads
  <2>2. CASE ServiceStarts
    BY <2>2 DEF ServiceStarts
  <2>3. CASE ServiceAnswers
    BY <2>3 DEF ServiceAnswers
  <2>4. CASE ServiceCloses
    BY <2>4 DEF ServiceCloses
  <2>5. CASE ServiceHangsUp
    BY <2>5 DEF ServiceHangsUp
  <2>6. CASE ServiceFails
    BY <2>6 DEF ServiceFails
  <2>. QED
    BY <1>8, <2>1, <2>2, <2>3, <2>4, <2>5, <2>6 DEF Service
<1>9. CASE LoseLink
  BY <1>9 DEF LoseLink
<1>10. CASE UNCHANGED vars
  BY <1>10 DEF vars
<1>. QED
  BY <1>1, <1>2, <1>3, <1>4, <1>5, <1>6, <1>7, <1>8, <1>9, <1>10 DEF Next

LEMMA WholeStep == IInv /\ [Next]_vars => WholeResponse'
<1>. SUFFICES ASSUME IInv, [Next]_vars
              PROVE  WholeResponse'
  OBVIOUS
<1>. USE SizesAssumption, NoneAssumption DEF IInv, TypeOK, PlacesAgree, BridgeAgrees,
       ClosesExplained, ResponseConserved, DrainsBeforeEOF, RelayDrains, ReaderSucceeds,
       Held, Over, handler, read, channel, bridge, local, tcp, WholeResponse
<1>1. CASE Handler
  <2>1. CASE OpenProxyChannel
    BY <2>1 DEF OpenProxyChannel
  <2>2. CASE AcceptChannel
    BY <2>2 DEF AcceptChannel
  <2>3. CASE Write
    BY <2>3 DEF Write
  <2>4. CASE WriteFails
    BY <2>4 DEF WriteFails, Finish
  <2>5. CASE Written
    BY <2>5 DEF Written
  <2>6. CASE TakeResponse
    BY <2>6 DEF TakeResponse
  <2>7. CASE TakeError
    BY <2>7 DEF TakeError, Finish
  <2>8. CASE Timeout
    BY <2>8 DEF Timeout, Finish
  <2>9. CASE CopyBody
    BY <2>9 DEF CopyBody
  <2>10. CASE CopyEnds
    BY <2>10 DEF CopyEnds, Finish
  <2>. QED
    BY <1>1, <2>1, <2>2, <2>3, <2>4, <2>5, <2>6, <2>7, <2>8, <2>9, <2>10 DEF Handler
<1>2. CASE Relay \/ VisitorEnds
  <2>1. CASE RelayIn
    BY <2>1 DEF RelayIn
  <2>2. CASE RelayInEnds
    BY <2>2 DEF RelayInEnds
  <2>3. CASE RelayOut
    BY <2>3 DEF RelayOut
  <2>4. CASE RelayOutEnds
    BY <2>4 DEF RelayOutEnds
  <2>5. CASE RelaysEnd
    BY <2>5 DEF RelaysEnd, Finish
  <2>6. CASE VisitorEnds
    BY <2>6 DEF VisitorEnds
  <2>. QED
    BY <1>2, <2>1, <2>2, <2>3, <2>4, <2>5, <2>6 DEF Relay
<1>3. CASE ReadResponse
  BY <1>3 DEF ReadResponse
<1>4. CASE Bridge
  <2>1. ASSUME NEW k \in Kinds, NEW h \in Habits, Dial(k, h) PROVE WholeResponse'
    BY <2>1 DEF Dial, Kinds, Habits
  <2>2. CASE DialFails
    BY <2>2 DEF DialFails
  <2>3. CASE DialTCPFails
    BY <2>3 DEF DialTCPFails
  <2>4. CASE BridgeEnds
    BY <2>4 DEF BridgeEnds
  <2>. QED
    BY <1>4, <2>1, <2>2, <2>3, <2>4 DEF Bridge
<1>5. CASE Up
  BY <1>5 DEF Up, UpCopy, UpEnds, UpOver
<1>6. CASE Down
  BY <1>6 DEF Down, DownCopy, DownEnds
<1>7. CASE Mux
  BY <1>7 DEF Mux, AnswerClose
<1>8. CASE Service \/ ServiceHangsUp \/ ServiceFails
  <2>1. CASE ServiceReads
    BY <2>1 DEF ServiceReads
  <2>2. CASE ServiceStarts
    BY <2>2 DEF ServiceStarts
  <2>3. CASE ServiceAnswers
    BY <2>3 DEF ServiceAnswers
  <2>4. CASE ServiceCloses
    BY <2>4 DEF ServiceCloses
  <2>5. CASE ServiceHangsUp
    BY <2>5 DEF ServiceHangsUp
  <2>6. CASE ServiceFails
    BY <2>6 DEF ServiceFails
  <2>. QED
    BY <1>8, <2>1, <2>2, <2>3, <2>4, <2>5, <2>6 DEF Service
<1>9. CASE LoseLink
  BY <1>9 DEF LoseLink
<1>10. CASE UNCHANGED vars
  BY <1>10 DEF vars
<1>. QED
  BY <1>1, <1>2, <1>3, <1>4, <1>5, <1>6, <1>7, <1>8, <1>9, <1>10 DEF Next

LEMMA UnreachableStep == IInv /\ [Next]_vars => UnreachableMeansFailure'
<1>. SUFFICES ASSUME IInv, [Next]_vars
              PROVE  UnreachableMeansFailure'
  OBVIOUS
<1>. USE SizesAssumption, NoneAssumption DEF IInv, TypeOK, BridgeAgrees, ReaderSucceeds,
       NoService, handler, read, channel, bridge, local, tcp, UnreachableMeansFailure
<1>1. CASE Handler
  BY <1>1 DEF Handler, OpenProxyChannel, AcceptChannel, Write, WriteFails, Finish, Written,
     TakeResponse, TakeError, Timeout, CopyBody, CopyEnds
<1>2. CASE Relay \/ VisitorEnds
  BY <1>2 DEF Relay, RelayIn, RelayInEnds, RelayOut, RelayOutEnds, RelaysEnd, Finish,
     VisitorEnds
<1>3. CASE ReadResponse
  BY <1>3 DEF ReadResponse
<1>4. CASE Bridge
  BY <1>4 DEF Bridge, Dial, Kinds, Habits, DialFails, DialTCPFails, BridgeEnds
<1>5. CASE Up
  BY <1>5 DEF Up, UpCopy, UpEnds, UpOver
<1>6. CASE Down
  BY <1>6 DEF Down, DownCopy, DownEnds
<1>7. CASE Mux
  BY <1>7 DEF Mux, AnswerClose
<1>8. CASE Service \/ ServiceHangsUp \/ ServiceFails
  <2>1. CASE ServiceReads
    BY <2>1 DEF ServiceReads
  <2>2. CASE ServiceStarts
    BY <2>2 DEF ServiceStarts
  <2>3. CASE ServiceAnswers
    BY <2>3 DEF ServiceAnswers
  <2>4. CASE ServiceCloses
    BY <2>4 DEF ServiceCloses
  <2>5. CASE ServiceHangsUp
    BY <2>5 DEF ServiceHangsUp
  <2>6. CASE ServiceFails
    BY <2>6 DEF ServiceFails
  <2>. QED
    BY <1>8, <2>1, <2>2, <2>3, <2>4, <2>5, <2>6 DEF Service
<1>9. CASE LoseLink
  BY <1>9 DEF LoseLink
<1>10. CASE UNCHANGED vars
  BY <1>10 DEF vars
<1>. QED
  BY <1>1, <1>2, <1>3, <1>4, <1>5, <1>6, <1>7, <1>8, <1>9, <1>10 DEF Next

LEMMA IInvStep == IInv /\ [Next]_vars => IInv'
BY TypeStep, PlacesStep, BridgeStep, ClosesStep, ConservedStep, DrainsStep, RelayStep,
   ReaderStep, WholeStep, UnreachableStep DEF IInv

(* The relations between handler, relays, client and service hold at every *)
(* step.                                                                   *)
THEOREM Invariant == Spec => []IInv
BY InitIInv, IInvStep, PTL DEF Spec

(* Types, the room of the buffers, and no more delivered than was sent. *)
THEOREM TypeCorrect == Spec => []TypeOK
<1>1. IInv => TypeOK
  BY DEF IInv
<1>. QED
  BY <1>1, Invariant, PTL

(* No copier loses or repeats a unit of the response, whatever fails. *)
THEOREM ResponseIsConserved == Spec => []ResponseConserved
<1>1. IInv => ResponseConserved
  BY DEF IInv
<1>. QED
  BY <1>1, Invariant, PTL

(* A response is whole unless the connection or the service fails. *)
THEOREM WholeResponseDelivered == Spec => []WholeResponse
<1>1. IInv => WholeResponse
  BY DEF IInv
<1>. QED
  BY <1>1, Invariant, PTL

(* A visitor is told of an unreachable service only after a failure. *)
THEOREM UnreachableOnlyOnFailure == Spec => []UnreachableMeansFailure
<1>1. IInv => UnreachableMeansFailure
  BY DEF IInv
<1>. QED
  BY <1>1, Invariant, PTL

-----------------------------------------------------------------------------
(* The other direction. A handler waits, and a visitor has finished, only  *)
(* when all is written; one that could not write has lost the link, its    *)
(* client or its visitor.                                                  *)
WrittenFirst ==
  /\ edge \in {"waiting", "copying"} \/ visitor = "finished" => toWrite = 0
  /\ edge = "done" /\ proto = "http" => toWrite = 0 \/ answer = "offline"
  /\ answer = "offline" => ~link \/ client \in {"none", "done"} \/ visitor = "left"

(* TCPEdge's relay sends EOF when it ends, and not before all is written   *)
(* while the bridge and the visitor are there.                             *)
RelayEndsLast ==
  /\ "server" \in ended => "in" \notin relays /\ edge \in {"relaying", "done"}
  /\ proto = "tcp" /\ client # "none" /\ "in" \notin relays => "server" \in ended
  /\ "server" \in ended /\ link /\ client # "done" /\ visitor # "left" => toWrite = 0

(* While the service is there, its input ends only with the channel's. *)
HalfMeansOver == half /\ client = "bridging" /\ service.at # "closed" => Over("server")

InputInv == IInv /\ WrittenFirst /\ RelayEndsLast /\ HalfMeansOver /\ InputWhole

LEMMA HalfStep == InputInv /\ [Next]_vars => HalfMeansOver'
<1>. SUFFICES ASSUME InputInv, [Next]_vars PROVE HalfMeansOver'
  OBVIOUS
<1>. USE SizesAssumption, NoneAssumption DEF InputInv, IInv, TypeOK, BridgeAgrees,
       HalfMeansOver, Over, handler, read, channel, bridge, local, tcp
<1>1. CASE Handler
  BY <1>1 DEF Handler, OpenProxyChannel, AcceptChannel, Write, WriteFails, Finish, Written,
     TakeResponse, TakeError, Timeout, CopyBody, CopyEnds
<1>2. CASE Relay \/ VisitorEnds
  BY <1>2 DEF Relay, RelayIn, RelayInEnds, RelayOut, RelayOutEnds, RelaysEnd, Finish,
     VisitorEnds
<1>3. CASE ReadResponse
  BY <1>3 DEF ReadResponse
<1>4. CASE Bridge
  BY <1>4 DEF Bridge, Dial, DialFails, DialTCPFails, BridgeEnds
<1>5. CASE Up
  BY <1>5 DEF Up, UpCopy, UpEnds, UpOver
<1>6. CASE Down
  BY <1>6 DEF Down, DownCopy, DownEnds
<1>7. CASE Mux
  BY <1>7 DEF Mux, AnswerClose
<1>8. CASE Service \/ ServiceHangsUp \/ ServiceFails
  <2>1. UNCHANGED <<handler, read, channel, bridge>>
    BY <1>8 DEF Service, ServiceReads, ServiceStarts, ServiceAnswers, ServiceCloses,
       ServiceHangsUp, ServiceFails
  <2>2. service'.at # "closed" => service.at # "closed"
    BY <1>8 DEF Service, ServiceReads, ServiceStarts, ServiceAnswers, ServiceCloses,
       ServiceHangsUp, ServiceFails
  <2>. QED
    BY <2>1, <2>2
<1>9. CASE LoseLink
  BY <1>9 DEF LoseLink
<1>10. CASE UNCHANGED vars
  BY <1>10 DEF vars
<1>. QED
  BY <1>1, <1>2, <1>3, <1>4, <1>5, <1>6, <1>7, <1>8, <1>9, <1>10 DEF Next

LEMMA WrittenStep == InputInv /\ [Next]_vars => WrittenFirst'
<1>. SUFFICES ASSUME InputInv, [Next]_vars PROVE WrittenFirst'
  OBVIOUS
<1>. USE SizesAssumption, NoneAssumption DEF InputInv, IInv, TypeOK, PlacesAgree,
       ClosesExplained, WrittenFirst, Writable, handler, read, channel, bridge, local, tcp
<1>1. CASE Handler
  BY <1>1 DEF Handler, OpenProxyChannel, AcceptChannel, Write, WriteFails, Finish, Written,
     TakeResponse, TakeError, Timeout, CopyBody, CopyEnds
<1>2. CASE Relay \/ VisitorEnds
  BY <1>2 DEF Relay, RelayIn, RelayInEnds, RelayOut, RelayOutEnds, RelaysEnd, Finish,
     VisitorEnds
<1>3. CASE ReadResponse
  BY <1>3 DEF ReadResponse
<1>4. CASE Bridge
  <2>1. ASSUME NEW k \in Kinds, NEW h \in Habits, Dial(k, h) PROVE WrittenFirst'
    BY <2>1 DEF Dial, Kinds, Habits
  <2>2. CASE DialFails
    BY <2>2 DEF DialFails
  <2>3. CASE DialTCPFails
    BY <2>3 DEF DialTCPFails
  <2>4. CASE BridgeEnds
    BY <2>4 DEF BridgeEnds
  <2>. QED
    BY <1>4, <2>1, <2>2, <2>3, <2>4 DEF Bridge
<1>5. CASE Up
  BY <1>5 DEF Up, UpCopy, UpEnds, UpOver
<1>6. CASE Down
  BY <1>6 DEF Down, DownCopy, DownEnds
<1>7. CASE Mux
  BY <1>7 DEF Mux, AnswerClose
<1>8. CASE Service \/ ServiceHangsUp \/ ServiceFails
  <2>1. UNCHANGED <<handler, read, channel, bridge>>
    BY <1>8 DEF Service, ServiceReads, ServiceStarts, ServiceAnswers, ServiceCloses,
       ServiceHangsUp, ServiceFails
  <2>. QED
    BY <2>1
<1>9. CASE LoseLink
  BY <1>9 DEF LoseLink
<1>10. CASE UNCHANGED vars
  BY <1>10 DEF vars
<1>. QED
  BY <1>1, <1>2, <1>3, <1>4, <1>5, <1>6, <1>7, <1>8, <1>9, <1>10 DEF Next

LEMMA RelayEndsStep == InputInv /\ [Next]_vars => RelayEndsLast'
<1>. SUFFICES ASSUME InputInv, [Next]_vars PROVE RelayEndsLast'
  OBVIOUS
<1>. USE SizesAssumption, NoneAssumption DEF InputInv, IInv, TypeOK, PlacesAgree,
       ClosesExplained, WrittenFirst, RelayEndsLast, Writable, handler, read, channel,
       bridge, local, tcp
<1>1. CASE Handler
  BY <1>1 DEF Handler, OpenProxyChannel, AcceptChannel, Write, WriteFails, Finish, Written,
     TakeResponse, TakeError, Timeout, CopyBody, CopyEnds
<1>2. CASE Relay \/ VisitorEnds
  BY <1>2 DEF Relay, RelayIn, RelayInEnds, RelayOut, RelayOutEnds, RelaysEnd, Finish,
     VisitorEnds
<1>3. CASE ReadResponse
  BY <1>3 DEF ReadResponse
<1>4. CASE Bridge
  <2>1. ASSUME NEW k \in Kinds, NEW h \in Habits, Dial(k, h) PROVE RelayEndsLast'
    BY <2>1 DEF Dial, Kinds, Habits
  <2>2. CASE DialFails
    BY <2>2 DEF DialFails
  <2>3. CASE DialTCPFails
    BY <2>3 DEF DialTCPFails
  <2>4. CASE BridgeEnds
    BY <2>4 DEF BridgeEnds
  <2>. QED
    BY <1>4, <2>1, <2>2, <2>3, <2>4 DEF Bridge
<1>5. CASE Up
  BY <1>5 DEF Up, UpCopy, UpEnds, UpOver
<1>6. CASE Down
  BY <1>6 DEF Down, DownCopy, DownEnds
<1>7. CASE Mux
  BY <1>7 DEF Mux, AnswerClose
<1>8. CASE Service \/ ServiceHangsUp \/ ServiceFails
  <2>1. UNCHANGED <<handler, read, channel, bridge>>
    BY <1>8 DEF Service, ServiceReads, ServiceStarts, ServiceAnswers, ServiceCloses,
       ServiceHangsUp, ServiceFails
  <2>. QED
    BY <2>1
<1>9. CASE LoseLink
  BY <1>9 DEF LoseLink
<1>10. CASE UNCHANGED vars
  BY <1>10 DEF vars
<1>. QED
  BY <1>1, <1>2, <1>3, <1>4, <1>5, <1>6, <1>7, <1>8, <1>9, <1>10 DEF Next

LEMMA InputStep == InputInv /\ [Next]_vars => InputWhole'
<1>. SUFFICES ASSUME InputInv, [Next]_vars PROVE InputWhole'
  OBVIOUS
<1>. USE SizesAssumption, NoneAssumption DEF InputInv, IInv, TypeOK, PlacesAgree,
       ClosesExplained, BridgeAgrees, WrittenFirst, RelayEndsLast, HalfMeansOver, InputWhole,
       Over, handler, read, channel, bridge, local, tcp
<1>1. CASE Handler
  <2>1. CASE Write
    BY <2>1 DEF Write, Writable
  <2>2. CASE WriteFails
    BY <2>2 DEF WriteFails, Finish, Writable
  <2>3. CASE OpenProxyChannel \/ AcceptChannel \/ Written
    BY <2>3 DEF OpenProxyChannel, AcceptChannel, Written
  <2>4. CASE TakeResponse \/ TakeError \/ Timeout \/ CopyBody \/ CopyEnds
    BY <2>4 DEF TakeResponse, TakeError, Timeout, CopyBody, CopyEnds, Finish
  <2>. QED
    BY <1>1, <2>1, <2>2, <2>3, <2>4 DEF Handler
<1>2. CASE Relay \/ VisitorEnds
  <2>1. CASE RelayIn
    <3>1. "in" \in relays /\ closed = {} /\ link /\ "server" \notin ended
      BY <2>1 DEF RelayIn, Writable
    <3>2. ~(half /\ client = "bridging" /\ service.at # "closed")
      BY <3>1
    <3>3. UNCHANGED <<half, client, service>>
      BY <2>1 DEF RelayIn
    <3>. QED
      BY <3>2, <3>3
  <2>2. CASE RelayInEnds
    BY <2>2 DEF RelayInEnds
  <2>3. CASE RelayOut \/ RelayOutEnds
    BY <2>3 DEF RelayOut, RelayOutEnds
  <2>4. CASE RelaysEnd
    BY <2>4 DEF RelaysEnd, Finish
  <2>5. CASE VisitorEnds
    BY <2>5 DEF VisitorEnds
  <2>. QED
    BY <1>2, <2>1, <2>2, <2>3, <2>4, <2>5 DEF Relay
<1>3. CASE ReadResponse
  BY <1>3 DEF ReadResponse
<1>4. CASE Bridge
  <2>1. ASSUME NEW k \in Kinds, NEW h \in Habits, Dial(k, h) PROVE InputWhole'
    BY <2>1 DEF Dial, Kinds, Habits
  <2>2. CASE DialFails
    BY <2>2 DEF DialFails
  <2>3. CASE DialTCPFails
    BY <2>3 DEF DialTCPFails
  <2>4. CASE BridgeEnds
    BY <2>4 DEF BridgeEnds
  <2>. QED
    BY <1>4, <2>1, <2>2, <2>3, <2>4 DEF Bridge
<1>5. CASE Up
  BY <1>5 DEF Up, UpCopy, UpEnds, UpOver
<1>6. CASE Down
  BY <1>6 DEF Down, DownCopy, DownEnds
<1>7. CASE Mux
  BY <1>7 DEF Mux, AnswerClose
<1>8. CASE Service \/ ServiceHangsUp \/ ServiceFails
  <2>1. UNCHANGED <<handler, read, channel, bridge>>
    BY <1>8 DEF Service, ServiceReads, ServiceStarts, ServiceAnswers, ServiceCloses,
       ServiceHangsUp, ServiceFails
  <2>2. service'.at # "closed" => service.at # "closed"
    BY <1>8 DEF Service, ServiceReads, ServiceStarts, ServiceAnswers, ServiceCloses,
       ServiceHangsUp, ServiceFails
  <2>. QED
    BY <2>1, <2>2
<1>9. CASE LoseLink
  BY <1>9 DEF LoseLink
<1>10. CASE UNCHANGED vars
  BY <1>10 DEF vars
<1>. QED
  BY <1>1, <1>2, <1>3, <1>4, <1>5, <1>6, <1>7, <1>8, <1>9, <1>10 DEF Next

(* The end of the input reaches the service behind all of the input        *)
(* (handleSingleChannel, TCPEdge.proxy).                                   *)
THEOREM InputIsWhole == Spec => []InputWhole
<1>1. Init => InputInv
  BY InitIInv, NoneAssumption DEF InputInv, Init, WrittenFirst, RelayEndsLast,
     HalfMeansOver, InputWhole
<1>2. InputInv /\ [Next]_vars => InputInv'
  BY IInvStep, WrittenStep, RelayEndsStep, HalfStep, InputStep DEF InputInv
<1>3. InputInv => InputWhole
  BY DEF InputInv
<1>. QED
  BY <1>1, <1>2, <1>3, PTL DEF Spec
=============================================================================
