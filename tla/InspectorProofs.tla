---------------------------- MODULE InspectorProofs ----------------------------
(***************************************************************************)
(* Proofs about Inspector, for any sets of recorders and pages and any     *)
(* sizes of the buffer and of the streams' channels.                       *)
(***************************************************************************)
EXTENDS Inspector, TLAPS

(* IDs are drawn in order: none that is still to come is anywhere.         *)
UpTo(list, n) == \A i \in 1 .. Len(list) : list[i] <= n
Drawn ==
  /\ \A r \in Recorders : sending[r] <= nextID
  /\ \A p \in Pages : UpTo(queue[p], nextID) /\ UpTo(reply[p], nextID) /\ UpTo(shown[p], nextID)

(* An answer is a copy of the buffer, which has no entry twice.            *)
RepliesOnce == \A p \in Pages, e \in IDs : HoldsOnce(reply[p], e)

IInv == TypeOK /\ BufferInOrder /\ Drawn /\ RepliesOnce /\ StreamedOnce

-----------------------------------------------------------------------------
(* What a push does to a list. *)
LEMMA PushType ==
  ASSUME NEW S, NEW list \in Seq(S), NEW x \in S
  PROVE  Push(list, x) \in Seq(S)
BY SizesAssumption DEF Push

LEMMA PushElements ==
  ASSUME NEW list \in Seq(IDs), NEW x \in IDs
  PROVE  LET new == Push(list, x)
             d == IF Len(list) >= MaxEntries THEN 1 ELSE 0 IN
         /\ d <= Len(list)
         /\ Len(new) = Len(list) + 1 - d
         /\ new[Len(new)] = x
         /\ \A i \in 1 .. Len(new) - 1 : new[i] = list[i + d]
BY SizesAssumption DEF Push

LEMMA PushOnce ==
  ASSUME NEW list \in Seq(IDs), NEW x \in IDs, NEW e \in IDs, e # x, HoldsOnce(list, e)
  PROVE  HoldsOnce(Push(list, x), e)
<1>. DEFINE new == Push(list, x)
            d == IF Len(list) >= MaxEntries THEN 1 ELSE 0
<1>1. /\ d \in {0, 1} /\ d <= Len(list) /\ Len(list) \in Nat
      /\ Len(new) = Len(list) + 1 - d /\ new[Len(new)] = x
      /\ \A i \in 1 .. Len(new) - 1 : new[i] = list[i + d]
  BY PushElements
<1>. HIDE DEF new, d
<1>2. SUFFICES ASSUME NEW i \in 1 .. Len(new), NEW j \in 1 .. Len(new), new[i] = e, new[j] = e
               PROVE  i = j
  BY DEF HoldsOnce, new
<1>3. i # Len(new) /\ j # Len(new)
  BY <1>1, <1>2
<1>4. i \in 1 .. Len(new) - 1 /\ j \in 1 .. Len(new) - 1
  BY <1>1, <1>3
<1>5. list[i + d] = e /\ list[j + d] = e /\ i + d \in 1 .. Len(list) /\ j + d \in 1 .. Len(list)
  BY <1>1, <1>2, <1>4
<1>6. i + d = j + d
  BY <1>5 DEF HoldsOnce
<1>. QED
  BY <1>1, <1>6

LEMMA PushUpTo ==
  ASSUME NEW list \in Seq(IDs), NEW x \in IDs, NEW n \in Nat, UpTo(list, n), x <= n
  PROVE  UpTo(Push(list, x), n)
BY PushElements DEF UpTo

(* The buffer, after an entry was pushed. *)
LEMMA PushInOrder ==
  ASSUME TypeOK, BufferInOrder, nextID < MaxID
  PROVE  LET new == Push(entries, nextID + 1) IN
         Len(new) <= MaxEntries /\ Consecutive(new) /\ new[Len(new)] = nextID + 1
<1>. DEFINE new == Push(entries, nextID + 1)
            d == IF Len(entries) >= MaxEntries THEN 1 ELSE 0
<1>0. entries \in Seq(IDs) /\ nextID + 1 \in IDs
  BY SizesAssumption DEF TypeOK, IDs
<1>1. /\ d \in {0, 1} /\ d <= Len(entries) /\ Len(entries) \in Nat
      /\ Len(new) = Len(entries) + 1 - d /\ new[Len(new)] = nextID + 1
      /\ \A i \in 1 .. Len(new) - 1 : new[i] = entries[i + d]
  BY <1>0, PushElements
<1>2. Len(new) <= MaxEntries
  BY <1>1, SizesAssumption DEF BufferInOrder
<1>3. ASSUME NEW i \in 1 .. Len(new) PROVE new[i] = new[Len(new)] - Len(new) + i
  <2>1. CASE i = Len(new)
    BY <1>0, <1>1, <2>1 DEF IDs
  <2>2. CASE i # Len(new)
    <3>1. i \in 1 .. Len(new) - 1 /\ i + d \in 1 .. Len(entries) /\ entries # <<>>
      BY <1>0, <1>1, <2>2
    <3>2. entries[i + d] = nextID - Len(entries) + (i + d)
      BY <3>1 DEF BufferInOrder, Consecutive
    <3>. QED
      BY <1>0, <1>1, <3>1, <3>2 DEF TypeOK
  <2>. QED
    BY <2>1, <2>2
<1>. QED
  BY <1>1, <1>2, <1>3 DEF Consecutive

(* The buffer has no entry twice, and none that is still to come. *)
LEMMA BufferOnce ==
  ASSUME TypeOK, BufferInOrder
  PROVE  UpTo(entries, nextID) /\ \A e \in IDs : HoldsOnce(entries, e)
<1>1. \A i \in 1 .. Len(entries) : entries[i] = nextID - Len(entries) + i
  BY DEF BufferInOrder, Consecutive, TypeOK
<1>2. Len(entries) \in Nat /\ nextID \in Nat
  BY DEF TypeOK
<1>. QED
  BY <1>1, <1>2 DEF UpTo, HoldsOnce

-----------------------------------------------------------------------------
LEMMA TypeStep == TypeOK /\ [Next]_vars => TypeOK'
<1>. SUFFICES ASSUME TypeOK, [Next]_vars PROVE TypeOK'
  OBVIOUS
<1>. USE SizesAssumption
<1>1. ASSUME NEW r \in Recorders, AppendEntry(r) PROVE TypeOK'
  <2>1. nextID + 1 \in IDs /\ nextID' = nextID + 1
    BY <1>1 DEF AppendEntry, TypeOK, IDs
  <2>2. entries' \in Seq(IDs)
    BY <1>1, <2>1, PushType DEF AppendEntry, TypeOK
  <2>3. sending' \in [Recorders -> 0 .. MaxID]
    BY <1>1, <2>1 DEF AppendEntry, TypeOK, IDs
  <2>. QED
    BY <1>1, <2>1, <2>2, <2>3 DEF AppendEntry, TypeOK, page, IDs
<1>2. ASSUME NEW r \in Recorders, Broadcast(r) PROVE TypeOK'
  <2>1. ASSUME NEW p \in Pages
        PROVE  queue'[p] \in Seq(IDs) /\ Len(queue'[p]) <= Backlog
                 /\ (queue'[p] # <<>> => stream[p] = "up")
    BY <1>2 DEF Broadcast, TypeOK
  <2>2. queue' \in [Pages -> Seq(IDs)]
    BY <1>2, <2>1 DEF Broadcast
  <2>3. sending' \in [Recorders -> 0 .. MaxID]
    BY <1>2 DEF Broadcast, TypeOK
  <2>. QED
    BY <1>2, <2>1, <2>2, <2>3 DEF Broadcast, TypeOK, buffer, page
<1>3. ASSUME NEW p \in Pages, PageNext(p) PROVE TypeOK'
  <2>1. CASE Open(p)
    BY <2>1 DEF Open, TypeOK, buffer
  <2>2. CASE Subscribe(p)
    BY <2>2 DEF Subscribe, TypeOK, buffer
  <2>3. CASE Break(p)
    BY <2>3 DEF Break, TypeOK, buffer
  <2>4. CASE Receive(p)
    <3>1. Head(queue[p]) \in IDs /\ Tail(queue[p]) \in Seq(IDs)
            /\ Len(Tail(queue[p])) <= Backlog
      BY <2>4 DEF Receive, TypeOK
    <3>2. Push(shown[p], Head(queue[p])) \in Seq(IDs)
      BY <3>1, PushType DEF TypeOK
    <3>. QED
      BY <2>4, <3>1, <3>2 DEF Receive, TypeOK, buffer
  <2>5. CASE Close(p)
    BY <2>5 DEF Close, TypeOK, buffer
  <2>6. CASE AnswerFetch(p)
    BY <2>6 DEF AnswerFetch, TypeOK, buffer
  <2>7. CASE ShowReply(p)
    <3>1. shown' \in [Pages -> Seq(IDs)]
      BY <2>7 DEF ShowReply, TypeOK
    <3>2. fetch' \in [Pages -> {"none", "asked", "answered", "done"}] /\ reply' \in [Pages -> Seq(IDs)]
      BY <2>7 DEF ShowReply, TypeOK
    <3>3. UNCHANGED <<buffer, sending, queue, stream, clearing>>
      BY <2>7 DEF ShowReply
    <3>. QED
      BY <3>1, <3>2, <3>3 DEF TypeOK, buffer
  <2>8. CASE AskClear(p)
    BY <2>8 DEF AskClear, TypeOK, buffer
  <2>9. CASE Clear(p)
    BY <2>9 DEF Clear, TypeOK
  <2>10. CASE ClearPage(p)
    BY <2>10 DEF ClearPage, TypeOK, buffer
  <2>. QED
    BY <1>3, <2>1, <2>2, <2>3, <2>4, <2>5, <2>6, <2>7, <2>8, <2>9, <2>10 DEF PageNext
<1>4. CASE UNCHANGED vars
  BY <1>4 DEF vars, buffer, page, TypeOK
<1>. QED
  BY <1>1, <1>2, <1>3, <1>4 DEF Next

-----------------------------------------------------------------------------
(* A page's step takes from its queue, and shows what it had or got.       *)
LEMMA PageShape ==
  ASSUME TypeOK, NEW p \in Pages, PageNext(p)
  PROVE  /\ UNCHANGED <<nextID, sending>> /\ entries' \in {entries, <<>>}
         /\ \/ queue'[p] = queue[p] /\ shown'[p] \in {shown[p], reply[p], <<>>}
            \/ queue'[p] = <<>> /\ shown'[p] \in {shown[p], <<>>}
            \/ Receive(p)
         /\ reply'[p] \in {reply[p], entries, <<>>}
         /\ \A q \in Pages \ {p} :
              queue'[q] = queue[q] /\ shown'[q] = shown[q] /\ reply'[q] = reply[q]
<1>1. CASE Open(p)
  BY <1>1 DEF Open, TypeOK, buffer
<1>2. CASE Subscribe(p)
  BY <1>2 DEF Subscribe, TypeOK, buffer
<1>3. CASE Break(p)
  BY <1>3 DEF Break, TypeOK, buffer
<1>4. CASE Receive(p)
  BY <1>4 DEF Receive, TypeOK, buffer
<1>5. CASE Close(p)
  BY <1>5 DEF Close, TypeOK, buffer
<1>6. CASE AnswerFetch(p)
  BY <1>6 DEF AnswerFetch, TypeOK, buffer
<1>7. CASE ShowReply(p)
  BY <1>7 DEF ShowReply, TypeOK, buffer
<1>8. CASE AskClear(p)
  BY <1>8 DEF AskClear, TypeOK, buffer
<1>9. CASE Clear(p)
  BY <1>9 DEF Clear, TypeOK
<1>10. CASE ClearPage(p)
  BY <1>10 DEF ClearPage, TypeOK, buffer
<1>. QED
  BY <1>1, <1>2, <1>3, <1>4, <1>5, <1>6, <1>7, <1>8, <1>9, <1>10 DEF PageNext

LEMMA AppendStep ==
  ASSUME IInv, TypeOK', NEW r \in Recorders, AppendEntry(r)
  PROVE  IInv'
<1>. USE DEF IInv
<1>. DEFINE new == nextID + 1
<1>1. /\ nextID' = new /\ new \in IDs /\ nextID \in Nat
      /\ sending' = [sending EXCEPT ![r] = new]
      /\ UNCHANGED <<queue, reply, shown, stream>>
  BY SizesAssumption DEF AppendEntry, TypeOK, IDs, page
<1>2. BufferInOrder'
  BY <1>1, PushInOrder DEF AppendEntry, BufferInOrder
<1>3. Drawn'
  <2>1. \A q \in Recorders : sending'[q] <= new
    BY <1>1 DEF Drawn, TypeOK
  <2>2. ASSUME NEW list \in Seq(IDs), UpTo(list, nextID) PROVE UpTo(list, new)
    <3>1. \A i \in 1 .. Len(list) : list[i] \in IDs
      OBVIOUS
    <3>2. \A i \in IDs : i \in Nat
      BY SizesAssumption DEF IDs
    <3>. QED
      BY <1>1, <2>2, <3>1, <3>2 DEF UpTo
  <2>. QED
    BY <1>1, <2>1, <2>2 DEF Drawn, TypeOK
<1>4. RepliesOnce'
  BY <1>1 DEF RepliesOnce
<1>5. StreamedOnce'
  <2>1. \A e \in IDs : Sending(e)' => Sending(e) \/ e = new
    BY <1>1 DEF Sending, TypeOK
  <2>2. \A list \in Seq(IDs) : UpTo(list, nextID) => ~Holds(list, new)
    BY <1>1 DEF UpTo, Holds, IDs
  <2>3. \A p \in Pages : ~Holds(queue[p], new) /\ ~Holds(shown[p], new)
    BY <2>2 DEF Drawn, TypeOK
  <2>4. \A p \in Pages : HoldsOnce(shown[p], new)
    BY <2>3 DEF Holds, HoldsOnce
  <2>5. (\A q, s \in Recorders : sending[q] # 0 /\ sending[q] = sending[s] => q = s)'
    BY <1>1 DEF StreamedOnce, Drawn, TypeOK
  <2>. QED
    BY <1>1, <2>1, <2>3, <2>4, <2>5 DEF StreamedOnce
<1>. QED
  BY <1>2, <1>3, <1>4, <1>5

LEMMA BroadcastStep ==
  ASSUME IInv, TypeOK', NEW r \in Recorders, Broadcast(r)
  PROVE  IInv'
<1>. USE DEF IInv
<1>. DEFINE new == sending[r]
<1>1. /\ new \in IDs /\ new <= nextID
      /\ sending' = [sending EXCEPT ![r] = 0]
      /\ UNCHANGED <<nextID, entries, reply, shown, stream>>
  BY DEF Broadcast, Drawn, buffer, page
<1>2. \A p \in Pages : queue[p] \in Seq(IDs) /\ queue'[p] \in {queue[p], Append(queue[p], new)}
  BY DEF Broadcast, TypeOK
<1>3. BufferInOrder' /\ RepliesOnce'
  BY <1>1 DEF BufferInOrder, RepliesOnce
<1>4. Drawn'
  <2>1. ASSUME NEW p \in Pages PROVE UpTo(queue'[p], nextID)
    <3>1. UpTo(queue[p], nextID) /\ queue[p] \in Seq(IDs)
      BY <1>2 DEF Drawn
    <3>2. UpTo(Append(queue[p], new), nextID)
      BY <1>1, <3>1 DEF UpTo
    <3>. QED
      BY <1>2, <3>1, <3>2
  <2>2. \A q \in Recorders : sending'[q] <= nextID
    BY <1>1 DEF Drawn, TypeOK
  <2>. QED
    BY <1>1, <2>1, <2>2 DEF Drawn
<1>5. StreamedOnce'
  <2>1. \A e \in IDs : Sending(e)' => Sending(e) /\ e # new
    BY <1>1 DEF Sending, StreamedOnce, TypeOK, IDs
  <2>2. Sending(new)
    BY DEF Sending
  <2>3. ASSUME NEW p \in Pages, NEW e \in IDs
        PROVE  /\ Holds(queue'[p], e) => Holds(queue[p], e) \/ e = new
               /\ HoldsOnce(queue'[p], e)
    <3>1. CASE queue'[p] = queue[p]
      BY <3>1 DEF StreamedOnce
    <3>2. CASE queue'[p] = Append(queue[p], new)
      <4>1. ~Holds(queue[p], new) /\ HoldsOnce(queue[p], e)
        BY <1>1, <2>2 DEF StreamedOnce
      <4>2. /\ Len(queue'[p]) = Len(queue[p]) + 1 /\ queue'[p][Len(queue[p]) + 1] = new
            /\ \A i \in 1 .. Len(queue[p]) : queue'[p][i] = queue[p][i]
            /\ Len(queue[p]) \in Nat
        BY <1>1, <1>2, <3>2
      <4>3. Holds(queue'[p], e) => Holds(queue[p], e) \/ e = new
        BY <4>2 DEF Holds
      <4>4. HoldsOnce(queue'[p], e)
        <5>1. SUFFICES ASSUME NEW i \in 1 .. Len(queue'[p]), NEW j \in 1 .. Len(queue'[p]),
                              queue'[p][i] = e, queue'[p][j] = e
                       PROVE  i = j
          BY DEF HoldsOnce
        <5>2. CASE e = new
          BY <4>1, <4>2, <5>1, <5>2 DEF Holds
        <5>3. CASE e # new
          <6>1. i \in 1 .. Len(queue[p]) /\ j \in 1 .. Len(queue[p])
            BY <4>2, <5>1, <5>3
          <6>2. queue[p][i] = e /\ queue[p][j] = e
            BY <4>2, <5>1, <6>1
          <6>. QED
            BY <4>1, <6>1, <6>2 DEF HoldsOnce
        <5>. QED
          BY <5>2, <5>3
      <4>. QED
        BY <4>3, <4>4
    <3>. QED
      BY <1>2, <3>1, <3>2
  <2>4. (\A q, s \in Recorders : sending[q] # 0 /\ sending[q] = sending[s] => q = s)'
    BY <1>1 DEF StreamedOnce, TypeOK
  <2>. QED
    BY <1>1, <2>1, <2>2, <2>3, <2>4 DEF StreamedOnce
<1>. QED
  BY <1>3, <1>4, <1>5

(* onmessage: the entry is on the page now, and in no queue. *)
LEMMA ReceiveOnce ==
  ASSUME IInv, NEW p \in Pages, Receive(p), NEW e \in IDs
  PROVE  /\ HoldsOnce(queue'[p], e)
         /\ Holds(queue'[p], e) => Holds(queue[p], e)
         /\ Sending(e) \/ Holds(queue'[p], e) => HoldsOnce(shown'[p], e)
<1>. USE DEF IInv
<1>. DEFINE q == queue[p]
            x == Head(q)
<1>1. /\ q \in Seq(IDs) /\ q # <<>> /\ x \in IDs /\ shown[p] \in Seq(IDs)
      /\ queue'[p] = Tail(q) /\ shown'[p] = Push(shown[p], x)
  BY DEF Receive, TypeOK
<1>2. /\ Len(Tail(q)) = Len(q) - 1 /\ Len(q) \in Nat /\ Len(q) > 0 /\ q[1] = x
      /\ \A i \in 1 .. Len(q) - 1 : Tail(q)[i] = q[i + 1]
  BY <1>1
<1>3. \A f \in IDs : HoldsOnce(q, f)
  BY DEF StreamedOnce
<1>4. HoldsOnce(Tail(q), e)
  BY <1>2, <1>3 DEF HoldsOnce
<1>5. Holds(Tail(q), e) => Holds(q, e) /\ e # x
  <2>1. SUFFICES ASSUME NEW i \in 1 .. Len(Tail(q)), Tail(q)[i] = e PROVE Holds(q, e) /\ e # x
    BY DEF Holds
  <2>2. i + 1 \in 1 .. Len(q) /\ q[i + 1] = e /\ 1 \in 1 .. Len(q)
    BY <1>2, <2>1
  <2>3. e = x => i + 1 = 1
    BY <1>2, <1>3, <2>2 DEF HoldsOnce
  <2>. QED
    BY <1>2, <2>1, <2>2, <2>3 DEF Holds
<1>6. Holds(q, x)
  BY <1>2 DEF Holds
<1>7. Sending(e) => e # x
  BY <1>1, <1>6 DEF StreamedOnce
<1>8. Sending(e) \/ Holds(Tail(q), e) => HoldsOnce(shown[p], e)
  BY <1>5 DEF StreamedOnce
<1>9. Sending(e) \/ Holds(Tail(q), e) => HoldsOnce(Push(shown[p], x), e)
  BY <1>1, <1>5, <1>7, <1>8, PushOnce
<1>. QED
  BY <1>1, <1>4, <1>5, <1>9

LEMMA PageStep ==
  ASSUME IInv, TypeOK', NEW p \in Pages, PageNext(p)
  PROVE  IInv'
<1>. USE DEF IInv
<1>1. UNCHANGED <<nextID, sending>> /\ entries' \in {entries, <<>>}
  BY PageShape
<1>2. \A o \in Pages \ {p} : queue'[o] = queue[o] /\ shown'[o] = shown[o] /\ reply'[o] = reply[o]
  BY PageShape
<1>3. \/ queue'[p] = queue[p] /\ shown'[p] \in {shown[p], reply[p], <<>>}
      \/ queue'[p] = <<>> /\ shown'[p] \in {shown[p], <<>>}
      \/ Receive(p)
  BY PageShape
<1>4. reply'[p] \in {reply[p], entries, <<>>}
  BY PageShape
<1>5. \A n : UpTo(<<>>, n)
  BY DEF UpTo
<1>6. \A e : HoldsOnce(<<>>, e) /\ ~Holds(<<>>, e)
  BY DEF HoldsOnce, Holds
<1>7. BufferInOrder'
  BY <1>1, SizesAssumption DEF BufferInOrder, Consecutive
<1>8. RepliesOnce'
  BY <1>2, <1>4, <1>6, BufferOnce DEF RepliesOnce
<1>9. Drawn'
  <2>1. UpTo(queue'[p], nextID) /\ UpTo(shown'[p], nextID)
    <3>1. CASE Receive(p)
      <4>1. /\ queue[p] \in Seq(IDs) /\ queue[p] # <<>> /\ shown[p] \in Seq(IDs)
            /\ queue'[p] = Tail(queue[p]) /\ shown'[p] = Push(shown[p], Head(queue[p]))
            /\ UpTo(queue[p], nextID) /\ UpTo(shown[p], nextID) /\ nextID \in Nat
        BY <3>1 DEF Receive, TypeOK, Drawn
      <4>2. UpTo(Tail(queue[p]), nextID) /\ Head(queue[p]) <= nextID /\ Head(queue[p]) \in IDs
        BY <4>1 DEF UpTo
      <4>. QED
        BY <4>1, <4>2, PushUpTo
    <3>. QED
      BY <1>3, <1>5, <3>1 DEF Drawn
  <2>2. UpTo(reply'[p], nextID)
    BY <1>4, <1>5, BufferOnce DEF Drawn
  <2>. QED
    BY <1>1, <1>2, <2>1, <2>2 DEF Drawn
<1>10. StreamedOnce'
  <2>1. \A e \in IDs : Sending(e)' <=> Sending(e)
    BY <1>1 DEF Sending
  <2>2. ASSUME NEW e \in IDs
        PROVE  /\ HoldsOnce(queue'[p], e)
               /\ Holds(queue'[p], e) => Holds(queue[p], e)
               /\ Sending(e) \/ Holds(queue'[p], e) => HoldsOnce(shown'[p], e)
    BY <1>3, <1>6, ReceiveOnce DEF StreamedOnce, RepliesOnce
  <2>. QED
    BY <1>1, <1>2, <2>1, <2>2 DEF StreamedOnce
<1>. QED
  BY <1>7, <1>8, <1>9, <1>10

-----------------------------------------------------------------------------
LEMMA InitInv == Init => IInv
<1>. SUFFICES ASSUME Init PROVE IInv
  OBVIOUS
<1>1. TypeOK
  BY SizesAssumption DEF Init, TypeOK
<1>2. BufferInOrder /\ Drawn /\ RepliesOnce
  BY SizesAssumption DEF Init, BufferInOrder, Consecutive, Drawn, UpTo, RepliesOnce, HoldsOnce
<1>3. StreamedOnce
  BY DEF Init, StreamedOnce, Sending, Holds, HoldsOnce, IDs
<1>. QED
  BY <1>1, <1>2, <1>3 DEF IInv

(* Everything that is claimed of the buffer and the streams rests on this. *)
THEOREM Invariant == Spec => []IInv
<1>1. IInv /\ [Next]_vars => IInv'
  <2>. SUFFICES ASSUME IInv, [Next]_vars PROVE IInv'
    OBVIOUS
  <2>1. TypeOK'
    BY TypeStep DEF IInv
  <2>2. CASE UNCHANGED vars
    BY <2>1, <2>2 DEF vars, buffer, page, IInv, BufferInOrder, Drawn, RepliesOnce, StreamedOnce,
                      Sending
  <2>. QED
    BY <2>1, <2>2, AppendStep, BroadcastStep, PageStep DEF Next
<1>. QED
  BY InitInv, <1>1, PTL DEF Spec

(* Every variable keeps its type, and a page that is not open has no queue. *)
THEOREM TypeCorrect == Spec => []TypeOK
<1>1. IInv => TypeOK
  BY DEF IInv
<1>. QED
  BY <1>1, Invariant, PTL

(* The ring buffer is the newest entries, in order and without a gap.      *)
THEOREM BufferStaysInOrder == Spec => []BufferInOrder
<1>1. IInv => BufferInOrder
  BY DEF IInv
<1>. QED
  BY <1>1, Invariant, PTL

(* No stream carries an entry twice. *)
THEOREM EntriesAreStreamedOnce == Spec => []StreamedOnce
<1>1. IInv => StreamedOnce
  BY DEF IInv
<1>. QED
  BY <1>1, Invariant, PTL
=============================================================================
