------------------------------ MODULE Inspector ------------------------------
(***************************************************************************)
(* The client's request inspector (internal/client/inspector.go): the      *)
(* goroutines of proxied requests that call Record, the event streams of   *)
(* handleSSE, the snapshots of handleRequests, and the page that reads     *)
(* both (inspector_assets/app.js). An action is one lock section, one      *)
(* answer, or one callback of the page.                                    *)
(*                                                                         *)
(* An entry stands for its ID. The channel of a stream and the bytes on    *)
(* their way to the page are one queue. The server notices a lost stream   *)
(* at once; until it does, the old channel only fills up.                  *)
(***************************************************************************)
EXTENDS Naturals, Sequences
CONSTANTS
  Recorders,   \* goroutines of proxied requests
  Pages,       \* browser pages
  MaxEntries,  \* maxEntries, 100; the page's limit is the same
  Backlog,     \* the capacity of a stream's channel, 16
  MaxID        \* bound on the entries recorded

ASSUME SizesAssumption ==
  /\ MaxEntries \in Nat \ {0} /\ Backlog \in Nat \ {0} /\ MaxID \in Nat

VARIABLES
  nextID,
  entries,   \* the ring buffer
  sending,   \* what a recorder has appended and not yet broadcast, or 0
  stream,    \* the page's EventSource: "none", "connecting" or "up"
  queue,     \* entries in its channel and on their way
  fetch,     \* the page's GET: "none", "asked", "answered" or "done"
  reply,     \* the entries of the answer
  clearing,  \* the page's DELETE: "none", "asked" or "cleared"
  shown      \* the page's requests

buffer == <<nextID, entries>>
page   == <<stream, fetch, reply, clearing, shown>>
vars   == <<buffer, sending, queue, page>>

IDs == 1 .. MaxID

Init ==
  /\ nextID = 0 /\ entries = <<>>
  /\ sending = [r \in Recorders |-> 0]
  /\ stream = [p \in Pages |-> "none"] /\ queue = [p \in Pages |-> <<>>]
  /\ fetch = [p \in Pages |-> "none"] /\ reply = [p \in Pages |-> <<>>]
  /\ clearing = [p \in Pages |-> "none"] /\ shown = [p \in Pages |-> <<>>]

(* A list of at most MaxEntries that drops its oldest element. *)
Push(list, e) == Append(IF Len(list) >= MaxEntries THEN Tail(list) ELSE list, e)

-----------------------------------------------------------------------------
(* Mutant: the ID is drawn in a section of its own, before the append.     *)
AppendLater(r) ==
  /\ \/ /\ sending[r] = 0 /\ nextID < MaxID
        /\ nextID' = nextID + 1
        /\ sending' = [sending EXCEPT ![r] = MaxID + nextID']
        /\ UNCHANGED entries
     \/ /\ sending[r] > MaxID
        /\ entries' = Push(entries, sending[r] - MaxID)
        /\ sending' = [sending EXCEPT ![r] = @ - MaxID]
        /\ UNCHANGED nextID
  /\ UNCHANGED <<queue, page>>

(* Record, the section under ins.mu: the ID is drawn, the oldest entry is  *)
(* evicted from a full buffer, the new one appended.                       *)
AppendEntry(r) ==
  /\ sending[r] = 0 /\ nextID < MaxID
  /\ nextID' = nextID + 1
  /\ entries' = Push(entries, nextID')
  /\ sending' = [sending EXCEPT ![r] = nextID']
  /\ UNCHANGED <<queue, page>>

(* Mutant: a full channel is waited for. *)
BroadcastBlocking(r) ==
  /\ sending[r] \in IDs
  /\ \A p \in Pages : stream[p] = "up" => Len(queue[p]) < Backlog
  /\ queue' = [p \in Pages |-> IF stream[p] = "up" THEN Append(queue[p], sending[r])
                               ELSE queue[p]]
  /\ sending' = [sending EXCEPT ![r] = 0]
  /\ UNCHANGED <<buffer, page>>

(* Mutant: the entry last appended is sent, not the recorder's own. *)
BroadcastLast(r) ==
  /\ sending[r] \in IDs
  /\ queue' = [p \in Pages |-> IF stream[p] = "up" /\ Len(queue[p]) < Backlog
                               THEN Append(queue[p], nextID) ELSE queue[p]]
  /\ sending' = [sending EXCEPT ![r] = 0]
  /\ UNCHANGED <<buffer, page>>

(* Record, the section under ins.subsMu: every stream whose channel has    *)
(* room gets the entry, the others miss it.                                *)
Broadcast(r) ==
  /\ sending[r] \in IDs
  /\ queue' = [p \in Pages |-> IF stream[p] = "up" /\ Len(queue[p]) < Backlog
                               THEN Append(queue[p], sending[r]) ELSE queue[p]]
  /\ sending' = [sending EXCEPT ![r] = 0]
  /\ UNCHANGED <<buffer, page>>

-----------------------------------------------------------------------------
(* The page is opened: it asks for the entries and connects its stream     *)
(* without waiting for the answer.                                         *)
Open(p) ==
  /\ stream[p] = "none"
  /\ stream' = [stream EXCEPT ![p] = "connecting"]
  /\ fetch' = [fetch EXCEPT ![p] = "asked"]
  /\ UNCHANGED <<buffer, sending, queue, reply, clearing, shown>>

(* handleSSE enters the channel in ins.subs. *)
Subscribe(p) ==
  /\ stream[p] = "connecting"
  /\ stream' = [stream EXCEPT ![p] = "up"]
  /\ UNCHANGED <<buffer, sending, queue, fetch, reply, clearing, shown>>

(* The stream breaks: handleSSE removes its channel with what is in it,    *)
(* and the page connects again after 2 s; it does not fetch again.         *)
Break(p) ==
  /\ stream[p] = "up"
  /\ stream' = [stream EXCEPT ![p] = "connecting"]
  /\ queue' = [queue EXCEPT ![p] = <<>>]
  /\ UNCHANGED <<buffer, sending, fetch, reply, clearing, shown>>

(* handleRequests, GET: Entries copies the buffer under ins.mu. *)
AnswerFetch(p) ==
  /\ fetch[p] = "asked"
  /\ fetch' = [fetch EXCEPT ![p] = "answered"]
  /\ reply' = [reply EXCEPT ![p] = entries]
  /\ UNCHANGED <<buffer, sending, queue, stream, clearing, shown>>

(* The answer replaces what the page shows; a lost one leaves it.          *)
ShowReply(p) ==
  /\ fetch[p] = "answered"
  /\ fetch' = [fetch EXCEPT ![p] = "done"]
  /\ reply' = [reply EXCEPT ![p] = <<>>]
  /\ shown' = [shown EXCEPT ![p] = reply[p]] \/ UNCHANGED shown
  /\ UNCHANGED <<buffer, sending, queue, stream, clearing>>

(* Mutant: a full page drops the entry it has just added. *)
ReceivePop(p) ==
  /\ stream[p] = "up" /\ queue[p] # <<>>
  /\ queue' = [queue EXCEPT ![p] = Tail(@)]
  /\ shown' = [shown EXCEPT ![p] = IF Len(@) < MaxEntries THEN Append(@, Head(queue[p])) ELSE @]
  /\ UNCHANGED <<buffer, sending, stream, fetch, reply, clearing>>

(* onmessage. *)
Receive(p) ==
  /\ stream[p] = "up" /\ queue[p] # <<>>
  /\ queue' = [queue EXCEPT ![p] = Tail(@)]
  /\ shown' = [shown EXCEPT ![p] = Push(@, Head(queue[p]))]
  /\ UNCHANGED <<buffer, sending, stream, fetch, reply, clearing>>

(* The clear button: the page asks, the server clears under ins.mu, the    *)
(* page clears itself when it hears.                                       *)
AskClear(p) ==
  /\ stream[p] # "none" /\ clearing[p] = "none"
  /\ clearing' = [clearing EXCEPT ![p] = "asked"]
  /\ UNCHANGED <<buffer, sending, queue, stream, fetch, reply, shown>>

Clear(p) ==
  /\ clearing[p] = "asked"
  /\ clearing' = [clearing EXCEPT ![p] = "cleared"]
  /\ entries' = <<>>
  /\ UNCHANGED <<nextID, sending, queue, stream, fetch, reply, shown>>

ClearPage(p) ==
  /\ clearing[p] = "cleared"
  /\ clearing' = [clearing EXCEPT ![p] = "none"]
  /\ shown' = [shown EXCEPT ![p] = <<>>]
  /\ UNCHANGED <<buffer, sending, queue, stream, fetch, reply>>

(* The page is closed or loaded anew. *)
Close(p) ==
  /\ stream[p] # "none"
  /\ stream' = [stream EXCEPT ![p] = "none"] /\ queue' = [queue EXCEPT ![p] = <<>>]
  /\ fetch' = [fetch EXCEPT ![p] = "none"] /\ reply' = [reply EXCEPT ![p] = <<>>]
  /\ clearing' = [clearing EXCEPT ![p] = "none"] /\ shown' = [shown EXCEPT ![p] = <<>>]
  /\ UNCHANGED <<buffer, sending>>

-----------------------------------------------------------------------------
PageNext(p) ==
  \/ Open(p) \/ Subscribe(p) \/ Break(p) \/ Receive(p) \/ Close(p)
  \/ AnswerFetch(p) \/ ShowReply(p)
  \/ AskClear(p) \/ Clear(p) \/ ClearPage(p)

Next ==
  \/ \E r \in Recorders : AppendEntry(r) \/ Broadcast(r)
  \/ \E p \in Pages : PageNext(p)
Spec == Init /\ [][Next]_vars

(* Recorders run. A page may stop reading (a suspended tab), and nothing   *)
(* makes visitors send requests or people open pages.                      *)
FairSpec == Spec /\ \A r \in Recorders : WF_vars(Broadcast(r))

-----------------------------------------------------------------------------
(* Type correctness; a page that is not open has no state.                 *)
TypeOK ==
  /\ nextID \in 0 .. MaxID /\ entries \in Seq(IDs)
  /\ sending \in [Recorders -> 0 .. MaxID]
  /\ stream \in [Pages -> {"none", "connecting", "up"}]
  /\ queue \in [Pages -> Seq(IDs)]
  /\ \A p \in Pages : Len(queue[p]) <= Backlog /\ (queue[p] # <<>> => stream[p] = "up")
  /\ fetch \in [Pages -> {"none", "asked", "answered", "done"}]
  /\ reply \in [Pages -> Seq(IDs)] /\ shown \in [Pages -> Seq(IDs)]
  /\ clearing \in [Pages -> {"none", "asked", "cleared"}]

(* Whatever requests end at once and whenever it is cleared, the buffer is *)
(* the newest entries in the order of their IDs, without a gap: an entry   *)
(* leaves it only as the oldest of a full one, or with all the others.     *)
Consecutive(list) ==
  \A i \in 1 .. Len(list) : list[i] = list[Len(list)] - Len(list) + i
BufferInOrder ==
  /\ Len(entries) <= MaxEntries /\ Consecutive(entries)
  /\ entries # <<>> => entries[Len(entries)] = nextID

(* Record has no lock over both of its sections, so a page may hear of an  *)
(* entry before or after the answer that holds it, or not at all. But no   *)
(* stream carries an entry twice, not even over a reconnection: one that   *)
(* is still to be broadcast is in no queue, one in a queue is there once,  *)
(* and both are on the page at most once, from the snapshot.               *)
Holds(list, e) == \E i \in 1 .. Len(list) : list[i] = e
HoldsOnce(list, e) == \A i, j \in 1 .. Len(list) : list[i] = e /\ list[j] = e => i = j
Sending(e) == \E r \in Recorders : sending[r] = e
StreamedOnce ==
  /\ \A r, q \in Recorders : sending[r] # 0 /\ sending[r] = sending[q] => r = q
  /\ \A p \in Pages, e \in IDs :
       /\ HoldsOnce(queue[p], e)
       /\ Sending(e) => ~Holds(queue[p], e)
       /\ Sending(e) \/ Holds(queue[p], e) => HoldsOnce(shown[p], e)

(* Record is called before the channel of the request is closed: it        *)
(* returns, although pages do not read their streams, or lose them.        *)
RecordReturns == \A r \in Recorders : sending[r] # 0 ~> sending[r] = 0

(* On a page that keeps reading, an entry that made it into its stream is  *)
(* shown, unless the stream breaks or the page is closed; a full page      *)
(* makes room for it.                                                      *)
QueuedShown ==
  \A p \in Pages : WF_vars(Receive(p)) =>
    \A e \in IDs : Holds(queue[p], e) ~> Holds(shown[p], e) \/ stream[p] # "up"
=============================================================================
