--------------------------- MODULE EmbeddedQueue ---------------------------
(***************************************************************************)
(* The default messaging backend (pkg/messaging/embedded): a table of      *)
(* messages in SQLite, that every subscription polls by row ID from where  *)
(* its last poll ended; and the handler of internal/server/api/messages.go *)
(* that copies a subscription to the stream of an HTTP response.           *)
(*                                                                         *)
(* A subscription is two goroutines with an unbuffered channel between     *)
(* them: the poller reads a batch and offers it message by message, the    *)
(* handler takes one and writes it.  The poller gives up when the request  *)
(* is over or the backend closed, the handler when the client has gone or  *)
(* the channel is closed.  Row IDs count up from 1 and stand for messages. *)
(***************************************************************************)
EXTENDS Naturals, FiniteSets, Sequences

CONSTANTS Worker,
          Listener,     \* clients that subscribe, and again when cut off
          ListensFor,   \* the worker of each
          NoRow,        \* nothing in hand
          MaxMessages,  \* bound: messages emitted
          MaxCuts,      \* bound: connections that break
          MaxStops      \* bound: times the backend is closed or its process stops

ASSUME ListenerAssumption == ListensFor \in [Listener -> Worker]
ASSUME NoRowAssumption    == NoRow \notin Nat \cup Worker
ASSUME BoundAssumption    == {MaxMessages, MaxCuts, MaxStops} \subseteq Nat

Message == 1 .. MaxMessages

VARIABLES rows,      \* table messages: the recipient, by row ID
          acked,     \* the rows with an acked_at
          open,      \* the backend is open
          linked,    \* listeners at the other end of their stream
          serving,   \* listeners whose handleSubscribe has not returned
          polling,   \* listeners whose goroutine of Subscribe has not returned
          cursor,    \* lastDeliveredRowID
          batch,     \* what was polled, and is still to be offered
          hand,      \* what the handler took off the channel
          cuts, stops,
          received,  \* ghost: which worker has received which message
          got,       \* ghost: what the listener received of its subscription
          before     \* ghost: messages acknowledged when the subscription began

table  == <<rows, acked>>
ends   == <<linked, serving, polling>>
stream == <<cursor, batch, hand>>
bounds == <<cuts, stops>>
ghosts == <<received, got, before>>
vars   == <<table, open, ends, stream, bounds, ghosts>>

(* The type, and what the code relies on: a batch is a live poller's and   *)
(* never reaches past its cursor, nor the cursor past the table.           *)
TypeOK ==
  /\ rows \in Seq(Worker) /\ Len(rows) <= MaxMessages
  /\ acked \in SUBSET DOMAIN rows
  /\ open \in BOOLEAN
  /\ {linked, serving, polling} \subseteq SUBSET Listener
  /\ cursor \in [Listener -> 0 .. Len(rows)]
  /\ batch \in [Listener -> SUBSET Message]
  /\ \A l \in Listener : \A i \in batch[l] : l \in polling /\ i <= cursor[l]
  /\ hand \in [Listener -> Message \cup {NoRow}]
  /\ cuts \in 0 .. MaxCuts
  /\ stops \in 0 .. MaxStops
  /\ received \in SUBSET (Worker \X Message)
  /\ got \in [Listener -> SUBSET Message]
  /\ before \in [Listener -> SUBSET Message]

Init ==
  /\ rows = << >>
  /\ acked = {}
  /\ open = TRUE
  /\ linked = {} /\ serving = {} /\ polling = {}
  /\ cursor = [l \in Listener |-> 0]
  /\ batch = [l \in Listener |-> {}]
  /\ hand = [l \in Listener |-> NoRow]
  /\ cuts = 0
  /\ stops = 0
  /\ received = {}
  /\ got = [l \in Listener |-> {}]
  /\ before = [l \in Listener |-> {}]

-----------------------------------------------------------------------------

(* One INSERT: the row ID is one more than the last. *)
Emit(w) ==
  /\ open
  /\ Len(rows) < MaxMessages
  /\ rows' = Append(rows, w)
  /\ UNCHANGED <<acked, open, ends, stream, bounds, ghosts>>

(* POST /api/messages/{id}/ack by w, whether w has received it or not; of  *)
(* a message acknowledged before, and of somebody else's, without effect.  *)
Ack(w, i) ==
  /\ open
  /\ i \in DOMAIN rows /\ rows[i] = w
  /\ acked' = acked \cup {i}
  /\ UNCHANGED <<rows, open, ends, stream, bounds, ghosts>>

(* GET /api/messages/subscribe, with the cursor at a row ID. *)
SubscribeAt(l, row) ==
  /\ open
  /\ l \notin serving \cup polling
  /\ linked' = linked \cup {l} /\ serving' = serving \cup {l} /\ polling' = polling \cup {l}
  /\ cursor' = [cursor EXCEPT ![l] = row]
  /\ got' = [got EXCEPT ![l] = {}]
  /\ before' = [before EXCEPT ![l] = acked]
  /\ UNCHANGED <<table, open, batch, hand, bounds, received>>

(* Mutant of Subscribe: it goes on where the one before ended. *)
SubscribeFromLast(l) == SubscribeAt(l, cursor[l])

(* Every subscription starts from row 0. *)
Subscribe(l) == SubscribeAt(l, 0)

(* Mutants of Unread: from the start; and only the newest of them.         *)
UnreadFromStart(l) == {i \in DOMAIN rows : rows[i] = ListensFor[l] /\ i \notin acked}

UnreadNewest(l) ==
  {i \in UnreadFromStart(l) : i > cursor[l] /\ \A j \in UnreadFromStart(l) : j <= i}

(* The rows of pollSince. *)
Unread(l) == {i \in DOMAIN rows : rows[i] = ListensFor[l] /\ i \notin acked /\ i > cursor[l]}

(* A tick of the poller, when it has sent the last batch.  The cursor      *)
(* moves at once, past everything polled.  It goes on for a while when the *)
(* client or the handler has gone; of a closed backend the query fails.    *)
Poll(l) ==
  /\ l \in polling /\ open
  /\ batch[l] = {}
  /\ \E last \in Unread(l) :
       /\ \A i \in Unread(l) : i <= last
       /\ cursor' = [cursor EXCEPT ![l] = last]
       /\ batch' = [batch EXCEPT ![l] = Unread(l)]
  /\ UNCHANGED <<table, open, ends, hand, bounds, ghosts>>

(* The poller sends, in the order of the rows, and the handler takes it. *)
HandOver(l) ==
  /\ l \in polling \cap serving
  /\ hand[l] = NoRow
  /\ \E i \in batch[l] :
       /\ \A j \in batch[l] : i <= j
       /\ batch' = [batch EXCEPT ![l] = @ \ {i}]
       /\ hand' = [hand EXCEPT ![l] = i]
  /\ UNCHANGED <<table, open, ends, cursor, bounds, ghosts>>

(* The handler writes the event: it reaches the client, or the client has  *)
(* gone, and the write fails or goes nowhere.                              *)
Write(l) ==
  /\ hand[l] # NoRow
  /\ hand' = [hand EXCEPT ![l] = NoRow]
  /\ \/ /\ l \in linked
        /\ got' = [got EXCEPT ![l] = @ \cup {hand[l]}]
        /\ received' = received \cup {<<ListensFor[l], hand[l]>>}
        /\ UNCHANGED serving
     \/ /\ l \notin linked
        /\ serving' \in {serving, serving \ {l}}
        /\ UNCHANGED <<got, received>>
  /\ UNCHANGED <<table, open, linked, polling, cursor, batch, bounds, before>>

(* The handler returns: the client has gone, or the channel is closed. *)
HandlerReturns(l) ==
  /\ l \in serving
  /\ hand[l] = NoRow
  /\ l \notin linked \cap polling
  /\ serving' = serving \ {l}
  /\ linked' = linked \ {l}
  /\ UNCHANGED <<table, open, polling, stream, bounds, ghosts>>

(* Mutant of MayLeave: the send does not watch for the end. *)
MayLeaveBetween(l) == batch[l] = {}

(* The poller may leave its select for the end of the request or of the    *)
(* backend, between polls and in the middle of a send.                     *)
MayLeave(l) == TRUE

PollerReturns(l) ==
  /\ l \in polling
  /\ l \notin linked \cap serving \/ ~open
  /\ MayLeave(l)
  /\ polling' = polling \ {l}
  /\ batch' = [batch EXCEPT ![l] = {}]
  /\ UNCHANGED <<table, open, linked, serving, cursor, hand, bounds, ghosts>>

(* The connection breaks; what the client has not received is lost to it. *)
Cut(l) ==
  /\ l \in linked
  /\ cuts < MaxCuts
  /\ cuts' = cuts + 1
  /\ linked' = linked \ {l}
  /\ UNCHANGED <<table, open, serving, polling, stream, stops, ghosts>>

(* Close: no statement runs any more, and the pollers are told. *)
Close ==
  /\ open
  /\ stops < MaxStops
  /\ stops' = stops + 1
  /\ open' = FALSE
  /\ UNCHANGED <<table, ends, stream, cuts, ghosts>>

(* The process ends, with whatever goroutines it has. *)
Die ==
  /\ stops < MaxStops
  /\ stops' = stops + 1
  /\ open' = FALSE
  /\ linked' = {} /\ serving' = {} /\ polling' = {}
  /\ batch' = [l \in Listener |-> {}]
  /\ hand' = [l \in Listener |-> NoRow]
  /\ UNCHANGED <<table, cursor, cuts, ghosts>>

(* New, on the same file. *)
Reopen ==
  /\ ~open
  /\ polling \cup serving = {}
  /\ open' = TRUE
  /\ UNCHANGED <<table, ends, stream, bounds, ghosts>>

Handle(l) == Poll(l) \/ HandOver(l) \/ Write(l) \/ HandlerReturns(l) \/ PollerReturns(l)

Next ==
  \/ \E w \in Worker : Emit(w) \/ \E i \in DOMAIN rows : Ack(w, i)
  \/ \E l \in Listener : Subscribe(l) \/ Handle(l) \/ Cut(l)
  \/ Close \/ Die \/ Reopen

Spec == Init /\ [][Next]_vars

(* The Go runtime runs every goroutine, a listener that is cut off         *)
(* subscribes again, and a backend that stopped is started again.          *)
Fairness ==
  /\ \A l \in Listener :
       /\ WF_vars(Poll(l)) /\ WF_vars(HandOver(l)) /\ WF_vars(Write(l))
       /\ WF_vars(HandlerReturns(l)) /\ WF_vars(PollerReturns(l))
       /\ WF_vars(Subscribe(l))
  /\ WF_vars(Reopen)

FairSpec == Spec /\ Fairness

-----------------------------------------------------------------------------

(* embedded.go:81-87, docs/messaging-backends.md: no missed messages.  All *)
(* a poller has moved past is acknowledged, received, or on its way to the *)
(* client, for as long as the client is there.                             *)
NothingSkipped ==
  \A l \in linked \cap polling : \A i \in 1 .. cursor[l] :
    rows[i] = ListensFor[l] => i \in acked \cup got[l] \cup batch[l] \cup {hand[l]}

(* The same: no duplicated messages.  A subscription receives in the order *)
(* the messages were stored, none of them twice.                           *)
InOrderOnce ==
  [][\A l \in Listener :
       hand'[l] \notin {hand[l], NoRow} => \A j \in got[l] : j < hand'[l]]_vars

(* docs/design-notes/messaging.md:20: a listener that comes back is not    *)
(* sent what was acknowledged before it did.                               *)
NotAgain == \A l \in Listener : got[l] \cap before[l] = {}

(* messaging.go:71 and :83: a subscription ends, with its goroutine, once  *)
(* its request is over or the backend closed, whatever it was doing.       *)
SubscriptionsEnd ==
  \A l \in Listener : (~open \/ l \notin linked) ~> l \notin polling

(* The mailbox all this amounts to. *)
Mail == INSTANCE Mailbox WITH
  Listening <- {ListensFor[l] : l \in Listener},
  Nobody <- NoRow,
  to <- [i \in Message |-> IF i \in DOMAIN rows THEN rows[i] ELSE NoRow]

(* messaging.go:67-85: every message emitted is received by its recipient  *)
(* and by nobody else, across broken connections and restarts, unless its  *)
(* recipient acknowledges it first.                                        *)
ImplementsMailbox == Mail!Spec
=============================================================================
