---------------------------- MODULE StreamProofs ----------------------------
(***************************************************************************)
(* What the parts whose goroutines wait for each other keep, for any       *)
(* number of workers, viewers and callers, any messages and any bounds:    *)
(* the polling queue, the event hub, the token client and the webhook      *)
(* backend, in this order.  Each has its inductive invariant.              *)
(*                                                                         *)
(* The polling queue is a mailbox.  Its invariant says where the messages  *)
(* of a subscription are: received and behind the hand, in hand and behind *)
(* the batch, in the batch and not past the cursor, and all of them the    *)
(* listener's own.                                                         *)
(***************************************************************************)
EXTENDS MCStreams, FiniteSetTheorems, SequenceTheorems, WellFoundedInduction, TLAPS

(* What is in the batch or in hand is the listener's. *)
Addressed(l) ==
  /\ \A i \in batch[l] : i \in DOMAIN rows /\ rows[i] = ListensFor[l]
  /\ hand[l] # NoRow => hand[l] \in DOMAIN rows /\ rows[hand[l]] = ListensFor[l]

(* A message in hand is its handler's. *)
Owned(l) == hand[l] # NoRow => l \in serving

(* Received, in hand, in the batch: in this order, and up to the cursor. *)
InOrder(l) ==
  /\ hand[l] # NoRow => hand[l] <= cursor[l] /\ \A i \in batch[l] : hand[l] < i
  /\ \A j \in got[l] : j <= cursor[l] /\ \A i \in batch[l] : j < i

(* Nothing on its way was acknowledged before the subscription began. *)
Unacked(l) ==
  /\ before[l] \subseteq acked
  /\ got[l] \cap before[l] = {}
  /\ batch[l] \cap before[l] = {}
  /\ hand[l] \notin before[l]

(* The property NothingSkipped, of one listener. *)
AllThere(l) ==
  l \in linked /\ l \in polling =>
    \A i \in 1 .. cursor[l] :
      rows[i] = ListensFor[l] => i \in acked \cup got[l] \cup batch[l] \cup {hand[l]}

Sound(l) == Addressed(l) /\ Owned(l) /\ InOrder(l) /\ Unacked(l) /\ AllThere(l)

IInv == TypeOK /\ \A l \in Listener : Sound(l)

-----------------------------------------------------------------------------
(* The type invariant.                                                     *)

(* The table's row IDs. *)
LEMMA RowIds ==
  ASSUME TypeOK
  PROVE  /\ Len(rows) \in Nat
         /\ DOMAIN rows = 1 .. Len(rows)
         /\ DOMAIN rows \subseteq Message
         /\ acked \subseteq DOMAIN rows
         /\ NoRow \notin Message
<1>1. MaxMessages \in Nat
  BY BoundAssumption
<1>2. rows \in Seq(Worker) /\ Len(rows) <= MaxMessages
  BY DEF TypeOK
<1>3. Len(rows) \in Nat /\ DOMAIN rows = 1 .. Len(rows)
  BY <1>2
<1>4. NoRow \notin Message
  BY NoRowAssumption DEF Message
<1>5. QED
  BY <1>1, <1>2, <1>3, <1>4 DEF Message, TypeOK

(* What is unread lies past the cursor, in the table. *)
LEMMA UnreadIds ==
  ASSUME TypeOK, NEW l \in Listener, NEW i \in Unread(l)
  PROVE  i \in DOMAIN rows /\ i \in Message /\ i > cursor[l] /\ i \notin acked
         /\ rows[i] = ListensFor[l]
  BY RowIds DEF Unread

LEMMA TypeInit == Init => TypeOK
<1> SUFFICES ASSUME Init PROVE TypeOK
  OBVIOUS
<1>1. rows \in Seq(Worker) /\ Len(rows) = 0 /\ DOMAIN rows = {}
  BY DEF Init
<1>2. QED
  BY <1>1, BoundAssumption DEF Init, TypeOK, Message

LEMMA TypeStep == TypeOK /\ [Next]_vars => TypeOK'
<1> SUFFICES ASSUME TypeOK, [Next]_vars PROVE TypeOK'
  OBVIOUS
<1> USE RowIds, BoundAssumption
<1>1. ASSUME NEW w \in Worker, Emit(w) PROVE TypeOK'
  <2>1. rows' \in Seq(Worker) /\ Len(rows') = Len(rows) + 1
        /\ DOMAIN rows' = 1 .. Len(rows) + 1
    BY <1>1 DEF Emit, TypeOK
  <2>2. cursor' \in [Listener -> 0 .. Len(rows')]
    BY <1>1, <2>1 DEF Emit, TypeOK, stream
  <2>3. acked' \in SUBSET DOMAIN rows'
    BY <1>1, <2>1 DEF Emit, TypeOK
  <2>4. QED
    BY <1>1, <2>1, <2>2, <2>3 DEF Emit, TypeOK, ends, stream, bounds, ghosts
<1>2. ASSUME NEW w \in Worker, NEW i \in DOMAIN rows, Ack(w, i) PROVE TypeOK'
  BY <1>2 DEF Ack, TypeOK, ends, stream, bounds, ghosts
<1>3. ASSUME NEW l \in Listener, Subscribe(l) PROVE TypeOK'
  <2>1. cursor' = [cursor EXCEPT ![l] = 0] /\ cursor' \in [Listener -> 0 .. Len(rows)]
    BY <1>3 DEF Subscribe, SubscribeAt, TypeOK
  <2>2. got' \in [Listener -> SUBSET Message] /\ before' \in [Listener -> SUBSET Message]
    BY <1>3 DEF Subscribe, SubscribeAt, TypeOK
  <2>3. \A m \in Listener : \A i \in batch'[m] : m \in polling' /\ i <= cursor'[m]
    BY <1>3, <2>1 DEF Subscribe, SubscribeAt, TypeOK
  <2>4. QED
    BY <1>3, <2>1, <2>2, <2>3 DEF Subscribe, SubscribeAt, TypeOK, table, bounds
<1>4. ASSUME NEW l \in Listener, Poll(l) PROVE TypeOK'
  <2>1. PICK last \in Unread(l) :
          /\ \A i \in Unread(l) : i <= last
          /\ cursor' = [cursor EXCEPT ![l] = last]
          /\ batch' = [batch EXCEPT ![l] = Unread(l)]
    BY <1>4 DEF Poll
  <2>2. cursor' \in [Listener -> 0 .. Len(rows)]
    BY <2>1, UnreadIds DEF TypeOK
  <2>3. batch' \in [Listener -> SUBSET Message]
    BY <2>1, UnreadIds DEF TypeOK
  <2>4. \A m \in Listener : \A i \in batch'[m] : m \in polling' /\ i <= cursor'[m]
    BY <1>4, <2>1 DEF Poll, TypeOK, ends
  <2>5. QED
    BY <1>4, <2>2, <2>3, <2>4 DEF Poll, TypeOK, table, ends, bounds, ghosts
<1>5. ASSUME NEW l \in Listener, HandOver(l) PROVE TypeOK'
  BY <1>5 DEF HandOver, TypeOK, table, ends, bounds, ghosts
<1>6. ASSUME NEW l \in Listener, Write(l) PROVE TypeOK'
  <2>1. hand[l] \in Message
    BY <1>6 DEF Write, TypeOK
  <2>2. got' \in [Listener -> SUBSET Message] /\ received' \in SUBSET (Worker \X Message)
    <3>1. CASE l \in linked
      <4>1. ListensFor[l] \in Worker
        BY ListenerAssumption
      <4>2. received' \in SUBSET (Worker \X Message)
        BY <1>6, <2>1, <3>1, <4>1 DEF Write, TypeOK
      <4>3. got' \in [Listener -> SUBSET Message]
        BY <1>6, <2>1, <3>1 DEF Write, TypeOK
      <4>4. QED
        BY <4>2, <4>3
    <3>2. CASE l \notin linked
      BY <1>6, <3>2 DEF Write, TypeOK
    <3>3. QED
      BY <3>1, <3>2
  <2>3. serving' \subseteq Listener
    BY <1>6 DEF Write, TypeOK
  <2>4. QED
    BY <1>6, <2>2, <2>3 DEF Write, TypeOK, table, bounds
<1>7. ASSUME NEW l \in Listener, HandlerReturns(l) PROVE TypeOK'
  BY <1>7 DEF HandlerReturns, TypeOK, table, stream, bounds, ghosts
<1>8. ASSUME NEW l \in Listener, PollerReturns(l) PROVE TypeOK'
  <2>1. batch' \in [Listener -> SUBSET Message]
    BY <1>8 DEF PollerReturns, TypeOK
  <2>2. \A m \in Listener : \A i \in batch'[m] : m \in polling' /\ i <= cursor'[m]
    BY <1>8 DEF PollerReturns, TypeOK
  <2>3. polling' \subseteq Listener
    BY <1>8 DEF PollerReturns, TypeOK
  <2>4. QED
    BY <1>8, <2>1, <2>2, <2>3 DEF PollerReturns, TypeOK, table, bounds, ghosts
<1>9. ASSUME NEW l \in Listener, Cut(l) PROVE TypeOK'
  <2>1. linked' \subseteq Listener /\ cuts' \in 0 .. MaxCuts
    BY <1>9 DEF Cut, TypeOK
  <2>2. QED
    BY <1>9, <2>1 DEF Cut, TypeOK, table, stream, ghosts
<1>10. CASE Close
  <2>1. stops' \in 0 .. MaxStops
    BY <1>10 DEF Close, TypeOK
  <2>2. QED
    BY <1>10, <2>1 DEF Close, TypeOK, table, ends, stream, ghosts
<1>11. CASE Die
  <2>1. stops' \in 0 .. MaxStops
    BY <1>11 DEF Die, TypeOK
  <2>2. /\ batch' \in [Listener -> SUBSET Message]
        /\ \A m \in Listener : batch'[m] = {}
        /\ hand' \in [Listener -> Message \cup {NoRow}]
    BY <1>11 DEF Die, TypeOK
  <2>3. QED
    BY <1>11, <2>1, <2>2 DEF Die, TypeOK, table, ghosts
<1>12. CASE Reopen
  BY <1>12 DEF Reopen, TypeOK, table, ends, stream, bounds, ghosts
<1>13. CASE UNCHANGED vars
  BY <1>13 DEF vars, TypeOK, table, ends, stream, bounds, ghosts
<1> QED
  BY <1>1, <1>2, <1>3, <1>4, <1>5, <1>6, <1>7, <1>8, <1>9, <1>10, <1>11, <1>12, <1>13
  DEF Next, Handle

(* The state keeps its types, a batch never reaches past the cursor, and   *)
(* the cursor never past the table (sqlite_store.go:97-115).               *)
THEOREM QueueTypes == Spec => []TypeOK
<1>1. QED
  BY TypeInit, TypeStep, PTL DEF Spec

-----------------------------------------------------------------------------
(* The inductive invariant.                                                *)

LEMMA SoundInit == Init => \A l \in Listener : Sound(l)
  BY BoundAssumption DEF Init, Sound, Addressed, Owned, InOrder, Unacked, AllThere

(* A listener of whom nothing changed, while the table only grew. *)
LEMMA Untouched ==
  ASSUME TypeOK, NEW l \in Listener, Sound(l),
         acked \subseteq acked',
         \A i \in DOMAIN rows : i \in DOMAIN rows' /\ rows'[i] = rows[i],
         l \in serving => l \in serving',
         l \in linked' /\ l \in polling' => l \in linked /\ l \in polling,
         cursor'[l] = cursor[l], batch'[l] = batch[l], hand'[l] = hand[l],
         got'[l] = got[l], before'[l] = before[l]
  PROVE  Sound(l)'
<1>1. Addressed(l)' /\ Owned(l)' /\ InOrder(l)' /\ Unacked(l)'
  BY DEF Sound, Addressed, Owned, InOrder, Unacked
<1>2. AllThere(l)'
  <2>1. SUFFICES ASSUME l \in linked, l \in polling, NEW i \in 1 .. cursor[l],
                        rows'[i] = ListensFor[l]
                 PROVE  i \in acked' \cup got[l] \cup batch[l] \cup {hand[l]}
    BY DEF AllThere
  <2>2. i \in DOMAIN rows
    BY RowIds DEF TypeOK
  <2>3. i \in acked \cup got[l] \cup batch[l] \cup {hand[l]}
    BY <2>1, <2>2 DEF Sound, AllThere
  <2>4. QED
    BY <2>3
<1>3. QED
  BY <1>1, <1>2 DEF Sound

(* The table only grows. *)
LEMMA TableGrows ==
  ASSUME TypeOK, [Next]_vars
  PROVE  /\ acked \subseteq acked'
         /\ \A i \in DOMAIN rows : i \in DOMAIN rows' /\ rows'[i] = rows[i]
<1>1. CASE \E w \in Worker : Emit(w)
  <2>1. PICK w \in Worker : Emit(w)
    BY <1>1
  <2>2. QED
    BY <2>1 DEF Emit, TypeOK
<1>2. CASE UNCHANGED rows
  BY <1>2 DEF Next, Emit, Ack, Handle, Subscribe, SubscribeAt, Poll, HandOver, Write,
    HandlerReturns,
     PollerReturns, Cut, Close, Die, Reopen, vars, table
<1>3. QED
  BY <1>1, <1>2 DEF Next, Emit, Ack, Handle, Subscribe, SubscribeAt, Poll, HandOver, Write,
     HandlerReturns, PollerReturns, Cut, Close, Die, Reopen, vars, table

(* What a subscription of l does, it does to l alone. *)
LEMMA OthersUntouched ==
  ASSUME TypeOK, NEW l \in Listener, [Next]_vars,
         Subscribe(l) \/ Handle(l) \/ Cut(l),
         NEW m \in Listener \ {l}, Sound(m)
  PROVE  Sound(m)'
<1>1. acked \subseteq acked' /\ \A i \in DOMAIN rows : i \in DOMAIN rows' /\ rows'[i] = rows[i]
  BY TableGrows
<1>2. /\ cursor'[m] = cursor[m] /\ batch'[m] = batch[m] /\ hand'[m] = hand[m]
      /\ got'[m] = got[m] /\ before'[m] = before[m]
  BY DEF TypeOK, Handle, Subscribe, SubscribeAt, Poll, HandOver, Write, HandlerReturns,
     PollerReturns, Cut, stream, ghosts
<1>3. /\ m \in serving => m \in serving'
      /\ m \in linked' /\ m \in polling' => m \in linked /\ m \in polling
  BY DEF TypeOK, Handle, Subscribe, SubscribeAt, Poll, HandOver, Write, HandlerReturns,
     PollerReturns, Cut, ends
<1>4. QED
  BY <1>1, <1>2, <1>3, Untouched

LEMMA SubscribeSound ==
  ASSUME IInv, NEW l \in Listener, Subscribe(l)
  PROVE  Sound(l)'
<1>1. batch[l] = {} /\ hand[l] = NoRow
  BY DEF IInv, TypeOK, Sound, Owned, Subscribe, SubscribeAt
<1>2. /\ cursor'[l] = 0 /\ batch'[l] = {} /\ hand'[l] = NoRow
      /\ got'[l] = {} /\ before'[l] = acked /\ acked' = acked
  BY <1>1 DEF IInv, TypeOK, Subscribe, SubscribeAt, table
<1>3. NoRow \notin acked
  BY RowIds DEF IInv
<1>4. QED
  BY <1>2, <1>3 DEF Sound, Addressed, Owned, InOrder, Unacked, AllThere

LEMMA PollSound ==
  ASSUME IInv, NEW l \in Listener, Poll(l)
  PROVE  Sound(l)'
<1> USE DEF IInv
<1>1. PICK last \in Unread(l) :
        /\ \A i \in Unread(l) : i <= last
        /\ cursor' = [cursor EXCEPT ![l] = last]
        /\ batch' = [batch EXCEPT ![l] = Unread(l)]
  BY DEF Poll
<1>2. cursor'[l] = last /\ batch'[l] = Unread(l) /\ batch[l] = {}
  BY <1>1 DEF TypeOK, Poll
<1>3. UNCHANGED <<rows, acked, linked, serving, polling, hand, got, before>>
  BY DEF Poll, table, ends, ghosts
<1>4. cursor[l] \in Nat /\ last \in Nat /\ cursor[l] < last
  BY UnreadIds, BoundAssumption DEF TypeOK, Message
<1>5. Addressed(l)'
  BY <1>2, <1>3, UnreadIds DEF Sound, Addressed
<1>6. Owned(l)'
  BY <1>3 DEF Sound, Owned
<1>7. InOrder(l)'
  <2>1. \A i \in Unread(l) : i \in Nat /\ cursor[l] < i
    BY UnreadIds, BoundAssumption DEF Message
  <2>2. \A j \in got[l] : j \in Nat /\ j <= cursor[l]
    BY BoundAssumption DEF TypeOK, Message, Sound, InOrder
  <2>3. hand[l] # NoRow => hand[l] \in Nat /\ hand[l] <= cursor[l]
    BY BoundAssumption DEF TypeOK, Message, Sound, InOrder
  <2>4. cursor[l] \in Nat /\ last \in Nat /\ cursor[l] < last
    BY <1>4
  <2>5. \A j \in got[l] : j <= last /\ \A i \in Unread(l) : j < i
    BY <2>1, <2>2, <2>4
  <2>6. hand[l] # NoRow => hand[l] <= last /\ \A i \in Unread(l) : hand[l] < i
    BY <2>1, <2>3, <2>4
  <2>7. QED
    BY <1>2, <1>3, <2>5, <2>6 DEF InOrder
<1>8. Unacked(l)'
  BY <1>2, <1>3, UnreadIds DEF Sound, Unacked
<1>9. AllThere(l)'
  <2>1. SUFFICES ASSUME l \in linked, l \in polling, NEW i \in 1 .. last, rows[i] = ListensFor[l]
                 PROVE  i \in acked \cup got[l] \cup Unread(l) \cup {hand[l]}
    BY <1>2, <1>3 DEF AllThere
  <2>2. CASE i <= cursor[l]
    <3>1. i \in 1 .. cursor[l]
      BY <1>4, <2>2
    <3>2. QED
      BY <1>2, <2>1, <3>1 DEF Sound, AllThere
  <2>3. CASE ~(i <= cursor[l])
    <3>1. i > cursor[l]
      BY <1>4, <2>3
    <3>2. last \in 1 .. Len(rows) /\ Len(rows) \in Nat /\ DOMAIN rows = 1 .. Len(rows)
      BY UnreadIds, RowIds
    <3>3. i \in DOMAIN rows
      BY <3>2
    <3>4. QED
      BY <2>1, <3>1, <3>3 DEF Unread
  <2>4. QED
    BY <2>2, <2>3
<1>10. QED
  BY <1>5, <1>6, <1>7, <1>8, <1>9 DEF Sound

LEMMA HandOverSound ==
  ASSUME IInv, NEW l \in Listener, HandOver(l)
  PROVE  Sound(l)'
<1> USE DEF IInv
<1>1. PICK i \in batch[l] :
        /\ \A j \in batch[l] : i <= j
        /\ batch' = [batch EXCEPT ![l] = @ \ {i}]
        /\ hand' = [hand EXCEPT ![l] = i]
  BY DEF HandOver
<1>2. batch'[l] = batch[l] \ {i} /\ hand'[l] = i /\ hand[l] = NoRow
  BY <1>1 DEF TypeOK, HandOver
<1>3. UNCHANGED <<rows, acked, linked, serving, polling, cursor, got, before>> /\ l \in serving
  BY DEF HandOver, table, ends, ghosts
<1>4. batch[l] \subseteq Nat
  BY BoundAssumption DEF TypeOK, Message
<1>5. Addressed(l)' /\ Owned(l)' /\ Unacked(l)'
  BY <1>2, <1>3 DEF Sound, Addressed, Owned, Unacked
<1>6. InOrder(l)'
  <2>1. \A j \in batch[l] \ {i} : i < j
    BY <1>1, <1>4
  <2>2. i <= cursor[l]
    BY DEF TypeOK
  <2>3. QED
    BY <1>2, <1>3, <2>1, <2>2 DEF Sound, InOrder
<1>7. AllThere(l)'
  BY <1>2, <1>3, NoRowAssumption DEF TypeOK, Sound, AllThere
<1>8. QED
  BY <1>5, <1>6, <1>7 DEF Sound

LEMMA WriteSound ==
  ASSUME IInv, NEW l \in Listener, Write(l)
  PROVE  Sound(l)'
<1> USE DEF IInv
<1>1. hand'[l] = NoRow /\ hand[l] # NoRow /\ hand[l] \in Message
  BY DEF Write, TypeOK
<1>2. UNCHANGED <<rows, acked, linked, polling, cursor, batch, before>>
  BY DEF Write, table
<1>3. NoRow \notin Message
  BY RowIds
<1>4. Addressed(l)' /\ Owned(l)'
  BY <1>1, <1>2 DEF Sound, Addressed, Owned
<1>5. CASE l \in linked
  <2>1. got'[l] = got[l] \cup {hand[l]}
    BY <1>5 DEF Write, TypeOK
  <2>2. InOrder(l)'
    BY <1>1, <1>2, <2>1 DEF Sound, InOrder
  <2>3. Unacked(l)'
    BY <1>1, <1>2, <1>3, <2>1 DEF TypeOK, Sound, Unacked
  <2>4. AllThere(l)'
    BY <1>1, <1>2, <2>1 DEF Sound, AllThere
  <2>5. QED
    BY <1>4, <2>2, <2>3, <2>4 DEF Sound
<1>6. CASE l \notin linked
  <2>1. UNCHANGED got
    BY <1>6 DEF Write
  <2>2. InOrder(l)' /\ AllThere(l)'
    BY <1>1, <1>2, <1>6, <2>1 DEF Sound, InOrder, AllThere
  <2>3. Unacked(l)'
    BY <1>1, <1>2, <1>3, <2>1 DEF TypeOK, Sound, Unacked
  <2>4. QED
    BY <1>4, <2>2, <2>3 DEF Sound
<1>7. QED
  BY <1>5, <1>6

(* The ends of a subscription, its request's, its backend's, its process's. *)
LEMMA EndSound ==
  ASSUME IInv, NEW l \in Listener,
         HandlerReturns(l) \/ PollerReturns(l) \/ Cut(l)
  PROVE  Sound(l)'
<1> USE DEF IInv
<1>1. CASE HandlerReturns(l)
  <2>1. /\ UNCHANGED <<rows, acked, polling, cursor, batch, hand, got, before>>
        /\ l \notin linked' /\ hand[l] = NoRow
    BY <1>1 DEF HandlerReturns, table, stream, ghosts
  <2>2. QED
    BY <2>1 DEF Sound, Addressed, Owned, InOrder, Unacked, AllThere
<1>2. CASE PollerReturns(l)
  <2>1. /\ UNCHANGED <<rows, acked, serving, cursor, hand, got, before>>
        /\ l \notin polling' /\ batch'[l] = {}
    BY <1>2 DEF PollerReturns, TypeOK, table, ghosts
  <2>2. QED
    BY <2>1 DEF Sound, Addressed, Owned, InOrder, Unacked, AllThere
<1>3. CASE Cut(l)
  <2>1. /\ UNCHANGED <<rows, acked, serving, polling, cursor, batch, hand, got, before>>
        /\ l \notin linked'
    BY <1>3 DEF Cut, table, stream, ghosts
  <2>2. QED
    BY <2>1 DEF Sound, Addressed, Owned, InOrder, Unacked, AllThere
<1>4. QED
  BY <1>1, <1>2, <1>3

LEMMA IInvStep == IInv /\ [Next]_vars => IInv'
<1> SUFFICES ASSUME IInv, [Next]_vars PROVE IInv'
  OBVIOUS
<1>1. TypeOK'
  BY TypeStep DEF IInv
<1>2. ASSUME NEW m \in Listener PROVE Sound(m)'
  <2>1. acked \subseteq acked' /\ \A i \in DOMAIN rows : i \in DOMAIN rows' /\ rows'[i] = rows[i]
    BY TableGrows DEF IInv
  <2>2. Sound(m)
    BY DEF IInv
  <2>3. ASSUME NEW l \in Listener, Subscribe(l) \/ Handle(l) \/ Cut(l) PROVE Sound(m)'
    <3>1. CASE m # l
      BY <2>2, <2>3, <3>1, OthersUntouched DEF IInv
    <3>2. CASE m = l
      BY <2>3, <3>2, SubscribeSound, PollSound, HandOverSound, WriteSound, EndSound DEF Handle
    <3>3. QED
      BY <3>1, <3>2
  <2>4. CASE Die
    <3>1. /\ cursor' = cursor /\ rows' = rows /\ acked' = acked /\ got' = got /\ before' = before
          /\ batch'[m] = {} /\ hand'[m] = NoRow /\ linked' = {}
      BY <2>4 DEF Die, table, ghosts
    <3>2. NoRow \notin before[m]
      BY RowIds DEF IInv, TypeOK
    <3>3. QED
      BY <2>2, <3>1, <3>2 DEF Sound, Addressed, Owned, InOrder, Unacked, AllThere
  <2>5. CASE UNCHANGED <<ends, stream, ghosts>>
    BY <2>1, <2>2, <2>5, Untouched DEF IInv, ends, stream, ghosts
  <2>6. QED
    BY <2>3, <2>4, <2>5 DEF Next, Emit, Ack, Close, Reopen, vars
<1>3. QED
  BY <1>1, <1>2 DEF IInv

LEMMA IInvHolds == Spec => []IInv
<1>1. Init => IInv
  BY TypeInit, SoundInit DEF IInv
<1>2. QED
  BY <1>1, IInvStep, PTL DEF Spec

-----------------------------------------------------------------------------
(* What it gives.                                                          *)

(* No poller moves past a message that is neither acknowledged nor         *)
(* received nor on its way (embedded.go:81-87).                            *)
THEOREM NothingIsSkipped == Spec => []NothingSkipped
<1>1. ASSUME IInv PROVE NothingSkipped
  <2>1. \A l \in Listener : AllThere(l)
    BY <1>1 DEF IInv, Sound
  <2>2. linked \subseteq Listener
    BY <1>1 DEF IInv, TypeOK
  <2>3. QED
    BY <2>1, <2>2 DEF AllThere, NothingSkipped
<1>2. QED
  BY <1>1, IInvHolds, PTL

(* A listener that comes back is not sent what was acknowledged before it  *)
(* did (sqlite_store.go:97-103).                                           *)
THEOREM NothingComesAgain == Spec => []NotAgain
<1>1. IInv => NotAgain
  BY DEF IInv, Sound, Unacked, NotAgain
<1>2. QED
  BY <1>1, IInvHolds, PTL

(* A subscription hands over its messages in the order they were stored,   *)
(* and each once (embedded.go:80-97).                                      *)
THEOREM HandsOverInOrder == Spec => InOrderOnce
<1> DEFINE Rises == \A l \in Listener :
                      hand'[l] \notin {hand[l], NoRow} => \A j \in got[l] : j < hand'[l]
<1>1. IInv /\ [Next]_vars => Rises
  <2> SUFFICES ASSUME IInv, [Next]_vars, NEW l \in Listener, hand'[l] # hand[l],
                      hand'[l] # NoRow, NEW j \in got[l]
               PROVE  j < hand'[l]
    OBVIOUS
  <2>1. HandOver(l)
    BY DEF IInv, TypeOK, Next, Emit, Ack, Handle, Subscribe, SubscribeAt, Poll, HandOver, Write,
       HandlerReturns, PollerReturns, Cut, Close, Die, Reopen, vars, stream
  <2>2. hand'[l] \in batch[l]
    BY <2>1 DEF HandOver, IInv, TypeOK
  <2>3. QED
    BY <2>2 DEF IInv, Sound, InOrder
<1>2. IInv /\ [Next]_vars => [Rises]_vars
  BY <1>1
<1> HIDE DEF Rises
<1>3. Spec => [][Rises]_vars
  BY <1>2, IInvHolds, PTL DEF Spec
<1>4. QED
  BY <1>3 DEF Rises, InOrderOnce

(* Every step of the queue is a step of the mailbox, or none: nothing      *)
(* emitted is lost, and only its recipient receives or acknowledges it     *)
(* (messaging.go:67-85).                                                   *)
THEOREM QueueIsSafeMailbox == Spec => Mail!Safe
<1> DEFINE To == [i \in Message |-> IF i \in DOMAIN rows THEN rows[i] ELSE NoRow]
<1>1. Init => Mail!Init
  BY DEF Init, Mail!Init
<1>2. IInv /\ [Next]_vars => [Mail!Next]_Mail!vars
  <2> SUFFICES ASSUME IInv, [Next]_vars PROVE [Mail!Next]_Mail!vars
    OBVIOUS
  <2> USE DEF IInv
  <2>1. ASSUME NEW w \in Worker, Emit(w) PROVE Mail!Next
    <3> DEFINE m == Len(rows) + 1
    <3>1. m \in Message /\ m \notin DOMAIN rows
      BY <2>1, RowIds, BoundAssumption DEF Emit, Message
    <3>2. /\ DOMAIN rows' = DOMAIN rows \cup {m}
          /\ rows'[m] = w
          /\ \A i \in DOMAIN rows : rows'[i] = rows[i]
      BY <2>1, RowIds DEF Emit, TypeOK
    <3> HIDE DEF m
    <3>3. To[m] = NoRow /\ To' = [To EXCEPT ![m] = w]
      BY <3>1, <3>2
    <3>4. received' = received /\ acked' = acked
      BY <2>1 DEF Emit, ghosts
    <3>5. Mail!Emit(m, w)
      BY <3>3, <3>4 DEF Mail!Emit
    <3>6. QED
      BY <3>1, <3>5 DEF Mail!Next
  <2>2. ASSUME NEW w \in Worker, NEW i \in DOMAIN rows, Ack(w, i) PROVE Mail!Next
    <3>1. Mail!Ack(i, w) /\ i \in Message
      BY <2>2, RowIds DEF Ack, Mail!Ack, ghosts
    <3>2. QED
      BY <3>1 DEF Mail!Next
  <2>3. ASSUME NEW l \in Listener, Write(l), l \in linked PROVE Mail!Next
    <3>1. hand[l] \in DOMAIN rows /\ rows[hand[l]] = ListensFor[l]
      BY <2>3 DEF Write, Sound, Addressed
    <3>2. hand[l] \in Message /\ ListensFor[l] \in Worker
      BY <3>1, RowIds, ListenerAssumption
    <3>3. /\ To[hand[l]] = ListensFor[l] /\ To' = To /\ acked' = acked
          /\ received' = received \cup {<<ListensFor[l], hand[l]>>}
      BY <2>3, <3>1, <3>2 DEF Write, table
    <3>4. Mail!Receive(hand[l], ListensFor[l])
      BY <3>3 DEF Mail!Receive
    <3>5. QED
      BY <3>2, <3>4 DEF Mail!Next
  <2>4. CASE UNCHANGED <<rows, acked, received>>
    BY <2>4 DEF Mail!vars
  <2>5. QED
    BY <2>1, <2>2, <2>3, <2>4
    DEF Next, Handle, Subscribe, SubscribeAt, Poll, HandOver, Write, HandlerReturns, PollerReturns,
        Cut, Close, Die, Reopen, vars, table, ghosts
<1>3. QED
  BY <1>1, <1>2, IInvHolds, PTL DEF Spec, Mail!Safe
-----------------------------------------------------------------------------
(* The event hub.  That there is one lasting poller is not inductive:      *)
(* which one it is has to be said, and that is the one whose cancel        *)
(* function the hub holds.  The hub holds none exactly while nobody is     *)
(* subscribed or the first is about to start it.  That every message is    *)
(* told of once needs that nothing is told of before it is stored, and     *)
(* that what was stored behind the watermark stays behind it; and what a   *)
(* poll returns is a recursive function, of which RecursionIs says that it *)
(* is what it says.                                                        *)

(* The sizes that the instances speak of are sizes. *)
LEMMA SameSizes ==
  \A S : Hub!Cardinality(S) = Cardinality(S) /\ Webhook!Cardinality(S) = Cardinality(S)
BY DEF Hub!Cardinality, Webhook!Cardinality, Cardinality

(* Induction over data goes by the least counterexample: the induction     *)
(* theorems of the library take a predicate, this one a set.               *)
LEMMA LeastNatural ==
  ASSUME NEW S \in SUBSET Nat, S # {}
  PROVE  \E n \in S : \A m \in S : n <= m
<1> DEFINE R == OpToRel(<, Nat)
<1>1. PICK n \in S : \A m \in S : ~ (<<m, n>> \in R) BY NatLessThanWellFounded, WFMin
<1>2. ASSUME NEW m \in S PROVE n <= m
  <2>1. <<m, n>> \in Nat \X Nat /\ <<m, n>>[1] = m /\ <<m, n>>[2] = n OBVIOUS
  <2>2. m < n => <<m, n>> \in R BY <2>1 DEF OpToRel
  <2>3. ~ (m < n) BY <1>1, <2>2
  <2>4. m \in Nat /\ n \in Nat OBVIOUS
  <2> HIDE DEF R
  <2> QED BY <2>3, <2>4
<1> QED BY <1>2

(* So finitely many numbers have a bound, and one of them is the largest.  *)
LEMMA Bounded ==
  ASSUME NEW n \in Nat, NEW f \in [1 .. n -> Nat]
  PROVE  \E b \in Nat : \A i \in 1 .. n : f[i] <= b
<1> DEFINE Under(b, k) == \A i \in 1 .. k : f[i] <= b
           Bad == {k \in 0 .. n : ~ \E b \in Nat : Under(b, k)}
<1>1. Bad = {}
  <2> SUFFICES ASSUME Bad # {} PROVE FALSE OBVIOUS
  <2>1. Bad \in SUBSET Nat OBVIOUS
  <2>2. PICK k \in Bad : \A l \in Bad : k <= l
    <3> HIDE DEF Bad
    <3> QED BY <2>1, LeastNatural
  <2>3. k \in 0 .. n /\ ~ \E b \in Nat : Under(b, k) BY <2>2
  <2>4. k # 0
    <3>1. Under(0, 0) OBVIOUS
    <3> QED BY <2>3, <3>1
  <2>5. k - 1 \in 0 .. n /\ k \in 1 .. n /\ ~ k <= k - 1 BY <2>3, <2>4
  <2>6. k - 1 \notin Bad
    <3> HIDE DEF Bad
    <3> QED BY <2>2, <2>5
  <2>7. PICK b \in Nat : Under(b, k - 1) BY <2>5, <2>6
  <2>8. PICK c \in Nat : b <= c /\ f[k] <= c
    <3>1. f[k] \in Nat BY <2>5
    <3>2. CASE b <= f[k]
      <4>1. f[k] <= f[k] BY <3>1
      <4> QED BY <3>1, <3>2, <4>1
    <3>3. CASE ~ b <= f[k]
      <4>1. b \in Nat /\ b <= b /\ f[k] <= b BY <3>1, <3>3
      <4> QED BY <4>1
    <3> QED BY <3>2, <3>3
  <2>9. Under(c, k)
    <3> TAKE i \in 1 .. k
    <3>1. i \in 1 .. n /\ f[i] \in Nat
      <4>1. i \in 1 .. n BY <2>5
      <4> QED BY <4>1
    <3>2. CASE i = k BY <2>8, <3>2
    <3>3. CASE i # k
      <4>1. i \in 1 .. k - 1 BY <2>5, <3>3
      <4>2. f[i] <= b BY <4>1, <2>7
      <4> QED BY <2>8, <3>1, <4>2
    <3> QED BY <3>2, <3>3
  <2> QED BY <2>3, <2>9
<1>2. n \in 0 .. n OBVIOUS
<1> QED BY <1>1, <1>2

LEMMA Largest ==
  ASSUME NEW S \in SUBSET Nat, S # {}, NEW b \in Nat, \A x \in S : x <= b
  PROVE  \E x \in S : \A y \in S : y <= x
<1> DEFINE B == {c \in Nat : \A x \in S : x <= c}
<1>1. PICK c \in B : \A d \in B : c <= d
  <2>1. b \in B /\ B \in SUBSET Nat OBVIOUS
  <2> HIDE DEF B
  <2> QED BY <2>1, LeastNatural
<1>2. c \in S
  <2> SUFFICES ASSUME c \notin S PROVE FALSE OBVIOUS
  <2>1. \A x \in S : x <= c - 1
    <3>1. \A x \in S : x \in Nat /\ x <= c /\ x # c BY <1>1
    <3>2. c \in Nat BY <1>1
    <3> QED BY <3>1, <3>2
  <2>2. c # 0
    <3>1. PICK x \in S : x <= c - 1 BY <2>1
    <3>2. x \in Nat /\ c \in Nat BY <1>1
    <3> QED BY <3>1, <3>2
  <2>3. c - 1 \in B BY <1>1, <2>1, <2>2
  <2>4. c \in Nat /\ c <= c - 1
    <3>1. c \in Nat BY <1>1
    <3> HIDE DEF B
    <3> QED BY <1>1, <2>3, <3>1
  <2> QED BY <2>4
<1> QED BY <1>1, <1>2

(* A function of 0 .. n that begins as z and goes on as F has it. *)
GoesOn(g, n, S, z, F) ==
  /\ g \in [0 .. n -> S]
  /\ g[0] = z
  /\ \A i \in 1 .. n : g[i] = F[i][g[i - 1]]

(* There is one: what a recursive function needs to be what it says. *)
LEMMA RecursionIs ==
  ASSUME NEW N \in Nat, NEW S, NEW z \in S, NEW F \in [1 .. N -> [S -> S]]
  PROVE  \E g : GoesOn(g, N, S, z, F)
<1> DEFINE Good(g, n) == \A i \in 0 .. n : g[i] = IF i = 0 THEN z ELSE F[i][g[i - 1]]
           Bad == {n \in 0 .. N : ~ \E g \in [0 .. n -> S] : Good(g, n)}
<1>1. Bad = {}
  <2> SUFFICES ASSUME Bad # {} PROVE FALSE OBVIOUS
  <2>1. PICK n \in Bad : \A m \in Bad : n <= m
    <3>1. Bad \in SUBSET Nat OBVIOUS
    <3> HIDE DEF Bad
    <3> QED BY <3>1, LeastNatural
  <2>0. n \in 0 .. N /\ ~ \E g \in [0 .. n -> S] : Good(g, n) BY <2>1
  <2>2. n # 0
    <3>1. [i \in 0 .. 0 |-> z] \in [0 .. 0 -> S] /\ Good([i \in 0 .. 0 |-> z], 0) OBVIOUS
    <3> QED BY <3>1, <2>0
  <2>3. n - 1 \in 0 .. N /\ n - 1 \notin Bad
    <3>1. n - 1 \in 0 .. N /\ ~ n <= n - 1 BY <2>0, <2>2
    <3> HIDE DEF Bad
    <3> QED BY <3>1, <2>1
  <2>4. PICK g \in [0 .. (n - 1) -> S] : Good(g, n - 1) BY <2>3
  <2> DEFINE h == [i \in 0 .. n |-> IF i = n THEN F[n][g[n - 1]] ELSE g[i]]
  <2>5. h \in [0 .. n -> S]
    <3>1. F[n] \in [S -> S] /\ g[n - 1] \in S BY <2>0, <2>2
    <3> QED BY <3>1, <2>0
  <2>6. Good(h, n)
    <3> TAKE i \in 0 .. n
    <3>1. CASE i = n BY <3>1, <2>0, <2>2
    <3>2. CASE i # n
      <4>1. i \in 0 .. (n - 1) /\ h[i] = g[i] BY <3>2, <2>0
      <4>2. i # 0 => i - 1 \in 0 .. (n - 1) /\ h[i - 1] = g[i - 1] BY <3>2, <2>0
      <4> QED BY <4>1, <4>2, <2>4
    <3> QED BY <3>1, <3>2
  <2> QED BY <2>0, <2>5, <2>6
<1>2. PICK g \in [0 .. N -> S] : Good(g, N) BY <1>1
<1>3. GoesOn(g, N, S, z, F) BY <1>2 DEF GoesOn
<1> QED BY <1>3

(* Single is what its definition says. *)
LEMMA SingleIs ==
  ASSUME stored \in Seq(Envelope)
  PROVE  /\ Hub!Single \in [0 .. Len(stored) -> Seq(SUBSET Envelope)]
         /\ Hub!Single[0] = << >>
         /\ \A n \in 1 .. Len(stored) :
              Hub!Single[n] = IF Hub!IsTold(Hub!NewestFirst[n])
                THEN Append(Hub!Single[n - 1], {Hub!NewestFirst[n]})
                                                    ELSE Hub!Single[n - 1]
<1> DEFINE N == Len(stored)
           S == Seq(SUBSET Envelope)
           F == [i \in 1 .. N |-> [s \in S |-> IF Hub!IsTold(Hub!NewestFirst[i])
                                              THEN Append(s, {Hub!NewestFirst[i]}) ELSE s]]
           Step(g) == [n \in 0 .. N |->
                         IF n = 0 THEN << >>
                         ELSE IF Hub!IsTold(Hub!NewestFirst[n])
                           THEN Append(g[n - 1], {Hub!NewestFirst[n]})
                                                        ELSE g[n - 1]]
<1>1. N \in Nat BY LenProperties
<1>2. \A i \in 1 .. N : Hub!NewestFirst[i] \in Envelope
  <2> SUFFICES ASSUME NEW i \in 1 .. N PROVE Hub!NewestFirst[i] \in Envelope OBVIOUS
  <2>1. DOMAIN stored = 1 .. N BY LenProperties
  <2>2. N + 1 - i \in 1 .. N BY <1>1
  <2>3. stored[N + 1 - i] \in Envelope BY <2>2, ElementOfSeq
  <2> QED BY <2>1, <2>3 DEF Hub!NewestFirst
<1>3. << >> \in S OBVIOUS
<1>4. F \in [1 .. N -> [S -> S]]
  <2> SUFFICES ASSUME NEW i \in 1 .. N, NEW s \in S
               PROVE (IF Hub!IsTold(Hub!NewestFirst[i])
                 THEN Append(s, {Hub!NewestFirst[i]}) ELSE s) \in S
    OBVIOUS
  <2>1. {Hub!NewestFirst[i]} \in SUBSET Envelope BY <1>2
  <2> QED BY <2>1, AppendProperties
<1>5. PICK g : GoesOn(g, N, S, << >>, F)
  <2> HIDE DEF S, F, N
  <2> QED BY <1>1, <1>3, <1>4, RecursionIs
<1>6. g = Step(g)
  <2>1. \A i \in 0 .. N : i # 0 => F[i][g[i - 1]] =
                 IF Hub!IsTold(Hub!NewestFirst[i])
                   THEN Append(g[i - 1], {Hub!NewestFirst[i]}) ELSE g[i - 1]
    <3> TAKE i \in 0 .. N
    <3>1. i # 0 => i \in 1 .. N /\ g[i - 1] \in S BY <1>1, <1>5 DEF GoesOn
    <3> QED BY <3>1
  <2> HIDE DEF F
  <2>2. ASSUME NEW i \in 0 .. N PROVE g[i] = Step(g)[i]
    <3>1. CASE i = 0 BY <3>1, <1>5 DEF GoesOn
    <3>2. CASE i # 0
      <4>1. i \in 1 .. N BY <3>2, <1>1
      <4>2. g[i] = F[i][g[i - 1]] BY <4>1, <1>5 DEF GoesOn
      <4> QED BY <2>1, <3>2, <4>2
    <3> QED BY <3>1, <3>2
  <2>3. g \in [0 .. N -> S] BY <1>5 DEF GoesOn
  <2> HIDE DEF S, N
  <2> QED BY <2>2, <2>3
<1>7. Hub!Single = Step(Hub!Single)
  <2>1. Hub!Single = CHOOSE f : f = Step(f) BY DEF Hub!Single
  <2>2. \E f : f = Step(f) BY <1>6
  <2> HIDE DEF Step
  <2> QED BY <2>1, <2>2
<1>8. Hub!Single[0] = << >>
  <2>1. Step(Hub!Single)[0] = << >> BY <1>1
  <2> HIDE DEF Step
  <2> QED BY <2>1, <1>7
<1>9. ASSUME NEW n \in 1 .. N
      PROVE  Hub!Single[n] = IF Hub!IsTold(Hub!NewestFirst[n])
        THEN Append(Hub!Single[n - 1], {Hub!NewestFirst[n]})
                                                   ELSE Hub!Single[n - 1]
  <2>1. n \in 0 .. N /\ n # 0 BY <1>1
  <2>2. Step(Hub!Single)[n] = IF Hub!IsTold(Hub!NewestFirst[n])
          THEN Append(Hub!Single[n - 1], {Hub!NewestFirst[n]})
                                                    ELSE Hub!Single[n - 1]
    BY <2>1
  <2> HIDE DEF Step
  <2> QED BY <2>2, <1>7
<1>10. Hub!Single \in [0 .. N -> S]
  <2> DEFINE Bad == {n \in 0 .. N : Hub!Single[n] \notin S}
  <2>1. Bad = {}
    <3> SUFFICES ASSUME Bad # {} PROVE FALSE OBVIOUS
    <3>1. Bad \in SUBSET Nat BY <1>1
    <3>2. PICK n \in Bad : \A m \in Bad : n <= m
      <4> HIDE DEF Bad
      <4> QED BY <3>1, LeastNatural
    <3>3. n \in 0 .. N /\ Hub!Single[n] \notin S BY <3>2
    <3>9. n \in 1 .. N
      <4>1. n # 0 BY <3>3, <1>3, <1>8
      <4> QED BY <4>1, <3>3, <1>1
    <3>4. Hub!Single[n - 1] \in S BY <1>1, <3>2, <3>9
    <3>5. {Hub!NewestFirst[n]} \in SUBSET Envelope BY <1>2, <3>9
    <3>6. Append(Hub!Single[n - 1], {Hub!NewestFirst[n]}) \in S BY <3>4, <3>5, AppendProperties
    <3> QED BY <1>9, <3>3, <3>4, <3>6, <3>9
  <2> QED BY <2>1, <1>7
<1> QED BY <1>8, <1>9, <1>10

(* What a sequence of events tells of. *)
ToldBy(evs) == {m \in Envelope : \E i \in 1 .. Len(evs) : m \in evs[i]}

LEMMA ToldByAppend ==
  ASSUME NEW evs \in Seq(SUBSET Envelope), NEW e \in SUBSET Envelope
  PROVE  ToldBy(Append(evs, e)) = ToldBy(evs) \cup e
<1>1. /\ Len(Append(evs, e)) = Len(evs) + 1 /\ Len(evs) \in Nat
      /\ \A i \in 1 .. Len(evs) : Append(evs, e)[i] = evs[i]
      /\ Append(evs, e)[Len(evs) + 1] = e
  BY AppendProperties, LenProperties
<1>2. \A i \in 1 .. Len(evs) + 1 : i \in 1 .. Len(evs) \/ i = Len(evs) + 1 BY <1>1
<1>3. Len(evs) + 1 \in 1 .. Len(evs) + 1 /\ \A i \in 1 .. Len(evs) : i \in 1 .. Len(evs) + 1
  BY <1>1
<1> QED BY <1>1, <1>2, <1>3 DEF ToldBy

(* The loop over the rows tells of those that are new and neither counted  *)
(* nor left out.                                                           *)
LEMMA SingleTells ==
  ASSUME stored \in Seq(Envelope), NEW n \in 0 .. Len(stored)
  PROVE  ToldBy(Hub!Single[n]) = {m \in Envelope : Hub!IsTold(m)
    /\ \E j \in 1 .. n : Hub!NewestFirst[j] = m}
<1> DEFINE Right(k) == ToldBy(Hub!Single[k]) =
             {m \in Envelope : Hub!IsTold(m) /\ \E j \in 1 .. k : Hub!NewestFirst[j] = m}
           Bad == {k \in 0 .. Len(stored) : ~ Right(k)}
<1>0. Len(stored) \in Nat BY LenProperties
<1>1. Bad = {}
  <2> SUFFICES ASSUME Bad # {} PROVE FALSE OBVIOUS
  <2>1. Bad \in SUBSET Nat BY <1>0
  <2>2. PICK k \in Bad : \A l \in Bad : k <= l
    <3> HIDE DEF Bad
    <3> QED BY <2>1, LeastNatural
  <2>3. k \in 0 .. Len(stored) /\ ~ Right(k) BY <2>2
  <2>4. k # 0
    <3>1. ToldBy(<< >>) = {} BY DEF ToldBy
    <3>2. Right(0) BY <3>1, SingleIs
    <3> QED BY <2>3, <3>2
  <2>5. k - 1 \in 0 .. Len(stored) /\ k \in 1 .. Len(stored) /\ ~ k <= k - 1
    BY <1>0, <2>3, <2>4
  <2>6. Right(k - 1)
    <3>1. k - 1 \notin Bad
      <4> HIDE DEF Bad
      <4> QED BY <2>2, <2>5
    <3> QED BY <2>5, <3>1
  <2>7. Hub!NewestFirst[k] \in Envelope
    <3>1. DOMAIN stored = 1 .. Len(stored) BY LenProperties
    <3>2. Len(stored) + 1 - k \in 1 .. Len(stored) BY <1>0, <2>5
    <3> QED BY <2>5, <3>1, <3>2, ElementOfSeq DEF Hub!NewestFirst
  <2>8. \A j \in 1 .. k : j \in 1 .. k - 1 \/ j = k BY <2>5
  <2>9. k \in 1 .. k /\ \A j \in 1 .. k - 1 : j \in 1 .. k BY <2>5
  <2>10. /\ Hub!Single[k - 1] \in Seq(SUBSET Envelope)
         /\ Hub!Single[k] = IF Hub!IsTold(Hub!NewestFirst[k])
              THEN Append(Hub!Single[k - 1], {Hub!NewestFirst[k]})
                                                  ELSE Hub!Single[k - 1]
    BY <2>5, SingleIs
  <2>11. CASE Hub!IsTold(Hub!NewestFirst[k])
    <3>1. ToldBy(Hub!Single[k]) = ToldBy(Hub!Single[k - 1]) \cup {Hub!NewestFirst[k]}
      BY <2>7, <2>10, <2>11, ToldByAppend
    <3> QED BY <2>3, <2>6, <2>7, <2>8, <2>9, <2>11, <3>1
  <2>12. CASE ~ Hub!IsTold(Hub!NewestFirst[k])
    <3>1. ToldBy(Hub!Single[k]) = ToldBy(Hub!Single[k - 1]) BY <2>10, <2>12
    <3> QED BY <2>3, <2>6, <2>8, <2>9, <2>12, <3>1
  <2> QED BY <2>11, <2>12
<1> QED BY <1>1

(* events.go, pollMessagesLocked: a batch tells of every row that is new,  *)
(* as an event of its own or in a count, but for the announcements of      *)
(* updates; and of nothing else.                                           *)
THEOREM BatchTells ==
  ASSUME stored \in Seq(Envelope)
  PROVE  /\ Hub!Batch \in Seq(SUBSET Envelope)
         /\ ToldBy(Hub!Batch) = {m \in {stored[i] : i \in DOMAIN stored} : Hub!IsNew(m)} \ Quiet
<1> DEFINE N == Len(stored)
           news_ == {m \in {stored[i] : i \in DOMAIN stored} : Hub!IsNew(m)}
           counted == {m \in Status \ Quiet : Hub!IsNew(m)
             /\ \E i \in DOMAIN stored : stored[i] = m}
<1> SUFFICES Hub!Batch \in Seq(SUBSET Envelope) /\ ToldBy(Hub!Batch) = news_ \ Quiet OBVIOUS
<1>0. N \in Nat /\ DOMAIN stored = 1 .. N /\ \A i \in 1 .. N : stored[i] \in Envelope
  BY LenProperties, ElementOfSeq
<1>1. counted \in SUBSET Envelope /\ news_ \in SUBSET Envelope BY <1>0
<1>2. N \in 0 .. N /\ Hub!Single[N] \in Seq(SUBSET Envelope)
  <2>1. N \in 0 .. N BY <1>0
  <2> QED BY <2>1, SingleIs
<1>3. \A m : (\E j \in 1 .. N : Hub!NewestFirst[j] = m) <=> \E i \in 1 .. N : stored[i] = m
  <2> TAKE m
  <2>1. ASSUME NEW j \in 1 .. N PROVE N + 1 - j \in 1 .. N
                 /\ Hub!NewestFirst[j] = stored[N + 1 - j]
    BY <1>0 DEF Hub!NewestFirst
  <2>2. ASSUME NEW i \in 1 .. N PROVE \E j \in 1 .. N : Hub!NewestFirst[j] = stored[i]
    <3>1. N + 1 - i \in 1 .. N /\ N + 1 - (N + 1 - i) = i BY <1>0
    <3> HIDE DEF N
    <3> QED BY <2>1, <3>1
  <2> HIDE DEF N
  <2> QED BY <2>1, <2>2
<1>4. ToldBy(Hub!Single[N]) = {m \in news_ : m \notin Status \cup Quiet}
  <2>1. ToldBy(Hub!Single[N]) = {m \in Envelope : Hub!IsTold(m)
          /\ \E j \in 1 .. N : Hub!NewestFirst[j] = m}
    BY <1>2, SingleTells
  <2> HIDE DEF N
  <2> QED BY <1>0, <1>3, <2>1 DEF Hub!IsTold
<1>5. CASE counted = {}
  <2>1. Hub!Batch = Hub!Single[N] BY <1>2, <1>5, ConcatEmptySeq DEF Hub!Batch
  <2>2. \A m \in news_ : m \notin Status \ Quiet BY <1>5
  <2> HIDE DEF counted, news_, N
  <2> QED BY <1>2, <1>4, <2>1, <2>2
<1>6. CASE counted # {}
  <2>1. Hub!Batch = Hub!Single[N] \o <<counted>> BY <1>6 DEF Hub!Batch
  <2>2. Hub!Batch = Append(Hub!Single[N], counted)
    <3> HIDE DEF counted, N
    <3> QED BY <1>1, <1>2, <2>1, AppendIsConcat
  <2>3. ToldBy(Hub!Batch) = ToldBy(Hub!Single[N]) \cup counted
          /\ Hub!Batch \in Seq(SUBSET Envelope)
    <3> HIDE DEF counted, N
    <3> QED BY <1>1, <1>2, <2>2, ToldByAppend, AppendProperties
  <2>4. counted = {m \in news_ : m \in Status /\ m \notin Quiet} OBVIOUS
  <2> HIDE DEF counted, news_, N
  <2> QED BY <1>4, <2>3, <2>4
<1> QED BY <1>5, <1>6

-----------------------------------------------------------------------------
ViewerPlace == {"out", "starting", "streaming", "leaving", "waiting", "blocked"}

(* The part of the type that the pollers depend on. *)
PollTypes ==
  /\ hubSubs \subseteq Viewer
  /\ viewerAt \in [Viewer -> ViewerPlace]
  /\ started \in 0 .. MaxPollers
  /\ cancelPoll \in 0 .. started
  /\ pollStopped \in 0 .. started
  /\ stop \in [Viewer -> 0 .. started]
  /\ cancelled \subseteq 0 .. started
  /\ running \subseteq 1 .. started

StartingViewer(v) == v \in Viewer /\ viewerAt[v] = "starting"

(* What the hub's lock protects, and what it means for the pollers. *)
SubscribersAre == hubSubs = {v \in Viewer : viewerAt[v] \in {"starting", "streaming"}}
OneStarts      == \A v, w \in Viewer : StartingViewer(v) /\ StartingViewer(w) => v = w
RoomToStart    == (\E v \in Viewer : StartingViewer(v)) => started < MaxPollers
HoldsCancel    == cancelPoll = Hub!NoPoller <=> (hubSubs = {}
  \/ \E v \in Viewer : StartingViewer(v))
HeldIsLasting  == \A p \in Hub!Poller : Hub!Lasting(p) <=> p = cancelPoll

PollersInv == PollTypes /\ SubscribersAre /\ OneStarts /\ RoomToStart /\ HoldsCancel
  /\ HeldIsLasting

(* What neither the steps of viewers that only write nor those of messages *)
(* touch.                                                                  *)
seen == <<hubSubs, viewerAt, started, cancelPoll, pollStopped, stop, cancelled, running>>

-----------------------------------------------------------------------------

(* It begins so. *)
LEMMA PollersInit == ASSUME HubConstants, Hub!Init PROVE PollersInv
<1>1. PollTypes BY DEF Hub!Init, PollTypes, HubConstants, ViewerPlace, Hub!NoPoller
<1>2. SubscribersAre /\ OneStarts /\ RoomToStart /\ HoldsCancel
  BY DEF Hub!Init, SubscribersAre, OneStarts, RoomToStart, HoldsCancel, StartingViewer
<1>3. HeldIsLasting BY DEF Hub!Init, HeldIsLasting, Hub!Lasting, Hub!Poller, Hub!NoPoller
<1> QED BY <1>1, <1>2, <1>3 DEF PollersInv

(* Steps that leave the hub and its pollers alone. *)
LEMMA NothingSeen == ASSUME PollersInv, UNCHANGED seen PROVE PollersInv'
<1>1. PollTypes' BY DEF PollersInv, PollTypes, seen
<1>2. SubscribersAre' /\ OneStarts' /\ RoomToStart' /\ HoldsCancel'
  BY DEF PollersInv, SubscribersAre, OneStarts, RoomToStart, HoldsCancel, StartingViewer, seen
<1>3. HeldIsLasting' BY DEF PollersInv, HeldIsLasting, Hub!Lasting, seen
<1> QED BY <1>1, <1>2, <1>3 DEF PollersInv

(* The first subscriber, and nobody else, is to start a poller. *)
LEMMA SubscribeStep ==
  ASSUME HubConstants, PollersInv, NEW v \in Viewer, Hub!Subscribe(v)
  PROVE  PollersInv'
<1> USE DEF PollersInv
<1>1. viewerAt[v] = "out" /\ v \notin hubSubs BY DEF Hub!Subscribe, SubscribersAre
<1>2. Cardinality(hubSubs') = 1 <=> hubSubs = {}
  <2>1. IsFiniteSet(hubSubs) BY FS_Subset DEF HubConstants, PollTypes
  <2>2. Cardinality(hubSubs') = Cardinality(hubSubs) + 1 /\ Cardinality(hubSubs) \in Nat
    BY <1>1, <2>1, FS_AddElement, FS_CardinalityType DEF Hub!Subscribe
  <2>3. Cardinality(hubSubs) = 0 <=> hubSubs = {} BY <2>1, FS_EmptySet
  <2> QED BY <2>2, <2>3
<1>3. viewerAt' = [viewerAt EXCEPT ![v] = IF hubSubs = {} THEN "starting" ELSE "streaming"]
  BY <1>2, SameSizes DEF Hub!Subscribe
<1>4. UNCHANGED Hub!poll BY DEF Hub!Subscribe
<1>5. PollTypes' BY <1>3, <1>4 DEF Hub!Subscribe, PollTypes, ViewerPlace, Hub!poll
<1>6. SubscribersAre' BY <1>3 DEF Hub!Subscribe, SubscribersAre, PollTypes
<1>7. hubSubs = {} => \A w \in Viewer : ~ StartingViewer(w) BY DEF SubscribersAre, StartingViewer
<1>8. OneStarts' BY <1>3, <1>7 DEF OneStarts, StartingViewer, PollTypes
<1>9. RoomToStart' BY <1>3, <1>4, <1>7 DEF Hub!Subscribe, RoomToStart, StartingViewer, PollTypes,
    Hub!poll
<1>10. HoldsCancel'
  <2>1. hubSubs' # {} /\ cancelPoll' = cancelPoll BY <1>4 DEF Hub!Subscribe, Hub!poll
  <2>2. CASE hubSubs = {}
    <3>1. StartingViewer(v)' BY <2>2, <1>3 DEF StartingViewer, PollTypes
    <3> QED BY <2>1, <2>2, <3>1 DEF HoldsCancel
  <2>3. CASE hubSubs # {}
    <3>1. \A w \in Viewer : StartingViewer(w)' <=> StartingViewer(w)
      BY <2>3, <1>1, <1>3 DEF StartingViewer, PollTypes
    <3> QED BY <2>1, <2>3, <3>1 DEF HoldsCancel
  <2> QED BY <2>2, <2>3
<1>11. HeldIsLasting'
  <2>1. \A w \in Viewer : viewerAt'[w] = "leaving" <=> viewerAt[w] = "leaving"
    BY <1>1, <1>3 DEF PollTypes
  <2> QED BY <2>1, <1>4 DEF HeldIsLasting, Hub!Lasting, Hub!poll
<1> QED BY <1>5, <1>6, <1>8, <1>9, <1>10, <1>11

(* The new poller is the one the hub can cancel, and nobody has. *)
LEMMA StartPollStep ==
  ASSUME HubConstants, PollersInv, NEW v \in Viewer, Hub!StartPoll(v)
  PROVE  PollersInv'
<1> USE DEF PollersInv
<1>1. StartingViewer(v) /\ cancelPoll = Hub!NoPoller BY DEF Hub!StartPoll, StartingViewer,
    HoldsCancel
<1>2. started < MaxPollers /\ started \in Nat /\ started' = started + 1
  BY <1>1 DEF RoomToStart, PollTypes, Hub!StartPoll
<1>3. viewerAt' = [viewerAt EXCEPT ![v] = "streaming"] /\ hubSubs' = hubSubs BY DEF Hub!StartPoll
<1>4. PollTypes'
  <2>1. hubSubs' \subseteq Viewer /\ viewerAt' \in [Viewer -> ViewerPlace] BY <1>3 DEF PollTypes,
      ViewerPlace
  <2>2. started' \in 0 .. MaxPollers BY <1>2 DEF HubConstants
  <2>3. cancelPoll' \in 0 .. started' /\ pollStopped' \in 0 .. started'
    BY <1>2 DEF Hub!StartPoll
  <2>4. stop' \in [Viewer -> 0 .. started'] BY <1>2 DEF Hub!StartPoll, PollTypes
  <2>5. cancelled' \subseteq 0 .. started' /\ running' \subseteq 1 .. started'
    BY <1>2 DEF Hub!StartPoll, PollTypes
  <2> QED BY <2>1, <2>2, <2>3, <2>4, <2>5 DEF PollTypes
<1>5. SubscribersAre' BY <1>1, <1>3 DEF SubscribersAre, StartingViewer, PollTypes
<1>6. \A w \in Viewer : ~ StartingViewer(w)' BY <1>1, <1>3 DEF OneStarts, StartingViewer, PollTypes
<1>7. OneStarts' /\ RoomToStart' BY <1>6 DEF OneStarts, RoomToStart
<1>8. HoldsCancel'
  <2>1. cancelPoll' # Hub!NoPoller BY <1>2 DEF Hub!StartPoll, Hub!NoPoller
  <2>2. hubSubs' # {} BY <1>1, <1>3 DEF SubscribersAre, StartingViewer
  <2> QED BY <2>1, <2>2, <1>6 DEF HoldsCancel
<1>9. HeldIsLasting'
  <2>0. PICK n \in Nat : n = started + 1 BY <1>2
  <2>1. cancelPoll' = n /\ n \notin cancelled' /\ n \in running'
    BY <1>2, <2>0 DEF Hub!StartPoll, PollTypes
  <2>2. \A w \in Viewer : viewerAt'[w] = "leaving" => stop'[w] # n
    BY <1>2, <2>0 DEF Hub!StartPoll, PollTypes
  <2>3. Hub!Lasting(n)' BY <2>1, <2>2 DEF Hub!Lasting
  <2>4. ASSUME NEW p \in Hub!Poller, p # n PROVE ~ Hub!Lasting(p)'
    <3>1. ~ Hub!Lasting(p) BY <1>1 DEF HeldIsLasting, Hub!Poller, Hub!NoPoller
    <3>2. \A w \in Viewer : viewerAt'[w] = "leaving" <=> viewerAt[w] = "leaving"
      BY <1>1, <1>3 DEF StartingViewer, PollTypes
    <3>3. p \in running' \ cancelled' <=> p \in running \ cancelled
      BY <1>2, <2>0, <2>4 DEF Hub!StartPoll
    <3>4. stop' = stop BY DEF Hub!StartPoll
    <3> QED BY <3>1, <3>2, <3>3, <3>4 DEF Hub!Lasting
  <2> QED BY <2>1, <2>3, <2>4 DEF HeldIsLasting
<1> QED BY <1>4, <1>5, <1>7, <1>8, <1>9

(* Whoever leaves last takes the cancel function along. *)
LEMMA UnsubscribeStep ==
  ASSUME HubConstants, PollersInv, NEW v \in Viewer, Hub!Unsubscribe(v)
  PROVE  PollersInv'
<1> USE DEF PollersInv
<1>1. viewerAt[v] = "streaming" /\ v \in hubSubs /\ hubSubs' = hubSubs \ {v}
  BY DEF Hub!Unsubscribe, Hub!LeaveWhen, SubscribersAre
<1>2. UNCHANGED <<started, pollStopped, cancelled, running>>
  BY DEF Hub!Unsubscribe, Hub!LeaveWhen
<1>3. CASE hubSubs = {v} /\ cancelPoll # Hub!NoPoller
  <2>1. /\ stop' = [stop EXCEPT ![v] = cancelPoll]
        /\ cancelPoll' = Hub!NoPoller
        /\ viewerAt' = [viewerAt EXCEPT ![v] = "leaving"]
    BY <1>3 DEF Hub!Unsubscribe, Hub!LeaveWhen
  <2>2. PollTypes' BY <1>1, <1>2, <2>1 DEF PollTypes, ViewerPlace, Hub!NoPoller
  <2>3. SubscribersAre' BY <1>1, <2>1 DEF SubscribersAre, PollTypes
  <2>4. \A w \in Viewer : ~ StartingViewer(w)' BY <1>3, <1>1, <2>1 DEF SubscribersAre,
      StartingViewer, PollTypes
  <2>5. OneStarts' /\ RoomToStart' /\ HoldsCancel'
    BY <1>1, <1>3, <2>1, <2>4 DEF OneStarts, RoomToStart, HoldsCancel
  <2>6. ASSUME NEW p \in Hub!Poller PROVE ~ Hub!Lasting(p)'
    <3>1. CASE p = cancelPoll
      BY <3>1, <2>1 DEF Hub!Lasting, PollTypes
    <3>2. CASE p # cancelPoll
      <4>1. ~ Hub!Lasting(p) BY <3>2 DEF HeldIsLasting
      <4>2. ASSUME NEW w \in Viewer, viewerAt[w] = "leaving", stop[w] = p
            PROVE viewerAt'[w] = "leaving" /\ stop'[w] = p
        BY <4>2, <1>1, <2>1 DEF PollTypes
      <4> QED BY <4>1, <4>2, <1>2 DEF Hub!Lasting
    <3> QED BY <3>1, <3>2
  <2>7. HeldIsLasting' BY <2>1, <2>6 DEF HeldIsLasting, Hub!Poller, Hub!NoPoller
  <2> QED BY <2>2, <2>3, <2>5, <2>7
<1>4. CASE ~ (hubSubs = {v} /\ cancelPoll # Hub!NoPoller)
  <2>1. /\ UNCHANGED <<stop, cancelPoll>>
        /\ viewerAt' = [viewerAt EXCEPT ![v] = "out"]
    BY <1>4 DEF Hub!Unsubscribe, Hub!LeaveWhen
  <2>2. PollTypes' BY <1>1, <1>2, <2>1 DEF PollTypes, ViewerPlace
  <2>3. SubscribersAre' BY <1>1, <2>1 DEF SubscribersAre, PollTypes
  <2>4. \A w \in Viewer : StartingViewer(w)' <=> StartingViewer(w) BY <1>1, <2>1
      DEF StartingViewer, PollTypes
  <2>5. OneStarts' /\ RoomToStart' BY <1>2, <2>4 DEF OneStarts, RoomToStart
  <2>6. HoldsCancel'
    <3>1. CASE cancelPoll = Hub!NoPoller
      BY <3>1, <1>1, <2>1, <2>4 DEF HoldsCancel
    <3>2. CASE cancelPoll # Hub!NoPoller
      BY <3>2, <1>1, <1>4, <2>1, <2>4 DEF HoldsCancel
    <3> QED BY <3>1, <3>2
  <2>7. \A w \in Viewer : viewerAt'[w] = "leaving" <=> viewerAt[w] = "leaving"
    BY <1>1, <2>1 DEF PollTypes
  <2>8. HeldIsLasting' BY <1>2, <2>1, <2>7 DEF HeldIsLasting, Hub!Lasting
  <2> QED BY <2>2, <2>3, <2>5, <2>6, <2>8
<1> QED BY <1>3, <1>4

(* A viewer that is out of the hub moves on: nothing but what it holds     *)
(* changes, so all is left that has to do with subscribers.                *)
LEMMA SubscribersSame ==
  ASSUME PollersInv, NEW v \in Viewer, viewerAt[v] \in {"leaving", "waiting", "blocked"},
         NEW to \in {"waiting", "blocked", "out"}, viewerAt' = [viewerAt EXCEPT ![v] = to],
         UNCHANGED <<hubSubs, started, cancelPoll>>
  PROVE  SubscribersAre' /\ OneStarts' /\ RoomToStart' /\ HoldsCancel'
<1> USE DEF PollersInv
<1>1. SubscribersAre' BY DEF SubscribersAre, PollTypes
<1>2. \A w \in Viewer : StartingViewer(w)' <=> StartingViewer(w) BY DEF StartingViewer, PollTypes
<1>3. OneStarts' /\ RoomToStart' BY <1>2 DEF OneStarts, RoomToStart
<1>4. HoldsCancel' BY <1>2 DEF HoldsCancel
<1> QED BY <1>1, <1>3, <1>4

(* What is cancelled was about to be. *)
LEMMA CancelStep == ASSUME PollersInv, NEW v \in Viewer, Hub!Cancel(v) PROVE PollersInv'
<1> USE DEF PollersInv
<1>1. /\ viewerAt[v] = "leaving" /\ viewerAt' = [viewerAt EXCEPT ![v] = "waiting"]
      /\ cancelled' = cancelled \cup {stop[v]}
      /\ UNCHANGED <<hubSubs, started, cancelPoll, pollStopped, stop, running>>
  BY DEF Hub!Cancel
<1>2. PollTypes' BY <1>1 DEF PollTypes, ViewerPlace
<1>3. SubscribersAre' /\ OneStarts' /\ RoomToStart' /\ HoldsCancel' BY <1>1, SubscribersSame
<1>4. ASSUME NEW p \in Hub!Poller PROVE Hub!Lasting(p)' <=> Hub!Lasting(p)
  <2>1. CASE p = stop[v] BY <2>1, <1>1 DEF Hub!Lasting
  <2>2. CASE p # stop[v]
    <3>1. p \in running' \ cancelled' <=> p \in running \ cancelled BY <2>2, <1>1
    <3>2. (\A w \in Viewer : viewerAt'[w] = "leaving" => stop'[w] # p)
            <=> \A w \in Viewer : viewerAt[w] = "leaving" => stop[w] # p
      BY <2>2, <1>1 DEF PollTypes
    <3> QED BY <3>1, <3>2 DEF Hub!Lasting
  <2> QED BY <2>1, <2>2
<1>5. HeldIsLasting' BY <1>1, <1>4 DEF HeldIsLasting
<1> QED BY <1>2, <1>3, <1>5

(* What a viewer waits for is nothing it could cancel any more. *)
LEMMA WaitStep ==
  ASSUME PollersInv, NEW v \in Viewer, Hub!ReadStopped(v) \/ Hub!Left(v)
  PROVE  PollersInv'
<1> USE DEF PollersInv
<1>1. PICK to \in {"blocked", "out"}, poller \in 0 .. started :
        /\ viewerAt[v] \in {"waiting", "blocked"} /\ viewerAt' = [viewerAt EXCEPT ![v] = to]
        /\ stop' = [stop EXCEPT ![v] = poller]
  <2>1. CASE Hub!ReadStopped(v) BY <2>1 DEF Hub!ReadStopped, PollTypes
  <2>2. CASE Hub!Left(v)
    <3>1. Hub!NoPoller \in 0 .. started BY DEF PollTypes, Hub!NoPoller
    <3> QED BY <2>2, <3>1 DEF Hub!Left
  <2> QED BY <2>1, <2>2
<1>2. UNCHANGED <<hubSubs, started, cancelPoll, pollStopped, cancelled, running>>
  BY DEF Hub!ReadStopped, Hub!Left
<1>3. PollTypes' BY <1>1, <1>2 DEF PollTypes, ViewerPlace
<1>4. SubscribersAre' /\ OneStarts' /\ RoomToStart' /\ HoldsCancel'
  BY <1>1, <1>2, SubscribersSame
<1>5. \A w \in Viewer : /\ viewerAt'[w] = "leaving" <=> viewerAt[w] = "leaving"
                        /\ viewerAt[w] = "leaving" => stop'[w] = stop[w]
  BY <1>1 DEF PollTypes
<1>6. \A p \in Hub!Poller : Hub!Lasting(p)' <=> Hub!Lasting(p) BY <1>2, <1>5 DEF Hub!Lasting
<1>7. HeldIsLasting' BY <1>2, <1>6 DEF HeldIsLasting
<1> QED BY <1>3, <1>4, <1>7

(* Only what is cancelled returns. *)
LEMMA ReturnStep == ASSUME PollersInv, NEW q \in Hub!Poller, Hub!PollerReturns(q) PROVE PollersInv'
<1> USE DEF PollersInv
<1>1. /\ q \in cancelled /\ running' = running \ {q}
      /\ UNCHANGED <<hubSubs, viewerAt, started, cancelPoll, pollStopped, stop, cancelled>>
  BY DEF Hub!PollerReturns, Hub!hub
<1>2. PollTypes' BY <1>1 DEF PollTypes
<1>3. SubscribersAre' /\ OneStarts' /\ RoomToStart' /\ HoldsCancel'
  BY <1>1 DEF SubscribersAre, OneStarts, RoomToStart, HoldsCancel, StartingViewer
<1>4. HeldIsLasting' BY <1>1 DEF HeldIsLasting, Hub!Lasting
<1> QED BY <1>2, <1>3, <1>4

(* The invariant is inductive. *)
LEMMA PollersStep == ASSUME HubConstants, PollersInv, [Hub!Next]_(Hub!vars) PROVE PollersInv'
<1>1. ASSUME NEW v \in Viewer, Hub!Subscribe(v) PROVE PollersInv' BY <1>1, SubscribeStep
<1>2. ASSUME NEW v \in Viewer, Hub!Unsubscribe(v) PROVE PollersInv' BY <1>2, UnsubscribeStep
<1>3. ASSUME NEW v \in Viewer, Hub!StartPoll(v) PROVE PollersInv' BY <1>3, StartPollStep
<1>4. ASSUME NEW v \in Viewer, Hub!Write(v) PROVE PollersInv'
  BY <1>4, NothingSeen DEF Hub!Write, Hub!poll, seen
<1>5. ASSUME NEW v \in Viewer, Hub!Cancel(v) PROVE PollersInv' BY <1>5, CancelStep
<1>6. ASSUME NEW v \in Viewer, Hub!ReadStopped(v) PROVE PollersInv' BY <1>6, WaitStep
<1>7. ASSUME NEW v \in Viewer, Hub!Left(v) PROVE PollersInv' BY <1>7, WaitStep
<1>8. ASSUME NEW p \in Hub!Poller, Hub!Poll(p) PROVE PollersInv'
  BY <1>8, NothingSeen DEF Hub!Poll, Hub!hub, Hub!poll, seen
<1>9. ASSUME NEW p \in Hub!Poller, Hub!Broadcast(p) PROVE PollersInv'
  BY <1>9, NothingSeen DEF Hub!Broadcast, Hub!poll, seen
<1>10. ASSUME NEW p \in Hub!Poller, Hub!PollerReturns(p) PROVE PollersInv' BY <1>10, ReturnStep
<1>11. ASSUME NEW m \in Envelope, Hub!Store(m) PROVE PollersInv'
  BY <1>11, NothingSeen DEF Hub!Store, Hub!hub, Hub!poll, seen
<1>12. CASE UNCHANGED Hub!vars BY <1>12, NothingSeen DEF Hub!vars, Hub!hub, Hub!poll, seen
<1> QED
  BY <1>1, <1>2, <1>3, <1>4, <1>5, <1>6, <1>7, <1>8, <1>9, <1>10, <1>11, <1>12
  DEF Hub!Next, Hub!Viewing, Hub!Polling

-----------------------------------------------------------------------------

(* A set of one element has one. *)
LEMMA OneLasting == ASSUME HubConstants, PollersInv PROVE Hub!OnePoller
<1> USE DEF PollersInv
<1> DEFINE L == {p \in Hub!Poller : Hub!Lasting(p)}
<1>1. CASE hubSubs = {} \/ \E v \in Viewer : viewerAt[v] = "starting"
  <2>1. cancelPoll = Hub!NoPoller BY <1>1 DEF HoldsCancel, StartingViewer
  <2>2. L = {} BY <2>1 DEF HeldIsLasting, Hub!Poller, Hub!NoPoller
  <2> QED BY <1>1, <2>2, FS_EmptySet, SameSizes DEF Hub!OnePoller
<1>2. CASE ~ (hubSubs = {} \/ \E v \in Viewer : viewerAt[v] = "starting")
  <2>1. cancelPoll # Hub!NoPoller BY <1>2 DEF HoldsCancel, StartingViewer
  <2>2. cancelPoll \in Hub!Poller BY <2>1 DEF HubConstants, PollTypes, Hub!Poller, Hub!NoPoller
  <2>3. L = {cancelPoll} BY <2>2 DEF HeldIsLasting
  <2>4. Cardinality(L) = 1 BY <2>3, FS_Singleton
  <2> QED BY <1>2, <2>4, SameSizes DEF Hub!OnePoller
<1> QED BY <1>1, <1>2

-----------------------------------------------------------------------------
(* The watermark and what was told. *)

NewsTypes ==
  /\ viewerChan \in [Viewer -> Seq(SUBSET Envelope)]
  /\ \A v \in Viewer : Len(viewerChan[v]) <= ChanSize
  /\ events \in [Hub!Poller -> Seq(SUBSET Envelope)]
  /\ stored \in Seq(Envelope)
  /\ since \in {0} \cup {CreatedAt[m] : m \in Envelope}
  /\ told \in [Envelope -> Nat]
  /\ late \subseteq Envelope

(* A row is inserted once, nothing is told of before it is stored, and     *)
(* what came late is behind the watermark and stays there.                 *)
StoredOnce == \A i, j \in DOMAIN stored : stored[i] = stored[j] => i = j
NotYetTold == \A m \in Envelope : (\A i \in DOMAIN stored : stored[i] # m) => told[m] = 0
  /\ m \notin late
LateIsPast == \A m \in late : CreatedAt[m] <= since

NewsInv == NewsTypes /\ StoredOnce /\ NotYetTold /\ LateIsPast /\ Hub!ToldOnce

LEMMA NewsInit == ASSUME HubConstants, Hub!Init PROVE NewsInv
<1>1. NewsTypes BY DEF Hub!Init, NewsTypes, HubConstants
<1>2. stored = << >> /\ late = {} /\ told = [m \in Envelope |-> 0] BY DEF Hub!Init
<1>3. DOMAIN stored = {} BY <1>2
<1>4. StoredOnce /\ NotYetTold /\ LateIsPast /\ Hub!ToldOnce
  BY <1>2, <1>3 DEF StoredOnce, NotYetTold, LateIsPast, Hub!ToldOnce
<1> QED BY <1>1, <1>4 DEF NewsInv

LEMMA NewsSame == ASSUME NewsInv, UNCHANGED <<viewerChan, events, Hub!news>> PROVE NewsInv'
BY DEF NewsInv, NewsTypes, StoredOnce, NotYetTold, LateIsPast, Hub!ToldOnce, Hub!news

(* Only channels and what pollers have to hand on change. *)
LEMMA NewsTold ==
  ASSUME NewsInv, UNCHANGED Hub!news,
         viewerChan' \in [Viewer -> Seq(SUBSET Envelope)], \A v \in Viewer : Len(viewerChan'[v]) <= ChanSize,
         events' \in [Hub!Poller -> Seq(SUBSET Envelope)]
  PROVE  NewsInv'
<1>1. NewsTypes' BY DEF NewsInv, NewsTypes, Hub!news
<1>2. StoredOnce' /\ NotYetTold' /\ LateIsPast' /\ Hub!ToldOnce'
  BY DEF NewsInv, StoredOnce, NotYetTold, LateIsPast, Hub!ToldOnce, Hub!news
<1> QED BY <1>1, <1>2 DEF NewsInv

LEMMA NewsSubscribe ==
  ASSUME HubConstants, NewsInv, NEW v \in Viewer, Hub!Subscribe(v)
  PROVE  NewsInv'
<1>1. viewerChan' = [viewerChan EXCEPT ![v] = << >>] /\ UNCHANGED <<events, Hub!news>> BY
    DEF Hub!Subscribe
<1>2. viewerChan' \in [Viewer -> Seq(SUBSET Envelope)]
        /\ events' \in [Hub!Poller -> Seq(SUBSET Envelope)]
  BY <1>1 DEF NewsInv, NewsTypes
<1>3. \A w \in Viewer : Len(viewerChan'[w]) <= ChanSize
  BY <1>1 DEF NewsInv, NewsTypes, HubConstants
<1> QED BY <1>1, <1>2, <1>3, NewsTold

LEMMA NewsWrite ==
  ASSUME HubConstants, NewsInv, NEW v \in Viewer, Hub!Write(v)
  PROVE  NewsInv'
<1>1. viewerChan[v] # << >> /\ viewerChan' = [viewerChan EXCEPT ![v] = Tail(@)]
        /\ UNCHANGED <<events, Hub!news>>
  BY DEF Hub!Write
<1>2. viewerChan[v] \in Seq(SUBSET Envelope) /\ Len(viewerChan[v]) <= ChanSize BY DEF NewsInv,
    NewsTypes
<1>3. Tail(viewerChan[v]) \in Seq(SUBSET Envelope)
        /\ Len(Tail(viewerChan[v])) = Len(viewerChan[v]) - 1
  BY <1>1, <1>2, HeadTailProperties
<1>4. Len(Tail(viewerChan[v])) <= ChanSize BY <1>2, <1>3, LenProperties DEF HubConstants
<1>5. viewerChan' \in [Viewer -> Seq(SUBSET Envelope)]
        /\ events' \in [Hub!Poller -> Seq(SUBSET Envelope)]
  BY <1>1, <1>3 DEF NewsInv, NewsTypes
<1>6. \A w \in Viewer : Len(viewerChan'[w]) <= ChanSize BY <1>1, <1>4 DEF NewsInv, NewsTypes
<1> QED BY <1>1, <1>5, <1>6, NewsTold

LEMMA NewsBroadcast ==
  ASSUME HubConstants, NewsInv, NEW p \in Hub!Poller, Hub!Broadcast(p)
  PROVE  NewsInv'
<1>1. events[p] # << >> /\ events[p] \in Seq(SUBSET Envelope)
  BY DEF Hub!Broadcast, NewsInv, NewsTypes
<1>2. Head(events[p]) \in SUBSET Envelope /\ Tail(events[p]) \in Seq(SUBSET Envelope)
  BY <1>1, HeadTailProperties
<1>3. events' = [events EXCEPT ![p] = Tail(@)] /\ UNCHANGED Hub!news BY DEF Hub!Broadcast
<1>4. events' \in [Hub!Poller -> Seq(SUBSET Envelope)] BY <1>2, <1>3 DEF NewsInv, NewsTypes
<1>5. ASSUME NEW v \in Viewer
      PROVE  viewerChan'[v] \in Seq(SUBSET Envelope) /\ Len(viewerChan'[v]) <= ChanSize
  <2>1. viewerChan[v] \in Seq(SUBSET Envelope) /\ Len(viewerChan[v]) <= ChanSize BY DEF NewsInv,
      NewsTypes
  <2>2. CASE v \in hubSubs /\ Len(viewerChan[v]) < ChanSize
    <3>1. viewerChan'[v] = Append(viewerChan[v], Head(events[p])) BY <2>2 DEF Hub!Broadcast
    <3>2. viewerChan'[v] \in Seq(SUBSET Envelope) /\ Len(viewerChan'[v]) = Len(viewerChan[v]) + 1
      BY <1>2, <2>1, <3>1, AppendProperties
    <3>3. Len(viewerChan[v]) \in Nat BY <2>1, LenProperties
    <3> QED BY <2>2, <3>2, <3>3 DEF HubConstants
  <2>3. CASE ~ (v \in hubSubs /\ Len(viewerChan[v]) < ChanSize)
    <3>1. viewerChan'[v] = viewerChan[v] BY <2>3 DEF Hub!Broadcast
    <3> QED BY <2>1, <3>1
  <2> QED BY <2>2, <2>3
<1>6. viewerChan' \in [Viewer -> Seq(SUBSET Envelope)] BY <1>5 DEF Hub!Broadcast
<1> QED BY <1>3, <1>4, <1>5, <1>6, NewsTold

(* What a poll returns was not returned before, and will not be again. *)
LEMMA NewsPoll ==
  ASSUME HubConstants, NewsInv, NEW p \in Hub!Poller, Hub!Poll(p)
  PROVE  NewsInv'
<1> DEFINE table_ == {stored[i] : i \in DOMAIN stored}
           news_  == {m \in table_ : Hub!IsNew(m)}
           times    == {CreatedAt[m] : m \in news_}
<1>0. stored \in Seq(Envelope) /\ DOMAIN stored = 1 .. Len(stored) /\ Len(stored) \in Nat
      /\ \A i \in DOMAIN stored : stored[i] \in Envelope
  BY LenProperties, ElementOfSeq DEF NewsInv, NewsTypes
<1>1. /\ news_ # {}
      /\ events' = [events EXCEPT ![p] = Hub!Batch]
      /\ since' = CHOOSE t \in times : \A m \in news_ : CreatedAt[m] <= t
      /\ told' = [m \in Envelope |-> told[m] + (IF m \in news_ \ Quiet THEN 1 ELSE 0)]
      /\ UNCHANGED <<viewerChan, stored, late>>
  BY DEF Hub!Poll, Hub!hub
<1>2. since' \in times /\ \A m \in news_ : CreatedAt[m] <= since'
  <2>1. times \in SUBSET Nat /\ times # {} BY <1>0, <1>1 DEF HubConstants
  <2>2. PICK b \in Nat : \A i \in 1 .. Len(stored) : CreatedAt[stored[i]] <= b
    <3> DEFINE f == [i \in 1 .. Len(stored) |-> CreatedAt[stored[i]]]
    <3>1. f \in [1 .. Len(stored) -> Nat] BY <1>0 DEF HubConstants
    <3>2. PICK b \in Nat : \A i \in 1 .. Len(stored) : f[i] <= b
      <4> HIDE DEF f
      <4> QED BY <1>0, <3>1, Bounded
    <3> QED BY <3>2
  <2>3. \A t \in times : t <= b BY <1>0, <2>2
  <2>4. \E t \in times : \A u \in times : u <= t
    <3> HIDE DEF times
    <3> QED BY <2>1, <2>3, Largest
  <2>5. \E t \in times : \A m \in news_ : CreatedAt[m] <= t BY <2>4
  <2> HIDE DEF times, news_
  <2> QED BY <1>1, <2>5
<1>3. since \in Nat /\ since' \in Nat /\ since <= since'
  <2>1. since \in Nat BY DEF NewsInv, NewsTypes, HubConstants
  <2>2. PICK m \in news_ : since' = CreatedAt[m] BY <1>2
  <2>3. CreatedAt[m] \in Nat /\ CreatedAt[m] > since BY <1>0 DEF HubConstants, Hub!IsNew
  <2> QED BY <2>1, <2>2, <2>3
<1>4. NewsTypes'
  <2>1. Hub!Batch \in Seq(SUBSET Envelope) BY <1>0, BatchTells
  <2>2. events' \in [Hub!Poller -> Seq(SUBSET Envelope)] BY <1>1, <2>1 DEF NewsInv, NewsTypes
  <2>3. since' \in {CreatedAt[m] : m \in Envelope} BY <1>0, <1>2
  <2>4. told' \in [Envelope -> Nat] BY <1>1 DEF NewsInv, NewsTypes
  <2> QED BY <1>1, <2>2, <2>3, <2>4 DEF NewsInv, NewsTypes
<1>5. StoredOnce' BY <1>1 DEF NewsInv, StoredOnce
<1>6. NotYetTold'
  <2> SUFFICES ASSUME NEW m \in Envelope, \A i \in DOMAIN stored : stored[i] # m
               PROVE  told'[m] = 0 /\ m \notin late'
    BY <1>1 DEF NotYetTold
  <2>1. told[m] = 0 /\ m \notin late BY DEF NewsInv, NotYetTold
  <2>2. m \notin news_ OBVIOUS
  <2> HIDE DEF news_
  <2> QED BY <1>1, <2>1, <2>2
<1>7. LateIsPast'
  <2> SUFFICES ASSUME NEW m \in late PROVE CreatedAt[m] <= since' BY <1>1 DEF LateIsPast
  <2>1. CreatedAt[m] \in Nat /\ CreatedAt[m] <= since
    BY DEF NewsInv, NewsTypes, HubConstants, LateIsPast
  <2> QED BY <1>3, <2>1
<1>8. Hub!ToldOnce'
  <2> SUFFICES ASSUME NEW i \in DOMAIN stored, NEW m \in Envelope, m = stored[i]
               PROVE  told'[m] = IF m \notin Quiet /\ m \notin late /\ CreatedAt[m] <= since'
                                 THEN 1 ELSE 0
    BY <1>0, <1>1 DEF Hub!ToldOnce
  <2>1. CreatedAt[m] \in Nat BY DEF HubConstants
  <2>2. told[m] = IF m \notin Quiet /\ m \notin late /\ CreatedAt[m] <= since THEN 1 ELSE 0
    BY DEF NewsInv, Hub!ToldOnce
  <2>3. m \in news_ <=> CreatedAt[m] > since BY DEF Hub!IsNew
  <2>4. m \in late => CreatedAt[m] <= since BY DEF NewsInv, LateIsPast
  <2>5. told'[m] = told[m] + (IF m \in news_ \ Quiet THEN 1 ELSE 0)
    <3> HIDE DEF news_
    <3> QED BY <1>1
  <2>6. m \in news_ => CreatedAt[m] <= since' BY <1>2
  <2> HIDE DEF news_
  <2>7. CASE m \in news_ BY <1>3, <2>1, <2>2, <2>3, <2>4, <2>5, <2>6, <2>7
  <2>8. CASE m \notin news_ BY <1>3, <2>1, <2>2, <2>3, <2>5, <2>8
  <2> QED BY <2>7, <2>8
<1> QED BY <1>4, <1>5, <1>6, <1>7, <1>8 DEF NewsInv

(* A row that arrives behind the watermark is one of those never told of. *)
LEMMA NewsStore ==
  ASSUME HubConstants, NewsInv, NEW m \in Envelope, Hub!Store(m)
  PROVE  NewsInv'
<1>0. stored \in Seq(Envelope) /\ DOMAIN stored = 1 .. Len(stored) /\ Len(stored) \in Nat
      /\ \A i \in DOMAIN stored : stored[i] \in Envelope
  BY LenProperties, ElementOfSeq DEF NewsInv, NewsTypes
<1>1. /\ \A i \in DOMAIN stored : stored[i] # m
      /\ stored' = Append(stored, m)
      /\ late' = IF CreatedAt[m] <= since THEN late \cup {m} ELSE late
      /\ UNCHANGED <<viewerChan, events, since, told>>
  BY DEF Hub!Store, Hub!hub
<1>2. /\ stored' \in Seq(Envelope) /\ DOMAIN stored' = 1 .. Len(stored) + 1
      /\ \A i \in 1 .. Len(stored) : stored'[i] = stored[i]
      /\ stored'[Len(stored) + 1] = m
  <2>1. stored' \in Seq(Envelope) /\ Len(stored') = Len(stored) + 1
    BY <1>0, <1>1, AppendProperties
  <2>2. DOMAIN stored' = 1 .. Len(stored') BY <2>1, LenProperties
  <2> QED BY <1>0, <1>1, <2>1, <2>2, AppendProperties
<1>3. \A i \in DOMAIN stored' : i \in DOMAIN stored \/ i = Len(stored) + 1 BY <1>0, <1>2
<1>4. told[m] = 0 /\ m \notin late BY <1>1 DEF NewsInv, NotYetTold
<1>5. since \in Nat /\ CreatedAt[m] \in Nat BY DEF NewsInv, NewsTypes, HubConstants
<1>6. NewsTypes' BY <1>1, <1>2 DEF NewsInv, NewsTypes
<1>7. StoredOnce'
  <2> SUFFICES ASSUME NEW i \in DOMAIN stored', NEW j \in DOMAIN stored', stored'[i] = stored'[j]
               PROVE  i = j
    BY DEF StoredOnce
  <2>1. CASE i \in DOMAIN stored /\ j \in DOMAIN stored
    BY <1>0, <1>2, <2>1 DEF NewsInv, StoredOnce
  <2>2. CASE ~ (i \in DOMAIN stored /\ j \in DOMAIN stored) BY <1>0, <1>1, <1>2, <1>3, <2>2
  <2> QED BY <2>1, <2>2
<1>8. NotYetTold'
  <2> SUFFICES ASSUME NEW n \in Envelope, \A i \in DOMAIN stored' : stored'[i] # n
               PROVE  told'[n] = 0 /\ n \notin late'
    BY DEF NotYetTold
  <2>1. Len(stored) + 1 \in DOMAIN stored' /\ \A i \in DOMAIN stored : i \in DOMAIN stored'
    BY <1>0, <1>2
  <2>2. n # m /\ \A i \in DOMAIN stored : stored[i] # n BY <1>0, <1>2, <2>1
  <2> QED BY <1>1, <2>2 DEF NewsInv, NotYetTold
<1>9. LateIsPast' BY <1>1 DEF NewsInv, LateIsPast
<1>10. Hub!ToldOnce'
  <2> SUFFICES ASSUME NEW i \in DOMAIN stored', NEW n, n = stored'[i]
               PROVE  told'[n] = IF n \notin Quiet /\ n \notin late' /\ CreatedAt[n] <= since'
                                 THEN 1 ELSE 0
    BY DEF Hub!ToldOnce
  <2>1. CASE i \in DOMAIN stored
    <3>1. n = stored[i] /\ n # m BY <1>0, <1>1, <1>2, <2>1
    <3>2. n \in late' <=> n \in late BY <1>1, <3>1
    <3> QED BY <1>1, <2>1, <3>1, <3>2 DEF NewsInv, Hub!ToldOnce
  <2>2. CASE i = Len(stored) + 1
    <3>1. n = m BY <1>2, <2>2
    <3> QED BY <1>1, <1>4, <3>1
  <2> QED BY <1>3, <2>1, <2>2
<1> QED BY <1>6, <1>7, <1>8, <1>9, <1>10 DEF NewsInv

-----------------------------------------------------------------------------
(* Together. *)

(* A handler about to cancel has something to. *)
CancelsPollers ==
  Hub!NoPoller \notin cancelled
    /\ \A v \in Viewer : viewerAt[v] = "leaving" => stop[v] # Hub!NoPoller

LEMMA CancelsStep ==
  ASSUME HubConstants, PollersInv, CancelsPollers, [Hub!Next]_(Hub!vars) PROVE CancelsPollers'
<1> USE DEF CancelsPollers, PollersInv, PollTypes
<1>1. ASSUME NEW v \in Viewer, Hub!Unsubscribe(v) PROVE CancelsPollers'
  BY <1>1 DEF Hub!Unsubscribe, Hub!LeaveWhen
<1>2. ASSUME NEW v \in Viewer, Hub!Cancel(v) PROVE CancelsPollers' BY <1>2 DEF Hub!Cancel
<1>3. ASSUME NEW v \in Viewer, Hub!ReadStopped(v) \/ Hub!Left(v) PROVE CancelsPollers'
  <2>1. viewerAt[v] \in {"waiting", "blocked"} /\ cancelled' = cancelled
        /\ \A w \in Viewer : viewerAt'[w] = "leaving" => viewerAt[w] = "leaving"
             /\ stop'[w] = stop[w]
    BY <1>3 DEF Hub!ReadStopped, Hub!Left
  <2> QED BY <2>1
<1>4. ASSUME NEW v \in Viewer, Hub!Subscribe(v) \/ Hub!StartPoll(v) PROVE CancelsPollers'
  <2>1. UNCHANGED <<cancelled, stop>>
          /\ \A w \in Viewer : viewerAt'[w] = "leaving" => viewerAt[w] = "leaving"
    BY <1>4 DEF Hub!Subscribe, Hub!StartPoll, Hub!poll
  <2> QED BY <2>1
<1>5. CASE \/ \E v \in Viewer : Hub!Write(v)
           \/ \E p \in Hub!Poller : Hub!Poll(p) \/ Hub!Polling(p)
           \/ \E m \in Envelope : Hub!Store(m)
           \/ UNCHANGED Hub!vars
  <2>1. UNCHANGED <<cancelled, stop, viewerAt>>
    BY <1>5 DEF Hub!Write, Hub!Poll, Hub!Polling, Hub!Broadcast, Hub!PollerReturns, Hub!Store,
      Hub!vars, Hub!hub, Hub!poll
  <2> QED BY <2>1
<1> QED BY <1>1, <1>2, <1>3, <1>4, <1>5 DEF Hub!Next, Hub!Viewing

LEMMA NewsStep == ASSUME HubConstants, NewsInv, [Hub!Next]_(Hub!vars) PROVE NewsInv'
<1>1. ASSUME NEW v \in Viewer, Hub!Unsubscribe(v) \/ Hub!StartPoll(v) \/ Hub!Cancel(v)
               \/ Hub!ReadStopped(v) \/ Hub!Left(v)
      PROVE NewsInv'
  <2>1. UNCHANGED <<viewerChan, events, Hub!news>>
    BY <1>1 DEF Hub!Unsubscribe, Hub!LeaveWhen, Hub!StartPoll, Hub!Cancel, Hub!ReadStopped,
      Hub!Left
  <2> QED BY <2>1, NewsSame
<1>2. ASSUME NEW p \in Hub!Poller, Hub!PollerReturns(p) PROVE NewsInv'
  BY <1>2, NewsSame DEF Hub!PollerReturns, Hub!hub
<1>3. CASE UNCHANGED Hub!vars BY <1>3, NewsSame DEF Hub!vars, Hub!hub
<1> QED
  BY <1>1, <1>2, <1>3, NewsSubscribe, NewsWrite, NewsPoll, NewsBroadcast, NewsStore
  DEF Hub!Next, Hub!Viewing, Hub!Polling

(* events.go: however many viewers come and go, there is one poller while  *)
(* somebody is subscribed, but for the moment in which the first is about  *)
(* to start it, and none when nobody is; and with pollers overlapping,     *)
(* every stored message up to the watermark was in what exactly one poll   *)
(* returned, unless it was stored behind the watermark.                    *)
THEOREM HubIsTrue == Hub!Spec => []HubTells
<1> DEFINE Inv == PollersInv /\ NewsInv /\ CancelsPollers
<1>1. Hub!Init => Inv
  <2>1. Hub!Init => CancelsPollers BY DEF Hub!Init, CancelsPollers, Hub!NoPoller
  <2> QED BY <2>1, PartsAssumption, PollersInit, NewsInit
<1>2. Inv /\ [Hub!Next]_(Hub!vars) => Inv' BY PartsAssumption, PollersStep, NewsStep, CancelsStep
<1>3. Inv => HubTells
  <2> SUFFICES ASSUME PollersInv, NewsInv, CancelsPollers PROVE HubTells OBVIOUS
  <2>1. cancelled \subseteq 1 .. started BY DEF PollersInv, PollTypes, CancelsPollers, Hub!NoPoller
  <2>2. {cancelled, running} \subseteq SUBSET (1 .. started)
        /\ {cancelPoll, pollStopped} \subseteq 0 .. started
    BY <2>1 DEF PollersInv, PollTypes
  <2>3. Hub!TypeOK BY <2>2 DEF PollersInv, PollTypes, NewsInv, NewsTypes, Hub!TypeOK, ViewerPlace
  <2> QED BY <2>3, PartsAssumption, OneLasting DEF NewsInv, HubTells
<1> HIDE DEF Inv
<1> QED BY <1>1, <1>2, <1>3, PTL DEF Hub!Spec
-----------------------------------------------------------------------------
(* The token client.  The invariant bounds how old the token is when the   *)
(* timer has run down, and while it is fetched.                            *)


StartingCaller(c) == c \in Caller /\ callerAt[c] = "starting"

(* A Start that is under way is the only one, and of the last run; while   *)
(* it is, and before it, there is no loop and there never was one.         *)
OneRun ==
  /\ \A c \in Caller : StartingCaller(c) =>
       of[c] = lifecycle.run /\ lifecycle.started /\ refreshLoop.at = "none"
  /\ \A c, d \in Caller : StartingCaller(c) /\ StartingCaller(d) => c = d
  /\ lifecycle.started => lifecycle.run # 0
  /\ refreshLoop.at # "none" => lifecycle.started /\ refreshLoop.run # 0
  /\ \/ doneClosed = {}
     \/ lifecycle.started /\ refreshLoop.at = "none" /\ \A c \in Caller : ~ StartingCaller(c)
  /\ released => doneClosed # {}

(* How old the token is while the loop waits, and while it fetches. *)
InTime ==
  /\ refreshLoop.at = "backoff" => failed
  /\ refreshLoop.at = "fetch" => refreshLoop.timer = 0
  /\ refreshLoop.at = "timer" /\ ~failed =>
       age + refreshLoop.timer <= RefreshAt \/ age + refreshLoop.timer <= MaxFetch + MinWait
  /\ refreshLoop.at = "fetch" /\ ~failed =>
       age <= RefreshAt + spent[refreshLoop.run]
         \/ age <= MaxFetch + MinWait + spent[refreshLoop.run]

ClientInv == Client!TypeOK /\ OneRun /\ InTime

(* The next refresh is due in time. *)
LEMMA DelayFits ==
  ASSUME ClientConstants, NEW a \in 0 .. MaxFetch
  PROVE  /\ Client!NextRefreshDelay(a) \in Nat
         /\ a + Client!NextRefreshDelay(a) <= RefreshAt
              \/ a + Client!NextRefreshDelay(a) <= MaxFetch + MinWait
<1>1. RefreshAt \in Nat BY DEF ClientConstants, RefreshAt
<1>2. Client!NextRefreshDelay(a) = IF TTL = 0 \/ RefreshAt < a + MinWait THEN MinWait
        ELSE RefreshAt - a
  BY DEF Client!NextRefreshDelay, RefreshAt
<1> QED BY <1>1, <1>2 DEF ClientConstants

LEMMA DelayIsNat ==
  ASSUME ClientConstants, NEW a \in Nat
  PROVE  Client!NextRefreshDelay(a) \in Nat
<1>1. RefreshAt \in Nat BY DEF ClientConstants, RefreshAt
<1>2. Client!NextRefreshDelay(a) = IF TTL = 0 \/ RefreshAt < a + MinWait THEN MinWait
        ELSE RefreshAt - a
  BY DEF Client!NextRefreshDelay, RefreshAt
<1> QED BY <1>1, <1>2 DEF ClientConstants

LEMMA ClientInit == ASSUME ClientConstants, Client!Init PROVE ClientInv
<1>1. Client!TypeOK
  <2> USE DEF Client!Init, ClientConstants, Client!NoToken, Client!Run
  <2>1. lifecycle \in [started : BOOLEAN, run : 0 .. MaxRuns] OBVIOUS
  <2>2. /\ callerAt \in [Caller -> {"idle", "starting", "stopping", "returned"}]
        /\ of \in [Caller -> 0 .. MaxRuns]
    OBVIOUS
  <2>3. {ended, doneClosed} \subseteq SUBSET Client!Run
          /\ {failed, released} \subseteq BOOLEAN OBVIOUS
  <2>4. refreshLoop \in [run : 0 .. MaxRuns, at : {"none", "timer", "fetch", "backoff"}, timer : Nat]
    OBVIOUS
  <2>5. spent \in [0 .. MaxRuns -> 0 .. MaxFetch] /\ age \in 0 .. Client!NoToken OBVIOUS
  <2> QED BY <2>1, <2>2, <2>3, <2>4, <2>5 DEF Client!TypeOK
<1>2. OneRun BY DEF Client!Init, OneRun, StartingCaller
<1>3. InTime BY DEF Client!Init, InTime
<1> QED BY <1>1, <1>2, <1>3 DEF ClientInv

LEMMA ClientStepHolds ==
  ASSUME ClientConstants, ClientInv, [Client!Next]_(Client!vars)
  PROVE  ClientInv'
<1> USE DEF ClientInv
<1>0. RefreshAt \in Nat BY DEF ClientConstants, RefreshAt
<1>1. ASSUME NEW c \in Caller, Client!BeginStart(c) PROVE ClientInv'
  <2>0. UNCHANGED <<ended, doneClosed, refreshLoop, spent, age, failed, released>>
    BY <1>1 DEF Client!BeginStart
  <2>1. Client!TypeOK'
    <3>0. lifecycle.run < MaxRuns => lifecycle.run + 1 \in 0 .. MaxRuns
      BY DEF Client!TypeOK, ClientConstants
    <3>1. lifecycle' \in [started : BOOLEAN, run : 0 .. MaxRuns]
      <4>1. CASE lifecycle.started BY <1>1, <4>1 DEF Client!BeginStart, Client!TypeOK
      <4>2. CASE ~ lifecycle.started
        <5>1. lifecycle' = [started |-> TRUE, run |-> lifecycle.run + 1] /\ lifecycle.run < MaxRuns
          BY <1>1, <4>2 DEF Client!BeginStart
        <5>2. TRUE \in BOOLEAN OBVIOUS
        <5> QED BY <3>0, <5>1, <5>2
      <4> QED BY <4>1, <4>2
    <3>2. callerAt' \in [Caller -> {"idle", "starting", "stopping", "returned"}]
      BY <1>1 DEF Client!BeginStart, Client!TypeOK
    <3>3. of' \in [Caller -> 0 .. MaxRuns]
      <4>1. CASE lifecycle.started BY <1>1, <4>1 DEF Client!BeginStart, Client!TypeOK
      <4>2. CASE ~ lifecycle.started BY <1>1, <3>0, <4>2 DEF Client!BeginStart, Client!TypeOK
      <4> QED BY <4>1, <4>2
    <3> QED BY <2>0, <3>1, <3>2, <3>3 DEF Client!TypeOK
  <2>2. OneRun' BY <1>1 DEF Client!BeginStart, OneRun, StartingCaller, Client!TypeOK,
      ClientConstants
  <2>3. InTime' BY <1>1 DEF Client!BeginStart, InTime
  <2> QED BY <2>1, <2>2, <2>3
<1>2. ASSUME NEW c \in Caller, Client!BeginStop(c) PROVE ClientInv'
  <2>0. UNCHANGED <<lifecycle, doneClosed, refreshLoop, spent, age, failed, released>>
    BY <1>2 DEF Client!BeginStop
  <2>1. Client!TypeOK'
    <3>1. lifecycle.started => lifecycle.run \in Client!Run BY DEF Client!TypeOK, OneRun,
        Client!Run
    <3>2. callerAt' \in [Caller -> {"idle", "starting", "stopping", "returned"}]
      BY <1>2 DEF Client!BeginStop, Client!TypeOK
    <3>3. of' \in [Caller -> 0 .. MaxRuns] BY <1>2 DEF Client!BeginStop, Client!TypeOK
    <3>4. ended' \in SUBSET Client!Run BY <1>2, <3>1 DEF Client!BeginStop, Client!TypeOK
    <3> QED BY <2>0, <3>2, <3>3, <3>4 DEF Client!TypeOK
  <2>2. OneRun' BY <1>2 DEF Client!BeginStop, OneRun, StartingCaller, Client!TypeOK
  <2>3. InTime' BY <1>2 DEF Client!BeginStop, InTime
  <2> QED BY <2>1, <2>2, <2>3
<1>3. ASSUME NEW c \in Caller, Client!Started(c) PROVE ClientInv'
  <2>0. PICK a \in 0 .. spent[of[c]] : age' = a /\ refreshLoop' = Client!Waiting(of[c], a)
      BY <1>3 DEF Client!Started
  <2>1. a \in 0 .. MaxFetch /\ a \in 0 .. Client!NoToken /\ of[c] \in 0 .. MaxRuns
    <3>1. of[c] \in 0 .. MaxRuns /\ spent[of[c]] \in 0 .. MaxFetch BY DEF Client!TypeOK
    <3> QED BY <3>1 DEF ClientConstants, Client!NoToken
  <2>2. /\ Client!NextRefreshDelay(a) \in Nat
        /\ a + Client!NextRefreshDelay(a) <= RefreshAt
             \/ a + Client!NextRefreshDelay(a) <= MaxFetch + MinWait
    BY <2>1, DelayFits
  <2>3. /\ refreshLoop'.run = of[c] /\ refreshLoop'.at = "timer"
             /\ refreshLoop'.timer = Client!NextRefreshDelay(a)
        /\ refreshLoop' = [run |-> of[c], at |-> "timer", timer |-> Client!NextRefreshDelay(a)]
    BY <2>0 DEF Client!Waiting
  <2>4. /\ callerAt[c] = "starting" /\ callerAt' = [callerAt EXCEPT ![c] = "returned"]
             /\ failed' = FALSE
        /\ UNCHANGED <<lifecycle, of, ended, doneClosed, spent, released>>
    BY <1>3 DEF Client!Started
  <2>5. Client!TypeOK' BY <2>0, <2>1, <2>2, <2>3, <2>4 DEF Client!TypeOK
  <2>6. OneRun' BY <2>3, <2>4 DEF OneRun, StartingCaller, Client!TypeOK
  <2>7. InTime' BY <2>0, <2>2, <2>3 DEF InTime
  <2> QED BY <2>5, <2>6, <2>7
<1>4. ASSUME NEW c \in Caller, Client!StartFails(c) PROVE ClientInv'
  <2>0. UNCHANGED <<of, doneClosed, refreshLoop, spent, age, failed, released>>
    BY <1>4 DEF Client!StartFails
  <2>1. Client!TypeOK'
    <3>1. of[c] \in Client!Run BY <1>4 DEF Client!StartFails, Client!TypeOK, OneRun,
        StartingCaller, Client!Run
    <3>2. lifecycle' \in [started : BOOLEAN, run : 0 .. MaxRuns] BY <1>4 DEF Client!StartFails,
        Client!TypeOK
    <3>3. callerAt' \in [Caller -> {"idle", "starting", "stopping", "returned"}]
      BY <1>4 DEF Client!StartFails, Client!TypeOK
    <3>4. ended' \in SUBSET Client!Run BY <1>4, <3>1 DEF Client!StartFails, Client!TypeOK
    <3> QED BY <2>0, <3>2, <3>3, <3>4 DEF Client!TypeOK
  <2>2. OneRun' BY <1>4 DEF Client!StartFails, OneRun, StartingCaller, Client!TypeOK
  <2>3. InTime' BY <1>4 DEF Client!StartFails, InTime
  <2> QED BY <2>1, <2>2, <2>3
<1>5. ASSUME NEW c \in Caller, Client!Stopped(c) PROVE ClientInv'
  <2>1. Client!TypeOK' BY <1>5 DEF Client!Stopped, Client!TypeOK
  <2>2. OneRun' BY <1>5 DEF Client!Stopped, OneRun, StartingCaller, Client!TypeOK
  <2>3. InTime' BY <1>5 DEF Client!Stopped, InTime
  <2> QED BY <2>1, <2>2, <2>3
<1>6. ASSUME NEW c \in Caller, Client!CallAgain(c) PROVE ClientInv'
  <2>1. Client!TypeOK' BY <1>6 DEF Client!CallAgain, Client!TypeOK, ClientConstants
  <2>2. OneRun' BY <1>6 DEF Client!CallAgain, OneRun, StartingCaller, Client!TypeOK
  <2>3. InTime' BY <1>6 DEF Client!CallAgain, InTime
  <2> QED BY <2>1, <2>2, <2>3
<1>7. CASE Client!TimerFires
  <2>1. CASE refreshLoop.at = "timer"
    <3>1. refreshLoop' = [refreshLoop EXCEPT !.at = "fetch"] /\ refreshLoop.timer = 0 BY <1>7,
        <2>1 DEF Client!TimerFires
    <3>2. /\ refreshLoop' \in [run : 0 .. MaxRuns, at : {"none", "timer", "fetch", "backoff"}, timer : Nat]
          /\ refreshLoop'.at = "fetch" /\ refreshLoop'.timer = 0
               /\ refreshLoop'.run = refreshLoop.run
      BY <3>1 DEF Client!TypeOK
    <3>3. spent' = [spent EXCEPT ![refreshLoop.run] = 0]
          /\ UNCHANGED <<lifecycle, callerAt, of, ended, doneClosed, age, failed, released>>
      BY <1>7 DEF Client!TimerFires
    <3>4. Client!TypeOK' BY <3>2, <3>3 DEF Client!TypeOK, ClientConstants
    <3>5. OneRun' BY <2>1, <3>2, <3>3 DEF OneRun, StartingCaller
    <3>6. spent'[refreshLoop'.run] = 0 BY <3>2, <3>3 DEF Client!TypeOK
    <3>7. InTime' BY <1>0, <2>1, <3>1, <3>2, <3>3, <3>6 DEF InTime, Client!TypeOK,
        ClientConstants, Client!NoToken
    <3> QED BY <3>4, <3>5, <3>7
  <2>2. CASE refreshLoop.at = "backoff"
    <3>1. refreshLoop' = Client!Waiting(refreshLoop.run, age) BY <1>7, <2>2 DEF Client!TimerFires
    <3>2. Client!NextRefreshDelay(age) \in Nat BY DelayIsNat DEF Client!TypeOK
    <3>3. /\ refreshLoop' \in [run : 0 .. MaxRuns, at : {"none", "timer", "fetch", "backoff"}, timer : Nat]
          /\ refreshLoop'.at = "timer" /\ refreshLoop'.run = refreshLoop.run
      BY <3>1, <3>2 DEF Client!TypeOK, Client!Waiting
    <3>4. spent' = [spent EXCEPT ![refreshLoop.run] = 0]
          /\ UNCHANGED <<lifecycle, callerAt, of, ended, doneClosed, age, failed, released>>
      BY <1>7 DEF Client!TimerFires
    <3>5. Client!TypeOK' BY <3>3, <3>4 DEF Client!TypeOK, ClientConstants
    <3>6. OneRun' BY <2>2, <3>3, <3>4 DEF OneRun, StartingCaller
    <3>7. InTime' BY <2>2, <3>3, <3>4 DEF InTime
    <3> QED BY <3>5, <3>6, <3>7
  <2> QED BY <1>7, <2>1, <2>2 DEF Client!TimerFires
<1>8. CASE Client!Refreshed
  <2>0. PICK a \in 0 .. spent[refreshLoop.run] : age' = a
          /\ refreshLoop' = Client!Waiting(refreshLoop.run, a)
    BY <1>8 DEF Client!Refreshed
  <2>1. a \in 0 .. MaxFetch /\ a \in 0 .. Client!NoToken /\ refreshLoop.run \in 0 .. MaxRuns
    <3>1. refreshLoop.run \in 0 .. MaxRuns /\ spent[refreshLoop.run] \in 0 .. MaxFetch BY
        DEF Client!TypeOK
    <3> QED BY <3>1 DEF ClientConstants, Client!NoToken
  <2>2. /\ Client!NextRefreshDelay(a) \in Nat
        /\ a + Client!NextRefreshDelay(a) <= RefreshAt
             \/ a + Client!NextRefreshDelay(a) <= MaxFetch + MinWait
    BY <2>1, DelayFits
  <2>3. /\ refreshLoop'.run = refreshLoop.run /\ refreshLoop'.at = "timer"
             /\ refreshLoop'.timer = Client!NextRefreshDelay(a)
        /\ refreshLoop' = [run |-> refreshLoop.run, at |-> "timer", timer |-> Client!NextRefreshDelay(a)]
    BY <2>0 DEF Client!Waiting
  <2>4. refreshLoop.at = "fetch"
          /\ UNCHANGED <<lifecycle, callerAt, of, ended, doneClosed, spent, failed, released>>
    BY <1>8 DEF Client!Refreshed
  <2>5. Client!TypeOK' BY <2>0, <2>1, <2>2, <2>3, <2>4 DEF Client!TypeOK
  <2>6. OneRun' BY <2>3, <2>4 DEF OneRun, StartingCaller
  <2>7. InTime' BY <2>0, <2>2, <2>3 DEF InTime
  <2> QED BY <2>5, <2>6, <2>7
<1>9. CASE Client!RefreshFails
  <2>1. /\ refreshLoop' \in [run : 0 .. MaxRuns, at : {"none", "timer", "fetch", "backoff"}, timer : Nat]
        /\ refreshLoop'.at = "backoff" /\ refreshLoop'.run = refreshLoop.run
    BY <1>9 DEF Client!RefreshFails, Client!TypeOK, ClientConstants
  <2>2. refreshLoop.at = "fetch" /\ failed' = TRUE
        /\ UNCHANGED <<lifecycle, callerAt, of, ended, doneClosed, spent, age, released>>
    BY <1>9 DEF Client!RefreshFails
  <2>3. Client!TypeOK' BY <2>1, <2>2 DEF Client!TypeOK
  <2>4. OneRun' BY <2>1, <2>2 DEF OneRun, StartingCaller
  <2>5. InTime' BY <2>1, <2>2 DEF InTime
  <2> QED BY <2>3, <2>4, <2>5
<1>10. CASE Client!LoopReturns
  <2>1. Client!TypeOK' BY <1>10 DEF Client!LoopReturns, Client!TypeOK, ClientConstants
  <2>2. OneRun' BY <1>10 DEF Client!LoopReturns, OneRun, StartingCaller, Client!TypeOK
  <2>3. InTime' BY <1>10 DEF Client!LoopReturns, InTime
  <2> QED BY <2>1, <2>2, <2>3
<1>11. CASE Client!ParentEnds
  <2>1. Client!TypeOK' BY <1>11 DEF Client!ParentEnds, Client!TypeOK, Client!Run
  <2>2. OneRun' BY <1>11 DEF Client!ParentEnds, OneRun, StartingCaller
  <2>3. InTime' BY <1>11 DEF Client!ParentEnds, InTime
  <2> QED BY <2>1, <2>2, <2>3
<1>12. CASE Client!Tick
  <2>1. /\ refreshLoop.at \in {"timer", "backoff"} => refreshLoop.timer > 0
        /\ \A r \in Client!Run : Client!Fetching(r) => spent[r] < MaxFetch
        /\ spent' = [r \in DOMAIN spent |-> IF Client!Fetching(r) THEN spent[r] + 1 ELSE spent[r]]
        /\ refreshLoop' = IF refreshLoop.timer > 0
             THEN [refreshLoop EXCEPT !.timer = @ - 1] ELSE refreshLoop
        /\ age' = IF age < TTL THEN age + 1 ELSE age
        /\ UNCHANGED <<lifecycle, callerAt, of, ended, doneClosed, failed, released>>
    BY <1>12 DEF Client!Tick
  <2>2. /\ refreshLoop' \in [run : 0 .. MaxRuns, at : {"none", "timer", "fetch", "backoff"}, timer : Nat]
        /\ refreshLoop'.at = refreshLoop.at /\ refreshLoop'.run = refreshLoop.run
        /\ refreshLoop'.timer = IF refreshLoop.timer > 0 THEN refreshLoop.timer - 1
             ELSE refreshLoop.timer
    <3>1. refreshLoop.timer > 0 => refreshLoop.timer - 1 \in Nat BY DEF Client!TypeOK
    <3> QED BY <2>1, <3>1 DEF Client!TypeOK
  <2>3. ~ Client!Fetching(0) BY DEF Client!Fetching, OneRun, StartingCaller, Client!TypeOK
  <2>4. spent' \in [0 .. MaxRuns -> 0 .. MaxFetch]
    <3>1. ASSUME NEW r \in 0 .. MaxRuns PROVE spent'[r] \in 0 .. MaxFetch
      <4>1. spent[r] \in 0 .. MaxFetch /\ DOMAIN spent = 0 .. MaxRuns BY DEF Client!TypeOK
      <4>2. Client!Fetching(r) => spent[r] < MaxFetch BY <2>1, <2>3 DEF Client!Run
      <4> QED BY <2>1, <4>1, <4>2 DEF ClientConstants
    <3>2. DOMAIN spent = 0 .. MaxRuns BY DEF Client!TypeOK
    <3> QED BY <2>1, <3>1, <3>2
  <2>5. age' \in 0 .. Client!NoToken BY <2>1 DEF Client!TypeOK, Client!NoToken, ClientConstants
  <2>6. Client!TypeOK' BY <2>1, <2>2, <2>4, <2>5 DEF Client!TypeOK
  <2>7. OneRun' BY <2>1, <2>2 DEF OneRun, StartingCaller
  <2>8. refreshLoop.at = "fetch" => spent'[refreshLoop.run] = spent[refreshLoop.run] + 1
    BY <2>1 DEF Client!TypeOK, Client!Fetching
  <2>9. age' <= age + 1 /\ age \in Nat /\ age' \in Nat /\ refreshLoop.timer \in Nat
          /\ spent[refreshLoop.run] \in Nat
    BY <2>1 DEF Client!TypeOK, Client!NoToken, ClientConstants
  <2>10. InTime'
    <3>1. CASE refreshLoop.at = "timer"
      <4>1. age' + refreshLoop'.timer <= age + refreshLoop.timer BY <2>1, <2>2, <2>9, <3>1
      <4> QED BY <1>0, <2>1, <2>2, <2>9, <3>1, <4>1 DEF InTime, ClientConstants
    <3>2. CASE refreshLoop.at = "fetch"
      <4>1. refreshLoop'.timer = 0 /\ failed' = failed BY <2>1, <2>2, <3>2 DEF InTime
      <4>2. spent'[refreshLoop'.run] = spent[refreshLoop.run] + 1 BY <2>2, <2>8, <3>2
      <4> QED BY <1>0, <2>2, <2>9, <3>2, <4>1, <4>2 DEF InTime, ClientConstants
    <3>3. CASE refreshLoop.at \in {"none", "backoff"} BY <2>1, <2>2, <3>3 DEF InTime
    <3> QED BY <3>1, <3>2, <3>3 DEF Client!TypeOK
  <2> QED BY <2>6, <2>7, <2>10
<1>13. CASE UNCHANGED Client!vars
  <2>1. Client!TypeOK' BY <1>13 DEF Client!vars, Client!TypeOK
  <2>2. OneRun' BY <1>13 DEF Client!vars, OneRun, StartingCaller
  <2>3. InTime' BY <1>13 DEF Client!vars, InTime
  <2> QED BY <2>1, <2>2, <2>3
<1> QED
  BY <1>1, <1>2, <1>3, <1>4, <1>5, <1>6, <1>7, <1>8, <1>9, <1>10, <1>11, <1>12, <1>13
  DEF Client!Next, Client!Calling, Client!Looping

LEMMA InvariantKeeps ==
  ASSUME ClientConstants, ClientInv
  PROVE  Client!KeptFresh /\ Client!StoppedForGood
<1> USE DEF ClientInv
<1>0. RefreshAt \in Nat BY DEF ClientConstants, RefreshAt
<1>1. Client!StoppedForGood BY DEF Client!StoppedForGood, OneRun
<1>2. Client!KeptFresh
  <2> SUFFICES ASSUME refreshLoop.at # "none", ~failed PROVE age < TTL BY DEF Client!KeptFresh
  <2>1. age \in Nat /\ refreshLoop.timer \in Nat /\ spent[refreshLoop.run] \in 0 .. MaxFetch
    BY DEF Client!TypeOK, Client!NoToken, ClientConstants
  <2>2. CASE refreshLoop.at = "timer" BY <1>0, <2>1, <2>2 DEF InTime, ClientConstants
  <2>3. CASE refreshLoop.at = "fetch" BY <1>0, <2>1, <2>3 DEF InTime, ClientConstants
  <2> QED BY <2>2, <2>3 DEF InTime, Client!TypeOK
<1> QED BY <1>1, <1>2

(* client.go: the token is refreshed before it expires, while refreshing   *)
(* succeeds, and nothing refreshes it once a Stop has returned.            *)
THEOREM ClientIsTrue == Client!Spec => []ClientKeeps
<1>1. Client!Init => ClientInv BY PartsAssumption, ClientInit
<1>2. ClientInv /\ [Client!Next]_(Client!vars) => ClientInv' BY PartsAssumption, ClientStepHolds
<1>3. ClientInv => ClientKeeps
  BY PartsAssumption, InvariantKeeps DEF ClientInv, ClientKeeps
<1> QED BY <1>1, <1>2, <1>3, PTL DEF Client!Spec

-----------------------------------------------------------------------------
(* The webhook backend.  The ring is the end of what was delivered, what   *)
(* waits in a subscription was delivered, and what is pruned from the      *)
(* outbox is settled.                                                      *)


In(m, s) == \E j \in DOMAIN s : s[j] = m

(* A request is of its message, and comes once; before its attempt nothing *)
(* is known of the message, and afterwards that it was attempted.          *)
RequestsAre ==
  \A m \in Posted :
    /\ item[m] \in {m, NoRow} /\ (item[m] = NoRow <=> at[m] = "idle")
    /\ at[m] \in {"idle", "posting"} =>
         /\ posts[m] = 0 /\ outbox[m].state = "none"
         /\ ~ In(m, terminalIDs) /\ ~ In(m, delivered)
    /\ at[m] \notin {"idle", "posting"} => posts[m] > 0

(* What the loop works off is pending till it has. *)
LoopIs ==
  /\ at[Loop] # "done" /\ (item[Loop] = NoRow <=> at[Loop] = "idle")
  /\ \A m \in due : Webhook!Pending(m)
  /\ at[Loop] = "posting" => Webhook!Pending(item[Loop]) /\ item[Loop] \notin due

(* Only what was delivered is handed to subscriptions. *)
HandedIsDelivered ==
  /\ \A d \in Webhook!Deliverer :
       /\ at[d] \in {"handing", "holding"} => In(item[d], delivered)
       /\ at[d] = "holding" => todo[d] # << >>
  /\ \A l \in Listener : \A i \in DOMAIN chan[l] : In(chan[l][i], delivered)

(* What is pruned from the outbox is not pending. *)
PrunedIsSettled == \A i \in DOMAIN terminalIDs : ~ Webhook!Pending(terminalIDs[i])

(* The ring is the end of what was delivered. *)
IsEnd(s, t, n) ==
  /\ Len(s) = IF Len(t) > n THEN n ELSE Len(t)
  /\ \A j \in 1 .. Len(s) : s[j] = t[(Len(t) - Len(s)) + j]
RingIsEnd == IsEnd(ring, delivered, RingSize)

DeliveredOnce == \A i, j \in DOMAIN delivered : delivered[i] = delivered[j] => i = j

Counted ==
  \A m \in Posted :
    /\ posts[m] <= MaxAttempts
    /\ posts[m] > 0 => (Webhook!Pending(m) <=> posts[m] < MaxAttempts /\ ~ In(m, delivered))
    /\ Webhook!Pending(m) => outbox[m].attempts = posts[m]

WebhookInv ==
  /\ Webhook!TypeOK /\ RequestsAre /\ LoopIs /\ HandedIsDelivered
  /\ PrunedIsSettled /\ RingIsEnd /\ DeliveredOnce /\ Counted

-----------------------------------------------------------------------------

LEMMA LastOfIs ==
  ASSUME NEW S, NEW s \in Seq(S), NEW n \in Nat
  PROVE  Webhook!LastOf(s, n) \in Seq(S) /\ IsEnd(Webhook!LastOf(s, n), s, n)
<1>1. Len(s) \in Nat /\ \A i \in 1 .. Len(s) : s[i] \in S BY LenProperties, ElementOfSeq
<1>2. CASE Len(s) > n
  <2> DEFINE a == Len(s) + 1 - n
  <2>1. a \in Int /\ a >= 2 - 1 /\ Len(s) - a + 1 = n /\ \A i \in a .. Len(s) : s[i] \in S
    BY <1>1, <1>2
  <2>2. Webhook!LastOf(s, n) = SubSeq(s, a, Len(s)) BY <1>2 DEF Webhook!LastOf
  <2>3. /\ SubSeq(s, a, Len(s)) \in Seq(S)
        /\ Len(SubSeq(s, a, Len(s))) = IF a <= Len(s) THEN Len(s) - a + 1 ELSE 0
        /\ \A i \in 1 .. Len(s) - a + 1 : SubSeq(s, a, Len(s))[i] = s[a + i - 1]
    BY <1>1, <2>1, SubSeqProperties
  <2>4. Len(Webhook!LastOf(s, n)) = n BY <1>1, <1>2, <2>2, <2>3
  <2>5. \A j \in 1 .. n : Webhook!LastOf(s, n)[j] = s[(Len(s) - n) + j]
    <3> TAKE j \in 1 .. n
    <3>1. a + j - 1 = (Len(s) - n) + j BY <1>1
    <3> QED BY <2>1, <2>2, <2>3, <3>1
  <2> QED BY <1>2, <2>2, <2>3, <2>4, <2>5 DEF IsEnd
<1>3. CASE ~ Len(s) > n
  <2>1. Webhook!LastOf(s, n) = s BY <1>3 DEF Webhook!LastOf
  <2>2. \A j \in 1 .. Len(s) : s[j] = s[(Len(s) - Len(s)) + j] BY <1>1
  <2> QED BY <1>1, <1>3, <2>1, <2>2 DEF IsEnd
<1> QED BY <1>2, <1>3

(* The end of an end. *)
LEMMA EndGoesOn ==
  ASSUME NEW S, NEW s \in Seq(S), NEW t \in Seq(S), NEW n \in Nat, NEW m \in S, IsEnd(s, t, n)
  PROVE  IsEnd(Webhook!LastOf(Append(s, m), n), Append(t, m), n)
<1> DEFINE s1 == Append(s, m)
           t1 == Append(t, m)
           r == Webhook!LastOf(s1, n)
<1> SUFFICES IsEnd(r, t1, n) OBVIOUS
<1>1. /\ s1 \in Seq(S) /\ Len(s1) = Len(s) + 1 /\ Len(s) \in Nat
      /\ \A i \in 1 .. Len(s) : s1[i] = s[i] /\ s1[Len(s) + 1] = m
  BY AppendProperties, LenProperties
<1>2. /\ t1 \in Seq(S) /\ Len(t1) = Len(t) + 1 /\ Len(t) \in Nat
      /\ \A i \in 1 .. Len(t) : t1[i] = t[i] /\ t1[Len(t) + 1] = m
  BY AppendProperties, LenProperties
<1>3. s1[Len(s) + 1] = m /\ t1[Len(t) + 1] = m BY AppendProperties
<1>4. IsEnd(r, s1, n) BY <1>1, LastOfIs
<1>5. Len(s) = (IF Len(t) > n THEN n ELSE Len(t))
      /\ \A j \in 1 .. Len(s) : s[j] = t[(Len(t) - Len(s)) + j]
  BY DEF IsEnd
<1>6. Len(r) = (IF Len(s1) > n THEN n ELSE Len(s1))
      /\ \A j \in 1 .. Len(r) : r[j] = s1[(Len(s1) - Len(r)) + j]
  BY <1>4 DEF IsEnd
<1> HIDE DEF s1, t1, r
<1>7. Len(r) = (IF Len(t1) > n THEN n ELSE Len(t1)) /\ Len(r) \in Nat /\ Len(r) <= Len(s1)
  BY <1>1, <1>2, <1>5, <1>6
<1>8. ASSUME NEW i \in 1 .. Len(s1) PROVE s1[i] = t1[(Len(t1) - Len(s1)) + i]
  <2>1. CASE i = Len(s) + 1
    <3>1. (Len(t1) - Len(s1)) + i = Len(t) + 1 BY <1>1, <1>2, <2>1
    <3> QED BY <1>3, <2>1, <3>1
  <2>2. CASE i # Len(s) + 1
    <3>1. i \in 1 .. Len(s) BY <1>1, <2>2
    <3>2. (Len(t1) - Len(s1)) + i = (Len(t) - Len(s)) + i
          /\ (Len(t) - Len(s)) + i \in 1 .. Len(t)
      BY <1>1, <1>2, <1>5, <3>1
    <3> QED BY <1>1, <1>2, <1>5, <3>1, <3>2
  <2> QED BY <2>1, <2>2
<1>9. ASSUME NEW j \in 1 .. Len(r) PROVE r[j] = t1[(Len(t1) - Len(r)) + j]
  <2>1. (Len(s1) - Len(r)) + j \in 1 .. Len(s1) BY <1>1, <1>7
  <2>2. (Len(t1) - Len(s1)) + ((Len(s1) - Len(r)) + j) = (Len(t1) - Len(r)) + j
    BY <1>1, <1>2, <1>7
  <2> QED BY <1>6, <1>8, <2>1, <2>2
<1> QED BY <1>7, <1>9 DEF IsEnd

(* Of the new end of the ring, and of what it is the end of. *)
LEMMA RingGoesOn ==
  ASSUME WebhookConstants, Webhook!TypeOK, RingIsEnd, NEW m \in Posted
  PROVE  /\ Webhook!RingAdd(m) \in Seq(Posted) /\ Len(Webhook!RingAdd(m)) <= RingSize
         /\ IsEnd(Webhook!RingAdd(m), Append(delivered, m), RingSize)
<1>1. ring \in Seq(Posted) /\ delivered \in Seq(Posted) /\ RingSize \in Nat
  BY DEF WebhookConstants, Webhook!TypeOK
<1>2. Append(ring, m) \in Seq(Posted) /\ Append(delivered, m) \in Seq(Posted)
  BY <1>1, AppendProperties
<1>3. Webhook!LastOf(Append(ring, m), RingSize) \in Seq(Posted)
      /\ IsEnd(Webhook!LastOf(Append(ring, m), RingSize), Append(ring, m), RingSize)
  BY <1>1, <1>2, LastOfIs
<1>4. Len(Append(ring, m)) \in Nat BY <1>2, LenProperties
<1>5. Len(Webhook!LastOf(Append(ring, m), RingSize)) <= RingSize BY <1>1, <1>3, <1>4 DEF IsEnd
<1>6. IsEnd(Webhook!LastOf(Append(ring, m), RingSize), Append(delivered, m), RingSize)
  BY <1>1, EndGoesOn DEF RingIsEnd
<1> QED BY <1>3, <1>5, <1>6 DEF Webhook!RingAdd

LEMMA InAppended ==
  ASSUME NEW S, NEW s \in Seq(S), NEW m \in S
  PROVE  \A k \in S : In(k, Append(s, m)) <=> In(k, s) \/ k = m
<1>1. /\ Len(Append(s, m)) = Len(s) + 1 /\ Len(s) \in Nat
      /\ \A i \in 1 .. Len(s) : Append(s, m)[i] = s[i]
      /\ Append(s, m)[Len(s) + 1] = m
      /\ DOMAIN s = 1 .. Len(s) /\ DOMAIN Append(s, m) = 1 .. Len(Append(s, m))
  BY AppendProperties, LenProperties
<1> DEFINE t == Append(s, m)
<1> SUFFICES ASSUME NEW k \in S PROVE In(k, t) <=> In(k, s) \/ k = m OBVIOUS
<1> HIDE DEF t
<1>2. \A i \in 1 .. Len(s) + 1 : i \in 1 .. Len(s) \/ i = Len(s) + 1 BY <1>1
<1>3. Len(s) + 1 \in 1 .. Len(s) + 1 /\ \A i \in 1 .. Len(s) : i \in 1 .. Len(s) + 1 BY <1>1
<1> QED BY <1>1, <1>2, <1>3 DEF In, t

LEMMA SettleIs ==
  ASSUME WebhookConstants, Webhook!TypeOK, PrunedIsSettled,
         NEW m \in Posted,
         NEW to \in [state : {"none", "pending", "delivered", "failed"}, attempts : Nat],
         to.state # "none", to.state = "pending" => ~ In(m, terminalIDs),
         Webhook!Settle(m, to)
  PROVE  /\ outbox' \in [Posted -> [state : {"none", "pending", "delivered", "failed"},
                                     attempts : Nat]]
         /\ terminalIDs' \in Seq(Posted) /\ Len(terminalIDs') <= MaxRetained
         /\ PrunedIsSettled'
         /\ Webhook!Pending(m)' <=> to.state = "pending"
         /\ Webhook!Pending(m)' => outbox'[m] = to
         /\ \A k \in Posted \ {m} :
              /\ Webhook!Pending(k)' <=> Webhook!Pending(k)
              /\ Webhook!Pending(k) => outbox'[k] = outbox[k]
              /\ outbox[k].state = "none" => outbox'[k].state = "none"
              /\ ~ In(k, terminalIDs) => ~ In(k, terminalIDs)'
<1> DEFINE Row == [state : {"none", "pending", "delivered", "failed"}, attempts : Nat]
           none == [state |-> "none", attempts |-> 0]
           box == [outbox EXCEPT ![m] = to]
           ids == Append(terminalIDs, m)
<1>1. /\ outbox \in [Posted -> Row] /\ terminalIDs \in Seq(Posted)
      /\ Len(terminalIDs) \in Nat /\ Len(terminalIDs) <= MaxRetained /\ MaxRetained \in Nat
      /\ \A i \in DOMAIN terminalIDs : terminalIDs[i] \in Posted
  BY LenProperties, ElementOfSeq DEF Webhook!TypeOK, WebhookConstants
<1>2. /\ box \in [Posted -> Row] /\ box[m] = to
      /\ \A k \in Posted \ {m} : box[k] = outbox[k]
  BY <1>1
<1>3. CASE to.state = "pending"
  <2>1. outbox' = box /\ terminalIDs' = terminalIDs BY <1>3 DEF Webhook!Settle
  <2>2. PrunedIsSettled' BY <1>1, <1>2, <1>3, <2>1 DEF PrunedIsSettled, Webhook!Pending, In
  <2> QED BY <1>1, <1>2, <1>3, <2>1, <2>2 DEF Webhook!Pending, In
<1>4. CASE to.state # "pending"
  <2>1. /\ terminalIDs' = Webhook!LastOf(ids, MaxRetained)
        /\ outbox' = IF Len(ids) <= MaxRetained THEN box ELSE [box EXCEPT ![Head(ids)] = none]
    BY <1>4 DEF Webhook!Settle, Webhook!RetainTerminal
  <2>2. /\ ids \in Seq(Posted) /\ Len(ids) = Len(terminalIDs) + 1
        /\ \A i \in 1 .. Len(terminalIDs) : ids[i] = terminalIDs[i]
        /\ ids[Len(terminalIDs) + 1] = m
        /\ DOMAIN terminalIDs = 1 .. Len(terminalIDs)
    BY <1>1, AppendProperties, LenProperties
  <2>3. terminalIDs' \in Seq(Posted) /\ IsEnd(terminalIDs', ids, MaxRetained)
    BY <1>1, <2>1, <2>2, LastOfIs
  <2>4. /\ Len(terminalIDs') <= MaxRetained /\ DOMAIN terminalIDs' = 1 .. Len(terminalIDs')
        /\ Len(terminalIDs') \in Nat /\ Len(terminalIDs') <= Len(ids)
    BY <1>1, <2>2, <2>3, LenProperties DEF IsEnd
  <2>5. Head(ids) = ids[1] /\ Head(ids) \in Posted
    BY <1>1, <2>2, HeadTailProperties, EmptySeq, ElementOfSeq
  <2>6. Head(ids) = m \/ ~ Webhook!Pending(Head(ids))
    BY <1>1, <2>2, <2>5 DEF PrunedIsSettled
  <2> HIDE DEF box, ids, none
  <2>7. none \in Row /\ none.state = "none" BY DEF none
  <2>8. /\ outbox' \in [Posted -> Row]
        /\ \A k \in Posted : outbox'[k] = box[k] \/ (k = Head(ids) /\ outbox'[k] = none)
    BY <1>2, <2>1, <2>5, <2>7
  <2>9. \A j \in DOMAIN terminalIDs' : \E i \in 1 .. Len(ids) : terminalIDs'[j] = ids[i]
    <3> TAKE j \in DOMAIN terminalIDs'
    <3>1. terminalIDs'[j] = ids[(Len(ids) - Len(terminalIDs')) + j]
      BY <2>3, <2>4 DEF IsEnd
    <3>2. (Len(ids) - Len(terminalIDs')) + j \in 1 .. Len(ids) BY <1>1, <2>2, <2>4
    <3> QED BY <3>1, <3>2
  <2>10. \A j \in DOMAIN terminalIDs' :
           terminalIDs'[j] = m \/ \E i \in DOMAIN terminalIDs : terminalIDs'[j] = terminalIDs[i]
    <3> TAKE j \in DOMAIN terminalIDs'
    <3>1. PICK i \in 1 .. Len(ids) : terminalIDs'[j] = ids[i] BY <2>9
    <3>2. i = Len(terminalIDs) + 1 \/ i \in 1 .. Len(terminalIDs) BY <1>1, <2>2
    <3> QED BY <2>2, <3>1, <3>2
  <2>11. ~ Webhook!Pending(m)' BY <1>2, <1>4, <2>7, <2>8 DEF Webhook!Pending
  <2>12. \A k \in Posted \ {m} :
           /\ Webhook!Pending(k)' <=> Webhook!Pending(k)
           /\ Webhook!Pending(k) => outbox'[k] = outbox[k]
           /\ outbox[k].state = "none" => outbox'[k].state = "none"
    BY <1>2, <2>6, <2>7, <2>8 DEF Webhook!Pending
  <2>13. \A k \in Posted \ {m} : ~ In(k, terminalIDs) => ~ In(k, terminalIDs)'
    BY <2>10 DEF In
  <2>14. PrunedIsSettled'
    <3> SUFFICES ASSUME NEW j \in DOMAIN terminalIDs' 
                 PROVE  outbox'[terminalIDs'[j]].state # "pending"
      BY DEF PrunedIsSettled, Webhook!Pending
    <3>1. CASE terminalIDs'[j] = m BY <2>11, <3>1 DEF Webhook!Pending
    <3>2. CASE terminalIDs'[j] # m
      <4>1. PICK i \in DOMAIN terminalIDs : terminalIDs'[j] = terminalIDs[i] BY <2>10, <3>2
      <4>2. terminalIDs[i] \in Posted \ {m} /\ ~ Webhook!Pending(terminalIDs[i])
        BY <1>1, <3>2, <4>1 DEF PrunedIsSettled
      <4> QED BY <2>12, <4>1, <4>2 DEF Webhook!Pending
    <3> QED BY <3>1, <3>2
  <2> QED BY <1>4, <2>3, <2>4, <2>8, <2>11, <2>12, <2>13, <2>14
<1> QED BY <1>3, <1>4

-----------------------------------------------------------------------------
(* One lemma for each kind of step. *)

LEMMA WebhookInit == ASSUME WebhookConstants, Webhook!Init PROVE WebhookInv
<1> USE DEF Webhook!Init, WebhookConstants, Webhook!items, Webhook!streams
<1>1. Webhook!TypeOK
  <2>1. << >> \in Seq(Posted) /\ << >> \in Seq(Listener) /\ Len(<< >>) = 0
    BY EmptySeq
  <2>2. {registered, loop} \subseteq BOOLEAN /\ {ripe, due} \subseteq SUBSET Posted
        /\ {closed, gone} \subseteq SUBSET Listener
    OBVIOUS
  <2> QED BY <2>1, <2>2 DEF Webhook!TypeOK, Webhook!Deliverer
<1>2. \A m : ~ In(m, << >>) BY EmptySeq DEF In
<1>3. RequestsAre /\ LoopIs BY <1>2 DEF RequestsAre, LoopIs, Webhook!Deliverer
<1>4. HandedIsDelivered BY EmptySeq DEF HandedIsDelivered, Webhook!Deliverer
<1>5. PrunedIsSettled /\ DeliveredOnce BY EmptySeq DEF PrunedIsSettled, DeliveredOnce
<1>6. RingIsEnd BY EmptySeq DEF RingIsEnd, IsEnd
<1>7. Counted BY DEF Counted, Webhook!Pending
<1> QED BY <1>1, <1>3, <1>4, <1>5, <1>6, <1>7 DEF WebhookInv

(* Steps that disturb only where somebody is, or a lock, or a list. *)
LEMMA WebhookQuiet ==
  ASSUME WebhookConstants, WebhookInv,
         \/ Webhook!RegisterCallback \/ Webhook!BeginClose \/ Webhook!EndClose
              \/ Webhook!LoopReturns
         \/ \E l \in Listener : Webhook!Subscribe(l) \/ Webhook!ContextEnds(l)
              \/ Webhook!Unlist(l) \/ Webhook!CloseChan(l)
         \/ UNCHANGED Webhook!vars
  PROVE  WebhookInv'
<1>1. UNCHANGED <<at, item, todo, Webhook!items, ring, chan, holder, posts, delivered>>
  BY DEF Webhook!RegisterCallback, Webhook!BeginClose, Webhook!EndClose, Webhook!LoopReturns,
    Webhook!Subscribe, Webhook!ContextEnds, Webhook!Unlist,
         Webhook!CloseChan, Webhook!vars, Webhook!streams
<1>2. /\ registered' \in BOOLEAN /\ loop' \in BOOLEAN
      /\ phase' \in {"open", "closing", "closed"}
      /\ closed' \subseteq Listener /\ gone' \subseteq Listener
  BY DEF WebhookInv, Webhook!TypeOK, Webhook!RegisterCallback, Webhook!BeginClose,
    Webhook!EndClose, Webhook!LoopReturns, Webhook!Subscribe,
         Webhook!ContextEnds, Webhook!Unlist, Webhook!CloseChan, Webhook!vars, Webhook!streams
<1>3. subs' \in Seq(Listener)
  <2>1. ASSUME NEW l \in Listener, Webhook!Subscribe(l) PROVE subs' \in Seq(Listener)
    BY <2>1, AppendProperties DEF Webhook!Subscribe, WebhookInv, Webhook!TypeOK
  <2>2. ASSUME NEW l \in Listener, Webhook!Unlist(l) PROVE subs' \in Seq(Listener)
    <3>1. PICK i \in DOMAIN subs : subs' = Webhook!RemoveAt(subs, i) BY <2>2 DEF Webhook!Unlist
    <3>2. subs \in Seq(Listener) BY DEF WebhookInv, Webhook!TypeOK
    <3>3. Len(subs) \in Nat /\ i \in 1 .. Len(subs)
            /\ \A j \in 1 .. Len(subs) : subs[j] \in Listener
      BY <3>1, <3>2, LenProperties, ElementOfSeq
    <3>4. SubSeq(subs, 1, i - 1) \in Seq(Listener)
            /\ SubSeq(subs, i + 1, Len(subs)) \in Seq(Listener)
      BY <3>3, SubSeqProperties
    <3> QED BY <3>1, <3>4, ConcatProperties DEF Webhook!RemoveAt
  <2> QED BY <2>1, <2>2 DEF WebhookInv, Webhook!TypeOK, Webhook!RegisterCallback,
      Webhook!BeginClose, Webhook!EndClose, Webhook!LoopReturns,
         Webhook!ContextEnds, Webhook!CloseChan, Webhook!vars, Webhook!streams
<1>4. Webhook!TypeOK'
  <2>1. {registered', loop'} \subseteq BOOLEAN /\ {closed', gone'} \subseteq SUBSET Listener
    BY <1>2
  <2> QED BY <1>1, <1>2, <1>3, <2>1 DEF WebhookInv, Webhook!TypeOK, Webhook!items
<1>5. RequestsAre' /\ LoopIs' /\ HandedIsDelivered'
  BY <1>1 DEF WebhookInv, RequestsAre, LoopIs, HandedIsDelivered, Webhook!items, Webhook!Pending
<1>6. PrunedIsSettled' /\ RingIsEnd' /\ DeliveredOnce' /\ Counted'
  BY <1>1 DEF WebhookInv, PrunedIsSettled, RingIsEnd, DeliveredOnce, Counted, Webhook!items,
    Webhook!Pending
<1> QED BY <1>4, <1>5, <1>6 DEF WebhookInv

LEMMA WebhookEmit ==
  ASSUME WebhookConstants, WebhookInv, NEW m \in Posted, Webhook!Emit(m)
  PROVE  WebhookInv'
<1> USE DEF WebhookInv, Webhook!Emit, Webhook!items, Webhook!streams
<1>1. m # Loop /\ m # NoRow /\ Posted \subseteq Webhook!Deliverer /\ Loop \in Webhook!Deliverer
  BY DEF WebhookConstants, Webhook!Deliverer
<1>2. Webhook!TypeOK'
  <2>1. at' \in [Webhook!Deliverer -> {"idle", "posting", "handing", "holding", "done"}]
        /\ item' \in [Webhook!Deliverer -> Posted \cup {NoRow}]
    BY <1>1 DEF Webhook!TypeOK
  <2> QED BY <2>1 DEF Webhook!TypeOK
<1>3. \A d \in Webhook!Deliverer \ {m} : at'[d] = at[d] /\ item'[d] = item[d] BY <1>1
    DEF Webhook!TypeOK
<1>4. at'[m] = "posting" /\ item'[m] = m BY <1>1 DEF Webhook!TypeOK
<1>5. RequestsAre' BY <1>1, <1>3, <1>4 DEF RequestsAre
<1>6. LoopIs' BY <1>1, <1>3 DEF LoopIs, Webhook!Pending
<1>7. HandedIsDelivered' BY <1>1, <1>3, <1>4 DEF HandedIsDelivered
<1>8. PrunedIsSettled' /\ RingIsEnd' /\ DeliveredOnce' /\ Counted'
  BY DEF PrunedIsSettled, RingIsEnd, DeliveredOnce, Counted, Webhook!Pending
<1> QED BY <1>2, <1>5, <1>6, <1>7, <1>8

LEMMA WebhookList ==
  ASSUME WebhookConstants, WebhookInv, NEW m \in Posted, Webhook!Ripen(m) \/ Webhook!Tick
    \/ Webhook!Attempt(m)
  PROVE  WebhookInv'
<1> USE DEF WebhookInv, Webhook!items, Webhook!streams
<1>1. Posted \subseteq Webhook!Deliverer /\ Loop \in Webhook!Deliverer /\ Loop \notin Posted
        /\ m # NoRow
  BY DEF WebhookConstants, Webhook!Deliverer
<1>2. UNCHANGED <<registered, phase, loop, todo, outbox, terminalIDs, ring, Webhook!streams, posts,
                  delivered>>
  BY DEF Webhook!Ripen, Webhook!Tick, Webhook!Attempt
<1>3. /\ at' \in [Webhook!Deliverer -> {"idle", "posting", "handing", "holding", "done"}]
      /\ item' \in [Webhook!Deliverer -> Posted \cup {NoRow}]
      /\ \A d \in Posted : at'[d] = at[d] /\ item'[d] = item[d]
  BY <1>1 DEF Webhook!Ripen, Webhook!Tick, Webhook!Attempt, Webhook!TypeOK
<1>4. {ripe, due}' \subseteq SUBSET Posted
  BY DEF Webhook!Ripen, Webhook!Tick, Webhook!Attempt, Webhook!TypeOK
<1>5. Webhook!TypeOK' BY <1>2, <1>3, <1>4 DEF Webhook!TypeOK
<1>6. RequestsAre' BY <1>2, <1>3 DEF RequestsAre
<1>7. LoopIs'
  <2>1. CASE Webhook!Ripen(m) BY <2>1 DEF Webhook!Ripen, LoopIs, Webhook!Pending
  <2>2. CASE Webhook!Tick BY <2>2 DEF Webhook!Tick, LoopIs, Webhook!Pending
  <2>3. CASE Webhook!Attempt(m)
    <3>1. /\ at'[Loop] = "posting" /\ item'[Loop] = m /\ due' = due \ {m} /\ outbox' = outbox
      BY <1>1, <2>3 DEF Webhook!Attempt, Webhook!TypeOK
    <3>2. Webhook!Pending(m) /\ \A k \in due : Webhook!Pending(k) BY <2>3 DEF Webhook!Attempt,
        LoopIs
    <3> QED BY <1>1, <3>1, <3>2 DEF LoopIs, Webhook!Pending
  <2> QED BY <2>1, <2>2, <2>3
<1>8. HandedIsDelivered'
  <2>1. at'[Loop] \in {"handing", "holding"} => at'[Loop] = at[Loop] /\ item'[Loop] = item[Loop]
    BY <1>1 DEF Webhook!Ripen, Webhook!Tick, Webhook!Attempt, Webhook!TypeOK
  <2> QED BY <1>1, <1>2, <1>3, <2>1 DEF HandedIsDelivered, Webhook!Deliverer
<1>9. PrunedIsSettled' /\ RingIsEnd' /\ DeliveredOnce' /\ Counted'
  BY <1>2 DEF PrunedIsSettled, RingIsEnd, DeliveredOnce, Counted, Webhook!Pending
<1> QED BY <1>5, <1>6, <1>7, <1>8, <1>9

(* What a delivery does, whoever makes it. *)
LEMMA DeliveryIs ==
  ASSUME WebhookConstants, WebhookInv, NEW d \in Webhook!Deliverer, NEW m \in Posted,
    Webhook!OnDelivered(d, m),
         ~ In(m, delivered)
  PROVE  /\ ring' \in Seq(Posted) /\ Len(ring') <= RingSize /\ RingIsEnd'
         /\ delivered' \in Seq(Posted) /\ DeliveredOnce'
         /\ \A k \in Posted : In(k, delivered)' <=> In(k, delivered) \/ k = m
         /\ todo' \in [Webhook!Deliverer -> Seq(Listener)]
         /\ at' \in [Webhook!Deliverer -> {"idle", "posting", "handing", "holding", "done"}]
         /\ at'[d] = "handing"
         /\ \A e \in Webhook!Deliverer \ {d} : at'[e] = at[e] /\ todo'[e] = todo[e]
<1> USE DEF Webhook!OnDelivered, WebhookInv
<1>1. ring' \in Seq(Posted) /\ Len(ring') <= RingSize /\ RingIsEnd'
  BY RingGoesOn DEF RingIsEnd
<1>2. delivered \in Seq(Posted) /\ delivered' = Append(delivered, m) BY DEF Webhook!TypeOK
<1>3. delivered' \in Seq(Posted) BY <1>2, AppendProperties
<1>4. \A k \in Posted : In(k, delivered)' <=> In(k, delivered) \/ k = m
  BY <1>2, InAppended DEF In
<1>5. DeliveredOnce'
  <2>1. /\ Len(delivered') = Len(delivered) + 1 /\ Len(delivered) \in Nat
        /\ \A i \in 1 .. Len(delivered) : delivered'[i] = delivered[i] /\ delivered'[i] # m
        /\ delivered'[Len(delivered) + 1] = m
        /\ DOMAIN delivered' = 1 .. Len(delivered) + 1 /\ DOMAIN delivered = 1 .. Len(delivered)
    BY <1>2, <1>3, AppendProperties, LenProperties DEF In
  <2> SUFFICES ASSUME NEW i \in DOMAIN delivered', NEW j \in DOMAIN delivered',
                      delivered'[i] = delivered'[j]
               PROVE  i = j
    BY DEF DeliveredOnce
  <2>2. /\ i = Len(delivered) + 1 \/ i \in 1 .. Len(delivered)
        /\ j = Len(delivered) + 1 \/ j \in 1 .. Len(delivered)
    BY <2>1
  <2> QED BY <2>1, <2>2 DEF DeliveredOnce
<1>6. /\ todo' \in [Webhook!Deliverer -> Seq(Listener)] /\ at'[d] = "handing"
      /\ at' \in [Webhook!Deliverer -> {"idle", "posting", "handing", "holding", "done"}]
      /\ \A e \in Webhook!Deliverer \ {d} : at'[e] = at[e] /\ todo'[e] = todo[e]
  BY DEF Webhook!TypeOK
<1> QED BY <1>1, <1>3, <1>4, <1>5, <1>6

LEMMA WebhookEmitDelivered ==
  ASSUME WebhookConstants, WebhookInv, NEW m \in Posted, Webhook!EmitDelivered(m)
  PROVE  WebhookInv'
<1> USE DEF Webhook!EmitDelivered, Webhook!items, Webhook!streams
<1>1. Posted \subseteq Webhook!Deliverer /\ Loop \in Webhook!Deliverer /\ Loop # m /\ NoRow # m
  BY DEF WebhookConstants, Webhook!Deliverer
<1>2. /\ item[m] = m /\ posts[m] = 0 /\ outbox[m].state = "none"
      /\ ~ In(m, terminalIDs) /\ ~ In(m, delivered)
  BY DEF WebhookInv, RequestsAre
<1>3. /\ ring' \in Seq(Posted) /\ Len(ring') <= RingSize /\ RingIsEnd'
      /\ delivered' \in Seq(Posted) /\ DeliveredOnce'
      /\ \A k \in Posted : In(k, delivered)' <=> In(k, delivered) \/ k = m
      /\ todo' \in [Webhook!Deliverer -> Seq(Listener)]
      /\ at' \in [Webhook!Deliverer -> {"idle", "posting", "handing", "holding", "done"}]
      /\ at'[m] = "handing"
      /\ \A e \in Webhook!Deliverer \ {m} : at'[e] = at[e] /\ todo'[e] = todo[e]
  BY <1>1, <1>2, DeliveryIs
<1>4. /\ posts' \in [Posted -> Nat] /\ posts'[m] = 1
      /\ \A k \in Posted \ {m} : posts'[k] = posts[k]
  BY <1>2 DEF WebhookInv, Webhook!TypeOK
<1>5. Webhook!TypeOK' BY <1>3, <1>4 DEF WebhookInv, Webhook!TypeOK
<1>6. RequestsAre'
  <2> SUFFICES ASSUME NEW k \in Posted
               PROVE  /\ item[k] \in {k, NoRow} /\ (item[k] = NoRow <=> at'[k] = "idle")
                      /\ at'[k] \in {"idle", "posting"} =>
                           /\ posts'[k] = 0 /\ outbox[k].state = "none"
                           /\ ~ In(k, terminalIDs) /\ ~ In(k, delivered)'
                      /\ at'[k] \notin {"idle", "posting"} => posts'[k] > 0
    BY DEF RequestsAre, In
  <2>1. CASE k = m BY <1>1, <1>2, <1>3, <1>4, <2>1
  <2>2. CASE k # m BY <1>1, <1>3, <1>4, <2>2 DEF WebhookInv, RequestsAre
  <2> QED BY <2>1, <2>2
<1>7. LoopIs' BY <1>1, <1>3 DEF WebhookInv, LoopIs, Webhook!Pending
<1>8. HandedIsDelivered'
  <2>1. \A d \in Webhook!Deliverer : at[d] # "idle" => item[d] \in Posted
    BY <1>1 DEF WebhookInv, Webhook!TypeOK, RequestsAre, LoopIs, Webhook!Deliverer
  <2>2. \A l \in Listener : \A i \in DOMAIN chan[l] : chan[l][i] \in Posted
    BY ElementOfSeq, LenProperties DEF WebhookInv, Webhook!TypeOK
  <2>3. \A d \in Webhook!Deliverer : at'[d] \in {"handing", "holding"} => In(item[d], delivered)'
    <3> SUFFICES ASSUME NEW d \in Webhook!Deliverer, at'[d] \in {"handing", "holding"}
                 PROVE  In(item[d], delivered)'
      BY DEF In
    <3>1. CASE d = m BY <1>2, <1>3, <3>1
    <3>2. CASE d # m
      <4>1. at[d] \in {"handing", "holding"} BY <1>3, <3>2
      <4>2. item[d] \in Posted /\ In(item[d], delivered) BY <2>1, <4>1 DEF WebhookInv,
          HandedIsDelivered
      <4> QED BY <1>3, <4>2 DEF In
    <3> QED BY <3>1, <3>2
  <2>4. \A l \in Listener : \A i \in DOMAIN chan[l] : In(chan[l][i], delivered)'
    BY <1>3, <2>2 DEF WebhookInv, HandedIsDelivered, In
  <2>5. \A d \in Webhook!Deliverer : at'[d] = "holding" => todo'[d] # << >>
    BY <1>3 DEF WebhookInv, HandedIsDelivered
  <2> QED BY <2>3, <2>4, <2>5 DEF HandedIsDelivered, In
<1>9. PrunedIsSettled' BY DEF WebhookInv, PrunedIsSettled, Webhook!Pending
<1>10. Counted'
  <2> SUFFICES ASSUME NEW k \in Posted
               PROVE  /\ posts'[k] <= MaxAttempts
                      /\ posts'[k] > 0 =>
                           (Webhook!Pending(k) <=> posts'[k] < MaxAttempts /\ ~ In(k, delivered)')
                      /\ Webhook!Pending(k) => outbox[k].attempts = posts'[k]
    BY DEF Counted, In, Webhook!Pending
  <2>1. CASE k = m BY <1>2, <1>3, <1>4, <2>1 DEF Webhook!Pending, WebhookConstants
  <2>2. CASE k # m BY <1>3, <1>4, <2>2 DEF WebhookInv, Counted
  <2> QED BY <2>1, <2>2
<1> QED BY <1>3, <1>5, <1>6, <1>7, <1>8, <1>9, <1>10 DEF WebhookInv

(* An attempt that fails, the request's or the loop's. *)
LEMMA WebhookEmitFails ==
  ASSUME WebhookConstants, WebhookInv, NEW m \in Posted, Webhook!EmitFails(m)
  PROVE  WebhookInv'
<1> USE DEF Webhook!EmitFails, Webhook!items, Webhook!streams
<1> DEFINE to == Webhook!AfterFailure(m, 1)
<1>1. Posted \subseteq Webhook!Deliverer /\ Loop \in Webhook!Deliverer /\ Loop # m /\ NoRow # m
  BY DEF WebhookConstants, Webhook!Deliverer
<1>2. /\ item[m] = m /\ posts[m] = 0 /\ outbox[m].state = "none"
      /\ ~ In(m, terminalIDs) /\ ~ In(m, delivered)
  BY DEF WebhookInv, RequestsAre
<1>3. /\ to \in [state : {"none", "pending", "delivered", "failed"}, attempts : Nat]
      /\ to.state # "none" /\ to.attempts = 1
      /\ to.state = "pending" <=> 1 < MaxAttempts
  BY DEF Webhook!AfterFailure, WebhookConstants
<1>4. Webhook!TypeOK /\ PrunedIsSettled /\ Webhook!Settle(m, to) BY DEF WebhookInv
<1> HIDE DEF to
<1>5. /\ outbox' \in [Posted -> [state : {"none", "pending", "delivered", "failed"},
                                  attempts : Nat]]
      /\ terminalIDs' \in Seq(Posted) /\ Len(terminalIDs') <= MaxRetained
      /\ PrunedIsSettled'
      /\ Webhook!Pending(m)' <=> to.state = "pending"
      /\ Webhook!Pending(m)' => outbox'[m] = to
      /\ \A k \in Posted \ {m} :
           /\ Webhook!Pending(k)' <=> Webhook!Pending(k)
           /\ Webhook!Pending(k) => outbox'[k] = outbox[k]
           /\ outbox[k].state = "none" => outbox'[k].state = "none"
           /\ ~ In(k, terminalIDs) => ~ In(k, terminalIDs)'
  BY <1>2, <1>3, <1>4, SettleIs
<1>6. /\ posts' \in [Posted -> Nat] /\ posts'[m] = 1
      /\ \A k \in Posted \ {m} : posts'[k] = posts[k]
  BY <1>2 DEF WebhookInv, Webhook!TypeOK
<1>7. /\ at' \in [Webhook!Deliverer -> {"idle", "posting", "handing", "holding", "done"}]
      /\ at'[m] = "done" /\ \A d \in Webhook!Deliverer \ {m} : at'[d] = at[d]
  BY <1>1 DEF WebhookInv, Webhook!TypeOK
<1>8. Webhook!TypeOK' BY <1>5, <1>6, <1>7 DEF WebhookInv, Webhook!TypeOK
<1>9. RequestsAre'
  <2> SUFFICES ASSUME NEW k \in Posted
               PROVE  /\ item[k] \in {k, NoRow} /\ (item[k] = NoRow <=> at'[k] = "idle")
                      /\ at'[k] \in {"idle", "posting"} =>
                           /\ posts'[k] = 0 /\ outbox'[k].state = "none"
                           /\ ~ In(k, terminalIDs)' /\ ~ In(k, delivered)
                      /\ at'[k] \notin {"idle", "posting"} => posts'[k] > 0
    BY DEF RequestsAre, In
  <2>1. CASE k = m BY <1>1, <1>2, <1>6, <1>7, <2>1
  <2>2. CASE k # m BY <1>1, <1>5, <1>6, <1>7, <2>2 DEF WebhookInv, RequestsAre
  <2> QED BY <2>1, <2>2
<1>10. LoopIs'
  <2>1. at'[Loop] = at[Loop] BY <1>1, <1>7
  <2>2. \A k \in Posted : Webhook!Pending(k) => Webhook!Pending(k)'
    BY <1>2, <1>5 DEF Webhook!Pending
  <2>3. at[Loop] = "posting" => item[Loop] \in Posted
    BY <1>1 DEF WebhookInv, LoopIs, Webhook!TypeOK
  <2>4. \A k \in due : k \in Posted BY DEF WebhookInv, Webhook!TypeOK
  <2> QED BY <2>1, <2>2, <2>3, <2>4 DEF WebhookInv, LoopIs, Webhook!Pending
<1>11. HandedIsDelivered'
  <2>1. \A d \in Webhook!Deliverer : at'[d] \in {"handing", "holding"} => at[d] = at'[d]
    BY <1>7
  <2> QED BY <2>1 DEF WebhookInv, HandedIsDelivered
<1>12. Counted'
  <2> SUFFICES ASSUME NEW k \in Posted
               PROVE  /\ posts'[k] <= MaxAttempts
                      /\ posts'[k] > 0 =>
                           (Webhook!Pending(k)' <=> posts'[k] < MaxAttempts /\ ~ In(k, delivered))
                      /\ Webhook!Pending(k)' => outbox'[k].attempts = posts'[k]
    BY DEF Counted, In, Webhook!Pending
  <2>1. CASE k = m BY <1>2, <1>3, <1>5, <1>6, <2>1 DEF WebhookConstants
  <2>2. CASE k # m BY <1>5, <1>6, <2>2 DEF WebhookInv, Counted
  <2> QED BY <2>1, <2>2
<1>13. RingIsEnd' /\ DeliveredOnce' BY DEF WebhookInv, RingIsEnd, DeliveredOnce
<1> QED BY <1>5, <1>8, <1>9, <1>10, <1>11, <1>12, <1>13 DEF WebhookInv

(* What the loop posts is pending, was attempted, and is of a request that *)
(* is past its own attempt. *)
LEMMA LoopPosts ==
  ASSUME WebhookConstants, WebhookInv, at[Loop] = "posting"
  PROVE  LET m == item[Loop]
         IN /\ m \in Posted /\ Webhook!Pending(m) /\ m \notin due
            /\ posts[m] \in Nat \ {0} /\ posts[m] < MaxAttempts /\ outbox[m].attempts = posts[m]
            /\ ~ In(m, delivered) /\ ~ In(m, terminalIDs) /\ at[m] \notin {"idle", "posting"}
<1> DEFINE m == item[Loop]
<1>1. Loop \in Webhook!Deliverer /\ Posted \subseteq Webhook!Deliverer BY DEF Webhook!Deliverer
<1>2. m \in Posted /\ Webhook!Pending(m) /\ m \notin due BY <1>1 DEF WebhookInv, LoopIs,
    Webhook!TypeOK
<1>3. at[m] \notin {"idle", "posting"} BY <1>2 DEF WebhookInv, RequestsAre, Webhook!Pending
<1>4. posts[m] \in Nat /\ posts[m] > 0 BY <1>2, <1>3 DEF WebhookInv, RequestsAre, Webhook!TypeOK
<1>5. posts[m] < MaxAttempts /\ ~ In(m, delivered) /\ outbox[m].attempts = posts[m]
  BY <1>2, <1>4 DEF WebhookInv, Counted
<1>6. ~ In(m, terminalIDs) BY <1>2 DEF WebhookInv, PrunedIsSettled, In
<1> QED BY <1>2, <1>3, <1>4, <1>5, <1>6

LEMMA WebhookAttemptFails ==
  ASSUME WebhookConstants, WebhookInv, Webhook!AttemptFails
  PROVE  WebhookInv'
<1> USE DEF Webhook!AttemptFails, Webhook!items, Webhook!streams
<1>0. item[Loop] \in Posted BY LoopPosts
<1> SUFFICES ASSUME NEW m \in Posted, m = item[Loop] PROVE WebhookInv' BY <1>0
<1> DEFINE to == Webhook!AfterFailure(m, outbox[m].attempts + 1)
<1>1. Posted \subseteq Webhook!Deliverer /\ Loop \in Webhook!Deliverer /\ Loop \notin Posted
      /\ NoRow \notin Posted /\ MaxAttempts \in Nat
  BY DEF WebhookConstants, Webhook!Deliverer
<1>2. /\ m \in Posted /\ Webhook!Pending(m) /\ m \notin due
      /\ posts[m] \in Nat \ {0} /\ posts[m] < MaxAttempts /\ outbox[m].attempts = posts[m]
      /\ ~ In(m, delivered) /\ ~ In(m, terminalIDs) /\ at[m] \notin {"idle", "posting"}
  BY LoopPosts
<1>3. /\ posts' = [posts EXCEPT ![m] = @ + 1] /\ Webhook!Settle(m, to)
      /\ at' = [at EXCEPT ![Loop] = "idle"] /\ item' = [item EXCEPT ![Loop] = NoRow]
  OBVIOUS
<1>4. /\ to \in [state : {"none", "pending", "delivered", "failed"}, attempts : Nat]
      /\ to.state # "none" /\ to.attempts = posts[m] + 1
      /\ to.state = "pending" <=> posts[m] + 1 < MaxAttempts
  BY <1>1, <1>2 DEF Webhook!AfterFailure
<1>5. Webhook!TypeOK /\ PrunedIsSettled BY DEF WebhookInv
<1> HIDE DEF to
<1>6. /\ outbox' \in [Posted -> [state : {"none", "pending", "delivered", "failed"},
                                  attempts : Nat]]
      /\ terminalIDs' \in Seq(Posted) /\ Len(terminalIDs') <= MaxRetained
      /\ PrunedIsSettled'
      /\ Webhook!Pending(m)' <=> to.state = "pending"
      /\ Webhook!Pending(m)' => outbox'[m] = to
      /\ \A k \in Posted \ {m} :
           /\ Webhook!Pending(k)' <=> Webhook!Pending(k)
           /\ Webhook!Pending(k) => outbox'[k] = outbox[k]
           /\ outbox[k].state = "none" => outbox'[k].state = "none"
           /\ ~ In(k, terminalIDs) => ~ In(k, terminalIDs)'
  BY <1>2, <1>3, <1>4, <1>5, SettleIs
<1>7. /\ posts' \in [Posted -> Nat] /\ posts'[m] = posts[m] + 1
      /\ \A k \in Posted \ {m} : posts'[k] = posts[k]
  BY <1>2, <1>3 DEF WebhookInv, Webhook!TypeOK
<1>8. /\ at' \in [Webhook!Deliverer -> {"idle", "posting", "handing", "holding", "done"}]
      /\ at'[Loop] = "idle" /\ \A d \in Webhook!Deliverer \ {Loop} : at'[d] = at[d]
      /\ item' \in [Webhook!Deliverer -> Posted \cup {NoRow}]
      /\ item'[Loop] = NoRow /\ \A d \in Webhook!Deliverer \ {Loop} : item'[d] = item[d]
  BY <1>1, <1>3 DEF WebhookInv, Webhook!TypeOK
<1>9. Webhook!TypeOK' BY <1>6, <1>7, <1>8 DEF WebhookInv, Webhook!TypeOK
<1>10. RequestsAre'
  <2> SUFFICES ASSUME NEW k \in Posted
               PROVE  /\ item'[k] \in {k, NoRow} /\ (item'[k] = NoRow <=> at'[k] = "idle")
                      /\ at'[k] \in {"idle", "posting"} =>
                           /\ posts'[k] = 0 /\ outbox'[k].state = "none"
                           /\ ~ In(k, terminalIDs)' /\ ~ In(k, delivered)
                      /\ at'[k] \notin {"idle", "posting"} => posts'[k] > 0
    BY DEF RequestsAre, In
  <2>0. item'[k] = item[k] /\ at'[k] = at[k] BY <1>1, <1>8
  <2>1. CASE k = m BY <1>2, <1>7, <2>0, <2>1 DEF WebhookInv, RequestsAre
  <2>2. CASE k # m BY <1>6, <1>7, <2>0, <2>2 DEF WebhookInv, RequestsAre
  <2> QED BY <2>1, <2>2
<1>11. LoopIs'
  <2>1. \A k \in due : k \in Posted \ {m} /\ Webhook!Pending(k) BY <1>2 DEF WebhookInv,
      Webhook!TypeOK, LoopIs
  <2> QED BY <1>6, <1>8, <2>1 DEF LoopIs, Webhook!Pending
<1>12. HandedIsDelivered'
  <2>1. \A d \in Webhook!Deliverer : at'[d] \in {"handing", "holding"} =>
           at[d] = at'[d] /\ item'[d] = item[d]
    BY <1>8
  <2> QED BY <2>1 DEF WebhookInv, HandedIsDelivered
<1>13. Counted'
  <2> SUFFICES ASSUME NEW k \in Posted
               PROVE  /\ posts'[k] <= MaxAttempts
                      /\ posts'[k] > 0 =>
                           (Webhook!Pending(k)' <=> posts'[k] < MaxAttempts /\ ~ In(k, delivered))
                      /\ Webhook!Pending(k)' => outbox'[k].attempts = posts'[k]
    BY DEF Counted, In, Webhook!Pending
  <2>1. CASE k = m BY <1>1, <1>2, <1>4, <1>6, <1>7, <2>1
  <2>2. CASE k # m BY <1>6, <1>7, <2>2 DEF WebhookInv, Counted
  <2> QED BY <2>1, <2>2
<1>14. RingIsEnd' /\ DeliveredOnce' BY DEF WebhookInv, RingIsEnd, DeliveredOnce
<1> QED BY <1>6, <1>9, <1>10, <1>11, <1>12, <1>13, <1>14 DEF WebhookInv

LEMMA WebhookAttemptDelivered ==
  ASSUME WebhookConstants, WebhookInv, Webhook!AttemptDelivered
  PROVE  WebhookInv'
<1> USE DEF Webhook!AttemptDelivered, Webhook!items, Webhook!streams
<1>0. item[Loop] \in Posted BY LoopPosts
<1> SUFFICES ASSUME NEW m \in Posted, m = item[Loop] PROVE WebhookInv' BY <1>0
<1> DEFINE to == [state |-> "delivered", attempts |-> outbox[m].attempts + 1]
<1>1. Posted \subseteq Webhook!Deliverer /\ Loop \in Webhook!Deliverer /\ Loop \notin Posted
      /\ NoRow \notin Posted /\ MaxAttempts \in Nat
  BY DEF WebhookConstants, Webhook!Deliverer
<1>2. /\ m \in Posted /\ Webhook!Pending(m) /\ m \notin due
      /\ posts[m] \in Nat \ {0} /\ posts[m] < MaxAttempts /\ outbox[m].attempts = posts[m]
      /\ ~ In(m, delivered) /\ ~ In(m, terminalIDs) /\ at[m] \notin {"idle", "posting"}
  BY LoopPosts
<1>3. posts' = [posts EXCEPT ![m] = @ + 1] /\ Webhook!Settle(m, to) /\ Webhook!OnDelivered(Loop, m)
  OBVIOUS
<1>4. /\ to \in [state : {"none", "pending", "delivered", "failed"}, attempts : Nat]
      /\ to.state # "none" /\ to.state # "pending"
  BY <1>1, <1>2
<1>5. Webhook!TypeOK /\ PrunedIsSettled BY DEF WebhookInv
<1> HIDE DEF to
<1>6. /\ outbox' \in [Posted -> [state : {"none", "pending", "delivered", "failed"},
                                  attempts : Nat]]
      /\ terminalIDs' \in Seq(Posted) /\ Len(terminalIDs') <= MaxRetained
      /\ PrunedIsSettled'
      /\ Webhook!Pending(m)' <=> to.state = "pending"
      /\ Webhook!Pending(m)' => outbox'[m] = to
      /\ \A k \in Posted \ {m} :
           /\ Webhook!Pending(k)' <=> Webhook!Pending(k)
           /\ Webhook!Pending(k) => outbox'[k] = outbox[k]
           /\ outbox[k].state = "none" => outbox'[k].state = "none"
           /\ ~ In(k, terminalIDs) => ~ In(k, terminalIDs)'
  BY <1>2, <1>3, <1>4, <1>5, SettleIs
<1>7. /\ posts' \in [Posted -> Nat] /\ posts'[m] = posts[m] + 1
      /\ \A k \in Posted \ {m} : posts'[k] = posts[k]
  BY <1>2, <1>3 DEF WebhookInv, Webhook!TypeOK
<1>8. /\ ring' \in Seq(Posted) /\ Len(ring') <= RingSize /\ RingIsEnd'
      /\ delivered' \in Seq(Posted) /\ DeliveredOnce'
      /\ \A k \in Posted : In(k, delivered)' <=> In(k, delivered) \/ k = m
      /\ todo' \in [Webhook!Deliverer -> Seq(Listener)]
      /\ at' \in [Webhook!Deliverer -> {"idle", "posting", "handing", "holding", "done"}]
      /\ at'[Loop] = "handing"
      /\ \A e \in Webhook!Deliverer \ {Loop} : at'[e] = at[e] /\ todo'[e] = todo[e]
  BY <1>1, <1>2, <1>3, DeliveryIs
<1>9. Webhook!TypeOK' BY <1>6, <1>7, <1>8 DEF WebhookInv, Webhook!TypeOK
<1>10. RequestsAre'
  <2> SUFFICES ASSUME NEW k \in Posted
               PROVE  /\ item[k] \in {k, NoRow} /\ (item[k] = NoRow <=> at'[k] = "idle")
                      /\ at'[k] \in {"idle", "posting"} =>
                           /\ posts'[k] = 0 /\ outbox'[k].state = "none"
                           /\ ~ In(k, terminalIDs)' /\ ~ In(k, delivered)'
                      /\ at'[k] \notin {"idle", "posting"} => posts'[k] > 0
    BY DEF RequestsAre, In
  <2>0. at'[k] = at[k] BY <1>1, <1>8
  <2>1. CASE k = m BY <1>2, <1>7, <2>0, <2>1 DEF WebhookInv, RequestsAre
  <2>2. CASE k # m BY <1>6, <1>7, <1>8, <2>0, <2>2 DEF WebhookInv, RequestsAre
  <2> QED BY <2>1, <2>2
<1>11. LoopIs'
  <2>1. \A k \in due : k \in Posted \ {m} /\ Webhook!Pending(k) BY <1>2 DEF WebhookInv,
      Webhook!TypeOK, LoopIs
  <2> QED BY <1>1, <1>6, <1>8, <2>1 DEF LoopIs, Webhook!Pending
<1>12. HandedIsDelivered'
  <2>1. \A d \in Webhook!Deliverer : at[d] # "idle" => item[d] \in Posted
    BY <1>1 DEF WebhookInv, Webhook!TypeOK, RequestsAre, LoopIs, Webhook!Deliverer
  <2>2. \A l \in Listener : \A i \in DOMAIN chan[l] : chan[l][i] \in Posted
    BY ElementOfSeq, LenProperties DEF WebhookInv, Webhook!TypeOK
  <2>3. \A d \in Webhook!Deliverer : at'[d] \in {"handing", "holding"} => In(item[d], delivered)'
    <3> SUFFICES ASSUME NEW d \in Webhook!Deliverer, at'[d] \in {"handing", "holding"}
                 PROVE  In(item[d], delivered)'
      BY DEF In
    <3>1. CASE d = Loop BY <1>2, <1>8, <3>1 DEF In
    <3>2. CASE d # Loop
      <4>1. at[d] \in {"handing", "holding"} BY <1>8, <3>2
      <4>2. item[d] \in Posted /\ In(item[d], delivered) BY <2>1, <4>1 DEF WebhookInv,
          HandedIsDelivered
      <4> QED BY <1>8, <4>2 DEF In
    <3> QED BY <3>1, <3>2
  <2>4. \A l \in Listener : \A i \in DOMAIN chan[l] : In(chan[l][i], delivered)'
    BY <1>8, <2>2 DEF WebhookInv, HandedIsDelivered, In
  <2>5. \A d \in Webhook!Deliverer : at'[d] = "holding" => todo'[d] # << >>
    BY <1>8 DEF WebhookInv, HandedIsDelivered
  <2> QED BY <2>3, <2>4, <2>5 DEF HandedIsDelivered, In
<1>13. Counted'
  <2> SUFFICES ASSUME NEW k \in Posted
               PROVE  /\ posts'[k] <= MaxAttempts
                      /\ posts'[k] > 0 =>
                           (Webhook!Pending(k)' <=> posts'[k] < MaxAttempts /\ ~ In(k, delivered)')
                      /\ Webhook!Pending(k)' => outbox'[k].attempts = posts'[k]
    BY DEF Counted, In, Webhook!Pending
  <2>1. CASE k = m BY <1>1, <1>2, <1>4, <1>6, <1>7, <1>8, <2>1
  <2>2. CASE k # m BY <1>6, <1>7, <1>8, <2>2 DEF WebhookInv, Counted
  <2> QED BY <2>1, <2>2
<1> QED BY <1>6, <1>8, <1>9, <1>10, <1>11, <1>12, <1>13 DEF WebhookInv

(* Of the steps of a delivery that hand over. *)
LEMMA WebhookHanding ==
  ASSUME WebhookConstants, WebhookInv, (\E d \in Webhook!Deliverer : Webhook!Handing(d))
    \/ (\E l \in Listener : Webhook!Read(l))
  PROVE  WebhookInv'
<1> USE DEF Webhook!items, Webhook!streams
<1>1. Posted \subseteq Webhook!Deliverer /\ Loop \in Webhook!Deliverer /\ Loop \notin Posted
      /\ NoRow \notin Posted
      /\ \A d \in Webhook!Deliverer : d \in Posted \/ d = Loop
  BY DEF WebhookConstants, Webhook!Deliverer
<1>2. UNCHANGED <<registered, phase, loop, Webhook!items, ring, subs, closed, gone, posts, delivered>>
  BY DEF Webhook!Handing, Webhook!Lock, Webhook!Hand, Webhook!HandedAll, Webhook!Read
<1>3. \A d \in Webhook!Deliverer : at[d] \in {"handing", "holding"} => item[d] \in Posted
  BY <1>1 DEF WebhookInv, Webhook!TypeOK, RequestsAre, LoopIs
<1>4. ASSUME NEW l \in Listener
      PROVE  /\ chan[l] \in Seq(Posted) /\ Len(chan[l]) \in Nat
             /\ DOMAIN chan[l] = 1 .. Len(chan[l])
             /\ \A i \in 1 .. Len(chan[l]) : In(chan[l][i], delivered)
  BY LenProperties DEF WebhookInv, Webhook!TypeOK, HandedIsDelivered
<1>5. CASE \E l \in Listener : Webhook!Read(l)
  <2> PICK l \in Listener : Webhook!Read(l) BY <1>5
  <2>1. UNCHANGED <<at, item, todo, holder>> /\ chan' = [chan EXCEPT ![l] = Tail(@)]
        /\ chan[l] # << >>
    BY DEF Webhook!Read
  <2>2. /\ Tail(chan[l]) \in Seq(Posted)
        /\ \A i \in DOMAIN Tail(chan[l]) : In(Tail(chan[l])[i], delivered)
    <3>1. /\ Tail(chan[l]) \in Seq(Posted) /\ Len(Tail(chan[l])) = Len(chan[l]) - 1
          /\ \A i \in 1 .. Len(chan[l]) - 1 : Tail(chan[l])[i] = chan[l][i + 1]
      BY <1>4, <2>1, HeadTailProperties
    <3>2. DOMAIN Tail(chan[l]) = 1 .. Len(chan[l]) - 1 BY <3>1, LenProperties
    <3>3. \A i \in 1 .. Len(chan[l]) - 1 : i + 1 \in 1 .. Len(chan[l]) BY <1>4
    <3> QED BY <1>4, <3>1, <3>2, <3>3
  <2>3. chan' \in [Listener -> Seq(Posted)]
        /\ \A k \in Listener : \A i \in DOMAIN chan'[k] : In(chan'[k][i], delivered)
    BY <2>1, <2>2 DEF WebhookInv, Webhook!TypeOK, HandedIsDelivered
  <2>4. Webhook!TypeOK' BY <1>2, <2>1, <2>3 DEF WebhookInv, Webhook!TypeOK
  <2>5. RequestsAre' /\ LoopIs'
    BY <1>2, <2>1 DEF WebhookInv, RequestsAre, LoopIs, Webhook!Pending
  <2>6. HandedIsDelivered' BY <1>2, <2>1, <2>3 DEF WebhookInv, HandedIsDelivered, In
  <2>7. PrunedIsSettled' /\ RingIsEnd' /\ DeliveredOnce' /\ Counted'
    BY <1>2 DEF WebhookInv, PrunedIsSettled, RingIsEnd, DeliveredOnce, Counted, Webhook!Pending
  <2> QED BY <2>4, <2>5, <2>6, <2>7 DEF WebhookInv
<1>6. CASE \E d \in Webhook!Deliverer : Webhook!Handing(d)
  <2> PICK d \in Webhook!Deliverer : Webhook!Handing(d) BY <1>6
  <2>1. at[d] \in {"handing", "holding"} /\ item[d] \in Posted /\ In(item[d], delivered)
    BY <1>3 DEF Webhook!Handing, Webhook!Lock, Webhook!Hand, Webhook!HandedAll, WebhookInv,
      HandedIsDelivered
  <2>2. /\ at' \in [Webhook!Deliverer -> {"idle", "posting", "handing", "holding", "done"}]
        /\ \A e \in Webhook!Deliverer \ {d} : at'[e] = at[e] /\ todo'[e] = todo[e]
        /\ item' \in [Webhook!Deliverer -> Posted \cup {NoRow}]
        /\ \A e \in Posted : item'[e] = item[e]
        /\ at'[d] \in {"handing", "holding"} => item'[Loop] = item[Loop]
        /\ d # Loop => item'[Loop] = item[Loop] /\ at'[d] \in {"handing", "holding", "done"}
        /\ d = Loop => \/ at'[d] \in {"handing", "holding"}
                       \/ at'[d] = "idle" /\ item'[d] = NoRow
    <3>1. CASE Webhook!Lock(d) BY <1>1, <3>1 DEF Webhook!Lock, WebhookInv, Webhook!TypeOK
    <3>2. CASE Webhook!Hand(d) BY <1>1, <3>2 DEF Webhook!Hand, WebhookInv, Webhook!TypeOK
    <3>3. CASE Webhook!HandedAll(d) BY <1>1, <3>3 DEF Webhook!HandedAll, WebhookInv, Webhook!TypeOK
    <3> QED BY <3>1, <3>2, <3>3 DEF Webhook!Handing
  <2>3. /\ todo' \in [Webhook!Deliverer -> Seq(Listener)]
        /\ holder' \in [Listener -> Webhook!Deliverer \cup {NoRow}]
        /\ at'[d] = "holding" => todo'[d] # << >>
        /\ chan' \in [Listener -> Seq(Posted)]
        /\ \A l \in Listener : \A i \in DOMAIN chan'[l] : In(chan'[l][i], delivered)
    <3>0. todo[d] \in Seq(Listener) /\ (todo[d] # << >> =>
             Head(todo[d]) \in Listener /\ Tail(todo[d]) \in Seq(Listener))
      BY HeadTailProperties DEF WebhookInv, Webhook!TypeOK
    <3>1. CASE Webhook!Lock(d) BY <3>0, <3>1 DEF Webhook!Lock, WebhookInv, Webhook!TypeOK,
        HandedIsDelivered
    <3>2. CASE Webhook!Hand(d)
      <4> DEFINE l == Head(todo[d])
      <4>1. todo[d] # << >> /\ at[d] = "holding" BY <3>2 DEF Webhook!Hand, WebhookInv,
          HandedIsDelivered
      <4>2. l \in Listener BY <3>0, <4>1
      <4>3. /\ holder' = [holder EXCEPT ![l] = NoRow]
            /\ todo' = [todo EXCEPT ![d] = Tail(@)]
            /\ chan' = [chan EXCEPT ![l] = Append(@, item[d])] \/ chan' = chan
            /\ at'[d] = "handing"
        BY <3>2 DEF Webhook!Hand, WebhookInv, Webhook!TypeOK
      <4>4. /\ Append(chan[l], item[d]) \in Seq(Posted)
            /\ \A i \in DOMAIN Append(chan[l], item[d]) :
                 In(Append(chan[l], item[d])[i], delivered)
        <5> HIDE DEF l
        <5> DEFINE c == Append(chan[l], item[d])
        <5>1. /\ c \in Seq(Posted) /\ Len(c) = Len(chan[l]) + 1
              /\ \A i \in 1 .. Len(chan[l]) : c[i] = chan[l][i]
              /\ c[Len(chan[l]) + 1] = item[d] /\ DOMAIN c = 1 .. Len(c)
          BY <1>4, <2>1, <4>2, AppendProperties, LenProperties
        <5> SUFFICES c \in Seq(Posted) /\ \A i \in DOMAIN c : In(c[i], delivered) OBVIOUS
        <5> HIDE DEF c
        <5>2. \A i \in DOMAIN c : i \in 1 .. Len(chan[l]) \/ i = Len(chan[l]) + 1
          BY <1>4, <4>2, <5>1
        <5> QED BY <1>4, <2>1, <4>2, <5>1, <5>2
      <4> HIDE DEF l
      <4>5. chan' \in [Listener -> Seq(Posted)] BY <4>2, <4>3, <4>4 DEF WebhookInv, Webhook!TypeOK
      <4>6. \A k \in Listener : chan'[k] = chan[k] \/ (k = l
              /\ chan'[k] = Append(chan[l], item[d]))
        BY <4>2, <4>3 DEF WebhookInv, Webhook!TypeOK
      <4>7. \A k \in Listener : \A i \in DOMAIN chan'[k] : In(chan'[k][i], delivered)
        BY <4>4, <4>6 DEF WebhookInv, HandedIsDelivered
      <4> QED BY <3>0, <4>1, <4>2, <4>3, <4>5, <4>7 DEF WebhookInv, Webhook!TypeOK
    <3>3. CASE Webhook!HandedAll(d) BY <3>3 DEF Webhook!HandedAll, WebhookInv, Webhook!TypeOK,
        HandedIsDelivered
    <3> QED BY <3>1, <3>2, <3>3 DEF Webhook!Handing
  <2>4. Webhook!TypeOK' BY <1>2, <2>2, <2>3 DEF WebhookInv, Webhook!TypeOK
  <2>5. RequestsAre'
    <3> SUFFICES ASSUME NEW k \in Posted
                 PROVE  /\ item'[k] \in {k, NoRow} /\ (item'[k] = NoRow <=> at'[k] = "idle")
                        /\ at'[k] \in {"idle", "posting"} =>
                             /\ posts[k] = 0 /\ outbox[k].state = "none"
                             /\ ~ In(k, terminalIDs) /\ ~ In(k, delivered)
                        /\ at'[k] \notin {"idle", "posting"} => posts[k] > 0
      BY <1>2 DEF RequestsAre, In
    <3>1. CASE k = d BY <1>1, <2>1, <2>2, <3>1 DEF WebhookInv, RequestsAre
    <3>2. CASE k # d BY <1>1, <2>2, <3>2 DEF WebhookInv, RequestsAre
    <3> QED BY <3>1, <3>2
  <2>6. LoopIs'
    <3>1. CASE d = Loop BY <1>2, <2>1, <2>2, <3>1 DEF WebhookInv, LoopIs, Webhook!Pending
    <3>2. CASE d # Loop BY <1>1, <1>2, <2>2, <3>2 DEF WebhookInv, LoopIs, Webhook!Pending
    <3> QED BY <3>1, <3>2
  <2>7. HandedIsDelivered'
    <3>1. ASSUME NEW e \in Webhook!Deliverer, at'[e] \in {"handing", "holding"}
          PROVE  In(item'[e], delivered) /\ (at'[e] = "holding" => todo'[e] # << >>)
      <4>1. item'[e] = item[e] BY <1>1, <2>2, <3>1
      <4>2. CASE e = d BY <2>1, <2>3, <4>1, <4>2
      <4>3. CASE e # d BY <2>2, <3>1, <4>1, <4>3 DEF WebhookInv, HandedIsDelivered
      <4> QED BY <4>2, <4>3
    <3> QED BY <1>2, <2>3, <3>1 DEF HandedIsDelivered, In
  <2>8. PrunedIsSettled' /\ RingIsEnd' /\ DeliveredOnce' /\ Counted'
    BY <1>2 DEF WebhookInv, PrunedIsSettled, RingIsEnd, DeliveredOnce, Counted, Webhook!Pending
  <2> QED BY <2>4, <2>5, <2>6, <2>7, <2>8 DEF WebhookInv
<1> QED BY <1>5, <1>6

LEMMA WebhookNext ==
  ASSUME WebhookConstants, WebhookInv, [Webhook!Next]_(Webhook!vars)
  PROVE  WebhookInv'
<1>1. CASE \E m \in Posted : Webhook!Emit(m) \/ Webhook!Requesting(m) \/ Webhook!Ripen(m)
  BY <1>1, WebhookEmit, WebhookEmitDelivered, WebhookEmitFails, WebhookList DEF Webhook!Requesting
<1>2. CASE Webhook!Looping
  <2>1. Webhook!Tick => \E m \in Posted : Webhook!Tick BY DEF Webhook!Tick, WebhookInv,
      Webhook!TypeOK
  <2> QED BY <1>2, <2>1, WebhookList, WebhookAttemptFails, WebhookAttemptDelivered
      DEF Webhook!Looping
<1>3. CASE \E d \in Webhook!Deliverer : Webhook!Handing(d) BY <1>3, WebhookHanding
<1>4. CASE \E l \in Listener :
             Webhook!Subscribe(l) \/ Webhook!Read(l) \/ Webhook!ContextEnds(l)
               \/ Webhook!Unlist(l) \/ Webhook!CloseChan(l)
  BY <1>4, WebhookQuiet, WebhookHanding
<1>5. CASE Webhook!LoopReturns \/ Webhook!RegisterCallback \/ Webhook!BeginClose
             \/ Webhook!EndClose \/ UNCHANGED Webhook!vars
  BY <1>5, WebhookQuiet
<1> QED BY <1>1, <1>2, <1>3, <1>4, <1>5 DEF Webhook!Next

(* What is waiting was delivered; the ring is the end of that; so it is in *)
(* the ring, or RingSize came after it.                                    *)
LEMMA WaitingIsAckable == ASSUME WebhookConstants, WebhookInv PROVE Webhook!ReceivedIsAckable
<1> SUFFICES ASSUME NEW l \in Listener, NEW i \in DOMAIN chan[l], ~ Webhook!Ackable(chan[l][i])
             PROVE  \E j \in DOMAIN delivered :
                      delivered[j] = chan[l][i] /\ Len(delivered) - j >= RingSize
  BY DEF Webhook!ReceivedIsAckable
<1>1. PICK j \in DOMAIN delivered : delivered[j] = chan[l][i]
  BY DEF WebhookInv, HandedIsDelivered, In
<1>2. /\ Len(ring) = IF Len(delivered) > RingSize THEN RingSize ELSE Len(delivered)
      /\ \A k \in 1 .. Len(ring) : ring[k] = delivered[(Len(delivered) - Len(ring)) + k]
  BY DEF WebhookInv, RingIsEnd, IsEnd
<1>3. /\ Len(delivered) \in Nat /\ Len(ring) \in Nat /\ RingSize \in Nat
      /\ DOMAIN ring = 1 .. Len(ring) /\ j \in 1 .. Len(delivered)
  BY LenProperties DEF WebhookInv, Webhook!TypeOK, WebhookConstants
<1>4. ~ j - (Len(delivered) - Len(ring)) \in 1 .. Len(ring)
  <2> DEFINE k == j - (Len(delivered) - Len(ring))
  <2> SUFFICES ASSUME k \in 1 .. Len(ring) PROVE FALSE OBVIOUS
  <2>1. (Len(delivered) - Len(ring)) + k = j BY <1>3
  <2>2. ring[k] = delivered[j] BY <1>2, <2>1
  <2> QED BY <1>1, <1>3, <2>2 DEF Webhook!Ackable
<1> QED BY <1>1, <1>2, <1>3, <1>4

LEMMA AttemptsAreCounted == ASSUME WebhookConstants, WebhookInv PROVE Webhook!AttemptsCounted
<1> SUFFICES ASSUME NEW m \in Posted
             PROVE  LET done == {j \in DOMAIN delivered : delivered[j] = m}
                    IN Cardinality(done) <= 1 /\ (done = {} <=> ~ In(m, delivered))
  BY SameSizes DEF Webhook!AttemptsCounted, WebhookInv, Counted
<1> DEFINE done == {j \in DOMAIN delivered : delivered[j] = m}
<1>1. \A i, j \in done : i = j BY DEF WebhookInv, DeliveredOnce
<1>2. done = {} <=> ~ In(m, delivered) BY DEF In
<1>3. done = {} \/ \E j : done = {j} BY <1>1
<1> HIDE DEF done
<1>4. Cardinality(done) <= 1
  <2>1. CASE done = {} BY <2>1, FS_EmptySet
  <2>2. CASE \E j : done = {j}
    <3> PICK j : done = {j} BY <2>2
    <3> Cardinality({j}) = 1 BY FS_Singleton
    <3> QED OBVIOUS
  <2> QED BY <1>3, <2>1, <2>2
<1> QED BY <1>2, <1>4 DEF done

(* sqlite_store.go:97-103, webhook.go and outbox.go: no subscription of    *)
(* the polling queue is handed what was acknowledged before it began; what *)
(* a subscriber of the webhook backend receives can be acknowledged until  *)
(* RingSize messages came after it; and a message is attempted up to       *)
(* MaxAttempts times, once it is delivered never again, and stays in the   *)
(* outbox till then, however the requests, the loop and the pruning of     *)
(* settled items interleave.                                               *)
THEOREM QueuesAreTrue == Spec /\ Webhook!Spec => []QueuesKeep
<1>1. Webhook!Init => WebhookInv BY PartsAssumption, WebhookInit
<1>2. WebhookInv /\ [Webhook!Next]_(Webhook!vars) => WebhookInv' BY PartsAssumption, WebhookNext
<1>3. WebhookInv => Webhook!TypeOK /\ Webhook!ReceivedIsAckable /\ Webhook!AttemptsCounted
  BY PartsAssumption, WaitingIsAckable, AttemptsAreCounted DEF WebhookInv
<1>4. Webhook!Spec => []WebhookInv BY <1>1, <1>2, PTL DEF Webhook!Spec
<1>5. WebhookInv /\ NotAgain => QueuesKeep BY <1>3 DEF QueuesKeep
<1> QED BY <1>4, <1>5, NothingComesAgain, PTL

-----------------------------------------------------------------------------
(* Of a behaviour that is of one of the parts, as the run has them, each   *)
(* of the parts behaves as its own specification says.                     *)

LEMMA RunsAreOfParts == MCSpec => Spec /\ Webhook!Spec /\ Hub!Spec /\ Client!Spec
<1> DEFINE all == <<part, vars, webhookVars, hubVars, clientVars>>
<1>1. MCInit => Init /\ Webhook!Init /\ Hub!Init /\ Client!Init BY DEF MCInit
<1>2. [MCNext]_all =>
        [Next]_vars /\ [Webhook!Next]_(Webhook!vars) /\ [Hub!Next]_(Hub!vars)
          /\ [Client!Next]_(Client!vars)
  <2>1. UNCHANGED webhookVars => UNCHANGED Webhook!vars
    BY DEF webhookVars, Webhook!vars, Webhook!items, Webhook!streams
  <2>2. UNCHANGED hubVars => UNCHANGED Hub!vars
    BY DEF hubVars, Hub!vars, Hub!hub, Hub!poll, Hub!news
  <2>3. UNCHANGED clientVars => UNCHANGED Client!vars BY DEF clientVars, Client!vars
  <2>4. UNCHANGED all => UNCHANGED <<vars, webhookVars, hubVars, clientVars>> OBVIOUS
  <2> QED BY <2>1, <2>2, <2>3, <2>4 DEF MCNext, QueueStep, WebhookStep, HubStep, ClientStep
<1>3. MCSpec => MCInit /\ [][MCNext]_all BY DEF MCSpec
<1> HIDE DEF all
<1> QED BY <1>1, <1>2, <1>3, PTL DEF Spec, Webhook!Spec, Hub!Spec, Client!Spec

(* The run's specification keeps what the run checks, for every value of   *)
(* the constants.                                                          *)
THEOREM StreamsHold == MCSpec => [](NothingSkipped /\ QueuesKeep /\ HubTells /\ ClientKeeps)
BY RunsAreOfParts, NothingIsSkipped, QueuesAreTrue, HubIsTrue, ClientIsTrue, PTL
=============================================================================
