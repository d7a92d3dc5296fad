---------------------------- MODULE WebhookQueue ----------------------------
(***************************************************************************)
(* The messaging backend that POSTs to callbacks (pkg/messaging/webhook):  *)
(* an attempt by the request that emits, and then by the outbox's loop;    *)
(* a ring of the last messages delivered, that acknowledgements are looked *)
(* up in; and subscriptions, that a delivery is also handed to while their *)
(* lock is held.                                                           *)
(*                                                                         *)
(* All messages are for one worker: callbacks, rings and subscriptions are *)
(* per worker, and the outbox's loop is what workers share.  A deliverer   *)
(* is a request, named by its message, or the loop.  Nothing of this       *)
(* outlives the process.                                                   *)
(***************************************************************************)
EXTENDS Naturals, Sequences, FiniteSets, SequencesExt

CONSTANTS Message, Listener,
          Loop,         \* the goroutine of the outbox
          Nothing,      \* no message; a lock that is free
          MaxAttempts,  \* RetryPolicy
          RingSize,     \* defaultRingBufferSize (200)
          Buffer,       \* defaultSubscriberBuffer (16)
          MaxRetained   \* maxRetainedTerminal (1000)

Deliverer == Message \cup {Loop}

VARIABLES registered,   \* a callback is registered or resolved
          phase,        \* of the backend: "open", "closing", "closed"
          loop,         \* the outbox's goroutine has not returned
          at, item, todo, \* of each deliverer: where it is, its message, the subscriptions left
          outbox,       \* itemsByID
          terminalIDs,
          ripe,         \* items whose nextAttempt has come
          due,          \* the loop's list, taken at a tick
          ring,         \* byWorker
          subs,         \* subsByWorker, in the order they subscribed
          chan, closed, holder, \* of each subscription: its channel, closed, its lock
          gone,         \* subscriptions whose context is done
          posts,        \* ghost: attempts made
          delivered     \* ghost: messages in the order they entered the ring

items   == <<outbox, terminalIDs, ripe, due>>
streams == <<subs, chan, closed, holder, gone>>
vars    == <<registered, phase, loop, at, item, todo, items, ring, streams, posts, delivered>>

Init ==
  /\ registered \in BOOLEAN
  /\ phase = "open" /\ loop = TRUE
  /\ at = [d \in Deliverer |-> "idle"]
  /\ item = [d \in Deliverer |-> Nothing]
  /\ todo = [d \in Deliverer |-> << >>]
  /\ outbox = [m \in Message |-> [state |-> "none", attempts |-> 0]]
  /\ terminalIDs = << >> /\ ripe = {} /\ due = {}
  /\ ring = << >>
  /\ subs = << >> /\ closed = {} /\ gone = {}
  /\ chan = [l \in Listener |-> << >>]
  /\ holder = [l \in Listener |-> Nothing]
  /\ posts = [m \in Message |-> 0]
  /\ delivered = << >>

Pending(m) == outbox[m].state = "pending"

(* Of the ring: what Ack looks for. *)
Ackable(m) == \E j \in DOMAIN ring : ring[j] = m

LastOf(s, n) == IF Len(s) > n THEN SubSeq(s, Len(s) + 1 - n, Len(s)) ELSE s

-----------------------------------------------------------------------------
(* Attempts *)

(* Emit: the request makes the first attempt itself.  Nothing refuses it   *)
(* when the backend is closed.                                             *)
Emit(m) ==
  /\ at[m] = "idle" /\ item[m] = Nothing
  /\ at' = [at EXCEPT ![m] = "posting"]
  /\ item' = [item EXCEPT ![m] = m]
  /\ UNCHANGED <<registered, phase, loop, todo, items, ring, streams, posts, delivered>>

RegisterCallback ==
  /\ ~registered
  /\ registered' = TRUE
  /\ UNCHANGED <<phase, loop, at, item, todo, items, ring, streams, posts, delivered>>

RingAdd(m) == LastOf(Append(ring, m), RingSize)

(* onDelivered: the ring, and a copy of the list of subscriptions. *)
OnDelivered(d, m) ==
  /\ ring' = RingAdd(m)
  /\ delivered' = Append(delivered, m)
  /\ todo' = [todo EXCEPT ![d] = subs]
  /\ at' = [at EXCEPT ![d] = "handing"]

(* Mutant of AfterFailure: one attempt more. *)
AfterFailureMore(m, attempts) ==
  [state |-> IF attempts > MaxAttempts THEN "failed" ELSE "pending", attempts |-> attempts]

(* enqueueFailed, and the failure of a further attempt in tick. *)
AfterFailure(m, attempts) ==
  [state |-> IF attempts >= MaxAttempts THEN "failed" ELSE "pending", attempts |-> attempts]

(* retainTerminalLocked, of an item that was just settled. *)
RetainTerminal(box, m) ==
  LET ids == Append(terminalIDs, m)
  IN /\ terminalIDs' = LastOf(ids, MaxRetained)
     /\ outbox' = IF Len(ids) <= MaxRetained THEN box
                  ELSE [box EXCEPT ![Head(ids)] = [state |-> "none", attempts |-> 0]]

Settle(m, to) ==
  LET box == [outbox EXCEPT ![m] = to]
  IN IF to.state = "pending" THEN outbox' = box /\ UNCHANGED terminalIDs
                             ELSE RetainTerminal(box, m)

(* The POST of a request is answered with a 2xx. *)
EmitDelivered(m) ==
  /\ at[m] = "posting" /\ registered
  /\ posts' = [posts EXCEPT ![m] = @ + 1]
  /\ OnDelivered(m, m)
  /\ UNCHANGED <<registered, phase, loop, item, items, streams>>

(* No callback, an error, another status, or an answer that is lost. *)
EmitFails(m) ==
  /\ at[m] = "posting"
  /\ posts' = [posts EXCEPT ![m] = @ + 1]
  /\ Settle(m, AfterFailure(m, 1))
  /\ at' = [at EXCEPT ![m] = "done"]
  /\ UNCHANGED <<registered, phase, loop, item, todo, ripe, due, ring, streams, delivered>>

-----------------------------------------------------------------------------
(* The outbox's loop *)

(* The delay of a pending item has passed. *)
Ripen(m) ==
  /\ Pending(m) /\ m \notin ripe
  /\ ripe' = ripe \cup {m}
  /\ UNCHANGED <<registered, phase, loop, at, item, todo, outbox, terminalIDs, due, ring,
                 streams, posts, delivered>>

(* The list is made under the lock, and worked off without, in any order.  *)
(* A tick that is ready beside closeCh may be taken before it.             *)
Tick ==
  /\ loop /\ at[Loop] = "idle" /\ due = {}
  /\ due' = {m \in ripe : Pending(m)} /\ due' # {}
  /\ UNCHANGED <<registered, phase, loop, at, item, todo, outbox, terminalIDs, ripe, ring,
                 streams, posts, delivered>>

Attempt(m) ==
  /\ at[Loop] = "idle" /\ m \in due
  /\ due' = due \ {m} /\ ripe' = ripe \ {m}
  /\ item' = [item EXCEPT ![Loop] = m]
  /\ at' = [at EXCEPT ![Loop] = "posting"]
  /\ UNCHANGED <<registered, phase, loop, todo, outbox, terminalIDs, ring, streams, posts,
                 delivered>>

AttemptDelivered ==
  /\ at[Loop] = "posting" /\ registered
  /\ LET m == item[Loop]
     IN /\ posts' = [posts EXCEPT ![m] = @ + 1]
        /\ Settle(m, [state |-> "delivered", attempts |-> outbox[m].attempts + 1])
        /\ OnDelivered(Loop, m)
  /\ UNCHANGED <<registered, phase, loop, item, ripe, due, streams>>

AttemptFails ==
  /\ at[Loop] = "posting"
  /\ LET m == item[Loop]
     IN /\ posts' = [posts EXCEPT ![m] = @ + 1]
        /\ Settle(m, AfterFailure(m, outbox[m].attempts + 1))
  /\ at' = [at EXCEPT ![Loop] = "idle"]
  /\ item' = [item EXCEPT ![Loop] = Nothing]
  /\ UNCHANGED <<registered, phase, loop, todo, ripe, due, ring, streams, delivered>>

LoopReturns ==
  /\ loop /\ phase = "closing" /\ at[Loop] = "idle" /\ due = {}
  /\ loop' = FALSE
  /\ UNCHANGED <<registered, phase, at, item, todo, items, ring, streams, posts, delivered>>

-----------------------------------------------------------------------------
(* Subscriptions *)

Subscribe(l) ==
  /\ l \notin {subs[i] : i \in DOMAIN subs} \cup closed \cup gone
  /\ subs' = Append(subs, l)
  /\ UNCHANGED <<registered, phase, loop, at, item, todo, items, ring, chan, closed, holder,
                 gone, posts, delivered>>

(* deliver: its lock. *)
Lock(d) ==
  /\ at[d] = "handing" /\ todo[d] # << >> /\ holder[Head(todo[d])] = Nothing
  /\ holder' = [holder EXCEPT ![Head(todo[d])] = d]
  /\ at' = [at EXCEPT ![d] = "holding"]
  /\ UNCHANGED <<registered, phase, loop, item, todo, items, ring, subs, chan, closed, gone,
                 posts, delivered>>

(* Mutant of MayGiveUp: a closed backend is not looked at. *)
MayGiveUpGone(l) == l \in closed \cup gone

MayGiveUp(l) == l \in closed \cup gone \/ phase # "open"

(* Its select: the message sent, or given up; it blocks while neither is   *)
(* possible.                                                               *)
Hand(d) ==
  LET l == Head(todo[d])
  IN /\ at[d] = "holding"
     /\ \/ /\ l \notin closed /\ Len(chan[l]) < Buffer
           /\ chan' = [chan EXCEPT ![l] = Append(@, item[d])]
        \/ MayGiveUp(l) /\ UNCHANGED chan
     /\ holder' = [holder EXCEPT ![l] = Nothing]
     /\ todo' = [todo EXCEPT ![d] = Tail(@)]
     /\ at' = [at EXCEPT ![d] = "handing"]
     /\ UNCHANGED <<registered, phase, loop, item, items, ring, subs, closed, gone, posts,
                    delivered>>

HandedAll(d) ==
  /\ at[d] = "handing" /\ todo[d] = << >>
  /\ at' = [at EXCEPT ![d] = IF d = Loop THEN "idle" ELSE "done"]
  /\ item' = [item EXCEPT ![Loop] = IF d = Loop THEN Nothing ELSE @]
  /\ UNCHANGED <<registered, phase, loop, todo, items, ring, streams, posts, delivered>>

Read(l) ==
  /\ chan[l] # << >>
  /\ chan' = [chan EXCEPT ![l] = Tail(@)]
  /\ UNCHANGED <<registered, phase, loop, at, item, todo, items, ring, subs, closed, holder,
                 gone, posts, delivered>>

ContextEnds(l) ==
  /\ \E i \in DOMAIN subs : subs[i] = l
  /\ gone' = gone \cup {l}
  /\ UNCHANGED <<registered, phase, loop, at, item, todo, items, ring, subs, chan, closed,
                 holder, posts, delivered>>

(* The goroutine of Subscribe: off the list, and then, with the lock of    *)
(* the subscription, the channel closed.                                   *)
Unlist(l) ==
  /\ l \in gone \/ phase # "open"
  /\ \E i \in DOMAIN subs : subs[i] = l /\ subs' = RemoveAt(subs, i)
  /\ gone' = gone \cup {l}
  /\ UNCHANGED <<registered, phase, loop, at, item, todo, items, ring, chan, closed, holder,
                 posts, delivered>>

CloseChan(l) ==
  /\ l \in gone \ closed /\ holder[l] = Nothing
  /\ \A i \in DOMAIN subs : subs[i] # l
  /\ closed' = closed \cup {l}
  /\ UNCHANGED <<registered, phase, loop, at, item, todo, items, ring, subs, chan, holder,
                 gone, posts, delivered>>

(* Close: closedSignal first, then it waits for the loop. *)
BeginClose ==
  /\ phase = "open" /\ phase' = "closing"
  /\ UNCHANGED <<registered, loop, at, item, todo, items, ring, streams, posts, delivered>>

EndClose ==
  /\ phase = "closing" /\ ~loop /\ phase' = "closed"
  /\ UNCHANGED <<registered, loop, at, item, todo, items, ring, streams, posts, delivered>>

-----------------------------------------------------------------------------

Handing(d) == Lock(d) \/ Hand(d) \/ HandedAll(d)

Requesting(m) == EmitDelivered(m) \/ EmitFails(m)

Looping == Tick \/ (\E m \in Message : Attempt(m)) \/ AttemptDelivered \/ AttemptFails

Next ==
  \/ \E m \in Message : Emit(m) \/ Requesting(m) \/ Ripen(m)
  \/ Looping \/ LoopReturns
  \/ \E d \in Deliverer : Handing(d)
  \/ \E l \in Listener : Subscribe(l) \/ Read(l) \/ ContextEnds(l) \/ Unlist(l) \/ CloseChan(l)
  \/ RegisterCallback \/ BeginClose \/ EndClose

Spec == Init /\ [][Next]_vars

(* Goroutines run, an HTTP request ends within its timeout, time passes,   *)
(* a lock that comes free again and again is got, and a select with two    *)
(* cases ready takes each in the end.  Nobody need read, leave, register a *)
(* callback or close.                                                      *)
Fairness ==
  /\ \A m \in Message : WF_vars(Requesting(m)) /\ WF_vars(Ripen(m))
  /\ \A d \in Deliverer : SF_vars(Lock(d)) /\ WF_vars(Hand(d)) /\ WF_vars(HandedAll(d))
  /\ WF_vars(Looping) /\ SF_vars(LoopReturns) /\ WF_vars(EndClose)

FairSpec == Spec /\ Fairness

TypeOK ==
  /\ {registered, loop} \subseteq BOOLEAN
  /\ phase \in {"open", "closing", "closed"}
  /\ at \in [Deliverer -> {"idle", "posting", "handing", "holding", "done"}]
  /\ item \in [Deliverer -> Message \cup {Nothing}]
  /\ todo \in [Deliverer -> Seq(Listener)]
  /\ outbox \in [Message -> [state : {"none", "pending", "delivered", "failed"}, attempts : Nat]]
  /\ terminalIDs \in Seq(Message) /\ Len(terminalIDs) <= MaxRetained
  /\ {ripe, due} \subseteq SUBSET Message
  /\ ring \in Seq(Message) /\ Len(ring) <= RingSize
  /\ subs \in Seq(Listener) /\ {closed, gone} \subseteq SUBSET Listener
  /\ chan \in [Listener -> Seq(Message)]
  /\ holder \in [Listener -> Deliverer \cup {Nothing}]
  /\ posts \in [Message -> Nat]
  /\ delivered \in Seq(Message)

(* A message waiting in a subscription can be acknowledged, unless         *)
(* RingSize messages were delivered after it: a request and the loop may   *)
(* add to the ring in either order, and hand over in the other.            *)
ReceivedIsAckable ==
  \A l \in Listener : \A i \in DOMAIN chan[l] :
    LET m == chan[l][i]
    IN \/ Ackable(m)
       \/ \E j \in DOMAIN delivered : delivered[j] = m /\ Len(delivered) - j >= RingSize

(* A message is attempted MaxAttempts times at most and never again once   *)
(* an attempt succeeded; while it is neither delivered nor given up it     *)
(* stays in the outbox, whatever is pruned from it.                        *)
AttemptsCounted ==
  \A m \in Message :
    LET done == {j \in DOMAIN delivered : delivered[j] = m}
    IN /\ posts[m] <= MaxAttempts /\ Cardinality(done) <= 1
       /\ posts[m] > 0 => (Pending(m) <=> posts[m] < MaxAttempts /\ done = {})
       /\ Pending(m) => outbox[m].attempts = posts[m]

(* Close returns, with any number of subscribers that do not read and an   *)
(* outbox that is blocked on one: the signal that unblocks it is closed    *)
(* before the loop is waited for.                                          *)
CloseReturns == (phase = "closing") ~> (phase = "closed")

(* While the backend is open every message that is retried is delivered or *)
(* given up in the end, unless the loop is blocked for ever on a           *)
(* subscriber that neither reads nor leaves, or on its lock.               *)
Settles ==
  \/ \A m \in Message : Pending(m) ~> (~Pending(m) \/ phase # "open")
  \/ <>[](at[Loop] \in {"handing", "holding"})
=============================================================================
