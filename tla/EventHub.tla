------------------------------ MODULE EventHub ------------------------------
(***************************************************************************)
(* The event stream of the dashboard (internal/server/api/events.go): a    *)
(* hub of subscribers, the goroutine that polls while there is one, and    *)
(* the watermark that tells it which messages are new.                     *)
(*                                                                         *)
(* The first subscriber starts a poller after it has let go of the hub's   *)
(* lock; the last to leave takes the poller's cancel function under the    *)
(* lock, calls it without, and waits for whatever h.pollStopped then is.   *)
(* Pollers are numbered as they are started; a cancelled one may poll once *)
(* more beside its successor.  The polls of the chart and of the storage   *)
(* are functions of what they compare, and are in PollDiffs.               *)
(***************************************************************************)
EXTENDS Naturals, Sequences, FiniteSets

CONSTANTS Viewer,      \* handlers of GET /api/events
          Message,
          CreatedAt,   \* created_at of each, which may be equal and in any order of storage
          Status,      \* those of type status_update, counted instead of told
          Quiet,       \* announcements of updates, left out
          ChanSize,    \* capacity of a subscriber's channel (64 in the code)
          MaxPollers   \* bound: pollers started

NoPoller == 0
Poller   == 1 .. MaxPollers

VARIABLES subs,        \* h.subs
          at,          \* where each handler is
          chan,        \* its channel; an event is the set of messages it tells of
          started,     \* the pollers started so far
          cancelPoll,  \* h.cancelPoll: whose cancel function it is
          pollStopped, \* h.pollStopped: whose channel it is
          stop,        \* the cancel function a leaving handler took
          cancelled,   \* pollers whose context is cancelled
          running,     \* pollers that have not returned
          events,      \* what a poller is still to broadcast
          stored,      \* messages, in the order of their rows
          since,       \* sinceMessages
          told,        \* ghost: how often each was in what a poll returned
          late         \* ghost: stored when the watermark had passed it

hub  == <<subs, at, chan>>
poll == <<started, cancelPoll, pollStopped, stop, cancelled, running>>
news == <<stored, since, told, late>>
vars == <<hub, poll, events, news>>

Init ==
  /\ subs = {}
  /\ at = [v \in Viewer |-> "out"]
  /\ chan = [v \in Viewer |-> << >>]
  /\ started = 0 /\ cancelPoll = NoPoller /\ pollStopped = NoPoller
  /\ stop = [v \in Viewer |-> NoPoller]
  /\ cancelled = {} /\ running = {}
  /\ events = [p \in Poller |-> << >>]
  /\ stored = << >>
  /\ since = 0
  /\ told = [m \in Message |-> 0]
  /\ late = {}

-----------------------------------------------------------------------------
(* Subscribers *)

(* The locked section of subscribe: whether to start a poller is decided   *)
(* here.                                                                   *)
Subscribe(v) ==
  /\ at[v] = "out"
  /\ subs = {} => started < MaxPollers
  /\ subs' = subs \cup {v}
  /\ at' = [at EXCEPT ![v] = IF Cardinality(subs') = 1 THEN "starting" ELSE "streaming"]
  /\ chan' = [chan EXCEPT ![v] = << >>]
  /\ UNCHANGED <<poll, events, news>>

(* startPoll: its locked section, and the goroutine. *)
StartPoll(v) ==
  /\ at[v] = "starting"
  /\ at' = [at EXCEPT ![v] = "streaming"]
  /\ started' = started + 1
  /\ cancelPoll' = started' /\ pollStopped' = started'
  /\ running' = running \cup {started'}
  /\ UNCHANGED <<subs, chan, stop, cancelled, events, news>>

(* An event written to the response. *)
Write(v) ==
  /\ at[v] = "streaming" /\ chan[v] # << >>
  /\ chan' = [chan EXCEPT ![v] = Tail(@)]
  /\ UNCHANGED <<subs, at, poll, events, news>>

LeaveWhen(v, empty) ==
  /\ at[v] = "streaming"
  /\ subs' = subs \ {v}
  /\ IF empty /\ cancelPoll # NoPoller
     THEN /\ stop' = [stop EXCEPT ![v] = cancelPoll]
          /\ cancelPoll' = NoPoller
          /\ at' = [at EXCEPT ![v] = "leaving"]
     ELSE /\ at' = [at EXCEPT ![v] = "out"]
          /\ UNCHANGED <<stop, cancelPoll>>
  /\ UNCHANGED <<chan, started, pollStopped, cancelled, running, events, news>>

(* Mutant of Unsubscribe: whoever leaves stops the poller. *)
UnsubscribeAny(v) == LeaveWhen(v, TRUE)

(* The request is over, or a write fails; the locked section of            *)
(* unsubscribe.                                                            *)
Unsubscribe(v) == LeaveWhen(v, subs = {v})

(* Mutant of Cancel: nothing is cancelled. *)
CancelNothing(v) ==
  /\ at[v] = "leaving"
  /\ at' = [at EXCEPT ![v] = "waiting"]
  /\ UNCHANGED <<subs, chan, started, cancelPoll, pollStopped, stop, cancelled, running,
                 events, news>>

(* stop(). *)
Cancel(v) ==
  /\ at[v] = "leaving"
  /\ cancelled' = cancelled \cup {stop[v]}
  /\ at' = [at EXCEPT ![v] = "waiting"]
  /\ UNCHANGED <<subs, chan, started, cancelPoll, pollStopped, stop, running, events, news>>

(* <-h.pollStopped, read without the lock when the handler gets there: the *)
(* channel of the poller that is the latest then, kept in stop.            *)
ReadStopped(v) ==
  /\ at[v] = "waiting"
  /\ at' = [at EXCEPT ![v] = "blocked"]
  /\ stop' = [stop EXCEPT ![v] = pollStopped]
  /\ UNCHANGED <<subs, chan, started, cancelPoll, pollStopped, cancelled, running, events, news>>

Left(v) ==
  /\ at[v] = "blocked" /\ stop[v] \notin running
  /\ at' = [at EXCEPT ![v] = "out"]
  /\ stop' = [stop EXCEPT ![v] = NoPoller]
  /\ UNCHANGED <<subs, chan, started, cancelPoll, pollStopped, cancelled, running, events, news>>

-----------------------------------------------------------------------------
(* Pollers *)

NewestFirst == [i \in DOMAIN stored |-> stored[Len(stored) + 1 - i]]

(* Mutant of IsNew: as the query has it, not as the loop that follows. *)
IsNotOlder(m) == CreatedAt[m] >= since

IsNew(m) == CreatedAt[m] > since

IsTold(m) == IsNew(m) /\ m \notin Status \cup Quiet

(* The events of one message each that the loop of pollMessagesLocked has  *)
(* after so many rows.                                                     *)
Single[n \in 0 .. Len(stored)] ==
  IF n = 0 THEN << >>
  ELSE IF IsTold(NewestFirst[n]) THEN Append(Single[n - 1], {NewestFirst[n]}) ELSE Single[n - 1]

(* What pollMessagesLocked returns: these, and then an event with the      *)
(* number of status updates (of one sender and recipient).                 *)
Batch ==
  LET counted == {m \in Status \ Quiet : IsNew(m) /\ \E i \in DOMAIN stored : stored[i] = m}
  IN Single[Len(stored)] \o (IF counted = {} THEN << >> ELSE <<counted>>)

(* A tick, while the context may be cancelled already: select takes either *)
(* case.  The query of messages may fail, and then nothing changes.        *)
Poll(p) ==
  /\ p \in running /\ events[p] = << >>
  /\ LET new == {m \in {stored[i] : i \in DOMAIN stored} : IsNew(m)}
     IN /\ new # {}
        /\ events' = [events EXCEPT ![p] = Batch]
        /\ since' = CHOOSE t \in {CreatedAt[m] : m \in new} : \A m \in new : CreatedAt[m] <= t
        /\ told' = [m \in Message |-> told[m] + (IF m \in new \ Quiet THEN 1 ELSE 0)]
  /\ UNCHANGED <<hub, poll, stored, late>>

(* A full channel misses the event. *)
Broadcast(p) ==
  /\ events[p] # << >>
  /\ chan' = [v \in Viewer |->
                IF v \in subs /\ Len(chan[v]) < ChanSize THEN Append(chan[v], Head(events[p]))
                                                         ELSE chan[v]]
  /\ events' = [events EXCEPT ![p] = Tail(@)]
  /\ UNCHANGED <<subs, at, poll, news>>

PollerReturns(p) ==
  /\ p \in running \cap cancelled /\ events[p] = << >>
  /\ running' = running \ {p}
  /\ UNCHANGED <<hub, started, cancelPoll, pollStopped, stop, cancelled, events, news>>

(* Somebody emits: the row is inserted some time after created_at is read. *)
Store(m) ==
  /\ \A i \in DOMAIN stored : stored[i] # m
  /\ stored' = Append(stored, m)
  /\ late' = IF CreatedAt[m] <= since THEN late \cup {m} ELSE late
  /\ UNCHANGED <<hub, poll, events, since, told>>

-----------------------------------------------------------------------------

Viewing(v) == StartPoll(v) \/ Write(v) \/ Cancel(v) \/ ReadStopped(v) \/ Left(v)

Polling(p) == Broadcast(p) \/ PollerReturns(p)

Next ==
  \/ \E v \in Viewer : Subscribe(v) \/ Unsubscribe(v) \/ Viewing(v)
  \/ \E p \in Poller : Poll(p) \/ Polling(p)
  \/ \E m \in Message : Store(m)

Spec == Init /\ [][Next]_vars

(* A poller is waited for by a goroutine of its own, and the handlers are  *)
(* goroutines; a viewer may stay for ever.                                 *)
Fairness ==
  \A v \in Viewer : WF_vars(Viewing(v)) /\ \A p \in Poller : WF_vars(Polling(p))

FairSpec == Spec /\ Fairness

(* The type, and that a channel is never fuller than its capacity. *)
TypeOK ==
  /\ subs \subseteq Viewer
  /\ at \in [Viewer -> {"out", "starting", "streaming", "leaving", "waiting", "blocked"}]
  /\ chan \in [Viewer -> Seq(SUBSET Message)]
  /\ \A v \in Viewer : Len(chan[v]) <= ChanSize
  /\ started \in 0 .. MaxPollers
  /\ {cancelPoll, pollStopped} \subseteq 0 .. started
  /\ stop \in [Viewer -> 0 .. started]
  /\ {cancelled, running} \subseteq SUBSET (1 .. started)
  /\ events \in [Poller -> Seq(SUBSET Message)]
  /\ stored \in Seq(Message)
  /\ since \in {0} \cup {CreatedAt[m] : m \in Message}
  /\ told \in [Message -> Nat]
  /\ late \subseteq Message

(* A poller that nobody has cancelled or is about to cancel. *)
Lasting(p) == p \in running \ cancelled /\ \A v \in Viewer : at[v] = "leaving" => stop[v] # p

(* There is exactly one lasting poller while somebody is subscribed, but   *)
(* for the moment in which the first is about to start it, and none when   *)
(* nobody is: however subscribing, starting, leaving and cancelling        *)
(* interleave, no viewer goes without events and no poller is left over.   *)
OnePoller ==
  Cardinality({p \in Poller : Lasting(p)}) =
    IF subs = {} \/ \E v \in Viewer : at[v] = "starting" THEN 0 ELSE 1

(* With pollers overlapping, every stored message up to the watermark was  *)
(* in what exactly one poll returned; only those are never told of that    *)
(* were stored when a poll had already gone past their created_at.         *)
ToldOnce ==
  \A i \in DOMAIN stored :
    LET m == stored[i]
    IN told[m] = IF m \notin Quiet /\ m \notin late /\ CreatedAt[m] <= since THEN 1 ELSE 0

(* A handler that leaves is not kept waiting for ever, unless from some    *)
(* time on there is always a subscriber: that one's poller may be the one  *)
(* it waits for.                                                           *)
LeavingEnds ==
  \A v \in Viewer : []<>(at[v] \notin {"leaving", "waiting", "blocked"}) \/ <>[](subs # {})
=============================================================================
