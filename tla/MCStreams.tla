----------------------------- MODULE MCStreams -----------------------------
(***************************************************************************)
(* The parts whose goroutines wait for each other: the polling queue, the  *)
(* webhook backend, the event hub and the token client.  They do not meet  *)
(* (a server has one messaging backend, the hub is in its own package, the *)
(* token client in the worker's process), so a behaviour is of one of them *)
(* and the others stay as they begin.  EmbeddedQueue is extended, for TLC  *)
(* to evaluate its assumptions; the others are instantiated, and the       *)
(* constants are those of each: StreamProofs is about all their values     *)
(* that PartsAssumption admits.                                            *)
(***************************************************************************)
EXTENDS EmbeddedQueue

CONSTANTS (* of WebhookQueue *)
          Posted, Loop, MaxAttempts, RingSize, Buffer, MaxRetained,
          (* of EventHub *)
          Viewer, Envelope, CreatedAt, Status, Quiet, ChanSize, MaxPollers,
          (* of WorkerClient *)
          Caller, TTL, MinWait, MaxFetch, MaxRuns

(* What the code's defaults and its deployment give: events come at some   *)
(* time, buffers have a size, a row's owner, the outbox's goroutine and    *)
(* the requests are told apart.                                            *)
HubConstants ==
  /\ IsFiniteSet(Viewer) /\ MaxPollers \in Nat
  /\ CreatedAt \in [Envelope -> Nat] /\ ChanSize \in Nat

WebhookConstants ==
  /\ Loop \notin Posted /\ NoRow \notin Posted \cup {Loop}
  /\ MaxAttempts \in Nat \ {0}
  /\ {RingSize, Buffer, MaxRetained} \subseteq Nat

(* When the token is refreshed at the latest, counted from its issue.  A   *)
(* fetch that takes MaxFetch (half a minute; a token lasts fifteen),       *)
(* begun when the timer has run down, ends before the token has expired.   *)
RefreshAt == (TTL * 7) \div 10

ClientConstants ==
  /\ TTL \in Nat /\ MinWait \in Nat /\ MaxFetch \in Nat /\ MaxRuns \in Nat
  /\ RefreshAt + MaxFetch < TTL
  /\ MaxFetch + MinWait + MaxFetch < TTL

ASSUME PartsAssumption == HubConstants /\ WebhookConstants /\ ClientConstants

(* For TLC: everybody listens for one worker; what is emitted is emitted   *)
(* at the same time, and any order of storage is possible.                 *)
ForOne   == [l \in Listener |-> CHOOSE w \in Worker : TRUE]
SameTime == [m \in Envelope |-> 1]

VARIABLES part,
          (* of WebhookQueue *)
          registered, phase, loop, at, item, todo, outbox, terminalIDs, ripe, due, ring, subs,
          chan, closed, holder, gone, posts, delivered,
          (* of EventHub *)
          hubSubs, viewerAt, viewerChan, started, cancelPoll, pollStopped, stop, cancelled,
          running, events, stored, since, told, late,
          (* of WorkerClient *)
          lifecycle, callerAt, of, ended, doneClosed, refreshLoop, spent, age, failed, released

webhookVars == <<registered, phase, loop, at, item, todo, outbox, terminalIDs, ripe, due, ring,
                 subs, chan, closed, holder, gone, posts, delivered>>
hubVars     == <<hubSubs, viewerAt, viewerChan, started, cancelPoll, pollStopped, stop,
                 cancelled, running, events, stored, since, told, late>>
clientVars  == <<lifecycle, callerAt, of, ended, doneClosed, refreshLoop, spent, age, failed,
                 released>>

Webhook == INSTANCE WebhookQueue WITH Message <- Posted, Nothing <- NoRow

Hub ==
  INSTANCE EventHub WITH
    Message <- Envelope, subs <- hubSubs, at <- viewerAt, chan <- viewerChan

Client ==
  INSTANCE WorkerClient WITH
    at <- callerAt, cancelled <- ended, closed <- doneClosed, loop <- refreshLoop

MCInit ==
  /\ part \in {"queue", "webhook", "hub", "client"}
  /\ Init /\ Webhook!Init /\ Hub!Init /\ Client!Init
  /\ registered => part = "webhook"

QueueStep(A)   == part = "queue" /\ A /\ UNCHANGED <<part, webhookVars, hubVars, clientVars>>
WebhookStep(A) == part = "webhook" /\ A /\ UNCHANGED <<part, vars, hubVars, clientVars>>
HubStep(A)     == part = "hub" /\ A /\ UNCHANGED <<part, vars, webhookVars, clientVars>>
ClientStep(A)  == part = "client" /\ A /\ UNCHANGED <<part, vars, webhookVars, hubVars>>

MCNext ==
  QueueStep(Next) \/ WebhookStep(Webhook!Next) \/ HubStep(Hub!Next) \/ ClientStep(Client!Next)

(* The fairness of each part, for the behaviours that are of it. *)
MCFairness ==
  /\ \A l \in Listener :
       /\ WF_vars(QueueStep(Poll(l))) /\ WF_vars(QueueStep(HandOver(l)))
       /\ WF_vars(QueueStep(Write(l))) /\ WF_vars(QueueStep(HandlerReturns(l)))
       /\ WF_vars(QueueStep(PollerReturns(l))) /\ WF_vars(QueueStep(Subscribe(l)))
  /\ WF_vars(QueueStep(Reopen))
  /\ \A m \in Posted :
       WF_webhookVars(WebhookStep(Webhook!Requesting(m)))
         /\ WF_webhookVars(WebhookStep(Webhook!Ripen(m)))
  /\ \A d \in Webhook!Deliverer :
       /\ SF_webhookVars(WebhookStep(Webhook!Lock(d)))
       /\ WF_webhookVars(WebhookStep(Webhook!Hand(d)))
       /\ WF_webhookVars(WebhookStep(Webhook!HandedAll(d)))
  /\ WF_webhookVars(WebhookStep(Webhook!Looping))
  /\ SF_webhookVars(WebhookStep(Webhook!LoopReturns))
  /\ WF_webhookVars(WebhookStep(Webhook!EndClose))
  /\ \A v \in Viewer : WF_hubVars(HubStep(Hub!Viewing(v)))
  /\ \A p \in Hub!Poller : WF_hubVars(HubStep(Hub!Polling(p)))
  /\ \A c \in Caller : WF_clientVars(ClientStep(Client!Calling(c)))
  /\ WF_clientVars(ClientStep(Client!Looping)) /\ WF_clientVars(ClientStep(Client!Tick))
  /\ SF_clientVars(ClientStep(Client!LoopReturns))

MCSpec ==
  /\ MCInit /\ [][MCNext]_<<part, vars, webhookVars, hubVars, clientVars>>
  /\ MCFairness

(* No subscription of the polling queue is handed what was acknowledged    *)
(* before it began; what a subscriber of the webhook queue receives can be *)
(* acknowledged until RingSize messages came after it, and every message   *)
(* is attempted up to MaxAttempts times and stays in the outbox till then. *)
QueuesKeep ==
  NotAgain /\ Webhook!TypeOK /\ Webhook!ReceivedIsAckable /\ Webhook!AttemptsCounted

(* Those of EventHub: one lasting poller while somebody is subscribed, and *)
(* every message told of once, however pollers overlap.                    *)
HubTells == Hub!TypeOK /\ Hub!OnePoller /\ Hub!ToldOnce

(* Those of WorkerClient: the token is refreshed before it expires, and    *)
(* nothing refreshes once a Stop has returned.                             *)
ClientKeeps == Client!TypeOK /\ Client!KeptFresh /\ Client!StoppedForGood

(* Everything that waits for another goroutine gets on: the subscriptions  *)
(* of the polling queue end, Close of the webhook backend returns though   *)
(* its outbox is blocked, what it retries is settled, a viewer that leaves *)
(* is let go, and a Stop that finds the refreshing goroutine returns.      *)
WaitsEnd ==
  /\ SubscriptionsEnd
  /\ Webhook!CloseReturns /\ Webhook!Settles
  /\ Hub!LeavingEnds
  /\ Client!StopEndsLoop
=============================================================================
