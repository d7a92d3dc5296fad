-------------------------- MODULE TemporalMailbox --------------------------
(***************************************************************************)
(* The messaging backend on Temporal (pkg/messaging/temporal): a mailbox   *)
(* workflow per worker that buffers what is delivered to it until it is    *)
(* acknowledged, subscriptions that poll it with a query, and              *)
(* acknowledgements that query first and signal then.                      *)
(*                                                                         *)
(* One mailbox; messages are numbered as they are signalled.  What         *)
(* Temporal does is taken from how this code uses it: a signal that was    *)
(* accepted is kept until the workflow receives it, those of one name in   *)
(* order; a query sees what was received so far and fails while no worker  *)
(* runs or no workflow was started; and a run that completes with signals  *)
(* it has not received is replayed with them (so continuing as new is one  *)
(* step with receiving all of them).  Nothing in the mailbox depends on    *)
(* the process of the server, which may stop at any time.                  *)
(***************************************************************************)
EXTENDS Naturals, Sequences, FiniteSets

CONSTANTS Subscriber,   \* calls of Subscribe that may be under way
          Acker,        \* calls of Ack
          MaxMessages,  \* bound: messages emitted
          MaxPending,   \* maxBufferedEnvelopes (1000)
          SignalsPerRun, \* continueAsNewAfterSignals (2000)
          MaxAcks       \* bound: acknowledgements queued

NoMessage == 0
Message == 1 .. MaxMessages

VARIABLES emitted,    \* messages signalled so far
          deliverCh,  \* signals not received yet, by name
          ackCh,
          pending,    \* state.Pending
          signals,    \* signalsProcessed
          up,         \* the server's process, which hosts the workflow, runs
          polling,    \* subscriptions that have not returned
          seen,       \* deliveredIDs of each
          batch,      \* the envelopes of its query, still to be sent
          acking,     \* the message an Ack found held, and is to signal
          got,        \* ghost: what a subscription under way sent, in order
          acked,      \* ghost: acknowledgements signalled
          dropped     \* ghost: pushed out of a full buffer

mailbox == <<deliverCh, ackCh, pending, signals>>
calls   == <<polling, seen, batch, acking>>
vars    == <<emitted, mailbox, up, calls, got, acked, dropped>>

Elements(s) == {s[i] : i \in DOMAIN s}

TypeOK ==
  /\ emitted \in 0 .. MaxMessages
  /\ {deliverCh, ackCh, pending} \subseteq Seq(1 .. emitted)
  /\ Len(pending) <= MaxPending
  /\ signals \in 0 .. SignalsPerRun
  /\ up \in BOOLEAN
  /\ polling \subseteq Subscriber
  /\ seen \in [Subscriber -> SUBSET Message]
  /\ batch \in [Subscriber -> Seq(Message)]
  /\ acking \in [Acker -> Message \cup {NoMessage}]
  /\ got \in [Subscriber -> Seq(Message)]
  /\ {acked, dropped} \subseteq SUBSET (1 .. emitted)

Init ==
  /\ emitted = 0
  /\ deliverCh = << >> /\ ackCh = << >> /\ pending = << >> /\ signals = 0
  /\ up = TRUE
  /\ polling = {}
  /\ seen = [s \in Subscriber |-> {}]
  /\ batch = [s \in Subscriber |-> << >>]
  /\ acking = [a \in Acker |-> NoMessage]
  /\ got = [s \in Subscriber |-> << >>]
  /\ acked = {} /\ dropped = {}

-----------------------------------------------------------------------------
(* The workflow *)

AppendBounded(s, m) == IF Len(s) < MaxPending THEN Append(s, m) ELSE Append(Tail(s), m)

(* The buffer s without the messages gone. *)
Without(s, gone) ==
  LET Kept[n \in 0 .. Len(s)] ==
        IF n = 0 THEN << >>
        ELSE IF s[n] \in gone THEN Kept[n - 1] ELSE Append(Kept[n - 1], s[n])
  IN  Kept[Len(s)]

RemoveEnvelope(s, m) == Without(s, {m})

(* absorbAlreadyQueuedSignals, on the buffer s. *)
Absorb(s) ==
  LET F[n \in 0 .. Len(deliverCh)] ==
        IF n = 0 THEN s ELSE AppendBounded(F[n - 1], deliverCh[n])
  IN  Without(F[Len(deliverCh)], Elements(ackCh))

(* Mutant of ContinueAsNew: what is queued is left behind. *)
ContinueAtOnce ==
  /\ up /\ signals >= SignalsPerRun
  /\ deliverCh' = << >> /\ ackCh' = << >>
  /\ signals' = 0
  /\ UNCHANGED <<emitted, pending, up, calls, got, acked, dropped>>

(* The run has received enough signals: it absorbs the rest, and the next  *)
(* run starts with its state.                                              *)
ContinueAsNew ==
  /\ up /\ signals >= SignalsPerRun
  /\ pending' = Absorb(pending)
  /\ dropped' = dropped \cup ((Elements(pending) \cup Elements(deliverCh))
                                \ (Elements(pending') \cup Elements(ackCh)))
  /\ deliverCh' = << >> /\ ackCh' = << >>
  /\ signals' = 0
  /\ UNCHANGED <<emitted, up, calls, got, acked>>

(* A turn of the loop: the selector takes a delivery when there is one. *)
ReceiveDeliver ==
  /\ up /\ signals < SignalsPerRun /\ deliverCh # << >>
  /\ pending' = AppendBounded(pending, Head(deliverCh))
  /\ dropped' = dropped \cup (Elements(pending) \ Elements(pending'))
  /\ deliverCh' = Tail(deliverCh)
  /\ signals' = signals + 1
  /\ UNCHANGED <<emitted, ackCh, up, calls, got, acked>>

ReceiveAck ==
  /\ up /\ signals < SignalsPerRun /\ deliverCh = << >> /\ ackCh # << >>
  /\ pending' = RemoveEnvelope(pending, Head(ackCh))
  /\ ackCh' = Tail(ackCh)
  /\ signals' = signals + 1
  /\ UNCHANGED <<emitted, deliverCh, up, calls, got, acked, dropped>>

-----------------------------------------------------------------------------
(* The backend *)

(* SignalWithStartWorkflow. *)
Emit ==
  /\ up /\ emitted < MaxMessages
  /\ emitted' = emitted + 1
  /\ deliverCh' = Append(deliverCh, emitted')
  /\ UNCHANGED <<ackCh, pending, signals, up, calls, got, acked, dropped>>

(* Ack: a query, and only of a message that is held, a signal. *)
FindHeld(a, m) ==
  /\ up /\ emitted > 0 /\ acking[a] = NoMessage
  /\ m \in Elements(pending)
  /\ acking' = [acking EXCEPT ![a] = m]
  /\ UNCHANGED <<emitted, mailbox, up, polling, seen, batch, got, acked, dropped>>

SignalAck(a) ==
  /\ up /\ acking[a] # NoMessage
  /\ Len(ackCh) < MaxAcks
  /\ ackCh' = Append(ackCh, acking[a])
  /\ acked' = acked \cup {acking[a]}
  /\ acking' = [acking EXCEPT ![a] = NoMessage]
  /\ UNCHANGED <<emitted, deliverCh, pending, signals, up, polling, seen, batch, got, dropped>>

Subscribe(s) ==
  /\ up /\ s \notin polling
  /\ polling' = polling \cup {s}
  /\ UNCHANGED <<emitted, mailbox, up, seen, batch, acking, got, acked, dropped>>

(* Mutant of Remembered: nothing is. *)
RememberedNone(s) == {}

(* forgetIDsNoLongerPending. *)
Remembered(s) == seen[s] \cap Elements(pending)

(* A tick with the last batch sent: what is pending and was not delivered  *)
(* yet.  An ID is remembered before it is sent (and nothing comes between  *)
(* but the end of the subscription).                                       *)
Poll(s) ==
  /\ up /\ emitted > 0 /\ s \in polling /\ batch[s] = << >>
  /\ batch' = [batch EXCEPT ![s] = Without(pending, Remembered(s))]
  /\ seen' = [seen EXCEPT ![s] = Remembered(s) \cup Elements(pending)]
  /\ UNCHANGED <<emitted, mailbox, up, polling, acking, got, acked, dropped>>

Send(s) ==
  /\ s \in polling /\ batch[s] # << >>
  /\ got' = [got EXCEPT ![s] = Append(@, Head(batch[s]))]
  /\ batch' = [batch EXCEPT ![s] = Tail(@)]
  /\ UNCHANGED <<emitted, mailbox, up, polling, seen, acking, acked, dropped>>

(* The context of the subscription ends, in any of its selects. *)
PollerReturns(s) ==
  /\ s \in polling
  /\ polling' = polling \ {s}
  /\ seen' = [seen EXCEPT ![s] = {}]
  /\ batch' = [batch EXCEPT ![s] = << >>]
  /\ got' = [got EXCEPT ![s] = << >>]
  /\ UNCHANGED <<emitted, mailbox, up, acking, acked, dropped>>

(* The server's process ends, or Close; the mailbox is Temporal's. *)
Stop ==
  /\ up /\ up' = FALSE
  /\ polling' = {}
  /\ seen' = [s \in Subscriber |-> {}]
  /\ batch' = [s \in Subscriber |-> << >>]
  /\ got' = [s \in Subscriber |-> << >>]
  /\ acking' = [a \in Acker |-> NoMessage]
  /\ UNCHANGED <<emitted, mailbox, acked, dropped>>

Restart ==
  /\ ~up /\ up' = TRUE
  /\ UNCHANGED <<emitted, mailbox, calls, got, acked, dropped>>

-----------------------------------------------------------------------------

Workflow == ContinueAsNew \/ ReceiveDeliver \/ ReceiveAck

Next ==
  \/ Workflow
  \/ Emit
  \/ \E a \in Acker : SignalAck(a) \/ \E m \in Message : FindHeld(a, m)
  \/ \E s \in Subscriber : Subscribe(s) \/ Poll(s) \/ Send(s) \/ PollerReturns(s)
  \/ Stop \/ Restart

Spec == Init /\ [][Next]_vars

(* No message is lost but by a full buffer: each that was emitted is       *)
(* queued or buffered, or was acknowledged, or at least MaxPending newer   *)
(* ones pushed it out.  An acknowledgement is queued after its message was *)
(* received, and once it is received the message is gone for good: across  *)
(* continuing as new, which takes deliveries before acknowledgements,      *)
(* restarts, and acknowledgements made twice.                              *)
MailboxKeeps ==
  /\ \A m \in 1 .. emitted :
       \/ m \in Elements(deliverCh) \cup Elements(pending) \cup acked
       \/ m \in dropped /\ emitted - m >= MaxPending
  /\ \A m \in acked :
       /\ m \notin Elements(deliverCh)
       /\ m \in Elements(pending) => m \in Elements(ackCh)

(* A subscription sends each message once, in the order they were emitted, *)
(* though every query returns all that is pending then.                    *)
SentInOrder ==
  \A s \in Subscriber : \A i, j \in DOMAIN got[s] : i < j => got[s][i] < got[s][j]
=============================================================================
