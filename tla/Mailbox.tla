------------------------------ MODULE Mailbox ------------------------------
(***************************************************************************)
(* What messaging.MessagingBackend (pkg/messaging/messaging.go) promises,  *)
(* of a backend that keeps its messages: what was emitted stays, whatever  *)
(* stops; only the recipient receives a message, or acknowledges it; and   *)
(* it is received in the end, unless it was acknowledged first.            *)
(***************************************************************************)
CONSTANTS Worker, Message,
          Listening,   \* workers that somebody receives for
          Nobody       \* no recipient, and no worker: a message not emitted

VARIABLES to,        \* the recipient of each message
          received,  \* who has received what
          acked      \* messages that are acknowledged

vars == <<to, received, acked>>

Init ==
  /\ to = [m \in Message |-> Nobody]
  /\ received = {}
  /\ acked = {}

Emit(m, w) ==
  /\ to[m] = Nobody
  /\ to' = [to EXCEPT ![m] = w]
  /\ UNCHANGED <<received, acked>>

(* A message may come more than once, and after it was acknowledged. *)
Receive(m, w) ==
  /\ to[m] = w
  /\ received' = received \cup {<<w, m>>}
  /\ UNCHANGED <<to, acked>>

Ack(m, w) ==
  /\ to[m] = w
  /\ acked' = acked \cup {m}
  /\ UNCHANGED <<to, received>>

Next == \E m \in Message, w \in Worker : Emit(m, w) \/ Receive(m, w) \/ Ack(m, w)

Safe == Init /\ [][Next]_vars

Spec ==
  /\ Safe
  /\ \A m \in Message, w \in Listening : WF_vars(m \notin acked /\ Receive(m, w))
=============================================================================
