------------------------------- MODULE Routes --------------------------------
(***************************************************************************)
(* Where a message goes: internal/server/server.go EmitFromWorker, called  *)
(* for the workers by internal/server/api/messages.go handleEmitMessage    *)
(* and for a schedule by FireSchedule, on a chart g that does not change   *)
(* meanwhile.  NoOne is the empty recipient.                               *)
(***************************************************************************)
EXTENDS OrgChart, Sequences

Upward    == {"status_update", "escalation"}               \* to the parent, whoever is named
Addressed == {"completed_work", "request_for_input"}       \* to whom it names, or the parent
MessageType == Upward \cup Addressed \cup {"scheduled"}

Refused(why) == [refused |-> why, to |-> NoOne]
To(w)        == [refused |-> "", to |-> w]

(* Mutant of Recipient: the recipient that is named need not be a worker. *)
RecipientAsNamed(g, from, type, to) ==
  IF type \in Upward \/ (type \in Addressed /\ to = NoOne) THEN Parent(g, from) ELSE to

(* The recipient; one that is named must be in the chart. *)
Recipient(g, from, type, to) ==
  IF type \in Upward \/ (type \in Addressed /\ to = NoOne) THEN Parent(g, from)
  ELSE IF to \in Members(g) THEN to ELSE Absent

EmitFromWorker(g, from, type, to) ==
  LET recipient == Recipient(g, from, type, to)
  IN IF from \notin Members(g) THEN Refused("unknown sender")
     ELSE IF type \notin MessageType THEN Refused("unknown type")
     ELSE IF type = "scheduled" /\ to = NoOne THEN Refused("no recipient")
     ELSE IF recipient = Absent THEN Refused("unknown recipient")
     ELSE IF recipient = NoOne /\ type \in {"escalation", "request_for_input"}
       THEN Refused("nobody to escalate to")
     ELSE To(recipient)

(* A schedule is fired and not sent by a worker. *)
HandleEmitMessage(g, from, type, to) ==
  IF type = "scheduled" THEN Refused("scheduled") ELSE EmitFromWorker(g, from, type, to)

(* An escalation that everybody who gets it hands on, n times. *)
Escalated(g, w, n) ==
  LET Handed[k \in 0 .. n] ==
        IF k = 0 THEN To(w)
        ELSE IF Handed[k - 1].refused # "" THEN Handed[k - 1]
        ELSE HandleEmitMessage(g, Handed[k - 1].to, "escalation", NoOne)
  IN Handed[n]

(* server.go:695-757: where nobody reports to an ID that is gone, whatever *)
(* is sent goes to a worker; nothing goes to the sender who did not name   *)
(* itself; what is accepted and goes to nobody is a report by a worker at  *)
(* the root.                                                               *)
GoesToWorkers(g) ==
  NoDangling(g) /\ NoSelfEdge(g) =>
    \A from, to \in Worker \cup {NoOne}, type \in MessageType \cup {"other"} :
      LET sent == EmitFromWorker(g, from, type, to)
      IN sent.refused = "" =>
           /\ sent.to \in Members(g) \/ (type \notin {"escalation", "scheduled"} /\ g[from].reportsTo = NoOne)
           /\ sent.to = from => to = from /\ type \notin Upward

(* On a forest an escalation that is handed on goes up the line and ends   *)
(* with a worker at the root, who is told that there is nobody else; on a  *)
(* cycle it never does.                                                    *)
EscalationsEnd(g) ==
  \A w \in Members(g) :
    LET ends == Escalated(g, w, Cardinality(Worker) + 1)
    IN /\ Forest(g) => ends.refused = "nobody to escalate to"
       /\ ClimbLoops(g, w) => ends.refused = ""
=============================================================================
