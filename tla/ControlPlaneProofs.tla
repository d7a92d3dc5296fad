------------------------- MODULE ControlPlaneProofs -------------------------
(***************************************************************************)
(* Properties of ControlPlane that hold for every number of workers and of *)
(* overlapping requests, and wherever statements fail and the process      *)
(* stops.                                                                  *)
(***************************************************************************)
EXTENDS ControlPlane, OrgChartTheorems, FiniteSetTheorems, SequenceTheorems

(* What a request holds on to, by the step it stands before: the row it is *)
(* about to write is not its own parent's, the list of removals is not     *)
(* used up, and the ID whose schedules it drops is already revoked.        *)
Carried(r, banned) ==
  /\ r.at \notin {"idle", "putSchedule"} => r.who \in Worker
  /\ r.at \in {"relabel", "add"} \/ (r.at = "check" /\ r.op = "connect") => r.row \in Row
  /\ r.at = "save" => r.row \in Row /\ r.row.reportsTo # r.who
  /\ r.at \in {"rereadKid", "saveKid"} => r.kid \in Worker
  /\ r.at = "saveKid" => r.row \in Row /\ r.row.reportsTo # r.kid
  /\ r.at \in {"adopt", "rereadKid", "saveKid", "remove", "unstore", "revoke",
               "listSchedules", "dropSchedules"}
       => r.removing # << >>
  /\ r.at \in {"listSchedules", "dropSchedules"} => Head(r.removing) \in banned

RequestsCarry == \A t \in Thread : Carried(req[t], revoked)

IInv == TypeOK /\ RequestsCarry /\ NoSelfReport /\ DeletedIsRevoked

LEMMA IdleCarries == Idle \in Request /\ \A banned : Carried(Idle, banned)
BY DEF Idle, Request, Carried

(* An acyclic chart has no self-reports. *)
LEMMA AcyclicNoSelf ==
  ASSUME NEW g \in Chart, Acyclic(g)
  PROVE  NoSelfEdge(g)
<1>1. SUFFICES ASSUME NEW w \in Members(g), Parent(g, w) = w
               PROVE  FALSE
  BY DEF NoSelfEdge
<1>2. {w} \in SUBSET Members(g) /\ {w} # {}
  OBVIOUS
<1>3. QED
  BY <1>1, <1>2 DEF Acyclic

(* A step of one request replaces its record and leaves the others alone. *)
LEMMA OthersCarry ==
  ASSUME TypeOK, RequestsCarry, NEW t \in Thread, NEW r \in Request,
         req' = [req EXCEPT ![t] = r],
         revoked \subseteq revoked', Carried(r, revoked')
  PROVE  req' \in [Thread -> Request] /\ RequestsCarry'
<1>1. req' \in [Thread -> Request]
  BY DEF TypeOK
<1>2. ASSUME NEW u \in Thread
      PROVE  Carried(req'[u], revoked')
  <2>1. CASE u = t
    BY <2>1 DEF TypeOK
  <2>2. CASE u # t
    BY <2>2 DEF TypeOK, RequestsCarry, Carried
  <2>3. QED
    BY <2>1, <2>2
<1>3. QED
  BY <1>1, <1>2 DEF RequestsCarry

(* Setting the program counter, as a record. *)
LEMMA GotoRecord ==
  ASSUME TypeOK, NEW t \in Thread, NEW where, Goto(t, where)
  PROVE  req' = [req EXCEPT ![t] = [req[t] EXCEPT !.at = where]]
BY DEF Goto, TypeOK

-----------------------------------------------------------------------------

LEMMA InitIInv == Init => IInv
<1>1. SUFFICES ASSUME Init
               PROVE  IInv
  OBVIOUS
<1>2. graph \in Chart /\ Acyclic(graph)
  BY <1>1, StartAssumption DEF Init, Forest
<1>3. NoSelfReport
  BY <1>1, <1>2, AcyclicNoSelf DEF NoSelfReport, Init
<1>4. TypeOK
  <2>1. req \in [Thread -> Request]
    BY <1>1, IdleCarries DEF Init
  <2>2. served \in 0 .. MaxRequests /\ fails \in 0 .. MaxFails /\ stops \in 0 .. MaxStops
    BY <1>1, BoundAssumption DEF Init
  <2>3. QED
    BY <1>1, <1>2, <2>1, <2>2 DEF Init, TypeOK
<1>5. RequestsCarry
  BY <1>1, IdleCarries DEF Init, RequestsCarry
<1>6. DeletedIsRevoked
  BY <1>1 DEF Init, DeletedIsRevoked
<1>7. QED
  BY <1>3, <1>4, <1>5, <1>6 DEF IInv

(* A request arrives with a record that carries what its first step needs. *)
LEMMA BeginIInv ==
  ASSUME IInv, NEW t \in Thread, NEW r \in Request, Carried(r, revoked), Begin(t, r)
  PROVE  IInv'
<1>1. /\ UNCHANGED <<graph, up, stuck, unaware, store, revoked, schedules, fails, stops, fate>>
      /\ req' = [req EXCEPT ![t] = r]
      /\ served' \in 0 .. MaxRequests
  BY BoundAssumption DEF Begin, memory, process, tables, IInv, TypeOK
<1>2. req' \in [Thread -> Request] /\ RequestsCarry'
  BY <1>1, OthersCarry DEF IInv
<1>3. QED
  BY <1>1, <1>2 DEF IInv, TypeOK, NoSelfReport, NoSelfEdge, DeletedIsRevoked, Members, Parent

LEMMA ArriveIInv ==
  ASSUME IInv, NEW t \in Thread, Arrive(t)
  PROVE  IInv'
<1>1. PICK w \in Worker :
        \/ \E row \in Row : BeginConnect(t, w, row)
        \/ BeginTouch(t, w)
        \/ \E p \in Worker \cup {NoOne}, by \in Caller : BeginReassign(t, w, p, by)
        \/ \E ro \in Role, by \in Caller : BeginSetRole(t, w, ro, by)
        \/ \E cascade \in BOOLEAN : BeginDelete(t, w, cascade)
        \/ \E s \in Schedule, to \in Worker : BeginPutSchedule(t, s, w, to)
  BY DEF Arrive
<1>2. graph \in Chart
  BY DEF IInv, TypeOK
<1>3. ASSUME NEW row \in Row, BeginConnect(t, w, row)
      PROVE  IInv'
  <2> DEFINE r == [Idle EXCEPT !.at = "check", !.op = "connect", !.who = w, !.row = row]
  <2>1. r \in Request /\ r.at = "check" /\ r.who = w /\ r.row = row
    BY <1>2, IdleCarries DEF Request
  <2>2. Carried(r, revoked)
    BY <2>1 DEF Carried
  <2>3. QED
    BY <1>3, <2>1, <2>2, BeginIInv DEF BeginConnect
<1>4. CASE BeginTouch(t, w)
  <2> DEFINE r == [Idle EXCEPT !.at = "check", !.op = "touch", !.who = w]
  <2>1. r \in Request /\ r.at = "check" /\ r.op = "touch" /\ r.who = w
    BY <1>2, IdleCarries DEF Request
  <2>2. Carried(r, revoked)
    BY <2>1 DEF Carried
  <2>3. QED
    BY <1>4, <2>1, <2>2, BeginIInv DEF BeginTouch
<1>5. ASSUME NEW p \in Worker \cup {NoOne}, NEW by \in Caller, BeginReassign(t, w, p, by)
      PROVE  IInv'
  <2> DEFINE r == [Idle EXCEPT !.at = "move", !.op = "reassign", !.who = w, !.parent = p]
  <2>1. r \in Request /\ r.at = "move" /\ r.who = w
    BY IdleCarries DEF Request
  <2>2. Carried(r, revoked)
    BY <2>1 DEF Carried
  <2>3. QED
    BY <1>5, <2>1, <2>2, BeginIInv DEF BeginReassign
<1>6. ASSUME NEW ro \in Role, NEW by \in Caller, BeginSetRole(t, w, ro, by)
      PROVE  IInv'
  <2> DEFINE row == [reportsTo |-> NoOne, role |-> ro]
             r   == [Idle EXCEPT !.at = "relabel", !.op = "role", !.who = w, !.row = row]
  <2>0. row \in Row
    BY DEF Row
  <2> HIDE DEF row
  <2>1. r \in Request /\ r.at = "relabel" /\ r.who = w /\ r.row = row
    BY <2>0, IdleCarries DEF Request
  <2>2. Carried(r, revoked)
    BY <2>0, <2>1 DEF Carried
  <2>3. Begin(t, r)
    BY <1>6 DEF BeginSetRole, row
  <2>4. QED
    BY <2>1, <2>2, <2>3, BeginIInv
<1>7. ASSUME NEW cascade \in BOOLEAN, BeginDelete(t, w, cascade)
      PROVE  IInv'
  <2> DEFINE p == Parent(graph, w)
             r == [Idle EXCEPT !.at = "list", !.op = "delete", !.who = w,
                               !.cascade = cascade, !.parent = p]
  <2>0. p \in Worker \cup {NoOne}
    BY <1>2, <1>7, MemberRow DEF BeginDelete
  <2> HIDE DEF p
  <2>1. r \in Request /\ r.at = "list" /\ r.who = w
    BY <2>0, IdleCarries DEF Request
  <2>2. Carried(r, revoked)
    BY <2>1 DEF Carried
  <2>3. Begin(t, r)
    BY <1>7 DEF BeginDelete, p
  <2>4. QED
    BY <2>1, <2>2, <2>3, BeginIInv
<1>8. ASSUME NEW s \in Schedule, NEW to \in Worker, BeginPutSchedule(t, s, w, to)
      PROVE  IInv'
  <2> DEFINE r == [Idle EXCEPT !.at = "lookup", !.op = "schedule", !.who = to, !.drop = {s},
                               !.names = {w, to}]
  <2>1. r \in Request /\ r.at = "lookup" /\ r.who = to
    BY IdleCarries DEF Request
  <2>2. Carried(r, revoked)
    BY <2>1 DEF Carried
  <2>3. QED
    BY <1>8, <2>1, <2>2, BeginIInv DEF BeginPutSchedule
<1>9. QED
  BY <1>1, <1>3, <1>4, <1>5, <1>6, <1>7, <1>8

-----------------------------------------------------------------------------

(* What is left to show of a step of request t: the new record carries     *)
(* what it must, the charts have no self-reports, and an ID counted as     *)
(* deleted is revoked.                                                     *)
LEMMA StepIInv ==
  ASSUME IInv, NEW t \in Thread, NEW r \in Request,
         req' = [req EXCEPT ![t] = r], Carried(r, revoked'),
         graph' \in Chart, NoSelfEdge(graph'),
         store' \in Chart, NoSelfEdge(store'),
         revoked' \in SUBSET Worker, revoked \subseteq revoked',
         schedules' \in [Schedule -> SUBSET Worker],
         fate' \in [Worker -> {"kept", "erased", "deleted"}],
         \A w \in Worker : fate'[w] = "deleted" => fate[w] = "deleted" \/ w \in revoked',
         unaware' \in SUBSET Worker, UNCHANGED <<up, stuck, bounds>>
  PROVE  IInv'
<1>1. req' \in [Thread -> Request] /\ RequestsCarry'
  BY OthersCarry DEF IInv
<1>2. TypeOK'
  BY <1>1 DEF IInv, TypeOK, bounds
<1>3. NoSelfReport'
  BY DEF NoSelfReport, NoSelfEdge, Members, Parent
<1>4. DeletedIsRevoked'
  BY DEF IInv, DeletedIsRevoked
<1>5. QED
  BY <1>1, <1>2, <1>3, <1>4 DEF IInv

(* A step that changes no table, no fate and no chart. *)
LEMMA PlainIInv ==
  ASSUME IInv, NEW t \in Thread, NEW r \in Request,
         req' = [req EXCEPT ![t] = r], Carried(r, revoked),
         UNCHANGED <<memory, tables, bounds, fate>>
  PROVE  IInv'
BY StepIInv DEF memory, process, tables, IInv, TypeOK, NoSelfReport

(* A step that only leaves a walk looping. *)
LEMMA StuckIInv ==
  ASSUME IInv, stuck' \in {"reader", "writer"}, UNCHANGED <<graph, req, up, unaware, tables, bounds, fate>>
  PROVE  IInv'
<1>1. UNCHANGED <<store, revoked, schedules, served, fails, stops>>
  BY DEF tables, bounds
<1>2. TypeOK'
  BY <1>1 DEF IInv, TypeOK
<1>3. RequestsCarry'
  BY <1>1 DEF IInv, RequestsCarry, Carried
<1>4. NoSelfReport' /\ DeletedIsRevoked'
  BY <1>1 DEF IInv, NoSelfReport, DeletedIsRevoked, NoSelfEdge, Members, Parent
<1>5. QED
  BY <1>2, <1>3, <1>4 DEF IInv

(* A step that ends a request without any effect. *)
LEMMA ReturnIInv ==
  ASSUME IInv, NEW t \in Thread, Return(t), UNCHANGED <<memory, tables, bounds, fate>>
  PROVE  IInv'
BY IdleCarries, PlainIInv DEF Return

(* Moving the program counter keeps the rest of the record. *)
LEMMA GotoFields ==
  ASSUME IInv, NEW t \in Thread,
         NEW where \in {"idle", "check", "add", "move", "relabel", "reread", "save",
                        "list", "adopt", "rereadKid", "saveKid", "remove", "unstore",
                        "revoke", "listSchedules", "dropSchedules", "announce", "lookup", "putSchedule"},
         Goto(t, where)
  PROVE  \E r \in Request :
           /\ req' = [req EXCEPT ![t] = r]
           /\ r.at = where
           /\ r.op = req[t].op /\ r.who = req[t].who /\ r.row = req[t].row
           /\ r.kid = req[t].kid /\ r.removing = req[t].removing /\ r.names = req[t].names
<1> DEFINE r == [req[t] EXCEPT !.at = where]
<1>1. req[t] \in Request
  BY DEF IInv, TypeOK
<1>2. /\ r \in Request
      /\ r.at = where
      /\ r.op = req[t].op /\ r.who = req[t].who /\ r.row = req[t].row
      /\ r.kid = req[t].kid /\ r.removing = req[t].removing /\ r.names = req[t].names
  BY <1>1 DEF Request
<1>3. req' = [req EXCEPT ![t] = r]
  BY GotoRecord DEF IInv
<1> HIDE DEF r
<1>4. QED
  BY <1>2, <1>3

LEMMA CheckRevokedIInv ==
  ASSUME IInv, NEW t \in Thread, CheckRevoked(t)
  PROVE  IInv'
<1>1. CASE Return(t)
  BY <1>1, ReturnIInv DEF CheckRevoked
<1>2. CASE req[t].op = "connect" /\ Goto(t, "add")
  <2>1. req[t].row \in Row /\ req[t].who \in Worker
    BY <1>2 DEF IInv, RequestsCarry, Carried, CheckRevoked, At
  <2>2. PICK r \in Request : /\ req' = [req EXCEPT ![t] = r]
                             /\ r.at = "add" /\ r.who = req[t].who /\ r.row = req[t].row
    BY <1>2, GotoFields
  <2>3. Carried(r, revoked)
    BY <2>1, <2>2 DEF Carried
  <2>4. QED
    BY <2>2, <2>3, PlainIInv DEF CheckRevoked
<1>3. CASE Goto(t, "reread")
  <2>1. req[t].who \in Worker
    BY DEF IInv, RequestsCarry, Carried, CheckRevoked, At
  <2>2. PICK r \in Request : /\ req' = [req EXCEPT ![t] = r]
                             /\ r.at = "reread" /\ r.who = req[t].who
    BY <1>3, GotoFields
  <2>3. Carried(r, revoked)
    BY <2>1, <2>2 DEF Carried
  <2>4. QED
    BY <2>2, <2>3, PlainIInv DEF CheckRevoked
<1>4. QED
  BY <1>1, <1>2, <1>3 DEF CheckRevoked

LEMMA ConnectAddIInv ==
  ASSUME IInv, NEW t \in Thread, ConnectAdd(t)
  PROVE  IInv'
<1> DEFINE w   == req[t].who
           row == req[t].row
<1>1. w \in Worker /\ row \in Row /\ graph \in Chart
  BY DEF IInv, TypeOK, RequestsCarry, Carried, ConnectAdd, AtWrite, At
<1>2. CASE Return(t) /\ UNCHANGED graph
  BY <1>2, ReturnIInv DEF ConnectAdd, memory, process
<1>3. CASE CanAdd(graph, w, row) /\ graph' = PutRow(graph, w, row) /\ Goto(t, "save")
  <2>1. row.reportsTo # w
    BY <1>1, <1>3, NoOneAssumption DEF CanAdd
  <2>2. PICK r \in Request : /\ req' = [req EXCEPT ![t] = r]
                             /\ r.at = "save" /\ r.who = w /\ r.row = row
    BY <1>3, GotoFields
  <2>3. Carried(r, revoked)
    BY <1>1, <2>1, <2>2 DEF Carried
  <2>4. graph' \in Chart /\ NoSelfEdge(graph')
    BY <1>1, <1>3, <2>1, PutRowEdges DEF NoSelfEdge, IInv, NoSelfReport
  <2>5. QED
    BY <2>2, <2>3, <2>4, StepIInv DEF ConnectAdd, tables, IInv, TypeOK, NoSelfReport
<1>4. QED
  BY <1>2, <1>3 DEF ConnectAdd

LEMMA RereadRowIInv ==
  ASSUME IInv, NEW t \in Thread, RereadRow(t)
  PROVE  IInv'
<1> DEFINE w == req[t].who
           r == [req[t] EXCEPT !.row = graph[w], !.at = "save"]
<1>1. req[t] \in Request /\ graph \in Chart
  BY DEF IInv, TypeOK
<1>2. CASE Return(t)
  BY <1>2, ReturnIInv DEF RereadRow
<1>3. CASE w \in Members(graph) /\ req' = [req EXCEPT ![t].row = graph[w], ![t].at = "save"]
  <2>1. graph[w] \in Row /\ graph[w].reportsTo # w /\ w \in Worker
    BY <1>1, <1>3, MemberRow DEF IInv, NoSelfReport, NoSelfEdge, Parent
  <2>2. r \in Request /\ r.at = "save" /\ r.who = w /\ r.row = graph[w]
    BY <1>1, <2>1 DEF Request
  <2>3. req' = [req EXCEPT ![t] = r]
    BY <1>3 DEF IInv, TypeOK
  <2>4. Carried(r, revoked)
    BY <2>1, <2>2 DEF Carried
  <2> HIDE DEF r
  <2>5. QED
    BY <2>2, <2>3, <2>4, PlainIInv DEF RereadRow
<1>4. QED
  BY <1>2, <1>3 DEF RereadRow

LEMMA SaveRowIInv ==
  ASSUME IInv, NEW t \in Thread, SaveRow(t)
  PROVE  IInv'
<1>1. /\ req[t].who \in Worker
      /\ req[t].row \in Row
      /\ req[t].row.reportsTo # req[t].who
      /\ store \in Chart
      /\ NoSelfEdge(store)
  BY DEF IInv, TypeOK, RequestsCarry, Carried, SaveRow, At, NoSelfReport
<1>2. store' \in Chart /\ NoSelfEdge(store')
  BY <1>1, PutRowEdges DEF SaveRow, NoSelfEdge
<1>3. QED
  BY <1>2, IdleCarries, StepIInv DEF SaveRow, Return, memory, process, IInv, TypeOK, NoSelfReport

(* The steps of a move. *)
LEMMA MoveWorkerIInv ==
  ASSUME IInv, NEW t \in Thread, MoveWorker(t)
  PROVE  IInv'
<1> DEFINE w == req[t].who
           p == req[t].parent
<1>1. w \in Worker /\ p \in Worker \cup {NoOne} /\ graph \in Chart
  BY DEF IInv, TypeOK, Request, RequestsCarry, Carried, MoveWorker, AtWrite, At
<1>2. CASE Return(t) /\ UNCHANGED <<graph, stuck>>
  BY <1>2, ReturnIInv DEF MoveWorker, memory, process
<1>3. CASE stuck' = "writer" /\ UNCHANGED <<graph, req>>
  BY <1>3, StuckIInv DEF MoveWorker
<1>4. CASE CanReassign(graph, w, p) /\ graph' = Reassign(graph, w, p) /\ Goto(t, "reread") /\ UNCHANGED stuck
  <2>1. PICK r \in Request : /\ req' = [req EXCEPT ![t] = r]
                             /\ r.at = "reread" /\ r.who = w
    BY <1>4, GotoFields
  <2>2. Carried(r, revoked)
    BY <1>1, <2>1 DEF Carried
  <2>3. w \in Members(graph) /\ p # w
    BY <1>1, <1>4, NoOneAssumption DEF CanReassign
  <2>4. graph' \in Chart /\ NoSelfEdge(graph')
    BY <1>1, <1>4, <2>3, ReassignEdges DEF NoSelfEdge, IInv, NoSelfReport
  <2>5. QED
    BY <1>4, <2>1, <2>2, <2>4, StepIInv DEF MoveWorker, tables, IInv, TypeOK, NoSelfReport
<1>5. QED
  BY <1>2, <1>3, <1>4 DEF MoveWorker

LEMMA RelabelWorkerIInv ==
  ASSUME IInv, NEW t \in Thread, RelabelWorker(t)
  PROVE  IInv'
<1> DEFINE w  == req[t].who
           ro == req[t].row.role
<1>1. w \in Worker /\ ro \in Role /\ graph \in Chart
  BY DEF IInv, TypeOK, Row, RequestsCarry, Carried, RelabelWorker, AtWrite, At
<1>2. CASE Return(t) /\ UNCHANGED graph
  BY <1>2, ReturnIInv DEF RelabelWorker, memory, process
<1>3. CASE w \in Members(graph) /\ graph' = SetRole(graph, w, ro) /\ Goto(t, "reread")
  <2>1. PICK r \in Request : /\ req' = [req EXCEPT ![t] = r]
                             /\ r.at = "reread" /\ r.who = w
    BY <1>3, GotoFields
  <2>2. Carried(r, revoked)
    BY <1>1, <2>1 DEF Carried
  <2>3. graph' \in Chart /\ NoSelfEdge(graph')
    BY <1>1, <1>3, SetRoleEdges DEF NoSelfEdge, IInv, NoSelfReport
  <2>4. QED
    BY <2>1, <2>2, <2>3, StepIInv DEF RelabelWorker, tables, IInv, TypeOK, NoSelfReport
<1>4. QED
  BY <1>2, <1>3 DEF RelabelWorker

-----------------------------------------------------------------------------
(* The steps of a delete.                                                  *)

(* The order of removals is a sequence of workers. *)
LEMMA RemovalOrder ==
  ASSUME NEW g, NEW D \in SUBSET Worker, NEW order \in LeavesFirst(g, D), NEW w \in Worker
  PROVE  order \o <<w>> \in Seq(Worker) /\ order \o <<w>> # << >>
<1>1. Cardinality(D) \in Nat
  BY WorkerAssumption, FS_Subset, FS_CardinalityType
<1> DEFINE n == Cardinality(D)
<1>2. order \in [1 .. n -> D]
  BY DEF LeavesFirst
<1> HIDE DEF n
<1>3. order \in [1 .. n -> Worker]
  BY <1>2
<1>4. order \in Seq(Worker)
  BY <1>1, <1>3 DEF n
<1>5. QED
  BY <1>4

LEMMA ListReportsIInv ==
  ASSUME IInv, NEW t \in Thread, ListReports(t)
  PROVE  IInv'
<1> DEFINE w == req[t].who
<1>1. req[t] \in Request /\ w \in Worker
  BY DEF IInv, TypeOK, RequestsCarry, Carried, ListReports, AtRead, At
<1>2. CASE Return(t) /\ UNCHANGED stuck
  BY <1>2, ReturnIInv DEF ListReports, memory, process
<1>3. CASE stuck' = "reader" /\ UNCHANGED req
  BY <1>3, StuckIInv DEF ListReports
<1>4. ASSUME NEW order \in LeavesFirst(graph, Descendants(graph, w)),
             req' = [req EXCEPT ![t].removing = order \o <<w>>, ![t].at = "remove"],
             UNCHANGED stuck
      PROVE  IInv'
  <2> DEFINE ids == order \o <<w>>
             r   == [req[t] EXCEPT !.removing = ids, !.at = "remove"]
  <2>1. Descendants(graph, w) \in SUBSET Worker
    BY DEF Descendants, Members
  <2>2. ids \in Seq(Worker) /\ ids # << >>
    BY <1>1, <2>1, RemovalOrder
  <2>3. req' = [req EXCEPT ![t] = r]
    BY <1>4 DEF IInv, TypeOK
  <2> HIDE DEF ids
  <2>4. r \in Request /\ r.at = "remove" /\ r.who = w /\ r.removing = ids
    BY <1>1, <2>2 DEF Request
  <2>5. Carried(r, revoked)
    BY <1>1, <2>2, <2>4 DEF Carried
  <2> HIDE DEF r
  <2>6. QED
    BY <1>4, <2>3, <2>4, <2>5, PlainIInv DEF ListReports, memory, process
<1>5. ASSUME NEW where \in {"remove", "adopt"},
             req' = [req EXCEPT ![t].kids = Children(graph, w), ![t].removing = <<w>>, ![t].at = where],
             UNCHANGED stuck
      PROVE  IInv'
  <2> DEFINE kids == Children(graph, w)
             ids  == <<w>>
             r    == [req[t] EXCEPT !.kids = kids, !.removing = ids, !.at = where]
  <2>1. kids \in SUBSET Worker /\ ids \in Seq(Worker) /\ ids # << >>
    BY <1>1 DEF Children, Members
  <2>2. req' = [req EXCEPT ![t] = r]
    BY <1>5 DEF IInv, TypeOK
  <2> HIDE DEF kids, ids
  <2>3. r \in Request /\ r.at = where /\ r.who = w /\ r.removing = ids
    BY <1>1, <2>1 DEF Request
  <2>4. Carried(r, revoked)
    BY <1>1, <2>1, <2>3 DEF Carried
  <2> HIDE DEF r
  <2>5. QED
    BY <1>5, <2>2, <2>3, <2>4, PlainIInv DEF ListReports, memory, process
<1>6. QED
  <2>1. CASE Children(graph, w) = {}
    BY <1>2, <1>3, <1>4, <1>5, <2>1 DEF ListReports
  <2>2. CASE Children(graph, w) # {}
    BY <1>2, <1>3, <1>4, <1>5, <2>2 DEF ListReports
  <2>3. QED
    BY <2>1, <2>2

LEMMA AdoptKidIInv ==
  ASSUME IInv, NEW t \in Thread, NEW k \in Worker, AdoptKid(t, k)
  PROVE  IInv'
<1> DEFINE p == req[t].parent
           r == [req[t] EXCEPT !.kid = k, !.at = "rereadKid"]
<1>1. /\ req[t] \in Request /\ p \in Worker \cup {NoOne} /\ req[t].who \in Worker
      /\ req[t].removing # << >> /\ graph \in Chart
  BY DEF IInv, TypeOK, Request, RequestsCarry, Carried, AdoptKid, AtWrite, At
<1>2. CASE Return(t) /\ UNCHANGED <<graph, stuck>>
  BY <1>2, ReturnIInv DEF AdoptKid, memory, process
<1>3. CASE stuck' = "writer" /\ UNCHANGED <<graph, req>>
  BY <1>3, StuckIInv DEF AdoptKid
<1>4. CASE /\ CanReassign(graph, k, p)
           /\ graph' = Reassign(graph, k, p)
           /\ req' = [req EXCEPT ![t].kid = k, ![t].at = "rereadKid"]
           /\ UNCHANGED stuck
  <2>1. /\ r \in Request /\ r.at = "rereadKid" /\ r.kid = k /\ r.who = req[t].who
        /\ r.removing = req[t].removing
    BY <1>1 DEF Request
  <2>2. req' = [req EXCEPT ![t] = r]
    BY <1>4 DEF IInv, TypeOK
  <2>3. Carried(r, revoked)
    BY <1>1, <2>1 DEF Carried
  <2>4. k \in Members(graph) /\ p # k
    BY <1>1, <1>4, NoOneAssumption DEF CanReassign
  <2>5. graph' \in Chart /\ NoSelfEdge(graph')
    BY <1>1, <1>4, <2>4, ReassignEdges DEF NoSelfEdge, IInv, NoSelfReport
  <2> HIDE DEF r
  <2>6. QED
    BY <1>4, <2>1, <2>2, <2>3, <2>5, StepIInv DEF AdoptKid, tables, IInv, TypeOK, NoSelfReport
<1>5. QED
  BY <1>2, <1>3, <1>4 DEF AdoptKid

LEMMA RereadKidIInv ==
  ASSUME IInv, NEW t \in Thread, RereadKid(t)
  PROVE  IInv'
<1> DEFINE k == req[t].kid
           r == [req[t] EXCEPT !.row = graph[k], !.at = "saveKid"]
<1>1. /\ req[t] \in Request /\ graph \in Chart /\ req[t].who \in Worker
      /\ req[t].removing # << >>
  BY DEF IInv, TypeOK, RequestsCarry, Carried, RereadKid, AtRead, At
<1>2. CASE Return(t)
  BY <1>2, ReturnIInv DEF RereadKid
<1>3. CASE k \in Members(graph) /\ req' = [req EXCEPT ![t].row = graph[k], ![t].at = "saveKid"]
  <2>1. graph[k] \in Row /\ graph[k].reportsTo # k /\ k \in Worker
    BY <1>1, <1>3, MemberRow DEF IInv, NoSelfReport, NoSelfEdge, Parent
  <2>2. /\ r \in Request /\ r.at = "saveKid" /\ r.who = req[t].who /\ r.kid = k
        /\ r.row = graph[k] /\ r.removing = req[t].removing
    BY <1>1, <2>1 DEF Request
  <2>3. req' = [req EXCEPT ![t] = r]
    BY <1>3 DEF IInv, TypeOK
  <2>4. Carried(r, revoked)
    BY <1>1, <2>1, <2>2 DEF Carried
  <2> HIDE DEF r
  <2>5. QED
    BY <2>2, <2>3, <2>4, PlainIInv DEF RereadKid
<1>4. QED
  BY <1>2, <1>3 DEF RereadKid

LEMMA SaveKidIInv ==
  ASSUME IInv, NEW t \in Thread, SaveKid(t)
  PROVE  IInv'
<1> DEFINE k     == req[t].kid
           left  == req[t].kids \ {k}
           where == IF left = {} THEN "remove" ELSE "adopt"
           r     == [req[t] EXCEPT !.kids = left, !.kid = NoOne, !.at = where]
<1>1. /\ req[t] \in Request /\ req[t].who \in Worker
      /\ k \in Worker /\ req[t].row \in Row /\ req[t].row.reportsTo # k
      /\ store \in Chart /\ NoSelfEdge(store)
  BY DEF IInv, TypeOK, RequestsCarry, Carried, SaveKid, At, NoSelfReport
<1>2. store' \in Chart /\ NoSelfEdge(store')
  BY <1>1, PutRowEdges DEF SaveKid, NoSelfEdge
<1>3. req' = [req EXCEPT ![t] = r]
  BY DEF SaveKid, IInv, TypeOK
<1>4. left \in SUBSET Worker /\ where \in {"remove", "adopt"}
  BY <1>1 DEF Request
<1> HIDE DEF left, where
<1>5. /\ r \in Request /\ r.at = where /\ r.who = req[t].who
      /\ r.removing = req[t].removing
  BY <1>1, <1>4 DEF Request
<1>6. req[t].removing # << >>
  BY DEF IInv, RequestsCarry, Carried, SaveKid, At
<1>7. Carried(r, revoked)
  BY <1>1, <1>4, <1>5, <1>6 DEF Carried
<1> HIDE DEF r
<1>8. QED
  BY <1>2, <1>3, <1>5, <1>7, StepIInv DEF SaveKid, memory, process, IInv, TypeOK, NoSelfReport

(* The ID a delete is at work on. *)
LEMMA HeadRemoving ==
  ASSUME IInv, NEW t \in Thread,
         req[t].at \in {"remove", "unstore", "revoke", "listSchedules", "dropSchedules"}
  PROVE  /\ req[t].who \in Worker
         /\ req[t].removing \in Seq(Worker)
         /\ req[t].removing # << >>
         /\ Head(req[t].removing) \in Worker
<1>1. req[t] \in Request /\ Carried(req[t], revoked)
  BY DEF IInv, TypeOK, RequestsCarry
<1>2. req[t].who \in Worker /\ req[t].removing \in Seq(Worker) /\ req[t].removing # << >>
  BY <1>1 DEF Request, Carried
<1>3. QED
  BY <1>2

LEMMA RemoveFromChartIInv ==
  ASSUME IInv, NEW t \in Thread, RemoveFromChart(t)
  PROVE  IInv'
<1> DEFINE id == Head(req[t].removing)
<1>1. req[t].who \in Worker /\ req[t].removing # << >> /\ id \in Worker /\ graph \in Chart
  BY HeadRemoving DEF IInv, TypeOK, RemoveFromChart, AtWrite, At
<1>2. CASE Return(t) /\ UNCHANGED graph
  BY <1>2, ReturnIInv DEF RemoveFromChart, memory, process
<1>3. CASE graph' = Remove(graph, id) /\ Goto(t, "unstore")
  <2>1. PICK r \in Request : /\ req' = [req EXCEPT ![t] = r]
                             /\ r.at = "unstore" /\ r.who = req[t].who
                             /\ r.removing = req[t].removing
    BY <1>3, GotoFields
  <2>2. Carried(r, revoked)
    BY <1>1, <2>1 DEF Carried
  <2>3. graph' \in Chart /\ NoSelfEdge(graph')
    BY <1>1, <1>3, RemoveEdges DEF NoSelfEdge, IInv, NoSelfReport
  <2>4. QED
    BY <2>1, <2>2, <2>3, StepIInv DEF RemoveFromChart, tables, IInv, TypeOK, NoSelfReport
<1>4. QED
  BY <1>2, <1>3 DEF RemoveFromChart

LEMMA RemoveFromStoreIInv ==
  ASSUME IInv, NEW t \in Thread, RemoveFromStore(t)
  PROVE  IInv'
<1> DEFINE id == Head(req[t].removing)
<1>1. req[t].who \in Worker /\ req[t].removing # << >> /\ id \in Worker /\ store \in Chart
  BY HeadRemoving DEF IInv, TypeOK, RemoveFromStore, At
<1>2. PICK r \in Request : /\ req' = [req EXCEPT ![t] = r]
                           /\ r.at = "revoke" /\ r.who = req[t].who
                           /\ r.removing = req[t].removing
  BY GotoFields DEF RemoveFromStore
<1>3. Carried(r, revoked)
  BY <1>1, <1>2 DEF Carried
<1>4. store' = Remove(store, id)
  BY DEF RemoveFromStore, PutRow, Remove
<1>5. store' \in Chart /\ NoSelfEdge(store')
  BY <1>1, <1>4, RemoveEdges DEF NoSelfEdge, IInv, NoSelfReport
<1>6. /\ fate' \in [Worker -> {"kept", "erased", "deleted"}]
      /\ \A w \in Worker : fate'[w] = "deleted" => fate[w] = "deleted"
  BY <1>1 DEF RemoveFromStore, IInv, TypeOK
<1>7. QED
  BY <1>2, <1>3, <1>5, <1>6, StepIInv DEF RemoveFromStore, memory, process, IInv, TypeOK, NoSelfReport

LEMMA RevokeRemovedIInv ==
  ASSUME IInv, NEW t \in Thread, RevokeRemoved(t)
  PROVE  IInv'
<1> DEFINE id == Head(req[t].removing)
<1>1. req[t].who \in Worker /\ req[t].removing # << >> /\ id \in Worker
  BY HeadRemoving DEF RevokeRemoved, At
<1>2. PICK r \in Request : /\ req' = [req EXCEPT ![t] = r]
                           /\ r.at = "listSchedules" /\ r.who = req[t].who
                           /\ r.removing = req[t].removing
  BY GotoFields DEF RevokeRemoved
<1>3. revoked' = revoked \cup {id} /\ revoked' \in SUBSET Worker
  BY <1>1 DEF RevokeRemoved, IInv, TypeOK
<1>4. Carried(r, revoked')
  BY <1>1, <1>2, <1>3 DEF Carried
<1>5. unaware' \in SUBSET Worker
  BY <1>1 DEF RevokeRemoved, IInv, TypeOK
<1>6. QED
  BY <1>2, <1>3, <1>4, <1>5, StepIInv DEF RevokeRemoved, process, IInv, TypeOK, NoSelfReport

(* An ID is finished: it is revoked by then. *)
LEMMA NextRemovalIInv ==
  ASSUME IInv, NEW t \in Thread, At(t, "listSchedules") \/ At(t, "dropSchedules"),
         NextRemoval(t), UNCHANGED <<memory, store, revoked, bounds>>,
         schedules' \in [Schedule -> SUBSET Worker]
  PROVE  IInv'
<1> DEFINE id   == Head(req[t].removing)
           left == Tail(req[t].removing)
           gone == req[t].names \cup {id}
           at   == IF left = << >> THEN "announce" ELSE "remove"
           r    == [req[t] EXCEPT !.removing = left, !.drop = {}, !.names = gone, !.at = at]
<1>1. /\ req[t].who \in Worker /\ req[t].removing \in Seq(Worker)
      /\ req[t].removing # << >> /\ id \in Worker
  BY HeadRemoving DEF At
<1>2. id \in revoked
  BY DEF IInv, RequestsCarry, Carried, At
<1>3. /\ fate' \in [Worker -> {"kept", "erased", "deleted"}]
      /\ \A w \in Worker : fate'[w] = "deleted" => fate[w] = "deleted" \/ w \in revoked
  BY <1>1, <1>2 DEF NextRemoval, IInv, TypeOK
<1>4. left \in Seq(Worker)
  BY <1>1
<1>5. req[t] \in Request /\ gone \in SUBSET Worker
  BY <1>1 DEF IInv, TypeOK, Request
<1>6. req' = [req EXCEPT ![t] = r]
  BY DEF NextRemoval, IInv, TypeOK
<1>7. at \in {"announce", "remove"} /\ (at = "remove" => left # << >>)
  OBVIOUS
<1> HIDE DEF id, left, gone, at
<1>8. /\ r \in Request /\ r.at = at /\ r.who = req[t].who
      /\ r.removing = left
  BY <1>4, <1>5, <1>7 DEF Request
<1>9. Carried(r, revoked)
  BY <1>1, <1>7, <1>8 DEF Carried
<1> HIDE DEF r
<1>10. QED
  BY <1>3, <1>6, <1>8, <1>9, StepIInv DEF memory, process, IInv, TypeOK, NoSelfReport

LEMMA ListSchedulesIInv ==
  ASSUME IInv, NEW t \in Thread, ListSchedules(t)
  PROVE  IInv'
<1> DEFINE owned == {s \in Schedule : Head(req[t].removing) \in schedules[s]}
           r     == [req[t] EXCEPT !.drop = owned, !.at = "dropSchedules"]
<1>1. CASE NextRemoval(t)
  BY <1>1, NextRemovalIInv DEF ListSchedules, tables, IInv, TypeOK
<1>2. CASE req' = [req EXCEPT ![t].drop = owned, ![t].at = "dropSchedules"] /\ UNCHANGED fate
  <2>1. /\ req[t].who \in Worker /\ req[t].removing # << >>
        /\ Head(req[t].removing) \in revoked /\ req[t] \in Request
    BY HeadRemoving DEF ListSchedules, At, IInv, TypeOK, RequestsCarry, Carried
  <2>2. owned \in SUBSET Schedule
    OBVIOUS
  <2>3. req' = [req EXCEPT ![t] = r]
    BY <1>2 DEF IInv, TypeOK
  <2> HIDE DEF owned
  <2>4. /\ r \in Request /\ r.at = "dropSchedules" /\ r.who = req[t].who
        /\ r.removing = req[t].removing
    BY <2>1, <2>2 DEF Request
  <2>5. Carried(r, revoked)
    BY <2>1, <2>4 DEF Carried
  <2> HIDE DEF r
  <2>6. QED
    BY <1>2, <2>3, <2>4, <2>5, PlainIInv DEF ListSchedules, memory
<1>3. QED
  BY <1>1, <1>2 DEF ListSchedules

LEMMA DropScheduleIInv ==
  ASSUME IInv, NEW t \in Thread, NEW s \in Schedule, DropSchedule(t, s)
  PROVE  IInv'
<1> DEFINE left == req[t].drop \ {s}
           r    == [req[t] EXCEPT !.drop = left]
<1>1. schedules' \in [Schedule -> SUBSET Worker]
  BY DEF DropSchedule, IInv, TypeOK
<1>2. CASE NextRemoval(t)
  BY <1>1, <1>2, NextRemovalIInv DEF DropSchedule
<1>3. CASE Return(t) /\ UNCHANGED fate
  BY <1>1, <1>3, IdleCarries, StepIInv DEF DropSchedule, Return, memory, process, IInv, TypeOK, NoSelfReport
<1>4. CASE req' = [req EXCEPT ![t].drop = @ \ {s}] /\ UNCHANGED fate
  <2>1. /\ req[t].who \in Worker /\ req[t].removing # << >>
        /\ req[t].at = "dropSchedules" /\ Head(req[t].removing) \in revoked
        /\ req[t] \in Request
    BY HeadRemoving DEF DropSchedule, At, IInv, TypeOK, RequestsCarry, Carried
  <2>2. left \in SUBSET Schedule
    BY <2>1 DEF Request
  <2>3. req' = [req EXCEPT ![t] = r]
    BY <1>4 DEF IInv, TypeOK
  <2> HIDE DEF left
  <2>4. /\ r \in Request /\ r.at = "dropSchedules" /\ r.who = req[t].who
        /\ r.removing = req[t].removing
    BY <2>1, <2>2 DEF Request
  <2>5. Carried(r, revoked)
    BY <2>1, <2>4 DEF Carried
  <2> HIDE DEF r
  <2>6. QED
    BY <1>1, <1>4, <2>3, <2>4, <2>5, StepIInv DEF DropSchedule, memory, process, IInv, TypeOK, NoSelfReport
<1>5. QED
  BY <1>2, <1>3, <1>4 DEF DropSchedule

LEMMA AnnounceIInv ==
  ASSUME IInv, NEW t \in Thread, Announce(t)
  PROVE  IInv'
<1>1. unaware' \in SUBSET Worker
  BY DEF Announce, IInv, TypeOK
<1>2. QED
  BY <1>1, IdleCarries, StepIInv DEF Announce, Return, process, tables, IInv, TypeOK, NoSelfReport

-----------------------------------------------------------------------------
(* The handlers of one table write, failing statements, the process.       *)

LEMMA LookUpRecipientIInv ==
  ASSUME IInv, NEW t \in Thread, LookUpRecipient(t)
  PROVE  IInv'
<1>1. CASE Return(t)
  BY <1>1, ReturnIInv DEF LookUpRecipient
<1>2. CASE Goto(t, "putSchedule")
  <2>1. PICK r \in Request : req' = [req EXCEPT ![t] = r] /\ r.at = "putSchedule"
    BY <1>2, GotoFields
  <2>2. Carried(r, revoked)
    BY <2>1 DEF Carried
  <2>3. QED
    BY <2>1, <2>2, PlainIInv DEF LookUpRecipient
<1>3. QED
  BY <1>1, <1>2 DEF LookUpRecipient

LEMMA PutScheduleIInv ==
  ASSUME IInv, NEW t \in Thread, PutSchedule(t)
  PROVE  IInv'
<1>1. req[t].names \in SUBSET Worker
  BY DEF IInv, TypeOK, Request
<1>2. schedules' \in [Schedule -> SUBSET Worker]
  BY <1>1 DEF PutSchedule, IInv, TypeOK
<1>3. QED
  BY <1>2, IdleCarries, StepIInv DEF PutSchedule, Return, memory, process, IInv, TypeOK, NoSelfReport

LEMMA DeleteScheduleIInv ==
  ASSUME IInv, NEW t \in Thread, NEW s \in Schedule, DeleteSchedule(t, s)
  PROVE  IInv'
<1>1. /\ UNCHANGED <<graph, up, stuck, unaware, store, revoked, req, fails, stops, fate>>
      /\ schedules' \in [Schedule -> SUBSET Worker]
      /\ served' \in 0 .. MaxRequests
  BY BoundAssumption DEF DeleteSchedule, memory, process, IInv, TypeOK
<1>2. QED
  BY <1>1 DEF IInv, TypeOK, RequestsCarry, Carried, NoSelfReport, NoSelfEdge, Members, Parent,
              DeletedIsRevoked

LEMMA RevokeWorkerIInv ==
  ASSUME IInv, NEW t \in Thread, NEW w \in Worker, RevokeWorker(t, w)
  PROVE  IInv'
<1>1. /\ UNCHANGED <<graph, up, stuck, store, schedules, req, fails, stops, fate>>
      /\ unaware' \in SUBSET Worker
      /\ revoked' \in SUBSET Worker /\ revoked \subseteq revoked'
      /\ served' \in 0 .. MaxRequests
  BY BoundAssumption DEF RevokeWorker, memory, process, IInv, TypeOK
<1>2. RequestsCarry'
  BY <1>1 DEF IInv, RequestsCarry, Carried
<1>3. QED
  BY <1>1, <1>2 DEF IInv, TypeOK, NoSelfReport, NoSelfEdge, Members, Parent, DeletedIsRevoked

LEMMA StoreFailsIInv ==
  ASSUME IInv, NEW t \in Thread, StoreFails(t)
  PROVE  IInv'
<1>1. /\ UNCHANGED <<graph, up, stuck, unaware, store, revoked, schedules, served, stops, fate>>
      /\ fails' \in 0 .. MaxFails
  BY BoundAssumption DEF StoreFails, memory, process, tables, IInv, TypeOK
<1>2. req' \in [Thread -> Request] /\ RequestsCarry'
  BY <1>1, IdleCarries, OthersCarry DEF StoreFails, Return, IInv
<1>3. QED
  BY <1>1, <1>2 DEF IInv, TypeOK, NoSelfReport, NoSelfEdge, Members, Parent, DeletedIsRevoked

(* A start serves a forest. *)
LEMMA ServeIInv ==
  ASSUME IInv, NEW g \in Chart, Forest(g), Serve(g)
  PROVE  IInv'
<1>1. NoSelfEdge(g)
  BY AcyclicNoSelf DEF Forest
<1>2. TypeOK'
  BY DEF Serve, bounds, IInv, TypeOK
<1>3. NoSelfReport'
  BY <1>1 DEF Serve, NoSelfReport, NoSelfEdge, Members, Parent
<1>4. RequestsCarry' /\ DeletedIsRevoked'
  BY DEF Serve, IInv, RequestsCarry, Carried, DeletedIsRevoked
<1>5. QED
  BY <1>2, <1>3, <1>4 DEF IInv

LEMMA StopIInv ==
  ASSUME IInv, Stop
  PROVE  IInv'
<1>1. req' \in [Thread -> Request] /\ RequestsCarry'
  BY IdleCarries DEF Stop, RequestsCarry
<1>2. EmptyChart \in Chart /\ NoSelfEdge(EmptyChart)
  BY DEF EmptyChart, Chart, NoSelfEdge, Members
<1>3. TypeOK'
  <2>1. stops' \in 0 .. MaxStops
    BY BoundAssumption DEF Stop, IInv, TypeOK
  <2>2. UNCHANGED <<store, revoked, schedules, served, fails, fate>>
    BY DEF Stop, tables
  <2>3. /\ up' \in BOOLEAN /\ stuck' \in {"no", "reader", "writer"}
        /\ graph' \in Chart /\ unaware' \in SUBSET Worker
    BY <1>2 DEF Stop
  <2>4. QED
    BY <1>1, <2>1, <2>2, <2>3 DEF IInv, TypeOK
<1>4. NoSelfReport' /\ DeletedIsRevoked'
  BY <1>2 DEF Stop, tables, IInv, NoSelfReport, NoSelfEdge, Members, Parent, DeletedIsRevoked
<1>5. QED
  BY <1>1, <1>3, <1>4 DEF IInv

(* The rows a load that is cut short leaves in the table. *)
LEMMA LoadCutShortIInv ==
  ASSUME IInv, LoadCutShort
  PROVE  IInv'
<1>1. store \in Chart /\ NoSelfEdge(store)
  BY DEF IInv, TypeOK, NoSelfReport
<1>2. PICK done \in SUBSET Worker : store' = PartlyLoaded(done)
  BY DEF LoadCutShort
<1>3. store' \in Chart /\ NoSelfEdge(store')
  <2>1. CASE Members(store) # {}
    <3> DEFINE h == Rebuild(store)
    <3>1. h \in Chart /\ NoSelfEdge(h)
      BY <1>1, RebuildForest, AcyclicNoSelf DEF Forest
    <3>2. store' = [w \in Worker |-> IF w \in done THEN h[w] ELSE store[w]]
      BY <1>2, <2>1 DEF PartlyLoaded
    <3> HIDE DEF h
    <3>3. QED
      BY <1>1, <3>1, <3>2 DEF Chart, NoSelfEdge, Members, Parent
  <2>2. CASE Members(store) = {}
    <3>1. ChartFile \in Chart /\ NoSelfEdge(ChartFile)
      BY FileAssumption, AcyclicNoSelf DEF Forest
    <3>2. store' = [w \in Worker |-> IF w \in done THEN ChartFile[w] ELSE Absent]
      BY <1>2, <2>2 DEF PartlyLoaded
    <3>3. QED
      BY <3>1, <3>2 DEF Chart, NoSelfEdge, Members, Parent
  <2>3. QED
    BY <2>1, <2>2
<1>4. TypeOK'
  BY <1>3, BoundAssumption DEF LoadCutShort, memory, process, IInv, TypeOK
<1>5. NoSelfReport'
  BY <1>3 DEF LoadCutShort, memory, process, IInv, NoSelfReport, NoSelfEdge, Members, Parent
<1>6. RequestsCarry' /\ DeletedIsRevoked'
  BY DEF LoadCutShort, IInv, RequestsCarry, Carried, DeletedIsRevoked
<1>7. QED
  BY <1>4, <1>5, <1>6 DEF IInv

LEMMA LoadIInv ==
  ASSUME IInv, LoadGraph \/ LoadChartFile
  PROVE  IInv'
<1>1. store \in Chart
  BY DEF IInv, TypeOK
<1>2. CASE LoadGraph
  BY <1>1, <1>2, RebuildForest, ServeIInv DEF LoadGraph
<1>3. CASE LoadChartFile
  BY <1>3, FileAssumption, ServeIInv DEF LoadChartFile
<1>4. QED
  BY <1>2, <1>3

-----------------------------------------------------------------------------
(* The invariant, and what it says.                                        *)

LEMMA HandleIInv ==
  ASSUME IInv, NEW t \in Thread, Handle(t)
  PROVE  IInv'
<1>1. CASE CheckRevoked(t) \/ ConnectAdd(t) \/ RereadRow(t) \/ SaveRow(t)
  BY <1>1, CheckRevokedIInv, ConnectAddIInv, RereadRowIInv, SaveRowIInv
<1>2. CASE MoveWorker(t) \/ RelabelWorker(t)
  BY <1>2, MoveWorkerIInv, RelabelWorkerIInv
<1>3. CASE ListReports(t) \/ (\E k \in Worker : AdoptKid(t, k)) \/ RereadKid(t) \/ SaveKid(t)
  BY <1>3, ListReportsIInv, AdoptKidIInv, RereadKidIInv, SaveKidIInv
<1>4. CASE RemoveFromChart(t) \/ RemoveFromStore(t) \/ RevokeRemoved(t) \/ ListSchedules(t)
  BY <1>4, RemoveFromChartIInv, RemoveFromStoreIInv, RevokeRemovedIInv, ListSchedulesIInv
<1>5. CASE (\E s \in Schedule : DropSchedule(t, s)) \/ Announce(t) \/ LookUpRecipient(t) \/ PutSchedule(t)
  BY <1>5, DropScheduleIInv, AnnounceIInv, LookUpRecipientIInv, PutScheduleIInv
<1>6. QED
  BY <1>1, <1>2, <1>3, <1>4, <1>5 DEF Handle

LEMMA NextIInv == IInv /\ [Next]_vars => IInv'
<1>1. SUFFICES ASSUME IInv, [Next]_vars
               PROVE  IInv'
  OBVIOUS
<1>2. ASSUME NEW t \in Thread, Handle(t) \/ Arrive(t) \/ StoreFails(t)
      PROVE  IInv'
  BY <1>1, <1>2, HandleIInv, ArriveIInv, StoreFailsIInv
<1>3. ASSUME NEW t \in Thread, NEW s \in Schedule, DeleteSchedule(t, s)
      PROVE  IInv'
  BY <1>1, <1>3, DeleteScheduleIInv
<1>4. ASSUME NEW t \in Thread, NEW w \in Worker, RevokeWorker(t, w)
      PROVE  IInv'
  BY <1>1, <1>4, RevokeWorkerIInv
<1>5. CASE Process
  BY <1>1, <1>5, StopIInv, LoadIInv, LoadCutShortIInv DEF Process
<1>6. CASE UNCHANGED vars
  <2>1. UNCHANGED <<graph, up, stuck, unaware, store, revoked, schedules, req, served, fails, stops, fate>>
    BY <1>6 DEF vars, memory, process, tables, bounds
  <2>2. QED
    BY <1>1, <2>1 DEF IInv, TypeOK, RequestsCarry, Carried, NoSelfReport, NoSelfEdge, Members,
                      Parent, DeletedIsRevoked
<1>7. QED
  BY <1>1, <1>2, <1>3, <1>4, <1>5, <1>6 DEF Next

LEMMA Invariance == Spec => []IInv
<1>1. QED
  BY InitIInv, NextIInv, PTL DEF Spec

(* Every step leaves the charts, the tables and the requests well formed;  *)
(* in particular each read of a removal list finds an ID in it.            *)
THEOREM PlaneTypes == Spec => []TypeOK
<1>1. IInv => TypeOK
  BY DEF IInv
<1>2. QED
  BY <1>1, Invariance, PTL

(* server.go, graph.go: whatever requests overlap and wherever they fail   *)
(* or stop, nobody reports to themselves, in the chart or in the table.    *)
THEOREM NobodyReportsToThemselves == Spec => []NoSelfReport
<1>1. IInv => NoSelfReport
  BY DEF IInv
<1>2. QED
  BY <1>1, Invariance, PTL

(* server.go:635-648: a worker a delete has finished with is revoked, for  *)
(* good.                                                                   *)
THEOREM DeletedAreRevoked == Spec => []DeletedIsRevoked
<1>1. IInv => DeletedIsRevoked
  BY DEF IInv
<1>2. QED
  BY <1>1, Invariance, PTL

(* server.go:338-379: from any table, the process comes back with a forest *)
(* that the table agrees with.                                             *)
THEOREM RestartsRepair == Spec => RestartRepairs
<1>1. IInv /\ [Next]_vars => [~up /\ up' => Forest(graph') /\ store' = graph']_vars
  <2>1. SUFFICES ASSUME IInv, Next, ~up, up'
                 PROVE  Forest(graph') /\ store' = graph'
    OBVIOUS
  <2>2. LoadGraph \/ LoadChartFile
    <3>1. ASSUME NEW t \in Thread
          PROVE  /\ ~(Handle(t) \/ Arrive(t) \/ StoreFails(t))
                 /\ \A s \in Schedule : ~DeleteSchedule(t, s)
                 /\ \A w \in Worker : ~RevokeWorker(t, w)
      BY <2>1 DEF Handle, CheckRevoked, ConnectAdd, RereadRow, SaveRow, MoveWorker, RelabelWorker, LookUpRecipient,
                  ListReports, AdoptKid, RereadKid, SaveKid, RemoveFromChart, RemoveFromStore,
                  RevokeRemoved, ListSchedules, DropSchedule, Announce, PutSchedule, AtRead, AtWrite, At, StoreFails,
                  Arrive, BeginConnect, BeginTouch, BeginReassign, BeginSetRole, BeginDelete,
                  BeginPutSchedule, Begin, DeleteSchedule, RevokeWorker
    <3>2. QED
      BY <2>1, <3>1 DEF Next, Process, Stop, LoadCutShort, memory, process
  <2>3. QED
    BY <2>1, <2>2, RebuildForest, FileAssumption DEF LoadGraph, LoadChartFile, Serve, IInv, TypeOK
<1>2. QED
  BY <1>1, Invariance, PTL DEF Spec, RestartRepairs

(* What the steps do to the chart. *)
LEMMA ChartSteps ==
  ASSUME IInv, Next
  PROVE  \/ UNCHANGED graph
         \/ Acyclic(graph')
         \/ \E w \in Worker, row \in Row : CanAdd(graph, w, row) /\ graph' = PutRow(graph, w, row)
         \/ \E w \in Worker, p \in Worker \cup {NoOne} :
              CanReassign(graph, w, p) /\ graph' = Reassign(graph, w, p)
         \/ \E w \in Members(graph), ro \in Role : graph' = SetRole(graph, w, ro)
         \/ \E w \in Worker : graph' = Remove(graph, w)
<1> DEFINE Cases ==
         \/ UNCHANGED graph
         \/ Acyclic(graph')
         \/ \E w \in Worker, row \in Row : CanAdd(graph, w, row) /\ graph' = PutRow(graph, w, row)
         \/ \E w \in Worker, p \in Worker \cup {NoOne} :
              CanReassign(graph, w, p) /\ graph' = Reassign(graph, w, p)
         \/ \E w \in Members(graph), ro \in Role : graph' = SetRole(graph, w, ro)
         \/ \E w \in Worker : graph' = Remove(graph, w)
<1>1. ASSUME NEW t \in Thread, ConnectAdd(t)
      PROVE  Cases
  <2>1. req[t].who \in Worker /\ req[t].row \in Row
    BY <1>1 DEF IInv, RequestsCarry, Carried, ConnectAdd, AtWrite, At
  <2>2. QED
    BY <1>1, <2>1 DEF ConnectAdd
<1>2. ASSUME NEW t \in Thread, MoveWorker(t)
      PROVE  Cases
  <2>1. req[t].who \in Worker /\ req[t].parent \in Worker \cup {NoOne}
    BY <1>2 DEF IInv, TypeOK, Request, RequestsCarry, Carried, MoveWorker, AtWrite, At
  <2>2. QED
    BY <1>2, <2>1 DEF MoveWorker
<1>3. ASSUME NEW t \in Thread, RelabelWorker(t)
      PROVE  Cases
  <2>1. req[t].row.role \in Role
    BY <1>3 DEF IInv, RequestsCarry, Carried, RelabelWorker, AtWrite, At, Row
  <2>2. QED
    BY <1>3, <2>1 DEF RelabelWorker
<1>4. ASSUME NEW t \in Thread, NEW k \in Worker, AdoptKid(t, k)
      PROVE  Cases
  <2>1. req[t].parent \in Worker \cup {NoOne}
    BY DEF IInv, TypeOK, Request
  <2>2. QED
    BY <1>4, <2>1 DEF AdoptKid
<1>5. ASSUME NEW t \in Thread, RemoveFromChart(t)
      PROVE  Cases
  <2>1. Head(req[t].removing) \in Worker
    BY <1>5, HeadRemoving DEF RemoveFromChart, AtWrite, At
  <2>2. QED
    BY <1>5, <2>1 DEF RemoveFromChart
<1>6. ASSUME NEW t \in Thread, Handle(t) \/ Arrive(t) \/ StoreFails(t)
      PROVE  Cases
  <2>1. CASE \/ ConnectAdd(t) \/ MoveWorker(t) \/ RelabelWorker(t)
             \/ (\E k \in Worker : AdoptKid(t, k)) \/ RemoveFromChart(t)
    BY <2>1, <1>1, <1>2, <1>3, <1>4, <1>5
  <2>2. CASE \/ CheckRevoked(t) \/ RereadRow(t) \/ SaveRow(t) \/ ListReports(t) \/ RereadKid(t)
             \/ SaveKid(t) \/ RemoveFromStore(t) \/ RevokeRemoved(t) \/ ListSchedules(t)
             \/ (\E s \in Schedule : DropSchedule(t, s)) \/ Announce(t) \/ LookUpRecipient(t) \/ PutSchedule(t)
             \/ StoreFails(t)
    BY <2>2 DEF CheckRevoked, RereadRow, SaveRow, ListReports, RereadKid, SaveKid, RemoveFromStore,
                RevokeRemoved, ListSchedules, DropSchedule, Announce, LookUpRecipient, PutSchedule, StoreFails, memory, process
  <2>3. CASE Arrive(t)
    BY <2>3 DEF Arrive, BeginConnect, BeginTouch, BeginReassign, BeginSetRole, BeginDelete,
                BeginPutSchedule, Begin, memory, process
  <2>4. QED
    BY <1>6, <2>1, <2>2, <2>3 DEF Handle
<1>7. CASE Process
  <2>1. Acyclic(EmptyChart)
    BY DEF Acyclic, EmptyChart, Members
  <2>2. store \in Chart
    BY DEF IInv, TypeOK
  <2>3. QED
    BY <1>7, <2>1, <2>2, RebuildForest, FileAssumption
       DEF Process, Stop, LoadGraph, LoadChartFile, LoadCutShort, Serve, memory, process, Forest
<1>8. ASSUME NEW t \in Thread,
             (\E s \in Schedule : DeleteSchedule(t, s)) \/ (\E w \in Worker : RevokeWorker(t, w))
      PROVE  Cases
  BY <1>8 DEF DeleteSchedule, RevokeWorker, memory, process
<1>9. QED
  BY <1>6, <1>7, <1>8 DEF Next

(* server.go, graph.go: however requests overlap, fail or are cut short, a *)
(* cycle appears only when an ID comes back that is still reported to.     *)
THEOREM CyclesNeedReturns == Spec => CycleNeedsReturn
<1>1. IInv /\ [Next]_vars
        => [Acyclic(graph) /\ ~Acyclic(graph')
              => \E w \in Worker : /\ w \in Members(graph') \ Members(graph)
                                   /\ Children(graph, w) # {}]_vars
  <2>1. SUFFICES ASSUME IInv, Next, Acyclic(graph), ~Acyclic(graph')
                 PROVE  \E w \in Worker : /\ w \in Members(graph') \ Members(graph)
                                          /\ Children(graph, w) # {}
    OBVIOUS
  <2>2. graph \in Chart
    BY <2>1 DEF IInv, TypeOK
  <2>3. ASSUME NEW w \in Worker, NEW p \in Worker \cup {NoOne},
               CanReassign(graph, w, p), graph' = Reassign(graph, w, p)
        PROVE  FALSE
    BY <2>1, <2>2, <2>3, ReassignAcyclic
  <2>4. ASSUME NEW w \in Members(graph), NEW ro \in Role, graph' = SetRole(graph, w, ro)
        PROVE  FALSE
    BY <2>1, <2>2, <2>4, SetRoleEdges, SubchartAcyclic
  <2>5. ASSUME NEW w \in Worker, graph' = Remove(graph, w)
        PROVE  FALSE
    BY <2>1, <2>2, <2>5, RemoveEdges, SubchartAcyclic
  <2>6. PICK w \in Worker, row \in Row : CanAdd(graph, w, row) /\ graph' = PutRow(graph, w, row)
    BY <2>1, <2>3, <2>4, <2>5, ChartSteps
  <2>7. w \in Members(graph') \ Members(graph) /\ row.reportsTo # w
    BY <2>2, <2>6, PutRowEdges, NoOneAssumption DEF CanAdd
  <2>8. Children(graph, w) # {}
    BY <2>1, <2>2, <2>6, <2>7, AddAcyclic
  <2>9. QED
    BY <2>7, <2>8
<1>2. QED
  BY <1>1, Invariance, PTL DEF Spec, CycleNeedsReturn

-----------------------------------------------------------------------------
(* Walks that loop.                                                        *)

(* A process that is down has no walk under way. *)
HInv == HangNeedsCycle /\ (~up => stuck = "no")

(* A step of the running process leaves the walk under way, and the chart  *)
(* it holds, alone, or starts a loop on the chart as it is.                *)
Holds ==
  /\ up /\ up'
  /\ \/ stuck' = stuck /\ (graph' = graph \/ stuck = "no")
     \/ graph' = graph /\ ~Acyclic(graph)

LEMMA HandleHolds ==
  ASSUME IInv, NEW t \in Thread, Handle(t)
  PROVE  Holds
<1>0. graph \in Chart
  BY DEF IInv, TypeOK
<1>1. ASSUME NEW w, NEW p, ReassignHangs(graph, w, p)
      PROVE  ~Acyclic(graph)
  <2>1. p \in Worker /\ ClimbLoops(graph, p)
    BY <1>1 DEF ReassignHangs, Members
  <2>2. QED
    BY <1>0, <2>1, ClimbEnds
<1>2. ASSUME NEW w \in Members(graph), DescentLoops(graph, w)
      PROVE  ~Acyclic(graph)
  BY <1>0, <1>2, DescentEnds
<1>3. CASE \/ ConnectAdd(t) \/ RelabelWorker(t) \/ RemoveFromChart(t)
  BY <1>3 DEF ConnectAdd, RelabelWorker, RemoveFromChart, AtWrite, At, CanWrite, Holds
<1>4. CASE MoveWorker(t)
  BY <1>4, <1>1 DEF MoveWorker, AtWrite, At, CanWrite, Holds
<1>5. ASSUME NEW k \in Worker, AdoptKid(t, k)
      PROVE  Holds
  BY <1>5, <1>1 DEF AdoptKid, AtWrite, At, CanWrite, Holds
<1>6. CASE ListReports(t)
  BY <1>6, <1>2 DEF ListReports, AtRead, At, Holds
<1>7. CASE \/ CheckRevoked(t) \/ RereadRow(t) \/ SaveRow(t) \/ RereadKid(t) \/ SaveKid(t)
           \/ RemoveFromStore(t) \/ RevokeRemoved(t) \/ ListSchedules(t)
           \/ (\E s \in Schedule : DropSchedule(t, s)) \/ Announce(t) \/ LookUpRecipient(t) \/ PutSchedule(t)
  <2>1. up /\ UNCHANGED process
    BY <1>7 DEF memory, CheckRevoked, RereadRow, SaveRow, RereadKid, SaveKid, RemoveFromStore, RevokeRemoved,
                ListSchedules, DropSchedule, Announce, LookUpRecipient, PutSchedule, AtRead, At
  <2>2. QED
    BY <2>1 DEF process, Holds
<1>8. QED
  BY <1>3, <1>4, <1>5, <1>6, <1>7 DEF Handle

LEMMA NextHolds ==
  ASSUME IInv, HInv, Next
  PROVE  HInv'
<1>1. ASSUME Holds
      PROVE  HInv'
  BY <1>1, SMTT(30) DEF HInv, HangNeedsCycle, Holds
<1>2. ASSUME NEW t \in Thread, Arrive(t) \/ StoreFails(t)
      PROVE  up /\ UNCHANGED process
  BY <1>2 DEF memory, Arrive, BeginConnect, BeginTouch, BeginReassign, BeginSetRole, BeginDelete,
              BeginPutSchedule, Begin, At, StoreFails
<1>3. ASSUME NEW t \in Thread,
             \/ \E s \in Schedule : DeleteSchedule(t, s)
             \/ \E w \in Worker : RevokeWorker(t, w)
      PROVE  up /\ UNCHANGED process
  BY <1>3 DEF memory, DeleteSchedule, RevokeWorker, At
<1>4. CASE Process
  <2>1. CASE Stop
    BY <2>1 DEF Stop, HInv, HangNeedsCycle
  <2>2. CASE LoadGraph \/ LoadChartFile
    BY <2>2 DEF LoadGraph, LoadChartFile, Serve, HInv, HangNeedsCycle
  <2>3. CASE LoadCutShort
    BY <2>3 DEF LoadCutShort, memory, process, HInv, HangNeedsCycle
  <2>4. QED
    BY <1>4, <2>1, <2>2, <2>3 DEF Process
<1>5. ASSUME up, UNCHANGED process
      PROVE  Holds
  BY <1>5 DEF process, Holds
<1>6. QED
  BY <1>1, <1>2, <1>3, <1>4, <1>5, HandleHolds DEF Next

(* graph.go:84-177, server.go: however requests overlap, a walk hangs, and *)
(* the server with it, only on a chart that has a cycle.                   *)
THEOREM HangsNeedCycles == Spec => []HangNeedsCycle
<1>1. Init => HInv
  BY DEF Init, HInv, HangNeedsCycle
<1>2. IInv /\ HInv /\ [Next]_vars => HInv'
  <2>1. SUFFICES ASSUME IInv, HInv, UNCHANGED vars
                 PROVE  HInv'
    BY NextHolds
  <2>2. QED
    BY <2>1 DEF vars, memory, process, HInv, HangNeedsCycle
<1>3. HInv => HangNeedsCycle
  BY DEF HInv
<1>4. QED
  BY <1>1, <1>2, <1>3, Invariance, PTL DEF Spec

-----------------------------------------------------------------------------
(***************************************************************************)
(* When the server has one thread, requests are taken one at a time, while *)
(* statements fail and the process stops wherever they may.  Then, for any *)
(* workers, any charts and any number of requests, the chart is the forest *)
(* of GraphApi, the table follows it, and what a delete has taken out      *)
(* stays out.                                                              *)
(*                                                                         *)
(* None of this is inductive by itself, because a request does in several  *)
(* steps what it promises as a whole.  The invariant says how far the      *)
(* request under way has come: which removals are left and that nobody     *)
(* else reports to them, which row the table still misses, what the        *)
(* revocation cache has not been told, and which ID's schedules are being  *)
(* dropped.                                                                *)
(***************************************************************************)

Adoptions == {"adopt", "rereadKid", "saveKid"}
TakenOut  == {"unstore", "revoke", "listSchedules", "dropSchedules"}
Removals  == TakenOut \cup {"remove"}

(* The IDs in s can be removed in this order: whoever reports to one comes *)
(* before it.                                                              *)
LeavesLeft(g, s) ==
  \A i \in 1 .. Len(s) :
    /\ s[i] \in Members(g)
    /\ \A j \in 1 .. Len(s) : s[i] = s[j] => i = j
    /\ \A v \in Children(g, s[i]) : \E j \in 1 .. i - 1 : s[j] = v

(* The process is up with a forest, or down with nothing. *)
ProcessSound(t) ==
  /\ Forest(graph)
  /\ stuck = "no"
  /\ ~up => graph = EmptyChart /\ unaware = {} /\ req[t] = Idle /\ stops # 0

(* A delete has moved the reports it has dealt with, and removes leaves. *)
DeletePlan(r) ==
  /\ r.at = "list" => r.parent # r.who
  /\ r.at \in Adoptions =>
       /\ r.removing = <<r.who>> /\ r.who \in Members(graph) /\ r.parent # r.who
       /\ Children(graph, r.who) \subseteq r.kids \ (IF r.at = "adopt" THEN {} ELSE {r.kid})
  /\ r.at = "remove" => LeavesLeft(graph, r.removing)
  /\ r.at \in TakenOut => /\ LeavesLeft(graph, Tail(r.removing))
                          /\ Head(r.removing) \notin Members(graph)
  /\ r.at = "dropSchedules" => r.drop = {s \in Schedule : Head(r.removing) \in schedules[s]}

(* The row a request carries to the table is the one the chart has. *)
RowsRead(r) ==
  /\ (r.at = "check" /\ r.op # "connect") \/ r.at = "reread" => r.who \in Members(graph)
  /\ r.at = "save" => r.who \in Members(graph) /\ r.row = graph[r.who]
  /\ r.at = "rereadKid" => r.kid \in Members(graph)
  /\ r.at = "saveKid" => r.kid \in Members(graph) /\ r.row = graph[r.kid]

(* The one row in which the table may be behind. *)
InTransit(r) ==
  IF r.at \in {"reread", "save"} THEN {r.who}
  ELSE IF r.at \in {"rereadKid", "saveKid"} THEN {r.kid}
  ELSE IF r.at = "unstore" THEN {Head(r.removing)}
  ELSE {}

TableFollows(r) == up /\ fails = 0 => \A v \in Worker \ InTransit(r) : store[v] = graph[v]

(* The IDs a delete has revoked and not yet told the cache of. *)
CacheLags(r) ==
  IF r.at \in {"listSchedules", "dropSchedules"} THEN r.names \cup {Head(r.removing)}
  ELSE IF r.at \in Removals \cup {"announce"} THEN r.names
  ELSE {}

CacheTold(r) == fails = 0 => unaware \subseteq CacheLags(r)

(* Whom a schedule may name: members, and the ID being taken out. *)
MayBeNamed(r) == Members(graph) \cup (IF r.at \in TakenOut THEN {Head(r.removing)} ELSE {})

SchedulesNamed(r) ==
  fails = 0 /\ stops = 0 => \A s \in Schedule : schedules[s] \subseteq MayBeNamed(r)

(* Whoever is let in has not been deleted, and whoever is looked up for a  *)
(* schedule is still there.                                                *)
LooksHold(r) ==
  /\ r.at = "add" /\ fails = 0 => fate[r.who] # "deleted"
  /\ r.at = "lookup" => r.names \subseteq Members(graph) \cup {r.who}
  /\ r.at = "putSchedule" => r.names \subseteq Members(graph)

(* What a request has read still holds; what it has to do is all there is. *)
Knows(r)   == DeletePlan(r) /\ RowsRead(r) /\ LooksHold(r)
Settles(r) == TableFollows(r) /\ CacheTold(r) /\ SchedulesNamed(r)

SInv(t) == ProcessSound(t) /\ Knows(req[t]) /\ Settles(req[t]) /\ DeletedStaysGone

-----------------------------------------------------------------------------
(* What every step starts from. *)
LEMMA Here ==
  ASSUME IInv, NEW t \in Thread
  PROVE  /\ req[t] \in Request /\ Carried(req[t], revoked)
         /\ graph \in Chart /\ store \in Chart
         /\ \A r : req' = [req EXCEPT ![t] = r] => req'[t] = r
BY DEF IInv, TypeOK, RequestsCarry

(* Nothing is under way: the table is the chart, the cache knows, and the  *)
(* schedules name members.                                                 *)
Settled ==
  /\ up /\ fails = 0 => \A v \in Worker : store[v] = graph[v]
  /\ fails = 0 => unaware = {}
  /\ fails = 0 /\ stops = 0 => \A s \in Schedule : schedules[s] \subseteq Members(graph)

(* The steps before which nothing is under way. *)
Calm == {"idle", "check", "add", "move", "relabel", "list", "adopt", "lookup", "putSchedule"}

LEMMA CalmSettles ==
  ASSUME NEW r, r.at \in Calm
  PROVE  Settles(r) <=> Settled
BY DEF Calm, Settled, Settles, TableFollows, InTransit, CacheTold, CacheLags, SchedulesNamed,
       MayBeNamed, Removals, TakenOut

LEMMA IdleKnows == Idle.at = "idle" /\ Knows(Idle)
<1>1. Idle.at = "idle" BY DEF Idle
<1>2. QED BY <1>1 DEF Knows, DeletePlan, RowsRead, LooksHold, Adoptions, TakenOut

(* A step that changes the request and nothing else. *)
LEMMA RequestStep ==
  ASSUME IInv, NEW t \in Thread, SInv(t), up, NEW r, req' = [req EXCEPT ![t] = r],
         Knows(r), Settles(r), UNCHANGED <<memory, tables, fails, stops, fate>>
  PROVE  SInv(t)'
<1>1. req'[t] = r BY Here
<1>2. UNCHANGED <<graph, up, stuck, unaware, store, revoked, schedules, fails, stops, fate>>
  BY DEF memory, process, tables
<1>3. Knows(req[t])'
  BY <1>1, <1>2 DEF Knows, DeletePlan, RowsRead, LooksHold, LeavesLeft, Children, Members,
                    MayRearrange, Parent
<1>4. Settles(req[t])'
  BY <1>1, <1>2 DEF Settles, TableFollows, InTransit, CacheTold, CacheLags, SchedulesNamed,
                    MayBeNamed, Members
<1>5. ProcessSound(t)'
  BY <1>2 DEF SInv, ProcessSound, Forest, Acyclic, NoDangling, Members, Parent
<1>6. DeletedStaysGone' BY <1>2 DEF SInv, DeletedStaysGone, Members
<1> QED BY <1>3, <1>4, <1>5, <1>6 DEF SInv

(* A request ends with nothing under way. *)
LEMMA ReturnSeq ==
  ASSUME IInv, NEW t \in Thread, SInv(t), up, Return(t), Settled,
         UNCHANGED <<memory, tables, bounds, fate>>
  PROVE  SInv(t)'
<1>1. Settles(Idle) BY IdleKnows, CalmSettles DEF Calm
<1> QED BY <1>1, IdleKnows, RequestStep DEF Return, bounds

-----------------------------------------------------------------------------
(* A request arrives.                                                      *)

LEMMA BeginSeq ==
  ASSUME IInv, NEW t \in Thread, SInv(t), NEW r, r.at \in Calm, Knows(r), Begin(t, r)
  PROVE  SInv(t)'
<1>1. up /\ req[t].at = "idle" BY DEF Begin, At
<1>2. Settles(r) BY <1>1, CalmSettles DEF SInv, Calm
<1> QED BY <1>1, <1>2, RequestStep DEF Begin

LEMMA ArriveSeq ==
  ASSUME IInv, NEW t \in Thread, SInv(t), Arrive(t)
  PROVE  SInv(t)'
<1> USE DEF Knows, DeletePlan, RowsRead, LooksHold, Adoptions, TakenOut
<1>1. PICK w \in Worker :
        \/ \E row \in Row : BeginConnect(t, w, row)
        \/ BeginTouch(t, w)
        \/ \E p \in Worker \cup {NoOne}, by \in Caller : BeginReassign(t, w, p, by)
        \/ \E ro \in Role, by \in Caller : BeginSetRole(t, w, ro, by)
        \/ \E cascade \in BOOLEAN : BeginDelete(t, w, cascade)
        \/ \E s \in Schedule, to \in Worker : BeginPutSchedule(t, s, w, to)
  BY DEF Arrive
<1>2. ASSUME NEW row \in Row, BeginConnect(t, w, row)
      PROVE  SInv(t)'
  <2> DEFINE r == [Idle EXCEPT !.at = "check", !.op = "connect", !.who = w, !.row = row]
  <2>1. r.at = "check" /\ r.op = "connect" BY DEF Idle
  <2>2. Begin(t, r) BY <1>2 DEF BeginConnect
  <2> HIDE DEF r
  <2> QED BY <2>1, <2>2, BeginSeq DEF Calm
<1>3. CASE BeginTouch(t, w)
  <2> DEFINE r == [Idle EXCEPT !.at = "check", !.op = "touch", !.who = w]
  <2>1. r.at = "check" /\ r.who = w BY DEF Idle
  <2>2. Begin(t, r) /\ w \in Members(graph) BY <1>3 DEF BeginTouch
  <2> HIDE DEF r
  <2> QED BY <2>1, <2>2, BeginSeq DEF Calm
<1>4. ASSUME NEW p \in Worker \cup {NoOne}, NEW by \in Caller, BeginReassign(t, w, p, by)
      PROVE  SInv(t)'
  <2> DEFINE r == [Idle EXCEPT !.at = "move", !.op = "reassign", !.who = w, !.parent = p]
  <2>1. r.at = "move" /\ r.who = w BY DEF Idle
  <2>2. Begin(t, r) BY <1>4 DEF BeginReassign
  <2> HIDE DEF r
  <2> QED BY <2>1, <2>2, BeginSeq DEF Calm
<1>5. ASSUME NEW ro \in Role, NEW by \in Caller, BeginSetRole(t, w, ro, by)
      PROVE  SInv(t)'
  <2> DEFINE r == [Idle EXCEPT !.at = "relabel", !.op = "role", !.who = w,
                               !.row = [reportsTo |-> NoOne, role |-> ro]]
  <2>1. r.at = "relabel" BY DEF Idle
  <2>2. Begin(t, r) BY <1>5 DEF BeginSetRole
  <2> HIDE DEF r
  <2> QED BY <2>1, <2>2, BeginSeq DEF Calm
<1>6. ASSUME NEW cascade \in BOOLEAN, BeginDelete(t, w, cascade)
      PROVE  SInv(t)'
  <2> DEFINE r == [Idle EXCEPT !.at = "list", !.op = "delete", !.who = w,
                               !.cascade = cascade, !.parent = Parent(graph, w)]
  <2>1. r.at = "list" /\ r.who = w /\ r.parent = Parent(graph, w) BY DEF Idle
  <2>2. Begin(t, r) /\ w \in Members(graph) BY <1>6 DEF BeginDelete
  <2>3. Parent(graph, w) # w BY <2>2 DEF IInv, NoSelfReport, NoSelfEdge
  <2> HIDE DEF r
  <2> QED BY <2>1, <2>2, <2>3, BeginSeq DEF Calm
<1>7. ASSUME NEW s \in Schedule, NEW to \in Worker, BeginPutSchedule(t, s, w, to)
      PROVE  SInv(t)'
  <2> DEFINE r == [Idle EXCEPT !.at = "lookup", !.op = "schedule", !.who = to, !.drop = {s},
                               !.names = {w, to}]
  <2>1. r.at = "lookup" /\ r.who = to /\ r.names = {w, to} BY DEF Idle
  <2>2. Begin(t, r) /\ w \in Members(graph) BY <1>7 DEF BeginPutSchedule
  <2> HIDE DEF r
  <2> QED BY <2>1, <2>2, BeginSeq DEF Calm
<1> QED BY <1>1, <1>2, <1>3, <1>4, <1>5, <1>6, <1>7

-----------------------------------------------------------------------------
(* The steps that only look.                                               *)

LEMMA CheckRevokedSeq ==
  ASSUME IInv, NEW t \in Thread, SInv(t), CheckRevoked(t)
  PROVE  SInv(t)'
<1>1. up /\ req[t].at = "check" /\ UNCHANGED <<memory, tables, bounds, fate>>
  BY DEF CheckRevoked, At
<1>2. Settled BY <1>1, CalmSettles DEF SInv, Calm
<1>3. CASE Return(t) BY <1>1, <1>2, <1>3, ReturnSeq
<1>4. CASE /\ req[t].who \in revoked => req[t].who \in unaware
           /\ Goto(t, IF req[t].op = "connect" THEN "add" ELSE "reread")
  <2> DEFINE where == IF req[t].op = "connect" THEN "add" ELSE "reread"
  <2>1. PICK r \in Request : /\ req' = [req EXCEPT ![t] = r]
                             /\ r.at = where /\ r.who = req[t].who
    BY <1>4, GotoFields
  <2>2. req[t].who \in Worker BY <1>1, Here DEF Carried
  <2>3. fails = 0 => fate[req[t].who] # "deleted"
    BY <1>2, <1>4, <2>2 DEF Settled, IInv, DeletedIsRevoked
  <2>4. Knows(r)
    BY <1>1, <2>1, <2>3
    DEF SInv, Knows, DeletePlan, RowsRead, LooksHold, Adoptions, TakenOut
  <2>5. Settles(r)
    <3>1. CASE r.at = "add" BY <1>2, <3>1, CalmSettles DEF Calm
    <3>2. CASE r.at = "reread"
      BY <1>2, <3>2 DEF Settled, Settles, TableFollows, CacheTold, CacheLags, SchedulesNamed,
                        MayBeNamed, Removals, TakenOut
    <3> QED BY <2>1, <3>1, <3>2
  <2> QED BY <1>1, <2>1, <2>4, <2>5, RequestStep DEF bounds
<1> QED BY <1>3, <1>4 DEF CheckRevoked

LEMMA RereadRowSeq ==
  ASSUME IInv, NEW t \in Thread, SInv(t), RereadRow(t)
  PROVE  SInv(t)'
<1> DEFINE w == req[t].who
           r == [req[t] EXCEPT !.row = graph[w], !.at = "save"]
<1>1. up /\ req[t].at = "reread" /\ UNCHANGED <<memory, tables, bounds, fate>>
  BY DEF RereadRow, AtRead, At
<1>2. w \in Members(graph) BY <1>1 DEF SInv, Knows, RowsRead
<1>3. r.at = "save" /\ r.who = w /\ r.row = graph[w] BY Here DEF Request
<1>4. req' = [req EXCEPT ![t] = r] BY <1>2 DEF RereadRow, IInv, TypeOK
<1> HIDE DEF r
<1>5. Knows(r)
  BY <1>2, <1>3 DEF Knows, DeletePlan, RowsRead, LooksHold, Adoptions, TakenOut
<1>6. Settles(r)
  BY <1>1, <1>3 DEF SInv, Settles, TableFollows, InTransit, CacheTold, CacheLags,
                    SchedulesNamed, MayBeNamed, Removals, TakenOut
<1> QED BY <1>1, <1>4, <1>5, <1>6, RequestStep DEF bounds

LEMMA RereadKidSeq ==
  ASSUME IInv, NEW t \in Thread, SInv(t), RereadKid(t)
  PROVE  SInv(t)'
<1> DEFINE k == req[t].kid
           r == [req[t] EXCEPT !.row = graph[k], !.at = "saveKid"]
<1>1. up /\ req[t].at = "rereadKid" /\ UNCHANGED <<memory, tables, bounds, fate>>
  BY DEF RereadKid, AtRead, At
<1>2. k \in Members(graph) BY <1>1 DEF SInv, Knows, RowsRead
<1>3. /\ r.at = "saveKid" /\ r.kid = k /\ r.row = graph[k] /\ r.who = req[t].who
      /\ r.parent = req[t].parent /\ r.kids = req[t].kids /\ r.removing = req[t].removing
  BY Here DEF Request
<1>4. req' = [req EXCEPT ![t] = r] BY <1>2 DEF RereadKid, IInv, TypeOK
<1> HIDE DEF r
<1>5. Knows(r)
  BY <1>1, <1>2, <1>3
  DEF SInv, Knows, DeletePlan, RowsRead, LooksHold, Adoptions, TakenOut
<1>6. Settles(r)
  BY <1>1, <1>3 DEF SInv, Settles, TableFollows, InTransit, CacheTold, CacheLags,
                    SchedulesNamed, MayBeNamed, Removals, TakenOut
<1> QED BY <1>1, <1>4, <1>5, <1>6, RequestStep DEF bounds

LEMMA LookUpRecipientSeq ==
  ASSUME IInv, NEW t \in Thread, SInv(t), LookUpRecipient(t)
  PROVE  SInv(t)'
<1>1. up /\ req[t].at = "lookup" /\ UNCHANGED <<memory, tables, bounds, fate>>
  BY DEF LookUpRecipient, AtRead, At
<1>2. Settled BY <1>1, CalmSettles DEF SInv, Calm
<1>3. CASE Return(t) BY <1>1, <1>2, <1>3, ReturnSeq
<1>4. CASE req[t].who \in Members(graph) /\ Goto(t, "putSchedule")
  <2>1. PICK r \in Request : /\ req' = [req EXCEPT ![t] = r]
                             /\ r.at = "putSchedule" /\ r.names = req[t].names
    BY <1>4, GotoFields
  <2>2. Knows(r)
    BY <1>1, <1>4, <2>1
    DEF SInv, Knows, DeletePlan, RowsRead, LooksHold, Adoptions, TakenOut
  <2>3. Settles(r) BY <1>2, <2>1, CalmSettles DEF Calm
  <2> QED BY <1>1, <2>1, <2>2, <2>3, RequestStep DEF bounds
<1> QED BY <1>3, <1>4 DEF LookUpRecipient

-----------------------------------------------------------------------------
(* The steps that change the chart, and those that save the row.           *)

(* One row of the chart changes, and the request goes on with saving it.   *)
LEMMA ChartStep ==
  ASSUME IInv, NEW t \in Thread, SInv(t), Settled, up, NEW w \in Worker,
         graph' \in Chart, Forest(graph'), Members(graph') = Members(graph) \cup {w},
         \A v \in Worker \ {w} : graph'[v] = graph[v],
         fails = 0 => w \in Members(graph) \/ fate[w] # "deleted",
         UNCHANGED <<up, stuck, unaware, tables, bounds, fate>>,
         \/ req'[t].at \in {"reread", "save"} /\ req'[t].who = w
         \/ req'[t].at = "rereadKid" /\ req'[t].kid = w,
         Knows(req[t])'
  PROVE  SInv(t)'
<1>1. UNCHANGED <<up, stuck, unaware, store, revoked, schedules, fails, stops, fate>>
  BY DEF tables, bounds
<1>2. ProcessSound(t)' BY <1>1 DEF SInv, ProcessSound
<1>3. DeletedStaysGone' BY <1>1 DEF SInv, DeletedStaysGone, Members
<1>4. TableFollows(req[t])' BY <1>1 DEF Settled, TableFollows, InTransit
<1>5. CacheTold(req[t])' BY <1>1 DEF Settled, CacheTold, CacheLags, Removals, TakenOut
<1>6. SchedulesNamed(req[t])' BY <1>1 DEF Settled, SchedulesNamed, MayBeNamed, TakenOut
<1> QED BY <1>2, <1>3, <1>4, <1>5, <1>6 DEF SInv, Settles

(* A step after which the thread is idle. *)
LEMMA IdleStep ==
  ASSUME IInv, NEW t \in Thread, SInv(t), up, req'[t].at = "idle", Settled', DeletedStaysGone',
         UNCHANGED <<graph, up, stuck>>
  PROVE  SInv(t)'
<1>1. Knows(req[t])' BY DEF Knows, DeletePlan, RowsRead, LooksHold, Adoptions, TakenOut
<1>2. Settles(req[t])'
  BY DEF Settled, Settles, TableFollows, CacheTold, SchedulesNamed, MayBeNamed
<1>3. ProcessSound(t)'
  BY DEF SInv, ProcessSound, Forest, Acyclic, NoDangling, Members, Parent
<1> QED BY <1>1, <1>2, <1>3 DEF SInv

(* The last step of a request. *)
LEMMA EndStep ==
  ASSUME IInv, NEW t \in Thread, SInv(t), up, Return(t), Settled', DeletedStaysGone',
         UNCHANGED <<graph, up, stuck>>
  PROVE  SInv(t)'
<1>1. req'[t] = Idle BY Here DEF Return
<1> QED BY <1>1, IdleKnows, IdleStep

LEMMA ConnectAddSeq ==
  ASSUME IInv, NEW t \in Thread, SInv(t), ConnectAdd(t)
  PROVE  SInv(t)'
<1> DEFINE w == req[t].who
<1>1. /\ up /\ req[t].at = "add" /\ graph \in Chart /\ w \in Worker /\ req[t].row \in Row
      /\ UNCHANGED <<up, stuck, unaware, tables, bounds, fate>>
  BY Here DEF ConnectAdd, AtWrite, At, Carried
<1>2. Settled BY <1>1, CalmSettles DEF SInv, Calm
<1>3. CASE UNCHANGED graph /\ Return(t)
  BY <1>1, <1>2, <1>3, ReturnSeq DEF memory, process
<1>4. CASE CanAdd(graph, w, req[t].row) /\ graph' = PutRow(graph, w, req[t].row) /\ Goto(t, "save")
  <2>1. req'[t].at = "save" /\ req'[t].who = w /\ req'[t].row = req[t].row
    BY <1>4, GotoFields, Here
  <2>2. /\ graph' \in Chart /\ Forest(graph') /\ Members(graph') = Members(graph) \cup {w}
        /\ graph'[w] = req[t].row /\ \A v \in Worker \ {w} : graph'[v] = graph[v]
    <3>1. Forest(PutRow(graph, w, req[t].row))
      BY <1>1, <1>4, AddForest DEF SInv, ProcessSound
    <3>2. graph'[w] = req[t].row /\ \A v \in Worker \ {w} : graph'[v] = graph[v]
      BY <1>1, <1>4 DEF PutRow, Chart
    <3> QED BY <1>1, <1>4, <3>1, <3>2, PutRowEdges
  <2>3. Knows(req[t])'
    BY <2>1, <2>2 DEF Knows, DeletePlan, RowsRead, LooksHold, Adoptions, TakenOut
  <2>4. fails = 0 => fate[w] # "deleted" BY <1>1 DEF SInv, Knows, LooksHold
  <2> QED BY <1>1, <1>2, <2>1, <2>2, <2>3, <2>4, ChartStep
<1> QED BY <1>3, <1>4 DEF ConnectAdd

LEMMA MoveWorkerSeq ==
  ASSUME IInv, NEW t \in Thread, SInv(t), MoveWorker(t)
  PROVE  SInv(t)'
<1> DEFINE w == req[t].who
           p == req[t].parent
<1>1. /\ up /\ req[t].at = "move" /\ graph \in Chart /\ w \in Worker /\ p \in Worker \cup {NoOne}
      /\ UNCHANGED <<up, unaware, tables, bounds, fate>>
  BY Here DEF MoveWorker, AtWrite, At, Carried, Request
<1>2. Settled BY <1>1, CalmSettles DEF SInv, Calm
<1>3. Forest(graph) /\ ~ReassignHangs(graph, w, p)
  BY <1>1, NoHang DEF SInv, ProcessSound, Forest
<1>4. CASE Return(t) /\ UNCHANGED <<graph, stuck>>
  BY <1>1, <1>2, <1>4, ReturnSeq DEF memory, process
<1>5. CASE /\ CanReassign(graph, w, p) /\ graph' = Reassign(graph, w, p)
           /\ Goto(t, "reread") /\ UNCHANGED stuck
  <2>1. req'[t].at = "reread" /\ req'[t].who = w BY <1>5, GotoFields, Here
  <2>2. w \in Members(graph) BY <1>5 DEF CanReassign
  <2>3. /\ graph' \in Chart /\ Forest(graph') /\ Members(graph') = Members(graph)
        /\ \A v \in Worker \ {w} : graph'[v] = graph[v]
    BY <1>1, <1>3, <1>5, <2>2, ReassignForest, ReassignEdges DEF Reassign, Chart
  <2>4. Knows(req[t])'
    BY <2>1, <2>2, <2>3 DEF Knows, DeletePlan, RowsRead, LooksHold, Adoptions, TakenOut
  <2> QED BY <1>1, <1>2, <1>5, <2>1, <2>2, <2>3, <2>4, ChartStep
<1> QED BY <1>3, <1>4, <1>5 DEF MoveWorker

LEMMA RelabelWorkerSeq ==
  ASSUME IInv, NEW t \in Thread, SInv(t), RelabelWorker(t)
  PROVE  SInv(t)'
<1> DEFINE w == req[t].who
           ro == req[t].row.role
<1>1. /\ up /\ req[t].at = "relabel" /\ graph \in Chart /\ w \in Worker /\ ro \in Role
      /\ UNCHANGED <<up, stuck, unaware, tables, bounds, fate>>
  BY Here DEF RelabelWorker, AtWrite, At, Carried, Row
<1>2. Settled BY <1>1, CalmSettles DEF SInv, Calm
<1>3. CASE UNCHANGED graph /\ Return(t)
  BY <1>1, <1>2, <1>3, ReturnSeq DEF memory, process
<1>4. CASE w \in Members(graph) /\ graph' = SetRole(graph, w, ro) /\ Goto(t, "reread")
  <2>1. req'[t].at = "reread" /\ req'[t].who = w BY <1>4, GotoFields, Here
  <2>2. /\ graph' \in Chart /\ Forest(graph') /\ Members(graph') = Members(graph)
        /\ \A v \in Worker \ {w} : graph'[v] = graph[v]
    BY <1>1, <1>4, SetRoleForest, SetRoleEdges, ZenonT(40) DEF SInv, ProcessSound, SetRole, Chart
  <2>3. Knows(req[t])'
    BY <1>4, <2>1, <2>2 DEF Knows, DeletePlan, RowsRead, LooksHold, Adoptions, TakenOut
  <2> QED BY <1>1, <1>2, <1>4, <2>1, <2>2, <2>3, ChartStep
<1> QED BY <1>3, <1>4 DEF RelabelWorker

LEMMA AdoptKidSeq ==
  ASSUME IInv, NEW t \in Thread, SInv(t), NEW k \in Worker, AdoptKid(t, k)
  PROVE  SInv(t)'
<1> DEFINE w == req[t].who
           p == req[t].parent
<1>1. /\ up /\ req[t].at = "adopt" /\ graph \in Chart /\ p \in Worker \cup {NoOne}
      /\ UNCHANGED <<up, unaware, tables, bounds, fate>>
  BY Here DEF AdoptKid, AtWrite, At, Request
<1>2. Settled BY <1>1, CalmSettles DEF SInv, Calm
<1>3. Forest(graph) /\ ~ReassignHangs(graph, k, p)
  BY <1>1, NoHang DEF SInv, ProcessSound, Forest
<1>4. CASE Return(t) /\ UNCHANGED <<graph, stuck>>
  BY <1>1, <1>2, <1>4, ReturnSeq DEF memory, process
<1>5. CASE /\ CanReassign(graph, k, p) /\ graph' = Reassign(graph, k, p)
           /\ req' = [req EXCEPT ![t].kid = k, ![t].at = "rereadKid"] /\ UNCHANGED stuck
  <2>1. /\ req'[t].at = "rereadKid" /\ req'[t].kid = k /\ req'[t].who = w
        /\ req'[t].parent = p /\ req'[t].kids = req[t].kids /\ req'[t].removing = req[t].removing
    BY <1>5, Here DEF Request, IInv, TypeOK
  <2>2. k \in Members(graph) BY <1>5 DEF CanReassign
  <2>3. /\ graph' \in Chart /\ Forest(graph') /\ Members(graph') = Members(graph)
        /\ Parent(graph', k) = p /\ \A v \in Worker \ {k} : graph'[v] = graph[v]
    <3>1. Forest(Reassign(graph, k, p)) BY <1>1, <1>3, <1>5, ReassignForest
    <3>2. \A v \in Worker \ {k} : graph'[v] = graph[v] BY <1>1, <1>5 DEF Reassign, Chart
    <3> QED BY <1>1, <1>5, <2>2, <3>1, <3>2, ReassignEdges
  <2>4. /\ req[t].removing = <<w>> /\ w \in Members(graph) /\ p # w
        /\ Children(graph, w) \subseteq req[t].kids
    BY <1>1 DEF SInv, Knows, DeletePlan, Adoptions
  <2>5. Children(graph', w) \subseteq req[t].kids \ {k}
    BY <2>3, <2>4 DEF Children, Parent, Members
  <2>6. Knows(req[t])'
    BY <2>1, <2>2, <2>3, <2>4, <2>5
    DEF Knows, DeletePlan, RowsRead, LooksHold, Adoptions, TakenOut
  <2> QED BY <1>1, <1>2, <1>5, <2>1, <2>2, <2>3, <2>6, ChartStep
<1> QED BY <1>3, <1>4, <1>5 DEF AdoptKid

LEMMA SaveRowSeq ==
  ASSUME IInv, NEW t \in Thread, SInv(t), SaveRow(t)
  PROVE  SInv(t)'
<1> DEFINE w == req[t].who
<1>1. /\ up /\ req[t].at = "save" /\ graph \in Chart /\ store \in Chart /\ Return(t)
      /\ store' = PutRow(store, w, req[t].row)
      /\ UNCHANGED <<graph, up, stuck, unaware, revoked, schedules, fails, stops, fate>>
  BY Here DEF SaveRow, At, memory, process, bounds
<1>2. w \in Members(graph) /\ req[t].row = graph[w] BY <1>1 DEF SInv, Knows, RowsRead
<1>3. \A v \in Worker : store'[v] = IF v = w THEN graph[v] ELSE store[v]
  BY <1>1, <1>2 DEF PutRow, Chart
<1>4. Settled'
  BY <1>1, <1>3 DEF SInv, Settles, Settled, TableFollows, InTransit, CacheTold, CacheLags,
                    SchedulesNamed, MayBeNamed, Removals, TakenOut, Members
<1>5. DeletedStaysGone' BY <1>1, <1>2, <1>3 DEF SInv, DeletedStaysGone, Members
<1> QED BY <1>1, <1>4, <1>5, EndStep

LEMMA SaveKidSeq ==
  ASSUME IInv, NEW t \in Thread, SInv(t), SaveKid(t)
  PROVE  SInv(t)'
<1> DEFINE w == req[t].who
           k == req[t].kid
           left == req[t].kids \ {k}
<1>1. /\ up /\ req[t].at = "saveKid" /\ graph \in Chart /\ store \in Chart
      /\ store' = PutRow(store, k, req[t].row)
      /\ UNCHANGED <<graph, up, stuck, unaware, revoked, schedules, fails, stops, fate>>
  BY Here DEF SaveKid, At, memory, process, bounds
<1>2. /\ req[t].removing = <<w>> /\ w \in Members(graph) /\ req[t].parent # w
      /\ Children(graph, w) \subseteq left
      /\ k \in Members(graph) /\ req[t].row = graph[k]
  BY <1>1 DEF SInv, Knows, RowsRead, DeletePlan, Adoptions
<1>3. /\ req'[t].at = IF left = {} THEN "remove" ELSE "adopt"
      /\ req'[t].who = w /\ req'[t].kids = left /\ req'[t].parent = req[t].parent
      /\ req'[t].removing = req[t].removing
  <2> DEFINE where == IF left = {} THEN "remove" ELSE "adopt"
             r == [req[t] EXCEPT !.kids = left, !.kid = NoOne, !.at = where]
  <2>1. /\ r.at = where /\ r.who = w /\ r.kids = left /\ r.parent = req[t].parent
        /\ r.removing = req[t].removing
    BY Here DEF Request
  <2>2. req' = [req EXCEPT ![t] = r] BY DEF SaveKid, IInv, TypeOK
  <2>3. req'[t] = r BY <2>2, Here
  <2> QED BY <2>1, <2>3
<1>4. \A v \in Worker : store'[v] = IF v = k THEN graph[v] ELSE store[v]
  BY <1>1, <1>2 DEF PutRow, Chart
<1>5. LeavesLeft(graph, <<w>>) \/ left # {} BY <1>2 DEF LeavesLeft
<1>6. Knows(req[t])'
  <2>1. CASE left = {}
    BY <1>1, <1>2, <1>3, <1>5, <2>1
    DEF Knows, DeletePlan, RowsRead, LooksHold, Adoptions, TakenOut, LeavesLeft,
        Members, Children, Parent
  <2>2. CASE left # {}
    BY <1>1, <1>2, <1>3, <2>2
    DEF Knows, DeletePlan, RowsRead, LooksHold, Adoptions, TakenOut, Members,
        Children, Parent
  <2> QED BY <2>1, <2>2
<1>7. Settles(req[t])'
  BY <1>1, <1>3, <1>4 DEF SInv, Settles, TableFollows, InTransit, CacheTold, CacheLags,
                          SchedulesNamed, MayBeNamed, Removals, TakenOut, Members
<1>8. ProcessSound(t)'
  BY <1>1 DEF SInv, ProcessSound, Forest, Acyclic, NoDangling, Members, Parent
<1>9. DeletedStaysGone' BY <1>1, <1>2, <1>4 DEF SInv, DeletedStaysGone, Members
<1> QED BY <1>6, <1>7, <1>8, <1>9 DEF SInv


-----------------------------------------------------------------------------
(* The list of removals.                                                   *)

(* On an acyclic chart a report is deeper than whom it reports to. *)
LEMMA ReportsAreDeeper ==
  ASSUME NEW g \in Chart, Acyclic(g), NEW x \in Members(g), NEW v \in Children(g, x)
  PROVE  Depth(g, v) \in Nat /\ Depth(g, x) \in Nat /\ Depth(g, x) < Depth(g, v)
<1>1. v \in Members(g) /\ v \in Worker /\ x \in Worker /\ Parent(g, v) = x /\ x # NoOne
  BY NoOneAssumption DEF Children, Members
<1>2. /\ Line(g, x) \in SUBSET Worker /\ Line(g, v) \in SUBSET Worker
      /\ v \in Line(g, v) /\ ParentClosed(g, Line(g, v))
  BY <1>1, LineClosed
<1>3. x \in Line(g, v) BY <1>1, <1>2 DEF ParentClosed
<1>4. Line(g, x) \subseteq Line(g, v) BY <1>1, <1>2, <1>3, LineLeast
<1>5. v \notin Line(g, x) BY <1>1, DescentEnds DEF DescentLoops, Descendants
<1>6. IsFiniteSet(Line(g, v)) /\ IsFiniteSet(Line(g, x))
  BY <1>2, WorkerAssumption, FS_Subset
<1>7. /\ Cardinality(Line(g, x)) <= Cardinality(Line(g, v))
      /\ Cardinality(Line(g, x)) # Cardinality(Line(g, v))
  BY <1>2, <1>4, <1>5, <1>6, FS_Subset
<1>8. Cardinality(Line(g, v)) \in Nat /\ Cardinality(Line(g, x)) \in Nat
  BY <1>6, FS_CardinalityType
<1> QED BY <1>7, <1>8 DEF Depth

(* The descendants, deepest first, and then the target: every ID comes     *)
(* after those that report to it.                                          *)
LEMMA CascadeIsLeavesFirst ==
  ASSUME NEW g \in Chart, Acyclic(g), NEW w \in Members(g),
         NEW order \in LeavesFirst(g, Descendants(g, w))
  PROVE  LeavesLeft(g, order \o <<w>>)
<1> DEFINE D == Descendants(g, w)
           n == Cardinality(D)
           s == order \o <<w>>
<1>1. D \in SUBSET Worker /\ D \subseteq Members(g) /\ w \in Worker /\ w # NoOne
  BY NoOneAssumption DEF Descendants, Members
<1>2. IsFiniteSet(D) /\ n \in Nat BY <1>1, WorkerAssumption, FS_Subset, FS_CardinalityType
<1>3. /\ order \in [1 .. n -> D]
      /\ \A i, j \in 1 .. n : i < j => order[i] # order[j] /\ Depth(g, order[i]) >= Depth(g, order[j])
  BY DEF LeavesFirst
<1>4. order \in Seq(Worker) /\ Len(order) = n BY <1>1, <1>2, <1>3
<1>5. Len(s) = n + 1 /\ s[n + 1] = w /\ \A i \in 1 .. n : s[i] = order[i]
  BY <1>1, <1>2, <1>4
<1>6. \A i, j \in 1 .. n : order[i] = order[j] => i = j BY <1>2, <1>3
<1>7. \A v \in D : \E j \in 1 .. n : order[j] = v
  <2>1. order \in Injection(1 .. n, D) BY <1>3, <1>6 DEF Injection, IsInjective
  <2>2. Cardinality(1 .. n) = n BY <1>2, FS_Interval
  <2>3. order \in Surjection(1 .. n, D) BY <1>2, <2>1, <2>2, FS_Injection
  <2> QED BY <2>3 DEF Surjection
<1>8. w \notin D BY DescentEnds DEF DescentLoops
<1>9. ASSUME NEW i \in 1 .. n, NEW v \in Children(g, order[i])
      PROVE  \E j \in 1 .. i - 1 : order[j] = v
  <2> DEFINE x == order[i]
  <2>1. x \in D /\ x \in Members(g) /\ x \in Worker BY <1>1, <1>3
  <2>2. v \in Members(g) /\ Parent(g, v) = x /\ x # NoOne BY <2>1, NoOneAssumption DEF Children
  <2>3. w \in Line(g, x)
    <3>1. Parent(g, x) # NoOne /\ w \in Line(g, Parent(g, x)) BY <2>1 DEF Descendants
    <3>2. Parent(g, x) \in Worker BY <2>1, <3>1, MemberRow
    <3>3. /\ Line(g, x) \in SUBSET Worker /\ x \in Line(g, x) /\ ParentClosed(g, Line(g, x))
      BY <2>1, LineClosed
    <3>4. Parent(g, x) \in Line(g, x) BY <2>1, <3>1, <3>3 DEF ParentClosed
    <3> QED BY <3>1, <3>2, <3>3, <3>4, LineLeast
  <2>4. v \in D BY <2>2, <2>3 DEF Descendants
  <2>5. PICK j \in 1 .. n : order[j] = v BY <1>7, <2>4
  <2>6. Depth(g, v) \in Nat /\ Depth(g, x) \in Nat /\ Depth(g, x) < Depth(g, v)
    BY <2>1, ReportsAreDeeper
  <2>7. ~(i < j) /\ i # j BY <1>3, <2>5, <2>6
  <2> QED BY <1>2, <2>5, <2>7
<1>10. ASSUME NEW v \in Children(g, w)
       PROVE  \E j \in 1 .. n : order[j] = v
  <2>1. v \in Members(g) /\ Parent(g, v) = w BY DEF Children
  <2>2. w \in Line(g, w) BY <1>1, LineClosed
  <2> QED BY <1>1, <1>7, <2>1, <2>2 DEF Descendants
<1>11. SUFFICES ASSUME NEW i \in 1 .. n + 1
                PROVE  /\ s[i] \in Members(g)
                       /\ \A j \in 1 .. n + 1 : s[i] = s[j] => i = j
                       /\ \A v \in Children(g, s[i]) : \E j \in 1 .. i - 1 : s[j] = v
  BY <1>5 DEF LeavesLeft
<1> HIDE DEF s, n, D
<1>12. i \in 1 .. n \/ i = n + 1 BY <1>2
<1>13. CASE i \in 1 .. n
  <2>1. s[i] = order[i] /\ order[i] \in D BY <1>3, <1>5, <1>13
  <2>2. ASSUME NEW j \in 1 .. n + 1, s[i] = s[j]
        PROVE  i = j
    <3>1. CASE j \in 1 .. n BY <1>5, <1>6, <1>13, <2>2, <3>1
    <3>2. CASE j = n + 1 BY <1>5, <1>8, <2>1, <2>2, <3>2
    <3> QED BY <1>2, <3>1, <3>2
  <2>3. ASSUME NEW v \in Children(g, s[i])
        PROVE  \E j \in 1 .. i - 1 : s[j] = v
    <3>1. PICK j \in 1 .. i - 1 : order[j] = v BY <1>9, <1>13, <2>1
    <3>2. j \in 1 .. n BY <1>2, <1>13
    <3> QED BY <1>5, <3>1, <3>2
  <2> QED BY <1>1, <2>1, <2>2, <2>3
<1>14. CASE i = n + 1
  <2>1. s[i] = w BY <1>5, <1>14
  <2>2. ASSUME NEW j \in 1 .. n + 1, s[i] = s[j]
        PROVE  i = j
    <3>1. CASE j \in 1 .. n BY <1>3, <1>5, <1>8, <2>1, <2>2, <3>1
    <3>2. CASE j = n + 1 BY <1>14, <3>2
    <3> QED BY <1>2, <3>1, <3>2
  <2>3. ASSUME NEW v \in Children(g, s[i])
        PROVE  \E j \in 1 .. i - 1 : s[j] = v
    BY <1>2, <1>5, <1>10, <1>14, <2>1
  <2> QED BY <2>1, <2>2, <2>3
<1> QED BY <1>12, <1>13, <1>14

(* The head is a leaf, and once it is out the tail can go on. *)
LEMMA TailLeavesLeft ==
  ASSUME NEW g \in Chart, NEW s \in Seq(Worker), s # << >>, LeavesLeft(g, s)
  PROVE  /\ Head(s) \in Members(g) /\ Children(g, Head(s)) = {}
         /\ LeavesLeft(Remove(g, Head(s)), Tail(s))
<1> DEFINE h == Remove(g, Head(s))
<1>1. Len(s) \in Nat /\ Len(s) # 0 /\ Head(s) = s[1] /\ s[1] \in Worker BY EmptySeq, LenProperties
<1>2. s[1] \in Members(g) /\ Children(g, s[1]) = {}
  <2>1. 1 \in 1 .. Len(s) /\ 1 .. 1 - 1 = {} BY <1>1
  <2> QED BY <2>1 DEF LeavesLeft
<1>3. /\ Tail(s) \in Seq(Worker) /\ Len(Tail(s)) = Len(s) - 1
      /\ \A i \in 1 .. Len(Tail(s)) : Tail(s)[i] = s[i + 1]
  BY HeadTailProperties
<1>4. /\ Members(h) = Members(g) \ {s[1]}
      /\ \A x : Children(h, x) \subseteq Children(g, x) \ {s[1]}
  BY <1>1, RemoveEdges DEF Children
<1>5. ASSUME NEW i \in 1 .. Len(Tail(s))
      PROVE  /\ Tail(s)[i] \in Members(h)
             /\ \A j \in 1 .. Len(Tail(s)) : Tail(s)[i] = Tail(s)[j] => i = j
             /\ \A v \in Children(h, Tail(s)[i]) : \E j \in 1 .. i - 1 : Tail(s)[j] = v
  <2>1. i + 1 \in 1 .. Len(s) /\ 1 \in 1 .. Len(s) /\ i + 1 # 1 /\ Tail(s)[i] = s[i + 1]
    BY <1>1, <1>3
  <2>2. Tail(s)[i] \in Members(h) BY <1>4, <2>1 DEF LeavesLeft
  <2>3. \A j \in 1 .. Len(Tail(s)) : Tail(s)[i] = Tail(s)[j] => i = j
    BY <1>1, <1>3, <2>1 DEF LeavesLeft
  <2>4. ASSUME NEW v \in Children(h, s[i + 1])
        PROVE  \E j \in 1 .. i - 1 : Tail(s)[j] = v
    <3>1. v \in Children(g, s[i + 1]) /\ v # s[1] BY <1>4
    <3>2. PICK j \in 1 .. (i + 1) - 1 : s[j] = v BY <2>1, <3>1 DEF LeavesLeft
    <3>3. j # 1 /\ j - 1 \in 1 .. i - 1 /\ j - 1 \in 1 .. Len(Tail(s)) BY <1>1, <1>3, <3>1, <3>2
    <3>4. Tail(s)[j - 1] = s[j] BY <1>3, <3>3
    <3> QED BY <3>2, <3>3, <3>4
  <2> QED BY <2>1, <2>2, <2>3, <2>4
<1> QED BY <1>1, <1>2, <1>5 DEF LeavesLeft

LEMMA ListReportsSeq ==
  ASSUME IInv, NEW t \in Thread, SInv(t), ListReports(t)
  PROVE  SInv(t)'
<1> DEFINE w == req[t].who
<1>1. /\ up /\ req[t].at = "list" /\ graph \in Chart /\ w \in Worker /\ req[t].parent # w
      /\ UNCHANGED <<graph, up, unaware, tables, bounds, fate>>
  BY Here DEF ListReports, AtRead, At, Carried, SInv, Knows, DeletePlan
<1>2. Settled /\ Acyclic(graph) BY <1>1, CalmSettles DEF SInv, Calm, ProcessSound, Forest
<1>3. ASSUME UNCHANGED stuck, NEW r, req' = [req EXCEPT ![t] = r], Knows(r),
             r.at \in {"remove", "adopt"}
      PROVE  SInv(t)'
  <2>1. Settles(r)
    BY <1>2, <1>3 DEF Settled, Settles, TableFollows, CacheTold, SchedulesNamed, MayBeNamed
  <2> QED BY <1>1, <1>3, <2>1, RequestStep DEF memory, process, bounds
<1>4. CASE Return(t) /\ UNCHANGED stuck
  BY <1>1, <1>2, <1>4, ReturnSeq DEF memory, process
<1>5. CASE w \in Members(graph) /\ DescentLoops(graph, w)
  BY <1>1, <1>2, <1>5, DescentEnds
<1>6. ASSUME w \in Members(graph), UNCHANGED stuck,
             NEW order \in LeavesFirst(graph, Descendants(graph, w)),
             req' = [req EXCEPT ![t].removing = order \o <<w>>, ![t].at = "remove"]
      PROVE  SInv(t)'
  <2> DEFINE s == order \o <<w>>
             r == [req[t] EXCEPT !.removing = s, !.at = "remove"]
  <2>1. LeavesLeft(graph, s) BY <1>1, <1>2, <1>6, CascadeIsLeavesFirst
  <2> HIDE DEF s
  <2>2. r.at = "remove" /\ r.removing = s BY Here DEF Request
  <2>3. req' = [req EXCEPT ![t] = r] BY <1>6 DEF s, IInv, TypeOK
  <2> HIDE DEF r
  <2>4. Knows(r)
    BY <2>1, <2>2 DEF Knows, DeletePlan, RowsRead, LooksHold, Adoptions, TakenOut
  <2> QED BY <1>3, <1>6, <2>2, <2>3, <2>4
<1>7. CASE /\ w \in Members(graph) /\ UNCHANGED stuck
           /\ req' = [req EXCEPT ![t].kids = Children(graph, w), ![t].removing = <<w>>,
                                 ![t].at = IF Children(graph, w) = {} THEN "remove" ELSE "adopt"]
  <2> DEFINE C == Children(graph, w)
             where == IF C = {} THEN "remove" ELSE "adopt"
             r == [req[t] EXCEPT !.kids = C, !.removing = <<w>>, !.at = where]
  <2>1. /\ r.at = where /\ r.removing = <<w>> /\ r.kids = C /\ r.who = w
        /\ r.parent = req[t].parent
    BY Here DEF Request
  <2>2. req' = [req EXCEPT ![t] = r] BY <1>7 DEF IInv, TypeOK
  <2> HIDE DEF r
  <2>3. C = {} => LeavesLeft(graph, <<w>>) BY <1>7 DEF LeavesLeft
  <2>4. Knows(r)
    BY <1>1, <1>7, <2>1, <2>3
    DEF Knows, DeletePlan, RowsRead, LooksHold, Adoptions, TakenOut
  <2> QED BY <1>3, <1>7, <2>1, <2>2, <2>4
<1> QED BY <1>4, <1>5, <1>6, <1>7 DEF ListReports

-----------------------------------------------------------------------------
(* The removal loop.                                                       *)

(* What a delete knows about the ID it is removing. *)
LEMMA HeadIsOut ==
  ASSUME IInv, NEW t \in Thread, SInv(t), up, req[t].at \in TakenOut
  PROVE  LET id == Head(req[t].removing)
         IN  /\ id \in Worker /\ req[t].removing \in Seq(Worker) /\ id \notin Members(graph)
             /\ LeavesLeft(graph, Tail(req[t].removing))
BY HeadRemoving DEF TakenOut, SInv, Knows, DeletePlan

(* The row of an ID that is out of the chart goes, or the ID is revoked. *)
LEMMA RemovalStep ==
  ASSUME IInv, NEW t \in Thread, SInv(t), up,
         \/ req[t].at = "unstore" /\ req'[t].at = "revoke" /\ store'[Head(req[t].removing)] = Absent
         \/ req[t].at = "revoke" /\ req'[t].at = "listSchedules" /\ UNCHANGED store,
         \A v \in Worker \ {Head(req[t].removing)} : store'[v] = store[v],
         unaware' = IF req[t].at = "revoke" THEN unaware \cup {Head(req[t].removing)} ELSE unaware,
         req'[t].removing = req[t].removing, req'[t].names = req[t].names,
         \A v \in Worker : fate'[v] = "deleted" => fate[v] = "deleted",
         UNCHANGED <<graph, up, stuck, schedules, fails, stops>>
  PROVE  SInv(t)'
<1> DEFINE id == Head(req[t].removing)
<1>1. id \in Worker /\ id \notin Members(graph) /\ LeavesLeft(graph, Tail(req[t].removing))
  BY HeadIsOut DEF TakenOut
<1>2. graph[id] = Absent BY <1>1 DEF Members
<1>3. Knows(req[t])'
  <2>1. DeletePlan(req[t])'
    <3>1. /\ req'[t].at \in {"revoke", "listSchedules"} /\ graph' = graph
          /\ req'[t].removing = req[t].removing
      OBVIOUS
    <3>2. LeavesLeft(graph', Tail(req'[t].removing)) /\ Head(req'[t].removing) \notin Members(graph')
      BY <1>1, <3>1
    <3> QED BY <3>1, <3>2 DEF DeletePlan, Adoptions, TakenOut
  <2>2. RowsRead(req[t])' BY <1>1 DEF RowsRead
  <2>3. LooksHold(req[t])' BY <1>1 DEF LooksHold
  <2> QED BY <2>1, <2>2, <2>3 DEF Knows
<1>4. TableFollows(req[t])'
  <2>1. InTransit(req[t])' = {} BY DEF InTransit
  <2>2. InTransit(req[t]) = IF req[t].at = "unstore" THEN {id} ELSE {} BY DEF InTransit
  <2>3. up /\ fails = 0 => \A v \in Worker \ InTransit(req[t]) : store[v] = graph[v]
    BY DEF SInv, Settles, TableFollows
  <2> QED BY <1>1, <1>2, <2>1, <2>2, <2>3 DEF TableFollows
<1>5. CacheTold(req[t])' BY DEF SInv, Settles, CacheTold, CacheLags, Removals, TakenOut
<1>6. SchedulesNamed(req[t])' BY DEF SInv, Settles, SchedulesNamed, MayBeNamed, Members, TakenOut
<1>7. ProcessSound(t)' BY DEF SInv, ProcessSound, Forest, Acyclic, NoDangling, Members, Parent
<1>8. DeletedStaysGone' BY <1>1, <1>2 DEF SInv, DeletedStaysGone, Members
<1> QED BY <1>3, <1>4, <1>5, <1>6, <1>7, <1>8 DEF SInv, Settles

LEMMA RemoveFromChartSeq ==
  ASSUME IInv, NEW t \in Thread, SInv(t), RemoveFromChart(t)
  PROVE  SInv(t)'
<1> DEFINE s == req[t].removing
           id == Head(s)
<1>1. /\ up /\ req[t].at = "remove" /\ graph \in Chart /\ Forest(graph) /\ LeavesLeft(graph, s)
      /\ UNCHANGED <<up, stuck, unaware, store, revoked, schedules, fails, stops, fate>>
  BY Here DEF RemoveFromChart, AtWrite, At, tables, bounds, SInv, ProcessSound, Knows, DeletePlan
<1>2. s \in Seq(Worker) /\ s # << >> /\ id \in Worker BY <1>1, HeadRemoving
<1>3. /\ id \in Members(graph) /\ Children(graph, id) = {}
      /\ LeavesLeft(Remove(graph, id), Tail(s))
  BY <1>1, <1>2, TailLeavesLeft
<1>4. graph' = Remove(graph, id) /\ Goto(t, "unstore") BY <1>3 DEF RemoveFromChart
<1>5. PICK r \in Request : /\ req' = [req EXCEPT ![t] = r] /\ r.at = "unstore"
                           /\ r.removing = s /\ r.names = req[t].names
  BY <1>4, GotoFields
<1>6. req'[t] = r BY <1>5, Here
<1>7. /\ Forest(graph') /\ Members(graph') = Members(graph) \ {id}
      /\ \A v \in Worker \ {id} : graph'[v] = graph[v]
  <2>1. Forest(graph') BY <1>1, <1>2, <1>3, <1>4, RemoveLeafForest
  <2>2. \A v \in Worker \ {id} : graph'[v] = graph[v] BY <1>1, <1>4 DEF Remove, Chart
  <2> QED BY <1>1, <1>2, <1>4, <2>1, <2>2, RemoveEdges
<1>8. Knows(req[t])'
  BY <1>3, <1>4, <1>5, <1>6, <1>7
  DEF Knows, DeletePlan, RowsRead, LooksHold, Adoptions, TakenOut
<1>9. TableFollows(req[t])'
  BY <1>1, <1>5, <1>6, <1>7 DEF SInv, Settles, TableFollows, InTransit
<1>10. CacheTold(req[t])'
  BY <1>1, <1>5, <1>6 DEF SInv, Settles, CacheTold, CacheLags, Removals, TakenOut
<1>11. SchedulesNamed(req[t])'
  BY <1>1, <1>5, <1>6, <1>7 DEF SInv, Settles, SchedulesNamed, MayBeNamed, TakenOut
<1>12. ProcessSound(t)' BY <1>1, <1>7 DEF SInv, ProcessSound
<1>13. DeletedStaysGone' BY <1>1, <1>7 DEF SInv, DeletedStaysGone, Members
<1> QED BY <1>8, <1>9, <1>10, <1>11, <1>12, <1>13 DEF SInv, Settles

LEMMA RemoveFromStoreSeq ==
  ASSUME IInv, NEW t \in Thread, SInv(t), RemoveFromStore(t)
  PROVE  SInv(t)'
<1> DEFINE id == Head(req[t].removing)
<1>1. /\ up /\ req[t].at = "unstore" /\ store' = PutRow(store, id, Absent)
      /\ fate' = [fate EXCEPT ![id] = "erased"]
      /\ UNCHANGED <<graph, up, stuck, unaware, schedules, fails, stops>>
  BY DEF RemoveFromStore, At, memory, process, bounds
<1>2. PICK r \in Request : /\ req' = [req EXCEPT ![t] = r] /\ r.at = "revoke"
                           /\ r.removing = req[t].removing /\ r.names = req[t].names
  BY GotoFields DEF RemoveFromStore
<1>3. req'[t] = r BY <1>2, Here
<1>4. store'[id] = Absent /\ \A v \in Worker \ {id} : store'[v] = store[v]
  BY <1>1, Here, HeadRemoving DEF PutRow, Chart
<1>5. \A v \in Worker : fate'[v] = "deleted" => fate[v] = "deleted"
  BY <1>1 DEF IInv, TypeOK
<1> QED BY <1>1, <1>2, <1>3, <1>4, <1>5, RemovalStep

LEMMA RevokeRemovedSeq ==
  ASSUME IInv, NEW t \in Thread, SInv(t), RevokeRemoved(t)
  PROVE  SInv(t)'
<1> DEFINE id == Head(req[t].removing)
<1>1. /\ up /\ req[t].at = "revoke" /\ unaware' = unaware \cup {id}
      /\ UNCHANGED <<graph, up, stuck, store, schedules, fails, stops, fate>>
  BY DEF RevokeRemoved, At, process, bounds
<1>2. PICK r \in Request : /\ req' = [req EXCEPT ![t] = r] /\ r.at = "listSchedules"
                           /\ r.removing = req[t].removing /\ r.names = req[t].names
  BY GotoFields DEF RevokeRemoved
<1>3. req'[t] = r BY <1>2, Here
<1> QED BY <1>1, <1>2, <1>3, RemovalStep

(* The ID is finished, and none of the schedules left names it. *)
LEMMA NextRemovalSeq ==
  ASSUME IInv, NEW t \in Thread, SInv(t), up, req[t].at \in {"listSchedules", "dropSchedules"},
         NextRemoval(t), UNCHANGED <<graph, up, stuck, unaware, store, fails, stops>>,
         \A s \in Schedule : schedules'[s] \subseteq schedules[s] \ {Head(req[t].removing)}
  PROVE  SInv(t)'
<1> DEFINE id    == Head(req[t].removing)
           left  == Tail(req[t].removing)
           gone  == req[t].names \cup {id}
           where == IF left = << >> THEN "announce" ELSE "remove"
           r     == [req[t] EXCEPT !.removing = left, !.drop = {}, !.names = gone, !.at = where]
<1>1. id \in Worker /\ id \notin Members(graph) /\ LeavesLeft(graph, left)
  BY HeadIsOut DEF TakenOut
<1>2. req'[t].at = where /\ req'[t].removing = left /\ req'[t].names = gone
  <2> HIDE DEF left, gone, where
  <2>1. r.at = where /\ r.removing = left /\ r.names = gone BY Here DEF Request
  <2>2. req' = [req EXCEPT ![t] = r] BY DEF NextRemoval, left, gone, where, IInv, TypeOK
  <2>3. req'[t] = r BY <2>2, Here
  <2> QED BY <2>1, <2>3
<1>3. fate' = [fate EXCEPT ![id] = "deleted"] BY DEF NextRemoval
<1>4. fails = 0 => store[id] = graph[id]
  BY <1>1 DEF SInv, Settles, TableFollows, InTransit
<1>5. CacheTold(req[t]) /\ SchedulesNamed(req[t]) BY DEF SInv, Settles
<1> HIDE DEF left, gone, id
<1>6. Knows(req[t])'
  BY <1>1, <1>2 DEF Knows, DeletePlan, RowsRead, LooksHold, Adoptions, TakenOut,
                    LeavesLeft, Children, Members, Parent
<1>7. TableFollows(req[t])' BY <1>2 DEF SInv, Settles, TableFollows, InTransit
<1>8. CacheTold(req[t])' BY <1>2, <1>5 DEF CacheTold, CacheLags, Removals, TakenOut, gone, id
<1>9. SchedulesNamed(req[t])' BY <1>2, <1>5 DEF SchedulesNamed, MayBeNamed, TakenOut, Members, id
<1>10. ProcessSound(t)' BY DEF SInv, ProcessSound, Forest, Acyclic, NoDangling, Members, Parent
<1>11. DeletedStaysGone'
  BY <1>1, <1>3, <1>4 DEF SInv, DeletedStaysGone, Members, IInv, TypeOK
<1> QED BY <1>6, <1>7, <1>8, <1>9, <1>10, <1>11 DEF SInv, Settles

LEMMA ListSchedulesSeq ==
  ASSUME IInv, NEW t \in Thread, SInv(t), ListSchedules(t)
  PROVE  SInv(t)'
<1> DEFINE id == Head(req[t].removing)
           owned == {s \in Schedule : id \in schedules[s]}
           r == [req[t] EXCEPT !.drop = owned, !.at = "dropSchedules"]
<1>1. up /\ req[t].at = "listSchedules" /\ UNCHANGED <<memory, tables, bounds>>
  BY DEF ListSchedules, At
<1>2. CASE owned = {} /\ NextRemoval(t)
  BY <1>1, <1>2, NextRemovalSeq DEF memory, process, tables, bounds
<1>3. CASE req' = [req EXCEPT ![t].drop = owned, ![t].at = "dropSchedules"] /\ UNCHANGED fate
  <2>1. id \notin Members(graph) /\ LeavesLeft(graph, Tail(req[t].removing))
    BY <1>1, HeadIsOut DEF TakenOut
  <2>2. /\ r.at = "dropSchedules" /\ r.removing = req[t].removing /\ r.names = req[t].names
        /\ r.drop = owned
    BY Here DEF Request
  <2>3. req' = [req EXCEPT ![t] = r] BY <1>3 DEF IInv, TypeOK
  <2> HIDE DEF r
  <2>4. Knows(r)
    BY <2>1, <2>2 DEF Knows, DeletePlan, RowsRead, LooksHold, Adoptions, TakenOut
  <2>5. Settles(r)
    BY <1>1, <2>2 DEF SInv, Settles, TableFollows, InTransit, CacheTold, CacheLags, SchedulesNamed,
                      MayBeNamed, Removals, TakenOut
  <2> QED BY <1>1, <1>3, <2>3, <2>4, <2>5, RequestStep DEF bounds
<1> QED BY <1>2, <1>3 DEF ListSchedules

LEMMA DropScheduleSeq ==
  ASSUME IInv, NEW t \in Thread, SInv(t), NEW s \in Schedule, DropSchedule(t, s)
  PROVE  SInv(t)'
<1> DEFINE id == Head(req[t].removing)
           left == req[t].drop \ {s}
           r == [req[t] EXCEPT !.drop = left]
<1>1. /\ up /\ req[t].at = "dropSchedules" /\ s \in req[t].drop
      /\ schedules' = [schedules EXCEPT ![s] = {}]
      /\ UNCHANGED <<graph, up, stuck, unaware, store, revoked, fails, stops>>
  BY DEF DropSchedule, At, memory, process, bounds
<1>2. req[t].drop = {x \in Schedule : id \in schedules[x]}
  BY <1>1 DEF SInv, Knows, DeletePlan
<1>3. \A x \in Schedule : schedules'[x] = IF x = s THEN {} ELSE schedules[x]
  BY <1>1 DEF IInv, TypeOK
<1>4. schedules[s] # {} BY <1>1, <1>2
<1>5. CASE req[t].drop = {s} /\ NextRemoval(t)
  BY <1>1, <1>2, <1>3, <1>5, NextRemovalSeq
<1>6. CASE req' = [req EXCEPT ![t].drop = @ \ {s}] /\ UNCHANGED fate
  <2>1. id \notin Members(graph) /\ LeavesLeft(graph, Tail(req[t].removing))
    BY <1>1, HeadIsOut DEF TakenOut
  <2>2. /\ r.at = "dropSchedules" /\ r.removing = req[t].removing /\ r.names = req[t].names
        /\ r.drop = left
    BY <1>1, Here DEF Request
  <2>3. req' = [req EXCEPT ![t] = r] BY <1>6 DEF IInv, TypeOK
  <2> HIDE DEF r
  <2>4. req'[t] = r BY <2>3, Here
  <2>5. left = {x \in Schedule : id \in schedules'[x]} BY <1>2, <1>3
  <2>6. id \notin Members(graph)' /\ LeavesLeft(graph, Tail(req[t].removing))'
    <3>1. LeavesLeft(graph', Tail(req[t].removing)) /\ Members(graph') = Members(graph)
      BY <1>1, <2>1
    <3> QED BY <2>1, <2>2, <2>4, <3>1
  <2>7. Knows(req[t])'
    BY <2>2, <2>4, <2>5, <2>6
    DEF Knows, DeletePlan, RowsRead, LooksHold, Adoptions, TakenOut
  <2>8. Settles(req[t])'
    BY <1>1, <1>3, <2>2, <2>4 DEF SInv, Settles, TableFollows, InTransit, CacheTold, CacheLags,
                            SchedulesNamed, MayBeNamed, Removals, TakenOut, Members
  <2>9. ProcessSound(t)' BY <1>1 DEF SInv, ProcessSound, Forest, Acyclic, NoDangling, Members, Parent
  <2>10. DeletedStaysGone' BY <1>1, <1>6 DEF SInv, DeletedStaysGone, Members
  <2> QED BY <2>7, <2>8, <2>9, <2>10 DEF SInv
<1> QED BY <1>4, <1>5, <1>6 DEF DropSchedule

LEMMA AnnounceSeq ==
  ASSUME IInv, NEW t \in Thread, SInv(t), Announce(t)
  PROVE  SInv(t)'
<1>1. /\ up /\ req[t].at = "announce" /\ unaware' = unaware \ req[t].names /\ Return(t)
      /\ UNCHANGED <<graph, up, stuck, store, revoked, schedules, fails, stops, fate>>
  BY DEF Announce, At, process, tables, bounds
<1>2. Settled'
  BY <1>1 DEF SInv, Settles, Settled, TableFollows, InTransit, CacheTold, CacheLags,
              SchedulesNamed, MayBeNamed, Removals, TakenOut, Members
<1>3. DeletedStaysGone' BY <1>1 DEF SInv, DeletedStaysGone, Members
<1> QED BY <1>1, <1>2, <1>3, EndStep

-----------------------------------------------------------------------------
(* The handlers of one table write, failing statements, the process.       *)

LEMMA PutScheduleSeq ==
  ASSUME IInv, NEW t \in Thread, SInv(t), PutSchedule(t)
  PROVE  SInv(t)'
<1>1. /\ up /\ req[t].at = "putSchedule" /\ Return(t)
      /\ schedules' = [s \in Schedule |-> IF s \in req[t].drop THEN req[t].names ELSE schedules[s]]
      /\ UNCHANGED <<graph, up, stuck, unaware, store, fails, stops, fate>>
  BY DEF PutSchedule, At, memory, process, bounds
<1>2. Settled /\ req[t].names \subseteq Members(graph)
  BY <1>1, CalmSettles DEF SInv, Calm, Knows, LooksHold
<1>3. Settled' BY <1>1, <1>2 DEF Settled, Members
<1>4. DeletedStaysGone' BY <1>1 DEF SInv, DeletedStaysGone, Members
<1> QED BY <1>1, <1>3, <1>4, EndStep

LEMMA DeleteScheduleSeq ==
  ASSUME IInv, NEW t \in Thread, SInv(t), NEW s \in Schedule, DeleteSchedule(t, s)
  PROVE  SInv(t)'
<1>1. /\ up /\ req[t].at = "idle" /\ req' = req /\ schedules' = [schedules EXCEPT ![s] = {}]
      /\ UNCHANGED <<graph, up, stuck, unaware, store, fails, stops, fate>>
  BY DEF DeleteSchedule, At, memory, process
<1>2. Settled BY <1>1, CalmSettles DEF SInv, Calm
<1>3. Settled' BY <1>1, <1>2 DEF Settled, Members, IInv, TypeOK
<1>4. DeletedStaysGone' BY <1>1 DEF SInv, DeletedStaysGone, Members
<1> QED BY <1>1, <1>3, <1>4, IdleStep

LEMMA RevokeWorkerSeq ==
  ASSUME IInv, NEW t \in Thread, SInv(t), NEW w \in Worker, RevokeWorker(t, w)
  PROVE  SInv(t)'
<1>1. /\ up /\ req[t].at = "idle" /\ req' = req /\ unaware' = unaware \ {w}
      /\ UNCHANGED <<graph, up, stuck, store, schedules, fails, stops, fate>>
  BY DEF RevokeWorker, At, process
<1>2. Settled BY <1>1, CalmSettles DEF SInv, Calm
<1>3. Settled' BY <1>1, <1>2 DEF Settled, Members
<1>4. DeletedStaysGone' BY <1>1 DEF SInv, DeletedStaysGone, Members
<1> QED BY <1>1, <1>3, <1>4, IdleStep

(* After a statement that failed nothing is promised of the table. *)
LEMMA StoreFailsSeq ==
  ASSUME IInv, NEW t \in Thread, SInv(t), StoreFails(t)
  PROVE  SInv(t)'
<1>1. up /\ fails' # 0 /\ Return(t) /\ UNCHANGED <<graph, up, stuck>>
  BY BoundAssumption DEF StoreFails, memory, process, IInv, TypeOK
<1>2. Settled' /\ DeletedStaysGone' BY <1>1 DEF Settled, DeletedStaysGone
<1> QED BY <1>1, <1>2, EndStep

LEMMA EmptyForest == EmptyChart \in Chart /\ Members(EmptyChart) = {} /\ Forest(EmptyChart)
BY DEF EmptyChart, Chart, Members, Forest, Acyclic, NoDangling

LEMMA StopSeq ==
  ASSUME IInv, NEW t \in Thread, SInv(t), Stop
  PROVE  SInv(t)'
<1>1. /\ up' = FALSE /\ stuck' = "no" /\ unaware' = {} /\ graph' = EmptyChart
      /\ req'[t] = Idle /\ stops' # 0
      /\ UNCHANGED <<store, schedules, fails, fate>>
  BY BoundAssumption DEF Stop, tables, IInv, TypeOK
<1>2. Members(graph') = {} /\ Forest(graph') BY <1>1, EmptyForest
<1>3. (Idle.at = "idle" /\ Knows(Idle))' BY IdleKnows, PTL
<1>4. Knows(req[t])' BY <1>1, <1>3
<1>5. Settles(req[t])' BY <1>1 DEF Settles, TableFollows, CacheTold, SchedulesNamed
<1>6. ProcessSound(t)' BY <1>1, <1>2 DEF ProcessSound
<1>7. DeletedStaysGone' BY <1>1, <1>2 DEF SInv, DeletedStaysGone, Members
<1> QED BY <1>4, <1>5, <1>6, <1>7 DEF SInv

(* A start serves a forest, and nobody whom the table and the chart file   *)
(* do not have.                                                            *)
LEMMA ServeSeq ==
  ASSUME IInv, NEW t \in Thread, SInv(t), ~up, NEW g \in Chart, Forest(g), Serve(g),
         Members(g) \subseteq Members(store) \cup Members(ChartFile)
  PROVE  SInv(t)'
<1>1. /\ graph' = g /\ store' = g /\ up'
      /\ UNCHANGED <<stuck, unaware, schedules, req, fails, stops, fate>>
  BY DEF Serve, bounds
<1>2. req[t] = Idle /\ unaware = {} /\ stops # 0 /\ stuck = "no" BY DEF SInv, ProcessSound
<1>3. (Idle.at = "idle" /\ Knows(Idle))' BY IdleKnows, PTL
<1>4. Knows(req[t])' BY <1>1, <1>2, <1>3
<1>5. Settles(req[t])' BY <1>1, <1>2 DEF Settles, TableFollows, CacheTold, SchedulesNamed
<1>6. ProcessSound(t)' BY <1>1, <1>2 DEF ProcessSound
<1>7. DeletedStaysGone'
  <2>1. Members(graph') = Members(g) /\ Members(store') = Members(g) BY <1>1
  <2> QED BY <1>1, <2>1 DEF SInv, DeletedStaysGone
<1> QED BY <1>4, <1>5, <1>6, <1>7 DEF SInv

LEMMA LoadCutShortSeq ==
  ASSUME IInv, NEW t \in Thread, SInv(t), LoadCutShort
  PROVE  SInv(t)'
<1>1. /\ ~up /\ stops' # 0 /\ store \in Chart
      /\ UNCHANGED <<graph, up, stuck, unaware, schedules, req, fails, fate>>
  BY BoundAssumption DEF LoadCutShort, memory, process, IInv, TypeOK
<1>2. PICK done \in SUBSET Worker : store' = PartlyLoaded(done) BY DEF LoadCutShort
<1>3. Members(store') \subseteq Members(store) \cup Members(ChartFile)
  <2>1. CASE Members(store) # {}
    <3>1. Members(Rebuild(store)) = Members(store) BY <1>1, RebuildForest
    <3>2. \A w \in Worker : store'[w] = IF w \in done THEN Rebuild(store)[w] ELSE store[w]
      BY <1>2, <2>1 DEF PartlyLoaded
    <3> QED BY <3>1, <3>2 DEF Members
  <2>2. CASE Members(store) = {}
    BY <1>2, <2>2 DEF PartlyLoaded, Members
  <2> QED BY <2>1, <2>2
<1>4. req[t] = Idle BY <1>1 DEF SInv, ProcessSound
<1>5. (Idle.at = "idle" /\ Knows(Idle))' BY IdleKnows, PTL
<1>6. Knows(req[t])' BY <1>1, <1>4, <1>5
<1>7. Settles(req[t])'
  BY <1>1, <1>4 DEF SInv, ProcessSound, Settles, TableFollows, CacheTold, SchedulesNamed
<1>8. ProcessSound(t)'
  BY <1>1 DEF SInv, ProcessSound, Forest, Acyclic, NoDangling, Members, Parent
<1>9. DeletedStaysGone'
  <2>1. Members(graph') = Members(graph) BY <1>1
  <2> QED BY <1>1, <1>3, <2>1 DEF SInv, DeletedStaysGone
<1> QED BY <1>6, <1>7, <1>8, <1>9 DEF SInv

-----------------------------------------------------------------------------
(* The invariant of requests taken one at a time.                          *)

LEMMA InitSeq ==
  ASSUME Init, NEW t \in Thread
  PROVE  SInv(t)
<1>1. /\ Forest(graph) /\ store = graph /\ up = TRUE /\ stuck = "no" /\ unaware = {}
      /\ req[t] = Idle /\ \A s \in Schedule : schedules[s] = {}
      /\ \A w \in Worker : fate[w] = "kept"
  BY StartAssumption DEF Init
<1>2. ProcessSound(t) BY <1>1 DEF ProcessSound
<1>3. Knows(req[t]) BY <1>1, IdleKnows
<1>4. Settles(req[t]) BY <1>1 DEF Settles, TableFollows, CacheTold, SchedulesNamed
<1>5. DeletedStaysGone BY <1>1 DEF DeletedStaysGone
<1> QED BY <1>2, <1>3, <1>4, <1>5 DEF SInv

LEMMA HandleSeq ==
  ASSUME IInv, NEW t \in Thread, SInv(t), Handle(t)
  PROVE  SInv(t)'
<1>1. CASE CheckRevoked(t) \/ ConnectAdd(t) \/ RereadRow(t) \/ SaveRow(t)
  BY <1>1, CheckRevokedSeq, ConnectAddSeq, RereadRowSeq, SaveRowSeq
<1>2. CASE MoveWorker(t) \/ RelabelWorker(t) BY <1>2, MoveWorkerSeq, RelabelWorkerSeq
<1>3. CASE ListReports(t) \/ (\E k \in Worker : AdoptKid(t, k)) \/ RereadKid(t) \/ SaveKid(t)
  BY <1>3, ListReportsSeq, AdoptKidSeq, RereadKidSeq, SaveKidSeq
<1>4. CASE RemoveFromChart(t) \/ RemoveFromStore(t) \/ RevokeRemoved(t) \/ ListSchedules(t)
  BY <1>4, RemoveFromChartSeq, RemoveFromStoreSeq, RevokeRemovedSeq, ListSchedulesSeq
<1>5. CASE (\E s \in Schedule : DropSchedule(t, s)) \/ Announce(t) \/ LookUpRecipient(t) \/ PutSchedule(t)
  BY <1>5, DropScheduleSeq, AnnounceSeq, LookUpRecipientSeq, PutScheduleSeq
<1> QED BY <1>1, <1>2, <1>3, <1>4, <1>5 DEF Handle

LEMMA ProcessSeq ==
  ASSUME IInv, NEW t \in Thread, SInv(t), Process
  PROVE  SInv(t)'
<1>1. CASE Stop BY <1>1, StopSeq
<1>2. CASE LoadGraph
  <2>1. store \in Chart BY DEF IInv, TypeOK
  <2>2. Rebuild(store) \in Chart /\ Members(Rebuild(store)) = Members(store) /\ Forest(Rebuild(store))
    BY <2>1, RebuildForest
  <2> QED BY <1>2, <2>2, ServeSeq DEF LoadGraph
<1>3. CASE LoadChartFile BY <1>3, FileAssumption, ServeSeq DEF LoadChartFile
<1>4. CASE LoadCutShort BY <1>4, LoadCutShortSeq
<1> QED BY <1>1, <1>2, <1>3, <1>4 DEF Process

LEMMA NextSeq ==
  ASSUME NEW t, Thread = {t}
  PROVE  IInv /\ SInv(t) /\ [Next]_vars => SInv(t)'
<1>1. SUFFICES ASSUME IInv, SInv(t), [Next]_vars
               PROVE  SInv(t)'
  OBVIOUS
<1>2. t \in Thread OBVIOUS
<1>3. CASE Handle(t) \/ Arrive(t) \/ StoreFails(t)
  BY <1>1, <1>2, <1>3, HandleSeq, ArriveSeq, StoreFailsSeq
<1>4. ASSUME NEW s \in Schedule, DeleteSchedule(t, s) PROVE SInv(t)'
  BY <1>1, <1>2, <1>4, DeleteScheduleSeq
<1>5. ASSUME NEW w \in Worker, RevokeWorker(t, w) PROVE SInv(t)'
  BY <1>1, <1>2, <1>5, RevokeWorkerSeq
<1>6. CASE Process BY <1>1, <1>2, <1>6, ProcessSeq
<1>7. CASE UNCHANGED vars
  <2>1. UNCHANGED <<graph, up, stuck, unaware, store, schedules, req, fails, stops, fate>>
    BY <1>7 DEF vars, memory, process, tables, bounds
  <2>2. ProcessSound(t)'
    BY <1>1, <2>1 DEF SInv, ProcessSound, Forest, Acyclic, NoDangling, Members, Parent
  <2>3. Knows(req[t])'
    BY <1>1, <2>1 DEF SInv, Knows, DeletePlan, RowsRead, LooksHold, LeavesLeft, Children,
                      Members, MayRearrange, Parent
  <2>4. Settles(req[t])'
    BY <1>1, <2>1 DEF SInv, Settles, TableFollows, InTransit, CacheTold, CacheLags, SchedulesNamed,
                      MayBeNamed, Members
  <2>5. DeletedStaysGone' BY <1>1, <2>1 DEF SInv, DeletedStaysGone, Members
  <2> QED BY <2>2, <2>3, <2>4, <2>5 DEF SInv
<1> QED BY <1>1, <1>3, <1>4, <1>5, <1>6, <1>7 DEF Next

LEMMA SeqInvariance ==
  ASSUME NEW t, Thread = {t}
  PROVE  Spec => []SInv(t)
<1>1. Init => SInv(t) BY InitSeq
<1> QED BY <1>1, NextSeq, Invariance, PTL DEF Spec

-----------------------------------------------------------------------------
(* What it says.                                                           *)

OneAtATime == \E t : Thread = {t}

(* server.go:444-483: when no statement has failed, the table holds the    *)
(* chart whenever no request is under way, after any number of requests    *)
(* and restarts.                                                           *)
THEOREM TableHoldsTheChart ==
  ASSUME OneAtATime
  PROVE  Spec => []StoreAgrees
<1>1. PICK t : Thread = {t} BY DEF OneAtATime
<1>2. IInv /\ SInv(t) => StoreAgrees
  <2>1. SUFFICES ASSUME IInv, SInv(t), Quiet, fails = 0 PROVE store = graph
    BY DEF StoreAgrees
  <2>2. up /\ req[t].at = "idle" BY <1>1, <2>1 DEF Quiet
  <2>3. \A v \in Worker : store[v] = graph[v]
    BY <2>1, <2>2 DEF SInv, Settles, TableFollows, InTransit
  <2> QED BY <2>1, <2>3 DEF IInv, TypeOK, Chart
<1>3. Spec => []SInv(t) BY <1>1, SeqInvariance
<1> QED BY <1>2, <1>3, Invariance, PTL

(* server.go:591-681, docs/design-notes/control-plane.md:34: when no       *)
(* statement has failed, whom a delete has finished with is in neither the *)
(* chart nor the table, unless the chart file declares it; a connect, a    *)
(* move or a restart does not bring it back.                               *)
THEOREM DeletedStayOut ==
  ASSUME OneAtATime
  PROVE  Spec => []DeletedStaysGone
<1>1. PICK t : Thread = {t} BY DEF OneAtATime
<1>2. SInv(t) => DeletedStaysGone BY DEF SInv
<1>3. Spec => []SInv(t) BY <1>1, SeqInvariance
<1> QED BY <1>2, <1>3, PTL

(* docs/design-notes/control-plane.md:37: when no statement has failed and *)
(* the process has not stopped, no schedule outlives a worker it names.    *)
THEOREM SchedulesOutliveNobody ==
  ASSUME OneAtATime
  PROVE  Spec => []SchedulesNameMembers
<1>1. PICK t : Thread = {t} BY DEF OneAtATime
<1>2. SInv(t) => SchedulesNameMembers
  BY <1>1 DEF SInv, Settles, SchedulesNamed, MayBeNamed, TakenOut, SchedulesNameMembers, Quiet
<1>3. Spec => []SInv(t) BY <1>1, SeqInvariance
<1> QED BY <1>2, <1>3, PTL

-----------------------------------------------------------------------------
(* The chart is the forest of GraphApi.                                    *)

(* Both modules extend OrgChart: the instance speaks of the same charts.   *)
LEMMA SameCharts ==
  /\ Abstract!Row = Row /\ Abstract!Chart = Chart /\ Abstract!EmptyChart = EmptyChart
  /\ \A g : Abstract!Members(g) = Members(g) /\ (Abstract!Forest(g) <=> Forest(g))
  /\ \A g, w : /\ Abstract!Parent(g, w) = Parent(g, w)
                /\ Abstract!Children(g, w) = Children(g, w)
                /\ Abstract!Remove(g, w) = Remove(g, w)
<1>1. /\ Abstract!Row = Row /\ Abstract!EmptyChart = EmptyChart
      /\ \A g : Abstract!Members(g) = Members(g)
      /\ \A g, w : Abstract!Parent(g, w) = Parent(g, w) /\ Abstract!Remove(g, w) = Remove(g, w)
  BY DEF Abstract!Row, Row, Abstract!EmptyChart, EmptyChart, Abstract!Members, Members,
         Abstract!Parent, Parent, Abstract!Remove, Remove
<1>2. Abstract!Chart = Chart BY <1>1 DEF Abstract!Chart, Chart
<1>3. \A g, w : Abstract!Children(g, w) = Children(g, w)
  BY <1>1 DEF Abstract!Children, Children
<1>4. \A g : Abstract!Forest(g) <=> Forest(g)
  BY <1>1 DEF Abstract!Forest, Forest, Abstract!Acyclic, Acyclic, Abstract!NoDangling, NoDangling
<1> QED BY <1>1, <1>2, <1>3, <1>4

LEMMA SameAdd ==
  ASSUME NEW g, NEW w, NEW row, CanAdd(g, w, row)
  PROVE  Abstract!CanAdd(g, w, row) /\ Abstract!PutRow(g, w, row) = PutRow(g, w, row)
BY SameCharts DEF Abstract!CanAdd, CanAdd, Abstract!PutRow, PutRow

LEMMA SameMove ==
  ASSUME NEW g, NEW w, NEW p, CanReassign(g, w, p)
  PROVE  Abstract!CanReassign(g, w, p) /\ Abstract!Reassign(g, w, p) = Reassign(g, w, p)
<1>1. \A A : Abstract!ParentClosed(g, A) <=> ParentClosed(g, A)
  BY SameCharts DEF Abstract!ParentClosed, ParentClosed
<1>2. \A v : Abstract!Line(g, v) = Line(g, v) BY <1>1 DEF Abstract!Line, Line
<1>3. Abstract!ClimbLoops(g, p) <=> ClimbLoops(g, p)
  BY <1>2, SameCharts DEF Abstract!ClimbLoops, ClimbLoops
<1>4. Abstract!HasAncestor(g, p, w) <=> HasAncestor(g, p, w)
  BY <1>2 DEF Abstract!HasAncestor, HasAncestor
<1>5. Abstract!CanReassign(g, w, p)
  BY <1>3, <1>4, SameCharts DEF Abstract!CanReassign, CanReassign
<1> QED BY <1>5 DEF Abstract!Reassign, Reassign

LEMMA SameRole ==
  ASSUME NEW g, NEW w, NEW ro
  PROVE  Abstract!SetRole(g, w, ro) = SetRole(g, w, ro)
BY DEF Abstract!SetRole, SetRole

LEMMA HandleIsForest ==
  ASSUME IInv, NEW t \in Thread, SInv(t), Handle(t)
  PROVE  Abstract!ForestNext \/ UNCHANGED <<graph, stuck>>
<1> USE DEF Abstract!ForestNext, Abstract!Change
<1>1. /\ graph \in Chart /\ Acyclic(graph) /\ stuck = "no" /\ req[t] \in Request
      /\ Carried(req[t], revoked)
  BY Here DEF SInv, ProcessSound, Forest
<1>2. CASE ConnectAdd(t)
  <2>1. req[t].who \in Worker /\ req[t].row \in Row
    BY <1>1, <1>2 DEF ConnectAdd, AtWrite, At, Carried
  <2>2. CASE CanAdd(graph, req[t].who, req[t].row) /\ graph' = PutRow(graph, req[t].who, req[t].row)
    <3>1. /\ Abstract!CanAdd(graph, req[t].who, req[t].row)
          /\ graph' = Abstract!PutRow(graph, req[t].who, req[t].row)
      BY <2>2, SameAdd
    <3>2. Abstract!AddWorker(req[t].who, req[t].row)
      BY <1>1, <1>2, <3>1 DEF Abstract!AddWorker, ConnectAdd
    <3> QED BY <2>1, <3>2, SameCharts
  <2> QED BY <1>2, <2>2 DEF ConnectAdd
<1>3. ASSUME NEW w \in Worker, NEW p \in Worker \cup {NoOne}, UNCHANGED stuck,
             CanReassign(graph, w, p), graph' = Reassign(graph, w, p)
      PROVE  Abstract!ForestNext
  <2>1. Abstract!CanReassign(graph, w, p) /\ graph' = Abstract!Reassign(graph, w, p)
    BY <1>3, SameMove
  <2>2. Abstract!ReassignWorker(w, p) BY <1>1, <1>3, <2>1 DEF Abstract!ReassignWorker
  <2> QED BY <2>2
<1>4. CASE MoveWorker(t)
  <2>1. req[t].who \in Worker /\ req[t].parent \in Worker \cup {NoOne}
    BY <1>1, <1>4 DEF MoveWorker, AtWrite, At, Carried, Request
  <2>2. ~ReassignHangs(graph, req[t].who, req[t].parent) BY <1>1, NoHang
  <2> QED BY <1>3, <1>4, <2>1, <2>2 DEF MoveWorker
<1>5. ASSUME NEW k \in Worker, AdoptKid(t, k)
      PROVE  Abstract!ForestNext \/ UNCHANGED <<graph, stuck>>
  <2>1. req[t].parent \in Worker \cup {NoOne} BY <1>1 DEF Request
  <2>2. ~ReassignHangs(graph, k, req[t].parent) BY <1>1, NoHang
  <2> QED BY <1>3, <1>5, <2>1, <2>2 DEF AdoptKid
<1>6. CASE RelabelWorker(t)
  <2>1. req[t].row.role \in Role
    BY <1>1, <1>6 DEF RelabelWorker, AtWrite, At, Carried, Row
  <2>2. CASE req[t].who \in Members(graph) /\ graph' = SetRole(graph, req[t].who, req[t].row.role)
    <3>1. Abstract!SetWorkerRole(req[t].who, req[t].row.role)
      BY <1>1, <1>6, <2>2, SameCharts, SameRole DEF Abstract!SetWorkerRole, RelabelWorker
    <3> QED BY <2>1, <2>2, <3>1 DEF Members
  <2> QED BY <1>6, <2>2 DEF RelabelWorker
<1>7. CASE RemoveFromChart(t)
  <2> DEFINE s == req[t].removing
             id == Head(s)
  <2>1. req[t].at = "remove" /\ LeavesLeft(graph, s)
    BY <1>7 DEF RemoveFromChart, AtWrite, At, SInv, Knows, DeletePlan
  <2>2. s \in Seq(Worker) /\ s # << >> /\ id \in Worker BY <2>1, HeadRemoving
  <2>3. id \in Members(graph) /\ Children(graph, id) = {} BY <1>1, <2>1, <2>2, TailLeavesLeft
  <2>4. Abstract!RemoveLeaf(id)
    BY <1>1, <1>7, <2>3, SameCharts DEF Abstract!RemoveLeaf, Abstract!RemoveWorker, RemoveFromChart
  <2> QED BY <2>2, <2>4
<1>8. CASE ListReports(t)
  <2>1. req[t].who \in Members(graph) => ~DescentLoops(graph, req[t].who) BY <1>1, DescentEnds
  <2> QED BY <1>8, <2>1 DEF ListReports
<1>9. CASE \/ CheckRevoked(t) \/ RereadRow(t) \/ SaveRow(t) \/ RereadKid(t) \/ SaveKid(t)
           \/ RemoveFromStore(t) \/ RevokeRemoved(t) \/ ListSchedules(t)
           \/ (\E s \in Schedule : DropSchedule(t, s)) \/ Announce(t) \/ LookUpRecipient(t)
           \/ PutSchedule(t)
  BY <1>9 DEF CheckRevoked, RereadRow, SaveRow, RereadKid, SaveKid, RemoveFromStore, RevokeRemoved,
              ListSchedules, DropSchedule, Announce, LookUpRecipient, PutSchedule, memory, process
<1> QED BY <1>2, <1>4, <1>5, <1>6, <1>7, <1>8, <1>9 DEF Handle

LEMMA ProcessIsForest ==
  ASSUME IInv, NEW t \in Thread, SInv(t), Process
  PROVE  Abstract!ForestNext \/ UNCHANGED <<graph, stuck>>
<1>1. stuck = "no" /\ (~up => graph = EmptyChart) /\ store \in Chart
  BY DEF SInv, ProcessSound, IInv, TypeOK
<1>2. CASE Stop
  <2>1. Abstract!Stop BY <1>2, SameCharts DEF Stop, Abstract!Stop
  <2> QED BY <2>1 DEF Abstract!ForestNext
<1>3. ASSUME ~up, NEW g \in Chart, Forest(g), Serve(g)
      PROVE  Abstract!ForestNext
  <2>1. Abstract!Start BY <1>1, <1>3, SameCharts DEF Serve, Abstract!Start
  <2> QED BY <2>1 DEF Abstract!ForestNext
<1>4. CASE LoadGraph
  <2>1. Rebuild(store) \in Chart /\ Forest(Rebuild(store)) BY <1>1, RebuildForest
  <2> QED BY <1>3, <1>4, <2>1 DEF LoadGraph
<1>5. CASE LoadChartFile BY <1>3, <1>5, FileAssumption DEF LoadChartFile
<1>6. CASE LoadCutShort BY <1>6 DEF LoadCutShort, memory, process
<1> QED BY <1>2, <1>4, <1>5, <1>6 DEF Process

LEMMA NextIsForest ==
  ASSUME NEW t, Thread = {t}
  PROVE  IInv /\ SInv(t) /\ [Next]_vars => [Abstract!ForestNext]_Abstract!vars
<1>1. SUFFICES ASSUME IInv, SInv(t), [Next]_vars
               PROVE  Abstract!ForestNext \/ UNCHANGED <<graph, stuck>>
  BY DEF Abstract!vars
<1>2. t \in Thread OBVIOUS
<1>3. CASE Handle(t) BY <1>1, <1>2, <1>3, HandleIsForest
<1>4. CASE Process BY <1>1, <1>2, <1>4, ProcessIsForest, SMTT(30)
<1>5. CASE Arrive(t) \/ StoreFails(t)
  BY <1>5 DEF Arrive, BeginConnect, BeginTouch, BeginReassign, BeginSetRole, BeginDelete,
              BeginPutSchedule, Begin, StoreFails, memory, process
<1>6. CASE (\E s \in Schedule : DeleteSchedule(t, s)) \/ (\E w \in Worker : RevokeWorker(t, w))
  BY <1>6 DEF DeleteSchedule, RevokeWorker, memory, process
<1>7. CASE UNCHANGED vars BY <1>7 DEF vars, memory, process
<1> QED BY <1>1, <1>3, <1>4, <1>5, <1>6, <1>7 DEF Next

(* server.go, graph.go: requests taken one at a time, failing or cut short *)
(* by stops, change the chart as GraphApi's forest changes: nobody is      *)
(* removed from under a report, in the middle of a cascade or a delete     *)
(* that moves the reports up, and no walk ever loops.                      *)
THEOREM PlaneImplementsForest ==
  ASSUME OneAtATime
  PROVE  Spec => ImplementsForest
<1>1. PICK t : Thread = {t} BY DEF OneAtATime
<1>2. Init => Abstract!ForestInit
  BY StartAssumption, SameCharts DEF Init, Abstract!ForestInit
<1>3. IInv /\ SInv(t) /\ [Next]_vars => [Abstract!ForestNext]_Abstract!vars
  BY <1>1, NextIsForest
<1>4. Spec => []SInv(t) BY <1>1, SeqInvariance
<1> QED BY <1>2, <1>3, <1>4, Invariance, PTL DEF Spec, ImplementsForest, Abstract!ForestSpec
=============================================================================
