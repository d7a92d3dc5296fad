---------------------------- MODULE ControlPlane ----------------------------
(***************************************************************************)
(* The control plane of internal/server/server.go: the in-memory org chart *)
(* and the tables of control.db, and the HTTP requests that change them.   *)
(*                                                                         *)
(* A handler is a sequence of calls; each call on the chart holds the      *)
(* chart's mutex and each statement on the database is serialised by its   *)
(* single connection, but nothing spans two calls: no transaction, no      *)
(* lock.  So a request is a thread with a program counter, one action per  *)
(* call, and everything a handler read earlier is a field of its record.   *)
(* A store call may also fail, and the process may stop between any two    *)
(* calls; loadGraph then rebuilds the chart from the table.                *)
(***************************************************************************)
EXTENDS OrgChart, Sequences

CONSTANTS Thread,         \* requests the server runs at the same time
          Schedule,       \* schedule IDs
          Admin,          \* the caller of a request made with an admin token
          StartCharts,    \* charts the first start may find
          ChartFile,      \* the chart declared by --orgchart
          MaxRequests,    \* bound: requests served in a behaviour
          MaxFails,       \* bound: database statements that fail
          MaxStops        \* bound: times the process stops

ASSUME WorkerAssumption == IsFiniteSet(Worker)
ASSUME AdminAssumption == Admin \notin Worker
ASSUME StartAssumption == StartCharts \subseteq {g \in Chart : Forest(g)}
ASSUME FileAssumption  == ChartFile \in Chart /\ Forest(ChartFile)
ASSUME BoundAssumption == {MaxRequests, MaxFails, MaxStops} \subseteq Nat

VARIABLES graph,      \* Server.graph
          up,         \* the process runs and has finished New
          stuck,      \* "writer" or "reader": a walk loops holding the chart's mutex so
          unaware,    \* revoked IDs the API's revocation cache may still let through
          store,      \* table workers
          revoked,    \* table revocations
          schedules,  \* table schedules: owner and recipient of each; {} for no row
          req,        \* the request each thread is serving
          served,     \* requests begun so far
          fails,      \* statements failed so far
          stops,      \* times the process has stopped
          fate        \* ghost: what became of the workers deletes have taken on

process == <<graph, up, stuck>>
memory == <<process, unaware>>
tables == <<store, revoked, schedules>>
bounds == <<served, fails, stops>>
vars   == <<memory, tables, req, bounds, fate>>

Caller == Worker \cup {Admin}

(* The record of a request: where it is, and what it holds on to. *)
Request ==
  [at        : {"idle", "check", "add", "move", "relabel", "reread", "save",
                "list", "adopt", "rereadKid", "saveKid", "remove", "unstore",
                "revoke", "listSchedules", "dropSchedules", "announce", "lookup", "putSchedule"},
   op        : {"none", "connect", "touch", "reassign", "role", "delete", "schedule"},
   who       : Worker \cup {NoOne},               \* the worker the request is about
   row       : Row \cup {Absent},                 \* the row it carries to the store
   parent    : Worker \cup {NoOne},               \* new parent; the deleted worker's parent
   cascade   : BOOLEAN,                           \* the delete takes the subtree with it
   kids      : SUBSET Worker,                     \* direct reports still to be moved up
   kid       : Worker \cup {NoOne},               \* the one being moved
   removing  : Seq(Worker),                       \* IDs still to be removed, in order
   drop      : SUBSET Schedule,                   \* schedules still to be dropped, or written
   names     : SUBSET Worker]                     \* owner and recipient of the schedule written;
                                                  \* IDs a delete is done with

Idle == [at |-> "idle", op |-> "none", who |-> NoOne, row |-> Absent,
         parent |-> NoOne, cascade |-> FALSE, kids |-> {}, kid |-> NoOne,
         removing |-> << >>, drop |-> {}, names |-> {}]

TypeOK ==
  /\ graph \in Chart
  /\ up \in BOOLEAN
  /\ stuck \in {"no", "reader", "writer"}
  /\ unaware \in SUBSET Worker
  /\ store \in Chart
  /\ revoked \in SUBSET Worker
  /\ schedules \in [Schedule -> SUBSET Worker]
  /\ req \in [Thread -> Request]
  /\ served \in 0 .. MaxRequests
  /\ fails \in 0 .. MaxFails
  /\ stops \in 0 .. MaxStops
  /\ fate \in [Worker -> {"kept", "erased", "deleted"}]

Init ==
  /\ graph \in StartCharts
  /\ store = graph
  /\ up = TRUE
  /\ stuck = "no"
  /\ unaware = {}
  /\ revoked = {}
  /\ schedules = [s \in Schedule |-> {}]
  /\ req = [t \in Thread |-> Idle]
  /\ served = 0
  /\ fails = 0
  /\ stops = 0
  /\ fate = [w \in Worker |-> "kept"]

-----------------------------------------------------------------------------
(* Steps shared by the handlers.                                           *)

(* Thread t stands before the step `where'. *)
At(t, where) == up /\ req[t].at = where

(* Whether the chart's mutex lets readers, and writers, through. *)
CanRead  == stuck # "writer"
CanWrite == stuck = "no"

AtRead(t, where)  == At(t, where) /\ CanRead
AtWrite(t, where) == At(t, where) /\ CanWrite

Goto(t, where) == req' = [req EXCEPT ![t].at = where]

(* The handler returns, with an answer or an error. *)
Return(t) == req' = [req EXCEPT ![t] = Idle]

(* A request arrives; its first step is `where'. *)
Begin(t, r) ==
  /\ At(t, "idle")
  /\ served < MaxRequests
  /\ req' = [req EXCEPT ![t] = r]
  /\ served' = served + 1
  /\ UNCHANGED <<memory, tables, fails, stops, fate>>

(* A database statement fails, or the Emit that announces a delete: the    *)
(* handler answers 500 and does no more.  The Emit of a move or a new role *)
(* comes after the last effect modelled here and is left out.              *)
StoreFails(t) ==
  /\ up
  /\ req[t].at \in {"check", "save", "saveKid", "unstore", "revoke", "listSchedules",
                    "dropSchedules", "announce", "putSchedule"}
  /\ fails < MaxFails
  /\ fails' = fails + 1
  /\ Return(t)
  /\ UNCHANGED <<memory, tables, served, stops, fate>>

(* UpsertWorker of the row the request has read: the whole row. *)
SaveRow(t) ==
  /\ At(t, "save")
  /\ store' = PutRow(store, req[t].who, req[t].row)
  /\ Return(t)
  /\ UNCHANGED <<memory, revoked, schedules, bounds, fate>>

(* Graph.Get after a change, to have the row to persist. *)
RereadRow(t) ==
  /\ AtRead(t, "reread")
  /\ IF req[t].who \in Members(graph)
       THEN req' = [req EXCEPT ![t].row = graph[req[t].who], ![t].at = "save"]
       ELSE Return(t)
  /\ UNCHANGED <<memory, tables, bounds, fate>>

-----------------------------------------------------------------------------
(* POST /api/connect and POST /api/token.                                  *)

BeginConnect(t, w, row) ==
  Begin(t, [Idle EXCEPT !.at = "check", !.op = "connect", !.who = w, !.row = row])

BeginTouch(t, w) ==
  /\ CanRead
  /\ w \in Members(graph)
  /\ Begin(t, [Idle EXCEPT !.at = "check", !.op = "touch", !.who = w])

(* Mutant of CheckRevoked: the revocation is not looked up. *)
CheckNothing(t) ==
  /\ At(t, "check")
  /\ Goto(t, IF req[t].op = "connect" THEN "add" ELSE "reread")
  /\ UNCHANGED <<memory, tables, bounds, fate>>

(* The revocation lookup, once the challenge is verified: the answer is    *)
(* the table's, or one the cache has from before the revocation.           *)
CheckRevoked(t) ==
  /\ At(t, "check")
  /\ \/ req[t].who \in revoked /\ Return(t)
     \/ /\ req[t].who \in revoked => req[t].who \in unaware
        /\ Goto(t, IF req[t].op = "connect" THEN "add" ELSE "reread")
  /\ UNCHANGED <<memory, tables, bounds, fate>>

(* ConnectWorker: the chart first, then the table. *)
ConnectAdd(t) ==
  /\ AtWrite(t, "add")
  /\ IF CanAdd(graph, req[t].who, req[t].row)
       THEN graph' = PutRow(graph, req[t].who, req[t].row) /\ Goto(t, "save")
       ELSE UNCHANGED graph /\ Return(t)
  /\ UNCHANGED <<up, stuck, unaware, tables, bounds, fate>>

-----------------------------------------------------------------------------
(* POST /api/workers/{id}/reassign and PATCH /api/workers/{id}.            *)

(* The caller is the worker, its parent as the chart has it now, or an admin. *)
MayRearrange(by, w) == by \in {Admin, w, Parent(graph, w)}

BeginReassign(t, w, p, by) ==
  /\ CanRead
  /\ w \in Members(graph)
  /\ MayRearrange(by, w)
  /\ Begin(t, [Idle EXCEPT !.at = "move", !.op = "reassign", !.who = w, !.parent = p])

MoveWorker(t) ==
  LET w == req[t].who
      p == req[t].parent
  IN  /\ AtWrite(t, "move")
      /\ \/ /\ CanReassign(graph, w, p)
            /\ graph' = Reassign(graph, w, p)
            /\ Goto(t, "reread")
            /\ UNCHANGED stuck
         \/ /\ ReassignHangs(graph, w, p)
            /\ stuck' = "writer"
            /\ UNCHANGED <<graph, req>>
         \/ /\ ~CanReassign(graph, w, p) /\ ~ReassignHangs(graph, w, p)
            /\ Return(t)
            /\ UNCHANGED <<graph, stuck>>
      /\ UNCHANGED <<up, unaware, tables, bounds, fate>>

BeginSetRole(t, w, r, by) ==
  /\ CanRead
  /\ w \in Members(graph)
  /\ MayRearrange(by, w)
  /\ graph[w].role # r
  /\ Begin(t, [Idle EXCEPT !.at = "relabel", !.op = "role", !.who = w,
                           !.row = [reportsTo |-> NoOne, role |-> r]])

(* Mutant of RelabelWorker: the new role is not persisted. *)
RelabelInMemory(t) ==
  /\ AtWrite(t, "relabel")
  /\ graph' = IF req[t].who \in Members(graph) THEN SetRole(graph, req[t].who, req[t].row.role) ELSE graph
  /\ Return(t)
  /\ UNCHANGED <<up, stuck, unaware, tables, bounds, fate>>

RelabelWorker(t) ==
  /\ AtWrite(t, "relabel")
  /\ IF req[t].who \in Members(graph)
       THEN graph' = SetRole(graph, req[t].who, req[t].row.role) /\ Goto(t, "reread")
       ELSE UNCHANGED graph /\ Return(t)
  /\ UNCHANGED <<up, stuck, unaware, tables, bounds, fate>>

-----------------------------------------------------------------------------
(* DELETE /api/workers/{id}, by an admin.                                  *)

(* The order of the removals: deepest first, as the reversed breadth-first *)
(* list has it, siblings in any order.                                     *)
Depth(g, w) == Cardinality(Line(g, w))

(* Mutant of LeavesFirst: the list is not reversed. *)
RootsFirst(g, D) ==
  {s \in [1 .. Cardinality(D) -> D] :
     \A i, j \in 1 .. Cardinality(D) :
       i < j => s[i] # s[j] /\ Depth(g, s[i]) <= Depth(g, s[j])}

LeavesFirst(g, D) ==
  {s \in [1 .. Cardinality(D) -> D] :
     \A i, j \in 1 .. Cardinality(D) :
       i < j => s[i] # s[j] /\ Depth(g, s[i]) >= Depth(g, s[j])}

BeginDelete(t, w, cascade) ==
  /\ CanRead
  /\ w \in Members(graph)
  /\ Begin(t, [Idle EXCEPT !.at = "list", !.op = "delete", !.who = w,
                           !.cascade = cascade, !.parent = Parent(graph, w)])

(* Descendants, or Children; the target may be gone by now. *)
ListReports(t) ==
  LET w == req[t].who
  IN  /\ AtRead(t, "list")
      /\ \/ /\ w \notin Members(graph)
            /\ Return(t)
            /\ UNCHANGED stuck
         \/ /\ w \in Members(graph) /\ req[t].cascade /\ DescentLoops(graph, w)
            /\ stuck' = "reader"
            /\ UNCHANGED req
         \/ /\ w \in Members(graph) /\ req[t].cascade /\ ~DescentLoops(graph, w)
            /\ \E order \in LeavesFirst(graph, Descendants(graph, w)) :
                 req' = [req EXCEPT ![t].removing = order \o <<w>>, ![t].at = "remove"]
            /\ UNCHANGED stuck
         \/ /\ w \in Members(graph) /\ ~req[t].cascade
            /\ req' = [req EXCEPT ![t].kids = Children(graph, w), ![t].removing = <<w>>,
                                  ![t].at = IF Children(graph, w) = {} THEN "remove" ELSE "adopt"]
            /\ UNCHANGED stuck
      /\ UNCHANGED <<graph, up, unaware, tables, bounds, fate>>

(* Graph.Reassign of one direct report to the deleted worker's parent. *)
AdoptKid(t, k) ==
  LET p == req[t].parent
  IN  /\ AtWrite(t, "adopt")
      /\ k \in req[t].kids
      /\ \/ /\ CanReassign(graph, k, p)
            /\ graph' = Reassign(graph, k, p)
            /\ req' = [req EXCEPT ![t].kid = k, ![t].at = "rereadKid"]
            /\ UNCHANGED stuck
         \/ /\ ReassignHangs(graph, k, p)
            /\ stuck' = "writer"
            /\ UNCHANGED <<graph, req>>
         \/ /\ ~CanReassign(graph, k, p) /\ ~ReassignHangs(graph, k, p)
            /\ Return(t)
            /\ UNCHANGED <<graph, stuck>>
      /\ UNCHANGED <<up, unaware, tables, bounds, fate>>

RereadKid(t) ==
  /\ AtRead(t, "rereadKid")
  /\ IF req[t].kid \in Members(graph)
       THEN req' = [req EXCEPT ![t].row = graph[req[t].kid], ![t].at = "saveKid"]
       ELSE Return(t)
  /\ UNCHANGED <<memory, tables, bounds, fate>>

(* Mutant of SaveKid: the loop starts over after each move. *)
SaveKidAgain(t) ==
  /\ At(t, "saveKid")
  /\ store' = PutRow(store, req[t].kid, req[t].row)
  /\ req' = [req EXCEPT ![t].kid = NoOne, ![t].at = "adopt"]
  /\ UNCHANGED <<memory, revoked, schedules, bounds, fate>>

SaveKid(t) ==
  LET left == req[t].kids \ {req[t].kid}
  IN  /\ At(t, "saveKid")
      /\ store' = PutRow(store, req[t].kid, req[t].row)
      /\ req' = [req EXCEPT ![t].kids = left, ![t].kid = NoOne,
                            ![t].at = IF left = {} THEN "remove" ELSE "adopt"]
      /\ UNCHANGED <<memory, revoked, schedules, bounds, fate>>

(* The removal loop, over Head(removing). *)
RemoveFromChart(t) ==
  LET id == Head(req[t].removing)
  IN  /\ AtWrite(t, "remove")
      /\ IF id \in Members(graph)
           THEN /\ graph' = Remove(graph, id)
                /\ Goto(t, "unstore")
           ELSE UNCHANGED graph /\ Return(t)
      /\ UNCHANGED <<up, stuck, unaware, tables, bounds, fate>>

RemoveFromStore(t) ==
  /\ At(t, "unstore")
  /\ store' = PutRow(store, Head(req[t].removing), Absent)
  /\ fate' = [fate EXCEPT ![Head(req[t].removing)] = "erased"]
  /\ Goto(t, "revoke")
  /\ UNCHANGED <<memory, revoked, schedules, bounds>>

(* Mutant of RevokeRemoved: only the worker named in the request is revoked. *)
RevokeTarget(t) ==
  /\ At(t, "revoke")
  /\ revoked' = revoked \cup {req[t].who}
  /\ Goto(t, "listSchedules")
  /\ UNCHANGED <<memory, store, schedules, bounds, fate>>

RevokeRemoved(t) ==
  /\ At(t, "revoke")
  /\ revoked' = revoked \cup {Head(req[t].removing)}
  /\ unaware' = unaware \cup {Head(req[t].removing)}
  /\ Goto(t, "listSchedules")
  /\ UNCHANGED <<process, store, schedules, bounds, fate>>

(* On to the next ID, or to the end of the request. *)
NextRemoval(t) ==
  LET id   == Head(req[t].removing)
      left == Tail(req[t].removing)
  IN  /\ fate' = [fate EXCEPT ![id] = "deleted"]
      /\ req' = [req EXCEPT ![t].removing = left, ![t].drop = {}, ![t].names = @ \cup {id},
                            ![t].at = IF left = << >> THEN "announce" ELSE "remove"]

(* Mutant of ListSchedules: the schedules of a removed worker stay. *)
KeepSchedules(t) ==
  /\ At(t, "listSchedules")
  /\ NextRemoval(t)
  /\ UNCHANGED <<memory, tables, bounds>>

ListSchedules(t) ==
  LET owned == {s \in Schedule : Head(req[t].removing) \in schedules[s]}
  IN  /\ At(t, "listSchedules")
      /\ IF owned = {} THEN NextRemoval(t)
         ELSE /\ req' = [req EXCEPT ![t].drop = owned, ![t].at = "dropSchedules"]
              /\ UNCHANGED fate
      /\ UNCHANGED <<memory, tables, bounds>>

(* Deleting a schedule that is gone is an error, which ends the request. *)
DropSchedule(t, s) ==
  /\ At(t, "dropSchedules")
  /\ s \in req[t].drop
  /\ schedules' = [schedules EXCEPT ![s] = {}]
  /\ \/ schedules[s] = {} /\ Return(t) /\ UNCHANGED fate
     \/ schedules[s] # {} /\ req[t].drop = {s} /\ NextRemoval(t)
     \/ /\ schedules[s] # {} /\ req[t].drop # {s}
        /\ req' = [req EXCEPT ![t].drop = @ \ {s}]
        /\ UNCHANGED fate
  /\ UNCHANGED <<memory, store, revoked, bounds>>

(* The announcements are sent; handleDeleteWorker then drops what the      *)
(* revocation cache holds on the removed IDs, and answers.                 *)
Announce(t) ==
  /\ At(t, "announce")
  /\ unaware' = unaware \ req[t].names
  /\ Return(t)
  /\ UNCHANGED <<process, tables, bounds, fate>>

-----------------------------------------------------------------------------
(* The handlers of one table write; the last two are a step of a thread    *)
(* that has nothing else to do.                                            *)

(* PUT /api/schedules/{id}: owner and recipient are looked up in the chart, *)
(* one after the other, and then the row is written.                        *)
BeginPutSchedule(t, s, owner, to) ==
  /\ CanRead
  /\ owner \in Members(graph)
  /\ Begin(t, [Idle EXCEPT !.at = "lookup", !.op = "schedule", !.who = to, !.drop = {s},
                           !.names = {owner, to}])

LookUpRecipient(t) ==
  /\ AtRead(t, "lookup")
  /\ IF req[t].who \in Members(graph) THEN Goto(t, "putSchedule") ELSE Return(t)
  /\ UNCHANGED <<memory, tables, bounds, fate>>

PutSchedule(t) ==
  /\ At(t, "putSchedule")
  /\ schedules' = [s \in Schedule |-> IF s \in req[t].drop THEN req[t].names ELSE schedules[s]]
  /\ Return(t)
  /\ UNCHANGED <<memory, store, revoked, bounds, fate>>

(* DELETE /api/schedules/{id}. *)
DeleteSchedule(t, s) ==
  /\ At(t, "idle")
  /\ served < MaxRequests
  /\ schedules[s] # {}
  /\ schedules' = [schedules EXCEPT ![s] = {}]
  /\ served' = served + 1
  /\ UNCHANGED <<memory, store, revoked, req, fails, stops, fate>>

(* POST /api/workers/{id}/revoke: the ID need not be in the chart. *)
RevokeWorker(t, w) ==
  /\ At(t, "idle")
  /\ served < MaxRequests
  /\ revoked' = revoked \cup {w}
  /\ unaware' = unaware \ {w}
  /\ served' = served + 1
  /\ UNCHANGED <<process, store, schedules, req, fails, stops, fate>>

-----------------------------------------------------------------------------
(* The process.                                                            *)

Stop ==
  /\ up
  /\ stops < MaxStops
  /\ stops' = stops + 1
  /\ up' = FALSE
  /\ stuck' = "no"
  /\ unaware' = {}
  /\ graph' = EmptyChart
  /\ req' = [t \in Thread |-> Idle]
  /\ UNCHANGED <<tables, served, fails, fate>>

(* The process is up again, with chart g in memory and in the table. *)
Serve(g) ==
  /\ graph' = g
  /\ store' = g
  /\ up' = TRUE
  /\ UNCHANGED <<stuck, unaware, revoked, schedules, req, bounds, fate>>

(* loadGraph with rows in the table; the repaired edges are written back. *)
LoadGraph == ~up /\ Members(store) # {} /\ Serve(Rebuild(store))

(* loadGraph with an empty table: loadOrgChartFile. *)
LoadChartFile == ~up /\ Members(store) = {} /\ Serve(ChartFile)

(* The rows a load writes one at a time, when it is cut short after those  *)
(* of the set done: repaired rows, or rows of the chart file, of which a   *)
(* worker's is written after its parent's.                                 *)
PartlyLoaded(done) ==
  IF Members(store) # {} THEN [w \in Worker |-> IF w \in done THEN Rebuild(store)[w] ELSE store[w]]
  ELSE [w \in Worker |-> IF w \in done THEN ChartFile[w] ELSE Absent]

LoadCutShort ==
  /\ ~up
  /\ stops < MaxStops
  /\ stops' = stops + 1
  /\ \E done \in SUBSET Worker :
       /\ Members(store) = {} => ParentClosed(ChartFile, done)
       /\ store' = PartlyLoaded(done)
  /\ UNCHANGED <<memory, revoked, schedules, req, served, fails, fate>>

-----------------------------------------------------------------------------

Handle(t) ==
  \/ CheckRevoked(t) \/ ConnectAdd(t) \/ RereadRow(t) \/ SaveRow(t)
  \/ MoveWorker(t) \/ RelabelWorker(t)
  \/ ListReports(t) \/ (\E k \in Worker : AdoptKid(t, k)) \/ RereadKid(t) \/ SaveKid(t)
  \/ RemoveFromChart(t) \/ RemoveFromStore(t) \/ RevokeRemoved(t) \/ ListSchedules(t)
  \/ (\E s \in Schedule : DropSchedule(t, s)) \/ Announce(t) \/ LookUpRecipient(t)
  \/ PutSchedule(t)

Arrive(t) ==
  \E w \in Worker :
    \/ \E row \in Row : BeginConnect(t, w, row)
    \/ BeginTouch(t, w)
    \/ \E p \in Worker \cup {NoOne}, by \in Caller : BeginReassign(t, w, p, by)
    \/ \E r \in Role, by \in Caller : BeginSetRole(t, w, r, by)
    \/ \E cascade \in BOOLEAN : BeginDelete(t, w, cascade)
    \/ \E s \in Schedule, to \in Worker : BeginPutSchedule(t, s, w, to)

Process == Stop \/ LoadGraph \/ LoadChartFile \/ LoadCutShort

Next ==
  \/ \E t \in Thread :
       \/ Handle(t) \/ Arrive(t) \/ StoreFails(t)
       \/ \E s \in Schedule : DeleteSchedule(t, s)
       \/ \E w \in Worker : RevokeWorker(t, w)
  \/ Process

Spec == Init /\ [][Next]_vars

(* The scheduler of the Go runtime runs every request that is under way;   *)
(* nothing obliges a request to arrive, a call to fail or the process to   *)
(* stop.                                                                   *)
FairSpec == Spec /\ \A t \in Thread : WF_vars(Handle(t))

-----------------------------------------------------------------------------
(* Properties of every behaviour, requests overlapping or not.             *)

Quiet == up /\ \A t \in Thread : req[t].at = "idle"

(* server.go and graph.go: whatever requests interleave, nobody ever       *)
(* reports to themselves, neither in the chart nor in the table.           *)
NoSelfReport == NoSelfEdge(graph) /\ NoSelfEdge(store)

(* server.go:429-627: requests that overlap can leave a cycle in the chart *)
(* in one way only: a connect that puts back an ID which somebody in the   *)
(* chart still reports to.  Moves, deletes and reloads never close one.    *)
CycleNeedsReturn ==
  [][Acyclic(graph) /\ ~Acyclic(graph')
       => \E w \in Worker : /\ w \in Members(graph') \ Members(graph)
                            /\ Children(graph, w) # {}]_vars

(* graph.go:84-177, server.go: a walk loops, with the chart's mutex held   *)
(* and every later request waiting for it, only on a chart with a cycle.   *)
HangNeedsCycle == stuck # "no" => ~Acyclic(graph)

(* docs/design-notes/control-plane.md:17: the edges are acyclic by         *)
(* construction, because AddWorker refuses unknown parents and Reassign    *)
(* refuses cycles.                                                         *)
AcyclicByConstruction == Acyclic(graph)

(* server.go:338-379: whatever interleavings, failures and stops left in   *)
(* the table, cycles included, the process comes back with a forest, and   *)
(* with the table and the chart the same.                                  *)
RestartRepairs == [][~up /\ up' => Forest(graph') /\ store' = graph']_vars

(* server.go:635-648: an ID a delete has dealt with completely is revoked, *)
(* also when it went in the cascade of another, and after any restart.     *)
DeletedIsRevoked == \A w \in Worker : fate[w] = "deleted" => w \in revoked

(* Every request that is served comes to an end, the loops of DeleteWorker *)
(* over reports, IDs and schedules included, unless a walk got stuck on a  *)
(* cycle.                                                                  *)
RequestsEnd == \A t \in Thread : req[t].at # "idle" ~> req[t].at = "idle" \/ stuck # "no"

-----------------------------------------------------------------------------
(* Properties of the requests taken one at a time, and what the            *)
(* documentation promises without that condition.                          *)

Abstract == INSTANCE GraphApi WITH stuck <- stuck # "no"

(* One request at a time, the chart behaves as the abstract forest does:   *)
(* only leaves are ever removed, at every step of a delete and of a        *)
(* cascade, wherever it is cut short, and no walk loops.                   *)
ImplementsForest == Abstract!ForestSpec

(* server.go:591-681, docs/design-notes/control-plane.md:34: a worker that *)
(* was deleted is neither in the chart nor in the table, and does not come *)
(* back.  A delete that fails halfway is not covered: its answer is an     *)
(* error, and the cache may let through whom it has revoked by then.  Nor  *)
(* is a worker the chart file declares: a start on an empty table puts it  *)
(* back, revoked as it is.                                                 *)
DeletedStaysGone ==
  fails = 0 => \A w \in Worker \ Members(ChartFile) :
                 fate[w] = "deleted" => w \notin Members(graph) \cup Members(store)

(* docs/design-notes/control-plane.md:37: no schedule outlives a worker it *)
(* names.                                                                  *)
SchedulesNameMembers ==
  Quiet /\ fails = 0 /\ stops = 0 => \A s \in Schedule : schedules[s] \subseteq Members(graph)

(* server.go:444-483: between requests the table holds the chart, so that  *)
(* a restart changes nothing.                                              *)
StoreAgrees == Quiet /\ fails = 0 => store = graph
=============================================================================
