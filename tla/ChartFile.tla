------------------------------ MODULE ChartFile ------------------------------
(***************************************************************************)
(* The chart a server may begin with: the checks of a YAML file            *)
(* (internal/orgchart/chartfile.go) and the passes that add its workers to *)
(* an empty chart (internal/server/server.go loadOrgChartFile).            *)
(*                                                                         *)
(* A file is a sequence of entries; NoOne is the empty string.             *)
(***************************************************************************)
EXTENDS ChartWalks

Entry == [id : Worker \cup {NoOne}, reportsTo : Worker \cup {NoOne}, role : Role]

RowOf(entry) == [reportsTo |-> entry.reportsTo, role |-> entry.role]

-----------------------------------------------------------------------------
(* chartfile.go *)

(* indexUniqueIDs: the names that are in the file, the entries without one *)
(* and those that come after another of their name.                        *)
Declared(file)   == {file[i].id : i \in DOMAIN file} \ {NoOne}
Unnamed(file)    == {i \in DOMAIN file : file[i].id = NoOne}
Duplicated(file) == {i \in DOMAIN file : \E j \in 1 .. i - 1 : file[j].id = file[i].id} \ Unnamed(file)

(* checkReportsToResolve: of those with a name and a parent. *)
Placed(file) == {i \in DOMAIN file : NoOne \notin {file[i].id, file[i].reportsTo}}

Unresolved(file) ==
  {i \in Placed(file) : file[i].reportsTo = file[i].id \/ file[i].reportsTo \notin Declared(file)}

(* The edges detectCycles walks: of a name, the first that resolves. *)
Edges(file) ==
  LET Resolving(w) == {i \in Placed(file) \ Unresolved(file) : file[i].id = w}
  IN [w \in Worker |-> IF Resolving(w) = {} THEN Absent ELSE RowOf(file[Least(Resolving(w))])]

(* Mutant of MarkCycleFrom: with what leads to the cycle. *)
MarkPath(path, entry) == {path[i] : i \in DOMAIN path}

(* The path from where it was entered. *)
MarkCycleFrom(path, entry) ==
  {path[i] : i \in Least({i \in DOMAIN path : path[i] = entry}) .. Len(path)}

(* One walk: up the edges until there is none, or an ID that was seen; on  *)
(* the path itself it closes a cycle.  cur is NoOne when it has ended.     *)
WalkRound(edges, done) ==
  [at \in [path : Seq(Worker), cur : Worker \cup {NoOne}, cycle : SUBSET Worker] |->
     IF at.cur = NoOne THEN at
     ELSE IF at.cur \in done THEN [at EXCEPT !.cur = NoOne]
     ELSE IF \E i \in DOMAIN at.path : at.path[i] = at.cur
       THEN [at EXCEPT !.cur = NoOne, !.cycle = MarkCycleFrom(at.path, at.cur)]
     ELSE [at EXCEPT !.path = Append(@, at.cur),
                     !.cur  = IF @ \in Members(edges) THEN Parent(edges, @) ELSE NoOne]]

WalkUp(edges, done, from) ==
  Iterated(WalkRound(edges, done), [path |-> << >>, cur |-> from, cycle |-> {}], Fuel)

(* From every ID that has an edge, in the order the map is walked in,      *)
(* which is any.                                                           *)
Orders(file) ==
  LET IDs == Members(Edges(file))
  IN {order \in [1 .. Cardinality(IDs) -> IDs] : \A w \in IDs : \E i \in DOMAIN order : order[i] = w}

NextWalk(file, order) ==
  [at \in [n : 0 .. Len(order), done : SUBSET Worker, cycles : SUBSET Worker] |->
     LET from == order[at.n + 1]
         walk == WalkUp(Edges(file), at.done, from)
     IN IF at.n = Len(order) THEN at
        ELSE IF from \in at.done THEN [at EXCEPT !.n = @ + 1]
        ELSE [n      |-> at.n + 1,
              done   |-> at.done \cup {walk.path[i] : i \in DOMAIN walk.path},
              cycles |-> at.cycles \cup walk.cycle]]

DetectCycles(file, order) ==
  Iterated(NextWalk(file, order), [n |-> 0, done |-> {}, cycles |-> {}], Len(order)).cycles

(* ParseChartFile *)
Accepted(file, order) ==
  Unnamed(file) \cup Duplicated(file) \cup Unresolved(file) \cup DetectCycles(file, order) = {}

-----------------------------------------------------------------------------
(* server.go: a pass adds, in the order of the file, whoever's parent is   *)
(* in the chart by then; it is repeated on the others until none is left.  *)
(* An entry with no name or one that is taken ends it, as does a pass that *)
(* adds nothing.                                                           *)
LoadNext(file) ==
  [at \in [todo : SUBSET DOMAIN file, deferred : SUBSET DOMAIN file, chart : Chart, failed : BOOLEAN] |->
     LET i == Least(at.todo)
         w == file[i].id
     IN IF at.todo = {} \/ at.failed THEN at
        ELSE IF w = NoOne \/ w \in Members(at.chart) THEN [at EXCEPT !.failed = TRUE]
        ELSE IF CanAdd(at.chart, w, RowOf(file[i]))
          THEN [at EXCEPT !.todo = @ \ {i}, !.chart = PutRow(@, w, RowOf(file[i]))]
          ELSE [at EXCEPT !.todo = @ \ {i}, !.deferred = @ \cup {i}]]

LoadPass(file) ==
  [at \in [pending : SUBSET DOMAIN file, chart : Chart, failed : BOOLEAN] |->
     LET pass == Iterated(LoadNext(file),
                          [todo |-> at.pending, deferred |-> {}, chart |-> at.chart, failed |-> FALSE],
                          Len(file))
     IN IF at.failed \/ at.pending = {} THEN at
        ELSE [pending |-> pass.deferred, chart |-> pass.chart,
              failed  |-> pass.failed \/ pass.deferred = at.pending]]

LoadOrgChartFile(file) ==
  Iterated(LoadPass(file), [pending |-> DOMAIN file, chart |-> EmptyChart, failed |-> FALSE],
           Len(file) + 1)

-----------------------------------------------------------------------------
(* Whatever order the map is walked in, exactly the IDs on a cycle are     *)
(* reported, and not those that only lead to one.                          *)
CyclesAreNamed(file) ==
  \A order \in Orders(file) :
    DetectCycles(file, order) = {w \in Members(Edges(file)) : DescentLoops(Edges(file), w)}

(* A file that is accepted is loaded whole, to a forest, in whatever order *)
(* its entries come; and no other file would be: what the checks of the    *)
(* file refuse the passes could not load either.                           *)
AcceptedLoads(file) ==
  LET loaded == LoadOrgChartFile(file)
  IN /\ \A order \in Orders(file) : Accepted(file, order) <=> ~loaded.failed
     /\ ~loaded.failed => /\ Members(loaded.chart) = Declared(file)
                          /\ \A i \in DOMAIN file : loaded.chart[file[i].id] = RowOf(file[i])
                          /\ Forest(loaded.chart)
=============================================================================
