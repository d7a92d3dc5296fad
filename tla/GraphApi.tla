------------------------------ MODULE GraphApi ------------------------------
(***************************************************************************)
(* The Graph type of internal/orgchart/graph.go as its callers see it.     *)
(* Every method holds g.mu for its whole body, so each is one step.        *)
(*                                                                         *)
(* Spec lets a caller use the methods in any order.  ForestSpec adds the   *)
(* one thing Server.DeleteWorker sets out to guarantee: nobody is removed  *)
(* while somebody reports to them; and it lets the process stop and come   *)
(* back with a chart it has rebuilt.  It is the abstract specification the *)
(* control plane is checked to implement when its requests do not overlap. *)
(***************************************************************************)
EXTENDS OrgChart

VARIABLES graph,  \* Graph.workers
          stuck   \* a method is looping with the mutex held: none can change the chart

vars == <<graph, stuck>>

TypeOK == graph \in Chart /\ stuck \in BOOLEAN

Init == graph = EmptyChart /\ stuck = FALSE

AddWorker(w, row) ==
  /\ ~stuck
  /\ CanAdd(graph, w, row)
  /\ graph' = PutRow(graph, w, row)
  /\ UNCHANGED stuck

ReassignWorker(w, p) ==
  /\ ~stuck
  /\ \/ /\ CanReassign(graph, w, p)
        /\ graph' = Reassign(graph, w, p)
        /\ UNCHANGED stuck
     \/ /\ ReassignHangs(graph, w, p)
        /\ stuck' = TRUE
        /\ UNCHANGED graph

SetWorkerRole(w, r) ==
  /\ ~stuck
  /\ w \in Members(graph)
  /\ graph' = SetRole(graph, w, r)
  /\ UNCHANGED stuck

RemoveWorker(w) ==
  /\ ~stuck
  /\ w \in Members(graph)
  /\ graph' = Remove(graph, w)
  /\ UNCHANGED stuck

(* Descendants leaves the chart alone, but its search may not end. *)
ListDescendants(w) ==
  /\ ~stuck
  /\ w \in Members(graph)
  /\ IF DescentLoops(graph, w) THEN stuck' = TRUE ELSE UNCHANGED stuck
  /\ UNCHANGED graph

Change(w) ==
  \/ \E row \in Row : AddWorker(w, row)
  \/ \E p \in Worker \cup {NoOne} : ReassignWorker(w, p)
  \/ \E r \in Role : SetWorkerRole(w, r)
  \/ ListDescendants(w)

Next == \E w \in Worker : Change(w) \/ RemoveWorker(w)

Spec == Init /\ [][Next]_vars

RemoveLeaf(w) == Children(graph, w) = {} /\ RemoveWorker(w)

(* The process stops; whatever chart it comes back with is a forest. *)
Stop == graph' = EmptyChart /\ stuck' = FALSE

Start ==
  /\ graph = EmptyChart
  /\ graph' \in {g \in Chart : Forest(g)}
  /\ UNCHANGED stuck

ForestNext ==
  \/ \E w \in Worker : Change(w) \/ RemoveLeaf(w)
  \/ Stop
  \/ Start

ForestInit == graph \in {g \in Chart : Forest(g)} /\ stuck = FALSE

ForestSpec == ForestInit /\ [][ForestNext]_vars

-----------------------------------------------------------------------------

(* When nobody is removed from under their reports, the chart is a forest  *)
(* and every method returns: the two walks without a seen-set, the cycle   *)
(* check of Reassign and the search of Descendants, always end.            *)
ForestAndLive == Forest(graph) /\ ~stuck

(* The only step that can close a cycle is AddWorker putting back an ID    *)
(* that somebody in the chart still reports to.  Reassign never does it,   *)
(* not even on a chart with dangling edges.                                *)
CycleNeedsReturn ==
  [][Acyclic(graph) /\ ~Acyclic(graph')
       => \E w \in Worker : /\ w \in Members(graph') \ Members(graph)
                            /\ Children(graph, w) # {}]_vars

(* A method can only get lost on a chart that already has a cycle. *)
StuckNeedsCycle == [][Acyclic(graph) => ~stuck']_vars
=============================================================================
