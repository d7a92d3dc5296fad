------------------------------ MODULE OrgChart ------------------------------
(***************************************************************************)
(* The org chart of internal/orgchart/graph.go: a map from worker IDs to   *)
(* rows, each with the ID it reports to.  Everything here is a function of *)
(* a chart, because three modules apply the operations to charts of their  *)
(* own: GraphApi (the Graph on its own), ControlPlane (the in-memory chart *)
(* and the workers table) and the proofs.                                  *)
(***************************************************************************)
EXTENDS Naturals, FiniteSets

CONSTANTS Worker,   \* worker IDs
          Role,     \* role labels
          NoOne,    \* the empty reports_to: the worker is at the root
          Absent    \* the chart has no row for this ID

ASSUME NoOneAssumption == NoOne \notin Worker

(* A Worker struct, without the fields no step here reads: keys, times,    *)
(* status and metadata travel with the row and decide nothing.             *)
Row == [reportsTo : Worker \cup {NoOne}, role : Role]

ASSUME AbsentAssumption == Absent \notin Row

Chart == [Worker -> Row \cup {Absent}]

EmptyChart == [w \in Worker |-> Absent]

Members(g) == {w \in Worker : g[w] # Absent}

Parent(g, w) == g[w].reportsTo

PutRow(g, w, row) == [g EXCEPT ![w] = row]

-----------------------------------------------------------------------------
(* Walking up the chart.                                                   *)

(* Every member of A has its parent in A, or no parent. *)
ParentClosed(g, A) == \A v \in A \cap Members(g) : Parent(g, v) \in A \cup {NoOne}

(* v, whom v reports to, whom that one reports to, and so on: the IDs      *)
(* hasAncestorLocked looks at when it starts from v.                       *)
Line(g, v) == {u \in Worker : \A A \in SUBSET Worker : v \in A /\ ParentClosed(g, A) => u \in A}

(* Mutant of ClimbLoops: the climb does not stop at a root. *)
ClimbsPastRoot(g, v) == Line(g, v) \subseteq Members(g)

(* The climb from v comes back to where it has been: it never reaches a    *)
(* root, nor an ID the chart does not have.                                *)
ClimbLoops(g, v) == \A u \in Line(g, v) : u \in Members(g) /\ Parent(g, u) \in Line(g, v)

(* hasAncestorLocked(v, w) returns true; v is a member and v # w. *)
HasAncestor(g, v, w) == w \in Line(g, v)

Children(g, w) == {v \in Members(g) : Parent(g, v) = w}

Descendants(g, w) == {v \in Members(g) : Parent(g, v) # NoOne /\ w \in Line(g, Parent(g, v))}

(* The breadth-first search of Descendants meets w again below w. *)
DescentLoops(g, w) == w \in Descendants(g, w)

-----------------------------------------------------------------------------
(* The operations.  Each Can* is the conjunction of the early returns.     *)

CanAdd(g, w, row) ==
  /\ w \notin Members(g)
  /\ row.reportsTo \in Members(g) \cup {NoOne}

(* Mutant of CanReassign: the move is not checked for a cycle. *)
CanReassignAnywhere(g, w, p) == {w, p} \ {NoOne} \subseteq Members(g)

(* A move the code completes: neither refused nor still climbing. *)
CanReassign(g, w, p) ==
  /\ w \in Members(g)
  /\ p # NoOne => /\ p \in Members(g) \ {w}
                  /\ ~HasAncestor(g, p, w)
                  /\ ~ClimbLoops(g, p)

(* The cycle check climbs for ever, with the chart's mutex held. *)
ReassignHangs(g, w, p) ==
  /\ {w, p} \subseteq Members(g)
  /\ p # w
  /\ ~HasAncestor(g, p, w)
  /\ ClimbLoops(g, p)

Reassign(g, w, p) == [g EXCEPT ![w].reportsTo = p]

SetRole(g, w, r) == [g EXCEPT ![w].role = r]

(* Mutant of Remove: the row stays, without its edge. *)
RemoveEdgeOnly(g, w) == [g EXCEPT ![w].reportsTo = Absent]

Remove(g, w) == [g EXCEPT ![w] = Absent]

-----------------------------------------------------------------------------
(* Rebuilding a chart from the rows of the workers table (loadGraph).      *)

(* Workers whose line reaches a worker at the root: the rows the retry     *)
(* loop of loadGraph manages to add, in whatever order it meets them.      *)
Grounded(g) == {w \in Members(g) : \E u \in Line(g, w) \cap Members(g) : Parent(g, u) = NoOne}

Ungrounded(g) == Members(g) \ Grounded(g)

(* Mutant of Rebuild: rows that cannot be placed keep the parent they have. *)
RebuildAsStored(g) == g

(* Every row the loop could not place goes to the root, those that hang    *)
(* below a broken edge included.                                           *)
Rebuild(g) ==
  [w \in Worker |-> IF w \in Ungrounded(g) THEN [g[w] EXCEPT !.reportsTo = NoOne] ELSE g[w]]

-----------------------------------------------------------------------------
(* What a chart should be.                                                 *)

(* No group of workers report only to each other. *)
Acyclic(g) == \A S \in SUBSET Members(g) : S # {} => \E w \in S : Parent(g, w) \notin S

(* Nobody reports to an ID the chart does not have. *)
NoDangling(g) == \A w \in Members(g) : Parent(g, w) \in Members(g) \cup {NoOne}

Forest(g) == Acyclic(g) /\ NoDangling(g)

(* Nobody reports to themselves. *)
NoSelfEdge(g) == \A w \in Members(g) : Parent(g, w) # w
=============================================================================
