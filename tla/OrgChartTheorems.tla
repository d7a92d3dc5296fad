-------------------------- MODULE OrgChartTheorems --------------------------
(***************************************************************************)
(* Facts about charts, for every set of workers, roles and rows: what the  *)
(* line of a worker is, which operations keep a chart acyclic, that the    *)
(* walks of graph.go end on an acyclic chart, and that a rebuilt chart is  *)
(* a forest.                                                               *)
(***************************************************************************)
EXTENDS OrgChart, TLAPS

(* A member has a row; its parent is a worker or nobody. *)
LEMMA MemberRow ==
  ASSUME NEW g \in Chart, NEW w \in Members(g)
  PROVE  /\ w \in Worker
         /\ g[w] \in Row
         /\ Parent(g, w) \in Worker \cup {NoOne}
BY DEF Chart, Members, Row, Parent

(* What each operation does to the members of a chart and their parents. *)
LEMMA PutRowEdges ==
  ASSUME NEW g \in Chart, NEW w \in Worker, NEW row \in Row
  PROVE  /\ PutRow(g, w, row) \in Chart
         /\ Members(PutRow(g, w, row)) = Members(g) \cup {w}
         /\ Parent(PutRow(g, w, row), w) = row.reportsTo
         /\ \A v \in Members(g) \ {w} : Parent(PutRow(g, w, row), v) = Parent(g, v)
BY AbsentAssumption DEF PutRow, Chart, Members, Parent

LEMMA ReassignEdges ==
  ASSUME NEW g \in Chart, NEW w \in Members(g), NEW p \in Worker \cup {NoOne}
  PROVE  /\ Reassign(g, w, p) \in Chart
         /\ Members(Reassign(g, w, p)) = Members(g)
         /\ Parent(Reassign(g, w, p), w) = p
         /\ \A v \in Members(g) \ {w} : Parent(Reassign(g, w, p), v) = Parent(g, v)
BY AbsentAssumption DEF Reassign, Chart, Members, Parent, Row

LEMMA SetRoleEdges ==
  ASSUME NEW g \in Chart, NEW w \in Members(g), NEW r \in Role
  PROVE  /\ SetRole(g, w, r) \in Chart
         /\ Members(SetRole(g, w, r)) = Members(g)
         /\ \A v \in Members(g) : Parent(SetRole(g, w, r), v) = Parent(g, v)
BY AbsentAssumption DEF SetRole, Chart, Members, Parent, Row

LEMMA RemoveEdges ==
  ASSUME NEW g \in Chart, NEW w \in Worker
  PROVE  /\ Remove(g, w) \in Chart
         /\ Members(Remove(g, w)) = Members(g) \ {w}
         /\ \A v \in Members(g) \ {w} : Parent(Remove(g, w), v) = Parent(g, v)
BY DEF Remove, Chart, Members, Parent

-----------------------------------------------------------------------------

(* The line of v holds v and the parent of each of its members. *)
LEMMA LineClosed ==
  ASSUME NEW g \in Chart, NEW v \in Worker
  PROVE  /\ Line(g, v) \in SUBSET Worker
         /\ v \in Line(g, v)
         /\ ParentClosed(g, Line(g, v))
<1>1. Line(g, v) \in SUBSET Worker /\ v \in Line(g, v)
  BY DEF Line
<1>2. ASSUME NEW u \in Line(g, v) \cap Members(g), Parent(g, u) # NoOne
      PROVE  Parent(g, u) \in Line(g, v)
  <2>1. Parent(g, u) \in Worker
    BY <1>2, MemberRow
  <2>2. ASSUME NEW A \in SUBSET Worker, v \in A, ParentClosed(g, A)
        PROVE  Parent(g, u) \in A
    BY <1>2, <2>2 DEF Line, ParentClosed
  <2>3. QED
    BY <2>1, <2>2 DEF Line
<1>3. QED
  BY <1>1, <1>2 DEF ParentClosed

(* It is the least such set. *)
LEMMA LineLeast ==
  ASSUME NEW g \in Chart, NEW v \in Worker,
         NEW A \in SUBSET Worker, v \in A, ParentClosed(g, A)
  PROVE  Line(g, v) \subseteq A
BY DEF Line

(* The line of a worker at the root, or not in the chart, stops there. *)
LEMMA LineEnds ==
  ASSUME NEW g \in Chart, NEW v \in Worker,
         v \in Members(g) => Parent(g, v) = NoOne
  PROVE  Line(g, v) \subseteq {v}
<1>1. {v} \in SUBSET Worker /\ ParentClosed(g, {v})
  BY DEF ParentClosed
<1>2. QED
  BY <1>1, LineLeast

(* Otherwise the rest of it is the line of the parent. *)
LEMMA LineStep ==
  ASSUME NEW g \in Chart, NEW v \in Members(g), Parent(g, v) # NoOne
  PROVE  Line(g, v) \subseteq {v} \cup Line(g, Parent(g, v))
<1> DEFINE p == Parent(g, v)
           A == {v} \cup Line(g, p)
<1>1. v \in Worker /\ p \in Worker
  BY MemberRow
<1>2. A \in SUBSET Worker
  BY <1>1, LineClosed
<1>3. ParentClosed(g, A)
  <2>1. ParentClosed(g, Line(g, p)) /\ p \in Line(g, p)
    BY <1>1, LineClosed
  <2>2. QED
    BY <2>1 DEF ParentClosed
<1>4. QED
  BY <1>1, <1>2, <1>3, LineLeast

-----------------------------------------------------------------------------

(* Taking workers out, or changing anything but parents, closes no cycle. *)
LEMMA SubchartAcyclic ==
  ASSUME NEW g \in Chart, NEW h \in Chart, Acyclic(g),
         Members(h) \subseteq Members(g),
         \A w \in Members(h) : Parent(h, w) = Parent(g, w)
  PROVE  Acyclic(h)
BY DEF Acyclic

(* A new ID that nobody reports to closes no cycle. *)
LEMMA AddAcyclic ==
  ASSUME NEW g \in Chart, NEW w \in Worker, NEW row \in Row,
         Acyclic(g), w \notin Members(g), Children(g, w) = {},
         row.reportsTo # w
  PROVE  Acyclic(PutRow(g, w, row))
<1> DEFINE h == PutRow(g, w, row)
<1>1. /\ h \in Chart
      /\ Members(h) = Members(g) \cup {w}
      /\ Parent(h, w) = row.reportsTo
      /\ \A v \in Members(g) : Parent(h, v) = Parent(g, v) /\ Parent(g, v) # w
  BY PutRowEdges DEF Children
<1>2. SUFFICES ASSUME NEW S \in SUBSET Members(h), S # {}
               PROVE  \E v \in S : Parent(h, v) \notin S
  BY DEF Acyclic
<1>3. CASE S \ {w} = {}
  BY <1>1, <1>2, <1>3
<1>4. CASE S \ {w} # {}
  <2>1. PICK v \in S \ {w} : Parent(g, v) \notin S \ {w}
    BY <1>1, <1>4 DEF Acyclic
  <2>2. QED
    BY <1>1, <2>1
<1>5. QED
  BY <1>3, <1>4

(* A move that the cycle check lets through closes no cycle, whether or    *)
(* not the chart has dangling edges.                                       *)
LEMMA ReassignAcyclic ==
  ASSUME NEW g \in Chart, NEW w \in Worker, NEW p \in Worker \cup {NoOne},
         Acyclic(g), CanReassign(g, w, p)
  PROVE  Acyclic(Reassign(g, w, p))
<1> DEFINE h == Reassign(g, w, p)
<1>1. /\ w \in Members(g)
      /\ Members(h) = Members(g)
      /\ Parent(h, w) = p
      /\ \A v \in Members(g) \ {w} : Parent(h, v) = Parent(g, v)
  BY ReassignEdges DEF CanReassign
<1>2. SUFFICES ASSUME NEW S \in SUBSET Members(g), S # {}
               PROVE  \E v \in S : Parent(h, v) \notin S
  BY <1>1 DEF Acyclic
<1>3. CASE w \notin S
  BY <1>1, <1>2, <1>3 DEF Acyclic
<1>4. CASE w \in S /\ p \notin S
  BY <1>1, <1>4
<1>5. CASE w \in S /\ p \in S
  <2>1. p \in Worker /\ w \notin Line(g, p)
    BY <1>5, NoOneAssumption DEF CanReassign, HasAncestor, Members
  <2>2. p \in Line(g, p) /\ ParentClosed(g, Line(g, p))
    BY <2>1, LineClosed
  <2>3. PICK v \in S \cap Line(g, p) : Parent(g, v) \notin S \cap Line(g, p)
    BY <1>5, <2>2 DEF Acyclic
  <2>4. Parent(g, v) \in Line(g, p) \cup {NoOne}
    BY <2>2, <2>3 DEF ParentClosed
  <2>5. NoOne \notin S
    BY NoOneAssumption DEF Members
  <2>6. v # w /\ Parent(g, v) \notin S
    BY <2>1, <2>3, <2>4, <2>5
  <2>7. QED
    BY <1>1, <2>3, <2>6
<1>6. QED
  BY <1>3, <1>4, <1>5

-----------------------------------------------------------------------------

(* The cycle check of Reassign returns on an acyclic chart. *)
LEMMA ClimbEnds ==
  ASSUME NEW g \in Chart, NEW v \in Worker, Acyclic(g)
  PROVE  ~ClimbLoops(g, v)
<1>1. v \in Line(g, v)
  BY LineClosed
<1>2. QED
  BY <1>1 DEF ClimbLoops, Acyclic

(* And so does the search of Descendants. *)
LEMMA DescentEnds ==
  ASSUME NEW g \in Chart, NEW w \in Members(g), Acyclic(g)
  PROVE  ~DescentLoops(g, w)
<1>1. SUFFICES ASSUME Parent(g, w) # NoOne, w \in Line(g, Parent(g, w))
               PROVE  FALSE
  BY DEF DescentLoops, Descendants
<1> DEFINE p == Parent(g, w)
           S == {x \in Worker : w \in Line(g, x)}
<1>2. w \in Worker /\ p \in Worker
  BY <1>1, MemberRow
<1>3. p \in S /\ w \in S
  BY <1>1, <1>2, LineClosed
<1>4. ASSUME NEW x \in S
      PROVE  x \in Members(g) /\ Parent(g, x) \in S
  <2>1. CASE x = w
    BY <1>3, <2>1
  <2>2. CASE x # w
    <3>1. x \in Members(g) /\ Parent(g, x) # NoOne
      BY <2>2, LineEnds
    <3>2. Parent(g, x) \in Worker
      BY <3>1, MemberRow
    <3>3. w \in Line(g, Parent(g, x))
      BY <2>2, <3>1, LineStep
    <3>4. QED
      BY <3>1, <3>2, <3>3
  <2>3. QED
    BY <2>1, <2>2
<1>5. QED
  BY <1>3, <1>4 DEF Acyclic

-----------------------------------------------------------------------------

(* Neither walk of graph.go loops on a forest. *)
LEMMA NoHang ==
  ASSUME NEW g \in Chart, Acyclic(g)
  PROVE  /\ \A w, p : ~ReassignHangs(g, w, p)
         /\ \A w \in Members(g) : ~DescentLoops(g, w)
<1>1. ASSUME NEW w, NEW p, ReassignHangs(g, w, p)
      PROVE  FALSE
  <2>1. p \in Worker /\ ClimbLoops(g, p)
    BY <1>1 DEF ReassignHangs, Members
  <2>2. QED
    BY <2>1, ClimbEnds
<1>2. QED
  BY <1>1, DescentEnds

(* The operations keep a forest a forest, removals if they are of leaves. *)
LEMMA AddForest ==
  ASSUME NEW g \in Chart, NEW w \in Worker, NEW row \in Row, Forest(g), CanAdd(g, w, row)
  PROVE  Forest(PutRow(g, w, row))
<1> DEFINE h == PutRow(g, w, row)
<1>1. /\ w \notin Members(g) /\ Children(g, w) = {} /\ row.reportsTo # w
      /\ row.reportsTo \in Members(g) \cup {NoOne}
  BY NoOneAssumption DEF CanAdd, Forest, NoDangling, Children
<1>2. Acyclic(h)
  BY <1>1, AddAcyclic DEF Forest
<1>3. NoDangling(h)
  BY <1>1, PutRowEdges DEF Forest, NoDangling
<1>4. QED
  BY <1>2, <1>3 DEF Forest

LEMMA ReassignForest ==
  ASSUME NEW g \in Chart, NEW w \in Worker, NEW p \in Worker \cup {NoOne},
         Forest(g), CanReassign(g, w, p)
  PROVE  Forest(Reassign(g, w, p))
<1>1. w \in Members(g) /\ p \in Members(g) \cup {NoOne}
  BY DEF CanReassign
<1>2. NoDangling(Reassign(g, w, p))
  BY <1>1, ReassignEdges DEF Forest, NoDangling
<1>3. QED
  BY <1>2, ReassignAcyclic DEF Forest

LEMMA SetRoleForest ==
  ASSUME NEW g \in Chart, NEW w \in Members(g), NEW r \in Role, Forest(g)
  PROVE  Forest(SetRole(g, w, r))
BY SetRoleEdges, SubchartAcyclic DEF Forest, NoDangling

LEMMA RemoveLeafForest ==
  ASSUME NEW g \in Chart, NEW w \in Worker, Forest(g), Children(g, w) = {}
  PROVE  Forest(Remove(g, w))
<1>1. NoDangling(Remove(g, w))
  BY RemoveEdges DEF Forest, NoDangling, Children
<1>2. QED
  BY <1>1, RemoveEdges, SubchartAcyclic DEF Forest

-----------------------------------------------------------------------------

(* Whatever the table holds, the chart loadGraph builds from it is a       *)
(* forest of the same workers.                                             *)
LEMMA RebuildForest ==
  ASSUME NEW g \in Chart
  PROVE  /\ Rebuild(g) \in Chart
         /\ Members(Rebuild(g)) = Members(g)
         /\ Forest(Rebuild(g))
<1> DEFINE h == Rebuild(g)
<1>1. Ungrounded(g) \subseteq Members(g) /\ Grounded(g) \subseteq Members(g)
  BY DEF Ungrounded, Grounded
<1>2. /\ h \in Chart
      /\ Members(h) = Members(g)
      /\ \A w \in Ungrounded(g) : Parent(h, w) = NoOne
      /\ \A w \in Grounded(g) : Parent(h, w) = Parent(g, w)
  BY <1>1, AbsentAssumption DEF Rebuild, Chart, Members, Parent, Row, Ungrounded
<1>3. ASSUME NEW w \in Grounded(g), Parent(g, w) # NoOne
      PROVE  Parent(g, w) \in Members(g)
  <2>1. w \in Members(g) /\ w \in Worker /\ Parent(g, w) \in Worker
    BY <1>1, <1>3, MemberRow
  <2>2. PICK u \in Line(g, w) \cap Members(g) : Parent(g, u) = NoOne
    BY DEF Grounded
  <2>3. CASE Parent(g, w) \notin Members(g)
    <3>1. Line(g, w) \subseteq {w} \cup Line(g, Parent(g, w))
      BY <1>3, <2>1, LineStep
    <3>2. Line(g, Parent(g, w)) \subseteq {Parent(g, w)}
      BY <2>1, <2>3, LineEnds
    <3>3. QED
      BY <1>3, <2>2, <2>3, <3>1, <3>2
  <2>4. QED
    BY <2>3
<1>4. NoDangling(h)
  BY <1>2, <1>3 DEF NoDangling, Ungrounded
<1>5. Acyclic(h)
  <2>1. SUFFICES ASSUME NEW S \in SUBSET Members(g), S # {},
                        \A w \in S : Parent(h, w) \in S
                 PROVE  FALSE
    BY <1>2 DEF Acyclic
  <2>2. NoOne \notin S
    BY NoOneAssumption DEF Members
  <2>3. \A w \in S : w \in Grounded(g) /\ Parent(g, w) \in S
    BY <1>2, <2>1, <2>2 DEF Ungrounded
  <2>4. PICK w \in S : TRUE
    BY <2>1
  <2>5. PICK u \in Line(g, w) \cap Members(g) : Parent(g, u) = NoOne
    BY <2>3 DEF Grounded
  <2>6. S \in SUBSET Worker /\ w \in Worker /\ ParentClosed(g, S)
    BY <2>3 DEF ParentClosed, Members
  <2>7. Line(g, w) \subseteq S
    BY <2>4, <2>6, LineLeast
  <2>8. QED
    BY <2>2, <2>3, <2>5, <2>7
<1>6. QED
  BY <1>2, <1>4, <1>5 DEF Forest
=============================================================================
