----------------------------- MODULE ChartWalks -----------------------------
(***************************************************************************)
(* OrgChart describes the walks of graph.go and the reload of server.go by *)
(* what they compute.  Here the loops are written out as the code runs     *)
(* them, round by round, and compared with those descriptions on any       *)
(* chart: forests, charts with dangling edges and charts with cycles.  IDs *)
(* are numbers, in the order ListWorkers returns them.  A loop that is     *)
(* still running after Fuel rounds, one more than there are IDs, runs for  *)
(* ever.                                                                   *)
(***************************************************************************)
EXTENDS OrgChart, Sequences

Fuel == Cardinality(Worker) + 1

Least(S) == CHOOSE n \in S : \A m \in S : n <= m

(* What rounds of a loop make of the values its variables begin with. *)
Iterated(Round, from, rounds) ==
  LET After[n \in 0 .. rounds] == IF n = 0 THEN from ELSE Round[After[n - 1]]
  IN After[rounds]

(* Mutant of ClimbFor: only the first parent is looked at. *)
ClimbOnce(g, v, w, rounds) == IF Parent(g, v) = w THEN "yes" ELSE "no"

(* hasAncestorLocked: "yes" and "no" return; until then it is climbing. *)
Climb == [cur : Worker, answer : {"yes", "no", "climbing"}]

ClimbRound(g, w) ==
  [c \in Climb |->
     LET parent == Parent(g, c.cur)
     IN IF c.answer # "climbing" THEN c
        ELSE IF parent = NoOne THEN [c EXCEPT !.answer = "no"]
        ELSE IF parent = w THEN [c EXCEPT !.answer = "yes"]
        ELSE IF parent \notin Members(g) THEN [c EXCEPT !.answer = "no"]
        ELSE [c EXCEPT !.cur = parent]]

ClimbFor(g, v, w, rounds) ==
  Iterated(ClimbRound(g, w), [cur |-> v, answer |-> "climbing"], rounds).answer

(* Mutant of Levels: the direct reports alone. *)
FirstLevel(g, w, rounds) == [n \in 1 .. rounds |-> IF n = 1 THEN Children(g, w) ELSE {}]

(* Descendants: level by level, with no record of who was seen; the search *)
(* ends with the first level that is empty.                                *)
NextLevel(g) == [frontier \in SUBSET Worker |-> UNION {Children(g, v) : v \in frontier}]

Levels(g, w, rounds) == [n \in 1 .. rounds |-> Iterated(NextLevel(g), {w}, n)]

(* Ancestors: the same climb as the first, with a seen-set: what it listed *)
(* and where it began.                                                     *)
AncestorsRound(g, w) ==
  [up \in Seq(Worker) |->
     LET parent == Parent(g, IF up = << >> THEN w ELSE up[Len(up)])
     IN IF parent \in Members(g) \ ({w} \cup {up[i] : i \in DOMAIN up})
        THEN Append(up, parent) ELSE up]

AncestorsFrom(g, w, rounds) == Iterated(AncestorsRound(g, w), << >>, rounds)

(* One pass of loadGraph's loop: rows by ascending ID, each added if its   *)
(* parent is in the chart by then.                                         *)
AddNext(rows) ==
  [at \in [pending : SUBSET Worker, chart : Chart] |->
     LET w == Least(at.pending)
     IN IF at.pending = {} THEN at
        ELSE [pending |-> at.pending \ {w},
              chart   |-> IF CanAdd(at.chart, w, rows[w]) THEN PutRow(at.chart, w, rows[w])
                          ELSE at.chart]]

OnePass(rows) ==
  [chart \in Chart |->
     Iterated(AddNext(rows), [pending |-> Members(rows) \ Members(chart), chart |-> chart],
              Cardinality(Worker)).chart]

Rerooted(rows, chart) ==
  [w \in Worker |-> IF w \in Members(rows) \ Members(chart)
                      THEN [rows[w] EXCEPT !.reportsTo = NoOne] ELSE chart[w]]

(* Mutant of Reload: what the first pass leaves is re-rooted. *)
ReloadInOnePass(rows, passes) == Rerooted(rows, OnePass(rows)[EmptyChart])

(* Passes until one adds nothing; then the rest are re-rooted. *)
Reload(rows, passes) == Rerooted(rows, Iterated(OnePass(rows), EmptyChart, passes))

-----------------------------------------------------------------------------
(* graph.go:165-177: the loop answers as HasAncestor says, and fails to    *)
(* return exactly when ClimbLoops says so and the answer is not found on   *)
(* the way.                                                                *)
ClimbAgrees(g) ==
  \A v, w \in Members(g) : v # w =>
    LET answer == ClimbFor(g, v, w, Fuel)
    IN  /\ (answer = "yes") <=> HasAncestor(g, v, w)
        /\ (answer = "climbing") <=> ~HasAncestor(g, v, w) /\ ClimbLoops(g, v)

(* graph.go:135-163: the search ends exactly when w is not below itself,   *)
(* and then visits every descendant once, so that the reversed list names  *)
(* every worker before the one it reports to.                              *)
DescentAgrees(g) ==
  \A w \in Members(g) :
    LET levels == Levels(g, w, Fuel)
        ends   == levels[Fuel] = {}
    IN  /\ ends <=> ~DescentLoops(g, w)
        /\ ends => /\ UNION {levels[i] : i \in DOMAIN levels} = Descendants(g, w)
                   /\ \A i, j \in DOMAIN levels : i # j => levels[i] \cap levels[j] = {}

(* graph.go:209-230: unlike the other two walks this one always ends, and  *)
(* it lists each member of the line above w once, nearest first.           *)
AncestorsAgree(g) ==
  \A w \in Members(g) :
    LET up == AncestorsFrom(g, w, Fuel)
    IN  /\ up = AncestorsFrom(g, w, Fuel - 1)
        /\ {up[i] : i \in DOMAIN up} = (Line(g, w) \cap Members(g)) \ {w}
        /\ \A i \in DOMAIN up : up[i] = Parent(g, IF i = 1 THEN w ELSE up[i - 1])
        /\ \A i, j \in DOMAIN up : i # j => up[i] # up[j]

(* server.go:338-379: the passes over the rows, whatever the IDs' order,   *)
(* come to an end and rebuild the chart Rebuild describes, a forest.       *)
ReloadAgrees(rows) ==
  LET rebuilt == Reload(rows, Fuel)
  IN  rebuilt = Reload(rows, Fuel - 1) /\ rebuilt = Rebuild(rows) /\ Forest(rebuilt)
=============================================================================
