--------------------------- MODULE GraphApiProofs ---------------------------
(***************************************************************************)
(* The properties of GraphApi for every set of workers and roles; then the *)
(* loops of ChartWalks and ChartFile: on every chart, and for every file,  *)
(* they compute what OrgChart says.                                        *)
(***************************************************************************)
EXTENDS GraphApi, ChartFile, OrgChartTheorems, FiniteSetTheorems, SequenceTheorems,
        WellFoundedInduction, NaturalsInduction

(* Every method keeps the variables in their types. *)
LEMMA ChangeType ==
  ASSUME TypeOK, NEW w \in Worker, Change(w) \/ RemoveWorker(w)
  PROVE  TypeOK'
<1>1. ASSUME NEW row \in Row, AddWorker(w, row)
      PROVE  TypeOK'
  BY <1>1, PutRowEdges DEF AddWorker, TypeOK
<1>2. ASSUME NEW p \in Worker \cup {NoOne}, ReassignWorker(w, p)
      PROVE  TypeOK'
  <2>1. CASE CanReassign(graph, w, p) /\ graph' = Reassign(graph, w, p) /\ UNCHANGED stuck
    BY <2>1, ReassignEdges DEF CanReassign, TypeOK
  <2>2. CASE stuck' = TRUE /\ UNCHANGED graph
    BY <2>2 DEF TypeOK
  <2>3. QED
    BY <1>2, <2>1, <2>2 DEF ReassignWorker
<1>3. ASSUME NEW r \in Role, SetWorkerRole(w, r)
      PROVE  TypeOK'
  BY <1>3, SetRoleEdges DEF SetWorkerRole, TypeOK
<1>4. CASE ListDescendants(w)
  BY <1>4 DEF ListDescendants, TypeOK
<1>5. CASE RemoveWorker(w)
  BY <1>5, RemoveEdges DEF RemoveWorker, TypeOK
<1>6. QED
  BY <1>1, <1>2, <1>3, <1>4, <1>5 DEF Change

(* graph.go: each method leaves a map from IDs to rows. *)
THEOREM ApiTypes == Spec => []TypeOK
<1>1. Init => TypeOK
  BY DEF Init, TypeOK, Chart, EmptyChart
<1>2. TypeOK /\ [Next]_vars => TypeOK'
  <2>1. CASE Next
    BY <2>1, ChangeType DEF Next
  <2>2. CASE UNCHANGED vars
    BY <2>2 DEF vars, TypeOK
  <2>3. QED
    BY <2>1, <2>2
<1>3. QED
  BY <1>1, <1>2, PTL DEF Spec

-----------------------------------------------------------------------------

(* What an operation other than AddWorker does to an acyclic chart. *)
LEMMA ChangeAcyclic ==
  ASSUME TypeOK, Acyclic(graph), NEW w \in Worker, Change(w) \/ RemoveWorker(w),
         \A v \in Members(graph') \ Members(graph) : Children(graph, v) = {}
  PROVE  Acyclic(graph')
<1>0. graph \in Chart
  BY DEF TypeOK
<1>1. ASSUME NEW row \in Row, AddWorker(w, row)
      PROVE  Acyclic(graph')
  <2>1. w \notin Members(graph) /\ row.reportsTo # w /\ graph' = PutRow(graph, w, row)
    BY <1>1, NoOneAssumption DEF AddWorker, CanAdd
  <2>2. Members(graph') = Members(graph) \cup {w}
    BY <1>0, <2>1, PutRowEdges
  <2>3. Children(graph, w) = {}
    BY <2>1, <2>2
  <2>4. QED
    BY <1>0, <2>1, <2>3, AddAcyclic
<1>2. ASSUME NEW p \in Worker \cup {NoOne}, ReassignWorker(w, p)
      PROVE  Acyclic(graph')
  BY <1>0, <1>2, ReassignAcyclic DEF ReassignWorker
<1>3. ASSUME NEW r \in Role, SetWorkerRole(w, r)
      PROVE  Acyclic(graph')
  BY <1>0, <1>3, SetRoleEdges, SubchartAcyclic DEF SetWorkerRole
<1>4. CASE ListDescendants(w)
  BY <1>4 DEF ListDescendants
<1>5. CASE RemoveWorker(w)
  BY <1>0, <1>5, RemoveEdges, SubchartAcyclic DEF RemoveWorker
<1>6. QED
  BY <1>1, <1>2, <1>3, <1>4, <1>5 DEF Change

(* graph.go:62-133: an API call closes a cycle only by adding an ID that   *)
(* somebody already reports to; a move never does.                         *)
THEOREM OnlyReturnsCloseCycles == Spec => CycleNeedsReturn
<1>1. TypeOK /\ [Next]_vars
        => [Acyclic(graph) /\ ~Acyclic(graph')
              => \E w \in Worker : /\ w \in Members(graph') \ Members(graph)
                                   /\ Children(graph, w) # {}]_vars
  <2>1. SUFFICES ASSUME TypeOK, Next, Acyclic(graph), ~Acyclic(graph')
                 PROVE  \E w \in Worker : /\ w \in Members(graph') \ Members(graph)
                                          /\ Children(graph, w) # {}
    OBVIOUS
  <2>2. PICK w \in Worker : Change(w) \/ RemoveWorker(w)
    BY <2>1 DEF Next
  <2>3. PICK v \in Members(graph') \ Members(graph) : Children(graph, v) # {}
    BY <2>1, <2>2, ChangeAcyclic
  <2>4. v \in Worker
    BY DEF Members
  <2>5. QED
    BY <2>3, <2>4
<1>2. QED
  BY <1>1, ApiTypes, PTL DEF Spec, CycleNeedsReturn

(* No method loops on an acyclic chart. *)
LEMMA ChangeReturns ==
  ASSUME TypeOK, ~stuck, Acyclic(graph), NEW w \in Worker, Change(w) \/ RemoveWorker(w)
  PROVE  ~stuck'
<1>0. graph \in Chart
  BY DEF TypeOK
<1>1. ASSUME NEW p \in Worker \cup {NoOne}, ReassignHangs(graph, w, p)
      PROVE  FALSE
  <2>1. p \in Worker /\ ClimbLoops(graph, p)
    BY <1>1 DEF ReassignHangs, Members
  <2>2. QED
    BY <1>0, <2>1, ClimbEnds
<1>2. ~DescentLoops(graph, w) \/ w \notin Members(graph)
  BY <1>0, DescentEnds
<1>3. QED
  BY <1>1, <1>2 DEF Change, AddWorker, ReassignWorker, SetWorkerRole, RemoveWorker, ListDescendants

(* graph.go:135-177: the two walks that keep no record of whom they have   *)
(* seen loop only on a chart that has a cycle.                             *)
THEOREM OnlyCyclesHang == Spec => StuckNeedsCycle
<1> DEFINE StuckOnCycle == stuck => ~Acyclic(graph)
<1>1. Init => StuckOnCycle
  BY DEF Init
<1>2. TypeOK /\ StuckOnCycle /\ [Next]_vars => StuckOnCycle'
  <2>1. SUFFICES ASSUME TypeOK, StuckOnCycle, [Next]_vars, stuck', Acyclic(graph')
                 PROVE  FALSE
    OBVIOUS
  <2>2. CASE UNCHANGED vars
    BY <2>1, <2>2 DEF vars
  <2>3. CASE Next
    <3>1. PICK w \in Worker : Change(w) \/ RemoveWorker(w)
      BY <2>3 DEF Next
    <3>2. ~stuck /\ UNCHANGED graph
      BY <2>1, <3>1 DEF Change, AddWorker, ReassignWorker, SetWorkerRole, RemoveWorker, ListDescendants
    <3>3. QED
      BY <2>1, <3>1, <3>2, ChangeReturns
  <2>4. QED
    BY <2>1, <2>2, <2>3
<1>3. TypeOK /\ StuckOnCycle /\ [Next]_vars => [Acyclic(graph) => ~stuck']_vars
  <2>1. SUFFICES ASSUME TypeOK, StuckOnCycle, Next, Acyclic(graph)
                 PROVE  ~stuck'
    OBVIOUS
  <2>2. PICK w \in Worker : Change(w) \/ RemoveWorker(w)
    BY <2>1 DEF Next
  <2>3. QED
    BY <2>1, <2>2, ChangeReturns
<1>4. QED
  BY <1>1, <1>2, <1>3, ApiTypes, PTL DEF Spec, StuckNeedsCycle

-----------------------------------------------------------------------------

(* The methods, removals of leaves only, keep a forest a forest. *)
LEMMA ChangeForest ==
  ASSUME TypeOK, Forest(graph), NEW w \in Worker, Change(w) \/ RemoveLeaf(w)
  PROVE  Forest(graph')
<1>0. graph \in Chart
  BY DEF TypeOK
<1>1. \A v \in Worker \ Members(graph) : Children(graph, v) = {}
  BY NoOneAssumption DEF Forest, NoDangling, Children
<1>2. Acyclic(graph')
  <2>1. \A v \in Members(graph') : v \in Worker
    BY DEF Members
  <2>2. QED
    BY <1>1, <2>1, ChangeAcyclic DEF Forest, RemoveLeaf
<1>3. NoDangling(graph')
  <2>1. ASSUME NEW row \in Row, AddWorker(w, row)
        PROVE  NoDangling(graph')
    BY <1>0, <2>1, PutRowEdges DEF AddWorker, CanAdd, Forest, NoDangling
  <2>2. ASSUME NEW p \in Worker \cup {NoOne}, ReassignWorker(w, p)
        PROVE  NoDangling(graph')
    <3>1. CASE UNCHANGED graph
      BY <3>1 DEF Forest
    <3>2. CASE CanReassign(graph, w, p) /\ graph' = Reassign(graph, w, p)
      <4>1. /\ w \in Members(graph)
            /\ p \in Members(graph) \cup {NoOne}
        BY <3>2 DEF CanReassign
      <4>2. QED
        BY <1>0, <3>2, <4>1, ReassignEdges DEF Forest, NoDangling
    <3>3. QED
      BY <2>2, <3>1, <3>2 DEF ReassignWorker
  <2>3. ASSUME NEW r \in Role, SetWorkerRole(w, r)
        PROVE  NoDangling(graph')
    BY <1>0, <2>3, SetRoleEdges DEF SetWorkerRole, Forest, NoDangling
  <2>4. CASE ListDescendants(w)
    BY <2>4 DEF ListDescendants, Forest
  <2>5. CASE RemoveLeaf(w)
    BY <1>0, <2>5, RemoveEdges DEF RemoveLeaf, RemoveWorker, Forest, NoDangling, Children
  <2>6. QED
    BY <2>1, <2>2, <2>3, <2>4, <2>5 DEF Change
<1>4. QED
  BY <1>2, <1>3 DEF Forest

(* graph.go, with the discipline DeleteWorker follows: the chart stays a   *)
(* forest for ever, across restarts, and no method hangs.                  *)
THEOREM ForestStays == ForestSpec => []ForestAndLive
<1> DEFINE IInv == TypeOK /\ ForestAndLive
<1>1. ForestInit => IInv
  BY DEF ForestInit, TypeOK, ForestAndLive
<1>2. IInv /\ [ForestNext]_vars => IInv'
  <2>1. SUFFICES ASSUME IInv, [ForestNext]_vars
                 PROVE  IInv'
    OBVIOUS
  <2>2. ASSUME NEW w \in Worker, Change(w) \/ RemoveLeaf(w)
        PROVE  IInv'
    BY <2>1, <2>2, ChangeType, ChangeForest, ChangeReturns DEF ForestAndLive, Forest, RemoveLeaf
  <2>3. CASE Stop
    BY <2>3 DEF Stop, TypeOK, ForestAndLive, Chart, EmptyChart, Forest, Acyclic, NoDangling, Members
  <2>4. CASE Start
    BY <2>1, <2>4 DEF Start, TypeOK, ForestAndLive
  <2>5. CASE UNCHANGED vars
    BY <2>1, <2>5 DEF vars, TypeOK, ForestAndLive
  <2>6. QED
    BY <2>1, <2>2, <2>3, <2>4, <2>5 DEF ForestNext
<1>3. QED
  BY <1>1, <1>2, PTL DEF ForestSpec

-----------------------------------------------------------------------------
(* The walks, round by round.  Induction is by the least counterexample.   *)
LEMMA LeastNatural ==
  ASSUME NEW S \in SUBSET Nat, S # {}
  PROVE  \E n \in S : \A m \in S : n <= m
<1> DEFINE R == OpToRel(<, Nat)
<1>1. PICK n \in S : \A m \in S : ~ (<<m, n>> \in R) BY NatLessThanWellFounded, WFMin
<1>2. ASSUME NEW m \in S PROVE n <= m
  <2>1. <<m, n>> \in Nat \X Nat /\ <<m, n>>[1] = m /\ <<m, n>>[2] = n OBVIOUS
  <2>2. m < n => <<m, n>> \in R BY <2>1 DEF OpToRel
  <2>3. ~ (m < n) BY <1>1, <2>2
  <2>4. m \in Nat /\ n \in Nat OBVIOUS
  <2> HIDE DEF R
  <2> QED BY <2>3, <2>4
<1> QED BY <1>2

(* A function of 0 .. n that begins as z and goes on as F has it. *)
GoesOn(g, n, S, z, F) ==
  /\ g \in [0 .. n -> S]
  /\ g[0] = z
  /\ \A i \in 1 .. n : g[i] = F[i][g[i - 1]]

(* There is one: what a recursive function needs to be what it says. *)
LEMMA RecursionIs ==
  ASSUME NEW N \in Nat, NEW S, NEW z \in S, NEW F \in [1 .. N -> [S -> S]]
  PROVE  \E g : GoesOn(g, N, S, z, F)
<1> DEFINE Good(g, n) == \A i \in 0 .. n : g[i] = IF i = 0 THEN z ELSE F[i][g[i - 1]]
           Bad == {n \in 0 .. N : ~ \E g \in [0 .. n -> S] : Good(g, n)}
<1>1. Bad = {}
  <2> SUFFICES ASSUME Bad # {} PROVE FALSE OBVIOUS
  <2>1. PICK n \in Bad : \A m \in Bad : n <= m
    <3>1. Bad \in SUBSET Nat OBVIOUS
    <3> HIDE DEF Bad
    <3> QED BY <3>1, LeastNatural
  <2>0. n \in 0 .. N /\ ~ \E g \in [0 .. n -> S] : Good(g, n) BY <2>1
  <2>2. n # 0
    <3>1. [i \in 0 .. 0 |-> z] \in [0 .. 0 -> S] /\ Good([i \in 0 .. 0 |-> z], 0) OBVIOUS
    <3> QED BY <3>1, <2>0
  <2>3. n - 1 \in 0 .. N /\ n - 1 \notin Bad
    <3>1. n - 1 \in 0 .. N /\ ~ n <= n - 1 BY <2>0, <2>2
    <3> HIDE DEF Bad
    <3> QED BY <3>1, <2>1
  <2>4. PICK g \in [0 .. (n - 1) -> S] : Good(g, n - 1) BY <2>3
  <2> DEFINE h == [i \in 0 .. n |-> IF i = n THEN F[n][g[n - 1]] ELSE g[i]]
  <2>5. h \in [0 .. n -> S]
    <3>1. F[n] \in [S -> S] /\ g[n - 1] \in S BY <2>0, <2>2
    <3> QED BY <3>1, <2>0
  <2>6. Good(h, n)
    <3> TAKE i \in 0 .. n
    <3>1. CASE i = n BY <3>1, <2>0, <2>2
    <3>2. CASE i # n
      <4>1. i \in 0 .. (n - 1) /\ h[i] = g[i] BY <3>2, <2>0
      <4>2. i # 0 => i - 1 \in 0 .. (n - 1) /\ h[i - 1] = g[i - 1] BY <3>2, <2>0
      <4> QED BY <4>1, <4>2, <2>4
    <3> QED BY <3>1, <3>2
  <2> QED BY <2>0, <2>5, <2>6
<1>2. PICK g \in [0 .. N -> S] : Good(g, N) BY <1>1
<1>3. GoesOn(g, N, S, z, F) BY <1>2 DEF GoesOn
<1> QED BY <1>3

(* The rounds of a loop as one function. *)
RunOf(h, Round, from, n) == h = [k \in 0 .. n |-> IF k = 0 THEN from ELSE Round[h[k - 1]]]

LEMMA RunIs ==
  ASSUME NEW S, NEW Round \in [S -> S], NEW from \in S, NEW n \in Nat
  PROVE  \E h \in [0 .. n -> S] : RunOf(h, Round, from, n)
<1> DEFINE F == [i \in 1 .. n |-> Round]
<1>1. PICK h : GoesOn(h, n, S, from, F) BY RecursionIs
<1>2. h \in [0 .. n -> S] /\ h[0] = from BY <1>1 DEF GoesOn
<1>3. \A k \in 1 .. n : h[k] = Round[h[k - 1]] BY <1>1 DEF GoesOn
<1>4. \A k \in 0 .. n : h[k] = IF k = 0 THEN from ELSE Round[h[k - 1]]
  <2> TAKE k \in 0 .. n
  <2>1. k = 0 \/ k \in 1 .. n OBVIOUS
  <2> QED BY <1>2, <1>3, <2>1
<1> QED BY <1>2, <1>4 DEF RunOf

LEMMA RunsAgree ==
  ASSUME NEW Round, NEW from, NEW n \in Nat, NEW m \in Nat, n <= m,
         NEW h, RunOf(h, Round, from, n), NEW k, RunOf(k, Round, from, m)
  PROVE  \A i \in 0 .. n : h[i] = k[i]
<1> DEFINE Bad == {i \in 0 .. n : h[i] # k[i]}
<1> SUFFICES ASSUME Bad # {} PROVE FALSE OBVIOUS
<1>1. PICK i \in Bad : \A j \in Bad : i <= j
  <2>1. Bad \in SUBSET Nat OBVIOUS
  <2> HIDE DEF Bad
  <2> QED BY <2>1, LeastNatural
<1>2. i \in 0 .. n /\ i \in 0 .. m /\ h[i] # k[i] BY <1>1
<1>3. h[i] = IF i = 0 THEN from ELSE Round[h[i - 1]] BY <1>2 DEF RunOf
<1>4. k[i] = IF i = 0 THEN from ELSE Round[k[i - 1]] BY <1>2 DEF RunOf
<1>5. i # 0 BY <1>2, <1>3, <1>4
<1>6. i - 1 \in 0 .. n /\ ~ i <= i - 1 BY <1>2, <1>5
<1>7. i - 1 \notin Bad
  <2> HIDE DEF Bad
  <2> QED BY <1>1, <1>6
<1> QED BY <1>2, <1>3, <1>4, <1>5, <1>6, <1>7

LEMMA IteratedIs ==
  ASSUME NEW S, NEW Round \in [S -> S], NEW from \in S, NEW n \in Nat,
         NEW h, RunOf(h, Round, from, n)
  PROVE  Iterated(Round, from, n) = h[n]
<1> DEFINE K == CHOOSE k : RunOf(k, Round, from, n)
<1>1. RunOf(K, Round, from, n)
  <2>1. \E k : RunOf(k, Round, from, n) OBVIOUS
  <2> QED BY <2>1
<1>2. K[n] = h[n]
  <2> HIDE DEF K
  <2>1. n <= n /\ n \in 0 .. n OBVIOUS
  <2> QED BY <1>1, <2>1, RunsAgree
<1>3. Iterated(Round, from, n) = K[n] BY DEF Iterated, RunOf
<1> QED BY <1>2, <1>3

(* What a round makes of where the loop is after n is where it is next. *)
LEMMA Iteration ==
  ASSUME NEW S, NEW Round \in [S -> S], NEW from \in S
  PROVE  /\ Iterated(Round, from, 0) = from
         /\ \A n \in Nat : Iterated(Round, from, n) \in S
         /\ \A n \in Nat : Iterated(Round, from, n + 1) = Round[Iterated(Round, from, n)]
<1>1. ASSUME NEW n \in Nat
      PROVE  /\ Iterated(Round, from, n) \in S
             /\ Iterated(Round, from, n + 1) = Round[Iterated(Round, from, n)]
  <2>1. PICK h \in [0 .. n + 1 -> S] : RunOf(h, Round, from, n + 1) BY RunIs
  <2>2. PICK k \in [0 .. n -> S] : RunOf(k, Round, from, n) BY RunIs
  <2>3. n \in 0 .. n /\ n + 1 \in 0 .. n + 1 /\ n + 1 # 0 /\ (n + 1) - 1 = n /\ n + 1 \in Nat
        /\ n <= n + 1
    OBVIOUS
  <2>4. k[n] = h[n] BY <2>1, <2>2, <2>3, RunsAgree
  <2>5. h[n + 1] = Round[h[n]] BY <2>1, <2>3 DEF RunOf
  <2>6. Iterated(Round, from, n) = k[n] BY <2>2, IteratedIs
  <2>7. Iterated(Round, from, n + 1) = h[n + 1] BY <2>1, <2>3, IteratedIs
  <2> QED BY <2>2, <2>3, <2>4, <2>5, <2>6, <2>7
<1>2. Iterated(Round, from, 0) = from
  <2>1. PICK k \in [0 .. 0 -> S] : RunOf(k, Round, from, 0) BY RunIs
  <2>2. k[0] = from BY <2>1 DEF RunOf
  <2> QED BY <2>1, <2>2, IteratedIs
<1> QED BY <1>1, <1>2
(* What every round keeps holds after any number of them. *)
LEMMA IterationKeeps ==
  ASSUME NEW S, NEW Round \in [S -> S], NEW A \in SUBSET S, NEW from \in A,
         \A x \in A : Round[x] \in A
  PROVE  \A n \in Nat : Iterated(Round, from, n) \in A
<1> DEFINE Bad == {n \in Nat : Iterated(Round, from, n) \notin A}
<1> SUFFICES ASSUME Bad # {} PROVE FALSE OBVIOUS
<1>1. PICK n \in Bad : \A m \in Bad : n <= m
  <2>1. Bad \in SUBSET Nat OBVIOUS
  <2> HIDE DEF Bad
  <2> QED BY <2>1, LeastNatural
<1>2. n \in Nat /\ Iterated(Round, from, n) \notin A BY <1>1
<1>3. n # 0 BY <1>2, Iteration
<1>4. n - 1 \in Nat /\ ~ n <= n - 1 /\ (n - 1) + 1 = n BY <1>2, <1>3
<1>5. Iterated(Round, from, n - 1) \in A
  <2>1. n - 1 \notin Bad
    <3> HIDE DEF Bad
    <3> QED BY <1>1, <1>4
  <2> QED BY <1>4, <2>1
<1>6. Iterated(Round, from, (n - 1) + 1) = Round[Iterated(Round, from, n - 1)]
  BY <1>4, Iteration
<1> QED BY <1>2, <1>4, <1>5, <1>6

(* A round that changes nothing is the last that does anything. *)
LEMMA IterationStays ==
  ASSUME NEW S, NEW Round \in [S -> S], NEW from \in S, NEW n \in Nat,
         Round[Iterated(Round, from, n)] = Iterated(Round, from, n)
  PROVE  \A m \in Nat : n <= m => Iterated(Round, from, m) = Iterated(Round, from, n)
<1> DEFINE Bad == {m \in Nat : n <= m /\ Iterated(Round, from, m) # Iterated(Round, from, n)}
<1> SUFFICES ASSUME Bad # {} PROVE FALSE OBVIOUS
<1>1. PICK m \in Bad : \A k \in Bad : m <= k
  <2>1. Bad \in SUBSET Nat OBVIOUS
  <2> HIDE DEF Bad
  <2> QED BY <2>1, LeastNatural
<1>2. m \in Nat /\ n <= m /\ m # n /\ Iterated(Round, from, m) # Iterated(Round, from, n) BY <1>1
<1>3. m - 1 \in Nat /\ n <= m - 1 /\ ~ m <= m - 1 /\ (m - 1) + 1 = m BY <1>2
<1>4. Iterated(Round, from, m - 1) = Iterated(Round, from, n)
  <2>1. m - 1 \notin Bad
    <3> HIDE DEF Bad
    <3> QED BY <1>1, <1>3
  <2> QED BY <1>3, <2>1
<1>5. Iterated(Round, from, (m - 1) + 1) = Round[Iterated(Round, from, m - 1)]
  BY <1>3, Iteration
<1> QED BY <1>2, <1>3, <1>4, <1>5

(* Where every round that changes something makes it greater, and nothing  *)
(* is greater than N, no more than N rounds do.                            *)
LEMMA IterationEnds ==
  ASSUME NEW S, NEW Round \in [S -> S], NEW A \in SUBSET S, NEW from \in A, NEW N \in Nat,
         NEW size \in [A -> 0 .. N],
         \A x \in A : Round[x] \in A /\ (Round[x] = x \/ size[x] < size[Round[x]])
  PROVE  \A m \in Nat : N <= m => Iterated(Round, from, m) = Iterated(Round, from, N)
<1> DEFINE At(n) == Iterated(Round, from, n)
           Bad   == {n \in 0 .. N : Round[At(n)] # At(n) /\ ~ n <= size[At(n)]}
<1>1. \A n \in Nat : At(n) \in A /\ At(n + 1) = Round[At(n)]
  <2>1. \A n \in Nat : At(n) \in A BY IterationKeeps
  <2>2. \A n \in Nat : At(n + 1) = Round[At(n)] BY Iteration
  <2> QED BY <2>1, <2>2
<1>2. Bad = {}
  <2> SUFFICES ASSUME Bad # {} PROVE FALSE OBVIOUS
  <2>1. PICK n \in Bad : \A m \in Bad : n <= m
    <3>1. Bad \in SUBSET Nat OBVIOUS
    <3> HIDE DEF Bad
    <3> QED BY <3>1, LeastNatural
  <2>2. n \in 0 .. N /\ Round[At(n)] # At(n) /\ ~ n <= size[At(n)] BY <2>1
  <2> HIDE DEF At
  <2>3. size[At(n)] \in 0 .. N BY <1>1, <2>2
  <2>4. n # 0 BY <2>2, <2>3
  <2>5. n - 1 \in 0 .. N /\ n - 1 \in Nat /\ ~ n <= n - 1 /\ (n - 1) + 1 = n BY <2>2, <2>4
  <2>6. n - 1 \notin Bad
    <3> HIDE DEF Bad
    <3> QED BY <2>1, <2>5
  <2>7. At(n) = Round[At(n - 1)] BY <1>1, <2>5
  <2>8. Round[At(n - 1)] # At(n - 1) BY <2>2, <2>7
  <2>9. n - 1 <= size[At(n - 1)] /\ size[At(n - 1)] < size[At(n)] BY <1>1, <2>5, <2>6, <2>7, <2>8
  <2>10. size[At(n - 1)] \in 0 .. N BY <1>1, <2>5
  <2> QED BY <2>2, <2>3, <2>5, <2>9, <2>10
<1>3. Round[At(N)] = At(N)
  <2> SUFFICES ASSUME Round[At(N)] # At(N) PROVE FALSE OBVIOUS
  <2>1. N \notin Bad /\ N \in 0 .. N
    <3> HIDE DEF Bad
    <3> QED BY <1>2
  <2> HIDE DEF At
  <2>2. N <= size[At(N)] BY <2>1
  <2>3. size[At(N)] \in 0 .. N /\ size[Round[At(N)]] \in 0 .. N BY <1>1
  <2>4. size[At(N)] < size[Round[At(N)]] BY <1>1
  <2> QED BY <2>2, <2>3, <2>4
<1> QED BY <1>3, IterationStays

(* What is somewhere else each time cannot be in one of few places often.  *)
LEMMA TwiceInOnePlace ==
  ASSUME NEW T, IsFiniteSet(T), NEW n \in Nat, Cardinality(T) <= n, NEW f \in [0 .. n -> T]
  PROVE  \E i, j \in 0 .. n : i < j /\ f[i] = f[j]
<1> DEFINE Times == 0 .. n
<1>1. IsFiniteSet(Times) /\ Cardinality(Times) = n + 1 BY FS_Interval
<1>2. Cardinality(T) < Cardinality(Times)
  <2>1. Cardinality(T) \in Nat BY FS_CardinalityType
  <2> HIDE DEF Times
  <2> QED BY <1>1, <2>1
<1>3. PICK i \in 0 .. n, j \in 0 .. n : i # j /\ f[i] = f[j]
  <2> HIDE DEF Times
  <2>1. \A h \in [Times -> T] : \E x, y \in Times : x # y /\ h[x] = h[y]
    BY <1>1, <1>2, FS_PigeonHole
  <2> QED BY <2>1 DEF Times
<1>4. i < j \/ j < i BY <1>3
<1> QED BY <1>3, <1>4
-----------------------------------------------------------------------------
(* hasAncestorLocked. *)

(* Nothing but what is above v is looked at, and "yes" and "no" are said   *)
(* for the reasons the code has.                                           *)
ClimbIsTrue(g, v, w) ==
  {c \in Climb : /\ c.cur \in Line(g, v) \cap Members(g)
                 /\ c.answer = "yes" => w \in Line(g, v)
                 /\ c.answer = "no" => Parent(g, c.cur) \notin Members(g)}

(* Whoever is above v is not passed by. *)
ClimbFinds(g, w) ==
  {c \in Climb : c.answer # "yes" => c.answer = "climbing" /\ c.cur # w /\ w \in Line(g, c.cur)}

LEMMA ClimbRoundIs ==
  ASSUME NEW g \in Chart, NEW w \in Members(g)
  PROVE  /\ ClimbRound(g, w) \in [Climb -> Climb]
         /\ \A v \in Worker : \A c \in ClimbIsTrue(g, v, w) : ClimbRound(g, w)[c] \in ClimbIsTrue(g, v, w)
         /\ \A c \in ClimbFinds(g, w) : ClimbRound(g, w)[c] \in ClimbFinds(g, w)
<1> DEFINE R(c) == LET parent == Parent(g, c.cur)
                   IN IF c.answer # "climbing" THEN c
                      ELSE IF parent = NoOne THEN [c EXCEPT !.answer = "no"]
                      ELSE IF parent = w THEN [c EXCEPT !.answer = "yes"]
                      ELSE IF parent \notin Members(g) THEN [c EXCEPT !.answer = "no"]
                      ELSE [c EXCEPT !.cur = parent]
<1>1. \A c \in Climb : ClimbRound(g, w)[c] = R(c) BY DEF ClimbRound
<1>2. \A c \in Climb : R(c) \in Climb
  BY DEF Climb, Members
<1>3. ASSUME NEW v \in Worker, NEW c \in ClimbIsTrue(g, v, w)
      PROVE  R(c) \in ClimbIsTrue(g, v, w)
  <2>1. /\ c \in Climb /\ c.cur \in Line(g, v) /\ c.cur \in Members(g)
        /\ c.answer = "yes" => w \in Line(g, v)
        /\ c.answer = "no" => Parent(g, c.cur) \notin Members(g)
    BY DEF ClimbIsTrue
  <2>2. Parent(g, c.cur) \in Line(g, v) \cup {NoOne} BY <2>1, LineClosed DEF ParentClosed
  <2>3. NoOne \notin Members(g) BY NoOneAssumption DEF Members
  <2>4. /\ R(c) \in Climb /\ R(c).cur \in Line(g, v) /\ R(c).cur \in Members(g)
        /\ R(c).answer = "yes" => w \in Line(g, v)
        /\ R(c).answer = "no" => Parent(g, R(c).cur) \notin Members(g)
    BY <1>2, <2>1, <2>2, <2>3 DEF Climb
  <2> HIDE DEF R
  <2> QED BY <2>4 DEF ClimbIsTrue
<1>4. ASSUME NEW c \in ClimbFinds(g, w)
      PROVE  R(c) \in ClimbFinds(g, w)
  <2>1. c \in Climb /\ (c.answer # "yes" => c.answer = "climbing" /\ c.cur # w /\ w \in Line(g, c.cur))
    BY DEF ClimbFinds
  <2>2. CASE c.answer = "yes" BY <2>1, <2>2 DEF ClimbFinds
  <2>3. CASE c.answer # "yes"
    <3>1. c.answer = "climbing" /\ c.cur # w /\ w \in Line(g, c.cur) /\ c.cur \in Worker
      BY <2>1, <2>3 DEF Climb
    <3>2. c.cur \in Members(g) /\ Parent(g, c.cur) # NoOne
      <4> SUFFICES ASSUME c.cur \in Members(g) => Parent(g, c.cur) = NoOne PROVE FALSE OBVIOUS
      <4>1. Line(g, c.cur) \subseteq {c.cur} BY <3>1, LineEnds
      <4> QED BY <3>1, <4>1
    <3>3. w \in Line(g, Parent(g, c.cur)) BY <3>1, <3>2, LineStep
    <3>4. Parent(g, c.cur) = w \/ Parent(g, c.cur) \in Members(g)
      <4>1. Parent(g, c.cur) \in Worker BY <3>2, MemberRow
      <4> QED BY <3>3, <4>1, LineEnds
    <3>5. /\ R(c) \in Climb
          /\ R(c).answer # "yes" => R(c).answer = "climbing" /\ R(c).cur # w /\ w \in Line(g, R(c).cur)
      BY <1>2, <2>1, <3>1, <3>2, <3>3, <3>4 DEF Climb
    <3> HIDE DEF R
    <3> QED BY <3>5 DEF ClimbFinds
  <2> QED BY <2>2, <2>3
<1> HIDE DEF R
<1>5. ClimbRound(g, w) \in [Climb -> Climb]
  <2>1. ClimbRound(g, w) = [c \in Climb |-> R(c)] BY DEF ClimbRound, R
  <2> QED BY <1>2, <2>1
<1>6. \A v \in Worker : ClimbIsTrue(g, v, w) \subseteq Climb BY DEF ClimbIsTrue
<1>7. ClimbFinds(g, w) \subseteq Climb BY DEF ClimbFinds
<1> QED BY <1>1, <1>3, <1>4, <1>5, <1>6, <1>7
(* A climb that has not answered by then has been somewhere twice. *)
LEMMA ClimbComesBack ==
  ASSUME NEW g \in Chart, NEW v \in Members(g), NEW w \in Members(g), v # w, IsFiniteSet(Worker),
         ClimbFor(g, v, w, Fuel) = "climbing"
  PROVE  ~HasAncestor(g, v, w) /\ ClimbLoops(g, v)
<1> DEFINE from  == [cur |-> v, answer |-> "climbing"]
           At(k) == Iterated(ClimbRound(g, w), from, k)
<1>0. Fuel \in Nat /\ Cardinality(Worker) \in Nat /\ Cardinality(Worker) <= Fuel
  BY FS_CardinalityType DEF Fuel
<1>1. v \in Worker /\ from \in Climb BY MemberRow DEF Climb
<1>2. At(0) = from /\ \A k \in Nat : At(k) \in Climb
  <2>1. At(0) = from BY <1>1, ClimbRoundIs, Iteration
  <2>2. \A k \in Nat : At(k) \in Climb BY <1>1, ClimbRoundIs, Iteration
  <2> QED BY <2>1, <2>2
<1>3. \A k \in Nat : At(k + 1) = ClimbRound(g, w)[At(k)] BY <1>1, ClimbRoundIs, Iteration
<1>4. \A k \in 0 .. Fuel : At(k).answer = "climbing"
  <2> TAKE k \in 0 .. Fuel
  <2>1. SUFFICES ASSUME At(k).answer # "climbing" PROVE FALSE OBVIOUS
  <2>2. k \in Nat /\ k <= Fuel BY <1>0
  <2>3. ClimbRound(g, w)[At(k)] = At(k)
    <3>1. At(k) \in Climb BY <1>2, <2>2
    <3> HIDE DEF At
    <3> QED BY <2>1, <3>1 DEF ClimbRound
  <2>4. At(Fuel) = At(k)
    <3>1. ClimbRound(g, w) \in [Climb -> Climb] BY ClimbRoundIs
    <3> QED BY <1>0, <1>1, <2>2, <2>3, <3>1, IterationStays
  <2>5. At(Fuel).answer = "climbing" BY DEF ClimbFor
  <2> QED BY <2>1, <2>4, <2>5
<1> HIDE DEF At
<1>5. ASSUME NEW k \in 0 .. Fuel - 1
      PROVE  /\ At(k).cur \in Worker
             /\ Parent(g, At(k).cur) = At(k + 1).cur
             /\ At(k + 1).cur # w
             /\ At(k + 1).cur \in Members(g)
  <2>1. k \in Nat /\ k \in 0 .. Fuel /\ k + 1 \in 0 .. Fuel BY <1>0
  <2>2. At(k) \in Climb /\ At(k).answer = "climbing" /\ At(k + 1).answer = "climbing" BY <1>2, <1>4, <2>1
  <2>3. At(k + 1) = ClimbRound(g, w)[At(k)] BY <1>3, <2>1
  <2> QED BY <2>2, <2>3 DEF ClimbRound, Climb
<1>6. PICK i, j \in 0 .. Fuel : i < j /\ At(i).cur = At(j).cur
  <2> DEFINE f == [k \in 0 .. Fuel |-> At(k).cur]
  <2>1. \A k \in 0 .. Fuel : At(k).cur \in Worker BY <1>0, <1>2 DEF Climb
  <2>2. f \in [0 .. Fuel -> Worker] BY <2>1
  <2>3. PICK i, j \in 0 .. Fuel : i < j /\ f[i] = f[j]
    <3> HIDE DEF f
    <3> QED BY <1>0, <2>2, TwiceInOnePlace
  <2> QED BY <2>3
<1> DEFINE V == {At(k).cur : k \in 0 .. j - 1}
<1>7. V \in SUBSET Worker /\ v \in V /\ w \notin V
  <2>1. \A k \in 0 .. j - 1 : At(k).cur \in Worker BY <1>0, <1>2, <1>6 DEF Climb
  <2>2. At(0).cur = v /\ 0 \in 0 .. j - 1 BY <1>2, <1>6
  <2>3. ASSUME NEW k \in 0 .. j - 1 PROVE At(k).cur # w
    <3>1. CASE k = 0 BY <2>2, <3>1
    <3>2. CASE k # 0
      <4>1. k - 1 \in 0 .. Fuel - 1 /\ (k - 1) + 1 = k BY <1>0, <1>6, <3>2
      <4> QED BY <1>5, <4>1
    <3> QED BY <3>1, <3>2
  <2> QED BY <2>1, <2>2, <2>3
<1>8. \A u \in V : u \in Members(g) /\ Parent(g, u) \in V
  <2> TAKE u \in V
  <2>1. PICK k \in 0 .. j - 1 : u = At(k).cur OBVIOUS
  <2>2. k \in 0 .. Fuel - 1 /\ k + 1 \in 0 .. j BY <1>0, <1>6
  <2>3. Parent(g, u) = At(k + 1).cur BY <1>5, <2>1, <2>2
  <2>4. At(k + 1).cur \in V
    <3>1. CASE k + 1 = j
      <4>1. At(k + 1).cur = At(i).cur /\ i \in 0 .. j - 1 BY <1>6, <3>1
      <4> QED BY <4>1
    <3>2. CASE k + 1 # j
      <4>1. k + 1 \in 0 .. j - 1 BY <1>6, <2>2, <3>2
      <4> QED BY <4>1
    <3> QED BY <3>1, <3>2
  <2>5. u \in Members(g)
    <3>1. CASE k = 0
      <4>1. u = v BY <1>2, <2>1, <3>1
      <4> QED BY <4>1
    <3>2. CASE k # 0
      <4>1. k - 1 \in 0 .. Fuel - 1 /\ (k - 1) + 1 = k BY <1>0, <1>6, <2>2, <3>2
      <4> QED BY <1>5, <2>1, <4>1
    <3> QED BY <3>1, <3>2
  <2> QED BY <2>3, <2>4, <2>5
<1> HIDE DEF V
<1>9. ParentClosed(g, V) BY <1>8 DEF ParentClosed
<1>10. Line(g, v) \subseteq V BY <1>1, <1>7, <1>9, LineLeast
<1>11. \A u \in Line(g, v) : u \in Members(g) /\ Parent(g, u) \in Line(g, v)
  <2> TAKE u \in Line(g, v)
  <2>1. u \in Members(g) /\ Parent(g, u) \in V /\ V \in SUBSET Worker BY <1>7, <1>8, <1>10
  <2>2. Parent(g, u) # NoOne BY <2>1, NoOneAssumption
  <2> QED BY <1>1, <2>1, <2>2, LineClosed DEF ParentClosed
<1> QED BY <1>7, <1>10, <1>11 DEF HasAncestor, ClimbLoops

LEMMA ClimbSaysSo ==
  ASSUME NEW g \in Chart, IsFiniteSet(Worker)
  PROVE  ClimbAgrees(g)
<1> SUFFICES ASSUME NEW v \in Members(g), NEW w \in Members(g), v # w
             PROVE  LET answer == ClimbFor(g, v, w, Fuel)
                    IN  /\ (answer = "yes") <=> HasAncestor(g, v, w)
                        /\ (answer = "climbing") <=> ~HasAncestor(g, v, w) /\ ClimbLoops(g, v)
  BY DEF ClimbAgrees
<1> DEFINE from == [cur |-> v, answer |-> "climbing"]
           at   == Iterated(ClimbRound(g, w), from, Fuel)
<1>0. Fuel \in Nat BY FS_CardinalityType DEF Fuel
<1>1. v \in Worker /\ w \in Worker /\ v \in Line(g, v) BY MemberRow, LineClosed
<1>2. at \in ClimbIsTrue(g, v, w)
  <2>1. from \in ClimbIsTrue(g, v, w) BY <1>1 DEF ClimbIsTrue, Climb
  <2>2. ClimbIsTrue(g, v, w) \in SUBSET Climb BY DEF ClimbIsTrue
  <2>3. ClimbRound(g, w) \in [Climb -> Climb] BY ClimbRoundIs
  <2>4. \A c \in ClimbIsTrue(g, v, w) : ClimbRound(g, w)[c] \in ClimbIsTrue(g, v, w)
    BY <1>1, ClimbRoundIs
  <2> QED BY <1>0, <2>1, <2>2, <2>3, <2>4, IterationKeeps
<1>3. HasAncestor(g, v, w) => at \in ClimbFinds(g, w)
  <2> SUFFICES ASSUME w \in Line(g, v) PROVE at \in ClimbFinds(g, w) BY DEF HasAncestor
  <2>1. from \in ClimbFinds(g, w) BY <1>1 DEF ClimbFinds, Climb
  <2>2. ClimbFinds(g, w) \in SUBSET Climb BY DEF ClimbFinds
  <2>3. ClimbRound(g, w) \in [Climb -> Climb] BY ClimbRoundIs
  <2>4. \A c \in ClimbFinds(g, w) : ClimbRound(g, w)[c] \in ClimbFinds(g, w) BY ClimbRoundIs
  <2> QED BY <1>0, <2>1, <2>2, <2>3, <2>4, IterationKeeps
<1>4. at.answer = ClimbFor(g, v, w, Fuel) BY DEF ClimbFor
<1> HIDE DEF at
<1>5. at.answer \in {"yes", "no", "climbing"} BY <1>2 DEF ClimbIsTrue, Climb
<1>6. CASE at.answer = "yes"
  <2>1. HasAncestor(g, v, w) BY <1>2, <1>6 DEF ClimbIsTrue, HasAncestor
  <2> QED BY <1>4, <1>6, <2>1
<1>7. CASE at.answer = "no"
  <2>1. ~HasAncestor(g, v, w) BY <1>3, <1>7 DEF ClimbFinds
  <2>2. at.cur \in Line(g, v) /\ Parent(g, at.cur) \notin Members(g) BY <1>2, <1>7 DEF ClimbIsTrue
  <2>3. ~ClimbLoops(g, v) BY <2>2 DEF ClimbLoops
  <2> QED BY <1>4, <1>7, <2>1, <2>3
<1>8. CASE at.answer = "climbing"
  <2>1. ~HasAncestor(g, v, w) /\ ClimbLoops(g, v) BY <1>4, <1>8, ClimbComesBack
  <2> QED BY <1>4, <1>8, <2>1
<1> QED BY <1>5, <1>6, <1>7, <1>8
-----------------------------------------------------------------------------
(* Ancestors. *)

(* Where the climb stands, and who it has listed by then. *)
Top(w, up)  == IF up = << >> THEN w ELSE up[Len(up)]
Listed(up)  == {up[i] : i \in DOMAIN up}

(* The list is the way up from w, with nobody on it twice. *)
WayUp(g, w) ==
  {up \in Seq(Worker) :
     /\ \A i \in 1 .. Len(up) : up[i] \in (Line(g, w) \cap Members(g)) \ {w}
     /\ \A i \in 1 .. Len(up) : up[i] = Parent(g, IF i = 1 THEN w ELSE up[i - 1])
     /\ \A i, j \in 1 .. Len(up) : i # j => up[i] # up[j]}

LEMMA AncestorsRoundIs ==
  ASSUME NEW g, NEW w \in Worker, NEW up \in Seq(Worker)
  PROVE  LET parent == Parent(g, Top(w, up))
         IN  IF parent \in Members(g) \ ({w} \cup Listed(up))
               THEN AncestorsRound(g, w)[up] = Append(up, parent)
               ELSE AncestorsRound(g, w)[up] = up
BY DEF AncestorsRound, Top, Listed

LEMMA WayUpGrows ==
  ASSUME NEW g \in Chart, NEW w \in Members(g), NEW up \in WayUp(g, w)
  PROVE  LET next == AncestorsRound(g, w)[up]
         IN  next \in WayUp(g, w) /\ (next = up \/ Len(up) < Len(next))
<1> DEFINE parent == Parent(g, Top(w, up))
           next   == AncestorsRound(g, w)[up]
<1>1. /\ up \in Seq(Worker) /\ Len(up) \in Nat /\ DOMAIN up = 1 .. Len(up)
      /\ \A i \in 1 .. Len(up) : up[i] \in (Line(g, w) \cap Members(g)) \ {w}
      /\ \A i \in 1 .. Len(up) : up[i] = Parent(g, IF i = 1 THEN w ELSE up[i - 1])
      /\ \A i, j \in 1 .. Len(up) : i # j => up[i] # up[j]
  BY DEF WayUp
<1>2. w \in Worker /\ w \in Line(g, w) /\ ParentClosed(g, Line(g, w)) BY MemberRow, LineClosed
<1>3. Top(w, up) \in Line(g, w) \cap Members(g)
  BY <1>1, <1>2, EmptySeq DEF Top
<1>4. CASE parent \notin Members(g) \ ({w} \cup Listed(up))
  BY <1>1, <1>2, <1>4, AncestorsRoundIs
<1>5. CASE parent \in Members(g) \ ({w} \cup Listed(up))
  <2>1. next = Append(up, parent) BY <1>1, <1>2, <1>5, AncestorsRoundIs
  <2>2. parent \in Worker /\ parent \in Members(g) /\ parent # w /\ parent \notin Listed(up)
    BY <1>5 DEF Members
  <2>3. parent \in Line(g, w) BY <1>2, <1>3, <2>2, NoOneAssumption DEF ParentClosed
  <2>4. /\ next \in Seq(Worker) /\ Len(next) = Len(up) + 1 /\ next[Len(up) + 1] = parent
        /\ \A i \in 1 .. Len(up) : next[i] = up[i]
    BY <1>1, <2>1, <2>2, AppendProperties
  <2> HIDE DEF parent, next
  <2>5. \A i \in 1 .. Len(next) : i \in 1 .. Len(up) \/ i = Len(up) + 1 BY <1>1, <2>4
  <2>6. \A i \in 1 .. Len(next) : next[i] \in (Line(g, w) \cap Members(g)) \ {w}
    BY <1>1, <2>2, <2>3, <2>4, <2>5
  <2>7. ASSUME NEW i \in 1 .. Len(next)
        PROVE  next[i] = Parent(g, IF i = 1 THEN w ELSE next[i - 1])
    <3>1. CASE i \in 1 .. Len(up)
      <4>1. i # 1 => i - 1 \in 1 .. Len(up) BY <1>1, <3>1
      <4> QED BY <1>1, <2>4, <3>1, <4>1
    <3>2. CASE i = Len(up) + 1
      <4>1. CASE up = << >>
        <5>1. i = 1 /\ Top(w, up) = w BY <1>1, <3>2, <4>1 DEF Top
        <5> QED BY <2>4, <3>2, <5>1 DEF parent
      <4>2. CASE up # << >>
        <5>1. Len(up) # 0 /\ Top(w, up) = up[Len(up)] BY <1>1, <4>2, EmptySeq DEF Top
        <5>2. i # 1 /\ i - 1 = Len(up) /\ i - 1 \in 1 .. Len(up) BY <1>1, <3>2, <5>1
        <5>3. next[i - 1] = Top(w, up) BY <2>4, <5>1, <5>2
        <5> QED BY <2>4, <3>2, <5>2, <5>3 DEF parent
      <4> QED BY <4>1, <4>2
    <3> QED BY <2>5, <3>1, <3>2
  <2>8. \A i, j \in 1 .. Len(next) : i # j => next[i] # next[j]
    <3>1. \A i \in 1 .. Len(up) : up[i] # parent BY <1>1, <2>2 DEF Listed
    <3> QED BY <1>1, <2>4, <2>5, <3>1
  <2>9. next \in WayUp(g, w) BY <2>4, <2>6, <2>7, <2>8 DEF WayUp
  <2>10. Len(up) < Len(next) BY <1>1, <2>4
  <2> QED BY <2>9, <2>10 DEF next
<1> QED BY <1>4, <1>5

(* A list without repetition is no longer than there are IDs. *)
LEMMA ListIsShort ==
  ASSUME IsFiniteSet(Worker), NEW up \in Seq(Worker),
         \A i, j \in 1 .. Len(up) : i # j => up[i] # up[j]
  PROVE  Len(up) \in 0 .. Cardinality(Worker)
<1>1. up \in [1 .. Len(up) -> Worker] /\ Len(up) \in Nat OBVIOUS
<1>2. up \in Injection(1 .. Len(up), Worker)
  BY <1>1 DEF Injection, IsInjective
<1>3. IsFiniteSet(1 .. Len(up)) /\ Cardinality(1 .. Len(up)) = Len(up)
  <2>1. \A n \in Nat : IsFiniteSet(1 .. n) /\ Cardinality(1 .. n) = n BY FS_Interval
  <2> QED BY <1>1, <2>1
<1>4. Cardinality(Worker) \in Nat BY FS_CardinalityType
<1>5. Cardinality(1 .. Len(up)) <= Cardinality(Worker) BY <1>2, <1>3, FS_Injection
<1> QED BY <1>1, <1>3, <1>4, <1>5

(* Where the climb can do no more, the whole line is listed. *)
LEMMA WayUpIsWhole ==
  ASSUME NEW g \in Chart, NEW w \in Members(g), NEW up \in WayUp(g, w),
         AncestorsRound(g, w)[up] = up
  PROVE  Listed(up) = (Line(g, w) \cap Members(g)) \ {w}
<1>1. /\ up \in Seq(Worker) /\ Len(up) \in Nat /\ DOMAIN up = 1 .. Len(up)
      /\ \A i \in 1 .. Len(up) : up[i] \in (Line(g, w) \cap Members(g)) \ {w}
      /\ \A i \in 1 .. Len(up) : up[i] = Parent(g, IF i = 1 THEN w ELSE up[i - 1])
  BY DEF WayUp
<1>2. w \in Worker BY MemberRow
<1> DEFINE V == {w} \cup Listed(up) \cup (Worker \ Members(g))
<1>3. Parent(g, Top(w, up)) \notin Members(g) \ ({w} \cup Listed(up))
  <2> DEFINE parent == Parent(g, Top(w, up))
  <2>1. SUFFICES ASSUME parent \in Members(g) \ ({w} \cup Listed(up)) PROVE FALSE OBVIOUS
  <2>2. Append(up, parent) = up /\ parent \in Worker
    BY <1>1, <1>2, <2>1, AncestorsRoundIs DEF Members
  <2> HIDE DEF parent
  <2>3. \A p \in Worker : Len(Append(up, p)) = Len(up) + 1 BY <1>1, AppendProperties
  <2>4. Len(up) = Len(up) + 1 BY <2>2, <2>3
  <2> QED BY <1>1, <2>4
<1>4. V \in SUBSET Worker /\ w \in V BY <1>1, <1>2 DEF Listed, Members
<1>5. ASSUME NEW v \in V \cap Members(g) PROVE Parent(g, v) \in V \cup {NoOne}
  <2>1. Parent(g, v) \in Worker \cup {NoOne} BY MemberRow
  <2>2. CASE v = Top(w, up) BY <1>3, <2>1, <2>2
  <2>3. CASE v # Top(w, up)
    <3>1. PICK i \in 1 .. Len(up) : v = IF i = 1 THEN w ELSE up[i - 1]
      <4>1. CASE v = w
        <5>1. Len(up) # 0 BY <1>1, <2>3, <4>1, EmptySeq DEF Top
        <5> QED BY <1>1, <4>1, <5>1
      <4>2. CASE v # w
        <5>1. PICK j \in 1 .. Len(up) : v = up[j] BY <1>1, <4>2 DEF Listed
        <5>0. Len(up) # 0 BY <1>1, <5>1
        <5>2. j # Len(up)
          <6>1. Top(w, up) = up[Len(up)] BY <1>1, <5>0, EmptySeq DEF Top
          <6> QED BY <2>3, <5>1, <6>1
        <5>3. j + 1 \in 1 .. Len(up) /\ j + 1 # 1 /\ (j + 1) - 1 = j
          <6>1. \A n \in Nat : \A k \in 1 .. n :
                  k # n => k + 1 \in 1 .. n /\ k + 1 # 1 /\ (k + 1) - 1 = k
            OBVIOUS
          <6>2. Len(up) \in Nat BY <1>1
          <6> QED BY <5>1, <5>2, <6>1, <6>2
        <5> QED BY <5>1, <5>3
      <4> QED BY <4>1, <4>2
    <3>2. Parent(g, v) = up[i] BY <1>1, <3>1
    <3> QED BY <1>1, <3>2 DEF Listed
  <2> QED BY <2>2, <2>3
<1>6. ParentClosed(g, V) BY <1>5 DEF ParentClosed
<1>7. Line(g, w) \subseteq V BY <1>2, <1>4, <1>6, LineLeast
<1>8. Listed(up) \subseteq (Line(g, w) \cap Members(g)) \ {w} BY <1>1 DEF Listed
<1> QED BY <1>7, <1>8

LEMMA AncestorsSaySo ==
  ASSUME NEW g \in Chart, IsFiniteSet(Worker)
  PROVE  AncestorsAgree(g)
<1> SUFFICES ASSUME NEW w \in Members(g)
             PROVE  LET up == AncestorsFrom(g, w, Fuel)
                    IN  /\ up = AncestorsFrom(g, w, Fuel - 1)
                        /\ {up[i] : i \in DOMAIN up} = (Line(g, w) \cap Members(g)) \ {w}
                        /\ \A i \in DOMAIN up : up[i] = Parent(g, IF i = 1 THEN w ELSE up[i - 1])
                        /\ \A i, j \in DOMAIN up : i # j => up[i] # up[j]
  BY DEF AncestorsAgree
<1> DEFINE N    == Cardinality(Worker)
           R    == AncestorsRound(g, w)
           A    == WayUp(g, w)
           size == [up \in A |-> Len(up)]
           last == Iterated(R, << >>, N)
<1>1. N \in Nat /\ Fuel = N + 1 /\ Fuel - 1 = N /\ Fuel \in Nat /\ N <= Fuel /\ N <= N
  BY FS_CardinalityType DEF Fuel
<1>2. w \in Worker BY MemberRow
<1>3. R \in [Seq(Worker) -> Seq(Worker)]
  <2>1. \A up \in Seq(Worker) : R[up] \in Seq(Worker)
    BY <1>2, AncestorsRoundIs, AppendProperties DEF Members
  <2>2. R = [up \in Seq(Worker) |-> R[up]] BY DEF AncestorsRound
  <2> HIDE DEF R
  <2> QED BY <2>1, <2>2
<1>4. << >> \in A /\ A \in SUBSET Seq(Worker)
  <2>1. << >> \in Seq(Worker) /\ Len(<< >>) = 0 /\ 1 .. Len(<< >>) = {} BY EmptySeq
  <2> QED BY <2>1 DEF WayUp
<1>5. size \in [A -> 0 .. N]
  <2>1. \A up \in A : Len(up) \in 0 .. N BY ListIsShort DEF WayUp
  <2> HIDE DEF A
  <2> QED BY <2>1
<1>6. \A up \in A : R[up] \in A /\ (R[up] = up \/ size[up] < size[R[up]])
  <2> TAKE up \in A
  <2>1. R[up] \in A /\ (R[up] = up \/ Len(up) < Len(R[up])) BY WayUpGrows
  <2> HIDE DEF A
  <2> QED BY <2>1
<1> HIDE DEF R, A, size, N
<1>7. \A m \in Nat : N <= m => Iterated(R, << >>, m) = last
  BY <1>1, <1>3, <1>4, <1>5, <1>6, IterationEnds
<1>8. last \in A BY <1>1, <1>3, <1>4, <1>6, IterationKeeps
<1>9. R[last] = last
  <2>1. Iterated(R, << >>, N + 1) = R[last] BY <1>1, <1>3, <1>4, Iteration
  <2>2. N + 1 \in Nat /\ N <= N + 1 BY <1>1
  <2> QED BY <1>7, <2>1, <2>2
<1>10. AncestorsFrom(g, w, Fuel) = last /\ AncestorsFrom(g, w, Fuel - 1) = last
  BY <1>1, <1>7 DEF AncestorsFrom, R
<1> HIDE DEF last
<1>11. Listed(last) = (Line(g, w) \cap Members(g)) \ {w} BY <1>8, <1>9, WayUpIsWhole DEF A, R
<1>12. /\ DOMAIN last = 1 .. Len(last)
       /\ \A i \in DOMAIN last : last[i] = Parent(g, IF i = 1 THEN w ELSE last[i - 1])
       /\ \A i, j \in DOMAIN last : i # j => last[i] # last[j]
  BY <1>8 DEF A, WayUp
<1> QED BY <1>10, <1>11, <1>12 DEF Listed
-----------------------------------------------------------------------------
(* Descendants. *)

(* Above whom somebody above v reports to is above v. *)
LEMMA LineAbove ==
  ASSUME NEW g \in Chart, NEW v \in Worker, NEW u \in Line(g, v)
  PROVE  Line(g, u) \subseteq Line(g, v)
<1>1. /\ Line(g, v) \in SUBSET Worker /\ u \in Worker
      /\ ParentClosed(g, Line(g, v))
  BY LineClosed
<1> QED BY <1>1, LineLeast

(* The n-th level below w. *)
Level(g, w, n) == Iterated(NextLevel(g), {w}, n)

LEMMA LevelIs ==
  ASSUME NEW g \in Chart, NEW w \in Worker
  PROVE  /\ Level(g, w, 0) = {w}
         /\ \A n \in Nat : Level(g, w, n) \in SUBSET Worker
         /\ \A n \in Nat : Level(g, w, n + 1) = {u \in Members(g) : Parent(g, u) \in Level(g, w, n)}
         /\ \A n, m \in Nat : n <= m /\ Level(g, w, n) = {} => Level(g, w, m) = {}
<1> DEFINE S == SUBSET Worker
           R == NextLevel(g)
<1>1. R \in [S -> S] /\ R[{}] = {} BY DEF NextLevel, Children, Members
<1>2. {w} \in S OBVIOUS
<1>3. \A f \in S : R[f] = {u \in Members(g) : Parent(g, u) \in f} BY DEF NextLevel, Children
<1> HIDE DEF S, R
<1>4. \A n \in Nat : Iterated(R, {w}, n) \in S BY <1>1, <1>2, Iteration
<1>5. \A n \in Nat : Iterated(R, {w}, n + 1) = R[Iterated(R, {w}, n)] BY <1>1, <1>2, Iteration
<1>6. Iterated(R, {w}, 0) = {w} BY <1>1, <1>2, Iteration
<1>7. ASSUME NEW n \in Nat, NEW m \in Nat, n <= m, Iterated(R, {w}, n) = {}
      PROVE  Iterated(R, {w}, m) = {}
  <2>1. R[Iterated(R, {w}, n)] = Iterated(R, {w}, n) BY <1>1, <1>7
  <2> QED BY <1>1, <1>2, <1>7, <2>1, IterationStays
<1>8. \A n \in Nat : Iterated(R, {w}, n + 1)
                       = {u \in Members(g) : Parent(g, u) \in Iterated(R, {w}, n)}
  BY <1>3, <1>4, <1>5
<1> QED BY <1>4, <1>6, <1>7, <1>8 DEF Level, R, S

(* Whoever is on a level has w above them. *)
LEMMA LevelIsBelow ==
  ASSUME NEW g \in Chart, NEW w \in Worker, NEW n \in Nat, NEW u \in Level(g, w, n)
  PROVE  w \in Line(g, u) /\ (n # 0 => u \in Descendants(g, w))
<1> DEFINE Bad == {k \in Nat : \E v \in Level(g, w, k) : w \notin Line(g, v)}
<1>1. Bad = {}
  <2> SUFFICES ASSUME Bad # {} PROVE FALSE OBVIOUS
  <2>1. PICK k \in Bad : \A m \in Bad : k <= m
    <3>1. Bad \in SUBSET Nat OBVIOUS
    <3> HIDE DEF Bad
    <3> QED BY <3>1, LeastNatural
  <2>2. k \in Nat BY <2>1
  <2>3. PICK v \in Level(g, w, k) : w \notin Line(g, v) BY <2>1
  <2>4. k # 0 BY <2>3, LevelIs, LineClosed
  <2>5. k - 1 \in Nat /\ (k - 1) + 1 = k /\ ~ k <= k - 1 BY <2>2, <2>4
  <2>6. k - 1 \notin Bad
    <3> HIDE DEF Bad
    <3> QED BY <2>1, <2>5
  <2>7. v \in Members(g) /\ Parent(g, v) \in Level(g, w, k - 1) BY <2>3, <2>5, LevelIs
  <2>8. Parent(g, v) \in Worker /\ v \in Worker BY <2>5, <2>7, LevelIs, MemberRow
  <2>9. w \in Line(g, Parent(g, v)) BY <2>5, <2>6, <2>7
  <2>10. Parent(g, v) \in Line(g, v) BY <2>7, <2>8, LineClosed, NoOneAssumption DEF ParentClosed
  <2>11. Line(g, Parent(g, v)) \subseteq Line(g, v) BY <2>8, <2>10, LineAbove
  <2> QED BY <2>3, <2>9, <2>11
<1>2. ASSUME n # 0 PROVE u \in Descendants(g, w)
  <2>1. n - 1 \in Nat /\ (n - 1) + 1 = n BY <1>2
  <2>2. u \in Members(g) /\ Parent(g, u) \in Level(g, w, n - 1) BY <2>1, LevelIs
  <2>3. Parent(g, u) # NoOne BY <2>1, <2>2, LevelIs, NoOneAssumption
  <2>4. w \in Line(g, Parent(g, u)) BY <1>1, <2>1, <2>2
  <2> QED BY <2>2, <2>3, <2>4 DEF Descendants
<1> QED BY <1>1, <1>2

(* Whoever is on two levels has w between them. *)
LEMMA LevelsApart ==
  ASSUME NEW g \in Chart, NEW w \in Worker, NEW i \in Nat, NEW j \in Nat, i < j,
         NEW u \in Level(g, w, i), u \in Level(g, w, j)
  PROVE  DescentLoops(g, w) /\ \E k \in Nat : k # 0 /\ w \in Level(g, w, k)
<1> DEFINE Bad == {n \in Nat : \E m \in Nat : /\ n < m
                                              /\ w \notin Level(g, w, m - n)
                                              /\ Level(g, w, n) \cap Level(g, w, m) # {}}
<1>1. Bad = {}
  <2> SUFFICES ASSUME Bad # {} PROVE FALSE OBVIOUS
  <2>1. PICK n \in Bad : \A m \in Bad : n <= m
    <3>1. Bad \in SUBSET Nat OBVIOUS
    <3> HIDE DEF Bad
    <3> QED BY <3>1, LeastNatural
  <2>2. n \in Nat BY <2>1
  <2>3. PICK m \in Nat : /\ n < m /\ w \notin Level(g, w, m - n)
                         /\ Level(g, w, n) \cap Level(g, w, m) # {}
    BY <2>1
  <2>4. PICK v : v \in Level(g, w, n) /\ v \in Level(g, w, m) BY <2>3
  <2>5. n # 0
    <3>1. n = 0 => v = w /\ m - n = m BY <2>4, LevelIs
    <3> QED BY <2>3, <2>4, <3>1
  <2>6. /\ n - 1 \in Nat /\ (n - 1) + 1 = n /\ ~ n <= n - 1
        /\ m - 1 \in Nat /\ (m - 1) + 1 = m /\ n - 1 < m - 1 /\ (m - 1) - (n - 1) = m - n
    BY <2>2, <2>3, <2>5
  <2>7. n - 1 \notin Bad
    <3> HIDE DEF Bad
    <3> QED BY <2>1, <2>6
  <2>8. Parent(g, v) \in Level(g, w, n - 1) /\ Parent(g, v) \in Level(g, w, m - 1)
    BY <2>4, <2>6, LevelIs
  <2> QED BY <2>3, <2>6, <2>7, <2>8
<1>2. j - i \in Nat /\ j - i # 0 OBVIOUS
<1>3. w \in Level(g, w, j - i) BY <1>1
<1>4. w \in Descendants(g, w) BY <1>2, <1>3, LevelIsBelow
<1> QED BY <1>2, <1>3, <1>4 DEF DescentLoops

(* Where w is below itself there is always another level. *)
LEMMA LevelsGoOn ==
  ASSUME NEW g \in Chart, NEW w \in Worker, NEW k \in Nat, k # 0, w \in Level(g, w, k)
  PROVE  \A n \in Nat : Level(g, w, n) # {}
<1> DEFINE Lost == {n \in Nat : ~ Level(g, w, n) \subseteq Level(g, w, k + n)}
           Bad  == {n \in Nat : Level(g, w, n) = {}}
<1>1. Lost = {}
  <2> SUFFICES ASSUME Lost # {} PROVE FALSE OBVIOUS
  <2>1. PICK n \in Lost : \A m \in Lost : n <= m
    <3>1. Lost \in SUBSET Nat OBVIOUS
    <3> HIDE DEF Lost
    <3> QED BY <3>1, LeastNatural
  <2>2. n \in Nat /\ ~ Level(g, w, n) \subseteq Level(g, w, k + n) BY <2>1
  <2>3. n # 0
    <3>1. k + 0 = k OBVIOUS
    <3> QED BY <2>2, <3>1, LevelIs
  <2>4. n - 1 \in Nat /\ (n - 1) + 1 = n /\ ~ n <= n - 1
        /\ k + (n - 1) \in Nat /\ (k + (n - 1)) + 1 = k + n
    BY <2>2, <2>3
  <2>5. n - 1 \notin Lost
    <3> HIDE DEF Lost
    <3> QED BY <2>1, <2>4
  <2>6. Level(g, w, n - 1) \subseteq Level(g, w, k + (n - 1)) BY <2>4, <2>5
  <2>7. Level(g, w, n) = {u \in Members(g) : Parent(g, u) \in Level(g, w, n - 1)}
    BY <2>4, LevelIs
  <2>8. Level(g, w, k + n) = {u \in Members(g) : Parent(g, u) \in Level(g, w, k + (n - 1))}
    <3>1. Level(g, w, (k + (n - 1)) + 1)
            = {u \in Members(g) : Parent(g, u) \in Level(g, w, k + (n - 1))}
      BY <2>4, LevelIs
    <3> QED BY <2>4, <3>1
  <2> QED BY <2>2, <2>6, <2>7, <2>8
<1>2. Bad = {}
  <2> SUFFICES ASSUME Bad # {} PROVE FALSE OBVIOUS
  <2>1. PICK n \in Bad : \A m \in Bad : n <= m
    <3>1. Bad \in SUBSET Nat OBVIOUS
    <3> HIDE DEF Bad
    <3> QED BY <3>1, LeastNatural
  <2>2. n \in Nat /\ Level(g, w, n) = {} BY <2>1
  <2>3. CASE k < n
    <3>1. n - k \in Nat /\ k + (n - k) = n /\ ~ n <= n - k BY <2>2, <2>3
    <3>2. n - k \notin Bad
      <4> HIDE DEF Bad
      <4> QED BY <2>1, <3>1
    <3>3. Level(g, w, n - k) # {} BY <3>1, <3>2
    <3>4. Level(g, w, n - k) \subseteq Level(g, w, k + (n - k)) BY <1>1, <3>1
    <3> QED BY <2>2, <3>1, <3>3, <3>4
  <2>4. CASE ~ k < n
    <3>1. n <= k BY <2>2, <2>4
    <3>2. Level(g, w, k) = {} BY <2>2, <3>1, LevelIs
    <3> QED BY <3>2
  <2> QED BY <2>3, <2>4
<1> QED BY <1>2

LEMMA DescentSaysSo ==
  ASSUME NEW g \in Chart, IsFiniteSet(Worker)
  PROVE  DescentAgrees(g)
<1> SUFFICES ASSUME NEW w \in Members(g)
             PROVE  LET levels == Levels(g, w, Fuel)
                        ends   == levels[Fuel] = {}
                    IN  /\ ends <=> ~DescentLoops(g, w)
                        /\ ends => /\ UNION {levels[i] : i \in DOMAIN levels} = Descendants(g, w)
                                   /\ \A i, j \in DOMAIN levels : i # j => levels[i] \cap levels[j] = {}
  BY DEF DescentAgrees
<1> DEFINE levels == Levels(g, w, Fuel)
           L(n)   == Level(g, w, n)
           U      == UNION {L(i) : i \in 1 .. Fuel}
<1>1. Fuel \in Nat /\ Fuel # 0 /\ Cardinality(Worker) <= Fuel /\ Fuel \in 1 .. Fuel
  BY FS_CardinalityType DEF Fuel
<1>2. w \in Worker BY MemberRow
<1>3. DOMAIN levels = 1 .. Fuel /\ \A n \in 1 .. Fuel : levels[n] = L(n) BY DEF Levels, Level
<1>4. UNION {levels[i] : i \in DOMAIN levels} = U BY <1>3
<1> HIDE DEF levels, L
<1>5. U \subseteq Descendants(g, w)
  <2> SUFFICES ASSUME NEW i \in 1 .. Fuel, NEW u \in L(i) PROVE u \in Descendants(g, w) OBVIOUS
  <2>1. i \in Nat /\ i # 0 BY <1>1
  <2> QED BY <1>2, <2>1, LevelIsBelow DEF L
<1>6. ASSUME L(Fuel) = {} PROVE Descendants(g, w) \subseteq U
  <2>1. \A v \in Members(g) : Parent(g, v) \in {w} \cup U => v \in U
    <3> TAKE v \in Members(g)
    <3>1. CASE Parent(g, v) = w
      <4>1. v \in L(0 + 1) BY <1>2, <3>1, LevelIs DEF L
      <4>2. 0 + 1 \in 1 .. Fuel BY <1>1
      <4> QED BY <4>1, <4>2
    <3>2. CASE Parent(g, v) \in U
      <4>1. PICK i \in 1 .. Fuel : Parent(g, v) \in L(i) BY <3>2
      <4>2. i # Fuel BY <1>6, <4>1
      <4>3. i \in Nat /\ i + 1 \in 1 .. Fuel BY <1>1, <4>2
      <4>4. v \in L(i + 1) BY <1>2, <4>1, <4>3, LevelIs DEF L
      <4> QED BY <4>3, <4>4
    <3> QED BY <3>1, <3>2
  <2> DEFINE V == Worker \ ({w} \cup U)
  <2> HIDE DEF U
  <2>2. ParentClosed(g, V) BY <2>1, MemberRow DEF ParentClosed
  <2> SUFFICES ASSUME NEW u \in Descendants(g, w) PROVE u \in U OBVIOUS
  <2>3. u \in Members(g) /\ Parent(g, u) # NoOne /\ w \in Line(g, Parent(g, u)) BY DEF Descendants
  <2>4. Parent(g, u) \in Worker BY <2>3, MemberRow
  <2>5. Parent(g, u) \notin V
    <3> SUFFICES ASSUME Parent(g, u) \in V PROVE FALSE OBVIOUS
    <3>1. Line(g, Parent(g, u)) \subseteq V
      <4>1. V \in SUBSET Worker OBVIOUS
      <4> HIDE DEF V
      <4> QED BY <2>2, <2>4, <4>1, LineLeast
    <3> QED BY <2>3, <3>1
  <2> QED BY <2>1, <2>3, <2>4, <2>5
<1>7. ASSUME L(Fuel) = {} PROVE \A k \in Nat : k # 0 => w \notin L(k)
  BY <1>1, <1>2, <1>7, LevelsGoOn DEF L
<1>8. ASSUME L(Fuel) = {} PROVE ~DescentLoops(g, w)
  <2>1. SUFFICES ASSUME w \in U PROVE FALSE BY <1>6, <1>8 DEF DescentLoops
  <2>2. PICK k \in 1 .. Fuel : w \in L(k) BY <2>1
  <2>3. k \in Nat /\ k # 0 BY <1>1
  <2> QED BY <1>7, <1>8, <2>2, <2>3
<1>9. ASSUME L(Fuel) = {} PROVE \A i, j \in 1 .. Fuel : i # j => L(i) \cap L(j) = {}
  <2> SUFFICES ASSUME NEW i \in 1 .. Fuel, NEW j \in 1 .. Fuel, i < j, NEW u \in L(i), u \in L(j)
               PROVE  FALSE
    <3>1. \A i, j \in 1 .. Fuel : i < j => L(i) \cap L(j) = {} OBVIOUS
    <3>2. \A i, j \in 1 .. Fuel : i # j => i < j \/ j < i BY <1>1
    <3> QED BY <3>1, <3>2
  <2>1. i \in Nat /\ j \in Nat BY <1>1
  <2> QED BY <1>2, <1>8, <1>9, <2>1, LevelsApart DEF L
<1>10. ASSUME L(Fuel) # {} PROVE DescentLoops(g, w)
  <2>1. \A k \in 0 .. Fuel : L(k) # {} /\ L(k) \subseteq Worker
    <3> TAKE k \in 0 .. Fuel
    <3>1. k \in Nat /\ k <= Fuel BY <1>1
    <3> QED BY <1>1, <1>2, <1>10, <3>1, LevelIs DEF L
  <2> DEFINE f == [k \in 0 .. Fuel |-> CHOOSE u \in L(k) : TRUE]
  <2>2. \A k \in 0 .. Fuel : f[k] \in L(k) /\ f[k] \in Worker BY <2>1
  <2>3. f \in [0 .. Fuel -> Worker] BY <2>2
  <2>4. PICK i, j \in 0 .. Fuel : i < j /\ f[i] = f[j]
    <3> HIDE DEF f
    <3> QED BY <1>1, <2>3, TwiceInOnePlace
  <2>5. i \in Nat /\ j \in Nat /\ f[i] \in L(i) /\ f[i] \in L(j) BY <1>1, <2>2, <2>4
  <2> QED BY <1>2, <2>4, <2>5, LevelsApart DEF L
<1>11. levels[Fuel] = L(Fuel) BY <1>1, <1>3
<1> HIDE DEF U
<1> QED BY <1>3, <1>4, <1>5, <1>6, <1>8, <1>9, <1>10, <1>11 DEF levels
-----------------------------------------------------------------------------
(* loadGraph. *)

LEMMA LeastIs ==
  ASSUME NEW S \in SUBSET Nat, S # {}
  PROVE  Least(S) \in S /\ \A m \in S : Least(S) <= m
<1>1. \E n \in S : \A m \in S : n <= m BY LeastNatural
<1> QED BY <1>1 DEF Least

(* Charts of rows that belong there: of workers whose line reaches a root. *)
Placeable(rows) ==
  {c \in Chart : Members(c) \subseteq Grounded(rows) /\ \A w \in Members(c) : c[w] = rows[w]}

(* Whoever can be added belongs there. *)
LEMMA AddedIsGrounded ==
  ASSUME NEW rows \in Chart, NEW c \in Placeable(rows), NEW w \in Members(rows),
         CanAdd(c, w, rows[w])
  PROVE  /\ PutRow(c, w, rows[w]) \in Placeable(rows)
         /\ Members(PutRow(c, w, rows[w])) = Members(c) \cup {w}
<1>1. /\ c \in Chart /\ Members(c) \subseteq Grounded(rows)
      /\ \A v \in Members(c) : c[v] = rows[v]
  BY DEF Placeable
<1>2. w \in Worker /\ rows[w] \in Row BY MemberRow
<1>3. /\ PutRow(c, w, rows[w]) \in Chart
      /\ Members(PutRow(c, w, rows[w])) = Members(c) \cup {w}
  BY <1>1, <1>2, PutRowEdges
<1>4. w \in Line(rows, w) BY <1>2, LineClosed
<1>5. w \in Grounded(rows)
  <2>1. CASE Parent(rows, w) = NoOne BY <1>4, <2>1 DEF Grounded
  <2>2. CASE Parent(rows, w) # NoOne
    <3>1. Parent(rows, w) \in Members(c) BY <2>2 DEF CanAdd, Parent
    <3>2. Parent(rows, w) \in Worker BY <2>2, MemberRow
    <3>3. PICK u \in Line(rows, Parent(rows, w)) \cap Members(rows) : Parent(rows, u) = NoOne
      BY <1>1, <3>1 DEF Grounded
    <3>4. Parent(rows, w) \in Line(rows, w) BY <1>2, <1>4, <2>2, LineClosed DEF ParentClosed
    <3>5. u \in Line(rows, w) BY <1>2, <3>3, <3>4, LineAbove
    <3> QED BY <3>3, <3>5 DEF Grounded
  <2> QED BY <2>1, <2>2
<1>6. \A v \in Members(PutRow(c, w, rows[w])) : PutRow(c, w, rows[w])[v] = rows[v]
  BY <1>1, <1>2, <1>3 DEF PutRow, Chart, Members
<1> QED BY <1>1, <1>3, <1>5, <1>6 DEF Placeable

(* Where a pass over the rows stands: whoever it passed over was not to be *)
(* added to the chart it began with.                                       *)
PassState == [pending : SUBSET Worker, chart : Chart]

Passing(rows, c) ==
  {at \in PassState :
     /\ at.pending \subseteq Members(rows) \ Members(at.chart)
     /\ at.chart \in Placeable(rows)
     /\ Members(c) \subseteq Members(at.chart)
     /\ \A w \in Members(rows) \ (at.pending \cup Members(at.chart)) : ~CanAdd(c, w, rows[w])}

LEMMA AddNextType ==
  ASSUME NEW rows \in Chart, Worker \subseteq Nat
  PROVE  AddNext(rows) \in [PassState -> PassState]
<1>1. ASSUME NEW at \in PassState PROVE AddNext(rows)[at] \in PassState
  <2> DEFINE w == Least(at.pending)
  <2>1. at.pending \in SUBSET Worker /\ at.chart \in Chart BY DEF PassState
  <2>2. CASE at.pending = {} BY <2>2 DEF AddNext, PassState
  <2>3. CASE at.pending # {}
    <3>1. w \in at.pending
      <4>1. at.pending \in SUBSET Nat BY <2>1
      <4> QED BY <2>3, <4>1, LeastIs
    <3>2. AddNext(rows)[at]
            = [pending |-> at.pending \ {w},
               chart   |-> IF CanAdd(at.chart, w, rows[w]) THEN PutRow(at.chart, w, rows[w])
                           ELSE at.chart]
      BY <2>3 DEF AddNext, PassState
    <3> HIDE DEF w
    <3>3. w \in Worker /\ rows[w] \in Row \cup {Absent} BY <2>1, <3>1 DEF Chart
    <3>4. PutRow(at.chart, w, rows[w]) \in Chart BY <2>1, <3>3 DEF PutRow, Chart
    <3> QED BY <2>1, <3>2, <3>4 DEF PassState
  <2> QED BY <2>2, <2>3
<1>2. AddNext(rows) = [at \in PassState |-> AddNext(rows)[at]] BY DEF AddNext, PassState
<1> QED BY <1>1, <1>2

LEMMA AddNextIs ==
  ASSUME NEW rows \in Chart, NEW c \in Chart, Worker \subseteq Nat,
         NEW at \in Passing(rows, c), at.pending # {}
  PROVE  /\ AddNext(rows)[at] \in Passing(rows, c)
         /\ AddNext(rows)[at].pending = at.pending \ {Least(at.pending)}
         /\ Least(at.pending) \in at.pending
<1> DEFINE w    == Least(at.pending)
           next == AddNext(rows)[at]
<1>1. /\ at \in PassState /\ at.pending \in SUBSET Worker /\ at.chart \in Chart
      /\ at.pending \subseteq Members(rows) \ Members(at.chart)
      /\ at.chart \in Placeable(rows)
      /\ Members(c) \subseteq Members(at.chart)
      /\ \A v \in Members(rows) \ (at.pending \cup Members(at.chart)) : ~CanAdd(c, v, rows[v])
  BY DEF Passing, PassState
<1>2. w \in at.pending
  <2>1. at.pending \in SUBSET Nat BY <1>1
  <2> QED BY <2>1, LeastIs
<1> HIDE DEF w
<1>3. w \in Members(rows) /\ w \notin Members(at.chart) /\ w \in Worker BY <1>1, <1>2
<1>4. next = [pending |-> at.pending \ {w},
              chart   |-> IF CanAdd(at.chart, w, rows[w]) THEN PutRow(at.chart, w, rows[w])
                          ELSE at.chart]
  BY <1>1 DEF AddNext, PassState, w
<1>5. CASE CanAdd(at.chart, w, rows[w])
  <2> DEFINE d == PutRow(at.chart, w, rows[w])
  <2>1. d \in Placeable(rows) /\ d \in Chart /\ Members(d) = Members(at.chart) \cup {w}
    BY <1>1, <1>3, <1>5, AddedIsGrounded DEF Placeable
  <2>2. next = [pending |-> at.pending \ {w}, chart |-> d] BY <1>4, <1>5
  <2> HIDE DEF d, next
  <2>3. next \in PassState BY <1>1, <2>1, <2>2 DEF PassState
  <2>4. next \in Passing(rows, c) BY <1>1, <1>2, <2>1, <2>2, <2>3 DEF Passing
  <2> QED BY <1>2, <2>2, <2>4 DEF w, next
<1>6. CASE ~CanAdd(at.chart, w, rows[w])
  <2>1. next = [pending |-> at.pending \ {w}, chart |-> at.chart] BY <1>4, <1>6
  <2>2. ~CanAdd(c, w, rows[w]) BY <1>1, <1>3, <1>6 DEF CanAdd
  <2> HIDE DEF next
  <2>3. next \in PassState BY <1>1, <2>1 DEF PassState
  <2>4. next \in Passing(rows, c) BY <1>1, <1>2, <2>1, <2>2, <2>3 DEF Passing
  <2> QED BY <1>2, <2>1, <2>4 DEF w, next
<1> QED BY <1>5, <1>6

(* A pass is over when the rows are, and leaves only whom it could not add *)
(* to the chart it began with.                                             *)
LEMMA OnePassIs ==
  ASSUME NEW rows \in Chart, NEW c \in Placeable(rows), IsFiniteSet(Worker), Worker \subseteq Nat
  PROVE  LET d == OnePass(rows)[c]
         IN  /\ d \in Placeable(rows)
             /\ Members(c) \subseteq Members(d)
             /\ \A w \in Members(rows) \ Members(d) : ~CanAdd(c, w, rows[w])
<1> DEFINE N    == Cardinality(Worker)
           R    == AddNext(rows)
           A    == Passing(rows, c)
           from == [pending |-> Members(rows) \ Members(c), chart |-> c]
           size == [at \in A |-> N - Cardinality(at.pending)]
           last == Iterated(R, from, N)
<1>0. N \in Nat BY FS_CardinalityType
<1>1. c \in Chart /\ OnePass(rows)[c] = last.chart BY DEF OnePass, Placeable
<1>2. from \in A
  <2>1. from \in PassState BY <1>1 DEF PassState, Members
  <2> QED BY <2>1 DEF Passing
<1>3. A \in SUBSET PassState BY DEF Passing
<1>4. \A at \in A : at.pending \in SUBSET Worker BY DEF Passing, PassState
<1>5. \A at \in A : IsFiniteSet(at.pending) /\ Cardinality(at.pending) \in 0 .. N
  <2> TAKE at \in A
  <2>1. at.pending \in SUBSET Worker BY <1>4
  <2>2. IsFiniteSet(at.pending) /\ Cardinality(at.pending) <= N BY <2>1, FS_Subset
  <2>3. Cardinality(at.pending) \in Nat BY <2>2, FS_CardinalityType
  <2> HIDE DEF A, N
  <2> QED BY <1>0, <2>2, <2>3
<1>6. R \in [PassState -> PassState] BY AddNextType
<1>7. ASSUME NEW at \in A
      PROVE  R[at] \in A /\ (R[at] = at \/ Cardinality(R[at].pending) = Cardinality(at.pending) - 1)
  <2>1. CASE at.pending = {} BY <2>1 DEF Passing, AddNext, PassState
  <2>2. CASE at.pending # {}
    <3>1. /\ R[at] \in A
          /\ R[at].pending = at.pending \ {Least(at.pending)}
          /\ Least(at.pending) \in at.pending
      BY <1>1, <2>2, AddNextIs
    <3>2. IsFiniteSet(at.pending) BY <1>5
    <3> HIDE DEF R, A
    <3>3. Cardinality(at.pending \ {Least(at.pending)}) = Cardinality(at.pending) - 1
      BY <3>1, <3>2, FS_RemoveElement
    <3> QED BY <3>1, <3>3
  <2> QED BY <2>1, <2>2
<1> HIDE DEF A, R, from, N
<1>8. size \in [A -> 0 .. N]
  <2>1. \A at \in A : N - Cardinality(at.pending) \in 0 .. N BY <1>0, <1>5
  <2> QED BY <2>1
<1>9. \A at \in A : R[at] \in A /\ (R[at] = at \/ size[at] < size[R[at]])
  <2> TAKE at \in A
  <2>1. Cardinality(at.pending) \in 0 .. N BY <1>5
  <2> QED BY <1>0, <1>7, <2>1
<1> HIDE DEF size
<1>10. R[last] = last /\ last \in A
  <2>1. \A m \in Nat : N <= m => Iterated(R, from, m) = last
    BY <1>0, <1>2, <1>3, <1>6, <1>8, <1>9, IterationEnds
  <2>2. N + 1 \in Nat /\ N <= N + 1 BY <1>0
  <2>3. Iterated(R, from, N + 1) = R[last] BY <1>0, <1>2, <1>3, <1>6, Iteration
  <2>4. last \in A BY <1>0, <1>2, <1>3, <1>6, <1>9, IterationKeeps
  <2> QED BY <2>1, <2>2, <2>3, <2>4
<1> HIDE DEF last
<1>11. last.pending = {}
  <2> SUFFICES ASSUME last.pending # {} PROVE FALSE OBVIOUS
  <2>1. /\ R[last].pending = last.pending \ {Least(last.pending)}
        /\ Least(last.pending) \in last.pending
    BY <1>1, <1>10, AddNextIs DEF A, R
  <2> QED BY <1>10, <2>1
<1> QED BY <1>1, <1>10, <1>11 DEF A, Passing

(* On a chart a pass leaves as it is, everyone who belongs there is. *)
LEMMA NothingToAdd ==
  ASSUME NEW rows \in Chart, NEW c \in Placeable(rows),
         \A w \in Members(rows) \ Members(c) : ~CanAdd(c, w, rows[w])
  PROVE  Members(c) = Grounded(rows) /\ Rerooted(rows, c) = Rebuild(rows)
<1>1. c \in Chart /\ Members(c) \subseteq Grounded(rows) /\ \A v \in Members(c) : c[v] = rows[v]
  BY DEF Placeable
<1> DEFINE V == Worker \ Members(c)
<1>2. \A v \in V \cap Members(rows) : Parent(rows, v) \in V
  BY MemberRow DEF CanAdd, Parent
<1>3. ParentClosed(rows, V) /\ V \in SUBSET Worker BY <1>2 DEF ParentClosed
<1>4. Grounded(rows) \subseteq Members(c)
  <2> SUFFICES ASSUME NEW w \in Grounded(rows), w \in V PROVE FALSE BY DEF Grounded, Members
  <2>1. PICK u \in Line(rows, w) \cap Members(rows) : Parent(rows, u) = NoOne BY DEF Grounded
  <2>2. Line(rows, w) \subseteq V
    <3> HIDE DEF V
    <3> QED BY <1>3, LineLeast
  <2>3. NoOne \notin V BY NoOneAssumption
  <2> HIDE DEF V
  <2> QED BY <1>2, <2>1, <2>2, <2>3
<1>5. Members(c) = Grounded(rows) BY <1>1, <1>4
<1>6. \A w \in Worker : (w \in Members(rows) \ Members(c)) <=> w \in Ungrounded(rows)
  BY <1>5 DEF Ungrounded
<1>7. \A w \in Worker : w \notin Ungrounded(rows) => c[w] = rows[w]
  BY <1>1, <1>6 DEF Members, Chart
<1>8. Rerooted(rows, c)
        = [w \in Worker |-> IF w \in Ungrounded(rows) THEN [rows[w] EXCEPT !.reportsTo = NoOne]
                            ELSE rows[w]]
  BY <1>6, <1>7 DEF Rerooted
<1> QED BY <1>5, <1>8 DEF Rebuild

LEMMA ReloadSaysSo ==
  ASSUME NEW rows \in Chart, IsFiniteSet(Worker), Worker \subseteq Nat
  PROVE  ReloadAgrees(rows)
<1> DEFINE N    == Cardinality(Worker)
           R    == OnePass(rows)
           A    == Placeable(rows)
           size == [c \in A |-> Cardinality(Members(c))]
           last == Iterated(R, EmptyChart, N)
<1>0. N \in Nat /\ Fuel = N + 1 /\ Fuel - 1 = N /\ Fuel \in Nat /\ N <= Fuel
  BY FS_CardinalityType DEF Fuel
<1>1. EmptyChart \in A /\ A \in SUBSET Chart BY DEF Placeable, EmptyChart, Chart, Members
<1>2. R \in [Chart -> Chart]
  <2> SUFFICES ASSUME NEW c \in Chart PROVE R[c] \in Chart
    <3>1. R = [c \in Chart |-> R[c]] BY DEF OnePass
    <3> HIDE DEF R
    <3> QED BY <3>1
  <2> DEFINE from == [pending |-> Members(rows) \ Members(c), chart |-> c]
  <2>1. AddNext(rows) \in [PassState -> PassState] /\ from \in PassState
    BY AddNextType DEF PassState, Members
  <2> HIDE DEF from
  <2>2. Iterated(AddNext(rows), from, N) \in PassState BY <1>0, <2>1, Iteration
  <2> QED BY <2>2 DEF OnePass, PassState, from
<1>3. ASSUME NEW c \in A
      PROVE  /\ IsFiniteSet(Members(c)) /\ Cardinality(Members(c)) \in 0 .. N
  <2>1. Members(c) \in SUBSET Worker BY DEF Members
  <2>2. IsFiniteSet(Members(c)) /\ Cardinality(Members(c)) <= N BY <2>1, FS_Subset
  <2>3. Cardinality(Members(c)) \in Nat BY <2>2, FS_CardinalityType
  <2> HIDE DEF A, N
  <2> QED BY <1>0, <2>2, <2>3
<1>4. ASSUME NEW c \in A
      PROVE  /\ R[c] \in A
             /\ R[c] = c \/ Cardinality(Members(c)) < Cardinality(Members(R[c]))
             /\ \A w \in Members(rows) \ Members(R[c]) : ~CanAdd(c, w, rows[w])
  <2>1. /\ R[c] \in A /\ Members(c) \subseteq Members(R[c])
        /\ \A w \in Members(rows) \ Members(R[c]) : ~CanAdd(c, w, rows[w])
    BY OnePassIs
  <2>2. Members(c) = Members(R[c]) => R[c] = c
    <3>1. /\ c \in Chart /\ R[c] \in Chart
          /\ \A w \in Members(c) : c[w] = rows[w]
          /\ \A w \in Members(R[c]) : R[c][w] = rows[w]
      BY <2>1 DEF Placeable
    <3> HIDE DEF R
    <3> SUFFICES ASSUME Members(c) = Members(R[c]) PROVE R[c] = c OBVIOUS
    <3>2. \A w \in Worker : R[c][w] = c[w] BY <3>1 DEF Members
    <3>3. c = [w \in Worker |-> c[w]] /\ R[c] = [w \in Worker |-> R[c][w]] BY <3>1 DEF Chart
    <3>4. [w \in Worker |-> c[w]] = [w \in Worker |-> R[c][w]] BY <3>2
    <3> QED BY <3>3, <3>4
  <2>3. Cardinality(Members(c)) < Cardinality(Members(R[c])) \/ Members(c) = Members(R[c])
    <3>1. IsFiniteSet(Members(R[c])) /\ Cardinality(Members(R[c])) \in 0 .. N BY <1>3, <2>1
    <3>2. Cardinality(Members(c)) \in 0 .. N BY <1>3
    <3> HIDE DEF R, A, N
    <3>3. /\ Cardinality(Members(c)) <= Cardinality(Members(R[c]))
          /\ Cardinality(Members(R[c])) = Cardinality(Members(c)) => Members(R[c]) = Members(c)
      BY <2>1, <3>1, FS_Subset
    <3> QED BY <1>0, <3>1, <3>2, <3>3
  <2> QED BY <2>1, <2>2, <2>3
<1> HIDE DEF R, A, N
<1>5. size \in [A -> 0 .. N] BY <1>3
<1>6. \A c \in A : R[c] \in A /\ (R[c] = c \/ size[c] < size[R[c]]) BY <1>4
<1> HIDE DEF size
<1>7. \A m \in Nat : N <= m => Iterated(R, EmptyChart, m) = last
  BY <1>0, <1>1, <1>2, <1>5, <1>6, IterationEnds
<1>8. last \in A BY <1>0, <1>1, <1>2, <1>6, IterationKeeps
<1>9. R[last] = last
  <2>1. Iterated(R, EmptyChart, N + 1) = R[last] BY <1>0, <1>1, <1>2, Iteration
  <2>2. N + 1 \in Nat /\ N <= N + 1 BY <1>0
  <2> QED BY <1>7, <2>1, <2>2
<1>10. Iterated(R, EmptyChart, Fuel) = last /\ Iterated(R, EmptyChart, Fuel - 1) = last
  BY <1>0, <1>7
<1> HIDE DEF last
<1>11. Rerooted(rows, last) = Rebuild(rows)
  BY <1>4, <1>8, <1>9, NothingToAdd DEF A
<1>12. Reload(rows, Fuel) = Rebuild(rows) /\ Reload(rows, Fuel - 1) = Rebuild(rows)
  BY <1>10, <1>11 DEF Reload, R
<1> QED BY <1>12, RebuildForest DEF ReloadAgrees
-----------------------------------------------------------------------------
(* detectCycles. *)

LEMMA EdgesAre ==
  ASSUME NEW file \in Seq(Entry)
  PROVE  /\ Edges(file) \in Chart
         /\ \A w \in Members(Edges(file)) :
              \E i \in Placed(file) \ Unresolved(file) :
                file[i].id = w /\ Edges(file)[w] = RowOf(file[i])
         /\ \A i \in Placed(file) \ Unresolved(file) : file[i].id \in Members(Edges(file))
<1> DEFINE Resolving(w) == {i \in Placed(file) \ Unresolved(file) : file[i].id = w}
<1>1. \A w : Resolving(w) \in SUBSET Nat /\ Resolving(w) \subseteq DOMAIN file BY DEF Placed
<1>2. \A w : Resolving(w) # {} => Least(Resolving(w)) \in Resolving(w) BY <1>1, LeastIs
<1>3. \A i \in DOMAIN file : file[i] \in Entry /\ RowOf(file[i]) \in Row
  <2>1. \A i \in DOMAIN file : file[i] \in Entry OBVIOUS
  <2>2. \A entry \in Entry : RowOf(entry) \in Row BY DEF Entry, RowOf, Row
  <2> QED BY <2>1, <2>2
<1>4. \A w \in Worker : Edges(file)[w] = IF Resolving(w) = {} THEN Absent
                                         ELSE RowOf(file[Least(Resolving(w))])
  BY DEF Edges
<1>5. \A i \in Placed(file) : file[i].id \in Worker BY <1>3 DEF Placed, Entry
<1>6. \A w \in Worker : Edges(file)[w] \in Row \cup {Absent}
  <2> HIDE DEF Resolving
  <2> QED BY <1>1, <1>2, <1>3, <1>4
<1>7. Edges(file) \in Chart
  <2>1. Edges(file) = [w \in Worker |-> Edges(file)[w]] BY DEF Edges
  <2> QED BY <1>6, <2>1 DEF Chart
<1>8. ASSUME NEW w \in Members(Edges(file))
      PROVE  \E i \in Placed(file) \ Unresolved(file) :
               file[i].id = w /\ Edges(file)[w] = RowOf(file[i])
  <2>1. w \in Worker /\ Resolving(w) # {} BY <1>4 DEF Members
  <2>2. Least(Resolving(w)) \in Resolving(w) BY <1>2, <2>1
  <2>3. Edges(file)[w] = RowOf(file[Least(Resolving(w))]) BY <1>4, <2>1
  <2> QED BY <2>2, <2>3
<1>9. ASSUME NEW i \in Placed(file) \ Unresolved(file)
      PROVE  file[i].id \in Members(Edges(file))
  <2>1. file[i].id \in Worker /\ Resolving(file[i].id) # {} BY <1>5
  <2>2. Edges(file)[file[i].id] \in Row
    <3>1. Least(Resolving(file[i].id)) \in DOMAIN file BY <1>1, <1>2, <2>1
    <3> QED BY <1>3, <1>4, <2>1, <3>1
  <2> QED BY <2>1, <2>2, AbsentAssumption DEF Members
<1> QED BY <1>7, <1>8, <1>9

WalkState == [path : Seq(Worker), cur : Worker \cup {NoOne}, cycle : SUBSET Worker]

(* How a walk ends: at a root, at an ID the chart does not have, where an  *)
(* earlier walk has been; or on its own path.                              *)
WalkEnds(e, done, path, cycle) ==
  \/ /\ cycle = {}
     /\ path[Len(path)] \in Members(e) => Parent(e, path[Len(path)]) \in done \cup {NoOne}
  \/ /\ path[Len(path)] \in Members(e)
     /\ \E s \in 1 .. Len(path) : /\ Parent(e, path[Len(path)]) = path[s]
                                  /\ cycle = {path[i] : i \in s .. Len(path)}

(* A path up from where the walk began, with nobody on it twice and nobody *)
(* of an earlier walk.                                                     *)
Path(e, done, from, path) ==
  /\ path \in Seq(Worker)
  /\ \A i \in 1 .. Len(path) : path[i] \notin done
  /\ \A i, j \in 1 .. Len(path) : i # j => path[i] # path[j]
  /\ \A i \in 1 .. Len(path) : i # Len(path) => path[i] \in Members(e) /\ path[i + 1] = Parent(e, path[i])
  /\ Len(path) # 0 => path[1] = from

Walking(e, done, from) ==
  {at \in WalkState :
     /\ Path(e, done, from, at.path)
     /\ Len(at.path) = 0 => at.cur = from
     /\ at.cur # NoOne /\ Len(at.path) # 0 => /\ at.path[Len(at.path)] \in Members(e)
                                              /\ at.cur = Parent(e, at.path[Len(at.path)])
     /\ at.cur # NoOne => at.cycle = {}
     /\ at.cur = NoOne => WalkEnds(e, done, at.path, at.cycle)}

LEMMA MarksOf ==
  ASSUME NEW path \in Seq(Worker), NEW w, \E i \in DOMAIN path : path[i] = w
  PROVE  \E s \in 1 .. Len(path) : path[s] = w /\ MarkCycleFrom(path, w) = {path[i] : i \in s .. Len(path)}
<1> DEFINE S == {i \in DOMAIN path : path[i] = w}
<1>1. S \in SUBSET Nat /\ S # {} OBVIOUS
<1>2. Least(S) \in S
  <2> HIDE DEF S
  <2> QED BY <1>1, LeastIs
<1>3. Least(S) \in 1 .. Len(path) /\ path[Least(S)] = w BY <1>2
<1>4. MarkCycleFrom(path, w) = {path[i] : i \in Least(S) .. Len(path)} BY DEF MarkCycleFrom
<1> QED BY <1>3, <1>4

(* The four things a round does. *)
LEMMA WalkRoundIs ==
  ASSUME NEW e \in Chart, NEW done \in SUBSET Worker, NEW at \in WalkState
  PROVE  LET next == WalkRound(e, done)[at]
         IN  /\ next \in WalkState
             /\ \/ at.cur = NoOne /\ next = at
                \/ /\ at.cur \in done
                   /\ next.cur = NoOne /\ next.path = at.path /\ next.cycle = at.cycle
                \/ /\ at.cur # NoOne /\ next.cur = NoOne /\ next.path = at.path
                   /\ \E s \in 1 .. Len(at.path) :
                        /\ at.path[s] = at.cur
                        /\ next.cycle = {at.path[i] : i \in s .. Len(at.path)}
                \/ /\ at.cur \in Worker \ done /\ \A i \in 1 .. Len(at.path) : at.path[i] # at.cur
                   /\ next.path = Append(at.path, at.cur) /\ next.cycle = at.cycle
                   /\ next.cur = IF at.cur \in Members(e) THEN Parent(e, at.cur) ELSE NoOne
<1> DEFINE next == WalkRound(e, done)[at]
<1>0. at.path \in Seq(Worker) /\ at.cur \in Worker \cup {NoOne} /\ at.cycle \in SUBSET Worker
      /\ DOMAIN at.path = 1 .. Len(at.path)
      /\ at = [path |-> at.path, cur |-> at.cur, cycle |-> at.cycle]
  BY DEF WalkState
<1>1. CASE at.cur = NoOne
  <2>1. next = at BY <1>1 DEF WalkRound, WalkState
  <2> QED BY <1>1, <2>1
<1>2. CASE at.cur # NoOne /\ at.cur \in done
  <2>1. next = [at EXCEPT !.cur = NoOne] BY <1>2 DEF WalkRound, WalkState
  <2>2. next = [path |-> at.path, cur |-> NoOne, cycle |-> at.cycle] BY <1>0, <2>1
  <2> HIDE DEF next
  <2>3. next \in WalkState BY <1>0, <2>2 DEF WalkState
  <2> QED BY <1>2, <2>2, <2>3 DEF next
<1>3. CASE at.cur # NoOne /\ at.cur \notin done /\ \E i \in DOMAIN at.path : at.path[i] = at.cur
  <2>1. next = [at EXCEPT !.cur = NoOne, !.cycle = MarkCycleFrom(at.path, at.cur)]
    BY <1>3 DEF WalkRound, WalkState
  <2>2. next = [path |-> at.path, cur |-> NoOne, cycle |-> MarkCycleFrom(at.path, at.cur)]
    BY <1>0, <2>1
  <2>3. PICK s \in 1 .. Len(at.path) :
          /\ at.path[s] = at.cur
          /\ MarkCycleFrom(at.path, at.cur) = {at.path[i] : i \in s .. Len(at.path)}
    BY <1>0, <1>3, MarksOf
  <2>4. MarkCycleFrom(at.path, at.cur) \in SUBSET Worker
    <3>1. \A i \in s .. Len(at.path) : at.path[i] \in Worker BY <1>0, <2>3
    <3> QED BY <2>3, <3>1
  <2> HIDE DEF next
  <2>5. next \in WalkState BY <1>0, <2>2, <2>4 DEF WalkState
  <2>6. next.cur = NoOne /\ next.path = at.path /\ next.cycle = MarkCycleFrom(at.path, at.cur) BY <2>2
  <2> QED BY <1>3, <2>3, <2>5, <2>6 DEF next
<1>4. CASE at.cur # NoOne /\ at.cur \notin done /\ ~ \E i \in DOMAIN at.path : at.path[i] = at.cur
  <2>1. next = [at EXCEPT !.path = Append(@, at.cur),
                          !.cur  = IF @ \in Members(e) THEN Parent(e, @) ELSE NoOne]
    BY <1>4 DEF WalkRound, WalkState
  <2>2. next = [path |-> Append(at.path, at.cur),
                cur |-> IF at.cur \in Members(e) THEN Parent(e, at.cur) ELSE NoOne, cycle |-> at.cycle]
    BY <1>0, <2>1
  <2>3. at.cur \in Worker /\ \A i \in 1 .. Len(at.path) : at.path[i] # at.cur BY <1>0, <1>4
  <2>4. Append(at.path, at.cur) \in Seq(Worker) BY <1>0, <2>3, AppendProperties
  <2>5. (IF at.cur \in Members(e) THEN Parent(e, at.cur) ELSE NoOne) \in Worker \cup {NoOne}
    BY MemberRow
  <2> HIDE DEF next
  <2>6. next \in WalkState BY <1>0, <2>2, <2>4, <2>5 DEF WalkState
  <2> QED BY <1>4, <2>2, <2>3, <2>6 DEF next
<1> QED BY <1>1, <1>2, <1>3, <1>4

LEMMA PathGrows ==
  ASSUME NEW e \in Chart, NEW done \in SUBSET Worker, NEW from \in Worker, NEW path,
         Path(e, done, from, path), NEW w \in Worker \ done,
         \A i \in 1 .. Len(path) : path[i] # w,
         Len(path) = 0 => w = from,
         Len(path) # 0 => path[Len(path)] \in Members(e) /\ w = Parent(e, path[Len(path)])
  PROVE  /\ Path(e, done, from, Append(path, w))
         /\ Len(Append(path, w)) = Len(path) + 1
         /\ Append(path, w)[Len(path) + 1] = w
<1> DEFINE q == Append(path, w)
           n == Len(path)
<1>1. /\ path \in Seq(Worker) /\ n \in Nat
      /\ \A i \in 1 .. n : path[i] \notin done
      /\ \A i, j \in 1 .. n : i # j => path[i] # path[j]
      /\ \A i \in 1 .. n : i # n => path[i] \in Members(e) /\ path[i + 1] = Parent(e, path[i])
      /\ n # 0 => path[1] = from
  BY DEF Path
<1>2. /\ q \in Seq(Worker) /\ Len(q) = n + 1 /\ q[n + 1] = w /\ \A i \in 1 .. n : q[i] = path[i]
  BY <1>1, AppendProperties
<1> HIDE DEF q, n
<1>3. \A i \in 1 .. Len(q) : i \in 1 .. n \/ i = n + 1 BY <1>1, <1>2
<1>4. \A i \in 1 .. n : i # n + 1 BY <1>1
<1>5. \A i \in 1 .. Len(q) : q[i] \notin done BY <1>1, <1>2, <1>3
<1>6. \A i, j \in 1 .. Len(q) : i # j => q[i] # q[j] BY <1>1, <1>2, <1>3 DEF n
<1>7. ASSUME NEW i \in 1 .. Len(q), i # Len(q)
      PROVE  q[i] \in Members(e) /\ q[i + 1] = Parent(e, q[i])
  <2>1. i \in 1 .. n BY <1>2, <1>3, <1>7
  <2>2. CASE i = n
    <3>1. n # 0 BY <1>1, <2>1, <2>2
    <3> QED BY <1>2, <2>1, <2>2, <3>1 DEF n
  <2>3. CASE i # n
    <3>1. i + 1 \in 1 .. n BY <1>1, <2>1, <2>3
    <3> QED BY <1>1, <1>2, <2>1, <2>3, <3>1
  <2> QED BY <2>2, <2>3
<1>8. q[1] = from
  <2>1. CASE n = 0 BY <1>2, <2>1 DEF n
  <2>2. CASE n # 0
    <3>1. 1 \in 1 .. n BY <1>1, <2>2
    <3> QED BY <1>1, <1>2, <2>2, <3>1
  <2> QED BY <2>1, <2>2
<1> QED BY <1>2, <1>5, <1>6, <1>7, <1>8 DEF Path, q, n
(* How far a walk has come. *)
WalkSize(at) == Len(at.path) + (IF at.cur = NoOne THEN 1 ELSE 0)

LEMMA WalkStays ==
  ASSUME NEW e \in Chart, NEW done \in SUBSET Worker, NEW from \in Worker \ done,
         NEW at \in Walking(e, done, from)
  PROVE  LET next == WalkRound(e, done)[at]
         IN  /\ next \in Walking(e, done, from)
             /\ (next = at /\ at.cur = NoOne) \/ WalkSize(at) < WalkSize(next)
<1> DEFINE next == WalkRound(e, done)[at]
           n    == Len(at.path)
<1>1. /\ at \in WalkState
      /\ Path(e, done, from, at.path)
      /\ n = 0 => at.cur = from
      /\ at.cur # NoOne /\ n # 0 => at.path[n] \in Members(e) /\ at.cur = Parent(e, at.path[n])
      /\ at.cur # NoOne => at.cycle = {}
      /\ at.cur = NoOne => WalkEnds(e, done, at.path, at.cycle)
  BY DEF Walking
<1>2. /\ next \in WalkState
      /\ \/ at.cur = NoOne /\ next = at
         \/ /\ at.cur \in done
            /\ next.cur = NoOne /\ next.path = at.path /\ next.cycle = at.cycle
         \/ /\ at.cur # NoOne /\ next.cur = NoOne /\ next.path = at.path
            /\ \E s \in 1 .. n : /\ at.path[s] = at.cur
                                 /\ next.cycle = {at.path[i] : i \in s .. n}
         \/ /\ at.cur \in Worker \ done /\ \A i \in 1 .. n : at.path[i] # at.cur
            /\ next.path = Append(at.path, at.cur) /\ next.cycle = at.cycle
            /\ next.cur = IF at.cur \in Members(e) THEN Parent(e, at.cur) ELSE NoOne
  BY <1>1, WalkRoundIs
<1>3. n \in Nat /\ at.path \in Seq(Worker) BY <1>1 DEF Path
<1>4. NoOne \notin Worker BY NoOneAssumption
<1> HIDE DEF next
<1>5. CASE at.cur = NoOne /\ next = at BY <1>5 DEF next
<1>6. CASE at.cur \in done /\ next.cur = NoOne /\ next.path = at.path /\ next.cycle = at.cycle
  <2>1. at.cur # NoOne /\ n # 0 BY <1>1, <1>4, <1>6
  <2>2. WalkEnds(e, done, next.path, next.cycle) BY <1>1, <1>6, <2>1 DEF WalkEnds
  <2>3. next \in Walking(e, done, from) BY <1>1, <1>2, <1>6, <2>1, <2>2 DEF Walking
  <2>4. WalkSize(at) < WalkSize(next) BY <1>3, <1>6, <2>1 DEF WalkSize
  <2> QED BY <2>3, <2>4 DEF next
<1>7. CASE /\ at.cur # NoOne /\ next.cur = NoOne /\ next.path = at.path
           /\ \E s \in 1 .. n : /\ at.path[s] = at.cur
                                /\ next.cycle = {at.path[i] : i \in s .. n}
  <2>1. n # 0 BY <1>3, <1>7
  <2>2. WalkEnds(e, done, next.path, next.cycle) BY <1>1, <1>7, <2>1 DEF WalkEnds
  <2>3. next \in Walking(e, done, from) BY <1>1, <1>2, <1>7, <2>1, <2>2 DEF Walking
  <2>4. WalkSize(at) < WalkSize(next) BY <1>3, <1>7 DEF WalkSize
  <2> QED BY <2>3, <2>4 DEF next
<1>8. CASE /\ at.cur \in Worker \ done /\ \A i \in 1 .. n : at.path[i] # at.cur
           /\ next.path = Append(at.path, at.cur) /\ next.cycle = at.cycle
           /\ next.cur = IF at.cur \in Members(e) THEN Parent(e, at.cur) ELSE NoOne
  <2>1. at.cur # NoOne BY <1>4, <1>8
  <2>2. /\ Path(e, done, from, next.path)
        /\ Len(next.path) = n + 1
        /\ next.path[n + 1] = at.cur
    <3>1. n = 0 => at.cur = from BY <1>1
    <3>2. n # 0 => at.path[n] \in Members(e) /\ at.cur = Parent(e, at.path[n]) BY <1>1, <2>1
    <3> QED BY <1>1, <1>8, <3>1, <3>2, PathGrows
  <2>3. n + 1 # 0 BY <1>3
  <2>4. next.cur # NoOne => at.cur \in Members(e) /\ next.cur = Parent(e, at.cur) BY <1>8
  <2>5. next.cur = NoOne => (at.cur \in Members(e) => Parent(e, at.cur) = NoOne) BY <1>8
  <2>6. next.cycle = {} BY <1>1, <1>8, <2>1
  <2>7. next.cur = NoOne => WalkEnds(e, done, next.path, next.cycle)
    BY <2>2, <2>5, <2>6 DEF WalkEnds
  <2>8. next \in Walking(e, done, from) BY <1>2, <2>2, <2>3, <2>4, <2>6, <2>7 DEF Walking
  <2>9. WalkSize(at) < WalkSize(next)
    <3>1. WalkSize(at) = n + 0 BY <2>1 DEF WalkSize
    <3>2. WalkSize(next) = (n + 1) + 0 \/ WalkSize(next) = (n + 1) + 1 BY <2>2 DEF WalkSize
    <3> HIDE DEF n
    <3> QED BY <1>3, <3>1, <3>2
  <2> QED BY <2>8, <2>9 DEF next
<1> QED BY <1>2, <1>5, <1>6, <1>7, <1>8

(* Every walk ends, as WalkEnds says. *)
LEMMA WalkUpIs ==
  ASSUME NEW e \in Chart, NEW done \in SUBSET Worker, NEW from \in Worker,
         IsFiniteSet(Worker)
  PROVE  /\ WalkUp(e, done, from) \in WalkState
         /\ from \notin done => /\ WalkUp(e, done, from) \in Walking(e, done, from)
                                /\ WalkUp(e, done, from).cur = NoOne
<1> DEFINE R     == WalkRound(e, done)
           A     == Walking(e, done, from)
           start == [path |-> << >>, cur |-> from, cycle |-> {}]
           size  == [at \in A |-> WalkSize(at)]
           last  == Iterated(R, start, Fuel)
           N     == Cardinality(Worker)
<1>0. N \in Nat /\ Fuel = N + 1 /\ Fuel \in Nat BY FS_CardinalityType DEF Fuel
<1>1. R \in [WalkState -> WalkState]
  <2>1. \A at \in WalkState : R[at] \in WalkState BY WalkRoundIs
  <2>2. R = [at \in WalkState |-> R[at]] BY DEF WalkRound, WalkState
  <2> HIDE DEF R
  <2> QED BY <2>1, <2>2
<1>2. << >> \in Seq(Worker) /\ Len(<< >>) = 0 /\ 1 .. Len(<< >>) = {} BY EmptySeq
<1>3. start \in WalkState BY <1>2 DEF WalkState
<1>4. WalkUp(e, done, from) = last BY DEF WalkUp
<1>5. last \in WalkState
  <2> HIDE DEF R, start
  <2> QED BY <1>0, <1>1, <1>3, Iteration
<1>6. ASSUME from \notin done PROVE last \in A /\ last.cur = NoOne
  <2>1. start \in A /\ A \in SUBSET WalkState
    <3>1. Path(e, done, from, << >>) BY <1>2 DEF Path
    <3>2. start.path = << >> /\ start.cur = from /\ start.cycle = {} /\ from # NoOne BY NoOneAssumption
    <3> HIDE DEF start
    <3> QED BY <1>2, <1>3, <3>1, <3>2 DEF Walking
  <2>2. \A at \in A : R[at] \in A /\ ((R[at] = at /\ at.cur = NoOne) \/ WalkSize(at) < WalkSize(R[at]))
    BY <1>6, WalkStays
  <2>3. ASSUME NEW at \in A PROVE WalkSize(at) \in 0 .. Fuel
    <3>1. /\ at.path \in Seq(Worker)
          /\ \A i, j \in 1 .. Len(at.path) : i # j => at.path[i] # at.path[j]
      BY DEF Walking, Path
    <3>2. Len(at.path) \in 0 .. N BY <3>1, ListIsShort
    <3>3. WalkSize(at) = Len(at.path) + 0 \/ WalkSize(at) = Len(at.path) + 1 BY DEF WalkSize
    <3> DEFINE n == Len(at.path)
    <3> HIDE DEF N, n
    <3>4. n \in 0 .. N /\ (WalkSize(at) = n + 0 \/ WalkSize(at) = n + 1) BY <3>2, <3>3 DEF n
    <3> QED BY <1>0, <3>4
  <2> HIDE DEF R, A, start, N
  <2>4. size \in [A -> 0 .. Fuel] BY <2>3
  <2>5. \A at \in A : R[at] \in A /\ (R[at] = at \/ size[at] < size[R[at]]) BY <2>2
  <2> HIDE DEF size
  <2>6. last \in A BY <1>0, <1>1, <2>1, <2>5, IterationKeeps
  <2>7. R[last] = last
    <3>1. \A m \in Nat : Fuel <= m => Iterated(R, start, m) = last
      BY <1>0, <1>1, <2>1, <2>4, <2>5, IterationEnds
    <3>2. Fuel + 1 \in Nat /\ Fuel <= Fuel + 1 BY <1>0
    <3>3. Iterated(R, start, Fuel + 1) = R[last] BY <1>0, <1>1, <2>1, Iteration
    <3> QED BY <3>1, <3>2, <3>3
  <2>8. WalkSize(last) \in Nat BY <1>0, <2>3, <2>6
  <2> HIDE DEF last
  <2>9. ~ WalkSize(last) < WalkSize(last) BY <2>8
  <2> QED BY <2>2, <2>6, <2>7, <2>9
<1> QED BY <1>4, <1>5, <1>6 DEF A
LEMMA PathIs ==
  ASSUME NEW e, NEW done, NEW from, NEW path, Path(e, done, from, path)
  PROVE  /\ Len(path) \in Nat /\ DOMAIN path = 1 .. Len(path)
         /\ \A i \in 1 .. Len(path) : path[i] \in Worker /\ path[i] \notin done /\ path[i] \in Listed(path)
         /\ \A i, j \in 1 .. Len(path) : i # j => path[i] # path[j]
         /\ \A i \in 1 .. Len(path) :
              i # Len(path) => /\ path[i] \in Members(e) /\ path[i + 1] = Parent(e, path[i])
                               /\ i + 1 \in 1 .. Len(path)
<1>1. path \in Seq(Worker) BY DEF Path
<1>2. \A n \in Nat : \A i \in 1 .. n : i # n => i + 1 \in 1 .. n OBVIOUS
<1> QED BY <1>1, <1>2 DEF Path, Listed

(* Whoever comes later on the path is above whoever comes before. *)
LEMMA PathAbove ==
  ASSUME NEW e, NEW done, NEW from, NEW path, Path(e, done, from, path),
         NEW C \in SUBSET Worker, ParentClosed(e, C),
         NEW a \in 1 .. Len(path), path[a] \in C
  PROVE  \A b \in 1 .. Len(path) : a <= b => path[b] \in C
<1> DEFINE n   == Len(path)
           Bad == {b \in 1 .. n : a <= b /\ path[b] \notin C}
<1> SUFFICES ASSUME Bad # {} PROVE FALSE OBVIOUS
<1>1. PICK b \in Bad : \A m \in Bad : b <= m
  <2>1. Bad \in SUBSET Nat BY PathIs
  <2> HIDE DEF Bad
  <2> QED BY <2>1, LeastNatural
<1>2. b \in 1 .. n /\ a <= b /\ path[b] \notin C /\ b # a BY <1>1
<1>3. n \in Nat /\ a \in 1 .. n BY PathIs
<1>4. /\ b - 1 \in 1 .. n /\ b - 1 # n /\ a <= b - 1 /\ (b - 1) + 1 = b /\ ~ b <= b - 1
  <2> HIDE DEF n
  <2> QED BY <1>2, <1>3
<1>5. path[b - 1] \in C
  <2>1. b - 1 \notin Bad
    <3> HIDE DEF Bad
    <3> QED BY <1>1, <1>4
  <2> QED BY <1>4, <2>1
<1>6. path[b - 1] \in Members(e) /\ path[b] = Parent(e, path[b - 1]) BY <1>4, PathIs
<1>7. path[b] # NoOne BY <1>2, PathIs, NoOneAssumption
<1> QED BY <1>2, <1>5, <1>6, <1>7 DEF ParentClosed

(* Whoever is on the path before where it goes back to is not below        *)
(* themselves.                                                             *)
LEMMA OffTheCycle ==
  ASSUME NEW e \in Chart, NEW done \in SUBSET Worker, ParentClosed(e, done),
         NEW from, NEW path, Path(e, done, from, path), NEW i \in 1 .. Len(path),
         path[Len(path)] \in Members(e)
           => Parent(e, path[Len(path)])
                \in done \cup {NoOne} \cup {path[j] : j \in {k \in 1 .. Len(path) : i < k}}
  PROVE  ~DescentLoops(e, path[i])
<1> DEFINE n == Len(path)
           T == done \cup {path[j] : j \in {k \in 1 .. n : i < k}}
<1>1. SUFFICES ASSUME path[i] \in Members(e), Parent(e, path[i]) # NoOne,
                      path[i] \in Line(e, Parent(e, path[i]))
               PROVE  FALSE
  BY DEF DescentLoops, Descendants
<1>2. T \in SUBSET Worker /\ path[i] \notin T BY PathIs
<1>3. \A j \in 1 .. n : i <= j /\ path[j] \in Members(e) => Parent(e, path[j]) \in T \cup {NoOne}
  <2> SUFFICES ASSUME NEW j \in 1 .. n, i <= j, path[j] \in Members(e)
               PROVE  Parent(e, path[j]) \in T \cup {NoOne}
    OBVIOUS
  <2>1. CASE j = n BY <2>1
  <2>2. CASE j # n
    <3>1. j + 1 \in 1 .. n /\ path[j + 1] = Parent(e, path[j]) BY <2>2, PathIs
    <3>2. i < j + 1
      <4>1. n \in Nat BY PathIs
      <4> HIDE DEF n
      <4>2. i \in 1 .. n BY DEF n
      <4> QED BY <4>1, <4>2
    <3> QED BY <3>1, <3>2
  <2> QED BY <2>1, <2>2
<1>4. ParentClosed(e, T)
  <2> SUFFICES ASSUME NEW v \in T \cap Members(e) PROVE Parent(e, v) \in T \cup {NoOne} BY DEF ParentClosed
  <2>1. CASE v \in done BY <2>1 DEF ParentClosed
  <2>2. CASE v \notin done
    <3>1. PICK j \in 1 .. n : i < j /\ v = path[j] BY <2>2
    <3>2. i <= j
      <4>1. n \in Nat BY PathIs
      <4> HIDE DEF n
      <4>2. i \in 1 .. n BY DEF n
      <4> QED BY <3>1, <4>1, <4>2
    <3> QED BY <1>3, <3>1, <3>2
  <2> QED BY <2>1, <2>2
<1>5. Parent(e, path[i]) \in T
  <2>1. i <= i
    <3>1. n \in Nat BY PathIs
    <3> HIDE DEF n
    <3>2. i \in 1 .. n BY DEF n
    <3> QED BY <3>1, <3>2
  <2> QED BY <1>1, <1>3, <2>1
<1>6. Line(e, Parent(e, path[i])) \subseteq T
  <2> HIDE DEF T
  <2> QED BY <1>2, <1>4, <1>5, LineLeast
<1> QED BY <1>1, <1>2, <1>6

(* Whoever is on it from there on is. *)
LEMMA OnTheCycle ==
  ASSUME NEW e \in Chart, NEW done, NEW from, NEW path, Path(e, done, from, path),
         path[Len(path)] \in Members(e),
         NEW s \in 1 .. Len(path), Parent(e, path[Len(path)]) = path[s],
         NEW i \in 1 .. Len(path), s <= i
  PROVE  DescentLoops(e, path[i])
<1> DEFINE n == Len(path)
           p == Parent(e, path[i])
           C == Line(e, p)
<1>1. n \in Nat /\ n \in 1 .. n
  <2>1. n \in Nat BY PathIs
  <2> HIDE DEF n
  <2>2. s \in 1 .. n BY DEF n
  <2> QED BY <2>1, <2>2
<1>2. path[i] \in Members(e) /\ p \in Worker
  <2>1. CASE i = n BY <2>1, PathIs
  <2>2. CASE i # n BY <2>2, PathIs
  <2> QED BY <2>1, <2>2
<1>3. C \in SUBSET Worker /\ p \in C /\ ParentClosed(e, C) BY <1>2, LineClosed
<1> HIDE DEF C
<1>4. path[s] \in C
  <2>1. CASE i = n BY <1>3, <2>1
  <2>2. CASE i # n
    <3>1. i + 1 \in 1 .. n /\ path[i + 1] = p BY <2>2, PathIs
    <3>2. i + 1 <= n
      <4> HIDE DEF n
      <4> QED BY <1>1, <3>1
    <3>3. path[n] \in C BY <1>1, <1>3, <3>1, <3>2, PathAbove
    <3>4. path[s] # NoOne BY PathIs, NoOneAssumption
    <3> QED BY <1>3, <3>3, <3>4 DEF ParentClosed
  <2> QED BY <2>1, <2>2
<1>5. path[i] \in C BY <1>3, <1>4, PathAbove
<1>6. p # NoOne BY <1>2, NoOneAssumption
<1> QED BY <1>2, <1>5, <1>6 DEF DescentLoops, Descendants, C

(* So a walk marks whoever on its path is on a cycle, and nobody else; and *)
(* whoever it has been to, with those before, leads nowhere else.          *)
LEMMA WalkMarks ==
  ASSUME NEW e \in Chart, NEW done \in SUBSET Worker, ParentClosed(e, done),
         NEW from, NEW path, Path(e, done, from, path), Len(path) # 0,
         NEW cycle, WalkEnds(e, done, path, cycle)
  PROVE  /\ ParentClosed(e, done \cup Listed(path))
         /\ cycle = {w \in Listed(path) : DescentLoops(e, w)}
<1> DEFINE n == Len(path)
<1>1. n \in Nat /\ DOMAIN path = 1 .. n BY PathIs
<1>2. path[n] \in Members(e) => Parent(e, path[n]) \in done \cup Listed(path) \cup {NoOne}
  BY PathIs DEF WalkEnds
<1>3. ParentClosed(e, done \cup Listed(path))
  <2> SUFFICES ASSUME NEW v \in (done \cup Listed(path)) \cap Members(e)
               PROVE  Parent(e, v) \in done \cup Listed(path) \cup {NoOne}
    BY DEF ParentClosed
  <2>1. CASE v \in done BY <2>1 DEF ParentClosed
  <2>2. CASE v \notin done
    <3>1. PICK j \in 1 .. n : v = path[j] BY <1>1, <2>2 DEF Listed
    <3>2. CASE j = n BY <1>2, <3>1, <3>2
    <3>3. CASE j # n BY <3>1, <3>3, PathIs
    <3> QED BY <3>2, <3>3
  <2> QED BY <2>1, <2>2
<1>4. CASE cycle = {} /\ (path[n] \in Members(e) => Parent(e, path[n]) \in done \cup {NoOne})
  <2>1. \A i \in 1 .. n : ~DescentLoops(e, path[i]) BY <1>4, OffTheCycle
  <2> QED BY <1>1, <1>3, <1>4, <2>1 DEF Listed
<1>5. ASSUME path[n] \in Members(e), NEW s \in 1 .. n, Parent(e, path[n]) = path[s],
             cycle = {path[i] : i \in s .. n}
      PROVE  cycle = {w \in Listed(path) : DescentLoops(e, w)}
  <2>1. \A i \in 1 .. n : (i \in s .. n <=> s <= i) /\ (~ s <= i => i < s)
    <3> HIDE DEF n
    <3> QED BY <1>1, <1>5
  <2>2. s .. n \subseteq 1 .. n
    <3> HIDE DEF n
    <3> QED BY <1>1, <1>5
  <2>3. \A i \in 1 .. n : s <= i => DescentLoops(e, path[i]) BY <1>5, OnTheCycle
  <2>4. ASSUME NEW i \in 1 .. n, i < s PROVE ~DescentLoops(e, path[i])
    <3>1. Parent(e, path[n]) \in {path[j] : j \in {k \in 1 .. n : i < k}} BY <1>5, <2>4
    <3> QED BY <3>1, OffTheCycle
  <2>5. cycle \subseteq {w \in Listed(path) : DescentLoops(e, w)}
    <3> SUFFICES ASSUME NEW i \in s .. n PROVE path[i] \in Listed(path) /\ DescentLoops(e, path[i])
      BY <1>5
    <3>1. i \in 1 .. n /\ s <= i BY <2>1, <2>2
    <3> QED BY <1>1, <2>3, <3>1 DEF Listed
  <2>6. {w \in Listed(path) : DescentLoops(e, w)} \subseteq cycle
    <3> SUFFICES ASSUME NEW w \in Listed(path), DescentLoops(e, w) PROVE w \in cycle OBVIOUS
    <3>1. PICK i \in 1 .. n : w = path[i] BY <1>1 DEF Listed
    <3>2. i \in s .. n BY <2>1, <2>4, <3>1
    <3> QED BY <1>5, <3>1, <3>2
  <2> QED BY <2>5, <2>6
<1> HIDE DEF n
<1> QED BY <1>3, <1>4, <1>5 DEF WalkEnds, n
CycleState(order) == [n : 0 .. Len(order), done : SUBSET Worker, cycles : SUBSET Worker]

(* Between two walks: whoever has been walked to leads nowhere else, and   *)
(* those of them are marked that are on a cycle.                           *)
Marked(e, order) ==
  {at \in CycleState(order) :
     /\ ParentClosed(e, at.done)
     /\ at.cycles = {w \in at.done : DescentLoops(e, w)}
     /\ \A i \in 1 .. at.n : order[i] \in at.done}

LEMMA NextWalkIs ==
  ASSUME NEW file \in Seq(Entry), NEW order \in Seq(Worker), IsFiniteSet(Worker),
         NEW at \in CycleState(order)
  PROVE  LET next == NextWalk(file, order)[at]
         IN  /\ next \in CycleState(order)
             /\ (at.n = Len(order) /\ next = at) \/ (at.n < Len(order) /\ next.n = at.n + 1)
             /\ at \in Marked(Edges(file), order) => next \in Marked(Edges(file), order)
<1> DEFINE e    == Edges(file)
           next == NextWalk(file, order)[at]
           from == order[at.n + 1]
           walk == WalkUp(e, at.done, from)
           N    == Len(order)
<1>0. e \in Chart /\ N \in Nat BY EdgesAre
<1>1. /\ at.n \in 0 .. N /\ at.done \in SUBSET Worker /\ at.cycles \in SUBSET Worker
      /\ at = [n |-> at.n, done |-> at.done, cycles |-> at.cycles]
  BY DEF CycleState
<1>2. CASE at.n = N
  <2>1. next = at BY <1>2 DEF NextWalk, CycleState
  <2> QED BY <1>2, <2>1
<1>3. CASE at.n # N
  <2>1. at.n \in Nat /\ at.n < N /\ at.n + 1 \in 1 .. N /\ at.n + 1 \in 0 .. N
    <3> HIDE DEF N
    <3> QED BY <1>0, <1>1, <1>3
  <2>2. from \in Worker BY <2>1
  <2>3. \A i \in 1 .. at.n + 1 : i \in 1 .. at.n \/ i = at.n + 1 BY <2>1
  <2>4. CASE from \in at.done
    <3>1. next = [at EXCEPT !.n = @ + 1] BY <1>3, <2>4 DEF NextWalk, CycleState
    <3>2. next = [n |-> at.n + 1, done |-> at.done, cycles |-> at.cycles] BY <1>1, <3>1
    <3> HIDE DEF next, N, e
    <3>3. next \in CycleState(order) BY <1>1, <2>1, <3>2 DEF CycleState, N
    <3>4. at \in Marked(e, order) => next \in Marked(e, order)
      <4> SUFFICES ASSUME at \in Marked(e, order) PROVE next \in Marked(e, order) OBVIOUS
      <4>1. /\ ParentClosed(e, at.done) /\ at.cycles = {w \in at.done : DescentLoops(e, w)}
            /\ \A i \in 1 .. at.n : order[i] \in at.done
        BY DEF Marked
      <4>2. \A i \in 1 .. at.n + 1 : order[i] \in at.done BY <2>3, <2>4, <4>1
      <4>3. next.n = at.n + 1 /\ next.done = at.done /\ next.cycles = at.cycles BY <3>2
      <4> QED BY <3>3, <4>1, <4>2, <4>3 DEF Marked
    <3>5. next.n = at.n + 1 BY <3>2
    <3> QED BY <2>1, <3>3, <3>4, <3>5 DEF next, N, e
  <2>5. CASE from \notin at.done
    <3>1. next = [n |-> at.n + 1, done |-> at.done \cup Listed(walk.path),
                  cycles |-> at.cycles \cup walk.cycle]
      BY <1>3, <2>5 DEF NextWalk, CycleState, Listed
    <3>2. walk \in Walking(e, at.done, from) /\ walk.cur = NoOne BY <1>0, <1>1, <2>2, <2>5, WalkUpIs
    <3> HIDE DEF walk, next, N, e
    <3>3. /\ walk.path \in Seq(Worker) /\ walk.cycle \in SUBSET Worker
          /\ Path(e, at.done, from, walk.path) /\ WalkEnds(e, at.done, walk.path, walk.cycle)
          /\ Len(walk.path) # 0
      BY <2>2, <3>2, NoOneAssumption DEF Walking, WalkState
    <3>4. Listed(walk.path) \in SUBSET Worker BY <3>3 DEF Listed
    <3>5. next \in CycleState(order) BY <1>1, <2>1, <3>1, <3>3, <3>4 DEF CycleState, N
    <3>6. at \in Marked(e, order) => next \in Marked(e, order)
      <4> SUFFICES ASSUME at \in Marked(e, order) PROVE next \in Marked(e, order) OBVIOUS
      <4>1. /\ ParentClosed(e, at.done) /\ at.cycles = {w \in at.done : DescentLoops(e, w)}
            /\ \A i \in 1 .. at.n : order[i] \in at.done
        BY DEF Marked
      <4>2. /\ ParentClosed(e, at.done \cup Listed(walk.path))
            /\ walk.cycle = {w \in Listed(walk.path) : DescentLoops(e, w)}
        <5>1. e \in Chart /\ at.done \in SUBSET Worker /\ ParentClosed(e, at.done) BY <1>0, <1>1, <4>1 DEF e
        <5>2. /\ Path(e, at.done, from, walk.path) /\ Len(walk.path) # 0
              /\ WalkEnds(e, at.done, walk.path, walk.cycle)
          BY <3>3
        <5> HIDE DEF from
        <5> QED BY <5>1, <5>2, WalkMarks
      <4>3. from \in Listed(walk.path)
        <5>1. 1 \in 1 .. Len(walk.path) /\ walk.path[1] = from
          <6>1. Len(walk.path) \in Nat BY <3>3
          <6> QED BY <3>3, <6>1 DEF Path
        <5> QED BY <3>3, <5>1, PathIs
      <4>4. \A i \in 1 .. at.n + 1 : order[i] \in at.done \cup Listed(walk.path) BY <2>3, <4>1, <4>3
      <4>5. next.n = at.n + 1 /\ next.done = at.done \cup Listed(walk.path)
            /\ next.cycles = at.cycles \cup walk.cycle
        BY <3>1
      <4>6. next.cycles = {w \in next.done : DescentLoops(e, w)} BY <4>1, <4>2, <4>5
      <4> QED BY <3>5, <4>2, <4>4, <4>5, <4>6 DEF Marked
    <3>7. next.n = at.n + 1 BY <3>1
    <3> QED BY <2>1, <3>5, <3>6, <3>7 DEF next, N, e
  <2> QED BY <2>4, <2>5
<1> QED BY <1>2, <1>3

LEMMA CyclesSaySo ==
  ASSUME NEW file \in Seq(Entry), IsFiniteSet(Worker)
  PROVE  CyclesAreNamed(file)
<1> DEFINE e   == Edges(file)
           IDs == Members(e)
<1> SUFFICES ASSUME NEW order \in Orders(file)
             PROVE  DetectCycles(file, order) = {w \in IDs : DescentLoops(e, w)}
  BY DEF CyclesAreNamed
<1>0. e \in Chart BY EdgesAre
<1>1. IsFiniteSet(IDs) /\ Cardinality(IDs) \in Nat /\ IDs \in SUBSET Worker
  <2>1. IDs \in SUBSET Worker BY DEF Members
  <2>2. IsFiniteSet(IDs) BY <2>1, FS_Subset
  <2> QED BY <2>1, <2>2, FS_CardinalityType
<1>2. /\ order \in [1 .. Cardinality(IDs) -> IDs]
      /\ \A w \in IDs : \E i \in DOMAIN order : order[i] = w
  BY DEF Orders
<1>3. order \in Seq(Worker) /\ Len(order) = Cardinality(IDs) /\ DOMAIN order = 1 .. Len(order)
  <2> DEFINE m == Cardinality(IDs)
  <2>1. order \in [1 .. m -> Worker] /\ m \in Nat BY <1>1, <1>2
  <2> HIDE DEF m
  <2>2. order \in Seq(Worker) BY <2>1
  <2>3. DOMAIN order = 1 .. m BY <2>1
  <2>4. Len(order) = m BY <2>1, <2>2, <2>3, LenProperties
  <2> QED BY <2>2, <2>4, <2>3 DEF m
<1> DEFINE N     == Len(order)
           R     == NextWalk(file, order)
           S     == CycleState(order)
           A     == Marked(e, order)
           start == [n |-> 0, done |-> {}, cycles |-> {}]
           size  == [at \in A |-> at.n]
           last  == Iterated(R, start, N)
<1>4. N \in Nat BY <1>3
<1>5. R \in [S -> S]
  <2>1. \A at \in S : R[at] \in S BY <1>3, NextWalkIs
  <2>2. R = [at \in S |-> R[at]] BY DEF NextWalk, CycleState
  <2> HIDE DEF R, S
  <2> QED BY <2>1, <2>2
<1>6. A \in SUBSET S BY DEF Marked
<1>7. start \in A
  <2>1. start.n = 0 /\ start.done = {} /\ start.cycles = {} /\ start \in S
    <3>1. 0 \in 0 .. N
      <4> HIDE DEF N
      <4> QED BY <1>4
    <3> QED BY <3>1 DEF CycleState
  <2> HIDE DEF start
  <2> QED BY <2>1 DEF Marked, ParentClosed
<1>8. \A at \in A : /\ R[at] \in A
                    /\ (at.n = N /\ R[at] = at) \/ (at.n < N /\ R[at].n = at.n + 1)
  <2> TAKE at \in A
  <2>1. at \in S BY <1>6
  <2> QED BY <1>3, <2>1, NextWalkIs
<1>9. \A at \in A : at.n \in 0 .. N BY DEF Marked, CycleState
<1> HIDE DEF N, R, S, A, start
<1>10. size \in [A -> 0 .. N] BY <1>9
<1>11. \A at \in A : R[at] \in A /\ (R[at] = at \/ size[at] < size[R[at]])
  <2> TAKE at \in A
  <2>1. at.n \in 0 .. N BY <1>9
  <2> QED BY <1>4, <1>8, <2>1
<1> HIDE DEF size
<1>12. last \in A BY <1>4, <1>5, <1>6, <1>7, <1>11, IterationKeeps
<1>13. R[last] = last
  <2>1. \A m \in Nat : N <= m => Iterated(R, start, m) = last
    BY <1>4, <1>5, <1>6, <1>7, <1>10, <1>11, IterationEnds
  <2>2. N + 1 \in Nat /\ N <= N + 1 BY <1>4
  <2>3. Iterated(R, start, N + 1) = R[last] BY <1>4, <1>5, <1>6, <1>7, Iteration
  <2> QED BY <2>1, <2>2, <2>3
<1>14. DetectCycles(file, order) = last.cycles BY DEF DetectCycles, R, start, N
<1> HIDE DEF last
<1>15. last.n = N
  <2>1. last.n \in 0 .. N BY <1>9, <1>12
  <2>2. last.n # last.n + 1 BY <1>4, <2>1
  <2> QED BY <1>8, <1>12, <1>13, <2>2
<1>16. /\ last.cycles = {w \in last.done : DescentLoops(e, w)}
       /\ \A i \in 1 .. N : order[i] \in last.done
  BY <1>12, <1>15 DEF A, Marked
<1>17. IDs \subseteq last.done
  <2>1. DOMAIN order = 1 .. N BY <1>3 DEF N
  <2> QED BY <1>2, <1>16, <2>1
<1>18. \A w : DescentLoops(e, w) => w \in IDs BY DEF DescentLoops, Descendants
<1> QED BY <1>14, <1>16, <1>17, <1>18
-----------------------------------------------------------------------------
(* loadOrgChartFile. *)

(* A chart whose every subset goes round somewhere has a worker below      *)
(* themselves: a walk from inside the subset finds one.                    *)
LEMMA RoundIsBelow ==
  ASSUME NEW e \in Chart, IsFiniteSet(Worker), ~Acyclic(e)
  PROVE  \E w \in Members(e) : DescentLoops(e, w)
<1>1. PICK S \in SUBSET Members(e) : S # {} /\ \A w \in S : Parent(e, w) \in S BY DEF Acyclic
<1>2. PICK from \in S : TRUE BY <1>1
<1>3. S \in SUBSET Worker /\ from \in Worker /\ {} \in SUBSET Worker BY <1>1, <1>2 DEF Members
<1> DEFINE at   == WalkUp(e, {}, from)
           path == at.path
           n    == Len(path)
<1>4. at \in Walking(e, {}, from) /\ at.cur = NoOne BY <1>3, WalkUpIs
<1> HIDE DEF at
<1>5. Path(e, {}, from, path) /\ WalkEnds(e, {}, path, at.cycle) /\ n # 0
  BY <1>3, <1>4, NoOneAssumption DEF Walking
<1>6. n \in Nat /\ 1 \in 1 .. n /\ n \in 1 .. n /\ path[1] = from
  <2>1. n \in Nat BY <1>5, PathIs
  <2>2. path[1] = from BY <1>5 DEF Path
  <2> HIDE DEF path, n
  <2>3. n # 0 BY <1>5 DEF path, n
  <2> QED BY <2>1, <2>2, <2>3
<1> HIDE DEF path
<1>7. ParentClosed(e, S) BY <1>1 DEF ParentClosed
<1>8. \A b \in 1 .. n : path[b] \in S
  <2>1. path[1] \in S BY <1>2, <1>6
  <2>2. \A b \in 1 .. n : 1 <= b => path[b] \in S BY <1>3, <1>5, <1>6, <1>7, <2>1, PathAbove DEF path
  <2>3. \A b \in 1 .. n : 1 <= b
    <3> HIDE DEF n
    <3> QED BY <1>6
  <2> QED BY <2>2, <2>3
<1>9. path[n] \in Members(e) /\ Parent(e, path[n]) \in S /\ Parent(e, path[n]) # NoOne
  BY <1>1, <1>3, <1>6, <1>8, NoOneAssumption
<1>10. PICK s \in 1 .. n : Parent(e, path[n]) = path[s] BY <1>5, <1>9 DEF WalkEnds, path
<1>11. s <= s
  <2> HIDE DEF n
  <2> QED BY <1>6
<1>12. DescentLoops(e, path[s]) BY <1>5, <1>9, <1>10, <1>11, OnTheCycle DEF path
<1> QED BY <1>1, <1>8, <1>10, <1>12

(* What the checks of a file come to. *)
Fine(file) ==
  /\ Unnamed(file) = {} /\ Duplicated(file) = {} /\ Unresolved(file) = {}
  /\ \A w \in Members(Edges(file)) : ~DescentLoops(Edges(file), w)

(* The chart holds the entries D, and they stand where they say. *)
Loaded(file, D, chart) ==
  /\ chart \in Chart /\ Forest(chart)
  /\ \A i \in D : file[i].id \in Worker /\ chart[file[i].id] = RowOf(file[i])
  /\ \A i, j \in D : i # j => file[i].id # file[j].id
  /\ Members(chart) = {file[i].id : i \in D}

LEMMA EntryIs ==
  ASSUME NEW file \in Seq(Entry), NEW i \in DOMAIN file
  PROVE  /\ file[i].id \in Worker \cup {NoOne}
         /\ RowOf(file[i]) \in Row
         /\ RowOf(file[i]).reportsTo = file[i].reportsTo
         /\ file[i].reportsTo \in Worker \cup {NoOne}
<1>1. file[i] \in Entry OBVIOUS
<1> QED BY <1>1 DEF Entry, RowOf, Row

LEMMA LoadedGrows ==
  ASSUME NEW file \in Seq(Entry), NEW D \in SUBSET DOMAIN file, NEW chart, Loaded(file, D, chart),
         NEW i \in DOMAIN file \ D, file[i].id # NoOne, file[i].id \notin Members(chart),
         CanAdd(chart, file[i].id, RowOf(file[i]))
  PROVE  Loaded(file, D \cup {i}, PutRow(chart, file[i].id, RowOf(file[i])))
<1> DEFINE w    == file[i].id
           row  == RowOf(file[i])
           next == PutRow(chart, w, row)
<1>1. w \in Worker /\ row \in Row BY EntryIs
<1>2. /\ chart \in Chart /\ Forest(chart)
      /\ \A j \in D : file[j].id \in Worker /\ chart[file[j].id] = RowOf(file[j])
      /\ \A j, k \in D : j # k => file[j].id # file[k].id
      /\ Members(chart) = {file[j].id : j \in D}
  BY DEF Loaded
<1> HIDE DEF w, row, next
<1>3. w = file[i].id /\ row = RowOf(file[i]) BY DEF w, row
<1>4. next \in Chart /\ Members(next) = Members(chart) \cup {w} BY <1>1, <1>2, PutRowEdges DEF next
<1>5. Forest(next)
  <2>1. CanAdd(chart, w, row) BY <1>3
  <2> QED BY <1>1, <1>2, <2>1, AddForest DEF next
<1>6. next[w] = row /\ \A v \in Worker : v # w => next[v] = chart[v]
  BY <1>1, <1>2 DEF next, PutRow, Chart
<1>7. \A j \in D : file[j].id # w BY <1>2, <1>3
<1>8. \A j \in D \cup {i} : file[j].id \in Worker /\ next[file[j].id] = RowOf(file[j])
  BY <1>1, <1>2, <1>3, <1>6, <1>7
<1>9. \A j, k \in D \cup {i} : j # k => file[j].id # file[k].id BY <1>2, <1>3, <1>7
<1>10. Members(next) = {file[j].id : j \in D \cup {i}} BY <1>2, <1>3, <1>4
<1> QED BY <1>4, <1>5, <1>8, <1>9, <1>10 DEF Loaded, next, w, row

LoadState(file) ==
  [todo : SUBSET DOMAIN file, deferred : SUBSET DOMAIN file, chart : Chart, failed : BOOLEAN]

(* In a pass that began with the entries P to do and the chart c: whoever  *)
(* is deferred could not be added to c.                                    *)
Loading(file, P, c) ==
  {at \in LoadState(file) :
     /\ at.failed => at.todo # {} /\ Unnamed(file) \cup Duplicated(file) # {}
     /\ ~at.failed =>
          /\ at.todo \cup at.deferred \subseteq P /\ at.todo \cap at.deferred = {}
          /\ Loaded(file, DOMAIN file \ (at.todo \cup at.deferred), at.chart)
          /\ Members(c) \subseteq Members(at.chart)
          /\ \A i \in at.deferred : file[i].reportsTo \notin Members(c) \cup {NoOne}}

LEMMA LoadNextIs ==
  ASSUME NEW file \in Seq(Entry), NEW P \in SUBSET DOMAIN file, NEW c \in Chart,
         NEW at \in LoadState(file)
  PROVE  LET next == LoadNext(file)[at]
         IN  /\ next \in LoadState(file)
             /\ at \in Loading(file, P, c) => next \in Loading(file, P, c)
             /\ \/ next = at /\ (at.todo = {} \/ at.failed)
                \/ next.failed /\ next.todo = at.todo /\ ~at.failed
                \/ /\ ~next.failed /\ ~at.failed
                   /\ \E i \in at.todo : next.todo = at.todo \ {i}
<1> DEFINE next == LoadNext(file)[at]
           i    == Least(at.todo)
           w    == file[i].id
           D    == DOMAIN file \ (at.todo \cup at.deferred)
<1>1. /\ at.todo \in SUBSET DOMAIN file /\ at.deferred \in SUBSET DOMAIN file
      /\ at.chart \in Chart /\ at.failed \in BOOLEAN
      /\ at = [todo |-> at.todo, deferred |-> at.deferred, chart |-> at.chart, failed |-> at.failed]
  BY DEF LoadState
<1>2. CASE at.todo = {} \/ at.failed
  <2>1. next = at BY <1>2 DEF LoadNext, LoadState
  <2> QED BY <1>2, <2>1
<1>3. CASE at.todo # {} /\ ~at.failed
  <2>1. i \in at.todo /\ i \in DOMAIN file
    <3>1. DOMAIN file \in SUBSET Nat OBVIOUS
    <3>2. at.todo \in SUBSET Nat BY <1>1, <3>1
    <3>3. i \in at.todo BY <1>3, <3>2, LeastIs
    <3> QED BY <1>1, <3>3
  <2>2. /\ w \in Worker \cup {NoOne} /\ RowOf(file[i]) \in Row
        /\ RowOf(file[i]).reportsTo = file[i].reportsTo
    BY <2>1, EntryIs
  <2>3. CASE w = NoOne \/ w \in Members(at.chart)
    <3>1. next = [at EXCEPT !.failed = TRUE] BY <1>3, <2>3 DEF LoadNext, LoadState
    <3>2. next = [todo |-> at.todo, deferred |-> at.deferred, chart |-> at.chart, failed |-> TRUE]
      BY <1>1, <3>1
    <3> HIDE DEF next
    <3>3. next \in LoadState(file) BY <1>1, <3>2 DEF LoadState
    <3>4. next.failed /\ next.todo = at.todo BY <3>2
    <3>5. ASSUME at \in Loading(file, P, c) PROVE Unnamed(file) \cup Duplicated(file) # {}
      <4>1. CASE w = NoOne BY <2>1, <4>1 DEF Unnamed
      <4>2. CASE w # NoOne
        <5>1. Loaded(file, D, at.chart) BY <1>3, <3>5 DEF Loading
        <5>2. PICK j \in D : file[j].id = w BY <2>3, <4>2, <5>1 DEF Loaded
        <5>3. j \in DOMAIN file /\ j # i BY <2>1, <5>2
        <5>4. i \in 1 .. Len(file) /\ j \in 1 .. Len(file) /\ Len(file) \in Nat BY <2>1, <5>3
        <5> HIDE DEF i
        <5>5. j \in 1 .. i - 1 \/ i \in 1 .. j - 1 BY <5>3, <5>4
        <5>6. file[j].id = file[i].id /\ file[i].id # NoOne BY <4>2, <5>2
        <5> QED BY <2>1, <5>3, <5>5, <5>6 DEF Duplicated, Unnamed
      <4> QED BY <4>1, <4>2
    <3>6. at \in Loading(file, P, c) => next \in Loading(file, P, c)
      BY <1>3, <3>3, <3>4, <3>5 DEF Loading
    <3> QED BY <1>3, <3>3, <3>4, <3>6 DEF next
  <2>4. CASE w # NoOne /\ w \notin Members(at.chart) /\ CanAdd(at.chart, w, RowOf(file[i]))
    <3> DEFINE d == PutRow(at.chart, w, RowOf(file[i]))
    <3>1. next = [at EXCEPT !.todo = @ \ {i}, !.chart = PutRow(@, w, RowOf(file[i]))]
      BY <1>3, <2>4 DEF LoadNext, LoadState
    <3>2. next = [todo |-> at.todo \ {i}, deferred |-> at.deferred, chart |-> d, failed |-> at.failed]
      BY <1>1, <3>1
    <3>3. d \in Chart /\ Members(d) = Members(at.chart) \cup {w} BY <1>1, <2>2, <2>4, PutRowEdges
    <3> HIDE DEF next
    <3>4. next \in LoadState(file)
      <4> HIDE DEF d, i
      <4> QED BY <1>1, <3>2, <3>3 DEF LoadState
    <3>5. next.failed = at.failed /\ next.todo = at.todo \ {i} /\ next.deferred = at.deferred
          /\ next.chart = d
      BY <3>2
    <3>6. ASSUME at \in Loading(file, P, c) PROVE next \in Loading(file, P, c)
      <4>1. /\ at.todo \cup at.deferred \subseteq P /\ at.todo \cap at.deferred = {}
            /\ Loaded(file, D, at.chart)
            /\ Members(c) \subseteq Members(at.chart)
            /\ \A k \in at.deferred : file[k].reportsTo \notin Members(c) \cup {NoOne}
        BY <1>3, <3>6 DEF Loading
      <4>2. Loaded(file, D \cup {i}, d)
        <5>1. i \in DOMAIN file \ D BY <2>1
        <5>2. D \in SUBSET DOMAIN file OBVIOUS
        <5> HIDE DEF D, i
        <5> QED BY <2>4, <4>1, <5>1, <5>2, LoadedGrows
      <4> HIDE DEF i, d
      <4>3. DOMAIN file \ (next.todo \cup next.deferred) = D \cup {i} BY <1>1, <2>1, <3>5, <4>1
      <4> HIDE DEF D
      <4>4. /\ ~next.failed
            /\ next.todo \cup next.deferred \subseteq P /\ next.todo \cap next.deferred = {}
            /\ Loaded(file, DOMAIN file \ (next.todo \cup next.deferred), next.chart)
            /\ Members(c) \subseteq Members(next.chart)
            /\ \A k \in next.deferred : file[k].reportsTo \notin Members(c) \cup {NoOne}
        BY <1>3, <3>3, <3>5, <4>1, <4>2, <4>3
      <4> QED BY <3>4, <4>4 DEF Loading
    <3>7. ~next.failed /\ ~at.failed /\ \E k \in at.todo : next.todo = at.todo \ {k}
      BY <1>3, <2>1, <3>5
    <3> QED BY <3>4, <3>6, <3>7 DEF next
  <2>5. CASE w # NoOne /\ w \notin Members(at.chart) /\ ~CanAdd(at.chart, w, RowOf(file[i]))
    <3>1. next = [at EXCEPT !.todo = @ \ {i}, !.deferred = @ \cup {i}]
      BY <1>3, <2>5 DEF LoadNext, LoadState
    <3>2. next = [todo |-> at.todo \ {i}, deferred |-> at.deferred \cup {i}, chart |-> at.chart,
                  failed |-> at.failed]
      BY <1>1, <3>1
    <3> HIDE DEF next
    <3>4. next \in LoadState(file)
      <4> HIDE DEF i
      <4> QED BY <1>1, <2>1, <3>2 DEF LoadState
    <3>5. next.failed = at.failed /\ next.todo = at.todo \ {i} /\ next.deferred = at.deferred \cup {i}
          /\ next.chart = at.chart
      BY <3>2
    <3>6. ASSUME at \in Loading(file, P, c) PROVE next \in Loading(file, P, c)
      <4>1. /\ at.todo \cup at.deferred \subseteq P /\ at.todo \cap at.deferred = {}
            /\ Loaded(file, D, at.chart)
            /\ Members(c) \subseteq Members(at.chart)
            /\ \A k \in at.deferred : file[k].reportsTo \notin Members(c) \cup {NoOne}
        BY <1>3, <3>6 DEF Loading
      <4>2. file[i].reportsTo \notin Members(c) \cup {NoOne} BY <2>2, <2>5, <4>1 DEF CanAdd
      <4> HIDE DEF i
      <4>3. DOMAIN file \ (next.todo \cup next.deferred) = D BY <2>1, <3>5
      <4> HIDE DEF D
      <4>4. /\ ~next.failed
            /\ next.todo \cup next.deferred \subseteq P /\ next.todo \cap next.deferred = {}
            /\ Loaded(file, DOMAIN file \ (next.todo \cup next.deferred), next.chart)
            /\ Members(c) \subseteq Members(next.chart)
            /\ \A k \in next.deferred : file[k].reportsTo \notin Members(c) \cup {NoOne}
        BY <1>3, <2>1, <3>5, <4>1, <4>2, <4>3
      <4> QED BY <3>4, <4>4 DEF Loading
    <3>7. ~next.failed /\ ~at.failed /\ \E k \in at.todo : next.todo = at.todo \ {k}
      BY <1>3, <2>1, <3>5
    <3> QED BY <3>4, <3>6, <3>7 DEF next
  <2> QED BY <2>3, <2>4, <2>5
<1> QED BY <1>2, <1>3
(* A pass is over when its entries are, unless it fails. *)
LEMMA LoadingIs ==
  ASSUME NEW file \in Seq(Entry), NEW P \in SUBSET DOMAIN file, NEW c \in Chart
  PROVE  LET start == [todo |-> P, deferred |-> {}, chart |-> c, failed |-> FALSE]
             pass  == Iterated(LoadNext(file), start, Len(file))
         IN  /\ pass \in LoadState(file)
             /\ Loaded(file, DOMAIN file \ P, c)
                  => pass \in Loading(file, P, c) /\ (pass.failed \/ pass.todo = {})
<1> DEFINE start == [todo |-> P, deferred |-> {}, chart |-> c, failed |-> FALSE]
           R     == LoadNext(file)
           S     == LoadState(file)
           A     == Loading(file, P, c)
           N     == Len(file)
           pass  == Iterated(R, start, N)
           size  == [at \in A |-> (N - Cardinality(at.todo)) + (IF at.failed THEN 1 ELSE 0)]
<1>0. N \in Nat /\ DOMAIN file = 1 .. N OBVIOUS
<1>1. IsFiniteSet(DOMAIN file) /\ Cardinality(DOMAIN file) = N
  <2>1. \A n \in Nat : IsFiniteSet(1 .. n) /\ Cardinality(1 .. n) = n BY FS_Interval
  <2> HIDE DEF N
  <2> QED BY <1>0, <2>1
<1>2. start \in S BY DEF LoadState
<1>3. /\ \A at \in S : R[at] \in S
      /\ \A at \in S : at \in A => R[at] \in A
      /\ \A at \in S : \/ R[at] = at /\ (at.todo = {} \/ at.failed)
                       \/ R[at].failed /\ R[at].todo = at.todo /\ ~at.failed
                       \/ /\ ~R[at].failed /\ ~at.failed
                          /\ \E i \in at.todo : R[at].todo = at.todo \ {i}
  BY LoadNextIs
<1>4. R \in [S -> S]
  <2>1. R = [at \in S |-> R[at]] BY DEF LoadNext, LoadState
  <2> HIDE DEF R, S
  <2> QED BY <1>3, <2>1
<1>5. pass \in S
  <2> HIDE DEF R, S, start, N
  <2> QED BY <1>0, <1>2, <1>4, Iteration
<1>6. ASSUME Loaded(file, DOMAIN file \ P, c) PROVE pass \in A /\ (pass.failed \/ pass.todo = {})
  <2>1. start \in A
    <3>1. start.todo = P /\ start.deferred = {} /\ start.chart = c /\ start.failed = FALSE OBVIOUS
    <3> HIDE DEF start
    <3>2. DOMAIN file \ (start.todo \cup start.deferred) = DOMAIN file \ P BY <3>1
    <3> QED BY <1>2, <1>6, <3>1, <3>2 DEF Loading
  <2>2. A \in SUBSET S BY DEF Loading
  <2>3. \A at \in A : at.todo \in SUBSET DOMAIN file /\ at.failed \in BOOLEAN
                      /\ (at.failed => at.todo # {})
    BY DEF Loading, LoadState
  <2> HIDE DEF A, S, R, start, N
  <2>4. ASSUME NEW at \in A
        PROVE  /\ IsFiniteSet(at.todo)
               /\ Cardinality(at.todo) \in 0 .. N
               /\ at.failed => Cardinality(at.todo) # 0
    <3>1. IsFiniteSet(at.todo) /\ Cardinality(at.todo) <= N BY <1>1, <2>3, FS_Subset
    <3>2. Cardinality(at.todo) \in Nat BY <3>1, FS_CardinalityType
    <3>3. Cardinality(at.todo) = 0 => at.todo = {} BY <3>1, FS_EmptySet
    <3> QED BY <1>0, <2>3, <3>1, <3>2, <3>3
  <2>5. size \in [A -> 0 .. N]
    <3>1. ASSUME NEW at \in A
          PROVE  (N - Cardinality(at.todo)) + (IF at.failed THEN 1 ELSE 0) \in 0 .. N
      <4>1. CASE at.failed BY <1>0, <2>4, <4>1
      <4>2. CASE ~at.failed BY <1>0, <2>4, <4>2
      <4> QED BY <4>1, <4>2
    <3> QED BY <3>1
  <2>6. \A at \in A : size[at] = (N - Cardinality(at.todo)) + (IF at.failed THEN 1 ELSE 0) OBVIOUS
  <2> HIDE DEF size
  <2>7. ASSUME NEW at \in A PROVE R[at] \in A /\ (R[at] = at \/ size[at] < size[R[at]])
    <3>1. at \in S /\ R[at] \in A BY <1>3, <2>2
    <3>2. Cardinality(at.todo) \in 0 .. N /\ IsFiniteSet(at.todo) BY <2>4
    <3>3. CASE R[at].failed /\ R[at].todo = at.todo /\ ~at.failed
      <4>1. size[at] = (N - Cardinality(at.todo)) + 0 /\ size[R[at]] = (N - Cardinality(at.todo)) + 1
        BY <2>6, <3>1, <3>3
      <4> QED BY <1>0, <3>1, <3>2, <4>1
    <3>4. CASE ~R[at].failed /\ ~at.failed /\ \E i \in at.todo : R[at].todo = at.todo \ {i}
      <4>1. PICK i \in at.todo : R[at].todo = at.todo \ {i} BY <3>4
      <4>2. Cardinality(R[at].todo) = Cardinality(at.todo) - 1
        <5>1. Cardinality(at.todo \ {i}) = Cardinality(at.todo) - 1 BY <3>2, FS_RemoveElement
        <5> QED BY <4>1, <5>1
      <4>3. size[at] = (N - Cardinality(at.todo)) + 0 /\ size[R[at]] = (N - Cardinality(R[at].todo)) + 0
        BY <2>6, <3>1, <3>4
      <4> QED BY <1>0, <3>1, <3>2, <4>2, <4>3
    <3> QED BY <1>3, <3>1, <3>3, <3>4
  <2>8. pass \in A BY <1>0, <1>4, <2>1, <2>2, <2>7, IterationKeeps
  <2>9. R[pass] = pass
    <3>1. \A m \in Nat : N <= m => Iterated(R, start, m) = pass
      BY <1>0, <1>4, <2>1, <2>2, <2>5, <2>7, IterationEnds
    <3>2. N + 1 \in Nat /\ N <= N + 1 BY <1>0
    <3>3. Iterated(R, start, N + 1) = R[pass] BY <1>0, <1>4, <2>1, <2>2, Iteration
    <3> QED BY <3>1, <3>2, <3>3
  <2> HIDE DEF pass
  <2> QED BY <1>3, <2>2, <2>8, <2>9
<1> QED BY <1>5, <1>6

OverState(file) == [pending : SUBSET DOMAIN file, chart : Chart, failed : BOOLEAN]

(* Between two passes: the chart holds the entries that are not pending;   *)
(* no file the checks let through has failed.                              *)
Over(file) ==
  {at \in OverState(file) :
     /\ at.failed => ~Fine(file)
     /\ ~at.failed => Loaded(file, DOMAIN file \ at.pending, at.chart)}

(* Entries none of which can be added report to each other. *)
LEMMA NothingLoads ==
  ASSUME NEW file \in Seq(Entry), NEW P \in SUBSET DOMAIN file, NEW c, IsFiniteSet(Worker),
         Loaded(file, DOMAIN file \ P, c), P # {},
         \A i \in P : file[i].reportsTo \notin Members(c) \cup {NoOne}
  PROVE  ~Fine(file)
<1> SUFFICES ASSUME Fine(file) PROVE FALSE OBVIOUS
<1> DEFINE e == Edges(file)
           B == {file[i].id : i \in P}
<1>1. /\ e \in Chart
      /\ \A w \in Members(e) :
           \E i \in Placed(file) \ Unresolved(file) : file[i].id = w /\ e[w] = RowOf(file[i])
      /\ \A i \in Placed(file) \ Unresolved(file) : file[i].id \in Members(e)
  BY EdgesAre
<1>2. \A i \in P : i \in Placed(file) /\ i \notin Unresolved(file)
  <2> TAKE i \in P
  <2>1. i \in DOMAIN file /\ file[i].reportsTo # NoOne OBVIOUS
  <2>2. file[i].id # NoOne /\ Unresolved(file) = {} BY <2>1 DEF Fine, Unnamed
  <2> QED BY <2>1, <2>2 DEF Placed
<1>3. B \in SUBSET Members(e) /\ B # {} BY <1>1, <1>2
<1>4. \A i \in P : file[i].reportsTo \in B
  <2> TAKE i \in P
  <2>1. file[i].reportsTo \in Declared(file) BY <1>2 DEF Unresolved
  <2>2. PICK j \in DOMAIN file : file[j].id = file[i].reportsTo BY <2>1 DEF Declared
  <2>3. j \in P
    <3> SUFFICES ASSUME j \in DOMAIN file \ P PROVE FALSE OBVIOUS
    <3>1. file[j].id \in Members(c) BY DEF Loaded
    <3> QED BY <2>2, <3>1
  <2> QED BY <2>2, <2>3
<1>5. ASSUME NEW w \in B PROVE Parent(e, w) \in B
  <2>1. w \in Members(e) BY <1>3
  <2>2. PICK i \in Placed(file) \ Unresolved(file) : file[i].id = w /\ e[w] = RowOf(file[i])
    BY <1>1, <2>1
  <2>3. PICK k \in P : file[k].id = w OBVIOUS
  <2>4. i \in DOMAIN file /\ k \in DOMAIN file /\ file[i].id # NoOne BY <2>2 DEF Placed
  <2>5. i = k
    <3>1. i \in 1 .. Len(file) /\ k \in 1 .. Len(file) /\ Len(file) \in Nat BY <2>4
    <3>2. i # k => i \in 1 .. k - 1 \/ k \in 1 .. i - 1 BY <3>1
    <3>3. \A j, m \in DOMAIN file : j \in 1 .. m - 1 /\ file[j].id # NoOne => file[j].id # file[m].id
      BY DEF Fine, Duplicated, Unnamed
    <3> QED BY <2>2, <2>3, <2>4, <3>2, <3>3
  <2>6. Parent(e, w) = file[k].reportsTo BY <2>2, <2>4, <2>5, EntryIs DEF Parent
  <2> QED BY <1>4, <2>6
<1>6. ~Acyclic(e) BY <1>3, <1>5 DEF Acyclic
<1>7. \E w \in Members(e) : DescentLoops(e, w) BY <1>1, <1>6, RoundIsBelow
<1> QED BY <1>7 DEF Fine

LEMMA LoadPassIs ==
  ASSUME NEW file \in Seq(Entry), IsFiniteSet(Worker), NEW at \in OverState(file)
  PROVE  LET next == LoadPass(file)[at]
         IN  /\ next \in OverState(file)
             /\ at \in Over(file) => /\ next \in Over(file)
                                     /\ \/ next = at /\ (at.failed \/ at.pending = {})
                                        \/ ~at.failed /\ next.failed
                                        \/ /\ ~at.failed /\ ~next.failed
                                           /\ next.pending \subseteq at.pending
                                           /\ next.pending # at.pending
<1> DEFINE next  == LoadPass(file)[at]
           start == [todo |-> at.pending, deferred |-> {}, chart |-> at.chart, failed |-> FALSE]
           pass  == Iterated(LoadNext(file), start, Len(file))
<1>1. at.pending \in SUBSET DOMAIN file /\ at.chart \in Chart /\ at.failed \in BOOLEAN
  BY DEF OverState
<1>2. CASE at.failed \/ at.pending = {}
  <2>1. next = at BY <1>2 DEF LoadPass, OverState
  <2> QED BY <1>2, <2>1
<1>3. CASE ~at.failed /\ at.pending # {}
  <2>1. next = [pending |-> pass.deferred, chart |-> pass.chart,
                failed  |-> pass.failed \/ pass.deferred = at.pending]
    BY <1>3 DEF LoadPass, OverState
  <2>2. /\ pass \in LoadState(file)
        /\ Loaded(file, DOMAIN file \ at.pending, at.chart)
             => pass \in Loading(file, at.pending, at.chart) /\ (pass.failed \/ pass.todo = {})
    BY <1>1, LoadingIs
  <2> HIDE DEF pass, next
  <2>3. pass.deferred \in SUBSET DOMAIN file /\ pass.chart \in Chart /\ pass.failed \in BOOLEAN
    BY <2>2 DEF LoadState
  <2>4. next.pending = pass.deferred /\ next.chart = pass.chart
        /\ next.failed = (pass.failed \/ pass.deferred = at.pending)
    BY <2>1
  <2>5. next \in OverState(file) BY <2>1, <2>3 DEF OverState
  <2>6. ASSUME at \in Over(file)
        PROVE  /\ next \in Over(file)
               /\ next.failed \/ (next.pending \subseteq at.pending /\ next.pending # at.pending)
    <3>1. Loaded(file, DOMAIN file \ at.pending, at.chart) BY <1>3, <2>6 DEF Over
    <3>2. pass \in Loading(file, at.pending, at.chart) /\ (pass.failed \/ pass.todo = {})
      BY <2>2, <3>1
    <3>3. CASE pass.failed
      <4>1. Unnamed(file) \cup Duplicated(file) # {} BY <3>2, <3>3 DEF Loading
      <4>2. ~Fine(file) BY <4>1 DEF Fine
      <4>3. next.failed BY <2>4, <3>3
      <4> QED BY <2>5, <4>2, <4>3 DEF Over
    <3>4. CASE ~pass.failed
      <4>1. /\ pass.todo = {} /\ pass.todo \cup pass.deferred \subseteq at.pending
            /\ Loaded(file, DOMAIN file \ (pass.todo \cup pass.deferred), pass.chart)
            /\ \A i \in pass.deferred : file[i].reportsTo \notin Members(at.chart) \cup {NoOne}
        BY <3>2, <3>4 DEF Loading
      <4>2. pass.deferred \subseteq at.pending /\ Loaded(file, DOMAIN file \ pass.deferred, pass.chart)
        <5>1. pass.todo \cup pass.deferred = pass.deferred BY <4>1
        <5> QED BY <4>1, <5>1
      <4>3. CASE pass.deferred = at.pending
        <5>1. ~Fine(file) BY <1>1, <1>3, <3>1, <4>1, <4>3, NothingLoads
        <5>2. next.failed BY <2>4, <4>3
        <5> QED BY <2>5, <5>1, <5>2 DEF Over
      <4>4. CASE pass.deferred # at.pending
        <5>1. ~next.failed BY <2>4, <3>4, <4>4
        <5> QED BY <2>4, <2>5, <4>2, <4>4, <5>1 DEF Over
      <4> QED BY <4>3, <4>4
    <3> QED BY <3>3, <3>4
  <2> QED BY <1>3, <2>5, <2>6 DEF next
<1> QED BY <1>2, <1>3
LEMMA LoadSaysSo ==
  ASSUME NEW file \in Seq(Entry), IsFiniteSet(Worker)
  PROVE  AcceptedLoads(file)
<1> DEFINE N      == Len(file)
           R      == LoadPass(file)
           S      == OverState(file)
           A      == Over(file)
           start  == [pending |-> DOMAIN file, chart |-> EmptyChart, failed |-> FALSE]
           loaded == Iterated(R, start, N + 1)
           size   == [at \in A |-> IF at.failed THEN N + 1 ELSE N - Cardinality(at.pending)]
<1>0. N \in Nat /\ N + 1 \in Nat /\ DOMAIN file = 1 .. N OBVIOUS
<1>1. IsFiniteSet(DOMAIN file) /\ Cardinality(DOMAIN file) = N
  <2>1. \A n \in Nat : IsFiniteSet(1 .. n) /\ Cardinality(1 .. n) = n BY FS_Interval
  <2> HIDE DEF N
  <2> QED BY <1>0, <2>1
<1>2. \A at \in S : R[at] \in S BY LoadPassIs
<1>3. R \in [S -> S]
  <2>1. R = [at \in S |-> R[at]] BY DEF LoadPass, OverState
  <2> HIDE DEF R, S
  <2> QED BY <1>2, <2>1
<1>4. A \in SUBSET S BY DEF Over
<1>5. start \in A
  <2>1. start.pending = DOMAIN file /\ start.chart = EmptyChart /\ start.failed = FALSE /\ start \in S
    BY DEF OverState, EmptyChart, Chart
  <2>2. Members(EmptyChart) = {} /\ EmptyChart \in Chart BY DEF EmptyChart, Members, Chart
  <2>3. Forest(EmptyChart) BY <2>2 DEF Forest, Acyclic, NoDangling
  <2>4. DOMAIN file \ start.pending = {} BY <2>1
  <2> HIDE DEF start
  <2>5. Loaded(file, DOMAIN file \ start.pending, start.chart) BY <2>1, <2>2, <2>3, <2>4 DEF Loaded
  <2> QED BY <2>1, <2>5 DEF Over
<1>6. \A at \in A : /\ R[at] \in A
                    /\ \/ R[at] = at /\ (at.failed \/ at.pending = {})
                       \/ ~at.failed /\ R[at].failed
                       \/ /\ ~at.failed /\ ~R[at].failed
                          /\ R[at].pending \subseteq at.pending
                          /\ R[at].pending # at.pending
  <2> TAKE at \in A
  <2>1. at \in S BY <1>4
  <2> QED BY <2>1, LoadPassIs
<1>7. \A at \in A : at.pending \in SUBSET DOMAIN file /\ at.failed \in BOOLEAN BY DEF Over, OverState
<1> HIDE DEF N, R, S, A, start
<1>8. \A at \in A : IsFiniteSet(at.pending) /\ Cardinality(at.pending) \in 0 .. N
  <2> TAKE at \in A
  <2>1. IsFiniteSet(at.pending) /\ Cardinality(at.pending) <= N BY <1>1, <1>7, FS_Subset
  <2>2. Cardinality(at.pending) \in Nat BY <2>1, FS_CardinalityType
  <2> QED BY <1>0, <2>1, <2>2
<1>9. size \in [A -> 0 .. N + 1]
  <2>1. ASSUME NEW at \in A
        PROVE  (IF at.failed THEN N + 1 ELSE N - Cardinality(at.pending)) \in 0 .. N + 1
    <3>1. Cardinality(at.pending) \in 0 .. N BY <1>8
    <3> QED BY <1>0, <3>1
  <2> QED BY <2>1
<1>10. \A at \in A : size[at] = IF at.failed THEN N + 1 ELSE N - Cardinality(at.pending) OBVIOUS
<1> HIDE DEF size
<1>11. ASSUME NEW at \in A PROVE R[at] \in A /\ (R[at] = at \/ size[at] < size[R[at]])
  <2>1. R[at] \in A BY <1>6
  <2>2. Cardinality(at.pending) \in 0 .. N /\ Cardinality(R[at].pending) \in 0 .. N BY <1>8, <2>1
  <2>3. CASE ~at.failed /\ R[at].failed
    <3>1. size[at] = N - Cardinality(at.pending) /\ size[R[at]] = N + 1 BY <1>10, <2>1, <2>3
    <3> QED BY <1>0, <2>1, <2>2, <3>1
  <2>4. CASE /\ ~at.failed /\ ~R[at].failed
             /\ R[at].pending \subseteq at.pending /\ R[at].pending # at.pending
    <3>1. size[at] = N - Cardinality(at.pending) /\ size[R[at]] = N - Cardinality(R[at].pending)
      BY <1>10, <2>1, <2>4
    <3>2. /\ Cardinality(R[at].pending) <= Cardinality(at.pending)
          /\ Cardinality(R[at].pending) # Cardinality(at.pending)
      <4>1. IsFiniteSet(at.pending) BY <1>8
      <4>2. R[at].pending \in SUBSET at.pending BY <2>4
      <4>3. /\ Cardinality(R[at].pending) <= Cardinality(at.pending)
            /\ Cardinality(at.pending) = Cardinality(R[at].pending) => at.pending = R[at].pending
        BY <4>1, <4>2, FS_Subset
      <4> QED BY <2>4, <4>3
    <3> QED BY <1>0, <2>1, <2>2, <3>1, <3>2
  <2> QED BY <1>6, <2>1, <2>3, <2>4
<1>12. loaded \in A BY <1>0, <1>3, <1>4, <1>5, <1>11, IterationKeeps
<1>13. R[loaded] = loaded
  <2> DEFINE M == N + 1
  <2>1. M \in Nat /\ M + 1 \in Nat /\ M <= M + 1 BY <1>0
  <2>2. size \in [A -> 0 .. M] BY <1>9
  <2>3. loaded = Iterated(R, start, M) OBVIOUS
  <2> HIDE DEF M, loaded
  <2>4. \A m \in Nat : M <= m => Iterated(R, start, m) = Iterated(R, start, M)
    BY <1>3, <1>4, <1>5, <1>11, <2>1, <2>2, IterationEnds
  <2>5. Iterated(R, start, M + 1) = R[Iterated(R, start, M)] BY <1>3, <1>4, <1>5, <2>1, Iteration
  <2> QED BY <2>1, <2>3, <2>4, <2>5
<1>14. LoadOrgChartFile(file) = loaded BY DEF LoadOrgChartFile, R, start, N
<1> HIDE DEF loaded
<1>15. loaded.failed \/ loaded.pending = {} BY <1>6, <1>12, <1>13
<1>16. loaded.failed => ~Fine(file) BY <1>12 DEF A, Over
<1>17. ASSUME ~loaded.failed
       PROVE  /\ Fine(file)
              /\ Members(loaded.chart) = Declared(file)
              /\ \A i \in DOMAIN file : loaded.chart[file[i].id] = RowOf(file[i])
              /\ Forest(loaded.chart)
  <2> DEFINE chart == loaded.chart
             e     == Edges(file)
  <2>1. Loaded(file, DOMAIN file, chart)
    <3>1. DOMAIN file \ loaded.pending = DOMAIN file BY <1>15, <1>17
    <3> QED BY <1>12, <1>17, <3>1 DEF A, Over
  <2> HIDE DEF chart
  <2>2. /\ chart \in Chart /\ Forest(chart)
        /\ \A i \in DOMAIN file : file[i].id \in Worker /\ chart[file[i].id] = RowOf(file[i])
        /\ \A i, j \in DOMAIN file : i # j => file[i].id # file[j].id
        /\ Members(chart) = {file[i].id : i \in DOMAIN file}
    BY <2>1 DEF Loaded
  <2>3. Members(chart) = Declared(file) BY <2>2, NoOneAssumption DEF Declared
  <2>4. Unnamed(file) = {} BY <2>2, NoOneAssumption DEF Unnamed
  <2>5. Duplicated(file) = {}
    <3> SUFFICES ASSUME NEW i \in DOMAIN file, NEW j \in 1 .. i - 1, file[j].id = file[i].id PROVE FALSE
      BY DEF Duplicated
    <3>1. j \in DOMAIN file /\ i # j BY <1>0
    <3> QED BY <2>2, <3>1
  <2>6. \A w \in Members(chart) : Parent(chart, w) # w
    <3> TAKE w \in Members(chart)
    <3>1. {w} \in SUBSET Members(chart) /\ {w} # {} OBVIOUS
    <3>2. Parent(chart, w) \notin {w} BY <2>2, <3>1 DEF Forest, Acyclic
    <3> QED BY <3>2
  <2>7. Unresolved(file) = {}
    <3> SUFFICES ASSUME NEW i \in Placed(file),
                        file[i].reportsTo = file[i].id \/ file[i].reportsTo \notin Declared(file)
                 PROVE  FALSE
      BY DEF Unresolved
    <3>1. i \in DOMAIN file /\ file[i].reportsTo # NoOne BY DEF Placed
    <3>2. file[i].id \in Members(chart) /\ Parent(chart, file[i].id) = file[i].reportsTo
      BY <2>2, <3>1, EntryIs DEF Parent
    <3>3. file[i].reportsTo \in Members(chart) BY <2>2, <3>1, <3>2 DEF Forest, NoDangling
    <3> QED BY <2>3, <2>6, <3>2, <3>3
  <2>8. /\ e \in Chart
        /\ \A w \in Members(e) :
             \E i \in Placed(file) \ Unresolved(file) : file[i].id = w /\ e[w] = RowOf(file[i])
    BY EdgesAre
  <2> HIDE DEF e
  <2>9. ASSUME NEW w \in Members(e) PROVE w \in Members(chart) /\ Parent(e, w) = Parent(chart, w)
    <3>1. PICK i \in Placed(file) : file[i].id = w /\ e[w] = RowOf(file[i]) BY <2>8
    <3>2. i \in DOMAIN file BY DEF Placed
    <3> QED BY <2>2, <3>1, <3>2 DEF Parent
  <2>10. Acyclic(e)
    <3>1. Members(e) \subseteq Members(chart) /\ Acyclic(chart) BY <2>2, <2>9 DEF Forest
    <3> QED BY <2>2, <2>8, <2>9, <3>1, SubchartAcyclic
  <2>11. \A w \in Members(e) : ~DescentLoops(e, w) BY <2>8, <2>10, DescentEnds
  <2>12. Fine(file) BY <2>4, <2>5, <2>7, <2>11 DEF Fine, e
  <2> QED BY <2>2, <2>3, <2>12 DEF chart
<1>18. \A order \in Orders(file) : Accepted(file, order) <=> Fine(file)
  <2> TAKE order \in Orders(file)
  <2>1. DetectCycles(file, order) = {w \in Members(Edges(file)) : DescentLoops(Edges(file), w)}
    BY CyclesSaySo DEF CyclesAreNamed
  <2> QED BY <2>1 DEF Accepted, Fine
<1> QED BY <1>14, <1>16, <1>17, <1>18 DEF AcceptedLoads
=============================================================================
