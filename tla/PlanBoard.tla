------------------------------ MODULE PlanBoard ------------------------------
(***************************************************************************)
(* Plans: the items of an instance, what is checked of them when it is     *)
(* posted (pkg/reporting/instance.go), and the board they are rolled up to *)
(* (AggregatePlanIn and MergeItems of pkg/reporting/aggregate.go).         *)
(*                                                                         *)
(* A facet is [states, lanes, commitments, wip]; an item is [id, scope,    *)
(* state, lane, commitment, due, size, blockedBy], "", NoID and NoDue      *)
(* where it says nothing.  Horizons and levels are handled as lanes are.   *)
(***************************************************************************)
EXTENDS Integers, Sequences, FiniteSets, SequencesExt

NoDue == -1
NoID  == 0

IndexIn(s, x) == IF \E i \in DOMAIN s : s[i] = x THEN Min({i \in DOMAIN s : s[i] = x}) ELSE 0

-----------------------------------------------------------------------------
(* instance.go *)

IDs(items) == {items[i].id : i \in DOMAIN items} \ {NoID}

Declared(vocabulary, value) == value = "" \/ value \in ToSet(vocabulary)

(* The search of findItemCycle.  A walk is [state, path, cycle]: what is   *)
(* being visited and what is done, the way to where it is, and what it     *)
(* found; of an ID that occurs twice the blockers are taken together.      *)
BlockersOf(items, id) ==
  FlattenSeq([i \in DOMAIN items |-> IF items[i].id = id THEN items[i].blockedBy ELSE << >>])

(* Mutant of ClosesAt: an ID that was visited at all closes a cycle. *)
ClosesAnywhere(walk, id) == id \in walk.visiting \cup walk.done

ClosesAt(walk, id) == id \in walk.visiting

RECURSIVE Walk(_, _, _), WalkAll(_, _, _)
Walk(items, walk, id) ==
  CASE walk.cycle # << >> -> walk
    [] walk.cycle = << >> /\ ClosesAt(walk, id) ->
         [walk EXCEPT !.cycle = LET from == IndexIn(walk.path, id)
                                IN Append(SubSeq(walk.path, IF from = 0 THEN 1 ELSE from,
                                                 Len(walk.path)), id)]
    [] walk.cycle = << >> /\ ~ClosesAt(walk, id) /\ id \in walk.done -> walk
    [] OTHER ->
         LET known == SelectSeq(BlockersOf(items, id), LAMBDA dep : dep \in IDs(items))
             below == WalkAll(items, [walk EXCEPT !.visiting = @ \cup {id},
                                                  !.path = Append(@, id)], known)
         IN IF below.cycle # << >> THEN below
            ELSE [below EXCEPT !.visiting = @ \ {id}, !.done = @ \cup {id}, !.path = Front(@)]

WalkAll(items, walk, ids) ==
  IF ids = << >> THEN walk ELSE WalkAll(items, Walk(items, walk, Head(ids)), Tail(ids))

FindItemCycle(items) ==
  WalkAll(items, [visiting |-> {}, done |-> {}, path |-> << >>, cycle |-> << >>],
          SelectSeq([i \in DOMAIN items |-> items[i].id], LAMBDA id : id # NoID)).cycle

(* validateItems finds nothing wrong. *)
ItemsAreValid(facet, items) ==
  \A i \in DOMAIN items :
    LET it == items[i]
    IN /\ it.id # NoID /\ \A j \in 1 .. i - 1 : items[j].id # it.id
       /\ it.state \in ToSet(facet.states)
       /\ Declared(facet.lanes, it.lane) /\ Declared(facet.commitments, it.commitment)
       /\ it.size >= 0
       /\ \A dep \in ToSet(it.blockedBy) : dep # it.id /\ dep \in IDs(items)
       /\ FindItemCycle(items) = << >>

-----------------------------------------------------------------------------
(* The order in which items are kept. *)

StateRank(facet, state)       == IndexIn(facet.states, state) - 1
Terminal(facet, state)        == facet.states # << >> /\ state = Last(facet.states)
Blocked(it)                   == it.blockedBy # << >>
CommitmentRank(facet, c)      == IF c \in ToSet(facet.commitments) THEN IndexIn(facet.commitments, c) - 1
                                 ELSE Len(facet.commitments) + 1

(* What decides, in turn: the first in which two items differ. *)
SortKey(facet, it) ==
  <<IF Terminal(facet, it.state) THEN 1 ELSE 0,
    IF Blocked(it) THEN 0 ELSE 1,
    CommitmentRank(facet, it.commitment),
    IF it.due = NoDue THEN 1 ELSE 0,
    it.due,
    StateRank(facet, it.state),
    it.scope>>

(* Mutant of ItemLess: two teams' items of one ID are the same. *)
ItemLessByID(facet, a, b) ==
  LET p == SortKey(facet, a)  q == SortKey(facet, b)
      differ == {i \in 1 .. 6 : p[i] # q[i]}
  IN IF differ = {} THEN a.id < b.id ELSE p[Min(differ)] < q[Min(differ)]

ItemLess(facet, a, b) ==
  LET p == SortKey(facet, a)  q == SortKey(facet, b)
      differ == {i \in DOMAIN p : p[i] # q[i]}
  IN IF differ = {} THEN a.id < b.id ELSE p[Min(differ)] < q[Min(differ)]

BoardOrder(facet, items) ==
  LET Before(i, j) == \/ ItemLess(facet, items[i], items[j])
                      \/ (~ItemLess(facet, items[j], items[i]) /\ i < j)
  IN [k \in DOMAIN items |->
        items[CHOOSE i \in DOMAIN items : Cardinality({j \in DOMAIN items : Before(j, i)}) = k - 1]]

Prefix(s, n) == SubSeq(s, 1, Min({n, Len(s)}))

PlanItemCap == 500

(* sample(n) keeps n of each state, top(n) n in all, merge up to the cap;  *)
(* a parameter that is not positive keeps everything.                      *)
BoundItems(policy, ordered) ==
  CASE policy.name = "sample" /\ policy.n > 0 ->
         LET Room(i) == Cardinality({j \in 1 .. i - 1 : ordered[j].state = ordered[i].state}) < policy.n
             chosen  == SelectSeq([i \in DOMAIN ordered |-> i], Room)
         IN [k \in DOMAIN chosen |-> ordered[chosen[k]]]
    [] policy.name = "top" /\ policy.n > 0 -> Prefix(ordered, policy.n)
    [] policy.name \in {"sample", "top"} /\ policy.n <= 0 -> ordered
    [] OTHER -> Prefix(ordered, PlanItemCap)

(* tallyBucket: of all the items, whatever the bound left. *)
Tally(items) == [items |-> Len(items),
                 size  |-> FoldLeft(LAMBDA x, it : x + it.size, 0, items)]

(* boards is the items of each contributor, stamped with its scope. *)
AggregatePlan(facet, policy, boards) ==
  LET all  == FlattenSeq(boards)
      kept == IF policy.name = "count" THEN << >> ELSE BoundItems(policy, BoardOrder(facet, all))
      Column(state) == Tally(SelectSeq(all, LAMBDA it : it.state = state))
                         @@ [shown |-> Len(SelectSeq(kept, LAMBDA it : it.state = state)),
                             limit |-> facet.wip[state] * Len(boards)]
  IN [columns     |-> [i \in DOMAIN facet.states |-> Column(facet.states[i])],
      lanes       |-> [i \in DOMAIN facet.lanes |->
                         Tally(SelectSeq(all, LAMBDA it : it.lane = facet.lanes[i]))],
      commitments |-> [i \in DOMAIN facet.commitments |->
                         Tally(SelectSeq(all, LAMBDA it : it.commitment = facet.commitments[i]))],
      total       |-> Len(all),
      blocked     |-> Len(SelectSeq(all, Blocked)),
      items       |-> kept,
      truncated   |-> policy.name # "count" /\ Len(kept) < Len(all)]

MergeItems(facet, limit, batches) ==
  LET all == BoardOrder(facet, FlattenSeq(batches))
  IN IF limit > 0 THEN Prefix(all, limit) ELSE all

-----------------------------------------------------------------------------
(* A post is refused for a cycle of blockers exactly when there is one,    *)
(* and what is told of is one: each is blocked by the next.  What is       *)
(* accepted can be worked off: in some order every item comes after those  *)
(* that block it.                                                          *)
CyclesAreFound(facet, items) ==
  LET edges == {<<id, dep>> \in IDs(items) \X IDs(items) : dep \in ToSet(BlockersOf(items, id))}
      RECURSIVE From(_)
      From(S) == LET more == S \cup {e[2] : e \in {e \in edges : e[1] \in S}}
                 IN IF more = S THEN S ELSE From(more)
      cyclic  == \E id \in IDs(items) : id \in From({e[2] : e \in {e \in edges : e[1] = id}})
      found   == FindItemCycle(items)
  IN /\ found # << >> <=> cyclic
     /\ found # << >> => /\ Len(found) > 1 /\ Head(found) = Last(found)
                         /\ \A i \in 1 .. Len(found) - 1 : <<found[i], found[i + 1]>> \in edges
     /\ ItemsAreValid(facet, items) =>
          \E turn \in Permutations(DOMAIN items) : \A i, j \in DOMAIN items :
            items[j].id \in ToSet(items[i].blockedBy) => turn[j] < turn[i]

(* Bounding the cards moves no total: the columns, lanes and commitments   *)
(* count what they count with every other policy, the columns add up to    *)
(* the total, no column shows more than it counts, and the board is said   *)
(* to be cut exactly when it shows fewer than there are.                   *)
BoundsMoveNothing(facet, boards, policies) ==
  LET Sum(s, F(_)) == FoldLeft(LAMBDA x, c : x + F(c), 0, s)
      whole == AggregatePlan(facet, [name |-> "merge", n |-> 0], boards)
  IN \A policy \in policies :
       LET view == AggregatePlan(facet, policy, boards)
       IN /\ [view EXCEPT !.items = whole.items, !.truncated = whole.truncated,
                          !.columns = [i \in DOMAIN @ |-> [@[i] EXCEPT !.shown = whole.columns[i].shown]]]
               = whole
          /\ Sum(view.columns, LAMBDA c : c.items) = view.total
          /\ \A i \in DOMAIN view.columns : view.columns[i].shown <= view.columns[i].items
          /\ Sum(view.columns, LAMBDA c : c.shown) = Len(view.items)
          /\ policy.name # "count" => (view.truncated <=> Len(view.items) < view.total)

(* What a bound leaves out comes after what it keeps (of the same state,   *)
(* for sample), in an order in which no two items of a board are equal:    *)
(* finished work goes first and blocked work that is not finished last.    *)
KeepsInOrder(facet, boards, policies) ==
  LET all == ToSet(FlattenSeq(boards))
  IN /\ \A a, b \in all : a # b => (ItemLess(facet, a, b) <=> ~ItemLess(facet, b, a))
     /\ \A a, b, c \in all : ItemLess(facet, a, b) /\ ItemLess(facet, b, c) => ItemLess(facet, a, c)
     /\ \A policy \in policies :
          policy.name # "count" =>
            LET kept == ToSet(AggregatePlan(facet, policy, boards).items)
            IN \A a \in kept, b \in all \ kept :
                 /\ policy.name = "sample" => (a.state = b.state => ItemLess(facet, a, b))
                 /\ policy.name # "sample" => ItemLess(facet, a, b)
                 /\ policy.name # "sample" /\ Blocked(b) /\ ~Terminal(facet, b.state) => Blocked(a)

(* Boards that were bounded before they are merged give the same bounded   *)
(* board.                                                                  *)
MergesAlike(facet, limit, boards) ==
  MergeItems(facet, limit, [b \in DOMAIN boards |-> MergeItems(facet, limit, <<boards[b]>>)])
    = MergeItems(facet, limit, boards)
=============================================================================
