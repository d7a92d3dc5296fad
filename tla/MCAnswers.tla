------------------------------ MODULE MCAnswers ------------------------------
(***************************************************************************)
(* The pure functions of the code, asked over bounded inputs: a question,  *)
(* then an input of it.  They are one more part beside those of MCParts,   *)
(* whose properties are checked with theirs.                               *)
(***************************************************************************)
EXTENDS MCParts

VARIABLES question, input

SeqUpTo(S, n) == UNION {[1 .. k -> S] : k \in 0 .. n}

Times    == INSTANCE Periods
Rollup   == INSTANCE Reports
Reads    == INSTANCE ReportReads WITH TimelineCap <- 2, SeriesCap <- 200
Plans    == INSTANCE PlanBoard

-----------------------------------------------------------------------------
(* Times are half days, counted from 2024: the turn of 2027 to 2028 and    *)
(* the spring after it, with the 29th of February; and the ends of the     *)
(* Februaries of 2100, which has none, and of 2000, which has.             *)
HalfDays ==
  {2 * d + h : d \in (1430 .. 1590) \cup (27800 .. 27850) \cup (-8720 .. -8690), h \in {0, 1}}

(* Instances of one definition at a scope, below it and beside it.         *)
Instances ==
  SeqUpTo([scope : {<<1>>, <<1, 1>>, <<2>>}, at : 1 .. 2, status : {""}, headline : {<< >>},
           kpi : {Rollup!NoValue, 120}, target : {Rollup!NoValue}, series : {<<1>>}], 3)

Definition(kpi, time) ==
  [status |-> Rollup!Bare("worst"), headline |-> Rollup!Bare("synthesize"), template |-> TRUE,
   kpiPolicy |-> Rollup!Bare(kpi), timeStatus |-> Rollup!Bare("worst"),
   timeKPI |-> Rollup!Bare(time), timeHeadline |-> Rollup!Bare("latest"),
   target |-> Rollup!NoValue, below |-> FALSE, warnAt |-> 60, criticalAt |-> 120]

(* Two batches of events, each event with a number of its own. *)
Batches ==
  LET Timed(b) == SeqUpTo([t : 1 .. 2, severity : {"info", "critical"}, id : {b}], 3)
  IN {[b \in 1 .. 2 |-> [i \in DOMAIN bs[b] |-> [bs[b][i] EXCEPT !.id = 10 * b + i]]]
        : bs \in Timed(1) \X Timed(2)}

(* Starts and ends of two scopes, those of the second critical or not. *)
Spanning ==
  LET Ends == SeqUpTo([t : {1}, type : {"start", "end"}, scope : {1, 2}], 5)
  IN {[i \in DOMAIN es |-> [id |-> i, severity |-> IF es[i].scope = 2 THEN second ELSE "info"] @@ es[i]]
        : es \in Ends, second \in {"info", "critical"}}

Facet == [states |-> <<"todo", "doing", "done">>, lanes |-> <<"a">>,
          commitments |-> <<"must", "may">>, wip |-> [s \in {"todo", "doing", "done"} |-> 1]]

Bounds == {[name |-> n, n |-> k] : n \in {"sample", "top"}, k \in 0 .. 2}
            \cup {[name |-> n, n |-> 0] : n \in {"merge", "count"}}

Item(ids, states, lanes, commitments, dues, blockers) ==
  [id : ids, scope : {1}, state : states, lane : lanes, commitment : commitments, due : dues,
   size : {1}, blockedBy : blockers]

(* Two boards of an item each. *)
Boards ==
  LET Cards == SeqUpTo(Item({1}, {"todo", "doing", "done"}, {"", "a"}, {"", "may"},
                            {Plans!NoDue, 1}, {<< >>, <<9>>}), 1)
  IN {[b \in 1 .. 2 |-> [i \in DOMAIN bs[b] |-> [bs[b][i] EXCEPT !.scope = b]]]
        : bs \in Cards \X Cards}

Blockings ==
  SeqUpTo(Item(1 .. 3, {"todo"}, {""}, {""}, {Plans!NoDue},
               {<< >>, <<1>>, <<2>>, <<3>>, <<3, 1>>, <<4, 2>>}), 3)

(* Two definitions, rows of them and events of them at a scope and below.  *)
Served ==
  LET Made(name, categories, stances, timeline) ==
        Definition("avg", "max") @@
        [name |-> name, categories |-> categories, stances |-> stances, timeline |-> timeline,
         pulse |-> Rollup!Bare("merge"),
         panels |-> <<[kind |-> "kpi"], [kind |-> "series"], [kind |-> "table"],
                      [kind |-> "events"], [kind |-> "spans"]>>]
  IN {Made("a", {"x"}, {}, Rollup!Bare("merge")), Made("b", {"x", "y"}, {"s"}, [name |-> "sample", n |-> 1])}

Stored ==
  LET Rows   == SeqUpTo([definition : {"a", "b"}, scope : {<<1>>, <<1, 1>>}, at : 1 .. 2,
                         status : {""}, headline : {<< >>}, kpi : {Rollup!NoValue, 60},
                         target : {Rollup!NoValue}, series : {<<1>>}, table : {<< <<0>> >>}], 3)
      Events == SeqUpTo([definition : {"a", "b"}, scope : {<<1>>, <<1, 1>>}, t : 1 .. 2,
                         type : {"start"}, severity : {"info"}, id : {0}], 3)
  IN [rows : Rows, events : {<< >>}]
       \cup {[rows |-> << >>, events |-> [i \in DOMAIN es |-> [es[i] EXCEPT !.id = i]]] : es \in Events}

Inputs(q) ==
  CASE q = "reads"    -> Stored
    [] q = "times"    -> HalfDays
    [] q = "rollup"   -> Instances
    [] q = "batches"  -> Batches
    [] q = "spans"    -> Spanning
    [] q = "boards"   -> Boards
    [] q = "blockers" -> Blockings

Questions == {"reads", "times", "rollup", "batches", "spans", "boards", "blockers"}

NothingYet == question = "none" /\ input = << >>

Ask ==
  /\ question = "none"
  /\ question' \in Questions
  /\ input' \in Inputs(question')

AnswersInit == MCInit /\ NothingYet

AnswersNext ==
  \/ part = "answers" /\ Ask /\ UNCHANGED partVars
  \/ MCNext /\ UNCHANGED <<question, input>>

AnswersSpec == AnswersInit /\ [][AnswersNext]_<<partVars, question, input>>

-----------------------------------------------------------------------------
(* period.go, reports.go: periods tile the calendar, the shorter nest in   *)
(* the longer, and instances and events are read over the same instants.   *)
(* aggregate.go: what is rolled up depends on no order, adds up over       *)
(* scopes and over time, and a period of latest values is now; a bounded   *)
(* timeline keeps what matters and the spans of one end where they should; *)
(* and what the API shows of a report agrees with what it shows of its     *)
(* scope.                                                                  *)
ReportsRollUp ==
  /\ question = "times" => Times!Tile(input) /\ Times!Nest(input) /\ Times!SameWindow(input)
  /\ question = "rollup" =>
       /\ \A def \in {Definition(kpi, kpi) : kpi \in {"sum", "avg", "p50", "latest"}},
             period \in {{}, {2}, {1, 2}} : Rollup!OrderBlind(def, input, period)
       /\ \A def \in {Definition("sum", "latest")}, period \in {{}, {1, 2}} :
            /\ Rollup!Decomposes(def, << >>, <<1, 2>>, input, period)
            /\ Rollup!Decomposes(def, <<1>>, <<1>>, input, period)
            /\ Rollup!AddsUp(def, input, {1}, {2}) /\ Rollup!NowIsLatest(def, input, {1, 2})
  /\ question = "batches" => \A limit \in 1 .. 4 : Rollup!SamplingKeeps(limit, input)
  /\ question = "spans" => \A limit \in 0 .. 4 : Rollup!SpansSurvive(limit, input)
  /\ question = "reads" =>
       /\ \A def \in Served, period \in {{}, {1, 2}} :
            Reads!PanelsAgree(def, input.rows, input.events, <<1>>, period)
       /\ \A category \in {"", "x", "y", "z"}, stance \in {"", "s", "t"}, period \in {{}, {1}} :
            Reads!TimelineIsOfReports(Served, input.events, <<1>>, category, stance, period)
       /\ Reads!ScopesAreCounted(Served, input.rows, 1)

(* aggregate.go, instance.go: bounding a board moves no total and keeps    *)
(* what comes first, and a cycle of blockers is found and is one.          *)
PlansHold ==
  /\ question = "boards" =>
       /\ Plans!BoundsMoveNothing(Facet, input, Bounds)
       /\ Plans!KeepsInOrder(Facet, input, Bounds)
       /\ \A limit \in 0 .. 2 : Plans!MergesAlike(Facet, limit, input)
  /\ question = "blockers" => Plans!CyclesAreFound(Facet, input)
=============================================================================
