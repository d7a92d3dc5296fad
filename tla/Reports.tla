------------------------------- MODULE Reports -------------------------------
(***************************************************************************)
(* How report instances are rolled up (pkg/reporting/aggregate.go): first  *)
(* over time within a scope path, then over the paths at or below a scope; *)
(* and what the API derives from it (internal/server/api/reports.go).      *)
(*                                                                         *)
(* A definition is reduced to one KPI and its parsed policies; a KPI value *)
(* counts units so small that the averages taken of it are whole numbers,  *)
(* and the summary's status is derived from the KPI.  A headline is the    *)
(* sequence of what is joined in it: what somebody wrote, or the value a   *)
(* template was rendered with.                                             *)
(***************************************************************************)
EXTENDS Integers, Sequences, FiniteSets, SequencesExt

NoValue == -1000000     \* no value

(* A set as the sequence in which each element has those that are less     *)
(* before it.                                                              *)
Sorted(S, less(_, _)) ==
  [k \in 1 .. Cardinality(S) |-> CHOOSE x \in S : Cardinality({y \in S : less(y, x)}) = k - 1]

(* sort.SliceStable: positions by what less says, and then as they were. *)
StableSort(s, less(_, _)) ==
  LET order == Sorted(DOMAIN s, LAMBDA i, j : less(s[i], s[j]) \/ (~less(s[j], s[i]) /\ i < j))
  IN [k \in DOMAIN s |-> s[order[k]]]

LastOf(s, n) == IF Len(s) <= n THEN s ELSE SubSeq(s, Len(s) - n + 1, Len(s))

-----------------------------------------------------------------------------
(* scope.go.  A path is the sequence of its segments. *)

ScopeWithin(parent, child) == IsPrefix(parent, child)

ScopeLevels == <<"universe", "world", "realm", "site">>

LevelName(depth) ==
  IF depth <= 0 THEN "root"
  ELSE ScopeLevels[Min({depth, Len(ScopeLevels)})]

(* The order of the joined strings. *)
PathLess(a, b) ==
  \/ /\ Len(a) < Len(b) /\ IsPrefix(a, b)
  \/ \E i \in DOMAIN a \cap DOMAIN b : a[i] < b[i] /\ SubSeq(a, 1, i - 1) = SubSeq(b, 1, i - 1)

-----------------------------------------------------------------------------
(* policy.go: a policy with its parameter, 0 for the bare ones. *)

Bare(name) == [name |-> name, n |-> 0]

ApplyKPIPolicy(p, vals) ==
  LET sum    == FoldLeft(LAMBDA x, y : x + y, 0, vals)
      sorted == StableSort(vals, LAMBDA x, y : x < y)
      Percentile(pc) == LET rank == (pc * Len(vals) + 99) \div 100
                        IN sorted[IF rank < 1 THEN 1 ELSE rank]
  IN IF vals = << >> THEN 0
     ELSE CASE p.name = "count" -> Len(vals)
            [] p.name = "sum"   -> sum
            [] p.name = "avg"   -> sum \div Len(vals)
            [] p.name = "min"   -> Min(ToSet(vals))
            [] p.name = "max"   -> Max(ToSet(vals))
            [] p.name = "p50"   -> Percentile(50)
            [] p.name = "p95"   -> Percentile(95)
            [] OTHER            -> vals[Len(vals)]

-----------------------------------------------------------------------------
(* Contributors.  An instance is [scope, at, status, headline, kpi,        *)
(* target, series]; "", << >> and NoValue where it says nothing.           *)

Given(field(_), group) == SelectSeq([i \in DOMAIN group |-> field(group[i])], LAMBDA x : x # NoValue)

Earlier(a, b) == a.at < b.at

ContributorLess(a, b) == a.at < b.at \/ (a.at = b.at /\ PathLess(a.scope, b.scope))

(* Of one path, in the order of the rows: a later row with the same time   *)
(* replaces an earlier one.                                                *)
LatestOf(group) ==
  LET newest == Max({group[i].at : i \in DOMAIN group})
  IN group[Max({i \in DOMAIN group : group[i].at = newest})]

InstanceStatus(def, in) ==
  LET worse(threshold) == IF def.below THEN in.kpi <= threshold ELSE in.kpi >= threshold
  IN IF in.status # "" THEN in.status
     ELSE IF in.kpi = NoValue THEN "ok"
     ELSE IF worse(def.criticalAt) THEN "critical"
     ELSE IF worse(def.warnAt) THEN "warn"
     ELSE "ok"

StatusRank(s) == CASE s = "critical" -> 2 [] s = "warn" -> 1 [] OTHER -> 0

WorstStatus(def, group) ==
  LET ranks == {StatusRank(InstanceStatus(def, in)) : in \in ToSet(group)}
  IN <<"ok", "warn", "critical">>[Max(ranks \cup {0}) + 1]

(* Without a value a placeholder is left as it is. *)
Rendered(value) == <<[by |-> "template", value |-> value]>>

InstanceHeadline(def, in) ==
  IF in.headline = << >> /\ def.template THEN Rendered(in.kpi) ELSE in.headline

AnyPrecomputedHeadline(group) == \E i \in DOMAIN group : group[i].headline # << >>

NewestHeadlines(def, group, n) ==
  LET lines == SelectSeq([i \in DOMAIN group |-> InstanceHeadline(def, group[Len(group) + 1 - i])],
                         LAMBDA h : h # << >>)
  IN FlattenSeq(SubSeq(lines, 1, Min({Len(lines), n})))

TopOr1(p) == IF p.name = "top" THEN p.n ELSE 1

(* Of more than one of a path, oldest first, a synthetic one. *)
FoldOverTime(def, group) ==
  LET newest  == group[Len(group)]
      vals    == Given(LAMBDA in : in.kpi, group)
      targets == Given(LAMBDA in : in.target, group)
  IN IF Len(group) = 1 THEN newest
     ELSE [newest EXCEPT
             !.status   = IF def.timeStatus.name = "latest" THEN InstanceStatus(def, newest)
                                                            ELSE WorstStatus(def, group),
             !.headline = IF AnyPrecomputedHeadline(group)
                          THEN NewestHeadlines(def, group, TopOr1(def.timeHeadline))
                          ELSE << >>,
             !.kpi      = IF vals # << >> \/ def.timeKPI.name = "count"
                          THEN ApplyKPIPolicy(def.timeKPI, vals) ELSE NoValue,
             !.target   = IF targets # << >> THEN ApplyKPIPolicy(def.timeKPI, targets) ELSE NoValue,
             !.series   = StableSort(FlattenSeq([i \in DOMAIN group |-> group[i].series]),
                                     LAMBDA x, y : x < y)]

(* Mutant of ContributorsIn: over time as without a period. *)
ContributorsOfNewest(def, scope, instances, period) ==
  LET chosen == SelectSeq(instances, LAMBDA in : /\ ScopeWithin(scope, in.scope)
                                                 /\ period = {} \/ in.at \in period)
      paths  == {chosen[i].scope : i \in DOMAIN chosen}
  IN Sorted({LatestOf(SelectSeq(chosen, LAMBDA in : in.scope = path)) : path \in paths},
                  ContributorLess)

(* A period is the set of its instants, {} for none. *)
ContributorsIn(def, scope, instances, period) ==
  LET chosen   == SelectSeq(instances, LAMBDA in : /\ ScopeWithin(scope, in.scope)
                                                   /\ period = {} \/ in.at \in period)
      paths    == {chosen[i].scope : i \in DOMAIN chosen}
      groups   == {SelectSeq(chosen, LAMBDA in : in.scope = path) : path \in paths}
      inTime   == {StableSort(group, Earlier) : group \in groups}
  IN Sorted(IF period = {} THEN {LatestOf(group) : group \in groups}
                           ELSE {FoldOverTime(def, group) : group \in inTime},
            ContributorLess)

-----------------------------------------------------------------------------
(* The summary. *)

(* A contributor without a target of its own counts with the definition's. *)
AggregateKPI(def, contrib) ==
  LET value   == ApplyKPIPolicy(def.kpiPolicy, Given(LAMBDA in : in.kpi, contrib))
      targets == Given(LAMBDA in : IF in.target # NoValue THEN in.target ELSE def.target, contrib)
      target  == ApplyKPIPolicy(def.kpiPolicy, targets)
  IN IF targets = << >> THEN [value |-> value]
     ELSE [value |-> value, target |-> target, variance |-> value - target]

AggregateStatus(def, contrib) ==
  IF def.status.name = "latest" THEN InstanceStatus(def, contrib[Len(contrib)])
                                ELSE WorstStatus(def, contrib)

(* What is to be synthesized is rendered from the rolled up numbers, and   *)
(* otherwise degrades to the newest line.                                  *)
AggregateHeadline(def, contrib, kpi) ==
  IF /\ def.headline.name = "synthesize" /\ ~AnyPrecomputedHeadline(contrib)
     /\ Len(contrib) > 1 /\ def.template
  THEN [lines |-> Rendered(kpi.value), partial |-> FALSE]
  ELSE LET n == TopOr1(def.headline)
       IN [lines |-> NewestHeadlines(def, contrib, n), partial |-> Len(contrib) > n]

SparklineCap == 200

Sparkline(contrib) ==
  LastOf(StableSort(FlattenSeq([i \in DOMAIN contrib |-> contrib[i].series]),
                    LAMBDA x, y : x < y), SparklineCap)

Summary(def, contrib) ==
  LET kpi == AggregateKPI(def, contrib)
  IN [instances    |-> Len(contrib),
      scopes       |-> {contrib[i].scope : i \in DOMAIN contrib},
      contributors |-> [i \in DOMAIN contrib |-> <<contrib[i].scope, contrib[i].at>>]]
     @@ (IF contrib = << >> THEN [status |-> ""]
         ELSE [status    |-> AggregateStatus(def, contrib),
               kpi       |-> kpi,
               headline  |-> AggregateHeadline(def, contrib, kpi),
               sparkline |-> Sparkline(contrib)])

(* The set is of one summary; it is there for the contributors to be       *)
(* computed once.                                                          *)
AggregateIn(def, scope, instances, period) ==
  LET summaries == {Summary(def, contrib) :
                      contrib \in {ContributorsIn(def, scope, instances, period)}}
      inPeriod  == SelectSeq(instances, LAMBDA in : ScopeWithin(scope, in.scope) /\ in.at \in period)
  IN [folded |-> IF period = {} THEN 0 ELSE Len(inPeriod)] @@ CHOOSE summary \in summaries : TRUE

-----------------------------------------------------------------------------
(* The timeline.  An event is [t, type, severity, scope, id]. *)

ByTime(a, b) == a.t < b.t

(* Mutant of Sampled: the newest, whatever they say. *)
SampledNewest(limit, events) == LastOf(events, limit)

(* The critical ones first and the newest of each, in time order again. *)
Sampled(limit, events) ==
  LET crit == SelectSeq(events, LAMBDA e : e.severity = "critical")
      rest == SelectSeq(events, LAMBDA e : e.severity # "critical")
  IN IF Len(crit) >= limit THEN LastOf(crit, limit)
     ELSE StableSort(crit \o LastOf(rest, limit - Len(crit)), ByTime)

MergeEvents(limit, batches) ==
  LET all == StableSort(FlattenSeq(batches), ByTime)
  IN IF limit <= 0 \/ Len(all) <= limit THEN all ELSE Sampled(limit, all)

(* Mutant of Pair: the span opened last is closed. *)
PairNewest(open) == Max(open)

(* The one opened first. *)
Pair(open) == Min(open)

(* Spans of one specification, [start, end, scope] by the position of      *)
(* their events: a start opens one, an end closes the one of its scope     *)
(* that was opened first, if any is open.                                  *)
DeriveSpans(events) ==
  LET Step(spans, i) ==
        LET e    == events[i]
            open == {k \in DOMAIN spans : spans[k].end = 0 /\ spans[k].scope = e.scope}
        IN CASE e.type = "start"              -> Append(spans, [start |-> i, end |-> 0,
                                                               scope |-> e.scope])
             [] e.type = "end" /\ open # {}    -> [spans EXCEPT ![Pair(open)].end = i]
             [] OTHER                         -> spans
  IN FoldLeft(LAMBDA spans, i : Step(spans, i), << >>, [i \in DOMAIN events |-> i])

-----------------------------------------------------------------------------
(* The rows of the instances come in any order in which they could have    *)
(* been stored, and a Go map is walked in none: what is rolled up depends  *)
(* on neither, unless two instances of a path have the same time.          *)
OrderBlind(def, instances, period) ==
  (\A i, j \in DOMAIN instances :
     i # j /\ instances[i].scope = instances[j].scope => instances[i].at # instances[j].at)
  => \A permuted \in {[i \in DOMAIN instances |-> instances[perm[i]]]
                        : perm \in Permutations(DOMAIN instances)} :
       AggregateIn(def, << >>, permuted, period) = AggregateIn(def, << >>, instances, period)

(* The summary of a scope is that of its parts: whatever is at or below it *)
(* is at its own path or at or below exactly one of the paths one level    *)
(* down, so sums, counts, extremes and the worst status add up over them.  *)
Decomposes(def, scope, segments, instances, period) ==
  LET Values(c)    == Given(LAMBDA in : in.kpi, c)
      Kpi(p, vals) == ApplyKPIPolicy(Bare(p), vals)
      below        == {Append(scope, segments[i]) : i \in DOMAIN segments}
  IN \A of \in {[s \in {scope} \cup below |-> ContributorsIn(def, s, instances, period)]} :
     \A parts \in {<<SelectSeq(of[scope], LAMBDA in : in.scope = scope)>>
                     \o [i \in DOMAIN segments |-> of[Append(scope, segments[i])]]} :
     \A values \in {SelectSeq([i \in DOMAIN parts |-> Values(parts[i])], LAMBDA v : v # << >>)} :
       LET Whole(p)     == Kpi(p, Values(of[scope]))
           Partly(p, q) == Kpi(q, [i \in DOMAIN values |-> Kpi(p, values[i])])
           Worst(c)     == StatusRank(WorstStatus(def, c))
       IN /\ \A p \in {"sum", "min", "max"} : Whole(p) = Partly(p, p)
          /\ Whole("count") = Partly("count", "sum")
          /\ Worst(of[scope]) = Max({Worst(parts[i]) : i \in DOMAIN parts})

(* A period adds up from those it is split into: what is summed over time  *)
(* and over scopes is the sum of every instance in it, and the worst       *)
(* status of the period is that of its worst part.                         *)
AddsUp(def, instances, first, second) ==
  LET Sum(v)  == IF v.instances = 0 THEN 0 ELSE v.kpi.value
      Rank(v) == StatusRank(v.status)
      flat    == Given(LAMBDA in : in.kpi, SelectSeq(instances, LAMBDA in : in.at \in first \cup second))
  IN \A sums \in {[def EXCEPT !.timeKPI = Bare("sum"), !.kpiPolicy = Bare("sum"),
                              !.timeStatus = Bare("worst"), !.status = Bare("worst")]} :
     \A view \in {[period \in {first, second, first \cup second} |->
                   AggregateIn(sums, << >>, instances, period)]} :
       LET whole == view[first \cup second]
       IN /\ Sum(whole) = ApplyKPIPolicy(Bare("sum"), flat)
          /\ Sum(whole) = Sum(view[first]) + Sum(view[second])
          /\ Rank(whole) = Max({Rank(view[first]), Rank(view[second])})

(* Reading "now" is the degenerate case: a period in which every policy    *)
(* over time takes the latest shows what is shown without one, where every *)
(* instance carries the KPI and no two of a path have the same time.       *)
NowIsLatest(def, instances, all) ==
  LET Shown(v) == [f \in DOMAIN v \ {"folded", "sparkline", "headline"} |-> v[f]]
  IN (\A i \in DOMAIN instances : instances[i].kpi # NoValue /\ instances[i].target = NoValue)
     => \A latest \in {[def EXCEPT !.timeKPI = Bare("latest"), !.timeStatus = Bare("latest"),
                                  !.timeHeadline = Bare("latest")]} :
          Shown(AggregateIn(latest, << >>, instances, all))
            = Shown(AggregateIn(latest, << >>, instances, {}))

(* A bounded timeline is as long as it may be and in time order; a         *)
(* critical event is dropped only when all that is left is critical, and   *)
(* of equal severity the newer stay.  Bounding each batch first loses      *)
(* nothing of the bounded whole.                                           *)
SamplingKeeps(limit, batches) ==
  LET all   == StableSort(FlattenSeq(batches), ByTime)
      kept  == MergeEvents(limit, batches)
      Kept(e) == \E i \in DOMAIN kept : kept[i] = e
      Critical(e) == e.severity = "critical"
  IN /\ Len(kept) = Min({limit, Len(all)})
     /\ \A i, j \in DOMAIN kept : i < j => kept[i].t <= kept[j].t
     /\ \A i \in DOMAIN all : ~Kept(all[i]) =>
          /\ Critical(all[i]) => \A j \in DOMAIN kept : Critical(kept[j])
          /\ \A j \in 1 .. i - 1 : Critical(all[j]) = Critical(all[i]) => ~Kept(all[j])
     /\ MergeEvents(limit, [b \in DOMAIN batches |-> MergeEvents(limit, <<batches[b]>>)]) = kept

(* Every span ends where an end of its scope is, after it began; no end    *)
(* closes two; of a scope the spans end in the order they began; and none  *)
(* is open that an end came for later.                                     *)
SpansPair(events) ==
  LET spans == DeriveSpans(events)
      Closed(k) == spans[k].end # 0
  IN /\ \A k \in DOMAIN spans : Closed(k) =>
          /\ spans[k].end > spans[k].start
          /\ events[spans[k].end].type = "end" /\ events[spans[k].end].scope = spans[k].scope
     /\ \A k, l \in DOMAIN spans : k < l /\ spans[k].scope = spans[l].scope =>
          /\ Closed(l) => Closed(k) /\ spans[k].end < spans[l].end
     /\ \A k \in DOMAIN spans : ~Closed(k) =>
          \A i \in DOMAIN events :
            i > spans[k].start /\ events[i].type = "end" /\ events[i].scope = spans[k].scope
              => \E l \in DOMAIN spans : spans[l].end = i

(* Spans are derived from a timeline that is bounded already.  Whatever    *)
(* was dropped they pair as above; and where all events of a scope are of  *)
(* one severity, a span whose start is kept began where it did, ends if it *)
(* did and no later, and, unless two of its scope were open at once, ends  *)
(* exactly there.  (Of a scope with both severities an end may be dropped  *)
(* and its start be closed by a later one.)                                *)
SpansSurvive(limit, events) ==
  LET Spans(es) == {[start |-> es[s.start].id, end |-> IF s.end = 0 THEN 0 ELSE es[s.end].id,
                     scope |-> s.scope] : s \in ToSet(DeriveSpans(es))}
  IN \A kept \in {MergeEvents(limit, <<events>>)} :
     \A whole \in {Spans(events)} :
       LET Apart(scope) == \A a, b \in whole :
                             a.scope = scope /\ b.scope = scope /\ a.start < b.start
                               => a.end # 0 /\ a.end < b.start
           Even == \A e, f \in ToSet(events) : e.scope = f.scope => e.severity = f.severity
       IN /\ SpansPair(kept)
          /\ Even => \A shown \in Spans(kept) : \E span \in whole :
               /\ span.start = shown.start /\ span.scope = shown.scope
               /\ span.end # 0 => shown.end # 0 /\ shown.end <= span.end
               /\ Apart(span.scope) => shown.end = span.end
=============================================================================
