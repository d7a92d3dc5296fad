----------------------------- MODULE ReportReads -----------------------------
(***************************************************************************)
(* What the API answers about reports (internal/server/api/reports.go)     *)
(* from the stored rows: the scopes, the tiles of a scope, the timeline,   *)
(* and one report with its panels.                                         *)
(*                                                                         *)
(* A definition is one of Reports with [name, categories, stances,         *)
(* timeline, pulse, panels]: the policies for its events, and the data     *)
(* each panel shows, [kind, name].  An instance has a definition and a     *)
(* table besides, an event a definition.  Rows are in the order of their   *)
(* IDs.                                                                    *)
(***************************************************************************)
EXTENDS Reports

CONSTANTS TimelineCap,   \* reportTimelineCap
          SeriesCap      \* reportSeriesCap

-----------------------------------------------------------------------------
(* store/reports.go: by time, then by ID. *)

ListReportInstances(rows, name, scope, period) ==
  StableSort(SelectSeq(rows, LAMBDA in : /\ in.definition = name /\ ScopeWithin(scope, in.scope)
                                         /\ period = {} \/ in.at \in period), Earlier)

(* No names at all is every name. *)
ListReportEvents(events, names, scope, period) ==
  StableSort(SelectSeq(events, LAMBDA e : /\ names = {} \/ e.definition \in names
                                          /\ ScopeWithin(scope, e.scope)
                                          /\ period = {} \/ e.t \in period), ByTime)

(* The paths instances were posted at, and how many; since is 0 for none. *)
ListReportScopes(rows, since) ==
  [path \in {rows[i].scope : i \in DOMAIN rows} |->
     LET at == {i \in DOMAIN rows : rows[i].scope = path}
     IN [instances |-> Cardinality(at), level |-> LevelName(Len(path)),
         recent |-> Cardinality({i \in at : since # 0 /\ rows[i].at > since})]]

-----------------------------------------------------------------------------
(* The definitions of a category and a stance; "" asks for neither. *)

ServesStance(def, stance) == stance = "" \/ def.stances = {} \/ stance \in def.stances

Chosen(library, category, stance) ==
  {def \in library : (category = "" \/ category \in def.categories) /\ ServesStance(def, stance)}

HandleReportSummary(library, rows, scope, category, stance, period) ==
  LET listed == {<<def, ListReportInstances(rows, def.name, scope, period)>>
                   : def \in Chosen(library, category, stance)}
      tiles  == {[name |-> def.name, view |-> AggregateIn(def, scope, instances, period)]
                   : <<def, instances>> \in listed}
  IN {tile \in tiles : tile.view.instances # 0}

(* Mutant of HandleReportTimeline: a choice that nothing meets is no choice. *)
TimelineOfAll(library, events, scope, category, stance, period) ==
  LET chosen == IF category = "" /\ stance = "" THEN {} ELSE Chosen(library, category, stance)
  IN MergeEvents(TimelineCap, <<ListReportEvents(events, {def.name : def \in chosen}, scope, period)>>)

(* A choice that nothing meets is answered with nothing, before the store  *)
(* would take it for none.                                                 *)
HandleReportTimeline(library, events, scope, category, stance, period) ==
  LET asks   == category # "" \/ stance # ""
      chosen == IF asks THEN Chosen(library, category, stance) ELSE {}
  IN IF asks /\ chosen = {} THEN << >>
     ELSE MergeEvents(TimelineCap,
                      <<ListReportEvents(events, {def.name : def \in chosen}, scope, period)>>)

-----------------------------------------------------------------------------
(* One report. *)

ReportEventCap(def) ==
  IF def.timeline.name = "sample" THEN def.timeline.n
  ELSE IF def.pulse.name = "sample" THEN def.pulse.n ELSE TimelineCap

MergeSeries(contrib) ==
  LastOf(StableSort(FlattenSeq([i \in DOMAIN contrib |-> contrib[i].series]), LAMBDA x, y : x < y),
         SeriesCap)

(* Every row with the scope it is from in a column of its own. *)
ConcatTables(contrib) ==
  FlattenSeq([i \in DOMAIN contrib |->
                [k \in DOMAIN contrib[i].table |-> Append(contrib[i].table[k], contrib[i].scope)]])

(* Mutant of AggregateAllKPIs: of what was stored, and not of what was     *)
(* folded over the period.                                                 *)
AggregateRows(def, scope, contrib, rows) == AggregateKPI(def, rows)

(* The contributors are rolled up again, as instances without a period. *)
AggregateAllKPIs(def, scope, contrib, rows) ==
  AggregateKPI(def, ContributorsIn(def, scope, contrib, {}))

ResolvePanel(def, scope, panel, contrib, rows, merged, spans) ==
  CASE panel.kind = "events" -> merged
    [] panel.kind = "series" -> MergeSeries(contrib)
    [] panel.kind = "table"  -> ConcatTables(contrib)
    [] panel.kind = "spans"  -> spans
    [] panel.kind = "kpi"    -> AggregateAllKPIs(def, scope, contrib, rows)
    [] OTHER                 -> << >>

EventsOf(def, events, scope, period) ==
  MergeEvents(ReportEventCap(def), <<ListReportEvents(events, {def.name}, scope, period)>>)

HandleReport(def, rows, events, scope, period) ==
  LET listed  == ListReportInstances(rows, def.name, scope, period)
      merged  == EventsOf(def, events, scope, period)
      spans   == DeriveSpans(merged)
      contrib == ContributorsIn(def, scope, listed, period)
  IN [summary |-> AggregateIn(def, scope, listed, period), events |-> merged, spans |-> spans,
      panels  |-> [i \in DOMAIN def.panels |->
                     ResolvePanel(def, scope, def.panels[i], contrib, listed, merged, spans)]]

-----------------------------------------------------------------------------
(* The panels of a report show what its tile and its timeline show: the    *)
(* same number, the same points as the sparkline where that ends, the same *)
(* events and spans, and of every contributor its own rows, in the order   *)
(* of the contributors.                                                    *)
PanelsAgree(def, rows, events, scope, period) ==
  \A report \in {HandleReport(def, rows, events, scope, period)}, i \in DOMAIN def.panels :
       LET panel == report.panels[i]  kind == def.panels[i].kind  tile == report.summary
       IN /\ kind = "kpi" /\ tile.instances # 0 => panel = tile.kpi
          /\ kind = "series" /\ tile.instances # 0 => IsSuffix(panel, tile.sparkline)
          /\ kind = "events" => panel = report.events
          /\ kind = "spans" => panel = report.spans
          /\ kind = "table" =>
               /\ {panel[k][Len(panel[k])] : k \in DOMAIN panel} \subseteq tile.scopes
               /\ \A k, l \in DOMAIN panel : k < l =>
                    LET Of(n) == CHOOSE c \in DOMAIN tile.contributors :
                                   tile.contributors[c][1] = panel[n][Len(panel[n])]
                    IN Of(k) <= Of(l)

(* The timeline of a category and a stance shows events of definitions     *)
(* that are of it and no others, and, where nothing is sampled, all that   *)
(* the reports of those definitions show.                                  *)
TimelineIsOfReports(library, events, scope, category, stance, period) ==
  LET chosen == Chosen(library, category, stance)
      shown  == ToSet(HandleReportTimeline(library, events, scope, category, stance, period))
      Of(def) == ToSet(EventsOf(def, events, scope, period))
      whole   == UNION {Of(def) : def \in chosen}
  IN /\ {e.definition : e \in shown} \subseteq {def.name : def \in chosen}
     /\ Len(events) <= TimelineCap => whole \subseteq shown

(* A path with instances is counted, and a scope has a tile exactly when   *)
(* some path at or below it is of a definition of the choice; what is      *)
(* recent is not more than what there is, and all of it when nothing is    *)
(* older.                                                                  *)
ScopesAreCounted(library, rows, since) ==
  \A counts \in {ListReportScopes(rows, since)} :
    /\ Len(rows) = FoldFunctionOnSet(LAMBDA c, n : c.instances + n, 0, counts, DOMAIN counts)
    /\ \A path \in DOMAIN counts : counts[path].recent <= counts[path].instances
    /\ \A scope \in DOMAIN counts \cup {<< >>} :
         {tile.name : tile \in HandleReportSummary(library, rows, scope, "", "", {})}
           = {rows[i].definition : i \in {i \in DOMAIN rows : ScopeWithin(scope, rows[i].scope)}}
               \cap {def.name : def \in library}
=============================================================================
