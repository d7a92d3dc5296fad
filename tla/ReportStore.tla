----------------------------- MODULE ReportStore -----------------------------
(***************************************************************************)
(* The rows of reports (internal/server/store/reports.go) and the handlers *)
(* that write them (internal/server/api/reports.go).  Every statement is a *)
(* transaction of its own, except those of a purge: a post of an instance  *)
(* inserts it, prunes its scope, inserts the events one by one and prunes  *)
(* those, and another request may run between any two.                     *)
(*                                                                         *)
(* There is one definition.  A row is [scope, at, of, id]: where it is,    *)
(* the time it carries, the post it comes from and its number.             *)
(***************************************************************************)
EXTENDS Integers, Sequences, FiniteSets, SequencesExt

CONSTANTS Poster,            \* clients, each with a request at a time
          Scope,             \* normalized paths: sequences of segments
          Lower(_),          \* a segment in lower case
          Instant,           \* the times rows carry
          Retention,         \* ReportInstanceRetention
          EventRetention,    \* ReportEventRetention
          MaxEvents,         \* events of a post
          MaxPosts,          \* bound: posts accepted
          MaxFaults          \* bound: statements that fail

VARIABLES instances,     \* the rows of report_instances
          events,        \* the rows of report_events
          posts,         \* of each poster the request that is running
          accepted,      \* what was ever inserted and not purged, for the properties
          posted, faults \* counters of the bounds

vars == <<instances, events, posts, accepted, posted, faults>>

Idle == [pc |-> "idle"]

TypeOK ==
  /\ \A r \in instances \cup events :
       r.scope \in Scope /\ r.at \in Instant /\ r.of \in 1 .. MaxPosts
  /\ \A p \in Poster : posts[p].pc \in {"idle", "insert", "prune", "events", "pruneEvents"}
  /\ instances \subseteq accepted.instances /\ events \subseteq accepted.events
  /\ posted \in 0 .. MaxPosts /\ faults \in 0 .. MaxFaults

Init ==
  /\ instances = {} /\ events = {}
  /\ posts = [p \in Poster |-> Idle]
  /\ accepted = [instances |-> {}, events |-> {}]
  /\ posted = 0 /\ faults = 0

-----------------------------------------------------------------------------
NextId(rows) == 1 + CHOOSE n \in {0} \cup {r.id : r \in rows} : \A r \in rows : r.id <= n

(* ORDER BY at, id. *)
RowBefore(a, b) == a.at < b.at \/ (a.at = b.at /\ a.id < b.id)

Newest(rows, n) == {r \in rows : Cardinality({o \in rows : RowBefore(r, o)}) < n}

AtScope(rows, scope) == {r \in rows : r.scope = scope}

(* Mutant of Pruned: the oldest are kept. *)
PrunedNewest(rows, scope, n) ==
  {r \in rows : r.scope = scope => Cardinality({o \in AtScope(rows, scope) : RowBefore(o, r)}) < n}

Pruned(rows, scope, n) == {r \in rows : r.scope = scope => r \in Newest(AtScope(rows, scope), n)}

ScopeWithin(parent, child) == IsPrefix(parent, child)

(* scope = S OR scope LIKE S/%: the second regards letters, not their case. *)
LowerPath(path) == [i \in DOMAIN path |-> Lower(path[i])]

(* Mutant of PurgeMatches: what is below the scope stays. *)
PurgeMatchesItself(scope, path) == path = scope

PurgeMatches(scope, path) ==
  \/ path = scope
  \/ Len(path) > Len(scope) /\ IsPrefix(LowerPath(scope), LowerPath(path))

-----------------------------------------------------------------------------
(* handleReportInstancePost and handleReportEventsPost: what is valid is   *)
(* stored from here on; a post of events alone begins with the first.      *)
Post(p) ==
  /\ posts[p].pc = "idle" /\ posted < MaxPosts
  /\ posted' = posted + 1
  /\ \E scope \in Scope, at \in Instant, times \in UNION {[1 .. n -> Instant] : n \in 0 .. MaxEvents},
       pc \in {"insert", "events"} :
       posts' = [posts EXCEPT ![p] = [pc |-> pc, scope |-> scope, at |-> at, left |-> times,
                                      of |-> posted + 1]]
  /\ UNCHANGED <<instances, events, accepted, faults>>

(* After the statement of a request: the next of it, or the answer. *)
Proceed(p, pc) ==
  posts' = [posts EXCEPT ![p] = IF pc = "idle" THEN Idle ELSE [@ EXCEPT !.pc = pc]]

(* InsertReportInstance, the first statement. *)
InsertInstance(p) ==
  LET post == posts[p]
      row  == [scope |-> post.scope, at |-> post.at, of |-> post.of, id |-> NextId(instances)]
  IN /\ post.pc = "insert"
     /\ instances' = instances \cup {row}
     /\ accepted' = [accepted EXCEPT !.instances = @ \cup {row}]
     /\ Proceed(p, "prune")
     /\ UNCHANGED <<events, posted, faults>>

PruneInstances(p) ==
  LET post == posts[p]
  IN /\ post.pc = "prune"
     /\ instances' = Pruned(instances, post.scope, Retention)
     /\ Proceed(p, IF post.left = << >> THEN "idle" ELSE "events")
     /\ UNCHANGED <<events, accepted, posted, faults>>

(* InsertReportEvents: one statement an event. *)
InsertEvent(p) ==
  LET post == posts[p]
  IN /\ post.pc = "events" /\ post.left # << >>
     /\ LET row == [scope |-> post.scope, at |-> Head(post.left), of |-> post.of,
                    id |-> NextId(events)]
        IN /\ events' = events \cup {row}
           /\ accepted' = [accepted EXCEPT !.events = @ \cup {row}]
     /\ posts' = [posts EXCEPT ![p].left = Tail(@),
                               ![p].pc = IF Len(post.left) = 1 THEN "pruneEvents" ELSE "events"]
     /\ UNCHANGED <<instances, posted, faults>>

(* No events are no statement. *)
NoEvents(p) ==
  /\ posts[p].pc = "events" /\ posts[p].left = << >>
  /\ Proceed(p, "idle")
  /\ UNCHANGED <<instances, events, accepted, posted, faults>>

PruneEvents(p) ==
  LET post == posts[p]
  IN /\ post.pc = "pruneEvents"
     /\ events' = Pruned(events, post.scope, EventRetention)
     /\ Proceed(p, "idle")
     /\ UNCHANGED <<instances, accepted, posted, faults>>

(* A statement fails: the client is told 500 and what was done stays. *)
StatementFails(p) ==
  /\ posts[p].pc # "idle" /\ faults < MaxFaults
  /\ posts[p].pc = "events" => posts[p].left # << >>
  /\ faults' = faults + 1
  /\ Proceed(p, "idle")
  /\ UNCHANGED <<instances, events, accepted, posted>>

(* DeleteReportScope; CountReportScope counts the others. *)
KeptBy(scope, rows) == {r \in rows : ~PurgeMatches(scope, r.scope)}

(* handleReportScopeDelete: both deletes are one transaction, and a dry    *)
(* run changes nothing.                                                    *)
Purge(scope) ==
  LET Kept(all) == KeptBy(scope, all)
  IN /\ Kept(instances) # instances \/ Kept(events) # events
     /\ instances' = Kept(instances)
     /\ events' = Kept(events)
     /\ accepted' = [instances |-> Kept(accepted.instances), events |-> Kept(accepted.events)]
     /\ UNCHANGED <<posts, posted, faults>>

Next ==
  \/ \E p \in Poster :
       \/ Post(p) \/ InsertInstance(p) \/ PruneInstances(p) \/ InsertEvent(p) \/ NoEvents(p)
       \/ PruneEvents(p) \/ StatementFails(p)
  \/ \E scope \in Scope : Purge(scope)

Spec == Init /\ [][Next]_vars

-----------------------------------------------------------------------------
(* Whatever the order of the statements of several requests, and whichever *)
(* fails: the newest Retention of what was inserted at a scope since it    *)
(* was last purged are there.                                              *)
NewestStay ==
  \A scope \in Scope :
    /\ Newest(AtScope(accepted.instances, scope), Retention) \subseteq instances
    /\ Newest(AtScope(accepted.events, scope), EventRetention) \subseteq events

(* No request leaves more than those behind, unless a statement failed: no *)
(* later one of it prunes.                                                 *)
RestIsPruned ==
  \A scope \in Scope :
    faults = 0 /\ (\A p \in Poster : posts[p].pc = "idle" \/ posts[p].scope # scope)
    => /\ AtScope(instances, scope) = Newest(AtScope(accepted.instances, scope), Retention)
       /\ AtScope(events, scope) = Newest(AtScope(accepted.events, scope), EventRetention)

(* A purge takes all that is at or below its scope, and nothing but that   *)
(* and what is below a scope of the same letters, whatever their case:     *)
(* that scope itself stays.                                                *)
PurgeIsWithin ==
  [][\A scope \in Scope : Purge(scope) =>
       \A r \in instances \cup events :
         LET gone == r \notin instances' \cup events' IN
         /\ ScopeWithin(scope, r.scope) => gone
         /\ gone => \/ r.scope = scope
                    \/ /\ Len(r.scope) > Len(scope)
                       /\ \A i \in DOMAIN scope : Lower(r.scope[i]) = Lower(scope[i])]_vars
=============================================================================
