--------------------------- MODULE WorkerRecords ---------------------------
(***************************************************************************)
(* What is announced to the workers and what they say of themselves:       *)
(* update announcements, the progress every worker reports on them, and    *)
(* the app it serves (internal/server updates.go and apps.go, with their   *)
(* statements in store).  An announcement is stored, older ones are        *)
(* pruned, and a message is emitted to every worker of a snapshot of the   *)
(* chart, one after the other; what a worker reports is merged into its    *)
(* row for the kind.  Every SQL statement is a step, and so is every look  *)
(* at the chart, so that reports, announcements and deletes interleave.    *)
(*                                                                         *)
(* Versions, texts and URLs are left out but for the target version of a   *)
(* report, for which an announcement of that version stands.               *)
(***************************************************************************)
EXTENDS Naturals, FiniteSets

CONSTANTS Worker, Kind,
          Announcer,        \* requests that announce
          MaxAnnouncements, \* bound
          MaxTime,          \* bound on the clock
          Retention,        \* UpdateAnnouncementRetention
          Status,           \* the statuses that are reported, of the six there are
          None

Announcement == 1 .. MaxAnnouncements

(* StatusApplied and StatusDeclined *)
Settling == Status \cap {"applied", "declined"}

Row    == [status : Status, announcement : Announcement \cup {None},
           target : Announcement \cup {None}]
Report == [kind : Kind, status : Status, announcement : Announcement \cup {None},
           target : Announcement \cup {None}]
Named  == [announcement : Announcement, target : Announcement \cup {None}]

VARIABLES chart,     \* the workers in it
          now,
          announced, \* of every ID given out, the kind and the time
          table,     \* update_announcements: IDs
          at, id, todo, \* of an announcer: where it is, its ID, who is still to be told
          told,      \* who was emitted what
          rows,      \* worker_update_state
          apps,      \* worker_apps
          asking,    \* workers with a request that has looked at the chart
          leaving,   \* the deletes under way: which table a worker's rows leave next
          named,     \* ghost: what the last report that named an announcement named
          inserted,  \* ghost: the IDs that were ever in the table
          settled,   \* ghost: what a worker settled since it joined
          unclean    \* ghost: workers whose rows a delete may have missed

vars == <<chart, now, announced, table, at, id, todo, told, rows, apps, asking, leaving,
          named, inserted, settled, unclean>>

TypeOK ==
  /\ chart \subseteq Worker
  /\ now \in 0 .. MaxTime
  /\ announced \in [Announcement -> [kind : Kind, time : 0 .. MaxTime] \cup {None}]
  /\ table \subseteq {a \in Announcement : announced[a] # None}
  /\ at \in [Announcer -> {"idle", "insert", "prune", "tell"}]
  /\ id \in [Announcer -> Announcement \cup {None}]
  /\ todo \in [Announcer -> SUBSET Worker]
  /\ told \subseteq Worker \X Announcement
  /\ rows \in [Worker \X Kind -> Row \cup {None}]
  /\ apps \subseteq Worker
  /\ asking \subseteq Worker
  /\ leaving \in [Worker -> {"rows", "app", None}]
  /\ named \in [Worker \X Kind -> Named \cup {None}]
  /\ inserted \subseteq Announcement
  /\ settled \subseteq Worker \X Announcement
  /\ unclean \subseteq Worker

Init ==
  /\ chart = {} /\ now = 0
  /\ announced = [a \in Announcement |-> None]
  /\ table = {}
  /\ at = [p \in Announcer |-> "idle"]
  /\ id = [p \in Announcer |-> None]
  /\ todo = [p \in Announcer |-> {}]
  /\ told = {}
  /\ rows = [key \in Worker \X Kind |-> None]
  /\ apps = {}
  /\ asking = {}
  /\ leaving = [w \in Worker |-> None]
  /\ named = [key \in Worker \X Kind |-> None]
  /\ inserted = {} /\ settled = {} /\ unclean = {}

-----------------------------------------------------------------------------
(* Announcements.                                                          *)

(* ORDER BY announced_at DESC, id DESC; IDs are random. *)
Newer(a, b) ==
  \/ announced[a].time > announced[b].time
  \/ announced[a].time = announced[b].time /\ a > b

OfKind(k, ids) == {a \in ids : announced[a].kind = k}

(* The announcement that has come latest, or None. *)
Latest(k) ==
  IF OfKind(k, table) = {} THEN None
  ELSE CHOOSE a \in OfKind(k, table) : \A b \in OfKind(k, table) \ {a} : Newer(a, b)

(* AnnounceUpdate takes an ID, the time and a snapshot of the chart. *)
Announce(p, k) ==
  /\ at[p] = "idle"
  /\ \E a \in Announcement :
       /\ announced[a] = None
       /\ announced' = [announced EXCEPT ![a] = [kind |-> k, time |-> now]]
       /\ id' = [id EXCEPT ![p] = a]
  /\ todo' = [todo EXCEPT ![p] = chart]
  /\ at' = [at EXCEPT ![p] = "insert"]
  /\ UNCHANGED <<chart, now, table, told, rows, apps, asking, leaving, named, inserted, settled,
                 unclean>>

Insert(p) ==
  /\ at[p] = "insert"
  /\ table' = table \cup {id[p]}
  /\ inserted' = inserted \cup {id[p]}
  /\ at' = [at EXCEPT ![p] = "prune"]
  /\ UNCHANGED <<chart, now, announced, id, todo, told, rows, apps, asking, leaving,
                 named, settled, unclean>>

(* The rows the subselect of the prune names. *)
Kept(k) ==
  {a \in OfKind(k, table) : Cardinality({b \in OfKind(k, table) : Newer(b, a)}) < Retention}

Prune(p) ==
  /\ at[p] = "prune"
  /\ LET k == announced[id[p]].kind IN table' = (table \ OfKind(k, table)) \cup Kept(k)
  /\ at' = [at EXCEPT ![p] = "tell"]
  /\ UNCHANGED <<chart, now, announced, id, todo, told, rows, apps, asking, leaving,
                 named, inserted, settled, unclean>>

(* The next worker's message is emitted, or its emit fails and the loop    *)
(* goes on; they are taken in the order of their IDs, which is left open.  *)
Tell(p) ==
  /\ at[p] = "tell"
  /\ \E w \in todo[p] :
       /\ todo' = [todo EXCEPT ![p] = @ \ {w}]
       /\ told' \in {told, told \cup {<<w, id[p]>>}}
  /\ UNCHANGED <<chart, now, announced, table, at, id, rows, apps, asking, leaving,
                 named, inserted, settled, unclean>>

(* AnnounceUpdate returns: everybody was tried, a statement failed, or the *)
(* process ends.                                                           *)
AnnounceReturns(p) ==
  /\ at[p] # "idle"
  /\ at' = [at EXCEPT ![p] = "idle"]
  /\ id' = [id EXCEPT ![p] = None]
  /\ todo' = [todo EXCEPT ![p] = {}]
  /\ UNCHANGED <<chart, now, announced, table, told, rows, apps, asking, leaving, named, inserted,
                 settled, unclean>>

-----------------------------------------------------------------------------
(* What the workers say.  RecordUpdateState, SetWorkerApp and              *)
(* ClearWorkerApp look at the chart first; the announcement a report names *)
(* is not looked up.                                                       *)

Ask(w) ==
  /\ w \in chart \ asking
  /\ asking' = asking \cup {w}
  /\ UNCHANGED <<chart, now, announced, table, at, id, todo, told, rows, apps, leaving,
                 named, inserted, settled, unclean>>

(* Mutant of Merged: the target is merged by itself. *)
MergedApart(old, r) ==
  [status       |-> r.status,
   announcement |-> IF r.announcement # None \/ old = None THEN r.announcement ELSE old.announcement,
   target       |-> IF r.target # None \/ old = None THEN r.target ELSE old.target]

(* The upsert: a report without an announcement keeps the row's, and its   *)
(* target with it.                                                         *)
Merged(old, r) ==
  LET own == old = None \/ r.announcement # None
  IN  [status       |-> r.status,
       announcement |-> IF own THEN r.announcement ELSE old.announcement,
       target       |-> IF own THEN r.target ELSE old.target]

(* What a report is about: the announcement it names, or the one named     *)
(* before.                                                                 *)
About(w, r) ==
  IF r.announcement # None THEN r.announcement
  ELSE IF rows[<<w, r.kind>>] = None THEN None ELSE rows[<<w, r.kind>>].announcement

(* The ID and the target version come as the worker gives them: one, both  *)
(* or neither.  An ID is one it could have heard of; they are random.      *)
EndReport(w, r) ==
  LET about == About(w, r) IN
  /\ w \in asking
  /\ r.announcement # None => announced[r.announcement] # None
  /\ rows' = [rows EXCEPT ![<<w, r.kind>>] = Merged(@, r)]
  /\ named' = IF r.announcement = None THEN named
              ELSE [named EXCEPT ![<<w, r.kind>>] =
                      [announcement |-> r.announcement, target |-> r.target]]
  /\ asking' = asking \ {w}
  /\ settled' = IF r.status \in Settling /\ about # None /\ announced[about].kind = r.kind
                THEN settled \cup {<<w, about>>} ELSE settled
  /\ UNCHANGED <<chart, now, announced, table, at, id, todo, told, apps, leaving, inserted,
                 unclean>>

EndApp(w) ==
  /\ w \in asking
  /\ apps' \in {apps \cup {w}, apps \ {w}}
  /\ asking' = asking \ {w}
  /\ UNCHANGED <<chart, now, announced, table, at, id, todo, told, rows, leaving, named, inserted,
                 settled, unclean>>

AskFails(w) ==
  /\ w \in asking
  /\ asking' = asking \ {w}
  /\ UNCHANGED <<chart, now, announced, table, at, id, todo, told, rows, apps, leaving,
                 named, inserted, settled, unclean>>

-----------------------------------------------------------------------------
(* Workers come and go: the chart first, then the rows, table by table.    *)

Join(w) ==
  /\ w \notin chart
  /\ chart' = chart \cup {w}
  /\ UNCHANGED <<now, announced, table, at, id, todo, told, rows, apps, asking, leaving,
                 named, inserted, settled, unclean>>

Leave(w) ==
  /\ w \in chart /\ leaving[w] = None
  /\ chart' = chart \ {w}
  /\ leaving' = [leaving EXCEPT ![w] = "rows"]
  /\ settled' = {s \in settled : s[1] # w}
  /\ unclean' = IF w \in asking THEN unclean \cup {w} ELSE unclean
  /\ UNCHANGED <<now, announced, table, at, id, todo, told, rows, apps, asking, named, inserted>>

(* Mutant of Forgotten: only the announcement is forgotten. *)
ForgottenInPart(row) == IF row = None THEN None ELSE [row EXCEPT !.target = None]

(* DELETE FROM worker_update_state *)
Forgotten(row) == None

DeleteRows(w) ==
  /\ leaving[w] = "rows"
  /\ rows' = [key \in DOMAIN rows |-> IF key[1] = w THEN Forgotten(rows[key]) ELSE rows[key]]
  /\ named' = [key \in DOMAIN named |-> IF key[1] = w THEN None ELSE named[key]]
  /\ leaving' = [leaving EXCEPT ![w] = "app"]
  /\ UNCHANGED <<chart, now, announced, table, at, id, todo, told, apps, asking, inserted,
                 settled, unclean>>

DeleteApp(w) ==
  /\ leaving[w] = "app"
  /\ apps' = apps \ {w}
  /\ leaving' = [leaving EXCEPT ![w] = None]
  /\ UNCHANGED <<chart, now, announced, table, at, id, todo, told, rows, asking, named, inserted,
                 settled, unclean>>

(* A statement of the delete fails: the rows that are left stay. *)
DeleteFails(w) ==
  /\ leaving[w] # None
  /\ leaving' = [leaving EXCEPT ![w] = None]
  /\ unclean' = unclean \cup {w}
  /\ UNCHANGED <<chart, now, announced, table, at, id, todo, told, rows, apps, asking,
                 named, inserted, settled>>

Tick ==
  /\ now < MaxTime /\ now' = now + 1
  /\ UNCHANGED <<chart, announced, table, at, id, todo, told, rows, apps, asking, leaving,
                 named, inserted, settled, unclean>>

-----------------------------------------------------------------------------

Next ==
  \/ \E p \in Announcer :
       (\E k \in Kind : Announce(p, k)) \/ Insert(p) \/ Prune(p) \/ Tell(p) \/ AnnounceReturns(p)
  \/ \E w \in Worker :
       \/ Ask(w) \/ (\E r \in Report : EndReport(w, r)) \/ EndApp(w) \/ AskFails(w)
       \/ Join(w) \/ Leave(w) \/ DeleteRows(w) \/ DeleteApp(w) \/ DeleteFails(w)
  \/ Tick

Spec == Init /\ [][Next]_vars

-----------------------------------------------------------------------------
(* What is read back.                                                      *)

(* PendingUpdatesFor: the latest of every kind, unless the row settles it. *)
Pending(w) ==
  {a \in {Latest(k) : k \in Kind} \ {None} :
     LET row == rows[<<w, announced[a].kind>>]
     IN  row = None \/ row.announcement # a \/ row.status \notin Settling}

(* The status rolloutNodeFor shows of a worker, for an announcement. *)
RolloutStatus(w, k, a) ==
  LET row == rows[<<w, k>>]
  IN  IF row = None \/ (a # None /\ row.announcement # a) THEN "unknown" ELSE row.status

-----------------------------------------------------------------------------

Clean(w) == w \notin unclean /\ leaving[w] = None

(* Whatever was announced last of a kind, to whomever it could be emitted  *)
(* and whoever joined later: every worker of the chart has it pending or   *)
(* has settled it itself since it joined, and the rollout says the same.   *)
(* (Except after a delete that failed halfway or that a request of the     *)
(* worker straddled: the worker that comes back has its old rows.)         *)
NobodyMissesIt ==
  \A w \in chart, k \in Kind :
    Latest(k) # None =>
      /\ Latest(k) \notin Pending(w) /\ Clean(w) => <<w, Latest(k)>> \in settled
      /\ Latest(k) \in Pending(w) <=> RolloutStatus(w, k, Latest(k)) \notin Settling

(* Pruning keeps the newest: what is gone of a kind made room for          *)
(* Retention newer ones, also when two announcements are made at once.     *)
NewestKept ==
  \A a \in inserted \ table :
    Cardinality({b \in OfKind(announced[a].kind, table) : Newer(b, a)}) >= Retention

(* docs/updates.md:226: the announcement a row is about, and the target    *)
(* version with it, are those of the last report that named one; a report  *)
(* that names none, whatever version it gives, blanks or moves neither.    *)
RolloutKept ==
  \A key \in DOMAIN rows :
    rows[key] # None =>
      IF named[key] = None THEN rows[key].announcement = None
      ELSE /\ rows[key].announcement = named[key].announcement
           /\ rows[key].target = named[key].target

(* A row or an app of a worker that is not in the chart is one that a      *)
(* delete under way has still to remove, or that it missed.                *)
OrphansAreKnown ==
  \A w \in Worker \ chart : Clean(w) => w \notin apps /\ \A k \in Kind : rows[<<w, k>>] = None

(* A message names an announcement that is stored, or was: whoever is told *)
(* of it can find it.                                                      *)
ToldIsStored == \A t \in told : t[2] \in inserted
=============================================================================
