---------------------------- MODULE ScopeRemoval ----------------------------
(***************************************************************************)
(* `dream server remove-scope` (cmd/dream cmd_server.go): four steps over  *)
(* the API, each of several requests or statements, any of which may fail  *)
(* and end the command; it is then run again.  The worker step is the      *)
(* server's cascade delete (internal/server/server.go DeleteWorker), which *)
(* may stop inside a worker.  The workers of the scope go on meanwhile: a  *)
(* request that was let in acts when it gets to it.                        *)
(***************************************************************************)
EXTENDS Naturals, Sequences

CONSTANTS Removing,   \* the subtree as DeleteWorker orders it: the root last
          Thing,      \* schedules, objects and report rows, as
          Kind,       \* "schedule", "object" or "report" of each, and
          OwnerOf,    \* the worker that writes it, and, for a schedule, owns it
          Scoped,     \* those whose id, prefix or path is the scope's
          MaxRuns,    \* bound: runs of the command
          MaxWrites   \* bound: requests of the workers

VARIABLES chart, stored, revoked, \* the plane: in memory, in its store, revoked
          things,                 \* what there is
          at, next, todo,         \* the command: its step; the worker it deletes;
                                  \* what it has listed
          outcome,                \* of its last run
          preview,                \* what a dry run printed
          admitted,               \* requests let in: the worker and what it writes
          runs, writes,
          brokeOff,               \* ghost: a cascade delete failed half way
          late                    \* ghost: written by a request after a run began

vars == <<chart, stored, revoked, things, at, next, todo, outcome, preview, admitted,
          runs, writes, brokeOff, late>>

Subtree == {Removing[i] : i \in DOMAIN Removing}
Root == Removing[Len(Removing)]

Steps == {"idle", "workers", "unstore", "revoke", "unschedule", "schedules", "objects", "reports"}

TypeOK ==
  /\ chart \subseteq Subtree /\ stored \subseteq Subtree /\ revoked \subseteq Subtree
  /\ things \subseteq Thing /\ todo \subseteq Thing /\ late \subseteq Thing
  /\ at \in Steps /\ next \in 1 .. Len(Removing) + 1
  /\ outcome \in {"none", "done", "error"}
  /\ preview \subseteq Subtree \cup Thing
  /\ admitted \subseteq Subtree \X Thing
  /\ runs \in 0 .. MaxRuns /\ writes \in 0 .. MaxWrites /\ brokeOff \in BOOLEAN

Init ==
  /\ chart = Subtree /\ stored = Subtree /\ revoked = {}
  /\ things = Thing
  /\ at = "idle" /\ next = 1 /\ todo = {} /\ outcome = "none" /\ preview = {}
  /\ admitted = {} /\ runs = 0 /\ writes = 0 /\ brokeOff = FALSE /\ late = {}

Of(kind) == {t \in things : Kind[t] = kind}

-----------------------------------------------------------------------------
(* A worker's request is let in while the plane does not know it revoked;  *)
(* what it writes may be there already, or be new.                         *)
Admit(w, t) ==
  /\ w \in chart \ revoked /\ writes < MaxWrites /\ OwnerOf[t] = w
  /\ writes' = writes + 1
  /\ admitted' = admitted \cup {<<w, t>>}
  /\ UNCHANGED <<chart, stored, revoked, things, at, next, todo, outcome, preview, runs,
                 brokeOff, late>>

Act(w, t) ==
  /\ <<w, t>> \in admitted
  /\ admitted' = admitted \ {<<w, t>>}
  /\ things' = things \cup {t}
  /\ late' = IF runs > 0 THEN late \cup {t} ELSE late
  /\ UNCHANGED <<chart, stored, revoked, at, next, todo, outcome, preview, runs, writes, brokeOff>>

-----------------------------------------------------------------------------
Same == UNCHANGED <<preview, admitted, runs, writes>>

(* Any step may fail: the command returns the error. *)
Fails ==
  /\ at # "idle"
  /\ at' = "idle" /\ outcome' = "error"
  /\ brokeOff' = (brokeOff \/ at \in {"unstore", "revoke", "unschedule"}
                    \/ (at = "workers" /\ next > 1))
  /\ Same /\ UNCHANGED <<chart, stored, revoked, things, next, todo, late>>

RunServerRemoveScope ==
  /\ at = "idle" /\ runs < MaxRuns
  /\ runs' = runs + 1 /\ outcome' = "none"
  /\ at' = "workers" /\ next' = 1 /\ todo' = {}
  /\ UNCHANGED <<chart, stored, revoked, things, preview, admitted, writes, brokeOff, late>>

(* DELETE /api/workers/{root}?cascade=true answers 404 when the root is    *)
(* not on the chart, and the step has nothing to do.                       *)
Found == Root \in chart

RootIsGone ==
  /\ at = "workers" /\ next = 1 /\ ~Found
  /\ at' = "schedules"
  /\ Same /\ UNCHANGED <<chart, stored, revoked, things, next, todo, outcome, brokeOff, late>>

(* DeleteWorker, for each of the subtree that is still on the chart: out   *)
(* of the chart, out of the store, revoked, the schedules it owns or       *)
(* receives deleted.                                                       *)
RemoveFromChart ==
  /\ at = "workers" /\ (next > 1 \/ Found) /\ next <= Len(Removing)
  /\ IF Removing[next] \in chart
     THEN chart' = chart \ {Removing[next]} /\ at' = "unstore" /\ UNCHANGED next
     ELSE next' = next + 1 /\ UNCHANGED <<chart, at>>
  /\ Same /\ UNCHANGED <<stored, revoked, things, todo, outcome, brokeOff, late>>

RemoveFromStore ==
  /\ at = "unstore" /\ at' = "revoke"
  /\ stored' = stored \ {Removing[next]}
  /\ Same /\ UNCHANGED <<chart, revoked, things, next, todo, outcome, brokeOff, late>>

Revoke ==
  /\ at = "revoke" /\ at' = "unschedule"
  /\ revoked' = revoked \cup {Removing[next]}
  /\ Same /\ UNCHANGED <<chart, stored, things, next, todo, outcome, brokeOff, late>>

DeleteWorkerSchedules ==
  /\ at = "unschedule" /\ at' = "workers"
  /\ things' = things \ {t \in Of("schedule") : OwnerOf[t] = Removing[next]}
  /\ next' = next + 1
  /\ Same /\ UNCHANGED <<chart, stored, revoked, todo, outcome, brokeOff, late>>

WorkersRemoved ==
  /\ at = "workers" /\ next = Len(Removing) + 1
  /\ at' = "schedules"
  /\ Same /\ UNCHANGED <<chart, stored, revoked, things, next, todo, outcome, brokeOff, late>>

(* Mutant of Matching: every one that is listed. *)
MatchingAll(kind) == Of(kind)

Matching(kind) == Of(kind) \cap Scoped

(* What matches is listed and deleted one by one; one that is gone by then *)
(* is no error.  Schedules so by the command, objects by the server.       *)
List(step, kind, then) ==
  /\ at = step /\ todo = {}
  /\ IF Matching(kind) = {} THEN at' = then /\ UNCHANGED todo
     ELSE todo' = Matching(kind) /\ UNCHANGED at
  /\ Same /\ UNCHANGED <<chart, stored, revoked, things, next, outcome, brokeOff, late>>

DeleteListed(t, then) ==
  /\ at \in {"schedules", "objects"} /\ t \in todo
  /\ todo' = todo \ {t} /\ things' = things \ {t} /\ late' = late \ {t}
  /\ at' = IF todo = {t} THEN then ELSE at
  /\ Same /\ UNCHANGED <<chart, stored, revoked, next, outcome, brokeOff>>

(* The report rows go at once. *)
PurgeReports ==
  /\ at = "reports" /\ at' = "idle" /\ outcome' = "done"
  /\ things' = things \ Matching("report") /\ late' = late \ Matching("report")
  /\ Same /\ UNCHANGED <<chart, stored, revoked, next, todo, brokeOff>>

(* --dry-run, between runs: it walks the chart from the root and asks for  *)
(* the rest.                                                               *)
DryRun ==
  /\ at = "idle" /\ runs = 0
  /\ preview' = (IF Found THEN chart ELSE {}) \cup Matching("schedule")
                  \cup Matching("object") \cup Matching("report")
  /\ UNCHANGED <<chart, stored, revoked, things, at, next, todo, outcome, admitted, runs,
                 writes, brokeOff, late>>

Next ==
  \/ \E w \in Subtree, t \in Thing : Admit(w, t) \/ Act(w, t)
  \/ RunServerRemoveScope \/ DryRun \/ Fails
  \/ RootIsGone \/ RemoveFromChart \/ RemoveFromStore \/ Revoke \/ DeleteWorkerSchedules
  \/ WorkersRemoved
  \/ List("schedules", "schedule", "objects") \/ List("objects", "object", "reports")
  \/ \E t \in todo : DeleteListed(t, IF at = "schedules" THEN "objects" ELSE "reports")
  \/ PurgeReports

Spec == Init /\ [][Next]_vars

-----------------------------------------------------------------------------
Done == outcome = "done"

(* A run that says it is done has left nothing of the scope but what the   *)
(* scope's own workers wrote while it ran, and has removed every worker of *)
(* it for good, when no earlier run was broken off inside the cascade.     *)
DoneMeansGone ==
  Done => /\ Matching("schedule") \cup Matching("object") \cup Matching("report")
               \subseteq late \cup {t \in Thing : OwnerOf[t] \in chart}
          /\ ~brokeOff => chart = {} /\ stored = {} /\ revoked = Subtree

(* Of what there was, what is no longer there; and the schedules a removed *)
(* worker owned under other names than the scope's, which the cascade      *)
(* deletes with it and a dry run does not ask for.                         *)
Removed == (Subtree \ chart) \cup (Thing \ things)
Unlisted == {t \in Thing \ Scoped : Kind[t] = "schedule" /\ OwnerOf[t] \in Subtree}

(* Whatever fails and however often it is run, it takes nothing that is    *)
(* neither of the scope nor a schedule of a removed worker.  Beyond what a *)
(* dry run printed it takes the unlisted schedules and nothing else, and   *)
(* when it is done and no cascade was broken off it has taken all of both, *)
(* as long as the scope's workers wrote nothing.                           *)
OnlyTheScope ==
  /\ \A t \in Thing \ things : t \in Scoped \/ (Kind[t] = "schedule" /\ OwnerOf[t] \in revoked)
  /\ preview # {} /\ writes = 0 =>
       /\ Removed \subseteq preview \cup Unlisted
       /\ Done /\ ~brokeOff => Removed = preview \cup Unlisted

(* docs/design-notes/cli.md: "a run interrupted halfway is finished by     *)
(* running it again".  A cascade that fails at its last worker leaves it   *)
(* in the store and not revoked, and the next run is answered 404.         *)
RerunFinishes == Done => stored = {} /\ revoked = Subtree
=============================================================================
