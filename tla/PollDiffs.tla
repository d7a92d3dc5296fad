------------------------------ MODULE PollDiffs ------------------------------
(***************************************************************************)
(* What the poller of the event stream tells of the chart and of the       *)
(* stored objects (internal/server/api/events.go, pollWorkersLocked and    *)
(* pollStorageLocked): the differences between what it saw last and what   *)
(* it sees now.  The viewer's picture is a ghost: what somebody knows who  *)
(* had the state of one poll and has applied the events of each later one. *)
(***************************************************************************)
EXTENDS Naturals, FiniteSets

CONSTANTS Worker, Role, Manager, Status,   \* of a worker of the chart
          Object, Revision,
          None                             \* not there

Snapshot == [role : Role, reportsTo : Manager, status : Status]

VARIABLES chart,        \* the graph
          objects,      \* the revisions of the stored objects
          workers,      \* s.workers: the chart as of the last poll
          revisions,    \* s.objectRevisions: the objects as of the last listing that succeeded
          initialized,
          picture       \* ghost: [workers |-> ..., revisions |-> ...] of the viewer

vars == <<chart, objects, workers, revisions, initialized, picture>>

Nobody == [w \in Worker |-> None]
Empty  == [o \in Object |-> None]

(* The server may serve for long before the first viewer starts the poll. *)
Init ==
  /\ chart \in [Worker -> Snapshot \cup {None}]
  /\ objects \in [Object -> Revision \cup {None}]
  /\ workers = Nobody /\ revisions = Empty
  /\ initialized = FALSE
  /\ picture = [workers |-> Nobody, revisions |-> Empty]

(* Between two polls any number of requests change the chart. *)
ChangeChart ==
  /\ \E w \in Worker, s \in Snapshot \cup {None} : chart' = [chart EXCEPT ![w] = s]
  /\ UNCHANGED <<objects, workers, revisions, initialized, picture>>

ChangeObjects ==
  /\ \E o \in Object, r \in Revision \cup {None} : objects' = [objects EXCEPT ![o] = r]
  /\ UNCHANGED <<chart, workers, revisions, initialized, picture>>

-----------------------------------------------------------------------------
(* Events, as the records the JSON of sseEvent carries. *)

RoleEvents(w, prev, now) ==
  IF prev # None /\ now # None /\ prev # now
  THEN IF prev.role # now.role
       THEN {[type |-> "worker_role_changed", worker |-> w, role |-> now.role]}
       ELSE {}
  ELSE {}

Connected(w, now) ==
  [type |-> "worker_connected", worker |-> w, role |-> now.role,
   reportsTo |-> now.reportsTo, status |-> now.status]

Reassigned(w, now)    == [type |-> "worker_reassigned", worker |-> w, reportsTo |-> now.reportsTo]
StatusChanged(w, now) == [type |-> "worker_status_changed", worker |-> w, status |-> now.status]
Disconnected(w)       == [type |-> "worker_disconnected", worker |-> w]

(* Mutant of MoveEvents: a case that does not fall through to the next. *)
MoveEventsApart(w, prev, now) ==
  CASE prev.reportsTo # now.reportsTo -> {Reassigned(w, now)}
    [] OTHER -> IF prev.status # now.status THEN {StatusChanged(w, now)} ELSE {}

(* The two last cases of the switch: a worker that has moved is told the   *)
(* status of too, whether it changed or not.                               *)
MoveEvents(w, prev, now) ==
  IF prev.reportsTo # now.reportsTo THEN {Reassigned(w, now), StatusChanged(w, now)}
  ELSE IF prev.status # now.status THEN {StatusChanged(w, now)}
  ELSE {}

(* What the first poll finds is not told of, nor what it misses. *)
WorkerEvents(w, prev, now) ==
  IF prev = None /\ now = None THEN {}
  ELSE IF prev = None THEN IF initialized THEN {Connected(w, now)} ELSE {}
  ELSE IF now = None THEN IF initialized THEN {Disconnected(w)} ELSE {}
  ELSE RoleEvents(w, prev, now) \cup MoveEvents(w, prev, now)

ObjectEvents(o, prev, now) ==
  IF prev = now \/ ~initialized THEN {}
  ELSE IF now = None THEN {[type |-> "storage_delete", object |-> o]}
  ELSE {[type |-> "storage_write", object |-> o, revision |-> now]}

-----------------------------------------------------------------------------
(* What a viewer makes of the events about one worker or object.  Of one   *)
(* poll those about a worker name different fields, so they may be applied *)
(* in any order.                                                           *)
Applied(known, es) ==
  IF \E e \in es : e.type = "worker_disconnected" THEN None
  ELSE IF \E e \in es : e.type = "worker_connected"
  THEN LET e == CHOOSE x \in es : x.type = "worker_connected"
       IN [role |-> e.role, reportsTo |-> e.reportsTo, status |-> e.status]
  ELSE IF known = None THEN None
  ELSE [role      |-> IF \E e \in es : e.type = "worker_role_changed"
                      THEN (CHOOSE x \in es : x.type = "worker_role_changed").role
                      ELSE known.role,
        reportsTo |-> IF \E e \in es : e.type = "worker_reassigned"
                      THEN (CHOOSE x \in es : x.type = "worker_reassigned").reportsTo
                      ELSE known.reportsTo,
        status    |-> IF \E e \in es : e.type = "worker_status_changed"
                      THEN (CHOOSE x \in es : x.type = "worker_status_changed").status
                      ELSE known.status]

AppliedObject(known, es) ==
  IF es = {} THEN known
  ELSE LET e == CHOOSE x \in es : TRUE IN IF e.type = "storage_delete" THEN None ELSE e.revision

(* One poll.  A listing that fails tells nothing and keeps what was known; *)
(* the poll counts as the first all the same.                              *)
Poll(listed) ==
  /\ workers' = chart
  /\ revisions' = IF listed THEN objects ELSE revisions
  /\ initialized' = TRUE
  /\ picture' =
       IF ~initialized
       THEN [workers |-> workers', revisions |-> revisions']
       ELSE [workers   |-> [w \in Worker |->
                              Applied(picture.workers[w], WorkerEvents(w, workers[w], chart[w]))],
             revisions |-> [o \in Object |->
                              AppliedObject(picture.revisions[o],
                                            IF listed THEN ObjectEvents(o, revisions[o], objects[o])
                                                      ELSE {})]]
  /\ UNCHANGED <<chart, objects>>

(* The events of the first poll, were there any: it finds what it has      *)
(* never seen, so neither a change nor an absence.                         *)
FirstPollEvents ==
  UNION {WorkerEvents(w, workers[w], chart[w]) : w \in Worker}
    \cup UNION {ObjectEvents(o, revisions[o], objects[o]) : o \in Object}

Next == ChangeChart \/ ChangeObjects \/ \E listed \in BOOLEAN : Poll(listed)

Spec == Init /\ [][Next]_vars

(* The type. *)
TypeOK ==
  /\ {chart, workers, picture.workers} \subseteq [Worker -> Snapshot \cup {None}]
  /\ {objects, revisions, picture.revisions} \subseteq [Object -> Revision \cup {None}]
  /\ initialized \in BOOLEAN

(* The events are enough: whoever has the state of some poll and applies   *)
(* what every later one tells has the state of the last one, though a      *)
(* worker may have left and come back between two polls with another role, *)
(* parent and status, and though listings fail in between.                 *)
PictureFollows == initialized => picture = [workers |-> workers, revisions |-> revisions]

(* Nothing is told before there is something to compare with: a viewer of  *)
(* a server that has served for long is not sent its history.              *)
FirstPollIsQuiet == ~initialized => FirstPollEvents = {}
=============================================================================
