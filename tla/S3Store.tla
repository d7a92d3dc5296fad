------------------------------ MODULE S3Store ------------------------------
(***************************************************************************)
(* The object store on S3 (pkg/storage/s3compat).  Requests, of one server *)
(* or of several on one bucket, are not excluded from each other: each is  *)
(* a sequence of S3 calls.  S3 itself is taken from how this code uses it: *)
(* every call is atomic, a PutObject with IfMatch is refused unless the    *)
(* object has that ETag, and a single PutObject's ETag is a hash of the    *)
(* content, so that contents stand for their revisions.                    *)
(*                                                                         *)
(* One object, and the sidecar object with its revisions (the bucket is    *)
(* not versioned; of one that is, S3 keeps the versions).                  *)
(***************************************************************************)
EXTENDS Naturals, Sequences

CONSTANTS Request, Content, None,
          MaxHistory,  \* maxRevisionHistory
          MaxWrites    \* bound: objects put and deleted

VARIABLES object,   \* the content, or None
          sidecar,  \* revisions, oldest first
          at,       \* where each request is
          arg,      \* what it puts, and the revision it names
          loaded,   \* the revisions it read of the sidecar
          writes,
          stored,   \* ghost: every content the object has had
          overlapped, \* ghost: a request that changes something met another one
          failed    \* ghost: a request failed halfway

vars == <<object, sidecar, at, arg, loaded, writes, stored, overlapped, failed>>

TypeOK ==
  /\ object \in Content \cup {None}
  /\ sidecar \in Seq(Content) /\ Len(sidecar) <= MaxHistory
  /\ at \in [Request -> {"idle", "head", "put", "load", "save", "look", "delete", "drop"}]
  /\ arg \in [Request -> [content : Content \cup {None}, named : Content \cup {None}]]
  /\ loaded \in [Request -> Seq(Content)]
  /\ writes \in 0 .. MaxWrites
  /\ stored \subseteq Content
  /\ {overlapped, failed} \subseteq BOOLEAN

NoArg == [content |-> None, named |-> None]

Init ==
  /\ object = None
  /\ sidecar = << >>
  /\ at = [r \in Request |-> "idle"]
  /\ arg = [r \in Request |-> NoArg]
  /\ loaded = [r \in Request |-> << >>]
  /\ writes = 0
  /\ stored = {}
  /\ overlapped = FALSE /\ failed = FALSE

-----------------------------------------------------------------------------

Goes(r, to) == at' = [at EXCEPT ![r] = to]

Begin(r, to) ==
  /\ at[r] = "idle"
  /\ Goes(r, to)
  /\ overlapped' = (overlapped \/ \E q \in Request : at[q] # "idle")
  /\ UNCHANGED <<object, sidecar, loaded, writes, stored, failed>>

(* Put: with IfMatchRevision the head of the object is looked at first. *)
BeginPut(r, c, named) ==
  /\ Begin(r, IF named = None THEN "put" ELSE "head")
  /\ arg' = [arg EXCEPT ![r] = [content |-> c, named |-> named]]

BeginDelete(r) == Begin(r, "look") /\ UNCHANGED arg

HeadObject(r) ==
  /\ at[r] = "head"
  /\ IF object = arg[r].named
     THEN Goes(r, "put") /\ UNCHANGED arg
     ELSE Goes(r, "idle") /\ arg' = [arg EXCEPT ![r] = NoArg]
  /\ UNCHANGED <<object, sidecar, loaded, writes, stored, overlapped, failed>>

(* Mutant of Accepts: put.IfMatch is not set. *)
AcceptsAny(r) == TRUE

(* What S3 makes of put.IfMatch. *)
Accepts(r) == arg[r].named = None \/ object = arg[r].named

PutObject(r) ==
  /\ at[r] = "put"
  /\ IF Accepts(r)
     THEN /\ writes < MaxWrites
          /\ writes' = writes + 1
          /\ object' = arg[r].content
          /\ stored' = stored \cup {arg[r].content}
          /\ Goes(r, "load")
          /\ UNCHANGED arg
     ELSE /\ Goes(r, "idle")
          /\ arg' = [arg EXCEPT ![r] = NoArg]
          /\ UNCHANGED <<object, writes, stored>>
  /\ UNCHANGED <<sidecar, loaded, overlapped, failed>>

(* recordRevision reads the sidecar; when that fails it goes on with none. *)
LoadSidecar(r) ==
  /\ at[r] = "load"
  /\ \E records \in {sidecar, << >>} : loaded' = [loaded EXCEPT ![r] = records]
  /\ Goes(r, "save")
  /\ UNCHANGED <<object, sidecar, arg, writes, stored, overlapped, failed>>

(* Mutant of Recorded: all but the newest MaxHistory are cut before it is  *)
(* added, and then the newest again.                                       *)
RecordedTwice(r) ==
  LET all == Append(Append(loaded[r], arg[r].content), arg[r].content)
  IN  SubSeq(all, 1, IF Len(all) > MaxHistory THEN MaxHistory ELSE Len(all))

Recorded(r) ==
  LET all == Append(loaded[r], arg[r].content)
  IN  IF Len(all) > MaxHistory THEN SubSeq(all, Len(all) + 1 - MaxHistory, Len(all)) ELSE all

(* and puts it back whole. *)
SaveSidecar(r) ==
  /\ at[r] = "save"
  /\ sidecar' = Recorded(r)
  /\ loaded' = [loaded EXCEPT ![r] = << >>]
  /\ arg' = [arg EXCEPT ![r] = NoArg]
  /\ Goes(r, "idle")
  /\ UNCHANGED <<object, writes, stored, overlapped, failed>>

(* Delete: the head, the object, the sidecar. *)
Look(r) ==
  /\ at[r] = "look"
  /\ Goes(r, IF object = None THEN "idle" ELSE "delete")
  /\ UNCHANGED <<object, sidecar, arg, loaded, writes, stored, overlapped, failed>>

DeleteObject(r) ==
  /\ at[r] = "delete"
  /\ writes < MaxWrites /\ writes' = writes + 1
  /\ object' = None
  /\ Goes(r, "drop")
  /\ UNCHANGED <<sidecar, arg, loaded, stored, overlapped, failed>>

DropSidecar(r) ==
  /\ at[r] = "drop"
  /\ sidecar' = << >>
  /\ Goes(r, "idle")
  /\ UNCHANGED <<object, arg, loaded, writes, stored, overlapped, failed>>

(* A call fails, or the process ends; of the reads, only that of the head  *)
(* is an error.                                                            *)
CallFails(r) ==
  /\ at[r] # "idle"
  /\ Goes(r, "idle")
  /\ arg' = [arg EXCEPT ![r] = NoArg]
  /\ loaded' = [loaded EXCEPT ![r] = << >>]
  /\ failed' = TRUE
  /\ UNCHANGED <<object, sidecar, writes, stored, overlapped>>

Next ==
  \E r \in Request :
    \/ \E c \in Content, named \in Content \cup {None} : BeginPut(r, c, named)
    \/ BeginDelete(r)
    \/ HeadObject(r) \/ PutObject(r) \/ LoadSidecar(r) \/ SaveSidecar(r)
    \/ Look(r) \/ DeleteObject(r) \/ DropSidecar(r)
    \/ CallFails(r)

Spec == Init /\ [][Next]_vars

(* A Put that names a revision replaces the object with that revision or   *)
(* nothing, though others write between its look at the head and its       *)
(* write: no update is lost to it.                                         *)
ReplacesWhatItNames ==
  [][\A r \in Request :
       object' # object /\ at[r] = "put" /\ at'[r] = "load" =>
         arg[r].named \in {None, object}]_vars

(* The history holds revisions the object really had; and when no two      *)
(* requests overlapped and none failed it ends with the object's own.      *)
HistoryIsTrue ==
  /\ \A i \in DOMAIN sidecar : sidecar[i] \in stored
  /\ (\A r \in Request : at[r] = "idle") /\ ~overlapped /\ ~failed =>
       IF object = None THEN sidecar = << >> ELSE sidecar # << >> /\ sidecar[Len(sidecar)] = object
=============================================================================
