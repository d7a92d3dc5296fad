------------------------------ MODULE LocalFS ------------------------------
(***************************************************************************)
(* The object store on a local directory (pkg/storage/localfs): a file per *)
(* object, and beside it the records of its last revisions.  One mutex is  *)
(* held for each operation, so that operations do not overlap; but an      *)
(* operation is several file operations, and an error or the end of the    *)
(* process cuts it short.  A revision is a hash of the content, so that    *)
(* contents stand for their revisions.                                     *)
(***************************************************************************)
EXTENDS Naturals, Sequences, FiniteSets

CONSTANTS Object, Content,
          None,        \* no content, no revision, nothing under way
          MaxHistory,  \* maxRevisionHistory (10)
          MaxCuts      \* bound: operations cut short

VARIABLES file,      \* what is at the object's path
          records,   \* the revisions in its .meta directory, oldest first
          litter,    \* temporary files left by writes that were cut short
          op,        \* the operation that holds the mutex
          listed,    \* a request that deletes by prefix: objects it still has to delete
          cuts,
          torn       \* ghost: objects whose last operation was cut short, and not redone

vars == <<file, records, litter, op, listed, cuts, torn>>

Idle == [at |-> "idle", object |-> None, content |-> None, named |-> None]

TypeOK ==
  /\ file \in [Object -> Content \cup {None}]
  /\ records \in [Object -> Seq(Content)]
  /\ litter \in 0 .. MaxCuts
  /\ op \in [at : {"idle", "write", "record", "prune", "remove", "forget"},
             object : Object \cup {None}, content : Content \cup {None},
             named : Content \cup {None}]
  /\ listed \in {None} \cup SUBSET Object
  /\ cuts \in 0 .. MaxCuts
  /\ torn \subseteq Object

Init ==
  /\ file = [o \in Object |-> None]
  /\ records = [o \in Object |-> << >>]
  /\ litter = 0
  /\ op = Idle
  /\ listed = None
  /\ cuts = 0
  /\ torn = {}

-----------------------------------------------------------------------------

(* latestRevision: the record of the highest number. *)
Latest(o) == IF records[o] = << >> THEN None ELSE records[o][Len(records[o])]

(* Mutant of Revision: the first record, not the latest. *)
FirstRevision(o) == IF file[o] = None \/ records[o] = << >> THEN file[o] ELSE records[o][1]

(* statLocked: the latest record, and of an object without records the     *)
(* hash of the file; nothing of an object that is not there.               *)
Revision(o) == IF file[o] = None \/ Latest(o) = None THEN file[o] ELSE Latest(o)

(* What Get sends with the content, under one lock. *)
Get(o) == [revision |-> Revision(o), content |-> file[o]]

(* What Revisions answers of an object that is there. *)
Revisions(o) == IF file[o] = None THEN << >> ELSE records[o]

(* What List returns for the prefix "": the files outside of .meta.        *)
Listed == {o \in Object : file[o] # None}

(* Mutant of BeginPut: the revision is not compared. *)
BeginPutAnyway(o, c, named) ==
  /\ op = Idle
  /\ op' = [at |-> "write", object |-> o, content |-> c, named |-> named]
  /\ UNCHANGED <<file, records, litter, listed, cuts, torn>>

(* Put, with the mutex got and the revision compared; on a mismatch it     *)
(* returns, and so it does on a revision named for an object that is not   *)
(* there.  named is None for a Put without IfMatchRevision.                *)
BeginPut(o, c, named) ==
  /\ op = Idle
  /\ named # None => named = Revision(o)
  /\ op' = [at |-> "write", object |-> o, content |-> c, named |-> named]
  /\ UNCHANGED <<file, records, litter, listed, cuts, torn>>

(* atomicWrite of the object: the rename. *)
WriteFile ==
  /\ op.at = "write"
  /\ file' = [file EXCEPT ![op.object] = op.content]
  /\ op' = [op EXCEPT !.at = "record"]
  /\ UNCHANGED <<records, litter, listed, cuts, torn>>

(* recordRevision: a record of the next number, *)
Record ==
  /\ op.at = "record"
  /\ records' = [records EXCEPT ![op.object] = Append(@, op.content)]
  /\ op' = [op EXCEPT !.at = "prune"]
  /\ torn' = torn \ {op.object}
  /\ UNCHANGED <<file, litter, listed, cuts>>

(* and all but the last MaxHistory removed. *)
Prune ==
  /\ op.at = "prune"
  /\ LET all == records[op.object]
     IN records' = [records EXCEPT ![op.object] =
          IF Len(all) > MaxHistory THEN SubSeq(all, Len(all) + 1 - MaxHistory, Len(all)) ELSE all]
  /\ op' = Idle
  /\ UNCHANGED <<file, litter, listed, cuts, torn>>

BeginDelete(o) ==
  /\ op = Idle
  /\ file[o] # None
  /\ op' = [Idle EXCEPT !.at = "remove", !.object = o]
  /\ UNCHANGED <<file, records, litter, listed, cuts, torn>>

RemoveFile ==
  /\ op.at = "remove"
  /\ file' = [file EXCEPT ![op.object] = None]
  /\ op' = [op EXCEPT !.at = "forget"]
  /\ UNCHANGED <<records, litter, listed, cuts, torn>>

(* removeRevisionHistory. *)
Forget ==
  /\ op.at = "forget"
  /\ records' = [records EXCEPT ![op.object] = << >>]
  /\ op' = Idle
  /\ torn' = torn \ {op.object}
  /\ UNCHANGED <<file, litter, listed, cuts>>

(* A file operation fails and Put or Delete returns the error (Delete none *)
(* when it is the records it could not remove), or the process ends: what  *)
(* was done stays.  A process that ends in atomicWrite leaves its          *)
(* temporary file.                                                         *)
CutShort(crash) ==
  /\ op # Idle /\ cuts < MaxCuts
  /\ cuts' = cuts + 1
  /\ op' = Idle
  /\ litter' = IF crash /\ op.at \in {"write", "record"} THEN litter + 1 ELSE litter
  /\ torn' = IF op.at \in {"record", "forget"} THEN torn \cup {op.object} ELSE torn
  /\ listed' = IF crash THEN None ELSE listed
  /\ UNCHANGED <<file, records>>

(* DELETE /api/objects?prefix=: a list, and then a Delete of each; one     *)
(* that is gone by then is passed over.                                    *)
ListForDelete ==
  /\ op = Idle /\ listed = None
  /\ listed' = Listed
  /\ UNCHANGED <<file, records, litter, op, cuts, torn>>

DeleteNext(o) ==
  /\ op = Idle /\ listed # None /\ o \in listed
  /\ listed' = listed \ {o}
  /\ op' = IF file[o] = None THEN Idle ELSE [Idle EXCEPT !.at = "remove", !.object = o]
  /\ UNCHANGED <<file, records, litter, cuts, torn>>

DeletedAll ==
  /\ op = Idle /\ listed = {}
  /\ listed' = None
  /\ UNCHANGED <<file, records, litter, op, cuts, torn>>

Next ==
  \/ \E o \in Object, c \in Content, named \in Content \cup {None} : BeginPut(o, c, named)
  \/ WriteFile \/ Record \/ Prune
  \/ \E o \in Object : BeginDelete(o) \/ DeleteNext(o)
  \/ RemoveFile \/ Forget
  \/ \E crash \in BOOLEAN : CutShort(crash)
  \/ ListForDelete \/ DeletedAll

Spec == Init /\ [][Next]_vars

(* What Stat and Get report as the revision is that of the content, and    *)
(* the history, no longer than it may be, ends with it, except for an      *)
(* object whose last Put or Delete was cut short between its file and its  *)
(* records; and the next Put or Delete that completes mends it.            *)
RevisionIsOfContent ==
  op = Idle =>
    \A o \in Object \ torn :
      LET got == Get(o) history == Revisions(o)
      IN  /\ got.revision = got.content
          /\ history # << >> => history[Len(history)] = got.content
          /\ cuts = 0 => Len(history) <= MaxHistory

(* A Put with IfMatchRevision replaces the very content it names, or the   *)
(* object was torn: nothing written since that revision is lost.           *)
ReplacesWhatItNames ==
  op.at = "write" /\ op.named # None /\ op.object \notin torn => file[op.object] = op.named
=============================================================================
