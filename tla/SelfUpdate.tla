---------------------------- MODULE SelfUpdate -----------------------------
(***************************************************************************)
(* How the binary replaces itself (internal/selfupdate update.go and       *)
(* apply.go, cmd/dream cmd_selfupdate.go).  Several processes on a machine *)
(* run one executable, and each may find that it is to be updated: a lock  *)
(* file next to it, a download that is checked, the old binary moved aside *)
(* and the new one moved into its place, and back when that fails; then    *)
(* the backup is removed and the process starts itself again.              *)
(*                                                                         *)
(* Every file operation is a step and may fail; a process may end between  *)
(* any two.  A binary is the version it reports, which need not be the one *)
(* it was released as; Bad is a download that does not run, or is not what *)
(* the checksum is of.                                                     *)
(***************************************************************************)
EXTENDS Naturals

CONSTANTS Updater,    \* the processes
          Version,    \* numbers, in the order of Compare
          First,      \* the version everybody begins with
          Passing,    \* for each version, what a binary may report and pass for it
          Bad, None,
          MaxRuns,    \* bound: updates begun
          MaxFaults   \* bound: operations that fail, processes that end

VARIABLES exe, backup, \* the two files: a version, or None
          lock,        \* the lock file: whose, or None
          stale,       \* it is older than lockStaleAfter
          at,          \* where each process is
          running,     \* the version it runs; None when it has ended
          target,      \* the version it is to get
          staged,      \* what it downloaded
          runs, faults,
          disturbed    \* ghost: a stale lock was taken over, a backup removed
                       \* with the lock in other hands, or a rollback failed

vars == <<exe, backup, lock, stale, at, running, target, staged, runs, faults, disturbed>>

Places == {"idle", "lock", "unlink", "relock", "download", "unbackup", "aside", "install",
           "restore", "unlock", "cleanup", "exec"}

(* Between lock and the deferred unlock. *)
Inside == {"download", "unbackup", "aside", "install", "restore", "unlock"}

TypeOK ==
  /\ {exe, backup} \subseteq Version \cup {Bad, None}
  /\ lock \in Updater \cup {None} /\ stale \in BOOLEAN
  /\ at \in [Updater -> Places]
  /\ running \in [Updater -> Version \cup {None}]
  /\ target \in [Updater -> Version \cup {None}]
  /\ staged \in [Updater -> Version \cup {Bad, None}]
  /\ runs \in 0 .. MaxRuns /\ faults \in 0 .. MaxFaults
  /\ disturbed \in BOOLEAN

Init ==
  /\ exe = First /\ backup = None
  /\ lock = None /\ stale = FALSE
  /\ at = [p \in Updater |-> "idle"]
  /\ running = [p \in Updater |-> First]
  /\ target = [p \in Updater |-> None]
  /\ staged = [p \in Updater |-> None]
  /\ runs = 0 /\ faults = 0
  /\ disturbed = FALSE

Goes(p, to) == at' = [at EXCEPT ![p] = to]

(* An error is returned from inside the lock: nothing is restarted. *)
Fails(p) == Goes(p, "unlock") /\ target' = [target EXCEPT ![p] = None]

Fault == faults < MaxFaults /\ faults' = faults + 1

-----------------------------------------------------------------------------
(* Run: the target is compared with the version the process runs, which    *)
(* need not be the one on disk any more; an older one is only taken when   *)
(* that is asked for.                                                      *)
Run(p, v) ==
  /\ at[p] = "idle" /\ running[p] # None
  /\ runs < MaxRuns /\ runs' = runs + 1
  /\ v # running[p]
  /\ target' = [target EXCEPT ![p] = v]
  /\ Goes(p, "lock")
  /\ UNCHANGED <<exe, backup, lock, stale, running, staged, faults, disturbed>>

(* O_CREATE|O_EXCL; one that exists is taken over when it is stale. *)
Lock(p) ==
  /\ at[p] = "lock"
  /\ IF lock = None
     THEN lock' = p /\ stale' = FALSE /\ Goes(p, "download") /\ UNCHANGED target
     ELSE /\ IF stale THEN Goes(p, "unlink") /\ UNCHANGED target
             ELSE Goes(p, "idle") /\ target' = [target EXCEPT ![p] = None]
          /\ UNCHANGED <<lock, stale>>
  /\ UNCHANGED <<exe, backup, running, staged, runs, faults, disturbed>>

(* The file that is removed may be a new one by now. *)
Unlink(p) ==
  /\ at[p] = "unlink"
  /\ lock' = None /\ stale' = FALSE
  /\ disturbed' = TRUE
  /\ Goes(p, "relock")
  /\ UNCHANGED <<exe, backup, running, target, staged, runs, faults>>

Relock(p) ==
  /\ at[p] = "relock"
  /\ IF lock = None
     THEN lock' = p /\ stale' = FALSE /\ Goes(p, "download") /\ UNCHANGED target
     ELSE Goes(p, "idle") /\ target' = [target EXCEPT ![p] = None] /\ UNCHANGED <<lock, stale>>
  /\ UNCHANGED <<exe, backup, running, staged, runs, faults, disturbed>>

(* Mutant of Passes: neither the checksum nor the smoke test is looked at. *)
PassesAnything(p, binary) == TRUE

(* The checksum of the archive; and what the binary reports of itself must *)
(* contain the version.                                                    *)
Passes(p, binary) == binary \in Passing[target[p]]

(* What is extracted from the archive of the release, when it passes; the  *)
(* files of one that does not are removed.                                 *)
Download(p) ==
  /\ at[p] = "download"
  /\ \E binary \in Version \cup {Bad} :
       IF Passes(p, binary)
       THEN /\ staged' = [staged EXCEPT ![p] = binary]
            /\ Goes(p, "unbackup") /\ UNCHANGED target
       ELSE Fails(p) /\ UNCHANGED staged
  /\ UNCHANGED <<exe, backup, lock, stale, running, runs, faults, disturbed>>

(* Apply: an older backup is removed, *)
RemoveBackup(p) ==
  /\ at[p] = "unbackup"
  /\ backup' = None
  /\ Goes(p, "aside")
  /\ UNCHANGED <<exe, lock, stale, running, target, staged, runs, faults, disturbed>>

Drop(p) == staged' = [staged EXCEPT ![p] = None]

(* the current binary moved aside, which fails when there is none, *)
MoveAside(p) ==
  /\ at[p] = "aside"
  /\ IF exe # None
     THEN /\ backup' = exe /\ exe' = None
          /\ Goes(p, "install")
          /\ UNCHANGED <<staged, target>>
     ELSE Fails(p) /\ Drop(p) /\ UNCHANGED <<exe, backup>>
  /\ UNCHANGED <<lock, stale, running, runs, faults, disturbed>>

MoveAsideFails(p) ==
  /\ at[p] = "aside" /\ Fault
  /\ Fails(p) /\ Drop(p)
  /\ UNCHANGED <<exe, backup, lock, stale, running, runs, disturbed>>

(* and the new one moved into its place. *)
InstallNew(p) ==
  /\ at[p] = "install"
  /\ exe' = staged[p]
  /\ Drop(p)
  /\ Goes(p, "unlock")
  /\ UNCHANGED <<backup, lock, stale, running, target, runs, faults, disturbed>>

(* Mutant of InstallFailed: an error is returned at once. *)
InstallFailedForGood(p) == Goes(p, "unlock")

InstallFailed(p) == Goes(p, "restore")

InstallFails(p) ==
  /\ at[p] = "install" /\ Fault
  /\ InstallFailed(p)
  /\ target' = [target EXCEPT ![p] = None]
  /\ Drop(p)
  /\ UNCHANGED <<exe, backup, lock, stale, running, runs, disturbed>>

(* The rollback, which fails when the backup is gone. *)
Restore(p) ==
  /\ at[p] = "restore"
  /\ IF backup # None THEN exe' = backup /\ backup' = None ELSE UNCHANGED <<exe, backup>>
  /\ Goes(p, "unlock")
  /\ UNCHANGED <<lock, stale, running, target, staged, runs, faults, disturbed>>

RestoreFails(p) ==
  /\ at[p] = "restore" /\ Fault
  /\ Goes(p, "unlock")
  /\ disturbed' = TRUE
  /\ UNCHANGED <<exe, backup, lock, stale, running, target, staged, runs>>

(* The deferred unlock removes the file, whosever it is; who has updated   *)
(* goes on to start itself again, which may be asked not to be done.       *)
Unlock(p) ==
  /\ at[p] = "unlock"
  /\ lock' = None /\ stale' = FALSE
  /\ \/ target[p] # None /\ Goes(p, "cleanup") /\ UNCHANGED target
     \/ Goes(p, "idle") /\ target' = [target EXCEPT ![p] = None]
  /\ UNCHANGED <<exe, backup, running, staged, runs, faults, disturbed>>

(* CleanupBackup, after the lock was given up and the update reported. *)
CleanupBackup(p) ==
  /\ at[p] = "cleanup"
  /\ backup' = None
  /\ disturbed' = (disturbed \/ lock # None)
  /\ Goes(p, "exec")
  /\ UNCHANGED <<exe, lock, stale, running, target, staged, runs, faults>>

(* Restart runs whatever is there by now. *)
Exec(p) ==
  /\ at[p] = "exec"
  /\ running' = [running EXCEPT ![p] = IF exe \in Version THEN exe ELSE @]
  /\ target' = [target EXCEPT ![p] = None]
  /\ Goes(p, "idle")
  /\ UNCHANGED <<exe, backup, lock, stale, staged, runs, faults, disturbed>>

-----------------------------------------------------------------------------

(* A process ends; its temporary files stay, and nobody looks at them. *)
Crash(p) ==
  /\ running[p] # None /\ Fault
  /\ running' = [running EXCEPT ![p] = None]
  /\ target' = [target EXCEPT ![p] = None]
  /\ Drop(p)
  /\ Goes(p, "idle")
  /\ UNCHANGED <<exe, backup, lock, stale, runs, disturbed>>

(* It can be started again when there is something to start. *)
Start(p) ==
  /\ running[p] = None /\ exe \in Version
  /\ running' = [running EXCEPT ![p] = exe]
  /\ UNCHANGED <<exe, backup, lock, stale, at, target, staged, runs, faults, disturbed>>

(* lockStaleAfter passes, whether its owner is still at work or not. *)
Age ==
  /\ lock # None /\ ~stale /\ stale' = TRUE
  /\ UNCHANGED <<exe, backup, lock, at, running, target, staged, runs, faults, disturbed>>

Next ==
  \/ \E p \in Updater :
       \/ \E v \in Version : Run(p, v)
       \/ Lock(p) \/ Unlink(p) \/ Relock(p) \/ Download(p)
       \/ RemoveBackup(p) \/ MoveAside(p) \/ MoveAsideFails(p) \/ InstallNew(p)
       \/ InstallFails(p) \/ Restore(p) \/ RestoreFails(p) \/ Unlock(p)
       \/ CleanupBackup(p) \/ Exec(p) \/ Crash(p) \/ Start(p)
  \/ Age

Spec == Init /\ [][Next]_vars

-----------------------------------------------------------------------------

(* There is always a binary to run, at its place or beside it, wherever    *)
(* renames fail and processes end.                                         *)
BinaryKept == exe # None \/ backup # None

(* It is lost only where a lock was taken over that was merely old, a      *)
(* backup removed from under another update, or the rollback failed, which *)
(* is to be repaired by hand; short of that updates exclude each other,    *)
LostOnlyWhenDisturbed ==
  ~disturbed =>
    /\ BinaryKept
    /\ \A p, q \in Updater : at[p] \in Inside /\ at[q] \in Inside => p = q

(* and an update that fails puts back what was there: the executable is    *)
(* missing only while it is being moved.                                   *)
MissingOnlyWhileMoved ==
  ~disturbed /\ (\A p \in Updater : running[p] # None) =>
    exe # None \/ \E p \in Updater : at[p] \in {"install", "restore"}

(* What apply.go:47 says of an update that cannot move the binary aside:   *)
(* nothing was changed.  So there still is a binary.                       *)
NothingWasChanged ==
  [][\A p \in Updater : at[p] = "aside" /\ at'[p] = "unlock" => exe' # None \/ backup' # None]_vars

(* What is installed passed the checks, whoever installed it: it runs, and *)
(* reports a version that passes for one that was asked for.               *)
OnlyWhole == exe # Bad /\ backup # Bad
=============================================================================
