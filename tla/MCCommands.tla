----------------------------- MODULE MCCommands -----------------------------
(***************************************************************************)
(* The commands of dream and the parts of the control plane they speak to: *)
(* challenges, tokens and the revocation cache (Access); the commands that *)
(* act as a worker; the follower; an update of the binary; the removal of  *)
(* a scope; the server as a process; the data directory it shares with     *)
(* commands.  Each is checked by itself: a behaviour is of one of them and *)
(* the others stay as they begin.  Two functions they decide by, the order *)
(* of versions and what scopes cover, are asked a question once.  Access   *)
(* is extended, for TLC to evaluate its assumptions.                       *)
(***************************************************************************)
EXTENDS Access, TLC

CONSTANTS (* of WorkerCommands and DataDir *)
          Process,
          (* of WorkerCommands *)
          Half, MaxCommands, MaxCommandFaults,
          (* of Follower *)
          Announced, Initial, Reported, MaxMessages, MaxStarts, MaxExecs, MaxFollowerFaults,
          (* of SelfUpdate *)
          Updater, Version, First, Passing, Bad, MaxUpdates, MaxUpdateFaults,
          (* of ScopeRemoval *)
          Removing, Thing, Kind, OwnerOf, Scoped, MaxRemovals, MaxWrites,
          (* of ServerProcess *)
          Incoming, Stream, MaxIncoming, MaxTicks,
          (* of DataDir *)
          Backend, URI, Default, Unusable, MaxStarted, MaxStartFaults,
          (* of the questions to Versions and Scopes *)
          Released, Granted, ObjectPath

(* What the code gives: versions are numbers that there are finitely many  *)
(* of; what stands for nothing, for half a file or for a bad download is   *)
(* none of what it stands in for; a scope has a root, and what is of a     *)
(* scope is a schedule, an object or a report.                             *)
CommandConstants ==
  None \notin Worker /\ Half \notin Worker /\ MaxCommands \in Nat /\ MaxCommandFaults \in Nat

FollowerConstants ==
  /\ Announced \subseteq Nat \ {0} /\ IsFiniteSet(Announced) /\ Initial \in Announced
  /\ Reported \in [Announced -> SUBSET Announced]
  /\ MaxMessages \in Nat /\ MaxStarts \in Nat \ {0} /\ MaxExecs \in Nat
  /\ MaxFollowerFaults \in Nat

UpdateConstants ==
  /\ First \in Version /\ Passing \in [Version -> SUBSET Version]
  /\ {Bad, None} \cap Version = {} /\ Bad # None
  /\ None \notin Updater
  /\ MaxUpdates \in Nat /\ MaxUpdateFaults \in Nat

RemovalConstants ==
  /\ Removing \in Seq({Removing[i] : i \in DOMAIN Removing}) /\ Len(Removing) > 0
  /\ Scoped \subseteq Thing
  /\ Kind \in [Thing -> {"schedule", "object", "report"}]
  /\ MaxRemovals \in Nat /\ MaxWrites \in Nat

ProcessConstants == MaxIncoming \in Nat /\ MaxTicks \in Nat

DirectoryConstants ==
  /\ MaxStarted \in Nat /\ MaxStartFaults \in Nat
  /\ Default \in URI /\ None \notin [Backend -> URI]

Releases == INSTANCE Versions
Grants   == INSTANCE Scopes

QuestionConstants ==
  /\ Released \subseteq Releases!ParsedVersion
  /\ Granted \subseteq Grants!Scope /\ ObjectPath \subseteq Seq(STRING)

ASSUME PartsAssumption ==
  /\ CommandConstants /\ FollowerConstants /\ UpdateConstants
  /\ RemovalConstants /\ ProcessConstants /\ DirectoryConstants /\ QuestionConstants

(* For TLC: a lead with one report, and a worker who is not of the scope;  *)
(* a schedule and an object under the scope's names, schedules that only a *)
(* member owns, an object and a schedule of the other worker, a report.    *)
Rooted  == <<"leaf", "root">>
KindOf  == [t \in Thing |->
              CASE t \in {"s1", "s2", "s3"} -> "schedule" [] t \in {"o1", "o2"} -> "object"
                [] OTHER -> "report"]
OwnedBy == [t \in Thing |->
              CASE t \in {"s1", "o1"} -> "root" [] t \in {"s3", "o2"} -> "other"
                [] OTHER -> "leaf"]

(* Of 0.4.2-rc1, 0.4.2 and 0.4.20 the last two contain the second; of two  *)
(* releases the text of the first is in that of the second.                *)
ReportedBy == [v \in Announced |-> IF v = 2 THEN Announced ELSE {v}]
PassedBy   == [v \in Version |-> {w \in Version : v <= w}]

(* Versions with up to two identifiers, some written with leading zeros;   *)
(* patterns with a star anywhere, and paths.                               *)
SomeReleases ==
  LET Number(n, z) == Releases!Number(n, z)
      Word(w)      == Releases!Word(w)
      ids          == {Number(1, 0), Number(2, 0), Number(1, 1), Word(1), Word(2)}
  IN [num : {<<1, 0, 0>>, <<1, 1, 0>>, <<0, 2, 0>>},
      pre : Releases!BoundedSeq(ids, 1)
              \cup {<<Number(1, 0), Word(1)>>, <<Word(1), Number(1, 0)>>, <<Word(1), Word(1)>>}]
SomePaths  == Grants!BoundedSeq({"a", "b", "*"}, 2) \cup {<<"a", "b", "a">>}
SomeScopes == [verb : {"read"}, pattern : Grants!BoundedSeq({"a", "b", "*"}, 2)]
                \cup {[verb |-> "write", pattern |-> <<"a", "*">>]}
                \cup {[other |-> "admin"], [other |-> "x"]}

Alike   == Permutations(Thread) \cup Permutations(Updater) \cup Permutations(Process)

VARIABLES part,
          asked,   \* of Versions or Scopes
          (* of WorkerCommands *)
          keyFile, config, registered, revokedIds, nonce, versions, apps,
          commandAt, cmd, verb, worker, key, commands, commandFaults, overlapped, removed,
          (* of Follower *)
          inbox, acked, followerAt, cursor, request, runs, installed, selfUpdate, managed, own,
          status, printed, had, asReleased, execs, starts, followerFaults,
          (* of SelfUpdate *)
          exe, backup, lock, stale, updaterAt, running, target, staged, updates, updateFaults,
          disturbed,
          (* of ScopeRemoval *)
          chart, stored, revokedScope, things, removalAt, next, todo, outcome, preview, admitted,
          removals, writes, brokeOff, late,
          (* of ServerProcess *)
          processAt, opened, accepting, active, cancelled, scheduler, stopping, graceOver,
          returned, begun, ticks,
          (* of DataDir *)
          saved, serverKey, token, starterAt, start, starting, flags, uris, loaded, sound,
          started, startFaults, refusals, shown, spoiled, met

commandVars  == <<keyFile, config, registered, revokedIds, nonce, versions, apps, commandAt, cmd,
                  verb, worker, key, commands, commandFaults, overlapped, removed>>
followerVars == <<inbox, acked, followerAt, cursor, request, runs, installed, selfUpdate, managed,
                  own, status, printed, had, asReleased, execs, starts, followerFaults>>
updateVars   == <<exe, backup, lock, stale, updaterAt, running, target, staged, updates,
                  updateFaults, disturbed>>
removalVars  == <<chart, stored, revokedScope, things, removalAt, next, todo, outcome, preview,
                  admitted, removals, writes, brokeOff, late>>
processVars  == <<processAt, opened, accepting, active, cancelled, scheduler, stopping, graceOver,
                  returned, begun, ticks>>
directoryVars == <<saved, serverKey, token, starterAt, start, starting, flags, uris, loaded,
                   sound, started, startFaults, refusals, shown, spoiled, met>>

Commands ==
  INSTANCE WorkerCommands WITH
    MaxFaults <- MaxCommandFaults,
    revoked <- revokedIds, pending <- nonce, at <- commandAt, faults <- commandFaults

Following ==
  INSTANCE Follower WITH
    Version <- Announced, First <- Initial, Passing <- Reported, MaxFaults <- MaxFollowerFaults,
    at <- followerAt, running <- runs, faults <- followerFaults

Updating ==
  INSTANCE SelfUpdate WITH
    MaxRuns <- MaxUpdates, MaxFaults <- MaxUpdateFaults,
    at <- updaterAt, runs <- updates, faults <- updateFaults

Directory ==
  INSTANCE DataDir WITH
    NoConfig <- None, MaxRuns <- MaxStarted, MaxFaults <- MaxStartFaults,
    keyFile <- serverKey, at <- starterAt, run <- start, verb <- starting, key <- loaded,
    runs <- started, faults <- startFaults, printed <- shown, overlapped <- met

Removal ==
  INSTANCE ScopeRemoval WITH
    MaxRuns <- MaxRemovals, revoked <- revokedScope, at <- removalAt, runs <- removals

Serving ==
  INSTANCE ServerProcess WITH
    Request <- Incoming, MaxRequests <- MaxIncoming, at <- processAt, outcome <- returned

Unasked == [of |-> "nothing"]

MCInit ==
  /\ part \in {"access", "commands", "follower", "update", "removal", "process", "directory",
               "orders"}
  /\ asked = Unasked
  /\ Init /\ Commands!Init /\ Following!Init /\ Updating!Init /\ Removal!Init /\ Serving!Init
  /\ Directory!Init
  /\ selfUpdate \/ managed \/ own => part = "follower"

Of(p) == part = p /\ UNCHANGED <<part, asked>>

AccessStep    == /\ Of("access") /\ Next
                 /\ UNCHANGED <<commandVars, followerVars, updateVars, removalVars,
                                 processVars, directoryVars>>
CommandStep   == /\ Of("commands") /\ Commands!Next
                 /\ UNCHANGED <<vars, followerVars, updateVars, removalVars,
                                 processVars, directoryVars>>
FollowerStep  == /\ Of("follower") /\ Following!Next
                 /\ UNCHANGED <<vars, commandVars, updateVars, removalVars,
                                 processVars, directoryVars>>
UpdateStep    == /\ Of("update") /\ Updating!Next
                 /\ UNCHANGED <<vars, commandVars, followerVars, removalVars,
                                 processVars, directoryVars>>
RemovalStep   == /\ Of("removal") /\ Removal!Next
                 /\ UNCHANGED <<vars, commandVars, followerVars, updateVars,
                                 processVars, directoryVars>>
ProcessStep   == /\ Of("process") /\ Serving!Next
                 /\ UNCHANGED <<vars, commandVars, followerVars, updateVars,
                                 removalVars, directoryVars>>
DirectoryStep == /\ Of("directory") /\ Directory!Next
                 /\ UNCHANGED <<vars, commandVars, followerVars, updateVars,
                                 removalVars, processVars>>

AskVersions ==
  \E a, b, c \in Released : asked' = [of |-> "versions", versions |-> <<a, b, c>>]

AskScopes ==
  \E a, b, c, d \in Granted : asked' = [of |-> "scopes", held |-> {a, b}, want |-> {c, d}]

OrderStep     == /\ part = "orders" /\ asked = Unasked
                 /\ AskVersions \/ AskScopes
                 /\ UNCHANGED <<part, vars, commandVars, followerVars, updateVars, removalVars,
                                 processVars, directoryVars>>

MCNext ==
  \/ AccessStep \/ CommandStep \/ FollowerStep \/ UpdateStep \/ RemovalStep \/ ProcessStep
  \/ DirectoryStep \/ OrderStep

MCSpec == MCInit /\ [][MCNext]_<<part, asked, vars, commandVars, followerVars, updateVars,
                                 removalVars, processVars, directoryVars>>

-----------------------------------------------------------------------------
(* cmd_worker.go, keypair.go, auth.go: whatever commands of one machine    *)
(* run at a time, the key a worker is registered with is the one in the    *)
(* file unless two first connects met, the configuration names a worker    *)
(* the plane has, a command acts under its own worker's key, and of two    *)
(* that wait for one challenge only the last is answered.                  *)
CommandsKeep ==
  part = "commands" => /\ Commands!TypeOK /\ Commands!KeyServes /\ Commands!ConfigServes
                       /\ Commands!ActsAsItself /\ Commands!LastAskedIsServed

(* cmd_message.go, cmd_selfupdate.go, apply.go: every restart of the       *)
(* follower uses up an announcement to its own worker or a failed call,    *)
(* and is for a newer version when binaries report what they are; what it  *)
(* reports as applied, or acknowledges, it has had, and then still has.    *)
FollowerEnds ==
  part = "follower" => /\ Following!TypeOK /\ Following!RestartsEnd
                       /\ Following!AppliedIsInstalled /\ Following!AckedIsInstalled
                       /\ Following!NothingIsUndone

(* apply.go, update.go: there is a binary to run at every step of an       *)
(* update unless a lock was taken over, a backup removed from under        *)
(* another update or a rollback failed; nothing unchecked is installed.    *)
SwapSound ==
  part = "update" => /\ Updating!TypeOK /\ Updating!LostOnlyWhenDisturbed
                     /\ Updating!MissingOnlyWhileMoved /\ Updating!OnlyWhole

(* cmd_server.go remove-scope over server.go DeleteWorker: a run that says *)
(* it is done left nothing of the scope but late writes and what a broken  *)
(* off cascade left; it took only what is the scope's and the schedules of *)
(* removed workers, and these are all a dry run does not print.            *)
ScopeIsGone ==
  part = "removal" => Removal!TypeOK /\ Removal!DoneMeansGone /\ Removal!OnlyTheScope

(* cmd_server.go: no request, stream or tick works on a closed state,      *)
(* unless the server gave up on it.  server.go New, keypair.go: commands   *)
(* that open the data directory of a running server change neither its     *)
(* backends nor its key; what refuses a start is what it was given, or a   *)
(* key file that was cut short right after it was created.                 *)
ServerBeginsAndEnds ==
  /\ part = "process" => Serving!TypeOK /\ Serving!NothingOnClosedState
  /\ part = "directory" => /\ Directory!TypeOK /\ Directory!CommandsBesideAreHarmless
                           /\ Directory!StartsFailForAReason

(* version.go, delegate.go, auth.go: versions are ordered without circles, *)
(* and a child may do no more than its parent.                             *)
OrdersHold ==
  /\ asked.of = "versions" =>
       Releases!OrdersVersions(asked.versions[1], asked.versions[2], asked.versions[3])
  /\ asked.of = "scopes" => Grants!Narrows(asked.held, asked.want, {"read", "write"}, ObjectPath)
=============================================================================
