------------------------------ MODULE Follower ------------------------------
(***************************************************************************)
(* `dream message tail --follow` as the process that keeps a node attached *)
(* to its inbox (cmd/dream cmd_message.go, cmd_selfupdate.go,              *)
(* cmd_updates.go): a stream of what is not acknowledged, in order, opened *)
(* again when it ends; and, with --self-update, the update the control     *)
(* plane announces, which ends the stream, is installed, reported and      *)
(* acknowledged, and starts the process again.                             *)
(*                                                                         *)
(* A message is 0, something for the node to read, or the version an       *)
(* announcement names.  The binary of a release need not report it: what   *)
(* is looked at is whether its output contains the version (apply.go).     *)
(* How the binary is replaced is SelfUpdate's, how the inbox is kept       *)
(* EmbeddedQueue's.                                                        *)
(***************************************************************************)
EXTENDS Naturals, Sequences, FiniteSets

CONSTANTS Version,      \* numbers, in the order of Compare; what it cannot
                        \* read is below all others, Run installs over it
          First,        \* the version installed to begin with
          Passing,      \* for each version, what a binary may report and pass for it
          MaxMessages,  \* bound: messages sent
          MaxStarts,    \* bound: times somebody starts the follower
          MaxExecs,     \* bound: times it starts itself again
          MaxFaults     \* bound: calls that fail, processes killed

VARIABLES inbox,     \* what was sent to the node, oldest first
          acked,     \* the messages acknowledged
          at,        \* where the follower is
          cursor,    \* the last message of this subscription
          request,   \* the announcement it applies, 0 when none
          running,   \* the version it runs
          installed, \* the version of the file it was started from
          selfUpdate,\* --self-update
          managed,   \* the binary belongs to a package manager
          own,       \* a command without flags is the follower's own worker
          status,    \* what the plane was told of each announcement
          printed,   \* what it has written to its output, in all
          had,       \* ghost: the releases it has installed, the versions it
                     \* has had by their own account
          asReleased,\* ghost: so far they were the same
          execs,     \* times it has started itself again
          starts, faults

vars == <<inbox, acked, at, cursor, request, running, installed, selfUpdate, managed, own,
          status, printed, had, asReleased, execs, starts, faults>>
setup == <<selfUpdate, managed, own>>
past  == <<had, asReleased>>

Following == {"starting", "dialling", "streaming", "waiting"}
Ended     == {"returned", "failed", "interrupted", "killed"}

Sent == 1 .. Len(inbox)

TypeOK ==
  /\ inbox \in Seq(Version \cup {0}) /\ Len(inbox) <= MaxMessages
  /\ acked \subseteq Sent /\ printed \subseteq Sent
  /\ at \in Following \cup Ended \cup {"applying", "installed", "acking", "exec"}
  /\ cursor \in 0 .. Len(inbox) /\ request \in 0 .. Len(inbox)
  /\ {running, installed} \subseteq Version
  /\ {selfUpdate, managed, own} \subseteq BOOLEAN
  /\ status \in [1 .. MaxMessages -> {"none", "in_progress", "applied", "declined", "failed"}]
  /\ had \subseteq Version /\ asReleased \in BOOLEAN
  /\ execs \in 0 .. MaxExecs /\ starts \in 0 .. MaxStarts /\ faults \in 0 .. MaxFaults

Init ==
  /\ inbox = <<>> /\ acked = {} /\ printed = {}
  /\ at = "starting" /\ cursor = 0 /\ request = 0
  /\ running = First /\ installed = First
  /\ selfUpdate \in BOOLEAN /\ managed \in BOOLEAN /\ own \in BOOLEAN
  /\ status = [i \in 1 .. MaxMessages |-> "none"]
  /\ had = {First} /\ asReleased = TRUE
  /\ execs = 0 /\ starts = 1 /\ faults = 0

Fault == faults < MaxFaults /\ faults' = faults + 1

-----------------------------------------------------------------------------
(* Somebody sends the node a message, or the operator announces a version. *)
Send(content) ==
  /\ Len(inbox) < MaxMessages
  /\ inbox' = Append(inbox, content)
  /\ UNCHANGED <<acked, at, cursor, request, running, installed, setup, status, printed,
                 past, execs, starts, faults>>

(* The node acknowledges what it has read. *)
MessageAck(i) ==
  /\ i \in printed \ acked /\ inbox[i] = 0
  /\ acked' = acked \cup {i}
  /\ UNCHANGED <<inbox, at, cursor, request, running, installed, setup, status, printed,
                 past, execs, starts, faults>>

(* The follower moves on; only what is not listed here changes with it. *)
Moves(from, to) ==
  /\ at = from /\ at' = to
  /\ UNCHANGED <<inbox, running, setup, starts>>

(* The token client starts, the stream is opened, from the beginning of    *)
(* what is not acknowledged.  An error of either ends the follower.        *)
TokenStarted ==
  /\ Moves("starting", "dialling")
  /\ UNCHANGED <<acked, cursor, request, installed, status, printed, past, execs, faults>>

Opened ==
  /\ Moves("dialling", "streaming")
  /\ cursor' = 0
  /\ UNCHANGED <<acked, request, installed, status, printed, past, execs, faults>>

(* The dial fails, or the token has expired or was never had, or reading   *)
(* the stream fails: runMessageFollow returns the error.                   *)
ReturnsError(from) ==
  /\ from \in {"starting", "dialling", "streaming"} /\ Fault
  /\ Moves(from, "failed")
  /\ UNCHANGED <<acked, cursor, request, installed, status, printed, past, execs>>

(* A stream that ends without an error is opened again after a pause. *)
StreamEnds ==
  /\ Moves("streaming", "waiting") /\ Fault
  /\ UNCHANGED <<acked, cursor, request, installed, status, printed, past, execs>>

Reconnect ==
  /\ Moves("waiting", "dialling")
  /\ UNCHANGED <<acked, cursor, request, installed, status, printed, past, execs, faults>>

NextOf(c) == {i \in Sent \ acked : i > c /\ \A j \in Sent \ acked : j > c => i <= j}

(* One message is printed; an announcement of this binary's kind ends the  *)
(* stream when the follower may update itself.  It reports in_progress.    *)
UpdateRequestFor(i) == selfUpdate /\ inbox[i] # 0

(* A report and an acknowledgement are commands of their own, given no     *)
(* flags: they act as the worker of the local configuration, and the       *)
(* follower does not look at their result.                                 *)
Reports(i, s, fails) == status' = IF own /\ ~fails THEN [status EXCEPT ![i] = s] ELSE status

Fails(fails) == faults' = (IF fails THEN faults + 1 ELSE faults) /\ faults' <= MaxFaults

Receive ==
  \E i \in NextOf(cursor), fails \in BOOLEAN :
    /\ printed' = printed \cup {i} /\ cursor' = i
    /\ IF UpdateRequestFor(i)
       THEN /\ Moves("streaming", "applying")
            /\ request' = i /\ Reports(i, "in_progress", fails) /\ Fails(fails)
       ELSE /\ Moves("streaming", "streaming") /\ ~fails
            /\ UNCHANGED <<request, status, faults>>
    /\ UNCHANGED <<acked, installed, past, execs>>

-----------------------------------------------------------------------------
(* Mutant of Outcome: the announced version is not compared. *)
OutcomeUncompared(v, fails) ==
  IF managed THEN "declined" ELSE IF fails THEN "failed" ELSE "updated"

(* selfupdate.Run: the same version, an older one, a binary somebody else  *)
(* manages, an update that fails, one that is installed.                   *)
Outcome(v, fails) ==
  CASE v = running -> "current"
    [] v < running -> "failed"
    [] v > running /\ managed -> "declined"
    [] v > running /\ ~managed -> IF fails THEN "failed" ELSE "updated"

(* Not applied: it is reported, and applyAnnouncedUpdate returns nil,      *)
(* which runMessageFollow returns in turn.                                 *)
Told(outcome) == IF outcome = "current" THEN "applied" ELSE outcome

(* The binary of release v, which passes the smoke test. *)
Installs(v) ==
  \E reported \in Passing[v] :
    /\ installed' = reported
    /\ had' = had \cup {v, reported}
    /\ asReleased' = (asReleased /\ reported = v)

ApplyAnnouncedUpdate(fails, lost) ==
  LET outcome == Outcome(inbox[request], fails) IN
  /\ at = "applying"
  /\ IF outcome = "updated"
     THEN /\ Moves("applying", "installed") /\ ~lost
          /\ Installs(inbox[request])
          /\ UNCHANGED <<request, status>>
     ELSE /\ Moves("applying", "returned")
          /\ Reports(request, Told(outcome), lost)
          /\ request' = 0 /\ UNCHANGED <<installed, past>>
  /\ faults' = faults + Cardinality({x \in {<<"run", fails>>, <<"report", lost>>} : x[2]})
  /\ faults' <= MaxFaults
  /\ UNCHANGED <<acked, cursor, printed, execs>>

ReportApplied(fails) ==
  /\ Moves("installed", "acking")
  /\ Reports(request, "applied", fails) /\ Fails(fails)
  /\ UNCHANGED <<acked, cursor, request, installed, printed, past, execs>>

AckUpdateMessage(fails) ==
  /\ Moves("acking", "exec")
  /\ acked' = IF own /\ ~fails THEN acked \cup {request} ELSE acked
  /\ Fails(fails)
  /\ UNCHANGED <<cursor, request, installed, status, printed, past, execs>>

(* The process becomes the new binary, with the same arguments, and runs   *)
(* what that reports.  ROBOTDREAMS_UPDATE_HOPS is counted up in its        *)
(* environment; the follower does not read it.                             *)
Restart ==
  /\ at = "exec" /\ at' = "starting" /\ execs < MaxExecs
  /\ running' = installed
  /\ execs' = execs + 1 /\ request' = 0
  /\ UNCHANGED <<inbox, acked, cursor, installed, setup, status, printed, past, starts, faults>>

RestartFails ==
  /\ Moves("exec", "failed") /\ Fault
  /\ request' = 0
  /\ UNCHANGED <<acked, cursor, installed, status, printed, past, execs>>

-----------------------------------------------------------------------------
Interrupt ==
  /\ at \in Following /\ Moves(at, "interrupted")
  /\ UNCHANGED <<acked, cursor, request, installed, status, printed, past, execs, faults>>

Killed ==
  /\ at \notin Ended /\ Moves(at, "killed") /\ Fault
  /\ request' = 0
  /\ UNCHANGED <<acked, cursor, installed, status, printed, past, execs>>

(* A supervisor, or somebody, starts it again from the file. *)
StartAgain ==
  /\ at \in Ended /\ starts < MaxStarts
  /\ starts' = starts + 1
  /\ at' = "starting" /\ running' = installed
  /\ UNCHANGED <<inbox, acked, cursor, request, installed, setup, status, printed, past, execs,
                 faults>>

Next ==
  \/ \E c \in Version \cup {0} : Send(c)
  \/ \E i \in Sent : MessageAck(i)
  \/ TokenStarted \/ Opened \/ \E from \in Following : ReturnsError(from)
  \/ StreamEnds \/ Reconnect \/ Receive
  \/ \E fails, lost \in BOOLEAN : ApplyAnnouncedUpdate(fails, lost)
  \/ \E fails \in BOOLEAN : ReportApplied(fails) \/ AckUpdateMessage(fails)
  \/ Restart \/ RestartFails
  \/ Interrupt \/ Killed \/ StartAgain

Spec == Init /\ [][Next]_vars

(* For TLC: 1, 2 and 3 are 0.4.2-rc1, 0.4.2 and 0.4.20, which contain it.  *)
Texts == [v \in Version |-> IF v = 2 THEN Version ELSE {v}]

-----------------------------------------------------------------------------
(* The follower starts itself again only for a reason that is used up.     *)
(* When it acts for the worker it follows for, every restart spends an     *)
(* announcement, or a call that failed: what is acknowledged does not come *)
(* again.  When the binaries report the versions they were released as,    *)
(* every restart is for a newer one, whoever acknowledges.  Where neither  *)
(* is so restarts need not end: docs/updates.md:338 has a guard against    *)
(* that, which the follower does not look at.                              *)
RestartsEnd ==
  /\ own => execs <= Cardinality({i \in acked : inbox[i] # 0}) + faults
  /\ asReleased => execs <= Cardinality({v \in Version : First < v /\ v <= installed})

(* What the plane was told to be applied, and what is acknowledged, the    *)
(* node has had: as the release it installed, or by its binary's account,  *)
(* whatever failed or was killed.  What it did not get remains in its      *)
(* inbox.                                                                  *)
AppliedIsInstalled == \A i \in Sent : status[i] = "applied" => inbox[i] \in had
AckedIsInstalled   == \A i \in acked : inbox[i] # 0 => inbox[i] \in had

(* And it still has it, or something newer, as long as binaries report     *)
(* what they were released as: no announcement takes it back.              *)
NothingIsUndone == asReleased => \A v \in had : v <= installed

(* docs/updates.md:331: a follower whose installation is not its own to    *)
(* replace reports declined and keeps following, and cmd_selfupdate.go:140 *)
(* prints that it does.  runMessageFollow returns instead.                 *)
KeepsFollowing ==
  [][at = "applying" /\ Outcome(inbox[request], FALSE) = "declined" => at' # "returned"]_vars
=============================================================================
