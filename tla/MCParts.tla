------------------------------- MODULE MCParts -------------------------------
(***************************************************************************)
(* The parts that keep rows, files and mailboxes.  Each is checked by      *)
(* itself: a behaviour is of one of them and the others stay as they       *)
(* begin, and of "answers" nothing moves here (see MCAnswers).  The        *)
(* schedules are those of one request at a time, and no statement fails;   *)
(* MCScheduler lets requests and the ticker overlap.  The modules of the   *)
(* chart are extended: they share its constants, which TLC is to evaluate  *)
(* the assumptions of.  Their functions, and those of the report library,  *)
(* are asked of any chart or file.                                         *)
(***************************************************************************)
EXTENDS GraphApi, ChartFile, Routes, Integers, TLC

CONSTANTS None,
          (* of ChartWalks, Routes, ChartFile and ReportLibrary *)
          AskedChart, AskedFile, AskedLibrary,
          (* of Scheduler *)
          Id, Cron, Upcoming, Thread, LastMinute, MaxRequests, MaxStops,
          (* of TemporalMailbox *)
          Subscriber, Acker, MaxMessages, MaxPending, SignalsPerRun, MaxAcks,
          (* of LocalFS and S3Store *)
          Object, Writer, Content, MaxHistory, MaxCuts, MaxWrites,
          (* of WorkerRecords *)
          Addressee, Silent, Kind, Announcer, MaxAnnouncements, MaxTime, UpdateRetention, Progress,
          (* of PollDiffs *)
          Polled, PolledObject, Manager, Presence, ObjectRevision,
          (* of ReportStore *)
          Poster, Scope, Lower(_), Instant, RowRetention, EventRetention, MaxEvents, MaxPosts,
          MaxFaults

VARIABLES part,
          asked,   \* of ChartWalks, Routes, ChartFile or ReportLibrary
          (* of Scheduler *)
          clock, up, table, ticker, api, served, fails, stops, sent, missed,
          (* of TemporalMailbox *)
          emitted, deliverCh, ackCh, pending, signals, hosted, polling, seen, batch, acking, got,
          acked, dropped,
          (* of LocalFS *)
          file, records, litter, op, listed, cuts, torn,
          (* of S3Store *)
          object, sidecar, at, arg, loaded, writes, stored, overlapped, failed,
          (* of WorkerRecords *)
          chart, now, announced, announcements, announcerAt, id, todo, told, rows, apps, asking,
          leaving, named, inserted, settled, unclean,
          (* of PollDiffs *)
          workerRows, objects, workers, revisions, initialized, picture,
          (* of ReportStore *)
          instances, events, posts, accepted, posted, faults

scheduleVars == <<clock, up, table, ticker, api, served, fails, stops, sent, missed>>
mailboxVars  == <<emitted, deliverCh, ackCh, pending, signals, hosted, polling, seen, batch,
                  acking, got, acked, dropped>>
fileVars     == <<file, records, litter, op, listed, cuts, torn>>
bucketVars   == <<object, sidecar, at, arg, loaded, writes, stored, overlapped, failed>>
recordVars   == <<chart, now, announced, announcements, announcerAt, id, todo, told, rows, apps,
                  asking, leaving, named, inserted, settled, unclean>>
pollVars     == <<workerRows, objects, workers, revisions, initialized, picture>>
reportVars   == <<instances, events, posts, accepted, posted, faults>>
partVars     == <<part, asked, vars, scheduleVars, mailboxVars, fileVars, bucketVars, recordVars,
                  pollVars, reportVars>>

Schedules ==
  INSTANCE Scheduler WITH
    Next <- Upcoming, NoRow <- None, Overlap <- FALSE, MaxFails <- 0

Mailboxes == INSTANCE TemporalMailbox WITH up <- hosted

Directory == INSTANCE LocalFS

Bucket == INSTANCE S3Store WITH Request <- Writer

Updates ==
  INSTANCE WorkerRecords WITH
    Worker <- Addressee, Retention <- UpdateRetention, Status <- Progress,
    table <- announcements, at <- announcerAt

Polls ==
  INSTANCE PollDiffs WITH
    Worker <- Polled, Status <- Presence, Object <- PolledObject, Revision <- ObjectRevision,
    chart <- workerRows

ReportRows == INSTANCE ReportStore WITH Retention <- RowRetention

Library == INSTANCE ReportLibrary

(* What the code gives: there are finitely many IDs, and they have an      *)
(* order; a cron expression has a next time after every one;               *)
(* every buffer and history holds something; what stands for nothing is    *)
(* none of what it stands in for; and no two scopes that rows come with    *)
(* differ in the case of their letters alone.                              *)
ChartConstants ==
  /\ Worker \subseteq Nat /\ IsFiniteSet(Worker) /\ Absent \notin Worker \cup {NoOne}
  /\ AskedChart \subseteq Chart /\ AskedFile \subseteq Seq(Entry)

LibraryConstants == \A files \in AskedLibrary : Library!IsLibrary(files)

ScheduleConstants ==
  /\ {LastMinute, MaxRequests, MaxStops} \subseteq Nat /\ LastMinute > 0
  /\ \A c \in Cron, t \in 1 .. LastMinute : Upcoming[c][t] \in Nat /\ Upcoming[c][t] > t
  /\ None \notin Schedules!Row /\ None \notin Id
  /\ None \notin [id : Id, row : Schedules!Row]

MailboxConstants ==
  /\ MaxMessages \in Nat /\ MaxPending \in Nat \ {0} /\ SignalsPerRun \in Nat /\ MaxAcks \in Nat

StorageConstants ==
  /\ None \notin Object /\ None \notin Content
  /\ MaxHistory \in Nat \ {0} /\ MaxCuts \in Nat /\ MaxWrites \in Nat

RecordConstants ==
  /\ MaxAnnouncements \in Nat /\ MaxTime \in Nat /\ UpdateRetention \in Nat \ {0}
  /\ None \notin Updates!Announcement /\ None \notin {"rows", "app"}
  /\ None \notin [kind : Kind, time : 0 .. MaxTime] /\ None \notin Updates!Row
  /\ None \notin Updates!Named

PollConstants == None \notin Polls!Snapshot /\ None \notin ObjectRevision

RowConstants ==
  /\ Instant \subseteq Int /\ RowRetention \in Nat /\ EventRetention \in Nat
  /\ MaxEvents \in Nat /\ MaxPosts \in Nat /\ MaxFaults \in Nat
  /\ \A s \in Scope : s \in Seq({s[i] : i \in DOMAIN s})

ASSUME PartsAssumption ==
  /\ ChartConstants /\ LibraryConstants /\ ScheduleConstants /\ MailboxConstants
  /\ StorageConstants /\ RecordConstants /\ PollConstants /\ RowConstants

(* For TLC: two crons; a scope, one below it, and one of the same letter,  *)
(* in the other case.                                                      *)
After(n)   == [t \in 1 .. LastMinute |-> (t \div n + 1) * n]
TwoCrons   == [c \in Cron |-> After(IF c = "every2" THEN 2 ELSE 3)]
Branches   == {<<"a">>, <<"a", "b">>, <<"A">>}
Small(s)   == IF s = "A" THEN "a" ELSE s
Alike      == Permutations(Content)

(* Charts of every shape, of workers of one role; and files.               *)
AnyChart == [Worker -> [reportsTo : Worker \cup {NoOne}, role : {"lead"}] \cup {Absent}]
AnyFile  ==
  LET entry == [id : (Worker \cup {NoOne}) \ {4}, reportsTo : Worker \cup {NoOne}, role : {"lead"}]
  IN UNION {[1 .. n -> entry] : n \in 0 .. 3}

(* Definitions that extend each other in every way, and two, one of which  *)
(* extends the other, in which a section may be declared, or inherited.    *)
AnyLibrary ==
  LET LeftOut == Library!LeftOut
      Define(names, extends, scopes, data, summaries, details, plans) ==
        [name : names, extends : extends, core : {TRUE}, stances : {LeftOut}, scope : scopes,
         data : data, summary : summaries, timeline : {LeftOut}, detail : details, plan : plans,
         pulse : {LeftOut}]
      someData == {LeftOut, [names |-> {"k"}]}
      scoped   == {LeftOut, [items |-> TRUE, refs |-> {}]}
      detailed == {LeftOut, [refs |-> {}, items |-> TRUE, spans |-> {}, drilldown |-> {"b"}],
                   [refs |-> {"k"}, items |-> FALSE, spans |-> {}, drilldown |-> {"a"}]}
      showing  == {LeftOut, [refs |-> {"k"}]}
      planned  == {LeftOut, [refs |-> {}]}
      chained  == Define({"a", "b", "c"}, {"", "a", "b", "c", "x"}, {LeftOut}, someData, {LeftOut},
                         {LeftOut}, {LeftOut})
  IN UNION {[1 .. n -> chained] : n \in 0 .. 3}
       \cup Define({"a"}, {""}, scoped, someData, showing, detailed, planned)
              \X Define({"b"}, {"a"}, scoped, someData, showing, detailed, planned)

Unasked == [of |-> "nothing"]

Part == {"answers", "functions", "graph", "schedules", "mailbox", "directory", "bucket", "updates",
         "polls", "reports"}

MCInit ==
  /\ part \in Part /\ asked = Unasked
  /\ IF part = "graph" THEN ForestInit ELSE Init
  /\ Schedules!Init /\ Mailboxes!Init /\ Directory!Init /\ Bucket!Init /\ Updates!Init
  /\ Polls!Init /\ ReportRows!Init
  /\ part # "polls" => workerRows = Polls!Nobody /\ objects = Polls!Empty
  /\ part # "schedules" => \A i \in Id : table[i].cron = CHOOSE c \in Cron : TRUE

Of(p) == part = p /\ UNCHANGED <<part, asked>>

(* Bound: of some workers only that they join and are told, or missed, and *)
(* then of one announcement.                                               *)
SilentListen ==
  \A w \in Silent :
    /\ w \notin asking' /\ leaving'[w] = None
    /\ w \in chart' => Cardinality({a \in Updates!Announcement : announced'[a] # None}) <= 1

GraphStep    == /\ Of("graph") /\ ForestNext
                /\ UNCHANGED <<scheduleVars, mailboxVars, fileVars, bucketVars,
                               recordVars, pollVars, reportVars>>
ScheduleStep == /\ Of("schedules") /\ Schedules!NextStep
                /\ UNCHANGED <<vars, mailboxVars, fileVars, bucketVars,
                               recordVars, pollVars, reportVars>>
MailboxStep  == /\ Of("mailbox") /\ Mailboxes!Next
                /\ UNCHANGED <<vars, scheduleVars, fileVars, bucketVars,
                               recordVars, pollVars, reportVars>>
FileStep     == /\ Of("directory") /\ Directory!Next
                /\ UNCHANGED <<vars, scheduleVars, mailboxVars, bucketVars,
                               recordVars, pollVars, reportVars>>
BucketStep   == /\ Of("bucket") /\ Bucket!Next
                /\ UNCHANGED <<vars, scheduleVars, mailboxVars, fileVars,
                               recordVars, pollVars, reportVars>>
UpdateStep   == /\ Of("updates") /\ Updates!Next /\ SilentListen
                /\ UNCHANGED <<vars, scheduleVars, mailboxVars, fileVars,
                               bucketVars, pollVars, reportVars>>
PollStep     == /\ Of("polls") /\ Polls!Next
                /\ UNCHANGED <<vars, scheduleVars, mailboxVars, fileVars,
                               bucketVars, recordVars, reportVars>>
ReportStep   == /\ Of("reports") /\ ReportRows!Next
                /\ UNCHANGED <<vars, scheduleVars, mailboxVars, fileVars,
                               bucketVars, recordVars, pollVars>>

AskChart == \E g \in AskedChart : asked' = [of |-> "chart", chart |-> g]
AskFile  == \E f \in AskedFile : asked' = [of |-> "file", file |-> f]
AskLibrary == \E l \in AskedLibrary : asked' = [of |-> "library", files |-> l]

AskStep      == /\ part = "functions" /\ asked = Unasked
                /\ (AskChart \/ AskFile \/ AskLibrary)
                /\ UNCHANGED <<part, vars, scheduleVars, mailboxVars, fileVars, bucketVars,
                               recordVars, pollVars, reportVars>>

MCNext ==
  \/ AskStep
  \/ GraphStep \/ ScheduleStep \/ MailboxStep \/ FileStep
  \/ BucketStep \/ UpdateStep \/ PollStep \/ ReportStep

MCSpec == MCInit /\ [][MCNext]_partVars

-----------------------------------------------------------------------------
(* graph.go, server.go, chartfile.go: the loops of the chart compute what  *)
(* OrgChart says, and end exactly when it says so; what is emitted goes to *)
(* a worker, and escalations end at a root; a chart file that is accepted  *)
(* is loaded whole, and its cycles are named.                              *)
WalksAgree ==
  /\ asked.of = "chart" =>
       /\ ClimbAgrees(asked.chart) /\ DescentAgrees(asked.chart)
       /\ AncestorsAgree(asked.chart) /\ ReloadAgrees(asked.chart)
       /\ GoesToWorkers(asked.chart) /\ EscalationsEnd(asked.chart)
  /\ asked.of = "file" => CyclesAreNamed(asked.file) /\ AcceptedLoads(asked.file)

(* load.go, definition.go, registry.go: chains of extends that do not end  *)
(* are refused, the nearest declaration wins, what may be posted of a file *)
(* may be posted of what is served of it, and the library is served whole  *)
(* or not at all.                                                          *)
LibraryServes ==
  asked.of = "library" =>
    /\ Library!CyclesAreRefused(asked.files) /\ Library!NearestWins(asked.files)
    /\ Library!InstancesStay(asked.files) /\ Library!ServedWhole(asked.files)

(* scheduler.go, store/schedules.go: with no request beside the ticker an  *)
(* occurrence is sent once at most, what is due next is an occurrence of   *)
(* the cron the schedule has, and what was due while the server was down   *)
(* is not sent late; only what is enabled is fired, a manual fire moves no *)
(* next_at, and a write over a row keeps when it fired last.               *)
OncePerOccurrence == part = "schedules" => Schedules!OncePerOccurrence
NextAtOnCadence   == part = "schedules" => Schedules!TypeOK /\ Schedules!NextAtOnCadence
FiredInTurn ==
  /\ [](OncePerOccurrence /\ NextAtOnCadence)
  /\ Schedules!NoCatchUp /\ Schedules!OnlyEnabledFire
  /\ Schedules!FireKeepsNextAt /\ Schedules!LastFireKept

(* workflow.go, temporal.go: a message is in a channel or in the buffer    *)
(* until it is acknowledged or pushed out, over continue-as-new too, and a *)
(* subscription sends in the order the mailbox has.                        *)
MailboxKeeps ==
  part = "mailbox" => Mailboxes!TypeOK /\ Mailboxes!MailboxKeeps /\ Mailboxes!SentInOrder

(* localfs.go: the revision that is told of an object is of its content,   *)
(* unless an operation on it was cut short, and a put or delete that names *)
(* a revision replaces that content.  s3.go: the history tells what the    *)
(* object was, and, when no two requests meet, a put that names a revision *)
(* replaces that content.                                                  *)
DirectoryKeeps ==
  part = "directory" => /\ Directory!TypeOK /\ Directory!RevisionIsOfContent
                        /\ Directory!ReplacesWhatItNames
HistoryIsTrue == part = "bucket" => Bucket!TypeOK /\ Bucket!HistoryIsTrue
StorageKeeps  == [](DirectoryKeeps /\ HistoryIsTrue) /\ Bucket!ReplacesWhatItNames

(* updates.go, store/updates.go: whoever was told while an announcement    *)
(* went out, whom it missed, and who joined or reported meanwhile, all     *)
(* have it pending until they settle it; the newest stays, a report that   *)
(* names no announcement leaves the row's, and no row outlives its worker  *)
(* but those a race is known to leave.                                     *)
RecordsKeep ==
  part = "updates" => /\ Updates!TypeOK /\ Updates!NobodyMissesIt /\ Updates!NewestKept
                      /\ Updates!RolloutKept /\ Updates!OrphansAreKnown
                      /\ Updates!ToldIsStored

(* events.go: what a dashboard is told, added up, is the chart and the     *)
(* objects as they were polled.                                            *)
PictureFollows ==
  part = "polls" => Polls!TypeOK /\ Polls!PictureFollows /\ Polls!FirstPollIsQuiet

(* store/reports.go: pruning keeps the newest of every scope and a failed  *)
(* statement loses none; a purge takes what is at or below its scope, and  *)
(* what is below one of the same letters, but not that scope itself.       *)
RowsAreNewest == part = "reports" => ReportRows!TypeOK /\ ReportRows!NewestStay
RestIsPruned  == part = "reports" => ReportRows!RestIsPruned
RowsStay      == [](RowsAreNewest /\ RestIsPruned) /\ ReportRows!PurgeIsWithin
=============================================================================
