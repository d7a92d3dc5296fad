# robotdreams in TLA+

The robotdreams server keeps an org chart of workers. Workers connect with a
signed challenge, are moved around the chart, sent messages, asked for reports,
given schedules, updated, and deleted or revoked. Everything happens in one Go
process in front of an SQLite file, and every HTTP request is a goroutine. No
transaction and no lock spans two calls of a handler, so what is hard about this
program is what requests do to each other between two calls, and what is left
when a statement fails or the process stops halfway. The `dream` commands are
processes of their own, that share files with each other and with the server,
and are killed like any other process.

These modules describe that, TLC checks them on small instances, and TLAPS
proves the central results for every number of workers, requests and messages.
`PROJECT.json` ties each definition to the lines it models, each property to
changes of the code that break it, and each hazard to the properties that would
catch it.

To check a run: `tlc -config <run>.cfg <module>` (the table under "Runs" names
both). To check a proof: `tlapm <module>.tla`.


## Inventory

Paths are relative to `src/`.

| component | state | operations | what is hard | what makes it correct | modules |
|---|---|---|---|---|---|
| **Org chart** `internal/orgchart/graph.go` | rows by worker ID, one mutex | add, reassign, set role, remove, climb, search | two walks keep no record of where they were | the chart is a forest; a walk returns | OrgChart, GraphApi, ChartWalks |
| **Control plane** `internal/server/server.go`, `api/workers.go`, `store/store.go` | the chart, and the tables `workers`, `revocations`, `schedules` | connect, touch, reassign, set role, delete, revoke, start, stop, route a message | chart and tables change in separate steps; a delete is a loop over all three | chart and table agree; what is deleted stays gone and is revoked; a start repairs | ControlPlane, Routes |
| **Chart file** `orgchart/chartfile.go` | none | checked and loaded once, into an empty table | cycles in the file; cut short between two rows | what is accepted is loaded whole, parents first | ChartFile, ControlPlane |
| **Scheduler** `server/scheduler.go`, `store/schedules.go`, `api/schedules.go` | table `schedules`; the goroutine's list of due rows | tick, PUT, DELETE, manual fire, start | works through rows read earlier, writes back fields it read | one message per occurrence, none for what was missed | Scheduler |
| **Challenges, tokens, revocation cache** `api/auth.go`, `delegate.go`, `identity/token.go` | pending challenges, cache entries, revocations, expiries | challenge, token, delegate, revoke, every authenticated request | read, query and put are not one step; evictions; expiries | a nonce counts once; a revoked ID is refused in bounded time; a child may do no more than its parent | Access, Scopes |
| **Keys and JWKS** `identity/keypair.go`, `jwks.go` | key files | look, generate, write, load | four separate steps, and processes that share the file | the key in use is the one in the file | WorkerCommands, DataDir |
| **Messaging contract** `pkg/messaging/messaging.go` | a mailbox per worker | emit, subscribe, ack, close | three backends promise it with different strengths | what was emitted is received | Mailbox |
| **Embedded queue** `pkg/messaging/embedded`, with `api/messages.go` | table `messages`, a cursor per subscription | emit, poll, send, ack, close | two goroutines and a connection per subscription, each of which may end first | nothing skipped, nothing twice, no goroutine left | EmbeddedQueue |
| **Webhook backend** `pkg/messaging/webhook` | outbox, ring, subscribers | emit, deliver, retry, ack, close | a ring at its limit, retries that overtake, a reader that holds up the loop | what was handed over can be acknowledged; what is retried is settled | WebhookQueue |
| **Temporal backend** `pkg/messaging/temporal` | a workflow per worker | signals, query, continue-as-new | two signal channels absorbed one after the other | nothing lost but by the limit, order survives | TemporalMailbox |
| **Event hub** `api/events.go` | subscribers, a poller, its watermark, the last poll | subscribe, unsubscribe, broadcast, poll | a poller of one generation awaited by another; messages stored out of order | one poller exactly while there is a subscriber; events add up to the state | EventHub, PollDiffs |
| **Updates, apps** `server/updates.go`, `apps.go`, `store/updates.go`, `apps.go` | announcements, a row per worker and kind, an app per worker | announce, report, merge, set, delete | fan-out to a snapshot of the chart; a delete beside a report | nobody misses the newest; no row outlives its worker | WorkerRecords |
| **Report handlers** `api/reports.go`, `store/reports.go` | instances and events | post, prune, purge, summary, timeline, report | a post is many statements; one scope shown along different paths | the newest stay; what is shown agrees | ReportStore, ReportReads |
| **Reporting** `pkg/reporting` | none (pure), the library read at start | rollup, periods, policies, boards, library | boundaries, orders, inheritance | adds up; refuses what does not end | Reports, Periods, PlanBoard, ReportLibrary |
| **Storage** `pkg/storage/localfs`, `s3compat` | objects and their revisions | put, delete, get with compare-and-swap | object and revisions are two files | a lost update is refused | LocalFS, S3Store |
| **Worker token client** `pkg/security/client.go` | token, refresh goroutine | start, stop, refresh | stop during the first refresh | the token is fresh; stop returns | WorkerClient |
| **Worker commands** `cmd/dream/cmd_worker.go`, `httpclient.go` | key file, configuration | connect, token, app, reassign | several commands of one machine; killed between two files | a command acts under its own worker's key | WorkerCommands |
| **Follower** `cmd/dream/cmd_message.go`, `cmd_selfupdate.go` | a cursor, the version it runs | stream, update, report, acknowledge, restart | every one of these may fail, and the announcement comes again | restarts end; what is acknowledged is installed | Follower |
| **Self-update** `internal/selfupdate` | executable, backup, lock file | lock, download, swap, roll back, restart | a swap cut short, a lock that is taken over | there is a whole executable | SelfUpdate, Versions |
| **Server process** `cmd/dream/cmd_server.go` | listener, goroutines, the data directory | start, serve, drain, close; commands beside it | the order of a shutdown; commands on the directory of a running server | nothing works on a closed state; a command beside changes nothing of it | ServerProcess, DataDir |
| **Scope removal** `cmd/dream/cmd_server.go` | none | delete workers, schedules, objects and reports by scope | stops halfway and is run again, among workers that go on | done means gone, and nothing else is | ScopeRemoval |
| **Rollup, dashboard, simulation, templates, npm wrapper** | none of the system's | — | — | — | — |

How they interact: handlers call the chart, the store, the messaging backend
and the identity tables directly. The scheduler and `EmitFromWorker` send
through the messaging backend; the API's revocation cache stands between every
request and the revocations table and is told of a revocation by the handler
that made it; a delete reaches into chart, table, revocations, schedules, and
the rows of updates and apps. The event hub polls the backend's `Tail`, the
chart and the storage. Nothing is called back while a mutex is held, so the only
waits are for a mutex, for a channel between two goroutines, and for the
database's single connection. The commands reach the server over HTTP, except
those that open its data directory themselves.

The hazards this brings are listed at their lines in `PROJECT.json`.


## The modules

    the plane    OrgChart ---- GraphApi <--implements-- ControlPlane
                  |      \                                  |
             ChartWalks  Routes, ChartFile             MCControlPlane

    what runs    EmbeddedQueue --implements--> Mailbox
    beside it    WebhookQueue   EventHub   WorkerClient      } MCStreams
                 Scheduler                                   } MCScheduler, MCParts

    processes    Access  WorkerCommands  Follower  SelfUpdate
    and commands ScopeRemoval  ServerProcess  DataDir
                 Versions  Scopes                            } MCCommands

    what is kept TemporalMailbox  LocalFS  S3Store  WorkerRecords
                 PollDiffs  ReportStore                      } MCParts

    functions    ChartWalks  Routes  ChartFile
                 ReportLibrary                               } MCParts
                 Periods  Reports  ReportReads  PlanBoard    } MCAnswers -- MCParts

    proofs       OrgChartTheorems -- GraphApiProofs -- PartProofs (of MCParts)
                        |
                 ControlPlaneProofs
                 SchedulerProofs
                 AccessProofs -- CommandProofs (of MCCommands)
                 StreamProofs (of MCStreams)

MCStreams, MCCommands and MCParts put modules together that are checked in one
run. They have their constants as parameters, like the modules they instantiate,
and what they need of them as `PartsAssumption`; the `.cfg` gives the values.
Their specifications are therefore as general as those of their parts, and the
theorems are about them. Functions have no behaviour: a step asks one of its input,
and the property is about the answer. MCParts asks the walks, the chart files and the
report library, MCCommands the order of versions and what scopes cover, with the
charts, files, definitions, versions, scopes and paths as constants. MCAnswers adds the other functions to
MCParts; they use recursive operators, which the prover cannot work with, and it
holds no more than they need.

### The plane

**OrgChart** has the operations of `Graph` as functions of a chart, because they
apply to charts of several modules: the one in memory, the table, the one being
loaded. A chart maps each ID to a row or to `Absent`; it may have dangling edges
and cycles, and the operators say what the code does on those as well.
`Line(g, v)`, the IDs a climb from `v` looks at, is the least set closed under
"reports to"; this needs no recursion and so can be proved about.
`ClimbLoops` and `DescentLoops` are the charts on which `hasAncestorLocked` and
`Descendants` do not return, holding the mutex. `Rebuild` is what `loadGraph`
makes of a table: whatever does not hang below a root is moved to the root.

**ChartWalks** writes the loops out as the code runs them (climb, breadth-first
search, `Ancestors`, the retry passes of `loadGraph`) and compares them with the
operators of OrgChart. It is the link from the code's loops to the sets the
other modules use. Each loop is its round, a function of what its variables hold,
and `Iterated` is what a number of rounds make of where it begins; one that is not
done after one round more than there are IDs goes on for ever, which is what the
theorems about it show. IDs are numbers, because a reload goes by their order.
**ChartFile** does the same for the checks and the passes of
a chart file, **Routes** says to whom `EmitFromWorker` sends on a chart.

**GraphApi** is `Graph` as its callers see it, each method one step. `Spec`
lets them call anything in any order. `ForestSpec` adds the rule
`Server.DeleteWorker` sets out to keep, that nobody is removed while somebody
reports to them; under it the chart stays a forest and every walk ends. It is the
abstract specification of the control plane.

**ControlPlane** is `server.go`. A request is a record per thread with a program
counter; there is one action per call on the chart (one critical section) and
per statement (one use of the database's only connection), because that is what
the code makes atomic and nothing larger is. What a handler read earlier stays
in its record: the row it will write, the list of reports it took, the parent
whose consent it checked. `StoreFails` ends a request at any statement, `Stop`
forgets everything but the tables, `LoadGraph`, `LoadChartFile` and
`LoadCutShort` are the start and a start that fails halfway. `stuck` says that a
walk loops with the chart's mutex held, for reading or writing; readers or
everybody wait from then on. `unaware` has the IDs whose revocation the API's
cache may not know of; Access has the cache itself.

### What runs beside it

**Scheduler** is the goroutine that works through the rows it listed, and the
handlers that write the same rows, one action per statement and per message.
`Overlap` says whether requests come in the middle of a tick. A cron expression
is the function from a minute to the next match, given as a constant.

**Mailbox** is what `MessagingBackend` promises: what was emitted is there for
good, only the recipient receives or acknowledges it, and it is received in the
end unless acknowledged first. **EmbeddedQueue** is the default backend together
with the handler that serves a subscription: the table, the poller's cursor, the
batch it offers, the message the handler holds, the connection. The poller and
the handler are separate goroutines and end separately; the connection may
break, the backend be closed and the process stop between any two steps. The
refinement mapping takes the recipient of a message from its row.

**WebhookQueue** has a deliverer per request that emits and one for the outbox's
loop. A delivery is an attempt, an entry in the ring, and then one subscription
after the other, each handed the message while its lock is held; so a subscriber
that does not read blocks a deliverer, and with the loop everybody's retries.
**TemporalMailbox** has the workflow's two signal channels, its buffer with the
limit, and continue-as-new, which receives all deliveries and then all
acknowledgements; Temporal itself is described by what this code relies on.
These two promise less than Mailbox (the ring forgets, the outbox is memory, the
buffer drops its oldest), and their properties say what is left.

**EventHub** has the hub's lock as the atomicity of its actions: a subscriber
notices under the lock that it is the first and starts the poller without it,
the last to leave takes the cancel function under the lock, calls it without,
and waits for whichever poller `h.pollStopped` names by then. Pollers are
numbered, so that an old one may still poll beside its successor. **PollDiffs**
is what one poll tells of the chart and the storage.

**WorkerClient** numbers the contexts and done channels that each `Start` makes.
Time passes in ticks, never past a timer that is due.

### Processes and commands

**Access** is `auth.go`: the challenge store with sweep and eviction; the
revocation check as the three steps it is (look in the cache, query the table,
put the answer); revocations that write the table and then drop the entry; what
tokens and delegated tokens last. The two reads of the clock in
`MintDelegatedToken` are taken in one tick. Signatures verify or do not. What a
delegated token may do is **Scopes**.

**WorkerCommands**: every look at a file, every write and every request is a
step; a file may be empty because it was created and not written yet, or because
its process was killed then. **Follower** is one follower in an environment that
lets calls fail; its state outlives the restarts it makes of itself.
**SelfUpdate** has several processes that update one executable, with every file
operation a step that may fail, a process that may end at any, and a lock that is
taken over when it is old. `disturbed` records that a lock was taken over, a
backup removed from under another update, or a rollback failed: the cases in
which the code cannot promise a binary. **ScopeRemoval** has the cascade inside
the server cut at any statement and requests of the workers that were let in
before. **ServerProcess** is the order of a start and of a shutdown, deferred
calls included. **DataDir** is `server.New` on a directory that others open.

### What is kept

**LocalFS** cuts Put and Delete at every file operation; `torn` has the objects
whose last operation was cut. **S3Store** cuts them at every S3 call, of requests
that overlap. **WorkerRecords** has announcements, rows and apps, one action per
statement or look at the chart, with joins and deletes in between; a worker whose
delete failed halfway, or met a request of its own, is `unclean`.
**ReportStore** has a post as the statements it is, the pruning, and the purge.

### Functions

**Periods** counts half days from a Monday and has the calendar arithmetic of
`period.go`, with Go's `time` package as an external function. **Reports** is the
rollup over time and scopes, **ReportReads** what four API answers make of it,
**PlanBoard** the boards, **Versions** the order of releases. Values, texts and units are numbers or model
values: the functions are about which rows count, in which order, and where they
are cut. **ReportLibrary** is inheritance and the checks of definitions: `resolve`,
which calls itself, is the calls it is in the middle of, one more in every round
(`NextCall`), and then what each of them merges and returns (`Returned`).

Left out everywhere: fields that are carried and decide nothing, wording and
encoding, logging, and statements that only read for display.


## Runs

| run | module | instance | distinct states | time |
|---|---|---|---|---|
| SequentialPlane | MCControlPlane | 3 workers, pair or chain, 1 thread, 2 roles, 2 schedules, 3 requests, 1 failing statement, 1 stop | 700 000 | 164 s |
| ConcurrentPlane | MCControlPlane | a chain of 3, 2 threads, 3 requests, 1 stop, a chart file | 1 240 000 | 178 s |
| RequestsEnd | MCControlPlane | the same, 2 requests, 1 schedule, 1 failing statement, 2 stops | 175 000 | 52 s |
| SchedulerOverlap | MCScheduler | 1 schedule, 2 crons, 2 threads, 4 minutes, 2 requests, 1 failing statement, 1 stop | 1 074 000 | 78 s |
| Streams | MCStreams | see "What they show" | 44 000 | 56 s |
| Commands | MCCommands | see "What they show" | 1 608 000 | 151 s |
| Parts | MCAnswers | see "What they show" | 827 000 | 138 s |
| CycleByReturn | MCControlPlane | a chain of 3, 2 threads, 3 requests | counterexample of 15 states | 24 s |
| DeletedReturns | MCControlPlane | the same, 2 requests | counterexample of 11 states | 4 s |
| FireMovesNextAt | MCScheduler | 1 schedule, 1 thread, 1 request | counterexample of 7 states | 1 s |
| StopReturns | WorkerClient | a starter and a stopper, 2 starts | counterexample of 11 states and a loop | 1 s |
| KeepsFollowing | Follower | 3 versions, 2 messages, 2 starts, 2 restarts, 2 faults | counterexample of 6 states | 1 s |

Times are with two workers.

Streams, Commands and Parts each hold several modules that do not meet: the
first state chooses one, its actions are the only ones from then on, and the
variables of the others stay as they begin. So the states of the run are the sum
of those of its parts and not their product, and a property of a part holds in
the run exactly if it holds of the part. They do not meet in the program either:
a server has one messaging backend, the event hub and the token client are in
packages or processes of their own, and what one command shares with another is
inside one module.

### What they show

**SequentialPlane.** Requests that do not overlap implement the forest of
GraphApi, at every step of a delete and wherever it is cut short
(`ImplementsForest`); between requests chart and table agree (`StoreAgrees`); a
deleted worker stays gone; its schedules go with it. Three requests are enough for
any two to follow each other and a third to meet what they left. That a move has
the consent of the parent it leaves is not among the properties: where requests do
not overlap it restates the check, and where they do it does not hold (see
"Findings").

**ConcurrentPlane.** What is left of this when requests overlap: what a delete
has dealt with is revoked; a cycle appears only when an ID comes back that is
still reported to, and a walk hangs only on a cycle; whatever the table holds, a
start repairs it. Three overlapping requests on two threads reach all of it: the
cycle itself, a request that then hangs, restarts on tables that hold a cycle or
a dangling edge.

**RequestsEnd.** Every request ends, unless a walk got stuck on a cycle. The
loops of `DeleteWorker` take from lists read at the start, which is why.

**SchedulerOverlap.** With requests in the middle of a tick, failing
statements and a restart, every request and every failure makes at most one
occurrence fire once more, and a due row is always advanced in the end.

**Streams.**
*EmbeddedQueue*, 2 workers, 1 listener, 2 messages, 2 broken connections, 1 stop:
nothing is skipped or sent twice in one subscription (`NothingSkipped`,
`InOrderOnce`), what was acknowledged before it began does not come again
(`QueuesKeep`), goroutines end with their request or backend (`WaitsEnd`), and
the whole is a mailbox that delivers in the end, across broken connections and
restarts (`ImplementsMailbox`). Two messages can stand one in hand and one
behind it. Listeners meet only in what is acknowledged, and anything may be
acknowledged at any step, so one listener shows what several would; the proofs
have any number.
*WebhookQueue*, 2 messages, 2 attempts, a ring, a buffer and a history of one:
every limit is reached by the second message. What waits in a subscription can
be acknowledged until as many messages as the ring holds came after it; attempts
are counted and end; Close returns although the loop is blocked; what is retried
is settled, unless the loop is blocked by a subscriber that neither reads nor
leaves.
*EventHub*, 2 viewers, 3 pollers, 2 messages of one instant in either order of
storage, channels of one: one lasting poller exactly while somebody is
subscribed; every message told of once, those excepted that were stored when a
poll had already passed their creation time (the watermark is a time, and
`late` are the messages that it never announces); a viewer that leaves is let go,
unless from some time on there is always a subscriber, for then the poller it
waits for may be that one's and last as long. Three pollers are the old one, one
that replaces it, and one more while the old one still waits.
*WorkerClient*, 2 callers, tokens of 5 ticks, 2 starts: the token is refreshed
before it expires, nothing refreshes after a Stop returned, and a Stop that finds
the goroutine returns.

**Commands.**
*Access*, 1 worker and its child, 1 stranger, 2 threads, 3 requests, 2 nonces,
2 ticks, a restart: however lookups overlap with a revocation and each other, an
ID passes no lookup that begins a `CacheTTL` after it was revoked
(`RefusedAfterTTL`); once the entry was dropped with no lookup in the middle, it
passes none (`DroppedForGood`). The window is there because a lookup under way
may put its older answer after the entry was dropped. A nonce is accepted once at
most and only while it is its worker's latest; a delegated token never outlasts
its parent's. `CacheTTL` is one tick of the two, so that an answer can grow old
while a request is under way; `MaxPending` is one so that a stranger's challenge
evicts a worker's.
*WorkerCommands*, 2 processes, 3 commands, 1 fault (`CommandsKeep`): the key a
worker is registered with is the one in the file unless two first connects met;
the configuration names a worker the plane has; of two that wait for one
challenge only the last is answered. Two commands overlap and a third finds what
they left.
*Follower*, 2 messages, three versions of which one is contained in the other two
as 0.4.2 is in 0.4.2-rc1 and 0.4.20, 2 starts, 3 restarts, 2 faults
(`FollowerEnds`). The smoke test takes any output that contains the announced
version, so a binary that passes may report another one, older or newer. Every
restart spends something: an announcement, if the follower is its own worker and so
can acknowledge it, or a call that failed; or it is for a newer version, as long as
the binaries report what they were released as. Where neither is so restarts need
not end (see "Findings"); three restarts are one more than there are announcements.
What is reported as applied or acknowledged was installed, as the release it names
or by the binary's own account.
*SelfUpdate*, 2 processes, 2 versions, 3 updates, 2 faults (`SwapSound`); a binary
may pass for a version whose text is in its own.
*ScopeRemoval*, a lead and a report of the scope and a worker beside it, 2 runs
(`ScopeIsGone`): a run that says it is done left nothing of the scope but what a
request wrote that was let in before, unless a cascade failed halfway
(`brokeOff`), which is the exception listed under "Findings". Outside the scope it
takes the schedules that removed workers owned under other names (`Unlisted`) and
nothing else, and those are exactly what it takes beyond what its dry run printed.
Of the six things one is such a schedule, and two are another worker's.
*ServerProcess*, 4 requests, one of them a stream, 2 ticks; *DataDir*, 2
processes, 3 runs, 1 operation that fails or process that is killed, three URIs of
which one cannot be opened, report libraries and charts that are refused
(`ServerBeginsAndEnds`). A start may fail at any access to a file, statement or
backend. Of these only one between the creation of the key file and its content
(`spoiled`) makes a later start fail.
*Versions* and *Scopes*: triples of 27 versions, some with leading zeros, and pairs
of 16 scopes with what they grant on every short path (`OrdersHold`); three is the
least number on which an order can fail to be transitive.
The two threads, the two processes of SelfUpdate and the two of the commands are
interchangeable, and nothing names one of them, so the run uses their symmetry.
The run has no temporal property but two of the form `[][A]_v`, for which
symmetry is sound.

**Parts.**
*GraphApi*, 4 workers, 2 roles, from every forest (`ForestAndLive`): without
removals from under somebody, `Graph` keeps the forest and every method returns.
*Scheduler* without overlap, 1 schedule, 2 crons, 6 minutes, 3 requests, 1 stop
(`FiredInTurn`): one message per occurrence, none for one that was missed,
disabled or deleted; `next_at` is an occurrence of the row's own cron, a manual
fire does not move it, and the time of the last fire is never lost. Six minutes
let each cron match twice and coincide.
*TemporalMailbox*, 4 messages, a buffer of 2, a new run after 2 signals
(`MailboxKeeps`): the buffer overflows and continue-as-new comes twice.
*LocalFS*, 2 objects, 2 contents, histories of 2, 2 cuts, and *S3Store*, 2
requests, 3 writes (`StorageKeeps`): revisions are of contents and no update that
names a revision is lost, except on an object whose last operation was cut short;
on S3 the conditional write makes it true of overlapping requests as well, while
the sidecar may lose a revision but never tells a false one.
*WorkerRecords*, a worker that joins, reports, leaves and returns, one that only
joins and is told (`SilentListen`; it is there while one announcement is made), 2
announcers, announcements of one instant of which one is kept (`RecordsKeep`). Who
is in the chart while an announcement goes out has been told of it, with two to
tell and a fan-out that may be half done, or finds it pending. A report may name an
announcement, a target version, both or neither; the version of the row changes
only with its announcement (`RolloutKept`, `docs/updates.md:226`).
*PollDiffs*, every chart and storage of one worker and one object to every other
(`PictureFollows`): differences are per worker and per object, so one of each
shows them all.
*ReportStore*, 2 clients, the scopes `a`, `a/b` and `A`, 1 fault (`RowsStay`):
pruning keeps the newest of every scope, failed posts lose nothing that was to
stay. A purge takes what is at or below its scope, and of the rest only what is
below a scope of the same letters in the other case, since `LIKE` does not tell
those apart: a purge of `A` takes `a/b` and leaves `a`.
*The functions*, each for the inputs MCParts and MCAnswers list: all charts of four
workers and all files of three entries (`WalksAgree`); every half day from December
2027 to May 2028, with a leap day and the turn of a year, and around the end of
February 2000 and 2100, the one with and the other without a leap day, all triples
of instances, pairs of batches of three events, runs of five span events, and stored
rows of two definitions (`ReportsRollUp`); pairs of boards and all triples of items
that block each other (`PlansHold`); triples of files that extend each other and
pairs with sections, plans among them (`LibraryServes`). Four IDs have every shape
that matters to a walk: a cycle of one to four, a tail into a cycle, a dangling
edge in the middle of a line; three is the least number on which a chain of
extends can go round without its start, or a rollup depend on the order of its
inputs.
Spans are derived from a timeline that has already been cut to a limit, what is not
critical first. As long as the events of a scope are of one severity, a span whose
start is shown ends where it did, or sooner if two were open at once
(`SpansSurvive`, each run of five events with every limit up to four and with none).
Where the severities within a scope differ, an end may be dropped and its start be
closed by a later one; of those inputs nothing is claimed.
Contents, announcers, managers and clients are interchangeable and used in
place of each other (`a` and `b`); again the run's temporal properties are of the
form `[]P` and `[][A]_v`.

### Findings

Five runs fail: each checks a documented promise that the code does not keep.
`findings` in `PROJECT.json` quotes the documents.

* CycleByReturn: `docs/design-notes/control-plane.md` calls the chart acyclic by
  construction. A worker moves below one that is being deleted, after the delete
  has listed its reports and before it is removed; that one then connects again
  below the worker.
* DeletedReturns: the same note makes a delete and its revocation one operation.
  A token request that read the worker's row before the delete writes it back
  after.
* FireMovesNextAt: `docs/scheduling.md` says a manual fire does not move
  `next_at`. It writes the one it read before it sent; a tick in between is
  undone.
* StopReturns: the comment on `Stop` says it waits for the goroutine to exit. A
  Stop during Start's first refresh waits for one that is never started.
* KeepsFollowing: `docs/updates.md` and the command's own message say that a
  follower whose installation is managed by something else reports the update
  declined and keeps following. It returns.

More were met while modelling and have no violation run of their own:

* a declined or failed update is not acknowledged, so its announcement comes again
  with every subscription (Follower models each outcome);
* `docs/updates.md:338` says that a guard keeps an announced version the binary does
  not report from driving an endless restart loop. The guard is read by
  `dream self-update` and not by the follower, and what the smoke test asks is
  whether the output contains the version. The conditions of `RestartsEnd` in
  Follower are what is left of the promise;
* the comment at `store/reports.go:278` says that the SQL clause matches what
  `ScopeWithin` admits. SQLite's `LIKE` compares ASCII letters without their case, so
  a purge of `a` takes `A/b`. `PurgeIsWithin` in ReportStore says what is taken, and
  the run Parts has scopes of both cases; it fails with the comment's claim in its
  place;
* the comment at `cmd_server.go:535` and the help at 568 say that a dry run prints what
  each step would remove. The schedules that a removed worker owns under names
  outside the scope go as well and are not printed (`OnlyTheScope`);
* a reassignment checks the consent of the parent and moves the worker in two steps.
  A request in between may have put it below another parent, whose consent nobody
  asked (`BeginReassign` and `MoveWorker` in ControlPlane, with two threads);
* a schedule's owner and recipient are looked up before its row is written; a delete
  in between leaves a schedule of a worker that is gone (`PutSchedule` in
  ControlPlane, with two threads);
* `docs/design-notes/cli.md` says that a `remove-scope` that was interrupted is
  finished by running it again. A cascade that fails at the root, after the chart
  and before the table or the revocation, is answered 404 by the next run, which
  then succeeds (`RerunFinishes` in ScopeRemoval states the claim).

Of the properties of SequentialPlane, `StoreAgrees` and `SchedulesNameMembers`
need requests that do not overlap: adding one of them to `ConcurrentPlane.cfg`
(for the second with a schedule in
`Schedule`) shows how it fails. Of Scheduler's, `OncePerOccurrence`,
`OnlyEnabledFire`, `NextAtOnCadence`, `LastFireKept` and `NoCatchUp` fail in
`SchedulerOverlap.cfg`. They are kept with the runs in which they hold, since one
promise broken by an interleaving is like another. So a schedule written back for
a deleted worker, a delete that lists schedules while one is put, and a fire that
overlaps a tick are hazards with no property that holds where they bite; what is
checked of them is that requests end, that repeats are counted, and what is true
of requests that take turns.

### Bounds

`MaxRequests`, `MaxFails`, `MaxFaults`, `MaxStops`, `MaxStarts`, `MaxCuts`,
`MaxMessages`, `MaxNonces`, `MaxRuns`, `MaxCommands`, `MaxWrites`, `MaxPosts`,
`MaxExecs`, `MaxPollers`, `MaxTicks`, `MaxFetch`, `MaxAcks`,
`MaxAnnouncements`, `MaxTime`, `LastTick` and `LastMinute` are constants of the
modules and guards of the actions they limit; the code has no such limits. The
others (`MaxPending`, `MaxAttempts`, `RingSize`, `Buffer`, `MaxRetained`,
`ChanSize`, `MaxHistory`, `Retention`, `SignalsPerRun` and the times to live)
are the code's own, made small so that they are reached. Requests, commands and
faults arrive one by one, so a bound on them cuts behaviours off and changes
none. The clocks stop at their last value, after which no token expires and
nothing falls due; no property says that something must happen by a time.
`CHECK_DEADLOCK FALSE` is set where such a bound lets the model come to rest.

### Fairness

* ControlPlane: weak fairness of `Handle(t)` for every request under way, since
  the Go scheduler runs every goroutine that can run. A request that waits for
  the mutex of a walk that loops cannot. Nothing has to arrive, fail or stop.
* Scheduler: weak fairness of the scheduler goroutine and of each request.
* EmbeddedQueue: weak fairness of each goroutine's steps; of a listener
  subscribing again when it is cut off, as the follow loop of
  `cmd/dream/cmd_message.go` does; and of a stopped backend being opened again.
  Without the last two a message could rest unread for ever, and rightly. Go's
  `select` picks among ready cases at random, so neither the send nor the end of
  the request is put off for ever: once a poller may leave, it may leave at every
  later step.
* WebhookQueue: weak fairness of each request and of the loop, of a backoff
  ripening (time passes), and strong fairness of taking a subscription's lock
  (Go's mutexes hand over to whoever has waited long enough) and of the loop
  noticing that it is to stop, one of the cases of its `select`. A subscriber
  need neither read nor leave.
* EventHub: weak fairness of each handler and poller; a viewer may stay for ever.
* WorkerClient: weak fairness of each caller, of the loop and of time, strong
  fairness of the loop noticing its end.

In MCStreams each is stated of the steps of its own part, which are enabled only
in behaviours of that part.


## Proofs

All for any values of the constants that their assumptions allow, finite or
infinite (workers are finite in ControlPlane, as IDs in a table are, and viewers
in EventHub). The assumptions say that the values that stand for "none" are not
among the others, that bounds are numbers, buffers hold something and a scope is a
sequence. Two say more, and the code or its defaults justify them: a cron
expression has a next match after every minute; a token lives longer than the wait
until its refresh and a fetch take together (`ClientConstants`).

Of all invariants and action properties of the passing runs, theorems state every
one but the two of the functions MCAnswers asks.

### Charts and the plane

**OrgChartTheorems**: facts about charts, each by an argument about sets closed
under "reports to". Removing workers or edges closes no cycle; adding an ID
nobody reports to closes none; a move the cycle check lets through closes none,
on charts with dangling edges too; on an acyclic chart the climb and the search
end; what `loadGraph` makes of any table is a forest.

**GraphApiProofs**: `GraphApi` keeps its types, closes a cycle only by an ID that
comes back, hangs only on a cycle; under `ForestSpec` it is a forest and never
hangs (`ForestAndLive`). Here the invariant is inductive as it stands, given the
lemmas above. Then the loops, on every chart of finitely many workers and for every
chart file (`WalksAgree`); what a loop has done so far is its invariant, and that
it is done in time is a matter of counting.
*The climb* has looked at no parent that is the one it looks for, and is where it is
by way of IDs that are all on the line; while it goes on, they differ, or the line
loops and it never stops (`ClimbSaysSo`).
*Descendants*: level n is who is n steps below, so on an acyclic part no two levels
meet and one of them is empty, and below a cycle none is (`DescentSaysSo`).
*Ancestors* lists the line in order, each once, because it keeps what it has seen;
it is the one walk that always ends (`AncestorsSaySo`).
*The reload* adds only who hangs below a root by rows that are there. A pass that
adds nothing leaves nobody who could be added, in whatever order it goes, so what is
left is the rows that do not hang below one (`ReloadSaysSo`).
*The cycles of a file*: whoever is done has everything above done, and is marked
exactly if it is on a cycle; so a walk that comes to one who is done is on no cycle,
and one that comes back to its own path marks that cycle and not the way to it. It
does not depend on the order the map is gone through (`CyclesSaySo`).
*The loading of a file* fails if and only if the checks refuse it: a file that passes
has for any set of entries left one whose parent is not among them, so no pass is
without progress; and one that fails them has an entry that no pass can add
(`LoadSaysSo`).

**ControlPlaneProofs**, for any number of overlapping requests: type correctness;
nobody reports to themselves; `DeletedIsRevoked`; `RestartRepairs`;
`CycleNeedsReturn`; `HangNeedsCycle`. The inductive invariant adds to these what
requests carry (`RequestsCarry`): a row about to be written does not name its own
worker as parent, because it was read from the chart after a move the chart
accepted, or by a worker of a chart without self-reports; the list of removals is
not used up; and the ID whose schedules are being dropped is revoked. None of the
three safety properties is inductive without that, since the harm would be done
by a row a request has held since before.

Its second part is for requests that come one at a time (`OneAtATime`), while
statements fail and the process stops anywhere: `StoreAgrees`,
`DeletedStaysGone`, `SchedulesNameMembers`, and that the plane implements
`GraphApi`'s forest (`ImplementsForest`): every step of
every request is a step of the forest or none. A request does in several steps
what it promises as a whole, so the invariant (`SInv`) says how far it has come:
that the removals left can be made in their order, each from under nobody
(`LeavesLeft`, which the refinement rests on); in which row the table may be behind
(`InTransit`); that a row about to be written is the chart's own (`RowsRead`); what
the cache has not been told (`CacheLags`); and that a schedule names members or the
ID being taken out (`SchedulesNamed`). Their hypotheses about failures are the
properties' own: chart and table agree until a statement has failed, schedules
follow until one has or the process has stopped.

### What runs beside the plane

**SchedulerProofs**: with any schedules and threads, requests in the middle of a
tick, failing statements and stops, no more messages repeat an occurrence than
requests have begun and statements have failed (`RepeatsAreBounded`). A count of
what has happened is not inductive: what can still happen has to be paid for
before. The invariant is a balance (`Accounted`). On one side are the repetitions
that happened, the rows in hand whose message will be one (`Again`), the rows of
the table that name as next an occurrence that was fired (`Behind`), and the
requests under way (`Active`), each of which may put a row behind. On the other
are the requests begun, the failures, and one more while a start has a row to skip
(`Skipped`): a stop between the send and the write leaves a row behind that
nobody pays for, and it is the start's skipping, or the failure of that, which
settles it. What is delicate is when a row counts. One in hand does not, since it
will be advanced; but one that is disabled, which no start would skip, counts as
soon as its message is to be sent. For the rest it is enough that what was fired
was due when the ticker last looked, and that the next match is later than that
(`TickerReads`). The sets are finite because the invariant says so; nothing is
assumed of the number of schedules.

**StreamProofs**.
*The polling queue*: types, `NothingSkipped`, `NotAgain`, `InOrderOnce`, and that
every step is a step of the mailbox or none (`Mail!Safe`). The invariant says
where the messages of a subscription are: received, behind the one in hand,
behind the batch, not past the cursor, all of them the listener's and none
acknowledged before it subscribed; everything between the start and the cursor is
in one of these places or acknowledged. A property that speaks of what has been
received is not inductive alone: what will be received is already in the batch.
*The event hub* (`HubTells`): which lasting poller there is has to be said, and it
is the one whose cancel function the hub holds; the hub holds none exactly while
nobody is subscribed or the first is about to start its own; and of those there
is only one, because whoever subscribes after it does not find the hub empty.
From this the count follows, with finitely many viewers. For the messages,
`BatchTells` is a fact about one poll: of any list it announces exactly those the
hub has not told of, less those of quiet types.
*The token client* (`ClientKeeps`): a Start under way is the only one and there is
no loop yet (`OneRun`), and while no fetch has failed the token's age and what is
left of the timer add up to no more than the refresh is due at (`InTime`).
*The webhook backend* (`QueuesKeep`): the ring is the end of what was delivered
(`RingIsEnd`), only what was delivered is handed to a subscription or waits in one,
nothing is delivered twice, what is pruned is settled, and an entry is pending
exactly while its attempts, which are counted, are below the limit and it is not
delivered (`Counted`). The property is about what is no longer in the ring; that
as many came after it follows from the first two.

### Commands

**AccessProofs**: all the properties of Access. A cached answer is dated from
before its read, so what must be followed is the answer "not revoked" from that
read on: wherever it is, in a request about to cache it or in the cache, it was
asked for no later than the revocation, and never for an ID that is settled. So a
request answered "not revoked" from the cache began less than the time to live
after the revocation. For tokens, a request to delegate carries an expiry
not past the parent's; for challenges, one that is pending is its worker's
latest and has not been accepted.

**CommandProofs**.
*Commands of a worker* (`CommandsKeep`): every command past its key step has the
key of the file, and a worker that was registered and is not any more is revoked,
so that no other key is registered for it.
*The follower* (`FollowerEnds`): what it runs is what is installed, except between
an installation and the restart, and what it is applying waits for its
acknowledgement (`Applies`); while binaries report what they were released as, its
versions only grow (`Grows`). So restarts are counted by the newer versions there
are, and, when it acknowledges for itself, by the announcements used up and the
calls that failed, where the restart to come has had its own (`Counts`).
*Self-update* (`SwapSound`): short of a disturbance the lock is held by the one
process inside (`OwnerIsInside`), whoever may have to roll back has a backup to
put back (`BackupIsThere`), and a missing executable is being moved by the owner
of the lock, or was when its process ended (`MissingIsMoved`). The last two lean
on the first: it is the lock that keeps a second update from removing the backup.
*Scope removal* (`ScopeIsGone`): of what the scope names, what is left is in the
list under way or came meanwhile (`Left`); a worker off the chart, but for the one
that is being deleted, is out of the table and revoked, unless a cascade broke off
(`Cascade`); and what was taken is the scope's or a revoked worker's (`Taken`).
*Versions and scopes* (`OrdersHold`, with any set of versions, scopes and paths).
`Compare` picks one of a dozen cases, and a proof that goes through the cases of
three versions has a thousand. Instead a version is read as an endless list of
places: the numbers, the identifiers, and from the end on a place below every
identifier, or above where there are none. Then `Compare` says which of two is
lower at the first place where they differ (`CompareDecides`), and that such an
order has no circles is a short argument about two places (`DecidesOn`). For
scopes, a prefix of a prefix is one: what a covered pattern matches, the pattern
that covers it matches (`CoverIsWider`).
*The server process* and *the data directory* (`ServerBeginsAndEnds`): a request,
a tick or a stream is under way only in the stages of a process in which what it
uses is open (`Stages`). Unless two processes met in a directory, one opens it at a
time (`OneAtATime`), and the key, the token and the URIs that a process has loaded
are the directory's (`KeyIsOurs`, `TokenIsSet`, `SavedIsOurs`). A key file that
cannot be loaded is being written, or was by a process that ended there
(`TornIsWritten`), so whoever was refused was refused for that or for what it was
given (`Refused`).

### What is kept

**PartProofs**.
*The scheduler, in turn* (`FiredInTurn`; the instance has `Overlap <- FALSE` and
`MaxFails <- 0`): what the ticker and a request have read is still what the table
has (`TickerReads`, `RequestsRead`), and an occurrence that was sent or missed is
past and before the row's next, but for the row the ticker has still to advance
(`GoneIsPast`). It is this that a fire, an edit or a restart must not break.
*The Temporal mailbox* (`MailboxKeeps`): the delivery channel has the messages
emitted last and the buffer older ones, in order (`InOrder`); a message that is in
neither was acknowledged, or pushed out by as many newer ones as the buffer holds
(`Accounted`); what is acknowledged was received and, while it is buffered, is about
to be removed (`Acknowledged`); what a subscription has not seen is newer than what
it sent (`Sending`). Absorbing the channels (`Absorb`, `Without`) is recursion over a sequence,
written as recursive functions; what they return is proved by taking the least
length at which it would fail.
*The local directory* (`DirectoryKeeps`): between the write of an object and the
record of its revision the object has the new content (`Halfway`), and every other
object that is not torn is told of by its content (`Mended`). A Put that names a
revision holds the mutex from the comparison on, so what it replaces is still what
it compared, unless that revision was told of a torn object.
*The bucket* (`StorageKeeps` has both): whatever is in the sidecar, or read from it,
was stored; while no two requests have met, one at most is under way (`Alone`), and
the history ends with the object unless that one has changed the first of the two
and not the second (`Ended`).
*Records of workers* (`RecordsKeep`): a row of a worker in the chart that says an
announcement is settled was written by that worker since it joined (`RowsAreKnown`),
which is why its being skipped loses nothing; and who is not in the chart has no
row once a delete has dealt with them, unless a request that looked before met it
(`OthersHaveNothing`). A row has an announcement and the version of the last report
that named one (`RowsAreNamed`).
*Polls* (`PictureFollows`): what is told of a worker, or of an object, is enough to
get from the last poll to this one.
*Stored reports* (`RowsStay`): of everything that was accepted, the first rows in
the order of pruning are there (`HasNewest`), and nothing else where nobody has
still to prune (`IsPruned`); pruning any scope keeps both, because those that are
first stay first among fewer (`FirstOnesStay`).

*Routes*: on any chart that names no ID it does not have, what is sent goes to a
worker (`MessagesGoToWorkers`); and an escalation that is handed on ends at a root
on a forest, and never does where the line loops (`EscalationsGoUp`). That it
ends in one round more than there are workers is a matter of counting: had it not,
two rounds would be at one worker, and whoever is between them reports only to
each other.
*The report library* (`LibraryServes`), for any number of definitions that extend each
other in any way; all that is assumed of them is that each has its fields. The calls
of `resolve` are one chain of files, no two of one name, so there are at most as many
as files, and after as many rounds the chain has ended or is refused (`RefusedAre`).
Where a chain ends it is the only one that starts there, so what is merged on the way
back is, section by section, what the nearest of it declares (`ReturnedIs`,
`NearestAre`), with a plan wherever the scope it comes with had one. A name stays the
name of one file, which makes the library one definition for a name (`WholeIs`).

`StreamsHold`, `CommandsHold` and `PartsHold` put the results of a module together
for the specification its run uses: a behaviour of `MCSpec` is, for each part, one
of the part's own specification. `AnswersSpec` only adds steps that leave all of
`MCParts` alone.

### What the proofs showed

* Deleting a schedule and revoking a worker were steps of nobody in ControlPlane:
  with one thread they still came in the middle of its requests, and the sequential
  invariant did not survive them. They are requests of an idle thread now.
* In EventHub a poll counted status updates that are announcements of updates as
  well, which the code's loop leaves out before it counts; `BatchTells` was false.
* `MoveEvents` in PollDiffs had two cases that overlap, a new parent and a new
  status at once, and so said nothing definite. The code's `if` takes the first.

### Only model-checked

* Everything under fairness (`RequestsEnd`, `DueAdvances`, `WaitsEnd`, delivery in
  `ImplementsMailbox`): liveness is beyond the prover.
* The functions MCAnswers asks (`ReportsRollUp`, `PlansHold`): what a recursive
  operator or a fold over a sequence computes, for every input, is induction over
  data, which the prover's library has only for operators given as parameters, that
  no backend here instantiates; and no module with a RECURSIVE operator can hold a
  theorem. Where a recursion was needed in a proof (`Absorb`, `Without`, `Escalated`,
  `Iterated`, `Calls`, `Returned`, the batch of a poll) it is a recursive function of a
  number, and the induction is by the least counterexample. The periods of the
  calendar need no induction, but a year of `YearOf` is found for a few thousand
  years only, by arithmetic the prover's decision procedures do not reach.


## Not modelled

* `internal/orgchart/rollup.go`: a count over one list, that only tests call.
* The dashboard and its UI, the simulation, templates, the sample configuration,
  the report library's files and the npm wrapper: no state of the system.
* Signatures, JWTs and the JWKS document (functions of one key), the file mode
  check, the YAML, JSON and cron parsers (libraries).
* The checks of single words in a report definition (`validateCore`) are one bit;
  the checks across sections are in ReportLibrary.
* Of self-update, the search for a release, checksums, archives and the
  classification of an installation: functions of one answer or one path, that
  pass or do not.
* The handlers and commands that pass one call through and print its answer.

What remains to be done, in this order: a refinement of the Temporal and webhook
backends to a mailbox that may forget; the walk of `findItemCycle` and the order of
items of a board as loops, to be proved about as the walks of the chart are.
