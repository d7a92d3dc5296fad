----------------------------- MODULE Scheduler ------------------------------
(***************************************************************************)
(* Schedules: the goroutine of internal/server/scheduler.go that sends a   *)
(* message whenever a row of the schedules table is due, and the requests  *)
(* of internal/server/api/schedules.go that change the same rows.          *)
(*                                                                         *)
(* The scheduler lists the due rows once per tick and then works through   *)
(* the rows it has read, two calls for each: send the message, write       *)
(* last_at and next_at.  A request reads a row and writes it, or reads the *)
(* clock and writes a row.  Nothing holds a lock across two calls.         *)
(*                                                                         *)
(* Time is a count of minutes.  Whom a message goes to and what it says    *)
(* are left out: the row's cron stands for its whole definition.           *)
(***************************************************************************)
EXTENDS Naturals, FiniteSets

CONSTANTS Id,           \* schedule IDs
          Cron,         \* cron expressions
          Next,         \* Next[c][t]: the first match of c after minute t
          Thread,       \* requests the server runs at the same time
          NoRow,        \* the table has no such row
          Overlap,      \* whether requests and the scheduler run at the same time
          LastMinute,   \* bound: the clock stops here
          MaxRequests,  \* bound: requests in a behaviour
          MaxFails,     \* bound: database statements that fail
          MaxStops      \* bound: times the process stops

Minute == 1 .. LastMinute

ASSUME BoundAssumption == {LastMinute, MaxRequests, MaxFails, MaxStops} \subseteq Nat /\ LastMinute > 0
ASSUME OverlapAssumption == Overlap \in BOOLEAN
ASSUME CronAssumption == \A c \in Cron, t \in Minute : Next[c][t] \in Nat /\ Next[c][t] > t

(* A row of the table; lastAt is 0 until the schedule has fired. *)
Row == [cron : Cron, enabled : BOOLEAN, nextAt : Nat, lastAt : Nat]

ASSUME NoRowAssumption == NoRow \notin Row

VARIABLES clock,   \* the server's clock
          up,      \* the process runs
          table,   \* table schedules
          ticker,  \* the scheduler goroutine
          api,     \* the request each thread is serving
          served,  \* requests begun
          fails,   \* statements failed
          stops,   \* times the process has stopped
          sent,    \* ghost: messages the scheduler sent, by ID and by next_at of the row read
          missed   \* ghost: the occurrences that were due when the process came up

bounds == <<served, fails, stops>>
ghosts == <<sent, missed>>
vars   == <<clock, up, table, ticker, api, bounds, ghosts>>

(* Where the scheduler is; the rows it has read and not yet dealt with;    *)
(* the minute it read them; whether the message of the current row went.   *)
Ticker ==
  [at   : {"starting", "skip", "idle", "fire", "mark"},
   due  : SUBSET [id : Id, row : Row],
   now  : Minute \cup {0},
   cur  : [id : Id, row : Row] \cup {NoRow},
   ok   : BOOLEAN]

(* A request: what it does next, and the row it has read or will write. *)
Request ==
  [at  : {"idle", "fire", "mark", "delete", "write"},
   id  : Id \cup {NoRow},
   row : Row \cup {NoRow},
   now : Minute \cup {0}]

Starting == [at |-> "starting", due |-> {}, now |-> 0, cur |-> NoRow, ok |-> FALSE]
Waiting  == [Starting EXCEPT !.at = "idle"]
Idle     == [at |-> "idle", id |-> NoRow, row |-> NoRow, now |-> 0]

Rows == {i \in Id : table[i] # NoRow}

TypeOK ==
  /\ clock \in Minute
  /\ up \in BOOLEAN
  /\ table \in [Id -> Row \cup {NoRow}]
  /\ ticker \in Ticker
  /\ api \in [Thread -> Request]
  /\ served \in 0 .. MaxRequests
  /\ fails \in 0 .. MaxFails
  /\ stops \in 0 .. MaxStops
  /\ sent \in [Id -> [Minute -> Nat]]
  /\ missed \in SUBSET (Id \X Nat)

Init ==
  /\ clock = 1
  /\ up = TRUE
  /\ table \in [Id -> {[cron |-> c, enabled |-> TRUE, nextAt |-> Next[c][1], lastAt |-> 0] : c \in Cron}]
  /\ ticker = Starting
  /\ api = [t \in Thread |-> Idle]
  /\ served = 0
  /\ fails = 0
  /\ stops = 0
  /\ sent = [i \in Id |-> [m \in Minute |-> 0]]
  /\ missed = {}

-----------------------------------------------------------------------------
(* The store.                                                              *)

(* Mutant of IsDue: enabled is not looked at. *)
IsDueAnyway(row) == row.nextAt <= clock

IsDue(row) == row.enabled /\ row.nextAt <= clock

ListDue == {[id |-> i, row |-> table[i]] : i \in {j \in Rows : IsDue(table[j])}}

(* Mutant of MarkFired: next_at is left out of the statement. *)
MarkLastAt(i, lastAt, nextAt) ==
  table' = IF i \in Rows THEN [table EXCEPT ![i].lastAt = lastAt] ELSE table

(* UPDATE schedules SET last_at, next_at WHERE id: no row, no effect. *)
MarkFired(i, lastAt, nextAt) ==
  table' = IF i \in Rows THEN [table EXCEPT ![i].lastAt = lastAt, ![i].nextAt = nextAt] ELSE table

(* One statement fails, and its caller goes on as `handled' says. *)
Fail(handled) ==
  /\ fails < MaxFails
  /\ fails' = fails + 1
  /\ handled
  /\ UNCHANGED <<clock, up, table, served, stops, ghosts>>

-----------------------------------------------------------------------------
(* The scheduler.                                                          *)

NobodyElse == Overlap \/ \A t \in Thread : api[t].at = "idle"

(* Mutant of Read: what is due when the process starts is fired. *)
ReadToFire(from, to) ==
  /\ up
  /\ ticker.at = from
  /\ NobodyElse
  /\ ticker' = IF ListDue = {} THEN Waiting
               ELSE [ticker EXCEPT !.at = "fire", !.due = ListDue, !.now = clock]
  /\ UNCHANGED <<clock, up, table, api, bounds, ghosts>>

(* Start, and the first step of each tick: the due rows, earliest first.   *)
(* Afterwards the scheduler waits for the ticker.                          *)
Read(from, to) ==
  /\ up
  /\ ticker.at = from
  /\ NobodyElse
  /\ \/ /\ ticker' = IF ListDue = {} THEN Waiting
                     ELSE [ticker EXCEPT !.at = to, !.due = ListDue, !.now = clock]
        /\ UNCHANGED <<clock, up, table, api, bounds, ghosts>>
     \/ Fail(ticker' = Waiting /\ UNCHANGED api)

Earliest(due) == {d \in due : \A e \in due : d.row.nextAt <= e.row.nextAt}

(* On to the next row. *)
Past(d, to) ==
  LET left == ticker.due \ {d}
  IN  IF left = {} THEN Waiting ELSE [ticker EXCEPT !.at = to, !.due = left, !.cur = NoRow, !.ok = FALSE]

(* Start: a row that fell due while the server was down is advanced, with  *)
(* the last_at it was read with.                                           *)
SkipMissed ==
  /\ up
  /\ ticker.at = "skip"
  /\ \E d \in Earliest(ticker.due) :
       \/ /\ MarkFired(d.id, d.row.lastAt, Next[d.row.cron][ticker.now])
          /\ ticker' = Past(d, "skip")
          /\ UNCHANGED <<clock, up, api, bounds, ghosts>>
       \/ Fail(ticker' = Past(d, "skip") /\ UNCHANGED api)

(* Tick: the message goes out, or cannot be sent. *)
Fire ==
  /\ up
  /\ ticker.at = "fire"
  /\ \E d \in Earliest(ticker.due), ok \in BOOLEAN :
       /\ ticker' = [ticker EXCEPT !.at = "mark", !.cur = d, !.ok = ok]
       /\ sent' = IF ok THEN [sent EXCEPT ![d.id][d.row.nextAt] = @ + 1] ELSE sent
  /\ UNCHANGED <<clock, up, table, api, bounds, missed>>

(* Mutant of Advance: a row whose message could not be sent is left as it is. *)
AdvanceIfSent ==
  LET d == ticker.cur
  IN  /\ up
      /\ ticker.at = "mark"
      /\ IF ticker.ok THEN MarkFired(d.id, ticker.now, Next[d.row.cron][ticker.now]) ELSE UNCHANGED table
      /\ ticker' = Past(d, "fire")
      /\ UNCHANGED <<clock, up, api, bounds, ghosts>>

(* Either way the row is advanced past the minute of the tick. *)
Advance ==
  LET d == ticker.cur
  IN  /\ up
      /\ ticker.at = "mark"
      /\ \/ /\ MarkFired(d.id, IF ticker.ok THEN ticker.now ELSE d.row.lastAt,
                         Next[d.row.cron][ticker.now])
            /\ ticker' = Past(d, "fire")
            /\ UNCHANGED <<clock, up, api, bounds, ghosts>>
         \/ Fail(ticker' = Past(d, "fire") /\ UNCHANGED api)

Scheduling == Read("starting", "skip") \/ SkipMissed \/ Read("idle", "fire") \/ Fire \/ Advance

-----------------------------------------------------------------------------
(* The requests.                                                           *)

Return(t) == api' = [api EXCEPT ![t] = Idle]

Begin(t, r) ==
  /\ up
  /\ api[t].at = "idle"
  /\ ~Overlap => ticker.at = "idle" /\ \A u \in Thread : api[u].at = "idle"
  /\ served < MaxRequests
  /\ served' = served + 1
  /\ api' = [api EXCEPT ![t] = r]
  /\ UNCHANGED <<clock, up, table, ticker, fails, stops, ghosts>>

(* PUT and POST: next_at is computed from the clock, then the row written. *)
BeginPut(t, i, c, enabled) ==
  Begin(t, [at |-> "write", id |-> i, now |-> clock,
            row |-> [cron |-> c, enabled |-> enabled, nextAt |-> Next[c][clock], lastAt |-> 0]])

(* Mutant of Write: the row is replaced, last_at included. *)
WriteOver(t) ==
  LET r == api[t]
  IN  /\ up
      /\ r.at = "write"
      /\ table' = [table EXCEPT ![r.id] = r.row]
      /\ Return(t)
      /\ UNCHANGED <<clock, up, ticker, bounds, ghosts>>

(* Mutant of Write: a row that is there keeps its next_at as well. *)
WriteKeepNext(t) ==
  LET r == api[t]
  IN  /\ up
      /\ r.at = "write"
      /\ table' = [table EXCEPT ![r.id] =
                     IF r.id \in Rows
                       THEN [r.row EXCEPT !.lastAt = table[r.id].lastAt, !.nextAt = table[r.id].nextAt]
                       ELSE r.row]
      /\ Return(t)
      /\ UNCHANGED <<clock, up, ticker, bounds, ghosts>>

(* A row that is there keeps its last_at. *)
Write(t) ==
  LET r == api[t]
  IN  /\ up
      /\ r.at = "write"
      /\ \/ /\ table' = [table EXCEPT ![r.id] =
                           IF r.id \in Rows THEN [r.row EXCEPT !.lastAt = table[r.id].lastAt] ELSE r.row]
            /\ Return(t)
            /\ UNCHANGED <<clock, up, ticker, bounds, ghosts>>
         \/ Fail(Return(t) /\ UNCHANGED ticker)

(* DELETE and POST .../fire begin by reading the row; without one they     *)
(* answer 404.                                                             *)
BeginDelete(t, i) ==
  i \in Rows /\ Begin(t, [at |-> "delete", id |-> i, row |-> table[i], now |-> 0])

BeginFire(t, i) ==
  i \in Rows /\ Begin(t, [at |-> "fire", id |-> i, row |-> table[i], now |-> 0])

Delete(t) ==
  /\ up
  /\ api[t].at = "delete"
  /\ \/ /\ table' = [table EXCEPT ![api[t].id] = NoRow]
        /\ Return(t)
        /\ UNCHANGED <<clock, up, ticker, bounds, ghosts>>
     \/ Fail(Return(t) /\ UNCHANGED ticker)

(* A manual fire: the message goes out, or the request ends. *)
FireNow(t) ==
  /\ up
  /\ api[t].at = "fire"
  /\ \/ api' = [api EXCEPT ![t].at = "mark", ![t].now = clock]
     \/ Return(t)
  /\ UNCHANGED <<clock, up, table, ticker, bounds, ghosts>>

(* Mutant of Record: the next occurrence is worked out afresh. *)
RecordAndAdvance(t) ==
  LET r == api[t]
  IN  /\ up
      /\ r.at = "mark"
      /\ MarkFired(r.id, r.now, Next[r.row.cron][r.now])
      /\ Return(t)
      /\ UNCHANGED <<clock, up, ticker, bounds, ghosts>>

(* Then last_at is recorded, with the next_at the row was read with. *)
Record(t) ==
  LET r == api[t]
  IN  /\ up
      /\ r.at = "mark"
      /\ \/ /\ MarkFired(r.id, r.now, r.row.nextAt)
            /\ Return(t)
            /\ UNCHANGED <<clock, up, ticker, bounds, ghosts>>
         \/ Fail(Return(t) /\ UNCHANGED ticker)

Arrive(t) ==
  \E i \in Id :
    \/ \E c \in Cron, enabled \in BOOLEAN : BeginPut(t, i, c, enabled)
    \/ BeginDelete(t, i)
    \/ BeginFire(t, i)

Handle(t) == Write(t) \/ Delete(t) \/ FireNow(t) \/ Record(t)

-----------------------------------------------------------------------------
(* Time and the process.                                                   *)

Pass ==
  /\ clock < LastMinute
  /\ clock' = clock + 1
  /\ UNCHANGED <<up, table, ticker, api, bounds, ghosts>>

Stop ==
  /\ up
  /\ stops < MaxStops
  /\ stops' = stops + 1
  /\ up' = FALSE
  /\ ticker' = Starting
  /\ api' = [t \in Thread |-> Idle]
  /\ UNCHANGED <<clock, table, served, fails, ghosts>>

Restart ==
  /\ ~up
  /\ up' = TRUE
  /\ missed' = missed \cup {<<d.id, d.row.nextAt>> : d \in ListDue}
  /\ UNCHANGED <<clock, table, ticker, api, bounds, sent>>

NextStep ==
  \/ Scheduling
  \/ \E t \in Thread : Arrive(t) \/ Handle(t)
  \/ Pass
  \/ Stop
  \/ Restart

Spec == Init /\ [][NextStep]_vars

(* The ticker keeps ticking and requests keep running while the process    *)
(* does; nothing obliges a request to arrive or the process to stop.       *)
FairSpec == Spec /\ WF_vars(Scheduling) /\ \A t \in Thread : WF_vars(Handle(t))

-----------------------------------------------------------------------------

SentFor(i) == sent'[i] # sent[i]

(* scheduler.go:91-123, TestSchedulerFiresOncePerDueMinute: the scheduler  *)
(* sends one message for an occurrence, also when the process stops        *)
(* between the send and the write that advances the row.                   *)
OncePerOccurrence == \A i \in Id, m \in Minute : sent[i][m] <= 1

(* docs/scheduling.md:78-83: an occurrence that was due when the server    *)
(* came up is not fired any more.                                          *)
NoCatchUp == [][\A i \in Id, m \in Minute : <<i, m>> \in missed => sent'[i][m] = sent[i][m]]_vars

(* docs/scheduling.md:25 and :113: a schedule that is deleted or disabled  *)
(* does not fire.                                                          *)
OnlyEnabledFire == [][\A i \in Id : SentFor(i) => i \in Rows /\ table[i].enabled]_vars

(* docs/scheduling.md:114: a manual fire records last_at and does not move *)
(* next_at.                                                                *)
FireKeepsNextAt ==
  [][\A t \in Thread : api[t].at = "mark" /\ api'[t].at = "idle" /\ up' /\ api[t].id \in Rows
       => table'[api[t].id].nextAt = table[api[t].id].nextAt]_vars

(* docs/scheduling.md:26 and :74: next_at is an occurrence of the row's    *)
(* own cron expression.                                                    *)
NextAtOnCadence == \A i \in Rows : \E m \in Minute : Next[table[i].cron][m] = table[i].nextAt

(* schedules.go:40-74 and :125-139, docs/scheduling.md:85-87: whatever is  *)
(* written to a row, the time of its last fire is not lost.                *)
LastFireKept ==
  [][\A i \in Rows : table'[i] # NoRow => table'[i].lastAt >= table[i].lastAt]_vars

(* Messages beyond the first, of each occurrence. *)
Repeats == UNION {{<<o, n>> : n \in 2 .. sent[o[1]][o[2]]} : o \in Id \X Minute}

(* scheduler.go and schedules.go: however the scheduler, requests, failing *)
(* statements and restarts interleave, each request and each failure makes *)
(* at most one occurrence fire once more.                                  *)
RepeatsAreBounded == Cardinality(Repeats) <= served + fails

(* scheduler.go:48-123: a row that is due does not stay due: it is         *)
(* advanced, whether or not its message could be sent, unless the process  *)
(* stops.                                                                  *)
DueAdvances == \A i \in Id : (up /\ i \in Rows /\ IsDue(table[i])) ~> ~(i \in Rows /\ IsDue(table[i])) \/ ~up
=============================================================================
