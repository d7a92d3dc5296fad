-------------------------- MODULE SchedulerProofs ---------------------------
(***************************************************************************)
(* That the scheduler's repetitions are accounted for, for any schedules,  *)
(* requests and failures, however they interleave.                         *)
(*                                                                         *)
(* A message repeats an occurrence when the scheduler reads a row that is  *)
(* behind: one that says of an occurrence which was fired that it is next. *)
(* A row gets behind by a request that writes what it has read before, or  *)
(* by a statement of the scheduler that fails; so every row that is behind *)
(* has one of these to account for it, and so has every request that may   *)
(* still write.  A stop can leave one row behind that nobody accounts for, *)
(* but that one is skipped by the next start, or the statement that skips  *)
(* it fails.                                                               *)
(***************************************************************************)
EXTENDS Scheduler, FiniteSetTheorems, TLAPS

(* An occurrence of which a message has gone. *)
Went(i, m) == m \in Minute /\ sent[i][m] > 0

(* The rows the scheduler has in hand, and those of them still to be fired. *)
InHand == IF ticker.at \in {"fire", "mark"} THEN ticker.due ELSE {}
ToFire == IF ticker.at = "mark" THEN InHand \ {ticker.cur} ELSE InHand

Names(due, i, m) == \E d \in due : d.id = i /\ d.row.nextAt = m

(* Those whose message, still to be sent, repeats one. *)
Again == {i \in Id : \E d \in ToFire : d.id = i /\ Went(i, d.row.nextAt)}

(* The rows of the table that are behind, but for those that the scheduler *)
(* has in hand and will advance.  One that is not enabled is not read by a *)
(* start, and counts even before what it says is next is fired.            *)
Late(i) ==
  LET m == table[i].nextAt IN
  IF table[i].enabled THEN Went(i, m) /\ ~ Names(InHand, i, m)
                      ELSE Went(i, m) \/ Names(ToFire, i, m)

Behind == {i \in Rows : Late(i)}

(* Those that a start is about to skip. *)
ToSkip(i) == ticker.at = "starting" \/ (ticker.at = "skip" /\ \E d \in ticker.due : d.id = i)
Skipped   == {i \in Behind : table[i].enabled /\ ToSkip(i)}

Active == {t \in Thread : api[t].at # "idle"}

Finite == IsFiniteSet(Repeats) /\ IsFiniteSet(Again) /\ IsFiniteSet(Behind) /\ IsFiniteSet(Active)

Debts  == Cardinality(Repeats) + Cardinality(Again) + Cardinality(Behind) + Cardinality(Active)
Credit == served + fails + (IF Skipped = {} THEN 0 ELSE 1)

Accounted == Finite /\ Debts <= Credit

(* The scheduler has rows it found due; what was fired is past, and was    *)
(* due when the scheduler last looked.                                     *)
Working == {"skip", "fire", "mark"}

TickerReads ==
  /\ \A i \in Id, m \in Minute :
       sent[i][m] > 0 => m <= clock /\ (ticker.at \in Working => m <= ticker.now)
  /\ ticker.at \in Working =>
       /\ ticker.now \in Minute /\ ticker.now <= clock
       /\ \A d \in ticker.due : d.row.nextAt <= ticker.now
       /\ \A d, e \in ticker.due : d.id = e.id => d = e
  /\ ticker.at = "mark" => ticker.cur \in ticker.due
  /\ ~up => ticker.at = "starting"

RequestsRead ==
  \A t \in Thread : api[t].at # "idle" => /\ api[t].id \in Id /\ api[t].row \in Row
                                          /\ api[t].at = "mark" => api[t].now \in Minute

SchedulerInv == TypeOK /\ TickerReads /\ RequestsRead /\ Accounted

-----------------------------------------------------------------------------
(* Sizes.                                                                  *)

(* A part of a finite set is no larger. *)
LEMMA Part ==
  ASSUME NEW T, IsFiniteSet(T), NEW S, S \subseteq T
  PROVE  IsFiniteSet(S) /\ Cardinality(S) \in Nat /\ Cardinality(S) <= Cardinality(T)
BY FS_Subset, FS_CardinalityType

(* One that lacks an element is smaller. *)
LEMMA Less ==
  ASSUME NEW T, IsFiniteSet(T), NEW x \in T, NEW S, S \subseteq T \ {x}
  PROVE  IsFiniteSet(S) /\ Cardinality(S) \in Nat /\ Cardinality(S) + 1 <= Cardinality(T)
<1>1. IsFiniteSet(T \ {x}) /\ Cardinality(T \ {x}) = Cardinality(T) - 1
  BY FS_RemoveElement
<1>2. IsFiniteSet(S) /\ Cardinality(S) \in Nat /\ Cardinality(S) <= Cardinality(T \ {x})
  BY <1>1, Part
<1> QED BY <1>1, <1>2, FS_CardinalityType

(* One element more makes it one larger at most. *)
LEMMA More ==
  ASSUME NEW T, IsFiniteSet(T), NEW x, NEW S, S \subseteq T \cup {x}
  PROVE  IsFiniteSet(S) /\ Cardinality(S) \in Nat /\ Cardinality(S) <= Cardinality(T) + 1
<1>0. Cardinality(T) \in Nat BY FS_CardinalityType
<1>1. IsFiniteSet(T \cup {x}) /\ Cardinality(T \cup {x}) <= Cardinality(T) + 1
  BY <1>0, FS_AddElement
<1>2. IsFiniteSet(S) /\ Cardinality(S) \in Nat /\ Cardinality(S) <= Cardinality(T \cup {x})
  BY <1>1, Part
<1> QED BY <1>1, <1>2, FS_CardinalityType

(* Two parts that have nothing in common are no larger together, ... *)
LEMMA Apart ==
  ASSUME NEW T, IsFiniteSet(T), NEW R, R \subseteq T, NEW S, S \subseteq T \ R
  PROVE  /\ IsFiniteSet(R) /\ IsFiniteSet(S)
         /\ Cardinality(R) \in Nat /\ Cardinality(S) \in Nat
         /\ Cardinality(R) + Cardinality(S) <= Cardinality(T)
<1>1. IsFiniteSet(R) /\ IsFiniteSet(S) /\ Cardinality(R) \in Nat /\ Cardinality(S) \in Nat
  BY Part
<1>2. R \cap S = {} /\ R \cup S \subseteq T OBVIOUS
<1>3. Cardinality(R \cup S) = Cardinality(R) + Cardinality(S) - Cardinality(R \cap S)
  BY <1>1, FS_Union
<1>4. Cardinality(R \cap S) = 0 BY <1>2, FS_EmptySet
<1>5. Cardinality(R \cup S) <= Cardinality(T) BY <1>2, Part
<1> QED BY <1>1, <1>3, <1>4, <1>5

(* ... and what is in one of two sets is no more than both. *)
LEMMA Both ==
  ASSUME NEW R, IsFiniteSet(R), NEW S, IsFiniteSet(S), NEW T, T \subseteq R \cup S
  PROVE  /\ IsFiniteSet(T) /\ Cardinality(T) \in Nat
         /\ Cardinality(T) <= Cardinality(R) + Cardinality(S)
<1>1. /\ IsFiniteSet(R \cup S)
      /\ Cardinality(R \cup S) = Cardinality(R) + Cardinality(S) - Cardinality(R \cap S)
  BY FS_Union
<1>2. IsFiniteSet(R \cap S) BY FS_Subset
<1>3. /\ Cardinality(R) \in Nat /\ Cardinality(S) \in Nat
      /\ Cardinality(R \cap S) \in Nat
  BY <1>2, FS_CardinalityType
<1>4. IsFiniteSet(T) /\ Cardinality(T) \in Nat /\ Cardinality(T) <= Cardinality(R \cup S)
  BY <1>1, Part
<1> QED BY <1>1, <1>3, <1>4

(* The four sizes are numbers. *)
LEMMA Sizes ==
  ASSUME Finite
  PROVE  /\ Cardinality(Repeats) \in Nat /\ Cardinality(Again) \in Nat
         /\ Cardinality(Behind) \in Nat /\ Cardinality(Active) \in Nat
BY FS_CardinalityType DEF Finite

(* What a repetition is. *)
LEMMA RepeatsHas ==
  ASSUME NEW i \in Id, NEW m \in Minute, NEW n \in 2 .. sent[i][m]
  PROVE  <<<<i, m>>, n>> \in Repeats
<1> DEFINE o == <<i, m>>
<1>1. o \in Id \X Minute /\ o[1] = i /\ o[2] = m OBVIOUS
<1>2. <<o, n>> \in {<<o, k>> : k \in 2 .. sent[o[1]][o[2]]} BY <1>1
<1> QED BY <1>1, <1>2 DEF Repeats

-----------------------------------------------------------------------------
(* Types.                                                                  *)

(* A row that is there is typed field by field. *)
LEMMA RowsAre ==
  ASSUME TypeOK, NEW i \in Rows
  PROVE  /\ i \in Id /\ table[i] \in Row /\ table[i].cron \in Cron
         /\ table[i].enabled \in BOOLEAN /\ table[i].nextAt \in Nat /\ table[i].lastAt \in Nat
BY DEF Rows, TypeOK, Row

(* So is a row in hand. *)
LEMMA DueAre ==
  ASSUME TypeOK, NEW d \in ticker.due
  PROVE  /\ d.id \in Id /\ d.row \in Row /\ d.row.cron \in Cron
         /\ d.row.enabled \in BOOLEAN /\ d.row.nextAt \in Nat /\ d.row.lastAt \in Nat
BY DEF TypeOK, Ticker, Row

(* A failure more is one the bound allows. *)
LEMMA FailsAre ==
  ASSUME TypeOK, fails' = fails \/ (fails < MaxFails /\ fails' = fails + 1)
  PROVE  fails' \in 0 .. MaxFails
BY BoundAssumption DEF TypeOK

(* The next match after the minute of a tick is later. *)
LEMMA NextIsLater ==
  ASSUME NEW c \in Cron, NEW m \in Minute
  PROVE  Next[c][m] \in Nat /\ Next[c][m] > m
BY CronAssumption

(* What MarkFired leaves: the rows of the others, and of its own what it   *)
(* was given.                                                              *)
LEMMA MarkFiredIs ==
  ASSUME TypeOK, NEW i \in Id, NEW l \in Nat, NEW n \in Nat, MarkFired(i, l, n)
  PROVE  /\ table' \in [Id -> Row \cup {NoRow}]
         /\ \A j \in Id : j # i => table'[j] = table[j]
         /\ Rows' = Rows
         /\ i \in Rows => /\ table'[i].nextAt = n /\ table'[i].lastAt = l
                          /\ table'[i].enabled = table[i].enabled /\ table'[i].cron = table[i].cron
<1>1. CASE i \in Rows
  <2>1. table[i] \in Row BY <1>1, RowsAre
  <2>2. table' = [table EXCEPT ![i].lastAt = l, ![i].nextAt = n] BY <1>1 DEF MarkFired
  <2>3. table'[i] = [table[i] EXCEPT !.lastAt = l, !.nextAt = n] /\ table'[i] \in Row
    BY <2>1, <2>2 DEF TypeOK, Row
  <2>4. \A j \in Id : j # i => table'[j] = table[j] BY <2>2 DEF TypeOK
  <2>5. table' \in [Id -> Row \cup {NoRow}] BY <2>2, <2>3, <2>4 DEF TypeOK
  <2>6. table'[i] # NoRow BY <2>3, NoRowAssumption
  <2>7. Rows' = Rows BY <1>1, <2>4, <2>6 DEF Rows
  <2> QED BY <2>1, <2>3, <2>4, <2>5, <2>7 DEF Row
<1>2. CASE i \notin Rows BY <1>2 DEF MarkFired, TypeOK, Rows
<1> QED BY <1>1, <1>2

(* Waiting for the next tick, and at the start, nothing is in hand. *)
LEMMA Resting ==
  /\ Starting \in Ticker /\ Starting.at = "starting"
  /\ Waiting \in Ticker /\ Waiting.at = "idle"
BY DEF Starting, Waiting, Ticker

(* What Past leaves in hand. *)
LEMMA PastIs ==
  ASSUME TypeOK, TickerReads, ticker.at \in Working, NEW d \in ticker.due, NEW to \in Working,
         ticker' = Past(d, to)
  PROVE  /\ ticker' \in Ticker
         /\ \/ ticker' = Waiting /\ ticker.due = {d}
            \/ ticker'.at = to /\ ticker'.due = ticker.due \ {d} /\ ticker'.now = ticker.now
               /\ ticker'.cur = NoRow
BY Resting DEF Past, TypeOK, Ticker, Working

(* A request that returns, or goes on. *)
LEMMA ReturnIs ==
  ASSUME TypeOK, RequestsRead, NEW t \in Thread, Return(t)
  PROVE  /\ api' \in [Thread -> Request]
         /\ \A u \in Thread : api'[u].at # "idle" => u # t /\ api'[u] = api[u]
         /\ Active' \subseteq Active \ {t}
<1>1. Idle \in Request /\ Idle.at = "idle" BY DEF Idle, Request
<1>2. api' = [u \in Thread |-> IF u = t THEN Idle ELSE api[u]] BY DEF Return, TypeOK
<1> QED BY <1>1, <1>2 DEF TypeOK, Active

-----------------------------------------------------------------------------
(* Every step keeps the types and what was read.                           *)

Types == TypeOK /\ TickerReads /\ RequestsRead

(* At the start nothing is in hand, nothing has been sent and nobody asks. *)
LEMMA TypesInit == Init => Types
<1> SUFFICES ASSUME Init PROVE Types OBVIOUS
<1>1. table \in [Id -> Row \cup {NoRow}]
  <2>1. 1 \in Minute BY BoundAssumption DEF Minute
  <2>2. \A c \in Cron : [cron |-> c, enabled |-> TRUE, nextAt |-> Next[c][1], lastAt |-> 0] \in Row
    BY <2>1, CronAssumption DEF Row
  <2> QED BY <2>2 DEF Init
<1>2. Idle \in Request /\ Idle.at = "idle" BY DEF Idle, Request
<1>3. TypeOK BY <1>1, <1>2, Resting, BoundAssumption DEF Init, TypeOK, Minute
<1>4. TickerReads BY Resting DEF Init, TickerReads, Working
<1>5. RequestsRead BY <1>2 DEF Init, RequestsRead
<1> QED BY <1>3, <1>4, <1>5 DEF Types

(* The scheduler reads the table. *)
LEMMA ReadTypes ==
  ASSUME Types, NEW from \in {"starting", "idle"}, NEW to \in Working \ {"mark"}, Read(from, to)
  PROVE  Types'
<1>1. ListDue \in SUBSET [id : Id, row : Row]
  <2>1. \A i \in Rows : [id |-> i, row |-> table[i]] \in [id : Id, row : Row]
    BY RowsAre DEF Types
  <2> QED BY <2>1 DEF ListDue
<1>2. \A d \in ListDue : d.row.nextAt <= clock BY DEF ListDue, IsDue
<1>3. \A d, e \in ListDue : d.id = e.id => d = e BY DEF ListDue
<1>4. UNCHANGED <<clock, up, table, api, served, stops, sent, missed>> /\ fails' \in 0 .. MaxFails
  <2>1. UNCHANGED <<clock, up, table, api, served, stops, sent, missed>>
    BY DEF Read, Fail, bounds, ghosts
  <2>2. fails' = fails \/ (fails < MaxFails /\ fails' = fails + 1)
    BY DEF Read, Fail, bounds
  <2> QED BY <2>1, <2>2, FailsAre DEF Types
<1>5. \/ ticker' = Waiting
      \/ ticker' = [ticker EXCEPT !.at = to, !.due = ListDue, !.now = clock]
  BY DEF Read, Fail
<1>6. up BY DEF Read
<1>7. CASE ticker' = Waiting
  BY <1>4, <1>6, <1>7, Resting DEF Types, TypeOK, TickerReads, RequestsRead, Working
<1>8. CASE ticker' = [ticker EXCEPT !.at = to, !.due = ListDue, !.now = clock]
  <2>1. ticker' \in Ticker BY <1>1, <1>8 DEF Types, TypeOK, Ticker, Working
  <2>2. ticker'.at = to /\ ticker'.due = ListDue /\ ticker'.now = clock
    BY <1>8 DEF Types, TypeOK, Ticker
  <2>3. TypeOK' BY <1>4, <2>1 DEF Types, TypeOK
  <2>4. TickerReads'
    <3>1. \A i \in Id, m \in Minute : sent[i][m] > 0 => m <= clock
      BY DEF Types, TickerReads
    <3>2. clock \in Minute /\ clock <= clock BY DEF Types, TypeOK, Minute
    <3>3. ticker'.at # "mark" BY <2>2
    <3> QED BY <1>2, <1>3, <1>4, <1>6, <2>2, <3>1, <3>2, <3>3 DEF TickerReads
  <2>5. RequestsRead' BY <1>4 DEF Types, RequestsRead
  <2> QED BY <2>3, <2>4, <2>5 DEF Types
<1> QED BY <1>5, <1>7, <1>8

(* The scheduler is done with a row. *)
LEMMA PastTypes ==
  ASSUME Types, up, ticker.at \in Working, NEW d \in ticker.due, NEW to \in Working \ {"mark"},
         ticker' = Past(d, to), table' \in [Id -> Row \cup {NoRow}], fails' \in 0 .. MaxFails,
         UNCHANGED <<clock, up, api, served, stops, sent, missed>>
  PROVE  Types'
<1>1. /\ ticker' \in Ticker
      /\ \/ ticker' = Waiting /\ ticker.due = {d}
         \/ ticker'.at = to /\ ticker'.due = ticker.due \ {d} /\ ticker'.now = ticker.now
            /\ ticker'.cur = NoRow
  BY PastIs DEF Types
<1>2. TypeOK' BY <1>1 DEF Types, TypeOK
<1>3. RequestsRead' BY DEF Types, RequestsRead
<1>4. CASE ticker' = Waiting
  <2>1. ticker'.at \notin Working BY <1>4, Resting DEF Working
  <2>2. TickerReads' BY <2>1 DEF Types, TickerReads, Working
  <2> QED BY <1>2, <1>3, <2>2 DEF Types
<1>5. CASE ticker'.at = to /\ ticker'.due = ticker.due \ {d} /\ ticker'.now = ticker.now
  <2>1. TickerReads' BY <1>5 DEF Types, TickerReads, Working
  <2> QED BY <1>2, <1>3, <2>1 DEF Types
<1> QED BY <1>1, <1>4, <1>5

(* So it advances, when it starts and after a message. *)
LEMMA SkipTypes == ASSUME Types, SkipMissed PROVE Types'
<1> PICK d \in Earliest(ticker.due) :
      \/ /\ MarkFired(d.id, d.row.lastAt, Next[d.row.cron][ticker.now])
         /\ ticker' = Past(d, "skip")
         /\ UNCHANGED <<clock, up, api, bounds, ghosts>>
      \/ Fail(ticker' = Past(d, "skip") /\ UNCHANGED api)
  BY DEF SkipMissed
<1>1. up /\ ticker.at = "skip" BY DEF SkipMissed
<1>2. d \in ticker.due BY DEF Earliest
<1>3. d.id \in Id /\ d.row.lastAt \in Nat /\ Next[d.row.cron][ticker.now] \in Nat
  BY <1>1, <1>2, DueAre, NextIsLater DEF Types, TickerReads, Working
<1>4. table' \in [Id -> Row \cup {NoRow}] BY <1>3, MarkFiredIs DEF Types, TypeOK, Fail
<1>5. fails' = fails \/ (fails < MaxFails /\ fails' = fails + 1) BY DEF Fail, bounds
<1>6. UNCHANGED <<clock, up, api, served, stops, sent, missed>>
  BY DEF Fail, bounds, ghosts
<1>7. ticker' = Past(d, "skip") BY DEF Fail
<1> QED BY <1>1, <1>2, <1>4, <1>5, <1>6, <1>7, PastTypes, FailsAre DEF Working, Types

(* After a message the row is advanced the same way. *)
LEMMA AdvanceTypes == ASSUME Types, Advance PROVE Types'
<1> DEFINE d == ticker.cur
           l == IF ticker.ok THEN ticker.now ELSE d.row.lastAt
<1>1. up /\ ticker.at = "mark" BY DEF Advance
<1>2. d \in ticker.due BY <1>1 DEF Types, TickerReads
<1>3. /\ d.id \in Id /\ l \in Nat /\ Next[d.row.cron][ticker.now] \in Nat
  <2>1. ticker.now \in Minute BY <1>1 DEF Types, TickerReads, Working
  <2>2. ticker.now \in Nat BY <2>1 DEF Minute
  <2> QED BY <1>2, <2>1, <2>2, DueAre, NextIsLater DEF Types
<1>4. table' \in [Id -> Row \cup {NoRow}]
  <2>1. CASE MarkFired(d.id, l, Next[d.row.cron][ticker.now])
    BY <1>3, <2>1, MarkFiredIs DEF Types
  <2>2. CASE UNCHANGED table BY <2>2 DEF Types, TypeOK
  <2> QED BY <2>1, <2>2 DEF Advance, Fail
<1>5. fails' = fails \/ (fails < MaxFails /\ fails' = fails + 1)
  BY DEF Advance, Fail, bounds
<1>6. UNCHANGED <<clock, up, api, served, stops, sent, missed>>
  BY DEF Advance, Fail, bounds, ghosts
<1>7. ticker' = Past(d, "fire") BY DEF Advance, Fail
<1> QED BY <1>1, <1>2, <1>4, <1>5, <1>6, <1>7, PastTypes, FailsAre DEF Working, Types

(* A count that goes up is still a count. *)
LEMMA OneMore ==
  ASSUME NEW f \in [Minute -> Nat], NEW m
  PROVE  [f EXCEPT ![m] = f[m] + 1] \in [Minute -> Nat]
<1>1. CASE m \in Minute
  <2>1. f[m] + 1 \in Nat BY <1>1
  <2> QED BY <1>1, <2>1
<1>2. CASE m \notin Minute BY <1>2
<1> QED BY <1>1, <1>2

(* A message it sends is for an occurrence that is past. *)
LEMMA FireTypes == ASSUME Types, Fire PROVE Types'
<1> PICK d \in Earliest(ticker.due), ok \in BOOLEAN :
      /\ ticker' = [ticker EXCEPT !.at = "mark", !.cur = d, !.ok = ok]
      /\ sent' = IF ok THEN [sent EXCEPT ![d.id][d.row.nextAt] = @ + 1] ELSE sent
  BY DEF Fire
<1>1. up /\ ticker.at = "fire" /\ UNCHANGED <<clock, up, table, api, served, fails, stops, missed>>
  BY DEF Fire, bounds
<1>2. d \in ticker.due /\ d \in [id : Id, row : Row]
  BY DEF Earliest, Types, TypeOK, Ticker
<1>3. /\ ticker' \in Ticker /\ ticker'.at = "mark" /\ ticker'.due = ticker.due
      /\ ticker'.now = ticker.now /\ ticker'.cur = d
  BY <1>2 DEF Types, TypeOK, Ticker
<1>4. sent' \in [Id -> [Minute -> Nat]]
  <2>1. sent[d.id] \in [Minute -> Nat] BY <1>2 DEF Types, TypeOK
  <2>2. [sent[d.id] EXCEPT ![d.row.nextAt] = sent[d.id][d.row.nextAt] + 1] \in [Minute -> Nat]
    BY <2>1, OneMore
  <2>3. CASE ok
    <3>1. sent' = [sent EXCEPT ![d.id] = [sent[d.id] EXCEPT ![d.row.nextAt] =
                                            sent[d.id][d.row.nextAt] + 1]]
      BY <2>3 DEF Types, TypeOK
    <3> QED BY <2>2, <3>1 DEF Types, TypeOK
  <2>4. CASE ~ ok BY <2>4 DEF Types, TypeOK
  <2> QED BY <2>3, <2>4
<1>5. \A i \in Id, m \in Minute : sent'[i][m] > 0 => sent[i][m] > 0 \/ m = d.row.nextAt
  BY DEF Types, TypeOK
<1>6. d.row.nextAt <= ticker.now /\ ticker.now <= clock /\ ticker.now \in Minute
  BY <1>1, <1>2 DEF Types, TickerReads, Working
<1>7. TypeOK' BY <1>1, <1>3, <1>4 DEF Types, TypeOK
<1>8. TickerReads'
  <2>1. \A i \in Id, m \in Minute : sent'[i][m] > 0 => m <= ticker.now /\ m <= clock
    <3>1. d.row.nextAt \in Nat BY <1>2, DueAre DEF Types
    <3>2. clock \in Nat /\ ticker.now \in Nat BY <1>6 DEF Types, TypeOK, Minute
    <3>3. \A i \in Id, m \in Minute : sent[i][m] > 0 => m <= ticker.now /\ m <= clock
      BY <1>1 DEF Types, TickerReads, Working
    <3> QED BY <1>5, <1>6, <3>1, <3>2, <3>3
  <2> QED BY <1>1, <1>2, <1>3, <2>1 DEF Types, TickerReads, Working
<1>9. RequestsRead' BY <1>1 DEF Types, RequestsRead
<1> QED BY <1>7, <1>8, <1>9 DEF Types

(* A request begins with a row that it has read or made. *)
LEMMA ArriveIs ==
  ASSUME Types, NEW t \in Thread, Arrive(t)
  PROVE  \E r \in Request :
           Begin(t, r) /\ r.at \notin {"idle", "mark"} /\ r.id \in Id /\ r.row \in Row
<1>1. PICK i \in Id :
        \/ \E c \in Cron, enabled \in BOOLEAN : BeginPut(t, i, c, enabled)
        \/ BeginDelete(t, i)
        \/ BeginFire(t, i)
  BY DEF Arrive
<1>2. ASSUME NEW c \in Cron, NEW e \in BOOLEAN, BeginPut(t, i, c, e)
      PROVE  \E r \in Request :
               Begin(t, r) /\ r.at \notin {"idle", "mark"} /\ r.id \in Id /\ r.row \in Row
  <2> DEFINE r == [at |-> "write", id |-> i, now |-> clock,
                   row |-> [cron |-> c, enabled |-> e, nextAt |-> Next[c][clock], lastAt |-> 0]]
  <2>1. Next[c][clock] \in Nat /\ clock \in Minute BY NextIsLater DEF Types, TypeOK
  <2>2. r \in Request /\ r.row \in Row BY <2>1 DEF Request, Row
  <2>3. Begin(t, r) BY <1>2 DEF BeginPut
  <2> QED BY <2>2, <2>3
<1>3. ASSUME NEW at \in {"delete", "fire"}, i \in Rows,
             Begin(t, [at |-> at, id |-> i, row |-> table[i], now |-> 0])
      PROVE  \E r \in Request :
               Begin(t, r) /\ r.at \notin {"idle", "mark"} /\ r.id \in Id /\ r.row \in Row
  <2> DEFINE r == [at |-> at, id |-> i, row |-> table[i], now |-> 0]
  <2>1. table[i] \in Row BY <1>3, RowsAre DEF Types
  <2>2. r \in Request /\ r.row \in Row BY <2>1 DEF Request
  <2> QED BY <1>3, <2>2
<1> QED BY <1>1, <1>2, <1>3 DEF BeginDelete, BeginFire

(* So it keeps the types. *)
LEMMA ArriveTypes == ASSUME Types, NEW t \in Thread, Arrive(t) PROVE Types'
<1> PICK r \in Request : /\ Begin(t, r) /\ r.at \notin {"idle", "mark"}
                         /\ r.id \in Id /\ r.row \in Row
  BY ArriveIs
<1>1. /\ up /\ api' = [api EXCEPT ![t] = r] /\ served < MaxRequests /\ served' = served + 1
      /\ UNCHANGED <<clock, up, table, ticker, fails, stops, sent, missed>>
  BY DEF Begin, ghosts
<1>2. served' \in 0 .. MaxRequests BY <1>1, BoundAssumption DEF Types, TypeOK
<1>3. TypeOK' BY <1>1, <1>2 DEF Types, TypeOK
<1>4. TickerReads' BY <1>1 DEF Types, TickerReads
<1>5. RequestsRead' BY <1>1 DEF Types, TypeOK, RequestsRead
<1> QED BY <1>3, <1>4, <1>5 DEF Types

(* What a statement of a request does: nothing but write the row it is     *)
(* for, or fail.                                                           *)
LEMMA HandleIs ==
  ASSUME Types, NEW t \in Thread, Handle(t)
  PROVE  /\ up /\ api[t].at # "idle" /\ api[t].id \in Id
         /\ UNCHANGED <<clock, up, ticker, served, stops, sent, missed>>
         /\ table' \in [Id -> Row \cup {NoRow}]
         /\ \A i \in Id : i # api[t].id => table'[i] = table[i]
         /\ \/ Return(t) /\ fails' = fails
            \/ Return(t) /\ fails < MaxFails /\ fails' = fails + 1 /\ table' = table
            \/ /\ api' = [api EXCEPT ![t].at = "mark", ![t].now = clock]
               /\ fails' = fails /\ table' = table
<1>1. CASE Write(t)
  <2>1. up /\ api[t].at # "idle" BY <1>1 DEF Write
  <2>2. api[t].id \in Id /\ api[t].row \in Row BY <2>1 DEF Types, RequestsRead
  <2>3. CASE Fail(Return(t) /\ UNCHANGED ticker)
    BY <2>1, <2>2, <2>3 DEF Fail, Types, TypeOK, ghosts
  <2>4. CASE ~ Fail(Return(t) /\ UNCHANGED ticker)
    <3>1. /\ table' = [table EXCEPT ![api[t].id] =
                         IF api[t].id \in Rows
                           THEN [api[t].row EXCEPT !.lastAt = table[api[t].id].lastAt]
                           ELSE api[t].row]
          /\ Return(t)
          /\ UNCHANGED <<clock, up, ticker, served, fails, stops, sent, missed>>
      BY <1>1, <2>4 DEF Write, bounds, ghosts
    <3>2. api[t].id \in Rows => [api[t].row EXCEPT !.lastAt = table[api[t].id].lastAt] \in Row
      BY <2>2, RowsAre DEF Types, Row
    <3> QED BY <2>1, <2>2, <3>1, <3>2 DEF Types, TypeOK
  <2> QED BY <2>3, <2>4
<1>2. CASE Delete(t)
  <2>1. up /\ api[t].at # "idle" BY <1>2 DEF Delete
  <2>2. api[t].id \in Id BY <2>1 DEF Types, RequestsRead
  <2> QED BY <1>2, <2>1, <2>2 DEF Delete, Fail, Types, TypeOK, bounds, ghosts
<1>3. CASE FireNow(t)
  <2>1. up /\ api[t].at # "idle" BY <1>3 DEF FireNow
  <2>2. api[t].id \in Id BY <2>1 DEF Types, RequestsRead
  <2> QED BY <1>3, <2>1, <2>2 DEF FireNow, Types, TypeOK, bounds, ghosts
<1>4. CASE Record(t)
  <2>1. up /\ api[t].at = "mark" BY <1>4 DEF Record
  <2>2. api[t].id \in Id /\ api[t].row \in Row /\ api[t].now \in Minute
    BY <2>1 DEF Types, RequestsRead
  <2>3. api[t].row.nextAt \in Nat /\ api[t].now \in Nat BY <2>2 DEF Row, Minute
  <2>4. CASE Fail(Return(t) /\ UNCHANGED ticker)
    BY <2>1, <2>2, <2>4 DEF Fail, Types, TypeOK, ghosts
  <2>5. CASE ~ Fail(Return(t) /\ UNCHANGED ticker)
    <3>1. /\ MarkFired(api[t].id, api[t].now, api[t].row.nextAt)
          /\ Return(t)
          /\ UNCHANGED <<clock, up, ticker, served, fails, stops, sent, missed>>
      BY <1>4, <2>5 DEF Record, bounds, ghosts
    <3>2. /\ table' \in [Id -> Row \cup {NoRow}]
          /\ \A i \in Id : i # api[t].id => table'[i] = table[i]
      BY <2>2, <2>3, <3>1, MarkFiredIs DEF Types
    <3> QED BY <2>1, <2>2, <3>1, <3>2
  <2> QED BY <2>4, <2>5
<1> QED BY <1>1, <1>2, <1>3, <1>4 DEF Handle

(* So does each of its statements. *)
LEMMA HandleTypes == ASSUME Types, NEW t \in Thread, Handle(t) PROVE Types'
<1>1. /\ up /\ api[t].at # "idle" /\ api[t].id \in Id
      /\ UNCHANGED <<clock, up, ticker, served, stops, sent, missed>>
      /\ table' \in [Id -> Row \cup {NoRow}]
  BY HandleIs
<1>2. fails' \in 0 .. MaxFails BY HandleIs, FailsAre DEF Types
<1>3. TickerReads' BY <1>1 DEF Types, TickerReads
<1>4. api' \in [Thread -> Request] /\ RequestsRead'
  <2>1. CASE Return(t) BY <2>1, ReturnIs DEF Types, RequestsRead
  <2>2. CASE api' = [api EXCEPT ![t].at = "mark", ![t].now = clock]
    <3>1. clock \in Minute BY DEF Types, TypeOK
    <3>2. api[t] \in Request BY DEF Types, TypeOK
    <3>3. /\ api'[t] = [api[t] EXCEPT !.at = "mark", !.now = clock]
          /\ \A u \in Thread : u # t => api'[u] = api[u]
      BY <2>2 DEF Types, TypeOK
    <3>4. /\ api'[t] \in Request /\ api'[t].id = api[t].id /\ api'[t].row = api[t].row
          /\ api'[t].now = clock
      BY <3>1, <3>2, <3>3 DEF Request
    <3>5. api' \in [Thread -> Request] BY <2>2, <3>3, <3>4 DEF Types, TypeOK
    <3>6. RequestsRead' BY <1>1, <3>1, <3>3, <3>4 DEF Types, RequestsRead
    <3> QED BY <3>5, <3>6
  <2> QED BY <2>1, <2>2, HandleIs
<1> QED BY <1>1, <1>2, <1>3, <1>4 DEF Types, TypeOK

(* Time and the process. *)
LEMMA OtherTypes == ASSUME Types, Pass \/ Stop \/ Restart \/ UNCHANGED vars PROVE Types'
<1>1. CASE Pass
  <2>1. clock' \in Minute /\ clock' >= clock /\ clock \in Nat
    BY <1>1, BoundAssumption DEF Pass, Types, TypeOK, Minute
  <2>2. UNCHANGED <<up, table, ticker, api, served, fails, stops, sent, missed>>
    BY <1>1 DEF Pass, bounds, ghosts
  <2>3. TypeOK' BY <2>1, <2>2 DEF Types, TypeOK
  <2>4. ticker'.at \in Working => ticker'.now <= clock'
    BY <2>1, <2>2 DEF Types, TickerReads, Minute
  <2>5. \A i \in Id, m \in Minute : sent'[i][m] > 0 => m <= clock'
    BY <2>1, <2>2 DEF Types, TickerReads, Minute
  <2>6. TickerReads' BY <2>2, <2>4, <2>5 DEF Types, TickerReads
  <2> QED BY <2>2, <2>3, <2>6 DEF Types, RequestsRead
<1>2. CASE Stop
  <2>1. Idle \in Request /\ Idle.at = "idle" BY DEF Idle, Request
  <2>2. /\ UNCHANGED <<clock, table, served, fails, sent, missed>> /\ up' = FALSE
        /\ ticker' = Starting /\ api' = [u \in Thread |-> Idle] /\ stops' \in 0 .. MaxStops
    BY <1>2, BoundAssumption DEF Stop, ghosts, Types, TypeOK
  <2>3. TypeOK' BY <2>1, <2>2, Resting DEF Types, TypeOK
  <2>4. TickerReads' BY <2>2, Resting DEF Types, TickerReads, Working
  <2>5. RequestsRead' BY <2>1, <2>2 DEF RequestsRead
  <2> QED BY <2>3, <2>4, <2>5 DEF Types
<1>3. CASE Restart
  <2>1. /\ up' = TRUE /\ UNCHANGED <<clock, table, ticker, api, served, fails, stops, sent>>
        /\ missed' = missed \cup {<<d.id, d.row.nextAt>> : d \in ListDue}
    BY <1>3 DEF Restart, bounds
  <2>2. {<<d.id, d.row.nextAt>> : d \in ListDue} \subseteq Id \X Nat
    BY RowsAre DEF ListDue, Types
  <2>3. TypeOK' BY <2>1, <2>2 DEF Types, TypeOK
  <2> QED BY <2>1, <2>3 DEF Types, TickerReads, RequestsRead
<1>4. CASE UNCHANGED vars
  BY <1>4 DEF vars, bounds, ghosts, Types, TypeOK, TickerReads, RequestsRead
<1> QED BY <1>1, <1>2, <1>3, <1>4

-----------------------------------------------------------------------------
(* Every step is accounted for.                                            *)

(* What is owed depends on the table, the scheduler and what was sent.     *)
LEMMA Unmoved ==
  /\ UNCHANGED sent => Repeats' = Repeats
  /\ UNCHANGED <<table, ticker, sent>> =>
       Again' = Again /\ Behind' = Behind /\ Skipped' = Skipped
  /\ UNCHANGED api => Active' = Active
<1>1. UNCHANGED sent => Repeats' = Repeats BY DEF Repeats
<1>2. UNCHANGED <<table, ticker, sent>> =>
        Again' = Again /\ Behind' = Behind /\ Skipped' = Skipped
  <2> SUFFICES ASSUME UNCHANGED <<table, ticker, sent>>
               PROVE  Again' = Again /\ Behind' = Behind /\ Skipped' = Skipped
    OBVIOUS
  <2>1. InHand' = InHand /\ ToFire' = ToFire /\ Rows' = Rows BY DEF InHand, ToFire, Rows
  <2>2. Again' = Again BY <2>1 DEF Again, Went
  <2>3. Behind' = Behind BY <2>1 DEF Behind, Late, Names, Went
  <2> QED BY <2>2, <2>3 DEF Skipped, ToSkip
<1>3. UNCHANGED api => Active' = Active BY DEF Active
<1> QED BY <1>1, <1>2, <1>3

(* The counts of the bounds are numbers. *)
LEMMA Counts == ASSUME TypeOK PROVE served \in Nat /\ fails \in Nat
BY DEF TypeOK

(* The row a request writes may be behind afterwards, and the request is   *)
(* done; what was to be skipped still is, but for that row.                *)
LEMMA HandleAccounted ==
  ASSUME Types, Accounted, NEW t \in Thread, Handle(t)
  PROVE  Accounted'
<1> DEFINE i == api[t].id
<1>1. /\ api[t].at # "idle" /\ i \in Id
      /\ UNCHANGED <<ticker, served, sent>>
      /\ table' \in [Id -> Row \cup {NoRow}]
      /\ \A j \in Id : j # i => table'[j] = table[j]
      /\ \/ Return(t) /\ fails' = fails
         \/ Return(t) /\ fails < MaxFails /\ fails' = fails + 1 /\ table' = table
         \/ /\ api' = [api EXCEPT ![t].at = "mark", ![t].now = clock]
            /\ fails' = fails /\ table' = table
  BY HandleIs
<1> HIDE DEF i
<1>2. t \in Active BY <1>1 DEF Active
<1>3. Repeats' = Repeats BY <1>1, Unmoved
<1>4. InHand' = InHand /\ ToFire' = ToFire BY <1>1 DEF InHand, ToFire
<1>5. Again' = Again BY <1>1, <1>4 DEF Again, Went
<1>6. Behind' \subseteq Behind \cup {i}
  BY <1>1, <1>4 DEF Behind, Rows, Late, Names, Went, Types, TypeOK
<1>7. Behind \ {i} \subseteq Behind'
  BY <1>1, <1>4 DEF Behind, Rows, Late, Names, Went, Types, TypeOK
<1>8. Skipped \ {i} \subseteq Skipped'
  BY <1>1, <1>7 DEF Skipped, ToSkip, Behind, Rows
<1>9. served \in Nat /\ fails \in Nat BY Counts DEF Types
<1> USE Sizes DEF Accounted
<1>10. CASE Return(t)
  <2>1. Active' \subseteq Active \ {t} BY <1>10, ReturnIs DEF Types
  <2>2. IsFiniteSet(Active') /\ Cardinality(Active') \in Nat
        /\ Cardinality(Active') + 1 <= Cardinality(Active)
    BY <1>2, <2>1, Less DEF Finite
  <2>3. CASE i \in Skipped
    <3>1. Behind' \subseteq Behind BY <1>6, <2>3 DEF Skipped
    <3>2. IsFiniteSet(Behind') /\ Cardinality(Behind') \in Nat
          /\ Cardinality(Behind') <= Cardinality(Behind)
      BY <3>1, Part DEF Finite
    <3>3. Finite' BY <1>3, <1>5, <2>2, <3>2 DEF Finite
    <3> QED BY <1>1, <1>3, <1>5, <1>9, <2>2, <3>2, <3>3 DEF Debts, Credit
  <2>4. CASE i \notin Skipped
    <3>1. IsFiniteSet(Behind') /\ Cardinality(Behind') \in Nat
          /\ Cardinality(Behind') <= Cardinality(Behind) + 1
      BY <1>6, More DEF Finite
    <3>2. Finite' BY <1>3, <1>5, <2>2, <3>1 DEF Finite
    <3>3. Skipped # {} => Skipped' # {} BY <1>8, <2>4
    <3> QED BY <1>1, <1>3, <1>5, <1>9, <2>2, <3>1, <3>2, <3>3 DEF Debts, Credit
  <2> QED BY <2>3, <2>4
<1>11. CASE api' = [api EXCEPT ![t].at = "mark", ![t].now = clock] /\ fails' = fails
            /\ table' = table
  <2>1. Active' = Active BY <1>1, <1>11 DEF Active, Types, TypeOK
  <2>2. Behind' = Behind /\ Skipped' = Skipped BY <1>1, <1>11, Unmoved
  <2>3. Finite' BY <1>3, <1>5, <2>1, <2>2 DEF Finite
  <2> QED BY <1>1, <1>3, <1>5, <1>11, <2>1, <2>2, <2>3 DEF Debts, Credit
<1> QED BY <1>1, <1>10, <1>11

(* A request that begins is counted. *)
LEMMA ArriveAccounted ==
  ASSUME Types, Accounted, NEW t \in Thread, Arrive(t)
  PROVE  Accounted'
<1> PICK r \in Request : Begin(t, r) BY ArriveIs
<1>1. /\ api' = [api EXCEPT ![t] = r] /\ served' = served + 1
      /\ UNCHANGED <<table, ticker, fails, sent>>
  BY DEF Begin, ghosts
<1>2. Repeats' = Repeats /\ Again' = Again /\ Behind' = Behind /\ Skipped' = Skipped
  BY <1>1, Unmoved
<1>3. Active' \subseteq Active \cup {t} BY <1>1 DEF Active, Types, TypeOK
<1>4. IsFiniteSet(Active') /\ Cardinality(Active') \in Nat
      /\ Cardinality(Active') <= Cardinality(Active) + 1
  BY <1>3, More DEF Accounted, Finite
<1>5. Finite' BY <1>2, <1>4 DEF Accounted, Finite
<1> QED BY <1>1, <1>2, <1>4, <1>5, Sizes, Counts DEF Accounted, Debts, Credit, Types

(* What has gone out, of what is past. *)
LEMMA WentPast ==
  ASSUME Types, ticker.at \in Working, NEW i \in Id, NEW m, m > ticker.now, m \in Nat
  PROVE  ~ Went(i, m)
BY DEF Went, Types, TickerReads, Working, Minute

(* A row that a start advances is not behind. *)
LEMMA SkipAccounted == ASSUME Types, Accounted, SkipMissed PROVE Accounted'
<1> PICK d \in Earliest(ticker.due) :
      \/ /\ MarkFired(d.id, d.row.lastAt, Next[d.row.cron][ticker.now])
         /\ ticker' = Past(d, "skip")
         /\ UNCHANGED <<clock, up, api, bounds, ghosts>>
      \/ Fail(ticker' = Past(d, "skip") /\ UNCHANGED api)
  BY DEF SkipMissed
<1> DEFINE n == Next[d.row.cron][ticker.now]
<1>1. ticker.at = "skip" /\ d \in ticker.due BY DEF SkipMissed, Earliest
<1>2. d.id \in Id /\ d.row.lastAt \in Nat /\ n \in Nat /\ n > ticker.now
  BY <1>1, DueAre, NextIsLater DEF Types, TickerReads, Working
<1> HIDE DEF n
<1>3. UNCHANGED <<api, served, sent>> BY DEF Fail, bounds, ghosts
<1>4. /\ ticker'.at \in {"skip", "idle"}
      /\ ticker'.at = "skip" => ticker'.due = ticker.due \ {d}
      /\ ticker'.at # "skip" => ticker.due = {d}
  BY <1>1, PastIs, Resting DEF Types, Working, Fail
<1>5. InHand = {} /\ InHand' = {} /\ ToFire = {} /\ ToFire' = {}
  BY <1>1, <1>4 DEF InHand, ToFire
<1>6. Again' = Again /\ Repeats' = Repeats /\ Active' = Active
  BY <1>3, <1>5, Unmoved DEF Again
<1>7. served \in Nat /\ fails \in Nat BY Counts DEF Types
<1> USE Sizes DEF Accounted
<1>8. CASE MarkFired(d.id, d.row.lastAt, n) /\ UNCHANGED <<bounds, ghosts>>
  <2>1. /\ \A j \in Id : j # d.id => table'[j] = table[j]
        /\ Rows' = Rows
        /\ d.id \in Rows => table'[d.id].nextAt = n
    BY <1>2, <1>8, MarkFiredIs DEF Types
  <2>2. d.id \notin Behind'
    <3>1. ~ Went(d.id, n) BY <1>1, <1>2, WentPast DEF Working
    <3> QED BY <1>3, <1>5, <2>1, <3>1 DEF Behind, Late, Names, Went
  <2>3. Behind' \ {d.id} = Behind \ {d.id}
    BY <1>3, <1>5, <2>1 DEF Behind, Late, Names, Went, Rows
  <2>4. Skipped \ {d.id} \subseteq Skipped'
    <3> SUFFICES ASSUME NEW j \in Skipped, j # d.id PROVE j \in Skipped'
      OBVIOUS
    <3>1. j \in Behind' /\ j \in Rows /\ table'[j] = table[j] /\ table[j].enabled
      BY <2>1, <2>3 DEF Skipped, Behind, Rows
    <3>2. PICK e \in ticker.due : e.id = j BY <1>1 DEF Skipped, ToSkip
    <3>3. e \in ticker.due \ {d} BY <3>2
    <3>4. ToSkip(j)' BY <1>4, <3>2, <3>3 DEF ToSkip
    <3> QED BY <3>1, <3>4 DEF Skipped
  <2>5. CASE d.id \in Behind
    <3>1. IsFiniteSet(Behind') /\ Cardinality(Behind') \in Nat
          /\ Cardinality(Behind') + 1 <= Cardinality(Behind)
      BY <2>2, <2>3, <2>5, Less DEF Finite
    <3>2. Finite' BY <1>6, <3>1 DEF Finite
    <3> QED BY <1>3, <1>6, <1>7, <1>8, <3>1, <3>2 DEF Debts, Credit, bounds
  <2>6. CASE d.id \notin Behind
    <3>1. Behind' = Behind BY <2>2, <2>3, <2>6
    <3>2. Skipped # {} => Skipped' # {} BY <2>4, <2>6 DEF Skipped
    <3>3. Finite' BY <1>6, <3>1 DEF Finite
    <3> QED BY <1>3, <1>6, <1>7, <1>8, <3>1, <3>2, <3>3 DEF Debts, Credit, bounds
  <2> QED BY <2>5, <2>6
<1>9. CASE fails' = fails + 1 /\ UNCHANGED table
  <2>1. Behind' = Behind BY <1>3, <1>5, <1>9 DEF Behind, Late, Names, Went, Rows
  <2>2. Finite' BY <1>6, <2>1 DEF Finite
  <2> QED BY <1>3, <1>6, <1>7, <1>9, <2>1, <2>2 DEF Debts, Credit
<1> QED BY <1>8, <1>9 DEF Fail, n

(* A start reads every row it has to skip. *)
LEMMA StartAccounted == ASSUME Types, Accounted, Read("starting", "skip") PROVE Accounted'
<1>1. ticker.at = "starting" /\ UNCHANGED <<table, api, served, sent>>
  BY DEF Read, Fail, bounds, ghosts
<1>2. /\ ticker'.at \in {"skip", "idle"}
      /\ ticker'.at = "skip" => ticker'.due = ListDue
      /\ ticker'.at # "skip" => ListDue = {} \/ fails' = fails + 1
      /\ fails' = fails \/ fails' = fails + 1
  BY Resting DEF Read, Fail, bounds, Types, TypeOK, Ticker
<1>3. InHand = {} /\ InHand' = {} /\ ToFire = {} /\ ToFire' = {}
  BY <1>1, <1>2 DEF InHand, ToFire
<1>4. Again' = Again /\ Repeats' = Repeats /\ Active' = Active
  BY <1>1, <1>3, Unmoved DEF Again
<1>5. Behind' = Behind BY <1>1, <1>3 DEF Behind, Late, Names, Went, Rows
<1>6. \A i \in Skipped : \E d \in ListDue : d.id = i
  <2> SUFFICES ASSUME NEW i \in Skipped PROVE \E d \in ListDue : d.id = i
    OBVIOUS
  <2>1. i \in Rows /\ table[i].enabled /\ Went(i, table[i].nextAt)
    BY <1>3 DEF Skipped, Behind, Late
  <2>2. i \in Id /\ table[i].nextAt \in Minute /\ table[i].nextAt <= clock
    BY <2>1 DEF Rows, Went, Types, TickerReads
  <2>3. [id |-> i, row |-> table[i]] \in ListDue BY <2>1, <2>2 DEF ListDue, IsDue
  <2> QED BY <2>3
<1>7. Skipped # {} => Skipped' # {} \/ fails' = fails + 1
  <2> SUFFICES ASSUME NEW i \in Skipped, fails' # fails + 1 PROVE i \in Skipped'
    OBVIOUS
  <2>1. PICK d \in ListDue : d.id = i BY <1>6
  <2>2. ToSkip(i)' BY <1>2, <2>1 DEF ToSkip
  <2> QED BY <1>1, <1>5, <2>2 DEF Skipped
<1>8. Finite' BY <1>4, <1>5 DEF Accounted, Finite
<1> QED
  BY <1>1, <1>2, <1>4, <1>5, <1>7, <1>8, Sizes, Counts DEF Accounted, Debts, Credit, Types

(* At a tick the rows that are behind, and due, are in hand. *)
LEMMA TickAccounted == ASSUME Types, Accounted, Read("idle", "fire") PROVE Accounted'
<1>1. ticker.at = "idle" /\ UNCHANGED <<table, api, served, sent>>
  BY DEF Read, Fail, bounds, ghosts
<1>2. fails' = fails \/ fails' = fails + 1 BY DEF Read, Fail, bounds
<1>3. /\ ticker'.at \in {"fire", "idle"}
      /\ ticker'.at = "fire" => ticker'.due = ListDue
  BY Resting DEF Read, Fail, Types, TypeOK, Ticker
<1>4. InHand = {} /\ ToFire = {} /\ Again = {} /\ Skipped = {}
  BY <1>1 DEF InHand, ToFire, Again, Skipped, ToSkip
<1>5. Repeats' = Repeats /\ Active' = Active BY <1>1, Unmoved
<1>6. Again' \subseteq Behind /\ Behind' \subseteq Behind \ Again'
  <2>1. CASE ticker'.at = "idle"
    <3>1. InHand' = {} /\ ToFire' = {} BY <2>1 DEF InHand, ToFire
    <3>2. Again' = {} BY <3>1 DEF Again
    <3>3. Behind' = Behind BY <1>1, <1>4, <3>1 DEF Behind, Late, Names, Went, Rows
    <3> QED BY <3>2, <3>3
  <2>2. CASE ticker'.at = "fire"
    <3>1. InHand' = ListDue /\ ToFire' = ListDue BY <1>3, <2>2 DEF InHand, ToFire
    <3>2. \A d \in ListDue : d.id \in Rows /\ d.row = table[d.id] /\ table[d.id].enabled
      BY DEF ListDue, IsDue
    <3>3. Rows' = Rows BY <1>1 DEF Rows
    <3>4. Again' \subseteq Behind
      <4> SUFFICES ASSUME NEW i \in Again' PROVE i \in Behind
        OBVIOUS
      <4>1. PICK d \in ListDue : d.id = i /\ Went(i, d.row.nextAt)'
        BY <3>1 DEF Again
      <4>2. i \in Rows /\ table[i].enabled /\ Went(i, table[i].nextAt)
        BY <1>1, <3>2, <4>1 DEF Went
      <4> QED BY <1>4, <4>2 DEF Behind, Late, Names
    <3>5. Behind' \subseteq Behind
      BY <1>1, <1>4, <3>1, <3>2, <3>3 DEF Behind, Late, Names, Went
    <3>6. \A i \in Again' : i \notin Behind'
      <4> SUFFICES ASSUME NEW i \in Again' PROVE i \notin Behind'
        OBVIOUS
      <4>1. PICK d \in ListDue : d.id = i BY <3>1 DEF Again
      <4>2. table[i].enabled /\ Names(ListDue, i, table[i].nextAt) BY <3>2, <4>1 DEF Names
      <4> QED BY <1>1, <3>1, <4>2 DEF Behind, Late, Names
    <3> QED BY <3>4, <3>5, <3>6
  <2> QED BY <1>3, <2>1, <2>2
<1>7. /\ IsFiniteSet(Again') /\ IsFiniteSet(Behind')
      /\ Cardinality(Again') \in Nat /\ Cardinality(Behind') \in Nat
      /\ Cardinality(Again') + Cardinality(Behind') <= Cardinality(Behind)
  BY <1>6, Apart DEF Accounted, Finite
<1>8. Cardinality(Again) = 0 BY <1>4, FS_EmptySet
<1>9. Finite' BY <1>5, <1>7 DEF Accounted, Finite
<1> QED
  BY <1>1, <1>2, <1>4, <1>5, <1>7, <1>8, <1>9, Sizes, Counts
  DEF Accounted, Debts, Credit, Types

(* A message that repeats one is of a row that was to do so. *)
LEMMA FireAccounted == ASSUME Types, Accounted, Fire PROVE Accounted'
<1> PICK d \in Earliest(ticker.due), ok \in BOOLEAN :
      /\ ticker' = [ticker EXCEPT !.at = "mark", !.cur = d, !.ok = ok]
      /\ sent' = IF ok THEN [sent EXCEPT ![d.id][d.row.nextAt] = @ + 1] ELSE sent
  BY DEF Fire
<1> DEFINE m == d.row.nextAt
<1>1. ticker.at = "fire" /\ UNCHANGED <<table, api, served, fails>> BY DEF Fire, bounds
<1>2. d \in ticker.due /\ d.id \in Id BY DueAre DEF Earliest, Types
<1>3. ticker'.at = "mark" /\ ticker'.due = ticker.due /\ ticker'.cur = d
  BY DEF Types, TypeOK, Ticker
<1>4. InHand' = InHand /\ ToFire = InHand /\ d \in InHand /\ ToFire' = ToFire \ {d}
  BY <1>1, <1>2, <1>3 DEF InHand, ToFire
<1>5. \A e \in ToFire \ {d} : e.id # d.id
  BY <1>1, <1>2, <1>4 DEF InHand, Types, TickerReads, Working
<1> HIDE DEF m
<1>6. \A i \in Id, k \in Minute :
        sent'[i][k] = IF ok /\ i = d.id /\ k = m THEN sent[i][k] + 1 ELSE sent[i][k]
  BY <1>2 DEF Types, TypeOK, m
<1>7. \A i \in Id : \A k : Went(i, k)' <=> Went(i, k) \/ (ok /\ i = d.id /\ k = m /\ k \in Minute)
  BY <1>6 DEF Went, Types, TypeOK
<1>8. Active' = Active BY <1>1, Unmoved
<1>9. Again' \subseteq Again \ {d.id} BY <1>4, <1>5, <1>7 DEF Again
<1>10. Skipped = {} /\ Skipped' = {} BY <1>1, <1>3 DEF Skipped, ToSkip
<1>11. Behind' \subseteq Behind
  <2> SUFFICES ASSUME NEW i \in Behind' PROVE i \in Behind
    OBVIOUS
  <2>1. i \in Id /\ i \in Rows /\ table'[i] = table[i] /\ Late(i)'
    BY <1>1 DEF Behind, Rows
  <2>2. Names(ToFire', i, table[i].nextAt) => Names(ToFire, i, table[i].nextAt)
    BY <1>4 DEF Names
  <2>3. i = d.id /\ table[i].nextAt = m => /\ Names(InHand, i, table[i].nextAt)
                                          /\ Names(ToFire, i, table[i].nextAt)
    BY <1>4 DEF Names, m
  <2>4. CASE table[i].enabled
    <3>1. Went(i, table[i].nextAt)' /\ ~ Names(InHand, i, table[i].nextAt)
      BY <1>4, <2>1, <2>4 DEF Late, Names, Went
    <3> QED BY <1>7, <2>1, <2>3, <2>4, <3>1 DEF Behind, Late
  <2>5. CASE ~ table[i].enabled
    <3>1. Went(i, table[i].nextAt)' \/ Names(ToFire', i, table[i].nextAt)
      BY <2>1, <2>5 DEF Late, Names, Went
    <3> QED BY <1>7, <2>1, <2>2, <2>3, <2>5, <3>1 DEF Behind, Late
  <2> QED BY <2>4, <2>5
<1>12. /\ IsFiniteSet(Behind') /\ Cardinality(Behind') \in Nat
       /\ Cardinality(Behind') <= Cardinality(Behind)
  BY <1>11, Part DEF Accounted, Finite
<1> USE Sizes DEF Accounted
<1>13. CASE ok /\ Went(d.id, m)
  <2> DEFINE x == <<<<d.id, m>>, sent[d.id][m] + 1>>
  <2>1. d.id \in Again BY <1>2, <1>4, <1>13 DEF Again, m
  <2>2. IsFiniteSet(Again') /\ Cardinality(Again') \in Nat
        /\ Cardinality(Again') + 1 <= Cardinality(Again)
    BY <1>9, <2>1, Less DEF Finite
  <2>3. Repeats' \subseteq Repeats \cup {x}
    <3> SUFFICES ASSUME NEW i \in Id, NEW k \in Minute, NEW n \in 2 .. sent'[i][k]
                 PROVE  <<<<i, k>>, n>> \in Repeats \cup {x}
      BY DEF Repeats
    <3>1. n \in 2 .. sent[i][k] => <<<<i, k>>, n>> \in Repeats
      BY RepeatsHas
    <3>2. sent[i][k] \in Nat BY DEF Types, TypeOK
    <3>3. n \notin 2 .. sent[i][k] => i = d.id /\ k = m /\ n = sent[i][k] + 1
      BY <1>6, <3>2
    <3> QED BY <3>1, <3>3
  <2>4. IsFiniteSet(Repeats') /\ Cardinality(Repeats') \in Nat
        /\ Cardinality(Repeats') <= Cardinality(Repeats) + 1
    BY <2>3, More DEF Finite
  <2>5. Finite' BY <1>8, <1>12, <2>2, <2>4 DEF Finite
  <2> QED BY <1>1, <1>8, <1>10, <1>12, <2>2, <2>4, <2>5, Counts DEF Debts, Credit, Types
<1>14. CASE ~ (ok /\ Went(d.id, m))
  <2>1. IsFiniteSet(Again') /\ Cardinality(Again') \in Nat
        /\ Cardinality(Again') <= Cardinality(Again)
    BY <1>9, Part DEF Finite
  <2>2. Repeats' \subseteq Repeats
    <3> SUFFICES ASSUME NEW i \in Id, NEW k \in Minute, NEW n \in 2 .. sent'[i][k]
                 PROVE  <<<<i, k>>, n>> \in Repeats
      BY DEF Repeats
    <3>1. sent[i][k] \in Nat BY DEF Types, TypeOK
    <3>2. n \in 2 .. sent[i][k] BY <1>6, <1>14, <3>1 DEF Went
    <3> QED BY <3>2, RepeatsHas
  <2>3. IsFiniteSet(Repeats') /\ Cardinality(Repeats') \in Nat
        /\ Cardinality(Repeats') <= Cardinality(Repeats)
    BY <2>2, Part DEF Finite
  <2>4. Finite' BY <1>8, <1>12, <2>1, <2>3 DEF Finite
  <2> QED BY <1>1, <1>8, <1>10, <1>12, <2>1, <2>3, <2>4, Counts DEF Debts, Credit, Types
<1> QED BY <1>13, <1>14

(* A row that is advanced is not behind; one that cannot be may be, and    *)
(* that is a failure.                                                      *)
LEMMA AdvanceAccounted == ASSUME Types, Accounted, Advance PROVE Accounted'
<1> DEFINE d == ticker.cur
           l == IF ticker.ok THEN ticker.now ELSE d.row.lastAt
           n == Next[d.row.cron][ticker.now]
<1>1. ticker.at = "mark" /\ d \in ticker.due BY DEF Advance, Types, TickerReads
<1>2. d.id \in Id /\ l \in Nat /\ n \in Nat /\ n > ticker.now
  <2>1. ticker.now \in Minute /\ ticker.now \in Nat
    BY <1>1 DEF Types, TickerReads, Working, Minute
  <2> QED BY <1>1, <2>1, DueAre, NextIsLater DEF Types
<1> HIDE DEF l, n
<1>3. ticker' = Past(d, "fire") /\ UNCHANGED <<api, served, sent>>
  BY DEF Advance, Fail, bounds, ghosts
<1>4. \/ MarkFired(d.id, l, n) /\ fails' = fails
      \/ UNCHANGED table /\ fails' = fails + 1
  BY DEF Advance, Fail, bounds, l, n
<1>5. InHand' = InHand \ {d} /\ ToFire' = ToFire /\ ToFire = InHand \ {d}
  <2>1. \/ ticker'.at = "idle" /\ ticker.due = {d}
        \/ ticker'.at = "fire" /\ ticker'.due = ticker.due \ {d}
    BY <1>1, <1>3, PastIs, Resting DEF Types, Working
  <2> QED BY <1>1, <2>1 DEF InHand, ToFire
<1>6. \A e \in InHand \ {d} : e.id # d.id
  BY <1>1 DEF InHand, Types, TickerReads, Working
<1>7. \A j, k : j # d.id => (Names(InHand', j, k) <=> Names(InHand, j, k))
  BY <1>5 DEF Names
<1> HIDE DEF d
<1>8. Skipped = {} /\ Skipped' = {}
  <2>1. ticker'.at \in {"idle", "fire"}
    BY <1>1, <1>3, PastIs, Resting DEF Types, Working, d
  <2> QED BY <1>1, <2>1 DEF Skipped, ToSkip
<1>9. Again' = Again /\ Repeats' = Repeats /\ Active' = Active
  BY <1>3, <1>5, Unmoved DEF Again, Went
<1>10. \A j, k : Went(j, k)' <=> Went(j, k) BY <1>3 DEF Went
<1> USE Sizes DEF Accounted
<1>11. CASE MarkFired(d.id, l, n) /\ fails' = fails
  <2>1. /\ \A j \in Id : j # d.id => table'[j] = table[j]
        /\ Rows' = Rows
        /\ d.id \in Rows => table'[d.id].nextAt = n
    BY <1>2, <1>11, MarkFiredIs DEF Types
  <2>2. ~ Went(d.id, n) BY <1>1, <1>2, WentPast DEF Working
  <2>3. ~ Names(ToFire', d.id, n) BY <1>5, <1>6 DEF Names
  <2>4. Behind' \subseteq Behind
    <3> SUFFICES ASSUME NEW j \in Behind' PROVE j \in Behind
      OBVIOUS
    <3>1. j \in Rows /\ j \in Id /\ Late(j)' BY <2>1 DEF Behind, Rows
    <3>2. CASE j = d.id
      <4>1. table'[j].nextAt = n BY <2>1, <3>1, <3>2
      <4> QED BY <1>10, <2>2, <2>3, <3>1, <3>2, <4>1 DEF Late, Names
    <3>3. CASE j # d.id
      <4>1. table'[j] = table[j] BY <2>1, <3>1, <3>3
      <4> QED BY <1>5, <1>7, <1>10, <3>1, <3>3, <4>1 DEF Late, Behind, Names
    <3> QED BY <3>2, <3>3
  <2>5. IsFiniteSet(Behind') /\ Cardinality(Behind') \in Nat
        /\ Cardinality(Behind') <= Cardinality(Behind)
    BY <2>4, Part DEF Finite
  <2>6. Finite' BY <1>9, <2>5 DEF Finite
  <2> QED BY <1>3, <1>8, <1>9, <1>11, <2>5, <2>6, Counts DEF Debts, Credit, Types
<1>12. CASE UNCHANGED table /\ fails' = fails + 1
  <2>1. Behind' \subseteq Behind \cup {d.id}
    <3> SUFFICES ASSUME NEW j \in Behind', j # d.id PROVE j \in Behind
      OBVIOUS
    <3>1. j \in Rows /\ table'[j] = table[j] /\ Late(j)' BY <1>12 DEF Behind, Rows
    <3> QED BY <1>5, <1>7, <1>10, <3>1 DEF Late, Behind, Names
  <2>2. IsFiniteSet(Behind') /\ Cardinality(Behind') \in Nat
        /\ Cardinality(Behind') <= Cardinality(Behind) + 1
    BY <2>1, More DEF Finite
  <2>3. Finite' BY <1>9, <2>2 DEF Finite
  <2> QED BY <1>3, <1>8, <1>9, <1>12, <2>2, <2>3, Counts DEF Debts, Credit, Types
<1> QED BY <1>4, <1>11, <1>12

(* When the process stops, the rows in hand are behind, but nothing is in  *)
(* hand and no request goes on; of those that were fired and not advanced  *)
(* there is one at most, and the next start skips it.                      *)
LEMMA StopAccounted == ASSUME Types, Accounted, Stop PROVE Accounted'
<1>1. /\ UNCHANGED <<table, served, fails, sent>> /\ ticker' = Starting
      /\ api' = [t \in Thread |-> Idle]
  BY DEF Stop, ghosts
<1>2. InHand' = {} /\ ToFire' = {} BY <1>1, Resting DEF InHand, ToFire
<1>3. Again' = {} /\ Active' = {}
  <2>1. Active' = {} BY <1>1 DEF Active, Idle
  <2> QED BY <1>2, <2>1 DEF Again
<1>4. Repeats' = Repeats /\ Rows' = Rows BY <1>1, Unmoved DEF Rows
<1>5. \A i \in Behind' : i \in Rows /\ Went(i, table[i].nextAt)
  BY <1>1, <1>2 DEF Behind, Late, Names, Went, Rows
<1>6. Skipped' = {i \in Behind' : table[i].enabled}
  BY <1>1, Resting DEF Skipped, ToSkip
<1>7. served \in Nat /\ fails \in Nat BY Counts DEF Types
<1>8. Cardinality(Again') = 0 /\ Cardinality(Active') = 0 /\ IsFiniteSet({})
  BY <1>3, FS_EmptySet
<1> USE Sizes DEF Accounted
<1>9. CASE Behind' \subseteq Behind \cup Again /\ (Skipped # {} => Skipped' # {})
  <2>1. /\ IsFiniteSet(Behind') /\ Cardinality(Behind') \in Nat
        /\ Cardinality(Behind') <= Cardinality(Behind) + Cardinality(Again)
    BY <1>9, Both DEF Finite
  <2>2. Finite' BY <1>3, <1>4, <1>8, <2>1 DEF Finite
  <2> QED BY <1>1, <1>4, <1>7, <1>8, <1>9, <2>1, <2>2 DEF Debts, Credit
<1>10. CASE ticker.at \in {"starting", "idle", "skip"}
  <2>1. InHand = {} /\ ToFire = {} BY <1>10 DEF InHand, ToFire
  <2>2. Behind' = Behind BY <1>1, <1>2, <2>1 DEF Behind, Late, Names, Went, Rows
  <2>3. Skipped \subseteq Skipped' BY <1>6, <2>2 DEF Skipped
  <2> QED BY <1>9, <2>2, <2>3
<1>11. CASE ticker.at \in {"fire", "mark"}
  <2>1. Skipped = {} BY <1>11 DEF Skipped, ToSkip
  <2>2. ASSUME NEW i \in Behind', i \notin Behind \cup Again
        PROVE  ticker.at = "mark" /\ i = ticker.cur.id /\ i \in Skipped'
    <3>1. i \in Rows /\ i \in Id /\ Went(i, table[i].nextAt) BY <1>5, <2>2 DEF Rows
    <3>2. table[i].enabled /\ Names(InHand, i, table[i].nextAt)
      BY <2>2, <3>1 DEF Behind, Late
    <3>3. PICK d \in InHand : d.id = i /\ d.row.nextAt = table[i].nextAt BY <3>2 DEF Names
    <3>4. d \notin ToFire BY <2>2, <3>1, <3>3 DEF Again
    <3>5. ticker.at = "mark" /\ d = ticker.cur BY <3>3, <3>4 DEF ToFire
    <3> QED BY <1>6, <3>2, <3>3, <3>5
  <2>3. CASE Behind' \subseteq Behind \cup Again BY <1>9, <2>1, <2>3
  <2>4. CASE ~ (Behind' \subseteq Behind \cup Again)
    <3>1. Skipped' # {} BY <2>2, <2>4
    <3>2. Behind' \subseteq (Behind \cup Again) \cup {ticker.cur.id} BY <2>2
    <3>3. /\ IsFiniteSet(Behind \cup Again)
          /\ Cardinality(Behind \cup Again) \in Nat
          /\ Cardinality(Behind \cup Again) <= Cardinality(Behind) + Cardinality(Again)
      BY Both DEF Finite
    <3>4. /\ IsFiniteSet(Behind') /\ Cardinality(Behind') \in Nat
          /\ Cardinality(Behind') <= Cardinality(Behind \cup Again) + 1
      BY <3>2, <3>3, More
    <3>5. Finite' BY <1>3, <1>4, <1>8, <3>4 DEF Finite
    <3> QED BY <1>1, <1>4, <1>7, <1>8, <2>1, <3>1, <3>3, <3>4, <3>5 DEF Debts, Credit
  <2> QED BY <2>3, <2>4
<1> QED BY <1>10, <1>11 DEF Types, TypeOK, Ticker

-----------------------------------------------------------------------------
(* So the repetitions are accounted for at all times.                      *)

(* At the start nothing is owed. *)
LEMMA AccountedInit == Init => Accounted
<1> SUFFICES ASSUME Init PROVE Accounted OBVIOUS
<1>1. Repeats = {} BY DEF Init, Repeats
<1>2. InHand = {} /\ ToFire = {} BY Resting DEF Init, InHand, ToFire
<1>3. Again = {} BY <1>2 DEF Again
<1>4. Behind = {} BY <1>2 DEF Init, Behind, Late, Names, Went, Rows
<1>5. Active = {} BY DEF Init, Active, Idle
<1>6. Finite /\ Debts = 0 BY <1>1, <1>3, <1>4, <1>5, FS_EmptySet DEF Finite, Debts
<1>7. Credit \in Nat BY DEF Init, Credit
<1> QED BY <1>6, <1>7 DEF Accounted

(* Every step keeps the invariant: the two parts, step by step. *)
LEMMA SchedulerStep == SchedulerInv /\ [NextStep]_vars => SchedulerInv'
<1> SUFFICES ASSUME SchedulerInv, [NextStep]_vars PROVE Types' /\ Accounted'
  BY DEF SchedulerInv, Types
<1>1. Types /\ Accounted BY DEF SchedulerInv, Types
<1>2. ASSUME NEW t \in Thread, Arrive(t) PROVE Types' /\ Accounted'
  BY <1>1, <1>2, ArriveTypes, ArriveAccounted
<1>3. ASSUME NEW t \in Thread, Handle(t) PROVE Types' /\ Accounted'
  BY <1>1, <1>3, HandleTypes, HandleAccounted
<1>4. CASE Read("starting", "skip")
  BY <1>1, <1>4, ReadTypes, StartAccounted DEF Working
<1>5. CASE Read("idle", "fire") BY <1>1, <1>5, ReadTypes, TickAccounted DEF Working
<1>6. CASE SkipMissed BY <1>1, <1>6, SkipTypes, SkipAccounted
<1>7. CASE Fire BY <1>1, <1>7, FireTypes, FireAccounted
<1>8. CASE Advance BY <1>1, <1>8, AdvanceTypes, AdvanceAccounted
<1>9. CASE Stop BY <1>1, <1>9, OtherTypes, StopAccounted
<1>10. CASE Pass \/ Restart \/ UNCHANGED vars
  <2>1. UNCHANGED <<table, ticker, api, sent, served, fails>>
    BY <1>10 DEF Pass, Restart, vars, bounds, ghosts
  <2>2. Accounted' BY <1>1, <2>1, Unmoved DEF Accounted, Finite, Debts, Credit
  <2> QED BY <1>1, <1>10, <2>2, OtherTypes
<1> QED
  BY <1>2, <1>3, <1>4, <1>5, <1>6, <1>7, <1>8, <1>9, <1>10 DEF NextStep, Scheduling

(* In every reachable state the types hold, what was read is as it was     *)
(* read, and for every repetition, past or to come, there is a request, a  *)
(* failure or a row about to be skipped (scheduler.go:48-123).             *)
THEOREM SchedulerInvariant == Spec => []SchedulerInv
<1>1. Init => SchedulerInv BY TypesInit, AccountedInit DEF SchedulerInv, Types
<1> QED BY <1>1, SchedulerStep, PTL DEF Spec

(* However the scheduler, requests, failing statements and stops           *)
(* interleave, no more messages repeat an occurrence than requests have    *)
(* begun and statements have failed (scheduler.go:48-123, schedules.go).   *)
THEOREM RepetitionsAreBounded == Spec => []RepeatsAreBounded
<1>1. SchedulerInv => RepeatsAreBounded
  <2> SUFFICES ASSUME SchedulerInv PROVE RepeatsAreBounded OBVIOUS
  <2>1. served \in Nat /\ fails \in Nat BY Counts DEF SchedulerInv
  <2>2. Skipped # {} => Cardinality(Behind) >= 1
    <3> SUFFICES ASSUME NEW i \in Skipped PROVE Cardinality(Behind) >= 1
      OBVIOUS
    <3>1. i \in Behind BY DEF Skipped
    <3>2. Cardinality({}) \in Nat /\ Cardinality({}) + 1 <= Cardinality(Behind)
      BY <3>1, Less DEF SchedulerInv, Accounted, Finite
    <3> QED BY <3>2, Sizes DEF SchedulerInv, Accounted
  <2> QED
    BY <2>1, <2>2, Sizes DEF SchedulerInv, Accounted, Debts, Credit, RepeatsAreBounded
<1> QED BY <1>1, SchedulerInvariant, PTL
=============================================================================
